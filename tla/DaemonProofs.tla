---------------------------- MODULE DaemonProofs ----------------------------
(***************************************************************************)
(* What the daemon's reports keep for every length of the failure record,  *)
(* every bound on failures in a row and every combination of faults: the   *)
(* newest heartbeat stays, the streak survives a full disk, and a standing *)
(* condition stays one event.                                              *)
(* What the crash journal keeps for any number of runs, overlapping starts,*)
(* boots and reused pids, and any size at which it is moved aside: no crash*)
(* of a run whose start was alone is invented, a found one is found again  *)
(* until a run that began after it delivers a report, and it is one event  *)
(* of the failure record unless starts that overlap, or a run whose        *)
(* entries were moved aside, come between.                                 *)
(***************************************************************************)
EXTENDS MCDaemon, SequenceTheorems, FiniteSetTheorems, TLAPS

USE DaemonAssumption

Writers == {"loop", "watchdog"}
Outcomes == {"locked", "paused", "offline", "offlineToo", "error", "errorToo", "panic", "ok", "nothing",
             "revoked"}

(* A standing event has no equal before it that only standing ones separate from it. *)
OneEach(s) ==
    \A m, n \in DOMAIN s : m < n /\ s[m] = s[n] /\ s[m] \in Standing
        => \E k \in m..n : s[k] \notin Standing

Recs == [streak : Nat, recent : Seq(Kinds)]
Kept(r) == r \in Recs /\ Len(r.recent) <= MaxRecent /\ OneEach(r.recent)

ControlInv ==
    /\ pc \in {"down", "init", "flush", "beat", "beating", "returning", "join", "judge", "write",
               "report", "reporting", "telemetry", "idle", "final", "waiting"}
    /\ watchdog \in {"off", "armed", "write", "send", "sending"}
    /\ hbMu \in {"free", "engine", "watchdog", "judge"}
    /\ beaten \in BOOLEAN /\ overtaken \in BOOLEAN /\ last \in BOOLEAN
    /\ pc \in {"beat", "beating", "returning", "join", "judge"} => out \in Outcomes
    /\ watchdog # "off" => pc \in {"flush", "beat", "beating", "returning", "join"}

(* The mutex is held by the one who is sending. *)
MutexInv ==
    /\ hbMu = "engine" <=> pc = "beating"
    /\ hbMu = "watchdog" <=> watchdog = "sending"
    /\ hbMu = "judge" <=> pc = "reporting"

(* Only a stall heartbeat begun after the flush's own can land over it.     *)
BeatInv ==
    /\ pc \in {"flush", "beat", "beating", "idle"} => ~beaten
    /\ beaten /\ watchdog = "sending" => overtaken
    /\ beaten /\ pc \in {"returning", "join", "judge", "write", "final"} =>
          remote = "flush" \/ stray = "landed" \/ overtaken

(* Every copy of the record is in order, and the one about to be written is *)
(* the one in memory.                                                       *)
RecordInv ==
    /\ Kept(disk)
    /\ mem = Absent \/ Kept(mem)
    /\ verb = Absent \/ Kept(verb)
    /\ DOMAIN pending = Writers /\ \A g \in Writers : Kept(pending[g])
    /\ pc = "write" => mem = pending["loop"]
    /\ watchdog = "write" => mem = pending["watchdog"]

(* What is carried is the count, unless a cause says why not.               *)
StreakInv == truth \in Nat /\ lost \subseteq {"verb", "exit", "disk"} /\ StreakIsKept

(* No record is in memory where there is no runtime.                        *)
AwayInv == pc \in {"down", "init", "waiting"} => mem = Absent

ReportInv == ControlInv /\ MutexInv /\ BeatInv /\ RecordInv /\ StreakInv /\ AwayInv

-----------------------------------------------------------------------------
(* The list of events. *)

(* A record is not an absent one. *)
LEMMA RecordIsNotAbsent == ASSUME NEW r, Kept(r) PROVE r # Absent
<1>1. DOMAIN r = {"streak", "recent"} /\ DOMAIN Absent = {"absent"}
  BY DEF Kept, Recs, Absent
<1>2. "streak" # "absent"
  OBVIOUS
<1> QED
  BY <1>1, <1>2

(* Cutting the list keeps standing events single. *)
LEMMA CutKept ==
    ASSUME NEW s \in Seq(Kinds), OneEach(s)
    PROVE  LastN(s) \in Seq(Kinds) /\ Len(LastN(s)) <= MaxRecent /\ OneEach(LastN(s))
<1>1. CASE Len(s) <= MaxRecent
  BY <1>1 DEF LastN
<1>2. CASE Len(s) > MaxRecent
  <2> DEFINE d == Len(s) - MaxRecent
             t == SubSeq(s, d + 1, Len(s))
  <2>1. d \in Nat /\ Len(s) \in Nat /\ d + MaxRecent = Len(s) /\ LastN(s) = t
    BY <1>2 DEF LastN
  <2>2. t \in Seq(Kinds) /\ Len(t) = MaxRecent /\ \A i \in 1..MaxRecent : t[i] = s[i + d]
    <3>1. d + 1 \in 1..Len(s) /\ Len(s) - (d + 1) + 1 = MaxRecent
      BY <1>2, <2>1
    <3>2. \A i \in (d + 1)..Len(s) : s[i] \in Kinds
      BY <3>1
    <3>3. /\ t \in Seq(Kinds) /\ Len(t) = Len(s) - (d + 1) + 1
          /\ \A i \in 1..(Len(s) - (d + 1) + 1) : t[i] = s[(d + 1) + i - 1]
      BY <3>1, <3>2, SubSeqProperties
    <3>4. \A i \in 1..MaxRecent : (d + 1) + i - 1 = i + d
      BY <2>1
    <3> QED
      BY <3>1, <3>3, <3>4
  <2>3. DOMAIN t = 1..MaxRecent /\ DOMAIN s = 1..Len(s)
    BY <2>2
  <2> HIDE DEF t, d
  <2>4. ASSUME NEW m \in 1..MaxRecent, NEW n \in 1..MaxRecent, m < n, t[m] = t[n], t[m] \in Standing
        PROVE  \E k \in m..n : t[k] \notin Standing
    <3>1. m + d \in DOMAIN s /\ n + d \in DOMAIN s /\ m + d < n + d
      BY <2>1, <2>3, <2>4
    <3>2. PICK k \in (m + d)..(n + d) : s[k] \notin Standing
      BY <2>2, <2>4, <3>1 DEF OneEach
    <3>3. k - d \in m..n /\ k - d \in 1..MaxRecent /\ (k - d) + d = k
      BY <2>1, <2>4, <3>2
    <3> QED
      BY <2>2, <3>2, <3>3
  <2>5. OneEach(t)
    BY <2>3, <2>4 DEF OneEach
  <2> QED
    BY <2>1, <2>2, <2>5
<1> QED
  BY <1>1, <1>2

(* Appending keeps them single when the event is not standing, or no equal one ends the list. *)
LEMMA AppendKept ==
    ASSUME NEW s \in Seq(Kinds), OneEach(s), NEW kind \in Kinds,
           \A n \in DOMAIN s : s[n] = kind /\ kind \in Standing =>
               \E m \in n..Len(s) : s[m] \notin Standing
    PROVE  Append(s, kind) \in Seq(Kinds) /\ OneEach(Append(s, kind))
<1> DEFINE t == Append(s, kind)
<1>1. /\ t \in Seq(Kinds) /\ Len(t) = Len(s) + 1 /\ t[Len(s) + 1] = kind /\ Len(s) \in Nat
      /\ \A i \in 1..Len(s) : t[i] = s[i]
  OBVIOUS
<1>2. DOMAIN t = 1..(Len(s) + 1) /\ DOMAIN s = 1..Len(s)
  BY <1>1
<1> HIDE DEF t
<1>3. ASSUME NEW m \in DOMAIN t, NEW n \in DOMAIN t, m < n, t[m] = t[n], t[m] \in Standing
      PROVE  \E k \in m..n : t[k] \notin Standing
  <2>1. m \in 1..Len(s) /\ t[m] = s[m]
    BY <1>1, <1>2, <1>3
  <2>2. CASE n = Len(s) + 1
    <3>1. PICK k \in m..Len(s) : s[k] \notin Standing
      BY <1>1, <1>2, <1>3, <2>1, <2>2
    <3> QED
      BY <1>1, <2>1, <2>2, <3>1
  <2>3. CASE n # Len(s) + 1
    <3>1. n \in 1..Len(s) /\ t[n] = s[n]
      BY <1>1, <1>2, <2>3
    <3>2. PICK k \in m..n : s[k] \notin Standing
      BY <1>2, <1>3, <2>1, <3>1 DEF OneEach
    <3> QED
      BY <1>1, <2>1, <3>1, <3>2
  <2> QED
    BY <2>2, <2>3
<1> QED
  BY <1>1, <1>3 DEF OneEach, t

(* An event that is not standing is added without harm. *)
LEMMA AppendedKept ==
    ASSUME NEW r, Kept(r), NEW kind \in Kinds,
           \A n \in DOMAIN r.recent : r.recent[n] = kind /\ kind \in Standing =>
               \E m \in n..Len(r.recent) : r.recent[m] \notin Standing
    PROVE  Kept(Appended(r, kind)) /\ Appended(r, kind).streak = r.streak
<1> DEFINE t == LastN(Append(r.recent, kind))
<1>1. r \in Recs /\ r.recent \in Seq(Kinds) /\ OneEach(r.recent)
  BY DEF Kept, Recs
<1>2. t \in Seq(Kinds) /\ Len(t) <= MaxRecent /\ OneEach(t)
  BY <1>1, AppendKept, CutKept
<1>3. Appended(r, kind) = [r EXCEPT !.recent = t]
  BY DEF Appended
<1> HIDE DEF t
<1> QED
  BY <1>1, <1>2, <1>3 DEF Kept, Recs

(* A standing event is refreshed or added, and stays single. *)
LEMMA StandKept ==
    ASSUME NEW r, Kept(r), NEW kind \in Standing
    PROVE  Kept(Stand(r, kind)) /\ Stand(r, kind).streak = r.streak
<1> DEFINE tail == {n \in DOMAIN r.recent :
                      \A m \in n..Len(r.recent) : r.recent[m] \in Standing}
<1>1. CASE \E n \in tail : r.recent[n] = kind
  BY <1>1 DEF Stand
<1>2. CASE ~\E n \in tail : r.recent[n] = kind
  <2>1. Stand(r, kind) = Appended(r, kind)
    BY <1>2 DEF Stand
  <2>2. \A n \in DOMAIN r.recent : r.recent[n] = kind =>
           \E m \in n..Len(r.recent) : r.recent[m] \notin Standing
    BY <1>2
  <2>3. kind \in Kinds
    BY DEF Standing, Kinds
  <2> QED
    BY <2>1, <2>2, <2>3, AppendedKept
<1> QED
  BY <1>1, <1>2

(* A failed run is counted. *)
LEMMA CountedKept ==
    ASSUME NEW r, Kept(r)
    PROVE  Kept(Counted(r, "counted")) /\ Counted(r, "counted").streak = r.streak + 1
<1> DEFINE a == Appended(r, "counted")
<1>1. "counted" \in Kinds /\ "counted" \notin Standing
  BY DEF Kinds, Standing
<1>2. Kept(a) /\ a.streak = r.streak
  BY <1>1, AppendedKept
<1>3. Counted(r, "counted") = [a EXCEPT !.streak = a.streak + 1]
  BY DEF Counted
<1>4. r.streak + 1 \in Nat
  BY DEF Kept, Recs
<1> HIDE DEF a
<1> QED
  BY <1>2, <1>3, <1>4 DEF Kept, Recs

(* An event of another kind than the standing ones is added. *)
LEMMA NotedKept ==
    ASSUME NEW r, Kept(r), NEW kind \in {"noted", "verb"}
    PROVE  Kept(Appended(r, kind)) /\ Appended(r, kind).streak = r.streak
<1>1. kind \in Kinds /\ kind \notin Standing
  BY DEF Kinds, Standing
<1> QED
  BY <1>1, AppendedKept

(* A good run ends the streak. *)
LEMMA ResetKept ==
    ASSUME NEW r, Kept(r)
    PROVE  Kept([r EXCEPT !.streak = 0]) /\ [r EXCEPT !.streak = 0].streak = 0
  BY DEF Kept, Recs

(* The judgement of an outcome keeps the record in order. *)
LEMMA JudgedKept ==
    ASSUME NEW r, Kept(r), NEW o, o \in {"ok", "paused", "offline"} \cup Failing
    PROVE  /\ Kept(Judged(r, o))
           /\ Judged(r, o).streak = IF o \in {"ok", "paused"} THEN 0
                                    ELSE IF o \in Failing THEN r.streak + 1 ELSE r.streak
<1>1. CASE o \in {"ok", "paused"}
  BY <1>1, ResetKept DEF Judged
<1>2. CASE o = "offline"
  BY <1>2, StandKept DEF Judged, Standing, Failing
<1>3. CASE o \in Failing
  BY <1>3, CountedKept DEF Judged, Failing
<1> QED
  BY <1>1, <1>2, <1>3

(* What is loaded is one of the copies. *)
LEMMA LoadedKept ==
    ASSUME RecordInv
    PROVE  /\ Kept(Loaded) /\ Loaded # Absent /\ Loaded.streak \in Nat
           /\ mem # Absent => Loaded = mem
  BY RecordIsNotAbsent DEF RecordInv, Loaded, Kept, Recs

-----------------------------------------------------------------------------
(* The steps. *)

(* The loop and its watchdog keep to their states. *)
LEMMA ControlStep == ASSUME ReportInv, DaemonNext PROVE ControlInv'
<1> USE DEF loopVars, beatVars, countVars, recordVars, envVars
<1>0. ControlInv
  BY DEF ReportInv
<1>1. CASE InitRevoked
  BY <1>0, <1>1 DEF InitRevoked, ControlInv, Outcomes
<1>2. CASE BeginTick
  BY <1>0, <1>2 DEF BeginTick, BeginFlush, ControlInv, Outcomes
<1>3. CASE FlushEnds
  BY <1>0, <1>3 DEF FlushEnds, ControlInv, Outcomes
<1>4. CASE FlushCompletes
  BY <1>0, <1>4 DEF FlushCompletes, ControlInv, Outcomes
<1>5. CASE EngineBeats
  <2>1. CASE pc = "beat" /\ BeginBeat("engine") /\ pc' = "beating" /\ UNCHANGED <<out, last, watchdog>>
    BY <1>0, <2>1 DEF BeginBeat, Lock, ControlInv, Outcomes
  <2>2. CASE pc = "beat" /\ pc' = "returning" /\ out' = "revoked" /\ UNCHANGED <<last, watchdog, beatVars>>
    BY <1>0, <2>2 DEF ControlInv, Outcomes
  <2>3. CASE pc = "beating" /\ BeatEnds("flush") /\ pc' = "returning" /\ UNCHANGED <<last, watchdog>>
             /\ out' \in {"revoked", out}
    BY <1>0, <2>3 DEF BeatEnds, ControlInv, Outcomes
  <2>4. EngineBeats => (pc = "beating" => out' \in {"revoked", out})
    BY DEF EngineBeats
  <2> QED
    BY <1>5, <2>1, <2>2, <2>3, <2>4 DEF EngineBeats
<1>6. CASE StopWatch
  BY <1>0, <1>6 DEF StopWatch, ControlInv, Outcomes
<1>7. CASE Join
  BY <1>0, <1>7 DEF Join, ControlInv, Outcomes
<1>8. CASE Judge
  BY <1>0, <1>8 DEF Judge, ControlInv, Outcomes
<1>9. CASE JudgeWrites
  BY <1>0, <1>9 DEF JudgeWrites, ControlInv, Outcomes
<1>10. CASE FailureBeats
  BY <1>0, <1>10 DEF FailureBeats, BeginBeat, Lock, BeatEnds, ControlInv, Outcomes
<1>11. CASE SubmitTelemetry
  BY <1>0, <1>11 DEF SubmitTelemetry, ControlInv, Outcomes
<1>12. CASE FinalSlice
  BY <1>0, <1>12 DEF FinalSlice, BeginFlush, ControlInv, Outcomes
<1>13. CASE Waited
  BY <1>0, <1>13 DEF Waited, ControlInv, Outcomes
<1>14. CASE WatchdogWrites
  BY <1>0, <1>14 DEF WatchdogWrites, ControlInv, Outcomes
<1>15. CASE WatchdogSends
  BY <1>0, <1>15 DEF WatchdogSends, BeginBeat, Lock, BeatEnds, Cancelled, ControlInv, Outcomes
<1>16. CASE WatchdogStops
  BY <1>0, <1>16 DEF WatchdogStops, Cancelled, ControlInv, Outcomes
<1>17. CASE WatchdogFires
  BY <1>0, <1>17 DEF WatchdogFires, ControlInv, Outcomes
<1>18. CASE StartDaemon
  BY <1>0, <1>18 DEF StartDaemon, ControlInv, Outcomes
<1>19. CASE InitFails
  BY <1>0, <1>19 DEF InitFails, ControlInv, Outcomes
<1>20. CASE Recycle
  BY <1>0, <1>20 DEF Recycle, ControlInv, Outcomes
<1>21. CASE StrayLands
  BY <1>0, <1>21 DEF StrayLands, ControlInv, Outcomes
<1>22. CASE Signal
  BY <1>0, <1>22 DEF Signal, ControlInv, Outcomes
<1>23. CASE Relogin
  BY <1>0, <1>23 DEF Relogin, ControlInv, Outcomes
<1>24. CASE DiskFills
  BY <1>0, <1>24 DEF DiskFills, ControlInv, Outcomes
<1>25. CASE Dies
  BY <1>0, <1>25 DEF Dies, ControlInv, Outcomes
<1>26. CASE VerbReads
  BY <1>0, <1>26 DEF VerbReads, ControlInv, Outcomes
<1>27. CASE VerbWrites
  BY <1>0, <1>27 DEF VerbWrites, ControlInv, Outcomes
<1> QED
  BY <1>1, <1>2, <1>3, <1>4, <1>5, <1>6, <1>7, <1>8, <1>9, <1>10, <1>11, <1>12, <1>13, <1>14, <1>15, <1>16, <1>17, <1>18, <1>19, <1>20, <1>21, <1>22, <1>23, <1>24, <1>25, <1>26, <1>27
  DEF DaemonNext, LoopStep, WatchdogStep

(* The mutex passes from one sender to the next. *)
LEMMA MutexStep == ASSUME ReportInv, DaemonNext PROVE MutexInv'
<1> USE DEF loopVars, beatVars, countVars, recordVars, envVars
<1>0. ControlInv /\ MutexInv
  BY DEF ReportInv
<1>1. CASE InitRevoked
  BY <1>0, <1>1 DEF InitRevoked, ControlInv, MutexInv
<1>2. CASE BeginTick
  BY <1>0, <1>2 DEF BeginTick, BeginFlush, ControlInv, MutexInv
<1>3. CASE FlushEnds
  BY <1>0, <1>3 DEF FlushEnds, ControlInv, MutexInv
<1>4. CASE FlushCompletes
  BY <1>0, <1>4 DEF FlushCompletes, ControlInv, MutexInv
<1>5. CASE EngineBeats
  BY <1>0, <1>5 DEF EngineBeats, BeginBeat, Lock, BeatEnds, ControlInv, MutexInv
<1>6. CASE StopWatch
  BY <1>0, <1>6 DEF StopWatch, ControlInv, MutexInv
<1>7. CASE Join
  BY <1>0, <1>7 DEF Join, ControlInv, MutexInv
<1>8. CASE Judge
  BY <1>0, <1>8 DEF Judge, ControlInv, MutexInv
<1>9. CASE JudgeWrites
  BY <1>0, <1>9 DEF JudgeWrites, ControlInv, MutexInv
<1>10. CASE FailureBeats
  BY <1>0, <1>10 DEF FailureBeats, BeginBeat, Lock, BeatEnds, ControlInv, MutexInv
<1>11. CASE SubmitTelemetry
  BY <1>0, <1>11 DEF SubmitTelemetry, ControlInv, MutexInv
<1>12. CASE FinalSlice
  BY <1>0, <1>12 DEF FinalSlice, BeginFlush, ControlInv, MutexInv
<1>13. CASE Waited
  BY <1>0, <1>13 DEF Waited, ControlInv, MutexInv
<1>14. CASE WatchdogWrites
  BY <1>0, <1>14 DEF WatchdogWrites, ControlInv, MutexInv
<1>15. CASE WatchdogSends
  BY <1>0, <1>15 DEF WatchdogSends, BeginBeat, Lock, BeatEnds, Cancelled, ControlInv, MutexInv
<1>16. CASE WatchdogStops
  BY <1>0, <1>16 DEF WatchdogStops, Cancelled, ControlInv, MutexInv
<1>17. CASE WatchdogFires
  BY <1>0, <1>17 DEF WatchdogFires, ControlInv, MutexInv
<1>18. CASE StartDaemon
  BY <1>0, <1>18 DEF StartDaemon, ControlInv, MutexInv
<1>19. CASE InitFails
  BY <1>0, <1>19 DEF InitFails, ControlInv, MutexInv
<1>20. CASE Recycle
  BY <1>0, <1>20 DEF Recycle, ControlInv, MutexInv
<1>21. CASE StrayLands
  BY <1>0, <1>21 DEF StrayLands, ControlInv, MutexInv
<1>22. CASE Signal
  BY <1>0, <1>22 DEF Signal, ControlInv, MutexInv
<1>23. CASE Relogin
  BY <1>0, <1>23 DEF Relogin, ControlInv, MutexInv
<1>24. CASE DiskFills
  BY <1>0, <1>24 DEF DiskFills, ControlInv, MutexInv
<1>25. CASE Dies
  BY <1>0, <1>25 DEF Dies, ControlInv, MutexInv
<1>26. CASE VerbReads
  BY <1>0, <1>26 DEF VerbReads, ControlInv, MutexInv
<1>27. CASE VerbWrites
  BY <1>0, <1>27 DEF VerbWrites, ControlInv, MutexInv
<1> QED
  BY <1>1, <1>2, <1>3, <1>4, <1>5, <1>6, <1>7, <1>8, <1>9, <1>10, <1>11, <1>12, <1>13, <1>14, <1>15, <1>16, <1>17, <1>18, <1>19, <1>20, <1>21, <1>22, <1>23, <1>24, <1>25, <1>26, <1>27
  DEF DaemonNext, LoopStep, WatchdogStep

(* The flush's own heartbeat is overwritten only by one begun after it. *)
LEMMA BeatStep == ASSUME ReportInv, DaemonNext PROVE BeatInv'
<1> USE DEF loopVars, beatVars, countVars, recordVars, envVars
<1>0. ControlInv /\ MutexInv /\ BeatInv
  BY DEF ReportInv
<1>1. CASE InitRevoked
  BY <1>0, <1>1 DEF InitRevoked, ControlInv, MutexInv, BeatInv
<1>2. CASE BeginTick
  BY <1>0, <1>2 DEF BeginTick, BeginFlush, ControlInv, MutexInv, BeatInv
<1>3. CASE FlushEnds
  BY <1>0, <1>3 DEF FlushEnds, ControlInv, MutexInv, BeatInv
<1>4. CASE FlushCompletes
  BY <1>0, <1>4 DEF FlushCompletes, ControlInv, MutexInv, BeatInv
<1>5. CASE EngineBeats
  BY <1>0, <1>5 DEF EngineBeats, BeginBeat, Lock, BeatEnds, ControlInv, MutexInv, BeatInv
<1>6. CASE StopWatch
  BY <1>0, <1>6 DEF StopWatch, ControlInv, MutexInv, BeatInv
<1>7. CASE Join
  BY <1>0, <1>7 DEF Join, ControlInv, MutexInv, BeatInv
<1>8. CASE Judge
  BY <1>0, <1>8 DEF Judge, ControlInv, MutexInv, BeatInv
<1>9. CASE JudgeWrites
  BY <1>0, <1>9 DEF JudgeWrites, ControlInv, MutexInv, BeatInv
<1>10. CASE FailureBeats
  BY <1>0, <1>10 DEF FailureBeats, BeginBeat, Lock, BeatEnds, ControlInv, MutexInv, BeatInv
<1>11. CASE SubmitTelemetry
  BY <1>0, <1>11 DEF SubmitTelemetry, ControlInv, MutexInv, BeatInv
<1>12. CASE FinalSlice
  BY <1>0, <1>12 DEF FinalSlice, BeginFlush, ControlInv, MutexInv, BeatInv
<1>13. CASE Waited
  BY <1>0, <1>13 DEF Waited, ControlInv, MutexInv, BeatInv
<1>14. CASE WatchdogWrites
  BY <1>0, <1>14 DEF WatchdogWrites, ControlInv, MutexInv, BeatInv
<1>15. CASE WatchdogSends
  BY <1>0, <1>15 DEF WatchdogSends, BeginBeat, Lock, BeatEnds, Cancelled, ControlInv, MutexInv, BeatInv
<1>16. CASE WatchdogStops
  BY <1>0, <1>16 DEF WatchdogStops, Cancelled, ControlInv, MutexInv, BeatInv
<1>17. CASE WatchdogFires
  BY <1>0, <1>17 DEF WatchdogFires, ControlInv, MutexInv, BeatInv
<1>18. CASE StartDaemon
  BY <1>0, <1>18 DEF StartDaemon, ControlInv, MutexInv, BeatInv
<1>19. CASE InitFails
  BY <1>0, <1>19 DEF InitFails, ControlInv, MutexInv, BeatInv
<1>20. CASE Recycle
  BY <1>0, <1>20 DEF Recycle, ControlInv, MutexInv, BeatInv
<1>21. CASE StrayLands
  BY <1>0, <1>21 DEF StrayLands, ControlInv, MutexInv, BeatInv
<1>22. CASE Signal
  BY <1>0, <1>22 DEF Signal, ControlInv, MutexInv, BeatInv
<1>23. CASE Relogin
  BY <1>0, <1>23 DEF Relogin, ControlInv, MutexInv, BeatInv
<1>24. CASE DiskFills
  BY <1>0, <1>24 DEF DiskFills, ControlInv, MutexInv, BeatInv
<1>25. CASE Dies
  BY <1>0, <1>25 DEF Dies, ControlInv, MutexInv, BeatInv
<1>26. CASE VerbReads
  BY <1>0, <1>26 DEF VerbReads, ControlInv, MutexInv, BeatInv
<1>27. CASE VerbWrites
  BY <1>0, <1>27 DEF VerbWrites, ControlInv, MutexInv, BeatInv
<1> QED
  BY <1>1, <1>2, <1>3, <1>4, <1>5, <1>6, <1>7, <1>8, <1>9, <1>10, <1>11, <1>12, <1>13, <1>14, <1>15, <1>16, <1>17, <1>18, <1>19, <1>20, <1>21, <1>22, <1>23, <1>24, <1>25, <1>26, <1>27
  DEF DaemonNext, LoopStep, WatchdogStep

-----------------------------------------------------------------------------
(* The record. *)

(* A record that is read is the one that was there. *)
LEMMA LoadedStays ==
    ASSUME RecordInv, UNCHANGED disk, mem' = mem \/ mem' = Loaded
    PROVE  Loaded' = Loaded
  BY LoadedKept DEF Loaded

(* Steps that at most read the record into memory. *)
Reads ==
    /\ UNCHANGED <<disk, pending, verb>>
    /\ mem' = mem \/ mem' = Loaded
    /\ pc' = "write" => pc = "write"
    /\ watchdog' = "write" => watchdog = "write"

(* A read of the record changes neither it nor what its writers carry.     *)
LEMMA RecordRead == ASSUME RecordInv, Reads PROVE RecordInv'
<1>1. Kept(Loaded) /\ (mem # Absent => Loaded = mem)
  BY LoadedKept
<1>2. mem' = Absent \/ Kept(mem')
  BY <1>1 DEF Reads, RecordInv
<1>3. \A g \in Writers : Kept(pending[g]) /\ pending[g] # Absent
  BY RecordIsNotAbsent DEF RecordInv
<1>4. /\ pc' = "write" => mem' = pending'["loop"]
      /\ watchdog' = "write" => mem' = pending'["watchdog"]
  BY <1>1, <1>3 DEF Reads, RecordInv, Writers
<1> QED
  BY <1>2, <1>4 DEF Reads, RecordInv

(* A goroutine's mutation is what it will write. *)
LEMMA RecordMutated ==
    ASSUME RecordInv, NEW g \in Writers, NEW r, Kept(r), Mutate(g, r), UNCHANGED <<disk, verb>>,
           pc' = "write" => g = "loop", watchdog' = "write" => g = "watchdog"
    PROVE  RecordInv' /\ Loaded' = r /\ mem' = r
<1>1. mem' = r /\ pending' = [pending EXCEPT ![g] = r] /\ DOMAIN pending = Writers
  BY DEF Mutate, RecordInv
<1>2. DOMAIN pending' = Writers /\ pending'[g] = r /\ \A h \in Writers : Kept(pending'[h])
  BY <1>1 DEF RecordInv
<1>3. r # Absent
  BY RecordIsNotAbsent
<1> QED
  BY <1>1, <1>2, <1>3 DEF RecordInv, Loaded

(* A write puts the copy in memory on disk, or leaves both. *)
LEMMA RecordWritten ==
    ASSUME RecordInv, NEW g \in Writers, WriteRecord(g), mem = pending[g], UNCHANGED verb,
           pc' # "write", watchdog' # "write"
    PROVE  /\ RecordInv' /\ Loaded' = Loaded
           /\ disk' = disk \/ disk' = Loaded
<1>1. Kept(NoRec)
  BY DEF Kept, NoRec, Recs, OneEach
<1>2. pending' = [pending EXCEPT ![g] = NoRec] /\ DOMAIN pending = Writers
  BY DEF WriteRecord, RecordInv
<1>3. DOMAIN pending' = Writers /\ \A h \in Writers : Kept(pending'[h])
  BY <1>1, <1>2 DEF RecordInv
<1>4. Kept(pending[g]) /\ mem # Absent
  BY RecordIsNotAbsent DEF RecordInv
<1>5. CASE disk' = pending[g] /\ mem' = Absent
  BY <1>3, <1>4, <1>5 DEF RecordInv, Loaded
<1>6. CASE UNCHANGED <<disk, mem>>
  BY <1>3, <1>6 DEF RecordInv, Loaded
<1> QED
  BY <1>5, <1>6 DEF WriteRecord

(* What another process, a start or a failed start writes. *)
LEMMA RecordReplaced ==
    ASSUME RecordInv, UNCHANGED pending, Kept(disk'), mem' = mem \/ mem' = Absent,
           verb' = verb \/ verb' = Absent \/ verb' = disk,
           mem' = mem \/ (pc' # "write" /\ watchdog' # "write"),
           pc' = "write" => pc = "write", watchdog' = "write" => watchdog = "write"
    PROVE  RecordInv'
  BY DEF RecordInv

(* Every copy of the record stays in order, and what is about to be written *)
(* stays the copy in memory: the watchdog is joined before the loop judges. *)
LEMMA RecordStep == ASSUME ReportInv, DaemonNext PROVE RecordInv'
<1> USE DEF loopVars, beatVars, countVars, recordVars, envVars
<1>0. ControlInv /\ RecordInv /\ Kept(Loaded) /\ Kept(disk)
  BY LoadedKept DEF ReportInv, RecordInv
<1>1. CASE InitRevoked \/ BeginTick \/ FinalSlice \/ FlushEnds \/ FlushCompletes \/ StopWatch \/ Waited
           \/ WatchdogStops \/ StrayLands \/ Signal \/ Relogin \/ DiskFills
  <2>1. Reads
    BY <1>1 DEF Reads, InitRevoked, BeginTick, FinalSlice, BeginFlush, FlushEnds, FlushCompletes,
                StopWatch, Waited, WatchdogStops, StrayLands, Signal, Relogin, DiskFills
  <2> QED
    BY <1>0, <2>1, RecordRead
<1>2. CASE EngineBeats \/ FailureBeats \/ WatchdogSends
  <2>1. Reads
    BY <1>2 DEF Reads, EngineBeats, FailureBeats, WatchdogSends, BeginBeat, BeatEnds
  <2> QED
    BY <1>0, <2>1, RecordRead
<1>3. CASE SubmitTelemetry
  <2>1. CASE last
    BY <1>0, <1>3, <2>1, RecordReplaced DEF SubmitTelemetry, Forget, ControlInv
  <2>2. CASE ~last
    <3>1. Reads
      BY <1>3, <2>2 DEF Reads, SubmitTelemetry
    <3> QED
      BY <1>0, <3>1, RecordRead
  <2> QED
    BY <2>1, <2>2
<1>4. CASE Judge
  <2>1. CASE out = "locked"
    <3>1. Reads
      BY <1>4, <2>1 DEF Judge, Reads
    <3> QED
      BY <1>0, <3>1, RecordRead
  <2>2. CASE out # "locked"
    <3> PICK corrupt \in {FALSE, "noted" \notin {Loaded.recent[n] : n \in DOMAIN Loaded.recent}} :
              Mutate("loop", Judged(IF corrupt THEN Appended(Loaded, "noted") ELSE Loaded, out))
      BY <1>4, <2>2 DEF Judge
    <3> DEFINE r == IF corrupt THEN Appended(Loaded, "noted") ELSE Loaded
    <3>1. Kept(r)
      BY <1>0, NotedKept
    <3>2. out \in {"ok", "paused", "offline"} \cup Failing
      BY <1>0, <1>4, <2>2 DEF Judge, ControlInv, Outcomes, Failing
    <3> HIDE DEF r
    <3>3. Kept(Judged(r, out))
      BY <3>1, <3>2, JudgedKept
    <3>4. Mutate("loop", Judged(r, out)) /\ "loop" \in Writers
      BY DEF r, Writers
    <3>5. UNCHANGED <<disk, verb>> /\ watchdog' # "write"
      BY <1>0, <1>4 DEF Judge, ControlInv
    <3> QED
      BY <1>0, <3>3, <3>4, <3>5, RecordMutated
  <2> QED
    BY <2>1, <2>2
<1>5. CASE JudgeWrites
  BY <1>0, <1>5, RecordWritten DEF JudgeWrites, RecordInv, Writers, ControlInv
<1>6. CASE Join
  <2>1. /\ UNCHANGED <<disk, pending, verb, watchdog>> /\ pc' # "write" /\ watchdog = "off"
        /\ mem' = mem \/ mem' = Absent
    BY <1>6 DEF Join, Forget
  <2> QED
    BY <1>0, <2>1, RecordReplaced
<1>7. CASE WatchdogFires
  <2>1. Kept(Stand(Loaded, "stalled"))
    BY <1>0, StandKept DEF Standing
  <2>2. /\ UNCHANGED <<disk, verb>> /\ pc' # "write" /\ "watchdog" \in Writers
        /\ Mutate("watchdog", Stand(Loaded, "stalled"))
    BY <1>0, <1>7 DEF WatchdogFires, ControlInv, Writers
  <2> QED
    BY <1>0, <2>1, <2>2, RecordMutated
<1>8. CASE WatchdogWrites
  BY <1>0, <1>8, RecordWritten DEF WatchdogWrites, RecordInv, Writers, ControlInv
<1>9. CASE StartDaemon
  <2>1. Kept(disk')
    BY <1>0, <1>9, NotedKept DEF StartDaemon
  <2> QED
    BY <1>0, <1>9, <2>1, RecordReplaced DEF StartDaemon
<1>10. CASE InitFails
  <2>1. Kept(disk')
    BY <1>0, <1>10, CountedKept DEF InitFails
  <2> QED
    BY <1>0, <1>10, <2>1, RecordReplaced DEF InitFails
<1>11. CASE Recycle
  BY <1>0, <1>11, RecordReplaced DEF Recycle, Forget, ControlInv
<1>12. CASE Dies
  <2>1. Kept(NoRec)
    BY DEF Kept, NoRec, Recs, OneEach
  <2> QED
    BY <1>0, <1>12, <2>1 DEF Dies, Forget, RecordInv
<1>13. CASE VerbReads
  BY <1>0, <1>13, RecordReplaced DEF VerbReads
<1>14. CASE VerbWrites
  <2>1. Kept(disk')
    BY <1>0, <1>14, NotedKept DEF VerbWrites, RecordInv
  <2> QED
    BY <1>0, <1>14, <2>1, RecordReplaced DEF VerbWrites
<1> QED
  BY <1>1, <1>2, <1>3, <1>4, <1>5, <1>6, <1>7, <1>8, <1>9, <1>10, <1>11, <1>12, <1>13, <1>14
  DEF DaemonNext, LoopStep, WatchdogStep

-----------------------------------------------------------------------------
(* The streak. *)

(* A step that neither judges nor changes the streak that is carried. *)
LEMMA StreakStays ==
    ASSUME StreakInv, UNCHANGED countVars, Loaded'.streak = Loaded.streak
    PROVE  StreakInv'
  BY DEF countVars, StreakInv, StreakIsKept, Carried

(* What only memory held is gone, and it is known why. *)
LEMMA StreakForgotten ==
    ASSUME RecordInv, StreakInv, Forget, UNCHANGED <<disk, truth>>
    PROVE  StreakInv'
<1>1. mem' = Absent /\ Loaded' = disk
  BY DEF Forget, Loaded
<1>2. CASE Loaded.streak = disk.streak
  BY <1>1, <1>2 DEF Forget, StreakInv, StreakIsKept, Carried
<1>3. CASE Loaded.streak # disk.streak
  <2>1. lost' = lost \cup {"exit"}
    BY <1>3 DEF Forget
  <2> QED
    BY <2>1 DEF StreakInv, StreakIsKept
<1> QED
  BY <1>2, <1>3

(* A runtime that ends takes its copy of the record with it. *)
LEMMA AwayStep == ASSUME ReportInv, DaemonNext PROVE AwayInv'
<1> USE DEF loopVars, beatVars, countVars, recordVars, envVars
<1>0. ControlInv /\ AwayInv
  BY DEF ReportInv
<1>1. ASSUME UNCHANGED mem, pc' \in {"down", "init", "waiting"} => pc \in {"down", "init", "waiting"}
      PROVE  AwayInv'
  BY <1>0, <1>1 DEF AwayInv
<1>2. CASE InitRevoked \/ Waited \/ StrayLands \/ Signal \/ Relogin \/ DiskFills
           \/ VerbReads \/ VerbWrites \/ StartDaemon \/ InitFails
  BY <1>1, <1>2 DEF InitRevoked, Waited, StrayLands, Signal, Relogin, DiskFills, VerbReads, VerbWrites,
                    StartDaemon, InitFails
<1>3. CASE BeginTick \/ FinalSlice \/ FlushEnds \/ FlushCompletes \/ EngineBeats \/ StopWatch
           \/ Judge \/ JudgeWrites \/ FailureBeats
  BY <1>3 DEF BeginTick, FinalSlice, BeginFlush, FlushEnds, FlushCompletes, EngineBeats, StopWatch,
              Judge, JudgeWrites, FailureBeats, AwayInv
<1>4. CASE Join \/ SubmitTelemetry \/ Recycle \/ Dies
  BY <1>4 DEF Join, SubmitTelemetry, Recycle, Dies, Forget, AwayInv
<1>5. CASE WatchdogWrites \/ WatchdogSends \/ WatchdogStops \/ WatchdogFires
  BY <1>0, <1>5 DEF WatchdogWrites, WatchdogSends, WatchdogStops, WatchdogFires, ControlInv, AwayInv
<1> QED
  BY <1>2, <1>3, <1>4, <1>5 DEF DaemonNext, LoopStep, WatchdogStep

(* The streak in memory or on disk is the number of failed runs, or the     *)
(* record has lost count of them.                                          *)
LEMMA StreakStep == ASSUME ReportInv, DaemonNext PROVE StreakInv'
<1> USE DEF loopVars, beatVars, countVars, recordVars, envVars
<1>0. /\ ControlInv /\ RecordInv /\ StreakInv /\ AwayInv /\ Kept(Loaded) /\ Kept(disk)
      /\ Loaded.streak \in Nat /\ disk.streak \in Nat
  BY LoadedKept DEF ReportInv, RecordInv, Kept, Recs
<1>1. ASSUME UNCHANGED <<truth, lost, disk>>, mem' = mem \/ mem' = Loaded PROVE StreakInv'
  BY <1>0, <1>1, LoadedStays, StreakStays
<1>2. CASE InitRevoked \/ BeginTick \/ FinalSlice \/ FlushEnds \/ FlushCompletes \/ StopWatch \/ Waited
           \/ WatchdogStops \/ StrayLands \/ Signal \/ Relogin \/ DiskFills
  BY <1>1, <1>2 DEF InitRevoked, BeginTick, FinalSlice, BeginFlush, FlushEnds, FlushCompletes,
                    StopWatch, Waited, WatchdogStops, StrayLands, Signal, Relogin, DiskFills
<1>3. CASE EngineBeats \/ FailureBeats \/ WatchdogSends \/ VerbReads
  BY <1>1, <1>3 DEF EngineBeats, FailureBeats, WatchdogSends, BeginBeat, BeatEnds, VerbReads
<1>4. CASE SubmitTelemetry
  <2>1. CASE last
    BY <1>0, <1>4, <2>1, StreakForgotten DEF SubmitTelemetry
  <2>2. CASE ~last
    BY <1>1, <1>4, <2>2 DEF SubmitTelemetry
  <2> QED
    BY <2>1, <2>2
<1>5. CASE Join
  <2>1. CASE out = "revoked" /\ ~last
    BY <1>0, <1>5, <2>1, StreakForgotten DEF Join
  <2>2. CASE ~(out = "revoked" /\ ~last)
    BY <1>1, <1>5, <2>2 DEF Join
  <2> QED
    BY <2>1, <2>2
<1>6. CASE Recycle \/ Dies
  BY <1>0, <1>6, StreakForgotten DEF Recycle, Dies
<1>7. CASE Judge
  <2>1. CASE out = "locked"
    BY <1>1, <1>7, <2>1 DEF Judge
  <2>2. CASE out # "locked"
    <3> PICK corrupt \in {FALSE, "noted" \notin {Loaded.recent[n] : n \in DOMAIN Loaded.recent}} :
              Mutate("loop", Judged(IF corrupt THEN Appended(Loaded, "noted") ELSE Loaded, out))
      BY <1>7, <2>2 DEF Judge
    <3> DEFINE r == IF corrupt THEN Appended(Loaded, "noted") ELSE Loaded
    <3>1. Kept(r) /\ r.streak = Loaded.streak
      BY <1>0, NotedKept
    <3>2. out \in {"ok", "paused", "offline"} \cup Failing
      BY <1>0, <1>7, <2>2 DEF Judge, ControlInv, Outcomes, Failing
    <3> HIDE DEF r
    <3>3. /\ Kept(Judged(r, out))
          /\ Judged(r, out).streak = IF out \in {"ok", "paused"} THEN 0
                                     ELSE IF out \in Failing THEN r.streak + 1 ELSE r.streak
      BY <3>1, <3>2, JudgedKept
    <3>4. Loaded' = Judged(r, out)
      BY <3>3, RecordIsNotAbsent DEF Mutate, Loaded, r
    <3>5. CASE out \in {"ok", "paused"}
      <4>1. truth' = 0 /\ lost' = {}
        BY <1>7, <2>2, <3>5 DEF Judge, Counts, Failing
      <4>2. Loaded'.streak = 0
        BY <3>3, <3>4, <3>5
      <4> QED
        BY <4>1, <4>2 DEF StreakInv, StreakIsKept, Carried
    <3>6. CASE out \notin {"ok", "paused"}
      <4>1. /\ lost' = lost
            /\ truth' = IF out \in Failing THEN truth + 1 ELSE truth
            /\ Loaded'.streak = IF out \in Failing THEN Loaded.streak + 1 ELSE Loaded.streak
        BY <1>7, <2>2, <3>1, <3>3, <3>4, <3>6 DEF Judge, Counts
      <4> QED
        BY <1>0, <4>1 DEF StreakInv, StreakIsKept, Carried
    <3> QED
      BY <3>5, <3>6
  <2> QED
    BY <2>1, <2>2
<1>8. CASE JudgeWrites
  <2>1. Loaded' = Loaded
    BY <1>0, <1>8, RecordWritten DEF JudgeWrites, RecordInv, Writers, ControlInv
  <2> QED
    BY <1>0, <1>8, <2>1, StreakStays DEF JudgeWrites
<1>9. CASE WatchdogFires
  <2>1. Kept(Stand(Loaded, "stalled")) /\ Stand(Loaded, "stalled").streak = Loaded.streak
    BY <1>0, StandKept DEF Standing
  <2>2. Loaded' = Stand(Loaded, "stalled")
    BY <1>9, <2>1, RecordIsNotAbsent DEF WatchdogFires, Mutate, Loaded
  <2> QED
    BY <1>0, <1>9, <2>1, <2>2, StreakStays DEF WatchdogFires
<1>10. CASE WatchdogWrites
  <2>1. Loaded' = Loaded
    BY <1>0, <1>10, RecordWritten DEF WatchdogWrites, RecordInv, Writers, ControlInv
  <2> QED
    BY <1>0, <1>10, <2>1, StreakStays DEF WatchdogWrites
<1>11. CASE StartDaemon
  <2>1. disk'.streak = disk.streak /\ mem' = mem
    BY <1>0, <1>11, NotedKept DEF StartDaemon
  <2>2. Loaded'.streak = Loaded.streak
    BY <2>1 DEF Loaded
  <2> QED
    BY <1>0, <1>11, <2>2, StreakStays DEF StartDaemon
<1>12. CASE InitFails
  <2>1. CASE writable
    <3>1. disk'.streak = disk.streak + 1 /\ mem' = mem /\ mem = Absent /\ truth' = truth + 1 /\ lost' = lost
      BY <1>0, <1>12, <2>1, CountedKept DEF InitFails, AwayInv
    <3>2. Loaded.streak = disk.streak /\ Loaded'.streak = disk'.streak
      BY <3>1 DEF Loaded
    <3> QED
      BY <1>0, <3>1, <3>2 DEF StreakInv, StreakIsKept, Carried
  <2>2. CASE ~writable
    <3>1. truth' = truth + 1 /\ lost' = lost \cup {"disk"}
      BY <1>12, <2>2 DEF InitFails
    <3> QED
      BY <1>0, <3>1 DEF StreakInv, StreakIsKept
  <2> QED
    BY <2>1, <2>2
<1>13. CASE VerbWrites
  <2> DEFINE new == Appended(verb, "verb")
  <2>1. Kept(new) /\ new.streak = verb.streak
    BY <1>0, <1>13, NotedKept DEF VerbWrites, RecordInv
  <2> HIDE DEF new
  <2>2. CASE ~writable \/ mem # Absent
    <3>1. Loaded' = Loaded /\ UNCHANGED countVars
      BY <1>13, <2>2 DEF VerbWrites, Loaded
    <3> QED
      BY <1>0, <3>1, StreakStays
  <2>3. CASE writable /\ mem = Absent
    <3>1. disk' = new /\ mem' = Absent /\ truth' = truth
      BY <1>13, <2>3 DEF VerbWrites, new
    <3>2. Loaded'.streak = verb.streak /\ Loaded.streak = disk.streak
      BY <2>1, <2>3, <3>1 DEF Loaded
    <3>3. CASE verb.streak = disk.streak
      BY <1>0, <1>13, <2>3, <3>2, <3>3, StreakStays DEF VerbWrites
    <3>4. CASE verb.streak # disk.streak
      <4>1. lost' = lost \cup {"verb"}
        BY <1>13, <2>3, <3>4 DEF VerbWrites
      <4> QED
        BY <1>0, <3>1, <4>1 DEF StreakInv, StreakIsKept
    <3> QED
      BY <3>3, <3>4
  <2> QED
    BY <2>2, <2>3
<1> QED
  BY <1>2, <1>3, <1>4, <1>5, <1>6, <1>7, <1>8, <1>9, <1>10, <1>11, <1>12, <1>13
  DEF DaemonNext, LoopStep, WatchdogStep

-----------------------------------------------------------------------------
(* The invariant. *)

(* It holds when the daemon has never run. *)
LEMMA ReportInit == DaemonInit => ReportInv
<1> SUFFICES ASSUME DaemonInit PROVE ReportInv
  OBVIOUS
<1>1. Kept(NoRec) /\ NoRec.streak = 0
  BY DEF Kept, NoRec, Recs, OneEach
<1>2. ControlInv /\ MutexInv /\ BeatInv
  BY DEF DaemonInit, ControlInv, MutexInv, BeatInv
<1>3. RecordInv
  BY <1>1 DEF DaemonInit, RecordInv, Writers
<1>4. StreakInv
  <2>1. Loaded = NoRec
    BY DEF DaemonInit, Loaded
  <2> QED
    BY <1>1, <2>1 DEF DaemonInit, StreakInv, StreakIsKept, Carried
<1> QED
  BY <1>2, <1>3, <1>4 DEF ReportInv, AwayInv, DaemonInit

(* The record, the mutex and the loop keep one another in order through    *)
(* every interleaving of loop, watchdog, deaths, full disks and verbs.     *)
THEOREM ReportInductive == Spec => []ReportInv
<1>1. Init => ReportInv
  BY ReportInit DEF Init
<1>2. ReportInv /\ [Next]_vars => ReportInv'
  <2>1. ASSUME ReportInv, DaemonNext PROVE ReportInv'
    BY <2>1, ControlStep, MutexStep, BeatStep, RecordStep, StreakStep, AwayStep DEF ReportInv
  <2>2. ASSUME ReportInv, UNCHANGED daemonVars PROVE ReportInv'
    BY <2>2 DEF daemonVars, loopVars, beatVars, countVars, recordVars, envVars, ReportInv, ControlInv,
                MutexInv, BeatInv, RecordInv, StreakInv, StreakIsKept, Carried, Loaded, AwayInv
  <2> QED
    BY <2>1, <2>2 DEF Next, vars
<1> QED
  BY <1>1, <1>2, PTL DEF Spec

(* app.go, WriteHeartbeat, and judge.go, persistRecord: the flush's own    *)
(* heartbeat is not overwritten by a stall heartbeat that was in flight    *)
(* before it, the failures in a row are counted through a full disk (what  *)
(* an exit, a failed start that could not write or another process's stale *)
(* write takes away is in lost), and a stall or an outage stays one event  *)
(* of the record.                                                          *)
THEOREM ReportsAlwaysTrue == Spec => []ReportsAreTrue
<1>1. ReportInv => ReportsAreTrue
  <2> SUFFICES ASSUME ReportInv PROVE ReportsAreTrue
    OBVIOUS
  <2>1. HeartbeatIsNewest
    BY DEF ReportInv, BeatInv, HeartbeatIsNewest
  <2>2. StreakIsKept
    BY DEF ReportInv, StreakInv
  <2>3. StandingIsOneEvent
    BY LoadedKept DEF ReportInv, StandingIsOneEvent, Carried, Kept, OneEach
  <2> QED
    BY <2>1, <2>2, <2>3 DEF ReportsAreTrue
<1> QED
  BY <1>1, ReportInductive, PTL

(* The record's list never grows beyond the events it keeps.               *)
THEOREM DaemonTypeCorrect == Spec => []DaemonTypeOK
<1>1. ReportInv => DaemonTypeOK
  <2> SUFFICES ASSUME ReportInv PROVE DaemonTypeOK
    OBVIOUS
  <2>1. ASSUME NEW r, Kept(r)
        PROVE  /\ r.streak \in Nat /\ Len(r.recent) <= MaxRecent
               /\ \A n \in DOMAIN r.recent : r.recent[n] \in Kinds
    BY <2>1 DEF Kept, Recs
  <2> QED
    BY <2>1 DEF ReportInv, ControlInv, RecordInv, StreakInv, DaemonTypeOK
<1> QED
  BY <1>1, ReportInductive, PTL

-----------------------------------------------------------------------------
(* The crash journal. *)

USE JournalAssumption

Marks == [run : Runs, ev : {"start", "phase", "reported", "exit"}, boot : 0..MaxBoot,
          live : SUBSET Runs]
Crashes == [run : Runs, by : Runs]
Stages == {"none", "measure", "move", "mark", "record", "write"}
Starts == [at : Stages, live : SUBSET Runs, crash : 0..RunCount, events : Seq(Crashes)]
Fates == {"unborn", "running", "exited", "crashed", "stopped"}

TypeInv ==
    /\ journal \in Seq(Marks) /\ crashEvents \in Seq(Crashes) /\ start \in [Runs -> Starts]
    /\ boot \in 1..MaxBoot /\ bootKnown \in BOOLEAN /\ lent \in BOOLEAN
    /\ fate \in [Runs -> Fates] /\ carries \in [Runs -> SUBSET Runs]
    /\ reused \subseteq Runs /\ found \subseteq Runs /\ cut \subseteq Runs
    /\ passed \subseteq Runs /\ crossed \subseteq Runs

(* A run that has read the journal and not yet written to it. *)
Reading(r) == start[r].at \in {"measure", "move", "mark"}

(* A run's entries: each kind once, its start first; a run that is not cut  *)
(* has all of them.                                                         *)
MarksInv ==
    /\ \A m, n \in DOMAIN journal :
          journal[m].run = journal[n].run /\ journal[m].ev = journal[n].ev => m = n
    /\ \A n \in DOMAIN journal : journal[n].ev = "start" =>
          \A m \in Entries(journal, journal[n].run) : n <= m
    /\ \A r \in Recorded(journal) : fate[r] # "unborn" /\ (r \in cut \/ StartOf(journal, r) # {})
    /\ \A r \in Runs \ cut : fate[r] = "running" /\ ~Reading(r) => r \in Recorded(journal)
    /\ \A r \in Runs : Wrote(journal, r, "exit") => fate[r] = "exited"
    /\ \A r \in Runs \ cut : fate[r] = "exited" => Wrote(journal, r, "exit")
    /\ \A r \in Runs : Wrote(journal, r, "reported") => carries[r] = {}
    /\ \A n \in DOMAIN journal : \A r \in journal[n].live : fate[r] # "unborn"

(* A run lives within one boot, and its entries name it.                    *)
BootInv ==
    /\ \A n \in DOMAIN journal : IF bootKnown THEN journal[n].boot \in 1..boot
                                              ELSE journal[n].boot = NoBoot
    /\ \A m, n \in DOMAIN journal : journal[m].run = journal[n].run => journal[m].boot = journal[n].boot
    /\ \A n \in DOMAIN journal : bootKnown =>
          /\ fate[journal[n].run] = "running" => journal[n].boot = boot
          /\ fate[journal[n].run] = "stopped" => journal[n].boot < boot

(* A start finds alive only runs of its own boot ...                        *)
LiveInv ==
    \A n \in DOMAIN journal : bootKnown /\ journal[n].ev = "start" =>
       \A r \in journal[n].live :
          /\ fate[r] = "running" => journal[n].boot = boot
          /\ \A m \in Entries(journal, r) : journal[m].boot = journal[n].boot

(* ... and all of them that really lived.  After(j, n, r): entry n is a     *)
(* start on the boot of r, after r.                                         *)
After(j, n, r) ==
    /\ j[n].ev = "start" /\ First(j, r) < n
    /\ j[n].boot = j[First(j, r)].boot

SeenInv ==
    \A r \in Walked(journal) \ (cut \cup crossed), n \in DOMAIN journal :
       bootKnown /\ fate[r] \in {"running", "stopped"} /\ After(journal, n, r) => r \in journal[n].live

(* A dead run that every later start takes for a crash: on its own boot one *)
(* start found it dead.                                                     *)
Witnessed(j, r) == \E n \in DOMAIN j : After(j, n, r) /\ r \notin j[n].live

Over(r) == r \in Recorded(journal) /\ fate[r] \in {"crashed", "stopped"}
Dead(r) == Over(r) /\ (bootKnown => Witnessed(journal, r))

FoundInv == \A r \in found \ cut : Dead(r) /\ (r \notin passed => r \in Walked(journal))

(* Starts that are on the way belong to running runs, and know of one       *)
(* another.                                                                 *)
StartInv ==
    /\ \A r \in Runs : Starting(r) => fate[r] = "running"
    /\ \A r \in Runs : Reading(r) => r \notin Recorded(journal)
    /\ \A q, r \in Runs : q # r /\ Starting(q) /\ Starting(r) => q \in crossed

(* What a start has read of runs that live, and of dead ones: it is as good *)
(* as the entry it is about to write.                                       *)
ReadLive(x) ==
    /\ \A r \in start[x].live : fate[r] # "unborn"
    /\ bootKnown => \A r \in start[x].live : \A m \in Entries(journal, r) : journal[m].boot = boot
    /\ \A r \in Walked(journal) \ (cut \cup crossed) : fate[r] = "running" => r \in start[x].live

SeenDead(x, r) ==
    /\ Over(r) /\ (r \notin passed => r \in Walked(journal))
    /\ bootKnown => \/ Witnessed(journal, r)
                    \/ journal[First(journal, r)].boot = boot /\ r \notin start[x].live

ReadInv ==
    \A x \in Runs : Reading(x) =>
       /\ ReadLive(x)
       /\ \A r \in carries[x] \ cut : SeenDead(x, r)
       /\ start[x].crash # 0 <=> carries[x] # {}
       /\ start[x].crash # 0 => start[x].crash \in carries[x]

(* Events are of dead runs, a later one of a later run.                     *)
Rising(E, m, n) ==
    m < n /\ (\A k \in m..n : E[k].run \notin cut /\ E[k].by \notin crossed) =>
       First(journal, E[m].run) < First(journal, E[n].run)

Ordered(E) ==
    /\ \A n \in DOMAIN E : E[n].run \notin cut => Dead(E[n].run)
    /\ ~lent => \A m, n \in DOMAIN E : Rising(E, m, n)

LastCrash == crashEvents[Len(crashEvents)].run

EventInv ==
    /\ ~lent => reused = {}
    /\ Ordered(crashEvents) /\ \A x \in Runs : Ordered(start[x].events)
    /\ \A x \in Runs : start[x].at \in {"record", "write"} =>
          start[x].crash # 0 /\ (start[x].crash \notin cut => Dead(start[x].crash))

(* While one start is on its way alone, the crash it has read is the last   *)
(* one recorded or a later one.                                             *)
NewerInv ==
    \A x \in Runs \ crossed : Starting(x) =>
       /\ ~lent /\ crashEvents # <<>> /\ start[x].crash # 0
             /\ LastCrash \notin cut /\ start[x].crash \notin cut =>
               \/ LastCrash = start[x].crash
               \/ First(journal, LastCrash) < First(journal, start[x].crash)
       /\ start[x].at = "write" =>
             start[x].events = crashEvents /\ (crashEvents # <<>> => LastCrash # start[x].crash)

JournalInv ==
    /\ TypeInv /\ MarksInv /\ BootInv /\ LiveInv /\ SeenInv /\ FoundInv
    /\ StartInv /\ ReadInv /\ EventInv /\ NewerInv

-----------------------------------------------------------------------------
(* Least and greatest entries. *)

(* A set of numbers has a least one. *)
LEMMA MinIsLeast ==
    ASSUME NEW S, S \subseteq Nat, S # {}
    PROVE  Min(S) \in S /\ \A y \in S : Min(S) <= y
<1> DEFINE R == OpToRel(<, Nat)
<1>1. \A x, y \in Nat : x < y => <<x, y>> \in R
  BY DEF OpToRel
<1>2. IsWellFoundedOn(R, Nat)
  BY NatLessThanWellFounded
<1> HIDE DEF R
<1>3. PICK x \in S : \A y \in S : ~(<<y, x>> \in R)
  BY <1>2, WFMin
<1>4. \A y \in S : x <= y
  <2> SUFFICES ASSUME NEW y \in S PROVE x <= y
    OBVIOUS
  <2>1. x \in Nat /\ y \in Nat /\ ~(y < x)
    BY <1>1, <1>3
  <2> QED
    BY <2>1
<1> QED
  BY <1>4 DEF Min

(* A bounded one has a greatest. *)
LEMMA MaxIsMost ==
    ASSUME NEW n \in Nat, NEW S, S \subseteq 0..n, S # {}
    PROVE  Max(S) \in S /\ \A y \in S : Max(S) >= y
<1> DEFINE T == {n - x : x \in S}
<1>1. \A x \in S : x \in 0..n /\ n - x \in Nat
  OBVIOUS
<1>2. T \subseteq Nat /\ T # {}
  BY <1>1
<1>3. PICK t \in T : \A u \in T : t <= u
  BY <1>2, MinIsLeast
<1>4. PICK x \in S : t = n - x
  OBVIOUS
<1>5. \A y \in S : n - x <= n - y
  BY <1>3, <1>4
<1>6. \A y \in S : x >= y
  BY <1>1, <1>5
<1> QED
  BY <1>6 DEF Max

(* A recorded run has a first entry ... *)
LEMMA FirstFacts ==
    ASSUME NEW j \in Seq(Marks), NEW r \in Recorded(j)
    PROVE  /\ First(j, r) \in DOMAIN j /\ First(j, r) \in Nat /\ j[First(j, r)].run = r
           /\ \A n \in Entries(j, r) : First(j, r) <= n
<1>1. Entries(j, r) \subseteq Nat /\ Entries(j, r) # {} /\ Entries(j, r) \subseteq DOMAIN j
  BY DEF Entries, Recorded
<1>2. First(j, r) \in Entries(j, r) /\ \A n \in Entries(j, r) : First(j, r) <= n
  BY <1>1, MinIsLeast DEF First
<1> QED
  BY <1>1, <1>2 DEF Entries

(* ... and a last one. *)
LEMMA LastFacts ==
    ASSUME NEW j \in Seq(Marks), NEW r \in Recorded(j)
    PROVE  Max(Entries(j, r)) \in Entries(j, r)
<1>1. Entries(j, r) \subseteq 0..Len(j) /\ Entries(j, r) # {} /\ Len(j) \in Nat
  BY DEF Entries, Recorded
<1> QED
  BY <1>1, MaxIsMost

(* The first entry is known by being first. *)
LEMMA FirstIs ==
    ASSUME NEW j \in Seq(Marks), NEW r, NEW n \in Entries(j, r), \A m \in Entries(j, r) : n <= m
    PROVE  First(j, r) = n
<1>1. r \in Recorded(j) /\ n \in Nat
  BY DEF Entries, Recorded
<1>2. First(j, r) \in Entries(j, r) /\ First(j, r) <= n /\ First(j, r) \in Nat
  BY <1>1, FirstFacts DEF Entries
<1> QED
  BY <1>1, <1>2

-----------------------------------------------------------------------------
(* An appended entry. *)

(* It leaves the others as they were ... *)
LEMMA Grown ==
    ASSUME NEW j \in Seq(Marks), NEW e \in Marks, NEW k, k = Append(j, e)
    PROVE  /\ k \in Seq(Marks) /\ Len(k) = Len(j) + 1 /\ Len(j) \in Nat
           /\ DOMAIN j = 1..Len(j) /\ DOMAIN k = 1..(Len(j) + 1)
           /\ \A n \in DOMAIN j : k[n] = j[n] /\ n \in DOMAIN k
           /\ k[Len(j) + 1] = e
           /\ \A n \in DOMAIN k : n \in DOMAIN j \/ n = Len(j) + 1
  OBVIOUS

(* ... is one more entry of its run ... *)
LEMMA GrownEntries ==
    ASSUME NEW j \in Seq(Marks), NEW e \in Marks, NEW k, k = Append(j, e)
    PROVE  \A r, n : n \in Entries(k, r) <=> (n \in Entries(j, r) \/ (r = e.run /\ n = Len(j) + 1))
<1>1. /\ Len(j) \in Nat /\ DOMAIN j = 1..Len(j) /\ DOMAIN k = 1..(Len(j) + 1)
      /\ \A n \in DOMAIN j : k[n] = j[n] /\ n \in DOMAIN k
      /\ k[Len(j) + 1] = e
      /\ \A n \in DOMAIN k : n \in DOMAIN j \/ n = Len(j) + 1
  BY Grown
<1> QED
  BY <1>1 DEF Entries

(* ... and keeps the runs they are of and their marks, ... *)
LEMMA GrownRuns ==
    ASSUME NEW j \in Seq(Marks), NEW e \in Marks, NEW k, k = Append(j, e)
    PROVE  /\ Recorded(k) = Recorded(j) \cup {e.run}
           /\ \A r, ev : Wrote(k, r, ev) <=> (Wrote(j, r, ev) \/ (r = e.run /\ ev = e.ev))
<1>0. /\ k \in Seq(Marks) /\ Len(j) \in Nat
      /\ DOMAIN j = 1..Len(j) /\ DOMAIN k = 1..(Len(j) + 1)
      /\ \A n \in DOMAIN j : k[n] = j[n] /\ n \in DOMAIN k
      /\ k[Len(j) + 1] = e
      /\ \A n \in DOMAIN k : n \in DOMAIN j \/ n = Len(j) + 1
  BY Grown
<1>1. \A r, n : n \in Entries(k, r) <=> (n \in Entries(j, r) \/ (r = e.run /\ n = Len(j) + 1))
  BY GrownEntries
<1>2. Recorded(k) = Recorded(j) \cup {e.run}
  BY <1>0 DEF Recorded
<1>5. \A r, ev : Wrote(k, r, ev) <=> (Wrote(j, r, ev) \/ (r = e.run /\ ev = e.ev))
  BY <1>0, <1>1 DEF Wrote, Entries
<1> QED
  BY <1>2, <1>5

(* ... the first entry of each ... *)
LEMMA GrownFirst ==
    ASSUME NEW j \in Seq(Marks), NEW e \in Marks, NEW k, k = Append(j, e)
    PROVE  /\ \A r \in Recorded(j) : First(k, r) = First(j, r)
           /\ e.run \notin Recorded(j) => First(k, e.run) = Len(j) + 1
<1>0. k \in Seq(Marks) /\ Len(j) \in Nat /\ DOMAIN j = 1..Len(j)
  BY Grown
<1>1. \A r, n : n \in Entries(k, r) <=> (n \in Entries(j, r) \/ (r = e.run /\ n = Len(j) + 1))
  BY GrownEntries
<1>3. ASSUME NEW r \in Recorded(j) PROVE First(k, r) = First(j, r)
  <2>1. /\ First(j, r) \in Entries(j, r) /\ First(j, r) \in 1..Len(j)
        /\ \A n \in Entries(j, r) : First(j, r) <= n
    BY <1>0, FirstFacts DEF Entries
  <2>2. First(j, r) \in Entries(k, r) /\ \A n \in Entries(k, r) : First(j, r) <= n
    BY <1>0, <1>1, <2>1
  <2> QED
    BY <1>0, <2>2, FirstIs
<1>4. ASSUME e.run \notin Recorded(j) PROVE First(k, e.run) = Len(j) + 1
  <2>1. \A n : n \in Entries(k, e.run) <=> n = Len(j) + 1
    BY <1>1, <1>4 DEF Entries, Recorded
  <2>2. Len(j) + 1 \in Entries(k, e.run) /\ \A m \in Entries(k, e.run) : Len(j) + 1 <= m
    BY <1>0, <2>1
  <2> QED
    BY <1>0, <2>2, FirstIs
<1> QED
  BY <1>3, <1>4

(* ... and the walk goes as far as before, unless it delivers a report.     *)
LEMMA GrownWalk ==
    ASSUME NEW j \in Seq(Marks), NEW e \in Marks, NEW k, k = Append(j, e)
    PROVE  /\ Walked(k) \cap Recorded(j) \subseteq Walked(j)
           /\ e.ev # "reported" => Walked(j) \subseteq Walked(k)
<1>0. /\ Recorded(k) = Recorded(j) \cup {e.run}
      /\ \A r \in Recorded(j) : First(k, r) = First(j, r)
      /\ \A r, ev : Wrote(k, r, ev) <=> (Wrote(j, r, ev) \/ (r = e.run /\ ev = e.ev))
  <2>1. \A r \in Recorded(j) : First(k, r) = First(j, r)
    BY GrownFirst
  <2> QED
    BY <2>1, GrownRuns
<1>1. \A r, ev : Wrote(j, r, ev) => r \in Recorded(j)
  BY DEF Wrote, Entries, Recorded
<1>2. ASSUME NEW r \in Walked(k) \cap Recorded(j) PROVE r \in Walked(j)
  <2> SUFFICES ASSUME NEW q \in Recorded(j), Wrote(j, q, "reported") PROVE First(j, q) < First(j, r)
    BY <1>2 DEF Walked
  <2>1. q \in Recorded(k) /\ Wrote(k, q, "reported")
    BY <1>0
  <2> QED
    BY <1>0, <2>1 DEF Walked
<1>3. ASSUME e.ev # "reported", NEW r \in Walked(j) PROVE r \in Walked(k)
  <2>1. r \in Recorded(j) /\ r \in Recorded(k)
    BY <1>0 DEF Walked
  <2> SUFFICES ASSUME NEW q \in Recorded(k), Wrote(k, q, "reported") PROVE First(k, q) < First(k, r)
    BY <2>1 DEF Walked
  <2>2. Wrote(j, q, "reported") /\ q \in Recorded(j)
    BY <1>0, <1>1, <1>3
  <2> QED
    BY <1>0, <2>1, <2>2 DEF Walked
<1> QED
  BY <1>2, <1>3

(* What is after a run, or saw it dead, stays so. *)
LEMMA GrownAfter ==
    ASSUME NEW j \in Seq(Marks), NEW e \in Marks, NEW k, k = Append(j, e), NEW r \in Recorded(j)
    PROVE  /\ \A n \in DOMAIN j : After(k, n, r) <=> After(j, n, r)
           /\ After(k, Len(j) + 1, r) <=> e.ev = "start" /\ e.boot = j[First(j, r)].boot
           /\ Witnessed(j, r) => Witnessed(k, r)
<1>1. /\ Len(j) \in Nat /\ DOMAIN j = 1..Len(j) /\ k[Len(j) + 1] = e
      /\ \A n \in DOMAIN j : k[n] = j[n] /\ n \in DOMAIN k
  BY Grown
<1>2. First(k, r) = First(j, r) /\ First(j, r) \in DOMAIN j /\ First(j, r) \in Nat
  <2>1. First(k, r) = First(j, r)
    BY GrownFirst
  <2> QED
    BY <2>1, FirstFacts
<1>3. k[First(k, r)] = j[First(j, r)]
  BY <1>1, <1>2
<1>4. \A n \in DOMAIN j : After(k, n, r) <=> After(j, n, r)
  BY <1>1, <1>2, <1>3 DEF After
<1>5. After(k, Len(j) + 1, r) <=> e.ev = "start" /\ e.boot = j[First(j, r)].boot
  BY <1>1, <1>2, <1>3 DEF After
<1>6. Witnessed(j, r) => Witnessed(k, r)
  BY <1>1, <1>4 DEF Witnessed
<1> QED
  BY <1>4, <1>5, <1>6

-----------------------------------------------------------------------------
(* What LastRun reads from a journal in order. *)

(* A recorded run is a run. *)
LEMMA RecordedRuns ==
    ASSUME NEW j \in Seq(Marks)
    PROVE  Recorded(j) \subseteq Runs /\ Walked(j) \subseteq Recorded(j)
<1>1. \A n \in DOMAIN j : j[n] \in Marks
  OBVIOUS
<1>2. \A n \in DOMAIN j : j[n].run \in Runs
  BY <1>1 DEF Marks
<1> QED
  BY <1>2 DEF Recorded, Walked

(* All entries of a run name the boot its last one names. *)
LEMMA BootFacts ==
    ASSUME TypeInv, BootInv, NEW r \in Recorded(journal)
    PROVE  /\ \A n \in Entries(journal, r) : BootOf(journal, r) = journal[n].boot
           /\ BootOf(journal, r) = journal[First(journal, r)].boot
<1>1. journal \in Seq(Marks)
  BY DEF TypeInv
<1>2. Max(Entries(journal, r)) \in Entries(journal, r)
  BY <1>1, LastFacts
<1>3. \A n \in Entries(journal, r) : BootOf(journal, r) = journal[n].boot
  BY <1>2 DEF BootInv, BootOf, Entries
<1>4. First(journal, r) \in Entries(journal, r)
  BY <1>1, FirstFacts DEF Entries
<1> QED
  BY <1>3, <1>4

(* A run's start is its first entry, and what it found alive is in it. *)
LEMMA StartFacts ==
    ASSUME TypeInv, MarksInv, NEW n \in DOMAIN journal, journal[n].ev = "start"
    PROVE  LET q == journal[n].run
           IN  /\ q \in Recorded(journal) /\ First(journal, q) = n
               /\ StartOf(journal, q) = {n} /\ LiveOf(journal, q) = journal[n].live
<1> DEFINE q == journal[n].run
<1>1. journal \in Seq(Marks) /\ q \in Recorded(journal) /\ n \in Entries(journal, q)
  BY DEF TypeInv, Recorded, Entries
<1>2. \A m \in Entries(journal, q) : n <= m
  BY DEF MarksInv
<1>3. First(journal, q) = n
  BY <1>1, <1>2, FirstIs
<1>4. StartOf(journal, q) = {n}
  BY <1>1 DEF StartOf, MarksInv, Entries
<1>5. LiveOf(journal, q) = journal[n].live
  BY <1>4 DEF LiveOf
<1> QED
  BY <1>1, <1>3, <1>4, <1>5

(* The starts that count for r are the entries after it on its boot, and a  *)
(* start that found r alive is one of them.                                 *)
LEMMA LaterFacts ==
    ASSUME JournalInv, bootKnown, NEW r \in Walked(journal),
           NEW n \in DOMAIN journal, journal[n].ev = "start"
    PROVE  LET q == journal[n].run
           IN  /\ First(journal, r) < n => q \in LaterStarts(journal, r)
               /\ q \in LaterStarts(journal, r) =>
                    /\ BootOf(journal, q) = BootOf(journal, r) <=> After(journal, n, r)
                    /\ r \in LiveOf(journal, q) => BootOf(journal, q) = BootOf(journal, r)
<1> DEFINE q == journal[n].run
<1>0. /\ TypeInv /\ MarksInv /\ BootInv /\ LiveInv /\ journal \in Seq(Marks)
      /\ r \in Recorded(journal)
  BY RecordedRuns DEF JournalInv, TypeInv
<1>1. /\ q \in Recorded(journal) /\ First(journal, q) = n /\ n \in Nat
      /\ StartOf(journal, q) = {n} /\ LiveOf(journal, q) = journal[n].live
  <2>1. n \in Nat
    BY <1>0
  <2> QED
    BY <1>0, <2>1, StartFacts
<1>2. BootOf(journal, q) = journal[n].boot /\ journal[n].boot \in 1..boot /\ boot \in Nat
  BY <1>0, <1>1, BootFacts DEF BootInv, TypeInv
<1>3. /\ BootOf(journal, r) = journal[First(journal, r)].boot
      /\ First(journal, r) \in Entries(journal, r) /\ First(journal, r) \in Nat
  BY <1>0, BootFacts, FirstFacts DEF Entries
<1>4. ASSUME First(journal, r) < n PROVE q \in LaterStarts(journal, r)
  <2>1. \A p \in Recorded(journal) : First(journal, p) \in Nat
    BY <1>0, FirstFacts
  <2>2. q \in Walked(journal)
    BY <1>1, <1>3, <1>4, <2>1 DEF Walked
  <2>3. BootOf(journal, q) # NoBoot
    BY <1>2 DEF NoBoot
  <2> QED
    BY <1>1, <1>4, <2>2, <2>3 DEF LaterStarts
<1>5. ASSUME q \in LaterStarts(journal, r)
      PROVE  /\ BootOf(journal, q) = BootOf(journal, r) <=> After(journal, n, r)
             /\ r \in LiveOf(journal, q) => BootOf(journal, q) = BootOf(journal, r)
  <2>1. First(journal, r) < n
    BY <1>1, <1>5 DEF LaterStarts
  <2>2. BootOf(journal, q) = BootOf(journal, r) <=> After(journal, n, r)
    BY <1>2, <1>3, <2>1 DEF After
  <2>3. ASSUME r \in journal[n].live PROVE BootOf(journal, q) = BootOf(journal, r)
    BY <1>0, <1>2, <1>3, <2>3 DEF LiveInv
  <2> QED
    BY <1>1, <2>2, <2>3
<1> QED
  BY <1>4, <1>5

(* A later start is an entry. *)
LEMMA LaterEntry ==
    ASSUME JournalInv, NEW r, NEW q \in LaterStarts(journal, r)
    PROVE  \E n \in DOMAIN journal : journal[n].ev = "start" /\ journal[n].run = q
  BY DEF LaterStarts, StartOf, Entries

(* A run that was seen dead on its boot is found dead. *)
LEMMA DeadIsFound ==
    ASSUME JournalInv, NEW r \in Walked(journal), Dead(r), r \notin reused
    PROVE  r \in FoundDead(journal)
<1>0. TypeInv /\ MarksInv /\ journal \in Seq(Marks) /\ r \in Recorded(journal) /\ r \in Runs
  BY RecordedRuns DEF JournalInv, TypeInv
<1>1. ~Wrote(journal, r, "exit") /\ r \notin FoundAlive(journal)
  BY <1>0 DEF MarksInv, Dead, Over, FoundAlive, Probe
<1>2. ASSUME WentDownWithMachine(journal, r) PROVE FALSE
  <2> DEFINE A == {q \in LaterStarts(journal, r) : BootOf(journal, q) = BootOf(journal, r)}
             B == {q \in LaterStarts(journal, r) : r \in LiveOf(journal, q)}
  <2>1. bootKnown /\ Cardinality(A) = Cardinality(B)
    BY <1>2 DEF WentDownWithMachine, EarlierBoot, BootId
  <2>2. B \subseteq A
    BY <2>1, LaterEntry, LaterFacts
  <2>3. A \subseteq 1..RunCount
    BY <1>0, RecordedRuns DEF LaterStarts, Runs
  <2> HIDE DEF A, B
  <2>4. IsFiniteSet(A)
    <3>1. IsFiniteSet(1..RunCount)
      BY FS_Interval
    <3> QED
      BY <2>3, <3>1, FS_Subset
  <2>5. A = B
    BY <2>1, <2>2, <2>4, FS_Subset
  <2>6. PICK n \in DOMAIN journal : After(journal, n, r) /\ r \notin journal[n].live
    BY <2>1 DEF Dead, Witnessed
  <2>7. journal[n].ev = "start" /\ First(journal, r) < n
    BY <2>6 DEF After
  <2>8. journal[n].run \in A
    BY <2>1, <2>6, <2>7, LaterFacts DEF A
  <2>9. LiveOf(journal, journal[n].run) = journal[n].live
    BY <1>0, <2>7, StartFacts
  <2> QED
    BY <2>5, <2>6, <2>8, <2>9 DEF B
<1> QED
  BY <1>1, <1>2 DEF FoundDead

(* A run that is found dead is not running, nor did it exit.                *)
LEMMA FoundIsOver ==
    ASSUME JournalInv, NEW r \in FoundDead(journal), r \notin cut
    PROVE  r \in Walked(journal) /\ r \in Recorded(journal) /\ fate[r] \in {"crashed", "stopped"}
<1>0. TypeInv /\ MarksInv /\ BootInv /\ journal \in Seq(Marks)
  BY DEF JournalInv, TypeInv
<1>1. /\ r \in Walked(journal) /\ r \in Recorded(journal) /\ r \in Runs
      /\ r \notin FoundAlive(journal) /\ ~Wrote(journal, r, "exit")
  BY <1>0, RecordedRuns DEF FoundDead
<1>2. fate[r] \in Fates \ {"unborn", "exited"} /\ StartOf(journal, r) # {}
  BY <1>0, <1>1 DEF TypeInv, MarksInv
<1>3. fate[r] # "running"
  <2> SUFFICES ASSUME fate[r] = "running" PROVE FALSE
    OBVIOUS
  <2>1. Probe(journal, r)
    BY <1>2 DEF Probe
  <2>2. ~EarlierBoot(journal, r)
    <3>1. First(journal, r) \in DOMAIN journal /\ journal[First(journal, r)].run = r
      BY <1>0, <1>1, FirstFacts
    <3>2. bootKnown => BootOf(journal, r) = boot
      BY <1>0, <1>1, <3>1, BootFacts DEF BootInv
    <3> QED
      BY <3>2 DEF EarlierBoot, BootId
  <2> QED
    BY <1>1, <2>1, <2>2 DEF FoundAlive
<1> QED
  BY <1>1, <1>2, <1>3 DEF Fates

(* Where boots can be told apart, it crashed. *)
LEMMA FoundIsCrashed ==
    ASSUME JournalInv, bootKnown, NEW r \in FoundDead(journal), r \notin cut, r \notin crossed
    PROVE  fate[r] = "crashed"
<1>0. TypeInv /\ MarksInv /\ BootInv /\ SeenInv /\ journal \in Seq(Marks)
  BY DEF JournalInv, TypeInv
<1>1. r \in Walked(journal) /\ r \in Recorded(journal) /\ fate[r] \in {"crashed", "stopped"}
  BY FoundIsOver
<1> SUFFICES ASSUME fate[r] = "stopped" PROVE WentDownWithMachine(journal, r)
  BY <1>1 DEF FoundDead
<1> DEFINE A == {q \in LaterStarts(journal, r) : BootOf(journal, q) = BootOf(journal, r)}
           B == {q \in LaterStarts(journal, r) : r \in LiveOf(journal, q)}
<1>2. EarlierBoot(journal, r)
  <2>1. First(journal, r) \in DOMAIN journal /\ journal[First(journal, r)].run = r
    BY <1>0, <1>1, FirstFacts
  <2>2. BootOf(journal, r) = journal[First(journal, r)].boot
    BY <1>0, <1>1, BootFacts
  <2>3. BootOf(journal, r) \in 1..boot /\ BootOf(journal, r) < boot /\ boot \in Nat
    BY <1>0, <2>1, <2>2 DEF BootInv, TypeInv
  <2> QED
    BY <2>3 DEF EarlierBoot, BootId, NoBoot
<1>3. B \subseteq A
  BY <1>1, LaterEntry, LaterFacts
<1>4. ASSUME NEW q \in A PROVE q \in B
  <2>1. PICK n \in DOMAIN journal : journal[n].ev = "start" /\ journal[n].run = q
    BY LaterEntry
  <2>2. After(journal, n, r)
    BY <1>1, <2>1, LaterFacts
  <2>3. r \in journal[n].live
    BY <1>0, <1>1, <2>2 DEF SeenInv
  <2> QED
    BY <1>0, <2>1, <2>3, StartFacts
<1>5. A = B
  BY <1>3, <1>4
<1> QED
  BY <1>2, <1>5 DEF WentDownWithMachine

(* Of several runs one is the newest. *)
LEMMA NewestFacts ==
    ASSUME NEW j \in Seq(Marks), NEW D, D \subseteq Recorded(j), D # {}
    PROVE  Newest(j, D) \in D /\ \A q \in D : First(j, q) <= First(j, Newest(j, D))
<1> DEFINE S == {First(j, q) : q \in D}
<1>1. \A q \in D : First(j, q) \in 1..Len(j)
  BY FirstFacts
<1>2. S \subseteq 0..Len(j) /\ S # {} /\ Len(j) \in Nat
  BY <1>1
<1>3. PICK x \in S : \A y \in S : x >= y
  BY <1>2, MaxIsMost
<1>4. PICK r \in D : x = First(j, r)
  OBVIOUS
<1>5. \A q \in D : First(j, q) <= First(j, r)
  BY <1>1, <1>3, <1>4
<1> QED
  BY <1>5 DEF Newest

-----------------------------------------------------------------------------
(* What a start reads. *)

(* A run that is found dead was seen dead on its boot, by an earlier start  *)
(* or by the one that finds it, which is on its boot and takes it for dead. *)
LEMMA FoundIsSeen ==
    ASSUME JournalInv, bootKnown, NEW r \in FoundDead(journal), r \notin cut
    PROVE  \/ Witnessed(journal, r)
           \/ journal[First(journal, r)].boot = boot
<1>0. TypeInv /\ BootInv /\ journal \in Seq(Marks)
  BY DEF JournalInv, TypeInv
<1>1. r \in Walked(journal) /\ r \in Recorded(journal)
  BY FoundIsOver
<1>2. BootOf(journal, r) = journal[First(journal, r)].boot
  BY <1>0, <1>1, BootFacts
<1>3. First(journal, r) \in DOMAIN journal
  BY <1>0, <1>1, FirstFacts
<1>4. BootOf(journal, r) \in 1..boot /\ boot \in Nat
  BY <1>0, <1>2, <1>3 DEF BootInv, TypeInv
<1>5. CASE ~EarlierBoot(journal, r)
  BY <1>2, <1>4, <1>5 DEF EarlierBoot, BootId, NoBoot
<1>6. CASE EarlierBoot(journal, r)
  <2> DEFINE A == {q \in LaterStarts(journal, r) : BootOf(journal, q) = BootOf(journal, r)}
             B == {q \in LaterStarts(journal, r) : r \in LiveOf(journal, q)}
  <2>1. A # B
    BY <1>6 DEF FoundDead, WentDownWithMachine
  <2>2. B \subseteq A
    BY <1>1, LaterEntry, LaterFacts
  <2>3. PICK q \in A : q \notin B
    BY <2>1, <2>2
  <2>4. PICK n \in DOMAIN journal : journal[n].ev = "start" /\ journal[n].run = q
    BY <2>3, LaterEntry
  <2>5. After(journal, n, r)
    BY <1>1, <2>3, <2>4, LaterFacts
  <2>6. LiveOf(journal, q) = journal[n].live
    BY <1>0, <2>4, StartFacts DEF JournalInv
  <2> QED
    BY <2>3, <2>5, <2>6 DEF Witnessed
<1> QED
  BY <1>5, <1>6

(* A crash that is not the last recorded one is of a later run.             *)
LEMMA NewIsLater ==
    ASSUME JournalInv, ~lent, FoundDead(journal) # {}, NEW prev, Dead(prev),
           prev # Newest(journal, FoundDead(journal))
    PROVE  First(journal, prev) < First(journal, Newest(journal, FoundDead(journal)))
<1> DEFINE dead == FoundDead(journal)
           new == Newest(journal, dead)
<1>0. TypeInv /\ journal \in Seq(Marks) /\ reused = {} /\ prev \in Recorded(journal)
  BY DEF JournalInv, TypeInv, EventInv, Dead, Over
<1>1. dead \subseteq Walked(journal) /\ Walked(journal) \subseteq Recorded(journal)
  BY <1>0, RecordedRuns DEF FoundDead
<1>2. new \in dead /\ \A q \in dead : First(journal, q) <= First(journal, new)
  BY <1>0, <1>1, NewestFacts
<1> HIDE DEF dead, new
<1>3. new \in Walked(journal) /\ new \in Recorded(journal) /\ prev # new
  BY <1>1, <1>2 DEF dead, new
<1>4. \A q \in Recorded(journal) : First(journal, q) \in Nat /\ journal[First(journal, q)].run = q
  BY <1>0, FirstFacts
<1>5. CASE prev \in Walked(journal)
  <2>1. prev \in dead
    BY <1>0, <1>5, DeadIsFound DEF dead
  <2>2. First(journal, prev) # First(journal, new)
    BY <1>0, <1>3, <1>4
  <2>3. First(journal, prev) <= First(journal, new)
    BY <1>2, <2>1
  <2> QED
    BY <1>0, <1>3, <1>4, <2>2, <2>3 DEF dead, new
<1>6. CASE prev \notin Walked(journal)
  <2>1. PICK q \in Recorded(journal) :
          Wrote(journal, q, "reported") /\ ~(First(journal, q) < First(journal, prev))
    BY <1>0, <1>6 DEF Walked
  <2>2. First(journal, q) < First(journal, new)
    BY <1>3, <2>1 DEF Walked
  <2> QED
    BY <1>0, <1>3, <1>4, <2>1, <2>2 DEF dead, new
<1> QED
  BY <1>5, <1>6

(* An entry names the present boot. *)
LEMMA EntryFacts ==
    ASSUME TypeInv, NEW x \in Runs, NEW ev \in {"start", "phase", "reported", "exit"},
           NEW live \in SUBSET Runs
    PROVE  /\ Entry(x, ev, live) \in Marks
           /\ Entry(x, ev, live).run = x /\ Entry(x, ev, live).ev = ev
           /\ Entry(x, ev, live).live = live
           /\ IF bootKnown THEN Entry(x, ev, live).boot = boot ELSE Entry(x, ev, live).boot = NoBoot
<1>1. BootId \in 0..MaxBoot
  BY DEF BootId, NoBoot, TypeInv
<1> QED
  BY <1>1 DEF Entry, Marks, BootId

(* The crash a start has read is in the journal, or was moved aside. *)
LEMMA CrashRecorded ==
    ASSUME JournalInv, NEW x \in Runs, Starting(x), start[x].crash # 0, start[x].crash \notin cut
    PROVE  start[x].crash \in Recorded(journal)
<1>1. CASE Reading(x)
  BY <1>1 DEF JournalInv, ReadInv, SeenDead, Over
<1>2. CASE ~Reading(x)
  <2>1. start[x].at \in {"record", "write"}
    BY <1>2 DEF Reading, Starting, JournalInv, TypeInv, Starts, Stages
  <2> QED
    BY <2>1 DEF JournalInv, EventInv, Dead, Over
<1> QED
  BY <1>1, <1>2

(* A list of events stays in order, while dead runs stay dead. *)
LEMMA OrderedStays ==
    ASSUME NEW E \in Seq(Crashes), Ordered(E), cut \subseteq cut', crossed \subseteq crossed',
           ~lent' => ~lent,
           \A r \in Runs : Dead(r) /\ r \notin cut' => Dead(r)' /\ First(journal', r) = First(journal, r)
    PROVE  /\ \A n \in DOMAIN E : E[n].run \notin cut' => Dead(E[n].run)'
           /\ ~lent' => \A m, n \in DOMAIN E :
                m < n /\ (\A k \in m..n : E[k].run \notin cut' /\ E[k].by \notin crossed') =>
                  First(journal', E[m].run) < First(journal', E[n].run)
<1>1. \A n \in DOMAIN E : E[n].run \in Runs
  <2>1. \A n \in DOMAIN E : E[n] \in Crashes
    OBVIOUS
  <2> QED
    BY <2>1 DEF Crashes
<1>2. \A n \in DOMAIN E : E[n].run \notin cut' =>
         Dead(E[n].run) /\ First(journal', E[n].run) = First(journal, E[n].run)
  BY <1>1 DEF Ordered
<1>3. \A n \in DOMAIN E : E[n].run \notin cut' => Dead(E[n].run)'
  <2>1. \A r \in Runs : Dead(r) /\ r \notin cut' => Dead(r)'
    OBVIOUS
  <2> QED
    BY <1>1, <1>2, <2>1 DEF Dead
<1>4. ASSUME ~lent', NEW m \in DOMAIN E, NEW n \in DOMAIN E, m < n,
             \A k \in m..n : E[k].run \notin cut' /\ E[k].by \notin crossed'
      PROVE  First(journal', E[m].run) < First(journal', E[n].run)
  <2>1. m \in m..n /\ n \in m..n
    BY <1>4
  <2>2. \A k \in m..n : E[k].run \notin cut /\ E[k].by \notin crossed
    BY <1>4
  <2>3. First(journal, E[m].run) < First(journal, E[n].run)
    BY <1>4, <2>2 DEF Ordered, Rising
  <2> QED
    BY <1>2, <1>4, <2>1, <2>3
<1> QED
  BY <1>3, <1>4

-----------------------------------------------------------------------------
(* Steps that leave the journal alone. *)

(* What a read, the steps of a start that follow, a death, the machine      *)
(* going down and a reused pid have in common.                              *)
Quiet ==
    /\ UNCHANGED <<journal, bootKnown, found, cut, passed>>
    /\ TypeInv' /\ boot <= boot' /\ crossed \subseteq crossed'
    /\ ~lent' => ~lent /\ reused' \subseteq reused
    /\ \A r \in Runs : \/ fate'[r] = fate[r]
                       \/ fate[r] = "running" /\ fate'[r] \in {"crashed", "stopped"}
                       \/ fate[r] = "unborn" /\ fate'[r] = "running" /\ Reading(r)'
    /\ \A r \in Runs : fate[r] # "unborn" => carries'[r] = carries[r]
    /\ \A r \in Runs : fate'[r] = "running" => boot' = boot
    /\ \A r \in Runs : fate'[r] = "stopped" => fate[r] = "stopped" \/ boot < boot'
    /\ \A r \in Runs : fate'[r] = "running" /\ Reading(r) => Reading(r)'
    /\ \A r \in Runs : Reading(r)' =>
          /\ fate'[r] = "running"
          /\ fate[r] # "unborn" => /\ Reading(r) /\ start'[r].live = start[r].live
                                   /\ start'[r].crash = start[r].crash

(* What the journal says of every run stays true. *)
LEMMA QuietStep ==
    ASSUME JournalInv, Quiet
    PROVE  /\ MarksInv' /\ BootInv' /\ LiveInv' /\ SeenInv' /\ FoundInv'
           /\ \A r \in Runs : Over(r) => fate'[r] = fate[r]
           /\ \A r \in Runs : Dead(r) => Dead(r)'
<1>0. /\ TypeInv /\ MarksInv /\ BootInv /\ LiveInv /\ SeenInv /\ FoundInv
      /\ journal \in Seq(Marks) /\ TypeInv' /\ crossed \subseteq crossed'
      /\ UNCHANGED <<journal, bootKnown, found, cut, passed>>
  BY DEF JournalInv, TypeInv, Quiet
<1>1. boot \in Nat /\ boot' \in Nat /\ boot <= boot'
  BY <1>0 DEF TypeInv, Quiet
<1>3. Recorded(journal) \subseteq Runs /\ Walked(journal) \subseteq Recorded(journal)
  BY <1>0, RecordedRuns
<1>2. /\ \A r \in Runs : /\ fate'[r] = "unborn" => fate[r] = "unborn"
                         /\ fate'[r] = "exited" <=> fate[r] = "exited"
                         /\ fate'[r] = "running" => boot' = boot
                         /\ fate[r] \in {"crashed", "stopped"} => fate'[r] = fate[r]
      /\ \A r \in Runs : fate[r] # "unborn" =>
                         /\ fate'[r] = "running" => fate[r] = "running"
                         /\ fate'[r] = "stopped" => fate[r] \in {"running", "stopped"}
  BY DEF Quiet
<1>4. \A n \in DOMAIN journal : journal[n].run \in Runs /\ journal[n].live \subseteq Runs
                                /\ fate[journal[n].run] # "unborn"
                                /\ \A r \in journal[n].live : fate[r] # "unborn"
  <2>1. \A n \in DOMAIN journal : journal[n] \in Marks /\ journal[n].run \in Recorded(journal)
    BY <1>0 DEF Recorded
  <2> QED
    BY <1>0, <2>1 DEF Marks, MarksInv
<1>5. MarksInv'
  <2>1. \A r \in Recorded(journal) : fate'[r] # "unborn" /\ (r \in cut \/ StartOf(journal, r) # {})
    BY <1>0, <1>2, <1>3 DEF MarksInv
  <2>2. \A r \in Runs \ cut : fate'[r] = "running" /\ ~Reading(r)' => r \in Recorded(journal)
    <3>1. \A r \in Runs : fate'[r] = "running" /\ ~Reading(r)' => fate[r] = "running" /\ ~Reading(r)
      BY DEF Quiet
    <3> QED
      BY <1>0, <3>1 DEF MarksInv
  <2>3. \A r \in Runs : Wrote(journal, r, "exit") => fate'[r] = "exited"
    BY <1>0, <1>2 DEF MarksInv
  <2>4. \A r \in Runs \ cut : fate'[r] = "exited" => Wrote(journal, r, "exit")
    BY <1>0, <1>2 DEF MarksInv
  <2>5. \A n \in DOMAIN journal : \A r \in journal[n].live : fate'[r] # "unborn"
    BY <1>0, <1>2, <1>4 DEF MarksInv
  <2>6. /\ \A m, n \in DOMAIN journal :
              journal[m].run = journal[n].run /\ journal[m].ev = journal[n].ev => m = n
        /\ \A n \in DOMAIN journal : journal[n].ev = "start" =>
              \A m \in Entries(journal, journal[n].run) : n <= m
    BY <1>0 DEF MarksInv
  <2>7. \A r \in Runs : Wrote(journal, r, "reported") => carries'[r] = {}
    <3> SUFFICES ASSUME NEW r \in Runs, Wrote(journal, r, "reported") PROVE carries'[r] = {}
      OBVIOUS
    <3>1. r \in Recorded(journal)
      BY DEF Wrote, Entries, Recorded
    <3> QED
      BY <1>0, <3>1 DEF MarksInv, Quiet
  <2> QED
    BY <1>0, <2>1, <2>2, <2>3, <2>4, <2>5, <2>6, <2>7 DEF MarksInv, Reading
<1>6. BootInv'
  <2>1. \A n \in DOMAIN journal : IF bootKnown THEN journal[n].boot \in 1..boot'
                                               ELSE journal[n].boot = NoBoot
    BY <1>0, <1>1 DEF BootInv
  <2>2. \A n \in DOMAIN journal : bootKnown =>
           /\ fate'[journal[n].run] = "running" => journal[n].boot = boot'
           /\ fate'[journal[n].run] = "stopped" => journal[n].boot < boot'
    <3> SUFFICES ASSUME NEW n \in DOMAIN journal, bootKnown
                 PROVE  /\ fate'[journal[n].run] = "running" => journal[n].boot = boot'
                        /\ fate'[journal[n].run] = "stopped" => journal[n].boot < boot'
      OBVIOUS
    <3>1. /\ journal[n].boot \in 1..boot
          /\ fate[journal[n].run] = "running" => journal[n].boot = boot
          /\ fate[journal[n].run] = "stopped" => journal[n].boot < boot
      BY <1>0 DEF BootInv
    <3> DEFINE r == journal[n].run
               b == journal[n].boot
    <3>2. r \in Runs /\ fate[r] # "unborn" /\ b \in Nat /\ b <= boot
      BY <1>1, <1>4, <3>1
    <3>3. fate'[r] = "stopped" => fate[r] = "stopped" \/ boot < boot'
      BY <3>2 DEF Quiet
    <3> HIDE DEF r, b
    <3>4. fate'[r] = "stopped" => b < boot'
      BY <1>1, <1>2, <3>1, <3>2, <3>3 DEF r, b
    <3> QED
      BY <1>2, <3>1, <3>2, <3>4 DEF r, b
  <2> QED
    BY <1>0, <2>1, <2>2 DEF BootInv
<1>7. LiveInv'
  <2>1. \A n \in DOMAIN journal : bootKnown /\ journal[n].ev = "start" =>
           \A r \in journal[n].live :
              /\ fate'[r] = "running" => journal[n].boot = boot'
              /\ \A m \in Entries(journal, r) : journal[m].boot = journal[n].boot
    BY <1>0, <1>2, <1>4 DEF LiveInv
  <2> QED
    BY <1>0, <2>1 DEF LiveInv
<1>8. SeenInv'
  <2>1. \A r \in Recorded(journal) :
           fate'[r] \in {"running", "stopped"} => fate[r] \in {"running", "stopped"}
    BY <1>0, <1>2, <1>3 DEF MarksInv
  <2> QED
    BY <1>0, <1>3, <2>1 DEF SeenInv
<1>9. /\ \A r \in Runs : Over(r) => fate'[r] = fate[r]
      /\ \A r \in Runs : Dead(r) => Dead(r)'
  BY <1>0, <1>2 DEF Dead, Over
<1>10. FoundInv'
  BY <1>0, <1>3, <1>9 DEF FoundInv, Dead, Over
<1> QED
  BY <1>5, <1>6, <1>7, <1>8, <1>9, <1>10

(* What a start has read before the step stays as good. *)
LEMMA QuietReads ==
    ASSUME JournalInv, Quiet, NEW x \in Runs, Reading(x)', fate[x] # "unborn"
    PROVE  /\ ReadLive(x)' /\ \A r \in carries'[x] \ cut' : SeenDead(x, r)'
           /\ start'[x].crash # 0 <=> carries'[x] # {}
           /\ start'[x].crash # 0 => start'[x].crash \in carries'[x]
<1>0. /\ TypeInv /\ MarksInv /\ ReadInv /\ journal \in Seq(Marks) /\ crossed \subseteq crossed'
      /\ UNCHANGED <<journal, bootKnown, found, cut, passed>>
  BY DEF JournalInv, TypeInv, Quiet
<1>1. /\ Reading(x) /\ boot' = boot /\ carries'[x] = carries[x]
      /\ start'[x].live = start[x].live /\ start'[x].crash = start[x].crash
  BY DEF Quiet
<1>2. start[x].live \subseteq Runs /\ carries[x] \subseteq Runs
  BY <1>0 DEF TypeInv, Starts
<1>3. Walked(journal) \subseteq Recorded(journal) /\ Recorded(journal) \subseteq Runs
  BY <1>0, RecordedRuns
<1>4. ReadLive(x)'
  <2>1. \A r \in start[x].live : fate'[r] # "unborn"
    <3>1. \A r \in start[x].live : r \in Runs /\ fate[r] # "unborn"
      BY <1>0, <1>1, <1>2 DEF ReadInv, ReadLive
    <3> QED
      BY <3>1 DEF Quiet
  <2>2. \A r \in Walked(journal) \ (cut \cup crossed') : fate'[r] = "running" => r \in start[x].live
    <3>1. \A r \in Recorded(journal) : fate'[r] = "running" => fate[r] = "running"
      BY <1>0, <1>3 DEF MarksInv, Quiet
    <3> QED
      BY <1>0, <1>1, <1>3, <3>1 DEF ReadInv, ReadLive
  <2>3. bootKnown => \A r \in start[x].live : \A m \in Entries(journal, r) : journal[m].boot = boot
    BY <1>0, <1>1 DEF ReadInv, ReadLive
  <2> QED
    BY <1>0, <1>1, <2>1, <2>2, <2>3 DEF ReadLive
<1>5. ASSUME NEW r \in carries[x] \ cut PROVE SeenDead(x, r)'
  <2>1. SeenDead(x, r)
    BY <1>0, <1>1 DEF ReadInv
  <2>2. fate'[r] = fate[r]
    BY <1>2, <2>1, QuietStep DEF SeenDead
  <2> QED
    BY <1>0, <1>1, <2>1, <2>2 DEF SeenDead, Over
<1> QED
  BY <1>0, <1>1, <1>4, <1>5 DEF ReadInv

(* A step after the read of a start, a death, or a reused pid. *)
Onward ==
    /\ Quiet /\ UNCHANGED <<crashEvents, crossed>>
    /\ \A r \in Runs : Starting(r)' =>
          fate'[r] = "running" /\ Starting(r) /\ start'[r].crash = start[r].crash
    /\ \A r \in Runs : start'[r].events \in {<<>>, start[r].events, crashEvents}
    /\ \A r \in Runs : start'[r].at \in {"record", "write"} => start[r].at \in {"record", "write"}
    /\ \A r \in Runs : start'[r].at = "write" =>
          \/ start[r].at = "write" /\ start'[r].events = start[r].events
          \/ start'[r].events = crashEvents /\ (crashEvents # <<>> => LastCrash # start[r].crash)

(* Each of these steps is one. *)
LEMMA OnwardFacts ==
    ASSUME JournalInv,
           \/ \E r \in Runs : MeasureJournal(r) \/ RecordCrash(r) \/ Die(r) \/ PidIsReused(r)
           \/ MachineGoesDown
           \/ UNCHANGED journalVars
    PROVE  Onward
<1>0. TypeInv /\ StartInv /\ fate \in [Runs -> Fates] /\ start \in [Runs -> Starts] /\ boot \in Nat
  BY DEF JournalInv, TypeInv
<1>s. Started \in Starts
  BY DEF Started, Starts, Stages
<1>1. ASSUME NEW x \in Runs, MeasureJournal(x) PROVE Onward
  <2> DEFINE at == IF Len(journal) >= MaxJournal THEN "move" ELSE "mark"
  <2>1. start[x].at = "measure" /\ start' = [start EXCEPT ![x].at = at] /\ at \in {"move", "mark"}
    BY <1>1 DEF MeasureJournal
  <2> HIDE DEF at
  <2>2. start' \in [Runs -> Starts]
    <3>1. start[x] \in Starts /\ at \in Stages
      BY <1>0, <2>1 DEF Stages
    <3>2. [start[x] EXCEPT !.at = at] \in Starts
      BY <3>1 DEF Starts
    <3> QED
      BY <1>0, <2>1, <3>2
  <2>3. /\ start'[x].at = at /\ start'[x].live = start[x].live /\ start'[x].crash = start[x].crash
        /\ start'[x].events = start[x].events
        /\ \A r \in Runs : r # x => start'[r] = start[r]
    BY <1>0, <2>1 DEF Starts
  <2>4. UNCHANGED <<journal, boot, bootKnown, fate, carries, reused, crashEvents, pastVars>>
    BY <1>1 DEF MeasureJournal
  <2>5. TypeInv'
    BY <1>0, <2>2, <2>4 DEF TypeInv, pastVars
  <2>6. \A r \in Runs : /\ Reading(r)' <=> Reading(r)
                        /\ Starting(r)' <=> Starting(r)
                        /\ start'[r].crash = start[r].crash /\ start'[r].live = start[r].live
                        /\ start'[r].events = start[r].events
                        /\ Reading(r)' => fate[r] = "running"
                        /\ Starting(r)' => fate[r] = "running"
                        /\ start'[r].at \in {"record", "write"} => start'[r].at = start[r].at
    BY <1>0, <2>1, <2>3 DEF Reading, Starting, StartInv
  <2>7. Quiet
    BY <1>0, <2>4, <2>5, <2>6 DEF Quiet, pastVars
  <2> QED
    BY <2>4, <2>6, <2>7 DEF Onward, pastVars
<1>2. ASSUME NEW x \in Runs, RecordCrash(x) PROVE Onward
  <2>1. /\ start[x].at = "record" /\ \A r \in Runs : r # x => start'[r] = start[r]
        /\ start' \in [Runs -> Starts]
        /\ \/ start'[x] = Started
           \/ /\ start'[x] = [start[x] EXCEPT !.at = "write", !.events = crashEvents]
              /\ crashEvents # <<>> => LastCrash # start[x].crash
    <3>1. /\ start[x].at = "record"
          /\ start' = [start EXCEPT ![x] =
               IF crashEvents # <<>> /\ LastCrash = start[x].crash THEN Started
               ELSE [@ EXCEPT !.at = "write", !.events = crashEvents]]
      BY <1>2 DEF RecordCrash, LastCrash
    <3>2. [start[x] EXCEPT !.at = "write", !.events = crashEvents] \in Starts
      <4>1. start[x] \in Starts /\ crashEvents \in Seq(Crashes) /\ "write" \in Stages
        BY <1>0 DEF TypeInv, Stages
      <4> QED
        BY <4>1 DEF Starts
    <3> QED
      BY <1>0, <1>s, <3>1, <3>2
  <2>2. \/ start'[x] = Started
        \/ /\ start'[x].at = "write" /\ start'[x].live = start[x].live
           /\ start'[x].crash = start[x].crash /\ start'[x].events = crashEvents
           /\ crashEvents # <<>> => LastCrash # start[x].crash
    BY <1>0, <2>1 DEF Starts
  <2>4. UNCHANGED <<journal, boot, bootKnown, fate, carries, reused, crashEvents, pastVars>>
    BY <1>2 DEF RecordCrash
  <2>5. TypeInv'
    BY <1>0, <2>1, <2>4 DEF TypeInv, pastVars
  <2>6. \A r \in Runs : /\ Reading(r)' <=> Reading(r)
                        /\ Reading(r) => start'[r] = start[r] /\ fate[r] = "running"
                        /\ Starting(r)' => Starting(r) /\ start'[r].crash = start[r].crash
                                           /\ fate[r] = "running"
                        /\ start'[r].events \in {<<>>, start[r].events, crashEvents}
                        /\ start'[r].at \in {"record", "write"} => start[r].at \in {"record", "write"}
                        /\ start'[r].at = "write" =>
                             \/ start'[r] = start[r]
                             \/ /\ start'[r].events = crashEvents
                                /\ crashEvents # <<>> => LastCrash # start[r].crash
    BY <1>0, <2>1, <2>2 DEF Reading, Starting, StartInv, Started
  <2>7. Quiet
    BY <1>0, <2>4, <2>5, <2>6 DEF Quiet, pastVars
  <2> QED
    BY <2>4, <2>6, <2>7 DEF Onward, pastVars
<1>3. ASSUME NEW x \in Runs, Die(x) PROVE Onward
  <2>1. /\ fate' \in [Runs -> Fates] /\ fate[x] = "running" /\ fate'[x] = "crashed"
        /\ \A r \in Runs : r # x => fate'[r] = fate[r]
    BY <1>0, <1>3 DEF Die, Fates
  <2>2. /\ start' \in [Runs -> Starts] /\ start'[x] = Started
        /\ \A r \in Runs : r # x => start'[r] = start[r]
    BY <1>0, <1>s, <1>3 DEF Die
  <2>3. UNCHANGED <<journal, boot, bootKnown, carries, reused, crashEvents, pastVars>>
    BY <1>3 DEF Die
  <2>4. TypeInv'
    BY <1>0, <2>1, <2>2, <2>3 DEF TypeInv, pastVars
  <2>5. \A r \in Runs : /\ Starting(r)' => r # x /\ fate[r] = "running"
                        /\ Reading(r)' => r # x /\ fate[r] = "running"
                        /\ start'[r].events \in {<<>>, start[r].events}
    BY <1>0, <2>2 DEF Reading, Starting, StartInv, Started
  <2>6. \A r \in Runs : start'[r].at \in {"record", "write"} => r # x
    BY <2>2 DEF Started
  <2>7. Quiet
    BY <1>0, <2>1, <2>2, <2>3, <2>4, <2>5 DEF Quiet, pastVars, Reading
  <2> QED
    BY <2>1, <2>2, <2>3, <2>5, <2>6, <2>7 DEF Onward, pastVars, Starting
<1>4. ASSUME NEW x \in Runs, PidIsReused(x) PROVE Onward
  <2>1. /\ UNCHANGED <<journal, boot, bootKnown, fate, start, carries, crashEvents, found, passed,
                       crossed, cut>>
        /\ reused' = reused \cup {x} /\ lent' = TRUE
    BY <1>4 DEF PidIsReused
  <2>2. TypeInv'
    BY <1>0, <2>1 DEF TypeInv
  <2>3. \A r \in Runs : /\ Starting(r) => fate[r] = "running"
                        /\ Reading(r) => fate[r] = "running"
    BY <1>0 DEF Reading, Starting, StartInv
  <2>4. Quiet
    BY <1>0, <2>1, <2>2, <2>3 DEF Quiet, Reading
  <2> QED
    BY <2>1, <2>3, <2>4 DEF Onward, Starting
<1>5. ASSUME MachineGoesDown PROVE Onward
  <2>1. /\ fate' = [r \in Runs |-> IF fate[r] = "running" THEN "stopped" ELSE fate[r]]
        /\ start' = [r \in Runs |-> Started]
        /\ boot < MaxBoot /\ boot' = boot + 1 /\ reused' = {}
        /\ UNCHANGED <<journal, bootKnown, carries, crashEvents, pastVars>>
    BY <1>5 DEF MachineGoesDown
  <2>2. fate' \in [Runs -> Fates] /\ start' \in [Runs -> Starts]
    BY <1>0, <1>s, <2>1 DEF Fates
  <2>3. boot' \in 1..MaxBoot /\ boot < boot' /\ boot <= boot' /\ MaxBoot \in Nat
    BY <1>0, <2>1 DEF TypeInv
  <2>4. TypeInv'
    BY <1>0, <2>1, <2>2, <2>3 DEF TypeInv, pastVars
  <2>5. \A r \in Runs : ~Starting(r)' /\ ~Reading(r)' /\ start'[r].at = "none" /\ start'[r].events = <<>>
    BY <2>1 DEF Starting, Reading, Started
  <2>6. \A r \in Runs : fate'[r] = IF fate[r] = "running" THEN "stopped" ELSE fate[r]
    BY <2>1
  <2>7. Quiet
    BY <1>0, <2>1, <2>3, <2>4, <2>5, <2>6 DEF Quiet, pastVars
  <2> QED
    BY <2>1, <2>5, <2>7 DEF Onward, pastVars
<1>6. ASSUME UNCHANGED journalVars PROVE Onward
  <2>1. TypeInv'
    BY <1>0, <1>6 DEF journalVars, pastVars, TypeInv
  <2>2. \A r \in Runs : /\ Starting(r) => fate[r] = "running"
                        /\ Reading(r) => fate[r] = "running"
    BY <1>0 DEF Reading, Starting, StartInv
  <2>3. Quiet
    BY <1>0, <1>6, <2>1, <2>2 DEF Quiet, journalVars, pastVars, Reading
  <2> QED
    BY <1>6, <2>2, <2>3 DEF Onward, journalVars, pastVars, Starting
<1> QED
  BY <1>1, <1>2, <1>3, <1>4, <1>5, <1>6

(* A quiet step keeps the order of events in a list. *)
LEMMA QuietOrdered ==
    ASSUME JournalInv, Quiet, NEW E \in Seq(Crashes), Ordered(E)
    PROVE  /\ \A n \in DOMAIN E : E[n].run \notin cut' => Dead(E[n].run)'
           /\ ~lent' => \A m, n \in DOMAIN E :
                m < n /\ (\A k \in m..n : E[k].run \notin cut' /\ E[k].by \notin crossed') =>
                  First(journal', E[m].run) < First(journal', E[n].run)
<1>1. cut' = cut /\ crossed \subseteq crossed' /\ (~lent' => ~lent) /\ journal' = journal
  BY DEF Quiet
<1>2. \A r \in Runs : Dead(r) => Dead(r)'
  BY QuietStep
<1>3. \A r \in Runs : Dead(r) /\ r \notin cut' => Dead(r)' /\ First(journal', r) = First(journal, r)
  BY <1>1, <1>2
<1> QED
  BY <1>1, <1>3, OrderedStays

(* Events stay in order when a start's list is dropped or taken from the    *)
(* record as it is.                                                         *)
LEMMA QuietEvents ==
    ASSUME JournalInv, Quiet, UNCHANGED crashEvents,
           \A r \in Runs : start'[r].events \in {<<>>, start[r].events, crashEvents},
           \A r \in Runs : start'[r].at \in {"record", "write"} =>
              start[r].at \in {"record", "write"} /\ start'[r].crash = start[r].crash
    PROVE  EventInv'
<1>0. /\ TypeInv /\ EventInv /\ start \in [Runs -> Starts] /\ crashEvents \in Seq(Crashes)
      /\ TypeInv' /\ UNCHANGED <<journal, cut, crashEvents>>
  BY DEF JournalInv, TypeInv, Quiet
<1>1. \A x \in Runs : /\ start'[x].events \in Seq(Crashes)
                      /\ start'[x].events = <<>> \/ Ordered(start'[x].events)
  <2>1. \A x \in Runs : start[x].events \in Seq(Crashes) /\ Ordered(start[x].events)
    BY <1>0 DEF Starts, EventInv
  <2>2. Ordered(crashEvents)
    BY <1>0 DEF EventInv
  <2> SUFFICES ASSUME NEW x \in Runs
               PROVE  /\ start'[x].events \in Seq(Crashes)
                      /\ start'[x].events = <<>> \/ Ordered(start'[x].events)
    OBVIOUS
  <2>3. start'[x].events = <<>> \/ start'[x].events = start[x].events \/ start'[x].events = crashEvents
    OBVIOUS
  <2>4. crashEvents \in Seq(Crashes) /\ <<>> \in Seq(Crashes)
    BY <1>0
  <2>5. CASE start'[x].events = <<>>
    BY <2>4, <2>5
  <2>6. CASE start'[x].events = start[x].events
    BY <2>1, <2>6, Zenon
  <2>7. CASE start'[x].events = crashEvents
    BY <2>2, <2>4, <2>7, Zenon
  <2> QED
    BY <2>3, <2>5, <2>6, <2>7
<1>6. \A E \in Seq(Crashes) : Ordered(E) =>
         /\ \A n \in DOMAIN E : E[n].run \notin cut' => Dead(E[n].run)'
         /\ ~lent' => \A m, n \in DOMAIN E :
              m < n /\ (\A k \in m..n : E[k].run \notin cut' /\ E[k].by \notin crossed') =>
                First(journal', E[m].run) < First(journal', E[n].run)
  BY <1>0, QuietOrdered
<1>2. ASSUME NEW x \in Runs PROVE Ordered(start[x].events)'
  <2>1. CASE start'[x].events = <<>>
    BY <2>1 DEF Ordered
  <2>2. CASE Ordered(start'[x].events)
    BY <1>1, <1>6, <2>2 DEF Ordered, Rising, Dead, Over
  <2> QED
    BY <1>1, <2>1, <2>2
<1>3. Ordered(crashEvents)'
  <2>1. Ordered(crashEvents)
    BY <1>0 DEF EventInv
  <2>2. /\ \A n \in DOMAIN crashEvents : crashEvents[n].run \notin cut' => Dead(crashEvents[n].run)'
        /\ ~lent' => \A m, n \in DOMAIN crashEvents :
             m < n /\ (\A k \in m..n : crashEvents[k].run \notin cut' /\ crashEvents[k].by \notin crossed') =>
               First(journal', crashEvents[m].run) < First(journal', crashEvents[n].run)
    BY <1>0, <2>1, QuietOrdered
  <2> QED
    BY <1>0, <2>2 DEF Ordered, Rising, Dead, Over
<1>4. \A x \in Runs : start'[x].at \in {"record", "write"} =>
         start'[x].crash # 0 /\ (start'[x].crash \notin cut => Dead(start[x].crash)')
  <2> SUFFICES ASSUME NEW x \in Runs, start'[x].at \in {"record", "write"}
               PROVE  start'[x].crash # 0 /\ (start'[x].crash \notin cut => Dead(start[x].crash)')
    OBVIOUS
  <2>1. start'[x].crash = start[x].crash /\ start[x].at \in {"record", "write"}
    OBVIOUS
  <2>2. start[x].crash \in 0..RunCount /\ RunCount \in Nat
    BY <1>0 DEF Starts
  <2>3. start[x].crash # 0 /\ (start[x].crash \notin cut => Dead(start[x].crash))
    BY <1>0, <2>1 DEF EventInv
  <2>4. start[x].crash \in Runs
    BY <2>2, <2>3 DEF Runs
  <2> DEFINE c == start[x].crash
  <2>5. c \in Runs /\ start'[x].crash = c
    BY <2>1, <2>4
  <2>6. Dead(c) => Dead(c)'
    BY <1>0, <2>5, QuietStep DEF Dead, Over, Quiet
  <2> QED
    BY <2>1, <2>3, <2>6
<1>5. ~lent' => reused' = {}
  BY <1>0 DEF EventInv, Quiet
<1> QED
  BY <1>0, <1>2, <1>3, <1>4, <1>5 DEF EventInv

(* All that is known stays true, and no start reads anything new. *)
LEMMA OnwardStep == ASSUME JournalInv, Onward PROVE JournalInv'
<1>0. /\ TypeInv /\ StartInv /\ ReadInv /\ EventInv /\ NewerInv /\ Quiet /\ TypeInv'
      /\ start \in [Runs -> Starts] /\ crashEvents \in Seq(Crashes)
      /\ UNCHANGED <<journal, cut, crossed, crashEvents>>
  BY DEF JournalInv, TypeInv, Onward, Quiet
<1>1. MarksInv' /\ BootInv' /\ LiveInv' /\ SeenInv' /\ FoundInv' /\ \A r \in Runs : Dead(r) => Dead(r)'
  BY <1>0, QuietStep
<1>2. \A r \in Runs : Reading(r)' => fate[r] = "running" /\ Reading(r)
  <2>1. \A r \in Runs : Reading(r)' => Starting(r)'
    BY DEF Reading, Starting
  <2>2. \A r \in Runs : Starting(r)' => fate[r] = "running"
    BY <1>0 DEF Onward, StartInv
  <2> QED
    BY <2>1, <2>2 DEF Quiet, Onward
<1>3. StartInv'
  BY <1>0, <1>2 DEF StartInv, Onward
<1>4. ReadInv'
  BY <1>0, <1>2, QuietReads DEF ReadInv
<1>5. EventInv'
  BY <1>0, QuietEvents DEF Onward, Starting
<1>6. NewerInv'
  <2> SUFFICES ASSUME NEW x \in Runs \ crossed, Starting(x)'
               PROVE  /\ ~lent' /\ crashEvents # <<>> /\ start'[x].crash # 0
                            /\ LastCrash \notin cut /\ start'[x].crash \notin cut =>
                              \/ LastCrash = start'[x].crash
                              \/ First(journal, LastCrash) < First(journal, start'[x].crash)
                      /\ start'[x].at = "write" =>
                            /\ start'[x].events = crashEvents
                            /\ crashEvents # <<>> => LastCrash # start'[x].crash
    BY <1>0 DEF NewerInv, LastCrash
  <2>1. Starting(x) /\ start'[x].crash = start[x].crash /\ (~lent' => ~lent)
    BY DEF Onward, Quiet
  <2> QED
    BY <1>0, <2>1 DEF NewerInv, Onward
<1> QED
  BY <1>0, <1>1, <1>3, <1>4, <1>5, <1>6 DEF JournalInv

(* A run reads the journal: it takes from it runs that are in it. *)
LEMMA ReadFacts ==
    ASSUME JournalInv, NEW x \in Runs, ReadJournal(x)
    PROVE  LET dead == FoundDead(journal)
           IN  /\ Quiet /\ UNCHANGED <<boot, crashEvents, lent>>
               /\ fate[x] = "unborn" /\ fate'[x] = "running" /\ x \notin Recorded(journal)
               /\ start'[x].at = "measure" /\ start'[x].live = FoundAlive(journal)
               /\ start'[x].crash = IF dead = {} THEN 0 ELSE Newest(journal, dead)
               /\ start'[x].events = <<>> /\ carries'[x] = dead
               /\ dead # {} => Newest(journal, dead) \in dead /\ Newest(journal, dead) # 0
               /\ dead \subseteq Recorded(journal) /\ FoundAlive(journal) \subseteq Recorded(journal)
               /\ \A r \in Runs : r # x => start'[r] = start[r] /\ fate'[r] = fate[r]
               /\ \A q \in Runs : Starting(q) => q \in crossed' /\ x \in crossed'
<1> DEFINE dead == FoundDead(journal)
           live == FoundAlive(journal)
           new == IF dead = {} THEN 0 ELSE Newest(journal, dead)
<1>0. /\ TypeInv /\ MarksInv /\ StartInv /\ journal \in Seq(Marks) /\ fate \in [Runs -> Fates]
      /\ start \in [Runs -> Starts] /\ carries \in [Runs -> SUBSET Runs] /\ boot \in Nat
      /\ crossed \subseteq Runs
  BY DEF JournalInv, TypeInv
<1>1. Recorded(journal) \subseteq Runs /\ Walked(journal) \subseteq Recorded(journal)
  BY <1>0, RecordedRuns
<1>2. live \subseteq Recorded(journal) /\ dead \subseteq Recorded(journal)
  BY <1>1 DEF FoundAlive, FoundDead
<1>3. dead # {} => Newest(journal, dead) \in dead
  BY <1>0, <1>2, NewestFacts
<1>4. /\ fate[x] = "unborn" /\ fate' = [fate EXCEPT ![x] = "running"]
      /\ carries' = [carries EXCEPT ![x] = dead]
      /\ start' = [start EXCEPT ![x] = [at |-> "measure", live |-> live, crash |-> new, events |-> <<>>]]
      /\ UNCHANGED <<journal, boot, bootKnown, reused, crashEvents, lent, found, passed, cut>>
      /\ crossed' = IF {q \in Runs : Starting(q)} = {} THEN crossed
                    ELSE crossed \cup {q \in Runs : Starting(q)} \cup {x}
  BY DEF ReadJournal
<1>5. dead # {} => Newest(journal, dead) \in Runs /\ Newest(journal, dead) # 0
  BY <1>1, <1>2, <1>3 DEF Runs
<1>6. new \in 0..RunCount
  BY <1>5 DEF Runs
<1> HIDE DEF dead, live, new
<1>7. x \notin Recorded(journal)
  BY <1>0, <1>4 DEF MarksInv
<1>8. [at |-> "measure", live |-> live, crash |-> new, events |-> <<>>] \in Starts
  BY <1>1, <1>2, <1>6 DEF Starts, Stages
<1>9. /\ start' \in [Runs -> Starts] /\ fate' \in [Runs -> Fates] /\ carries' \in [Runs -> SUBSET Runs]
      /\ crossed' \subseteq Runs /\ crossed \subseteq crossed'
  BY <1>0, <1>1, <1>2, <1>4, <1>8 DEF Fates
<1>10. TypeInv'
  BY <1>0, <1>4, <1>9 DEF TypeInv
<1>11. /\ start'[x].at = "measure" /\ start'[x].live = live /\ start'[x].crash = new
       /\ start'[x].events = <<>> /\ fate'[x] = "running" /\ carries'[x] = dead
       /\ \A r \in Runs : r # x => start'[r] = start[r] /\ fate'[r] = fate[r] /\ carries'[r] = carries[r]
  BY <1>0, <1>4
<1>12. \A q \in Runs : Starting(q) => q \in crossed' /\ x \in crossed'
  BY <1>4
<1>13. Quiet
  <2>1. \A r \in Runs : Reading(r) => fate[r] = "running"
    BY <1>0 DEF StartInv, Reading, Starting
  <2>2. Reading(x)'
    BY <1>11 DEF Reading
  <2> QED
    BY <1>0, <1>4, <1>9, <1>10, <1>11, <2>1, <2>2 DEF Quiet, Reading
<1> QED
  BY <1>2, <1>3, <1>4, <1>5, <1>7, <1>11, <1>12, <1>13 DEF dead, live, new

(* What it reads is true of the runs it finds, and the crash it takes from  *)
(* it is the last recorded one or a later one.                              *)
LEMMA ReadStep ==
    ASSUME JournalInv, NEW x \in Runs, ReadJournal(x)
    PROVE  JournalInv'
<1> DEFINE dead == FoundDead(journal)
           live == FoundAlive(journal)
<1>0. /\ TypeInv /\ MarksInv /\ BootInv /\ StartInv /\ ReadInv /\ EventInv /\ NewerInv
      /\ journal \in Seq(Marks)
  BY DEF JournalInv, TypeInv
<1>1. /\ Quiet /\ UNCHANGED <<boot, crashEvents, lent>>
      /\ fate[x] = "unborn" /\ fate'[x] = "running" /\ x \notin Recorded(journal)
      /\ start'[x].at = "measure" /\ start'[x].live = live
      /\ start'[x].crash = IF dead = {} THEN 0 ELSE Newest(journal, dead)
      /\ start'[x].events = <<>> /\ carries'[x] = dead
      /\ dead # {} => Newest(journal, dead) \in dead /\ Newest(journal, dead) # 0
      /\ dead \subseteq Recorded(journal) /\ live \subseteq Recorded(journal)
      /\ \A r \in Runs : r # x => start'[r] = start[r] /\ fate'[r] = fate[r]
      /\ \A q \in Runs : Starting(q) => q \in crossed' /\ x \in crossed'
  BY ReadFacts
<1> HIDE DEF dead, live
<1>2. /\ UNCHANGED <<journal, bootKnown, cut, passed>> /\ crossed \subseteq crossed' /\ TypeInv'
      /\ crashEvents \in Seq(Crashes)
  BY <1>0, <1>1 DEF Quiet, TypeInv
<1>3. MarksInv' /\ BootInv' /\ LiveInv' /\ SeenInv' /\ FoundInv'
  BY <1>1, QuietStep
<1>4. Recorded(journal) \subseteq Runs /\ Walked(journal) \subseteq Recorded(journal)
  BY <1>0, RecordedRuns
<1>5. StartInv'
  <2>1. \A r \in Runs : r # x => (Starting(r)' <=> Starting(r)) /\ (Reading(r)' <=> Reading(r))
    BY <1>1 DEF Starting, Reading
  <2> QED
    BY <1>0, <1>1, <1>2, <2>1 DEF StartInv
<1>6. ReadInv'
  <2>1. ReadLive(x)'
    <3>1. \A r \in live : fate'[r] # "unborn"
      BY <1>0, <1>1, <1>4 DEF MarksInv
    <3>2. ASSUME bootKnown, NEW r \in live, NEW m \in Entries(journal, r) PROVE journal[m].boot = boot
      <4>1. r \in Recorded(journal) /\ m \in DOMAIN journal
        BY <1>1, <3>2 DEF Entries
      <4>2. BootOf(journal, r) = journal[m].boot /\ journal[m].boot \in 1..boot /\ boot \in Nat
        BY <1>0, <3>2, <4>1, BootFacts DEF BootInv, TypeInv
      <4> QED
        BY <3>2, <4>2 DEF live, FoundAlive, EarlierBoot, BootId, NoBoot
    <3>3. ASSUME NEW r \in Walked(journal) \ (cut \cup crossed'), fate'[r] = "running" PROVE r \in live
      <4>1. r \in Recorded(journal) /\ r \in Runs /\ fate[r] = "running" /\ r \notin cut
        BY <1>1, <1>4, <3>3
      <4>2. ~Wrote(journal, r, "exit") /\ StartOf(journal, r) # {}
        BY <1>0, <4>1 DEF MarksInv
      <4>3. bootKnown => BootOf(journal, r) = boot
        <5>1. First(journal, r) \in DOMAIN journal /\ journal[First(journal, r)].run = r
          BY <1>0, <4>1, FirstFacts
        <5> QED
          BY <1>0, <4>1, <5>1, BootFacts DEF BootInv
      <4> QED
        BY <3>3, <4>1, <4>2, <4>3 DEF live, FoundAlive, Probe, EarlierBoot, BootId
    <3> QED
      BY <1>1, <1>2, <3>1, <3>2, <3>3 DEF ReadLive
  <2>2. ASSUME NEW r \in dead \ cut PROVE SeenDead(x, r)'
    <3>1. r \in Walked(journal) /\ r \in Recorded(journal) /\ fate[r] \in {"crashed", "stopped"}
      BY <2>2, FoundIsOver DEF dead
    <3>2. bootKnown => Witnessed(journal, r) \/ journal[First(journal, r)].boot = boot
      BY <2>2, FoundIsSeen DEF dead
    <3>3. r \notin live /\ fate'[r] = fate[r]
      BY <1>1, <1>4, <2>2, <3>1 DEF dead, live, FoundDead
    <3> QED
      BY <1>1, <1>2, <3>1, <3>2, <3>3 DEF SeenDead, Over
  <2>3. \A y \in Runs : y # x /\ Reading(y)' => fate[y] # "unborn"
    BY <1>0, <1>1 DEF StartInv, Reading, Starting
  <2>4. \A y \in Runs : y # x /\ Reading(y)' =>
           /\ ReadLive(y)' /\ \A r \in carries'[y] \ cut' : SeenDead(y, r)'
           /\ start'[y].crash # 0 <=> carries'[y] # {}
           /\ start'[y].crash # 0 => start'[y].crash \in carries'[y]
    BY <1>1, <2>3, QuietReads
  <2> QED
    BY <1>1, <1>2, <2>1, <2>2, <2>4 DEF ReadInv
<1>7. EventInv'
  <2>1. \A r \in Runs : start'[r].events \in {<<>>, start[r].events, crashEvents}
    BY <1>1
  <2>2. \A r \in Runs : start'[r].at \in {"record", "write"} =>
           start[r].at \in {"record", "write"} /\ start'[r].crash = start[r].crash
    BY <1>1
  <2> QED
    BY <1>1, <2>1, <2>2, QuietEvents
<1>8. NewerInv'
  <2> SUFFICES ASSUME NEW y \in Runs \ crossed', Starting(y)'
               PROVE  /\ ~lent /\ crashEvents # <<>> /\ start'[y].crash # 0
                            /\ LastCrash \notin cut /\ start'[y].crash \notin cut =>
                              \/ LastCrash = start'[y].crash
                              \/ First(journal, LastCrash) < First(journal, start'[y].crash)
                      /\ start'[y].at # "write"
    BY <1>1, <1>2 DEF NewerInv, LastCrash
  <2>1. y = x
    BY <1>1 DEF Starting
  <2>2. ASSUME ~lent, crashEvents # <<>>, start'[x].crash # 0, LastCrash \notin cut,
               LastCrash # start'[x].crash
        PROVE  First(journal, LastCrash) < First(journal, start'[x].crash)
    <3>1. Len(crashEvents) \in DOMAIN crashEvents
      BY <1>2, <2>2
    <3>2. Dead(LastCrash)
      BY <1>0, <2>2, <3>1 DEF EventInv, Ordered, LastCrash
    <3>3. dead # {} /\ start'[x].crash = Newest(journal, dead)
      BY <1>1, <2>2
    <3> QED
      BY <2>2, <3>2, <3>3, NewIsLater DEF dead
  <2> QED
    BY <1>1, <2>1, <2>2
<1> QED
  BY <1>2, <1>3, <1>5, <1>6, <1>7, <1>8 DEF JournalInv

(* The event is of a dead run, and a start that was alone adds a newer one. *)
LEMMA WriteStep ==
    ASSUME JournalInv, NEW x \in Runs, WriteCrash(x)
    PROVE  JournalInv'
<1> DEFINE old == start[x].events
           c == start[x].crash
           e == [run |-> c, by |-> x]
           E == Len(old)
<1>0. /\ TypeInv /\ StartInv /\ ReadInv /\ EventInv /\ NewerInv /\ journal \in Seq(Marks)
      /\ start \in [Runs -> Starts] /\ boot \in Nat
  BY DEF JournalInv, TypeInv
<1>1. /\ start[x].at = "write" /\ crashEvents' = Append(old, e)
      /\ start' = [start EXCEPT ![x] = Started]
      /\ UNCHANGED <<journal, boot, bootKnown, fate, carries, reused, pastVars>>
  BY DEF WriteCrash
<1>2. old \in Seq(Crashes) /\ c \in 0..RunCount /\ c # 0 /\ (c \notin cut => Dead(c))
  BY <1>0, <1>1 DEF Starts, EventInv
<1>3. c \in Runs /\ e \in Crashes /\ e.run = c /\ e.by = x
  <2>1. c \in Runs
    BY <1>2 DEF Runs
  <2> QED
    BY <2>1 DEF Crashes
<1>4. Ordered(old) /\ (~lent => reused = {})
  BY <1>0 DEF EventInv
<1>5. x \notin crossed => old = crashEvents /\ (crashEvents # <<>> => LastCrash # c)
  BY <1>0, <1>1 DEF NewerInv, Starting
<1>6. x \notin crossed /\ ~lent /\ crashEvents # <<>> /\ LastCrash \notin cut /\ c \notin cut
         => First(journal, LastCrash) < First(journal, c)
  BY <1>0, <1>1, <1>2, <1>5 DEF NewerInv, Starting
<1> HIDE DEF old, c, e
<1>7. /\ Append(old, e) \in Seq(Crashes) /\ E \in Nat
      /\ DOMAIN old = 1..E /\ DOMAIN Append(old, e) = 1..(E + 1)
      /\ \A n \in 1..E : Append(old, e)[n] = old[n]
      /\ Append(old, e)[E + 1] = e
  BY <1>2, <1>3
<1>8. /\ start' \in [Runs -> Starts] /\ start'[x] = Started
      /\ \A r \in Runs : r # x => start'[r] = start[r]
  <2>1. Started \in Starts
    BY DEF Started, Starts, Stages
  <2> QED
    BY <1>0, <1>1, <2>1
<1>9. TypeInv'
  BY <1>0, <1>1, <1>7, <1>8 DEF TypeInv, pastVars
<1>10. \A r \in Runs : /\ Reading(r)' <=> Reading(r)
                       /\ Reading(r) => start'[r] = start[r] /\ fate[r] = "running"
                       /\ Starting(r)' <=> Starting(r) /\ r # x
  BY <1>0, <1>1, <1>8 DEF Reading, Starting, StartInv, Started
<1>11. Quiet
  BY <1>0, <1>1, <1>9, <1>10 DEF Quiet, pastVars
<1>12. MarksInv' /\ BootInv' /\ LiveInv' /\ SeenInv' /\ FoundInv'
  BY <1>11, QuietStep
<1>13. StartInv'
  BY <1>0, <1>1, <1>10 DEF StartInv, pastVars
<1>14. ReadInv'
  BY <1>0, <1>10, <1>11, QuietReads DEF ReadInv
<1>15. Ordered(Append(old, e))
  <2> DEFINE N == Append(old, e)
  <2>0. \A n \in 1..E : old[n].run \notin cut => Dead(old[n].run)
    BY <1>4, <1>7 DEF Ordered
  <2>1. \A n \in DOMAIN N : N[n].run \notin cut => Dead(N[n].run)
    BY <1>2, <1>3, <1>7, <2>0
  <2>2. \A r : Dead(r) => First(journal, r) \in Nat
    BY <1>0, FirstFacts DEF Dead, Over
  <2>3. ASSUME ~lent, NEW m \in DOMAIN N, NEW n \in DOMAIN N, m < n,
               \A k \in m..n : N[k].run \notin cut /\ N[k].by \notin crossed
        PROVE  First(journal, N[m].run) < First(journal, N[n].run)
    <3>1. CASE n \in 1..E
      <4>1. m \in 1..E /\ \A k \in m..n : k \in 1..E /\ N[k] = old[k]
        BY <1>7, <2>3, <3>1
      <4>2. \A k \in m..n : old[k].run \notin cut /\ old[k].by \notin crossed
        BY <2>3, <4>1
      <4>3. First(journal, old[m].run) < First(journal, old[n].run)
        BY <1>4, <1>7, <2>3, <3>1, <4>1, <4>2 DEF Ordered, Rising
      <4> QED
        BY <1>7, <3>1, <4>1, <4>3
    <3>2. CASE n = E + 1
      <4>1. m \in 1..E /\ E \in 1..E /\ E \in m..n /\ m \in m..n /\ n \in m..n
            /\ \A k \in m..E : k \in m..n /\ k \in 1..E
        BY <1>7, <2>3, <3>2
      <4>2. x \notin crossed /\ c \notin cut
        BY <1>3, <1>7, <2>3, <3>2, <4>1
      <4>3. old = crashEvents /\ crashEvents # <<>> /\ old[E].run = LastCrash
        BY <1>2, <1>5, <1>7, <4>1, <4>2 DEF LastCrash
      <4>4. old[E].run \notin cut
        BY <1>7, <2>3, <4>1
      <4>5. First(journal, old[E].run) < First(journal, c)
        BY <1>6, <2>3, <4>2, <4>3, <4>4
      <4>6. CASE m = E
        BY <1>3, <1>7, <3>2, <4>1, <4>5, <4>6
      <4>7. CASE m < E
        <5>1. \A k \in m..E : old[k].run \notin cut /\ old[k].by \notin crossed
          <6> SUFFICES ASSUME NEW k \in m..E PROVE old[k].run \notin cut /\ old[k].by \notin crossed
            OBVIOUS
          <6>1. k \in m..n /\ k \in 1..E
            BY <4>1
          <6>2. N[k].run \notin cut /\ N[k].by \notin crossed
            BY <2>3, <6>1
          <6>3. N[k] = old[k]
            BY <1>7, <6>1
          <6> QED
            BY <6>2, <6>3
        <5>2. First(journal, old[m].run) < First(journal, old[E].run)
          BY <1>4, <1>7, <2>3, <4>1, <4>7, <5>1 DEF Ordered, Rising
        <5>3. /\ First(journal, old[m].run) \in Nat /\ First(journal, old[E].run) \in Nat
              /\ First(journal, c) \in Nat
          BY <1>2, <2>0, <2>2, <4>1, <4>2, <4>4, <5>1, <4>7
        <5>4. First(journal, old[m].run) < First(journal, c)
          BY <4>5, <5>2, <5>3
        <5> QED
          BY <1>3, <1>7, <3>2, <4>1, <5>4
      <4> QED
        BY <1>7, <4>1, <4>6, <4>7
    <3> QED
      BY <1>7, <3>1, <3>2
  <2> QED
    BY <2>1, <2>3 DEF Ordered, Rising
<1>16. EventInv'
  <2>1. \A x1 \in Runs : Ordered(start'[x1].events)
    <3>1. Ordered(<<>>)
      BY DEF Ordered
    <3> QED
      BY <1>0, <1>8, <3>1 DEF EventInv, Started
  <2>2. ~lent' => reused' = {}
    BY <1>1, <1>4 DEF pastVars
  <2>3. \A r \in Runs : start'[r].at \in {"record", "write"} =>
           start'[r].crash # 0 /\ (start'[r].crash \notin cut => Dead(start'[r].crash))
    BY <1>0, <1>8 DEF EventInv, Started
  <2>4. /\ UNCHANGED <<journal, fate, bootKnown, cut, crossed, lent>>
        /\ crashEvents' = Append(old, e)
    BY <1>1 DEF pastVars, old, e, c
  <2> QED
    BY <1>15, <2>1, <2>2, <2>3, <2>4 DEF EventInv, Ordered, Rising, Dead, Over
<1>17. NewerInv'
  <2>1. \A y \in Runs : Starting(y)' => y \in crossed'
    BY <1>0, <1>1, <1>10 DEF StartInv, Starting, pastVars
  <2> QED
    BY <2>1 DEF NewerInv
<1> QED
  BY <1>9, <1>12, <1>13, <1>14, <1>16, <1>17 DEF JournalInv

-----------------------------------------------------------------------------
(* The journal is moved aside. *)

(* Nothing of what it held is in the new one. *)
LEMMA MoveStep ==
    ASSUME JournalInv, NEW x \in Runs, MoveAside(x)
    PROVE  JournalInv'
<1>0. /\ TypeInv /\ MarksInv /\ StartInv /\ ReadInv /\ EventInv /\ NewerInv /\ FoundInv
      /\ journal \in Seq(Marks) /\ start \in [Runs -> Starts] /\ cut \subseteq Runs
      /\ crashEvents \in Seq(Crashes)
  BY DEF JournalInv, TypeInv
<1>1. /\ start[x].at = "move" /\ start' = [start EXCEPT ![x].at = "mark"]
      /\ journal' = <<>> /\ cut' = cut \cup Recorded(journal)
      /\ UNCHANGED <<boot, bootKnown, fate, carries, reused, crashEvents, lent, found, passed, crossed>>
  BY DEF MoveAside
<1>2. Recorded(journal) \subseteq Runs
  BY <1>0, RecordedRuns
<1>3. /\ start' \in [Runs -> Starts] /\ start'[x].at = "mark"
      /\ \A r \in Runs : /\ start'[r].live = start[r].live /\ start'[r].crash = start[r].crash
                         /\ start'[r].events = start[r].events
                         /\ r # x => start'[r] = start[r]
  <2>1. start[x] \in Starts /\ "mark" \in Stages
    BY <1>0 DEF Stages
  <2>2. [start[x] EXCEPT !.at = "mark"] \in Starts
    BY <2>1 DEF Starts
  <2>3. /\ [start[x] EXCEPT !.at = "mark"].live = start[x].live
        /\ [start[x] EXCEPT !.at = "mark"].crash = start[x].crash
        /\ [start[x] EXCEPT !.at = "mark"].events = start[x].events
        /\ [start[x] EXCEPT !.at = "mark"].at = "mark"
    BY <2>1 DEF Starts
  <2> QED
    BY <1>0, <1>1, <2>2, <2>3
<1>4. TypeInv'
  <2>1. journal' \in Seq(Marks) /\ cut' \subseteq Runs
    BY <1>0, <1>1, <1>2
  <2> QED
    BY <1>0, <1>1, <1>3, <2>1 DEF TypeInv
<1>5. /\ DOMAIN journal' = {} /\ Recorded(journal') = {} /\ Walked(journal') = {}
      /\ \A r, ev : ~Wrote(journal', r, ev)
  BY <1>1 DEF Recorded, Walked, Wrote, Entries
<1>6. \A r \in Runs : /\ Reading(r)' <=> Reading(r)
                      /\ Starting(r)' <=> Starting(r)
                      /\ start'[r].at \in {"record", "write"} => start'[r].at = start[r].at
  BY <1>1, <1>3 DEF Reading, Starting
<1>7. MarksInv'
  <2>1. \A r \in Runs \ cut' : ~(fate[r] = "running" /\ ~Reading(r))
    BY <1>0, <1>1 DEF MarksInv
  <2>2. \A r \in Runs \ cut' : fate[r] # "exited"
    <3>1. \A r \in Runs : Wrote(journal, r, "exit") => r \in Recorded(journal)
      BY DEF Wrote, Entries, Recorded
    <3> QED
      BY <1>0, <1>1, <3>1 DEF MarksInv
  <2> QED
    BY <1>1, <1>5, <1>6, <2>1, <2>2 DEF MarksInv
<1>8. BootInv' /\ LiveInv' /\ SeenInv'
  BY <1>5 DEF BootInv, LiveInv, SeenInv
<1>9. \A r : Over(r) => r \in cut'
  BY <1>1 DEF Over
<1>10. FoundInv'
  BY <1>0, <1>1, <1>9 DEF FoundInv, Dead
<1>11. StartInv'
  BY <1>0, <1>1, <1>5, <1>6 DEF StartInv
<1>12. ReadInv'
  <2> SUFFICES ASSUME NEW y \in Runs, Reading(y)
               PROVE  /\ ReadLive(y)' /\ \A r \in carries'[y] \ cut' : SeenDead(y, r)'
                      /\ start'[y].crash # 0 <=> carries'[y] # {}
                      /\ start'[y].crash # 0 => start'[y].crash \in carries'[y]
    BY <1>6 DEF ReadInv
  <2>1. ReadLive(y)'
    <3>1. \A r, m : m \notin Entries(journal', r)
      BY <1>5 DEF Entries
    <3>2. \A r \in start'[y].live : fate'[r] # "unborn"
      BY <1>0, <1>1, <1>3 DEF ReadInv, ReadLive
    <3> QED
      BY <1>5, <3>1, <3>2 DEF ReadLive
  <2>2. \A r \in carries[y] : r \in cut'
    BY <1>0, <1>1, <1>9 DEF ReadInv, SeenDead
  <2> QED
    BY <1>0, <1>1, <1>3, <2>1, <2>2 DEF ReadInv
<1>13. \A E \in Seq(Crashes) : Ordered(E) => \A n \in DOMAIN E : E[n].run \in cut'
  BY <1>1, <1>9 DEF Ordered, Dead
<1>14. ASSUME NEW E \in Seq(Crashes), \A n \in DOMAIN E : E[n].run \in cut'
       PROVE  \A m, n \in DOMAIN E :
                 ~(m < n /\ \A k \in m..n : E[k].run \notin cut' /\ E[k].by \notin crossed')
  <2> SUFFICES ASSUME NEW m \in DOMAIN E, NEW n \in DOMAIN E, m < n PROVE m \in m..n
    BY <1>14
  <2> QED
    OBVIOUS
<1>15. EventInv'
  <2>1. \A n \in DOMAIN crashEvents : crashEvents[n].run \in cut'
    BY <1>0, <1>13 DEF EventInv
  <2>2. Ordered(crashEvents)'
    BY <1>0, <1>1, <1>14, <2>1 DEF Ordered, Rising
  <2>3. ASSUME NEW y \in Runs PROVE Ordered(start[y].events)'
    <3>1. start[y].events \in Seq(Crashes) /\ Ordered(start[y].events) /\ start'[y].events = start[y].events
      BY <1>0, <1>3 DEF Starts, EventInv
    <3>2. \A n \in DOMAIN start[y].events : start[y].events[n].run \in cut'
      BY <1>13, <3>1
    <3> QED
      BY <1>14, <3>1, <3>2 DEF Ordered, Rising
  <2>4. \A y \in Runs : start'[y].at \in {"record", "write"} => start'[y].crash # 0 /\ start'[y].crash \in cut'
    BY <1>0, <1>1, <1>3, <1>6, <1>9 DEF EventInv, Dead
  <2>5. ~lent' => reused' = {}
    BY <1>0, <1>1 DEF EventInv
  <2> QED
    BY <2>2, <2>3, <2>4, <2>5 DEF EventInv
<1>16. NewerInv'
  <2> SUFFICES ASSUME NEW y \in Runs \ crossed, Starting(y)
               PROVE  /\ start'[y].crash # 0 => start'[y].crash \in cut'
                      /\ start'[y].at = "write" =>
                            /\ start'[y].events = crashEvents
                            /\ crashEvents # <<>> => LastCrash # start'[y].crash
    BY <1>1, <1>6 DEF NewerInv, LastCrash
  <2>1. start[y].crash # 0 => start[y].crash \in cut'
    BY <1>1, CrashRecorded
  <2> QED
    BY <1>0, <1>3, <1>6, <2>1 DEF NewerInv
<1> QED
  BY <1>4, <1>7, <1>8, <1>10, <1>11, <1>12, <1>15, <1>16 DEF JournalInv

-----------------------------------------------------------------------------
(* A running run appends an entry. *)

(* What a start's mark, a phase, a delivered report and an exit have in common. *)
Grow(x, e) ==
    /\ e \in Marks /\ e.run = x /\ journal' = Append(journal, e)
    /\ IF bootKnown THEN e.boot = boot ELSE e.boot = NoBoot
    /\ ~Wrote(journal, x, e.ev)
    /\ fate[x] = "running" /\ fate'[x] = (IF e.ev = "exit" THEN "exited" ELSE "running")
    /\ \A r \in Runs : r # x =>
          fate'[r] = fate[r] /\ carries'[r] = carries[r] /\ start'[r] = start[r]
    /\ ~Reading(x)' /\ start'[x].events \in {<<>>, start[x].events}
    /\ Starting(x)' => e.ev = "start" /\ start'[x].at = "record" /\ carries[x] # {}
    /\ start'[x].crash \in {0, start[x].crash}
    /\ start'[x].at # "none" => start'[x].crash = start[x].crash
    /\ e.ev = "start" => /\ Reading(x) /\ e.live = start[x].live
                         /\ found' = found \cup carries[x]
    /\ e.ev # "start" => ~Starting(x) /\ e.live = {} /\ found' = found
    /\ e.ev # "reported" => carries'[x] = carries[x] /\ passed' = passed
    /\ e.ev = "reported" =>
          /\ carries'[x] = {}
          /\ passed' = passed \cup {x} \cup {q \in Recorded(journal) : x \in Recorded(journal) =>
                                               First(journal, q) <= First(journal, x)}
    /\ UNCHANGED <<boot, bootKnown, reused, crashEvents, lent, crossed, cut>>
    /\ TypeInv'

(* Each of these steps is one. *)
LEMMA GrowFacts ==
    ASSUME JournalInv, NEW x \in Runs,
           AppendStart(x) \/ Phase(x) \/ Reported(x) \/ Exit(x)
    PROVE  \E e : Grow(x, e)
<1>0. /\ TypeInv /\ MarksInv /\ StartInv /\ journal \in Seq(Marks) /\ start \in [Runs -> Starts]
      /\ fate \in [Runs -> Fates] /\ carries \in [Runs -> SUBSET Runs]
  BY DEF JournalInv, TypeInv
<1>1. \A e \in Marks : Append(journal, e) \in Seq(Marks)
  BY <1>0
<1>2. CASE AppendStart(x)
  <2> DEFINE e == Entry(x, "start", start[x].live)
  <2>0. /\ start[x].at = "mark" /\ journal' = Append(journal, e) /\ found' = found \cup carries[x]
        /\ start' = [start EXCEPT ![x] = IF carries[x] = {} THEN Started ELSE [@ EXCEPT !.at = "record"]]
        /\ UNCHANGED <<boot, bootKnown, fate, carries, reused, crashEvents, lent, passed, crossed, cut>>
    BY <1>2 DEF AppendStart
  <2>1. start[x] \in Starts /\ start[x].live \in SUBSET Runs
    BY <1>0 DEF Starts
  <2>2. /\ e \in Marks /\ e.run = x /\ e.ev = "start" /\ e.live = start[x].live
        /\ IF bootKnown THEN e.boot = boot ELSE e.boot = NoBoot
    BY <1>0, <2>1, EntryFacts
  <2> HIDE DEF e
  <2>3. /\ [start[x] EXCEPT !.at = "record"] \in Starts
        /\ [start[x] EXCEPT !.at = "record"].at = "record"
        /\ [start[x] EXCEPT !.at = "record"].events = start[x].events
        /\ [start[x] EXCEPT !.at = "record"].crash = start[x].crash
    BY <2>1 DEF Starts, Stages
  <2>4. Started \in Starts /\ Started.at = "none" /\ Started.events = <<>> /\ Started.crash = 0
    BY DEF Started, Starts, Stages
  <2>5. /\ start' \in [Runs -> Starts] /\ \A r \in Runs : r # x => start'[r] = start[r]
        /\ start'[x] = IF carries[x] = {} THEN Started ELSE [start[x] EXCEPT !.at = "record"]
    BY <1>0, <2>0, <2>3, <2>4
  <2>6. /\ start'[x].at \in {"none", "record"} /\ start'[x].events \in {<<>>, start[x].events}
        /\ start'[x].at = "record" => carries[x] # {}
        /\ start'[x].crash \in {0, start[x].crash}
        /\ start'[x].at # "none" => start'[x].crash = start[x].crash
    BY <2>3, <2>4, <2>5
  <2>7. TypeInv'
    <3>1. journal' \in Seq(Marks) /\ found' \subseteq Runs
      BY <1>0, <1>1, <2>0, <2>2 DEF TypeInv
    <3> QED
      BY <1>0, <2>0, <2>5, <3>1 DEF TypeInv
  <2>8. Reading(x) /\ fate[x] = "running" /\ ~Wrote(journal, x, "start")
    <3>1. Reading(x) /\ Starting(x)
      BY <2>0 DEF Reading, Starting
    <3>2. x \notin Recorded(journal) /\ fate[x] = "running"
      BY <1>0, <3>1 DEF StartInv
    <3> QED
      BY <3>1, <3>2 DEF Wrote, Entries, Recorded
  <2>9. ~Reading(x)' /\ (Starting(x)' => start'[x].at = "record" /\ carries[x] # {})
    BY <2>6 DEF Reading, Starting
  <2>10. /\ \A r \in Runs : r # x =>
               fate'[r] = fate[r] /\ carries'[r] = carries[r] /\ start'[r] = start[r]
         /\ fate'[x] = "running" /\ carries'[x] = carries[x] /\ passed' = passed
    BY <2>0, <2>5, <2>8
  <2>11. Starting(x)' => e.ev = "start" /\ start'[x].at = "record" /\ carries[x] # {}
    BY <2>2, <2>9
  <2> QED
    BY <2>0, <2>2, <2>6, <2>7, <2>8, <2>9, <2>10, <2>11 DEF Grow
<1>3. CASE Phase(x)
  <2> DEFINE e == Entry(x, "phase", {})
  <2>0. /\ Collecting(x) /\ ~Wrote(journal, x, "phase") /\ journal' = Append(journal, e)
        /\ UNCHANGED <<boot, bootKnown, fate, start, carries, reused, crashEvents, pastVars>>
    BY <1>3 DEF Phase
  <2>2. /\ e \in Marks /\ e.run = x /\ e.ev = "phase" /\ e.live = {}
        /\ IF bootKnown THEN e.boot = boot ELSE e.boot = NoBoot
    BY <1>0, EntryFacts
  <2> HIDE DEF e
  <2>3. TypeInv' /\ ~Reading(x)' /\ ~Starting(x)' /\ ~Starting(x)
    BY <1>0, <1>1, <2>0, <2>2 DEF TypeInv, Collecting, Starting, Reading, pastVars
  <2> QED
    BY <2>0, <2>2, <2>3 DEF Grow, Collecting, Starting, pastVars
<1>4. CASE Reported(x)
  <2> DEFINE e == Entry(x, "reported", {})
  <2>0. /\ Collecting(x) /\ carries[x] # {} /\ journal' = Append(journal, e)
        /\ carries' = [carries EXCEPT ![x] = {}]
        /\ passed' = passed \cup {x} \cup {q \in Recorded(journal) : x \in Recorded(journal) =>
                                             First(journal, q) <= First(journal, x)}
        /\ UNCHANGED <<boot, bootKnown, fate, start, reused, crashEvents, lent, found, crossed, cut>>
    BY <1>4 DEF Reported
  <2>2. /\ e \in Marks /\ e.run = x /\ e.ev = "reported" /\ e.live = {}
        /\ IF bootKnown THEN e.boot = boot ELSE e.boot = NoBoot
    BY <1>0, EntryFacts
  <2>3. ~Wrote(journal, x, "reported")
    BY <1>0, <2>0 DEF MarksInv
  <2> HIDE DEF e
  <2>4. TypeInv'
    <3>1. passed' \subseteq Runs
      BY <1>0, <2>0, RecordedRuns DEF TypeInv
    <3>2. journal' \in Seq(Marks) /\ carries' \in [Runs -> SUBSET Runs]
      BY <1>0, <1>1, <2>0, <2>2
    <3> QED
      BY <1>0, <2>0, <3>1, <3>2 DEF TypeInv
  <2>5. /\ carries'[x] = {} /\ \A r \in Runs : r # x => carries'[r] = carries[r]
        /\ ~Reading(x)' /\ ~Starting(x)' /\ ~Starting(x)
    BY <1>0, <2>0 DEF Collecting, Starting, Reading
  <2> QED
    BY <2>0, <2>2, <2>3, <2>4, <2>5 DEF Grow, Collecting, Starting
<1>5. CASE Exit(x)
  <2> DEFINE e == Entry(x, "exit", {})
  <2>0. /\ Collecting(x) /\ journal' = Append(journal, e)
        /\ fate' = [fate EXCEPT ![x] = "exited"]
        /\ UNCHANGED <<boot, bootKnown, start, carries, reused, crashEvents, pastVars>>
    BY <1>5 DEF Exit
  <2>2. /\ e \in Marks /\ e.run = x /\ e.ev = "exit" /\ e.live = {}
        /\ IF bootKnown THEN e.boot = boot ELSE e.boot = NoBoot
    BY <1>0, EntryFacts
  <2>3. ~Wrote(journal, x, "exit")
    BY <1>0, <2>0 DEF MarksInv, Collecting
  <2> HIDE DEF e
  <2>4. /\ fate' \in [Runs -> Fates] /\ fate'[x] = "exited"
        /\ \A r \in Runs : r # x => fate'[r] = fate[r]
    BY <1>0, <2>0 DEF Fates
  <2>5. TypeInv' /\ ~Reading(x)' /\ ~Starting(x)' /\ ~Starting(x)
    BY <1>0, <1>1, <2>0, <2>2, <2>4 DEF TypeInv, Collecting, Starting, Reading, pastVars
  <2> QED
    BY <2>0, <2>2, <2>3, <2>4, <2>5 DEF Grow, Collecting, Starting, pastVars
<1> QED
  BY <1>2, <1>3, <1>4, <1>5

(* The journal after it. *)
LEMMA GrowJournal ==
    ASSUME JournalInv, NEW x \in Runs, NEW e, Grow(x, e)
    PROVE  /\ journal \in Seq(Marks) /\ journal' \in Seq(Marks) /\ Len(journal) \in Nat
           /\ DOMAIN journal = 1..Len(journal) /\ DOMAIN journal' = 1..(Len(journal) + 1)
           /\ \A n \in DOMAIN journal : journal'[n] = journal[n] /\ n \in DOMAIN journal'
           /\ journal'[Len(journal) + 1] = e
           /\ \A n \in DOMAIN journal' : n \in DOMAIN journal \/ n = Len(journal) + 1
           /\ \A r, n : n \in Entries(journal', r) <=>
                         (n \in Entries(journal, r) \/ (r = x /\ n = Len(journal) + 1))
           /\ Recorded(journal') = Recorded(journal) \cup {x}
           /\ \A r, ev : Wrote(journal', r, ev) <=> (Wrote(journal, r, ev) \/ (r = x /\ ev = e.ev))
           /\ \A r \in Recorded(journal) : First(journal', r) = First(journal, r)
           /\ x \notin Recorded(journal) => First(journal', x) = Len(journal) + 1
           /\ Walked(journal') \cap Recorded(journal) \subseteq Walked(journal)
           /\ e.ev # "reported" => Walked(journal) \subseteq Walked(journal')
           /\ Recorded(journal) \subseteq Runs /\ Walked(journal) \subseteq Recorded(journal)
<1>0. journal \in Seq(Marks) /\ e \in Marks /\ journal' = Append(journal, e) /\ e.run = x
  BY DEF JournalInv, TypeInv, Grow
<1>1. /\ journal' \in Seq(Marks) /\ Len(journal) \in Nat
      /\ DOMAIN journal = 1..Len(journal) /\ DOMAIN journal' = 1..(Len(journal) + 1)
      /\ \A n \in DOMAIN journal : journal'[n] = journal[n] /\ n \in DOMAIN journal'
      /\ journal'[Len(journal) + 1] = e
      /\ \A n \in DOMAIN journal' : n \in DOMAIN journal \/ n = Len(journal) + 1
  BY <1>0, Grown
<1>2. \A r, n : n \in Entries(journal', r) <=>
                (n \in Entries(journal, r) \/ (r = x /\ n = Len(journal) + 1))
  BY <1>0, GrownEntries
<1>3. /\ Recorded(journal') = Recorded(journal) \cup {x}
      /\ \A r, ev : Wrote(journal', r, ev) <=> (Wrote(journal, r, ev) \/ (r = x /\ ev = e.ev))
  <2>1. /\ Recorded(journal') = Recorded(journal) \cup {e.run}
        /\ \A r, ev : Wrote(journal', r, ev) <=> (Wrote(journal, r, ev) \/ (r = e.run /\ ev = e.ev))
    BY <1>0, GrownRuns
  <2> QED
    BY <1>0, <2>1
<1>4. /\ \A r \in Recorded(journal) : First(journal', r) = First(journal, r)
      /\ x \notin Recorded(journal) => First(journal', x) = Len(journal) + 1
  BY <1>0, GrownFirst
<1>5. /\ Walked(journal') \cap Recorded(journal) \subseteq Walked(journal)
      /\ e.ev # "reported" => Walked(journal) \subseteq Walked(journal')
  BY <1>0, GrownWalk
<1>6. Recorded(journal) \subseteq Runs /\ Walked(journal) \subseteq Recorded(journal)
  BY <1>0, RecordedRuns
<1> QED
  BY <1>0, <1>1, <1>2, <1>3, <1>4, <1>5, <1>6

(* Dead runs stay dead and are still walked to, unless a report passed them; *)
(* the dead a start carries are dead once its mark is written.               *)
LEMMA GrowDead ==
    ASSUME JournalInv, NEW x \in Runs, NEW e, Grow(x, e)
    PROVE  /\ \A r \in Runs : Over(r) => Over(r)' /\ r # x
           /\ \A r \in Runs : Dead(r) => Dead(r)' /\ First(journal', r) = First(journal, r)
           /\ \A r \in Walked(journal) \ passed' : r \in Walked(journal')
           /\ \A r \in Recorded(journal) : Witnessed(journal, r) => Witnessed(journal', r)
           /\ \A r \in Recorded(journal) : journal'[First(journal', r)] = journal[First(journal, r)]
           /\ e.ev = "start" => \A r \in carries[x] \ cut : Dead(r)'
<1>0. /\ TypeInv /\ ReadInv /\ journal \in Seq(Marks) /\ e \in Marks
      /\ journal' = Append(journal, e) /\ e.run = x /\ fate[x] = "running" /\ carries[x] \subseteq Runs
      /\ UNCHANGED <<boot, bootKnown, cut>>
  BY DEF JournalInv, TypeInv, Grow
<1>1. /\ Recorded(journal') = Recorded(journal) \cup {x} /\ Recorded(journal) \subseteq Runs
      /\ Walked(journal) \subseteq Recorded(journal)
      /\ \A r \in Recorded(journal) : First(journal', r) = First(journal, r)
      /\ \A r, ev : Wrote(journal', r, ev) <=> (Wrote(journal, r, ev) \/ (r = x /\ ev = e.ev))
      /\ e.ev # "reported" => Walked(journal) \subseteq Walked(journal')
      /\ \A n \in DOMAIN journal : journal'[n] = journal[n] /\ n \in DOMAIN journal'
      /\ Len(journal) + 1 \in DOMAIN journal' /\ journal'[Len(journal) + 1] = e
  <2>1. Len(journal) \in Nat /\ DOMAIN journal' = 1..(Len(journal) + 1)
    BY GrowJournal
  <2> QED
    BY <2>1, GrowJournal
<1>2. ASSUME NEW r \in Recorded(journal)
      PROVE  /\ After(journal', Len(journal) + 1, r) <=> e.ev = "start" /\ e.boot = journal[First(journal, r)].boot
             /\ Witnessed(journal, r) => Witnessed(journal', r)
  BY <1>0, GrownAfter
<1>3. \A r \in Runs : Over(r) => Over(r)' /\ r # x
  BY <1>0, <1>1 DEF Over, Grow
<1>4. \A r \in Runs : Dead(r) => Dead(r)' /\ First(journal', r) = First(journal, r)
  BY <1>0, <1>1, <1>2, <1>3 DEF Dead, Over
<1>5. ASSUME NEW r \in Walked(journal) \ passed' PROVE r \in Walked(journal')
  <2>1. CASE e.ev # "reported"
    BY <1>1, <1>5, <2>1
  <2>2. CASE e.ev = "reported"
    <3>0. passed' = passed \cup {x} \cup {q \in Recorded(journal) : x \in Recorded(journal) =>
                                            First(journal, q) <= First(journal, x)}
      BY <2>2 DEF Grow
    <3>1. r \in Recorded(journal) /\ x \in Recorded(journal) /\ ~(First(journal, r) <= First(journal, x))
      BY <1>1, <1>5, <3>0
    <3>2. First(journal, r) \in Nat /\ First(journal, x) \in Nat
      BY <1>0, <3>1, FirstFacts
    <3>3. \A q, ev : Wrote(journal, q, ev) => q \in Recorded(journal)
      BY DEF Wrote, Entries, Recorded
    <3> SUFFICES ASSUME NEW q \in Recorded(journal'), Wrote(journal', q, "reported")
                 PROVE  First(journal', q) < First(journal', r)
      BY <1>1, <3>1 DEF Walked
    <3>4. CASE q = x
      BY <1>1, <3>1, <3>2, <3>4
    <3>5. CASE q # x
      BY <1>1, <1>5, <3>1, <3>3, <3>5 DEF Walked
    <3> QED
      BY <3>4, <3>5
  <2> QED
    BY <2>1, <2>2
<1>6. \A r \in Recorded(journal) : journal'[First(journal', r)] = journal[First(journal, r)]
  BY <1>0, <1>1, FirstFacts
<1>7. ASSUME e.ev = "start", NEW r \in carries[x] \ cut PROVE Dead(r)'
  <2>1. Reading(x) /\ e.live = start[x].live
    BY <1>7 DEF Grow
  <2>2. SeenDead(x, r) /\ Over(r) /\ r \in Recorded(journal) /\ r \in Runs
    BY <1>0, <1>7, <2>1 DEF ReadInv, SeenDead, Over
  <2>3. ASSUME bootKnown PROVE Witnessed(journal', r)
    <3>1. CASE Witnessed(journal, r)
      BY <1>2, <2>2, <3>1
    <3>2. CASE journal[First(journal, r)].boot = boot /\ r \notin start[x].live
      <4>1. e.boot = boot
        BY <2>3 DEF Grow
      <4>2. After(journal', Len(journal) + 1, r)
        BY <1>2, <1>7, <2>2, <3>2, <4>1
      <4> QED
        BY <1>1, <2>1, <3>2, <4>2 DEF Witnessed
    <3> QED
      BY <2>2, <2>3, <3>1, <3>2 DEF SeenDead
  <2> QED
    BY <1>0, <1>3, <2>2, <2>3 DEF Dead
<1> QED
  BY <1>2, <1>3, <1>4, <1>5, <1>6, <1>7

(* A run's entries and their boots stay in order. *)
LEMMA GrowMarks ==
    ASSUME JournalInv, NEW x \in Runs, NEW e, Grow(x, e)
    PROVE  MarksInv'
<1> DEFINE L == Len(journal)
<1>0. /\ TypeInv /\ MarksInv /\ StartInv /\ ReadInv /\ e \in Marks /\ e.run = x
      /\ fate[x] = "running" /\ fate'[x] = (IF e.ev = "exit" THEN "exited" ELSE "running")
      /\ \A r \in Runs : r # x => fate'[r] = fate[r] /\ carries'[r] = carries[r] /\ start'[r] = start[r]
      /\ ~Wrote(journal, x, e.ev) /\ cut' = cut
  BY DEF JournalInv, Grow
<1>1. /\ L \in Nat /\ DOMAIN journal = 1..L /\ journal'[L + 1] = e
      /\ \A n \in DOMAIN journal : journal'[n] = journal[n] /\ n \in DOMAIN journal'
      /\ \A n \in DOMAIN journal' : n \in DOMAIN journal \/ n = L + 1
      /\ \A r, n : n \in Entries(journal', r) <=> (n \in Entries(journal, r) \/ (r = x /\ n = L + 1))
      /\ Recorded(journal') = Recorded(journal) \cup {x} /\ Recorded(journal) \subseteq Runs
      /\ \A r, ev : Wrote(journal', r, ev) <=> (Wrote(journal, r, ev) \/ (r = x /\ ev = e.ev))
  BY GrowJournal
<1> HIDE DEF L
<1>2. /\ e.ev = "start" => /\ x \notin Recorded(journal) /\ e.live = start[x].live
                           /\ \A r \in e.live : fate[r] # "unborn"
      /\ e.ev # "start" => (x \in cut \/ x \in Recorded(journal)) /\ e.live = {}
  <2>1. e.ev = "start" => Reading(x) /\ e.live = start[x].live
    BY DEF Grow
  <2>2. e.ev # "start" => ~Reading(x) /\ e.live = {}
    BY DEF Grow, Reading, Starting
  <2> QED
    BY <1>0, <2>1, <2>2 DEF StartInv, ReadInv, ReadLive, MarksInv
<1>3. \A m, n \in DOMAIN journal' :
         journal'[m].run = journal'[n].run /\ journal'[m].ev = journal'[n].ev => m = n
  <2>1. \A n \in DOMAIN journal : ~(journal[n].run = x /\ journal[n].ev = e.ev)
    BY <1>0 DEF Wrote, Entries
  <2>2. \A m, n \in DOMAIN journal :
           journal[m].run = journal[n].run /\ journal[m].ev = journal[n].ev => m = n
    BY <1>0 DEF MarksInv
  <2> QED
    BY <1>0, <1>1, <2>1, <2>2
<1>4. ASSUME NEW n \in DOMAIN journal', journal'[n].ev = "start",
             NEW m \in Entries(journal', journal'[n].run)
      PROVE  n <= m
  <2>1. CASE n \in DOMAIN journal
    <3>1. CASE m \in Entries(journal, journal[n].run)
      BY <1>0, <1>1, <1>4, <2>1, <3>1 DEF MarksInv
    <3>2. CASE m = L + 1
      BY <1>1, <2>1, <3>2
    <3> QED
      BY <1>1, <1>4, <2>1, <3>1, <3>2
  <2>2. CASE n = L + 1
    <3>1. m = L + 1
      BY <1>0, <1>1, <1>2, <1>4, <2>2 DEF Entries, Recorded
    <3> QED
      BY <1>1, <2>2, <3>1
  <2> QED
    BY <1>1, <1>4, <2>1, <2>2
<1>5. ASSUME NEW r \in Recorded(journal')
      PROVE  fate'[r] # "unborn" /\ (r \in cut \/ StartOf(journal', r) # {})
  <2>1. r \in Recorded(journal) => fate[r] # "unborn" /\ (r \in cut \/ StartOf(journal, r) # {})
    BY <1>0 DEF MarksInv
  <2>2. \A n \in StartOf(journal, r) : n \in StartOf(journal', r)
    BY <1>1 DEF StartOf, Entries
  <2>3. r = x /\ e.ev = "start" => L + 1 \in StartOf(journal', r)
    BY <1>1 DEF StartOf
  <2> QED
    BY <1>0, <1>1, <1>2, <1>5, <2>1, <2>2, <2>3
<1>6. \A r \in Runs \ cut : fate'[r] = "running" /\ ~Reading(r)' => r \in Recorded(journal')
  BY <1>0, <1>1 DEF MarksInv, Reading
<1>7. /\ \A r \in Runs : Wrote(journal', r, "exit") => fate'[r] = "exited"
      /\ \A r \in Runs \ cut : fate'[r] = "exited" => Wrote(journal', r, "exit")
  BY <1>0, <1>1 DEF MarksInv
<1>8. \A r \in Runs : Wrote(journal', r, "reported") => carries'[r] = {}
  <2>1. e.ev = "reported" => carries'[x] = {}
    BY DEF Grow
  <2>2. e.ev # "reported" => carries'[x] = carries[x]
    BY DEF Grow
  <2> QED
    BY <1>0, <1>1, <2>1, <2>2 DEF MarksInv
<1>9. \A n \in DOMAIN journal' : \A r \in journal'[n].live : fate'[r] # "unborn"
  <2>1. \A n \in DOMAIN journal' : \A r \in journal'[n].live : fate[r] # "unborn" /\ r \in Runs
    <3>1. \A n \in DOMAIN journal : journal[n] \in Marks
      BY <1>0 DEF TypeInv
    <3>2. \A n \in DOMAIN journal : journal[n].live \subseteq Runs
      BY <3>1 DEF Marks
    <3>3. e.live \subseteq Runs
      BY <1>0 DEF Marks
    <3> QED
      BY <1>0, <1>1, <1>2, <3>2, <3>3 DEF MarksInv
  <2> QED
    BY <1>0, <2>1
<1> QED
  BY <1>0, <1>3, <1>4, <1>5, <1>6, <1>7, <1>8, <1>9 DEF MarksInv

(* They name the present boot, on which every start still finds what lives. *)
LEMMA GrowBoots ==
    ASSUME JournalInv, NEW x \in Runs, NEW e, Grow(x, e)
    PROVE  BootInv' /\ LiveInv' /\ SeenInv'
<1> DEFINE L == Len(journal)
<1>0. /\ TypeInv /\ MarksInv /\ BootInv /\ LiveInv /\ SeenInv /\ StartInv /\ ReadInv
      /\ e \in Marks /\ e.run = x /\ journal \in Seq(Marks)
      /\ fate[x] = "running" /\ fate'[x] = (IF e.ev = "exit" THEN "exited" ELSE "running")
      /\ \A r \in Runs : r # x => fate'[r] = fate[r]
      /\ IF bootKnown THEN e.boot = boot ELSE e.boot = NoBoot
      /\ UNCHANGED <<boot, bootKnown, cut, crossed>> /\ boot \in 1..MaxBoot
      /\ e.ev = "start" => Reading(x) /\ e.live = start[x].live
  BY DEF JournalInv, TypeInv, Grow
<1>1. /\ L \in Nat /\ DOMAIN journal = 1..L /\ journal'[L + 1] = e
      /\ \A n \in DOMAIN journal : journal'[n] = journal[n] /\ n \in DOMAIN journal'
      /\ \A n \in DOMAIN journal' : n \in DOMAIN journal \/ n = L + 1
      /\ \A r, n : n \in Entries(journal', r) <=> (n \in Entries(journal, r) \/ (r = x /\ n = L + 1))
      /\ Recorded(journal') = Recorded(journal) \cup {x} /\ Recorded(journal) \subseteq Runs
      /\ \A r \in Recorded(journal) : First(journal', r) = First(journal, r)
      /\ x \notin Recorded(journal) => First(journal', x) = L + 1
      /\ Walked(journal') \cap Recorded(journal) \subseteq Walked(journal)
  BY GrowJournal
<1>10. Walked(journal') \subseteq Recorded(journal')
  BY DEF Walked
<1> HIDE DEF L
<1>2. \A n \in DOMAIN journal : journal[n].run = x => journal[n].boot = e.boot
  BY <1>0 DEF BootInv
<1>3. \A n \in DOMAIN journal : journal[n].run \in Runs /\ journal[n].live \subseteq Runs
  <2>1. \A n \in DOMAIN journal : journal[n] \in Marks
    BY <1>0
  <2> QED
    BY <2>1 DEF Marks
<1>4. BootInv'
  <2>1. \A n \in DOMAIN journal' : IF bootKnown THEN journal'[n].boot \in 1..boot
                                                ELSE journal'[n].boot = NoBoot
    BY <1>0, <1>1 DEF BootInv
  <2>2. \A m, n \in DOMAIN journal' : journal'[m].run = journal'[n].run =>
           journal'[m].boot = journal'[n].boot
    BY <1>0, <1>1, <1>2 DEF BootInv
  <2>3. \A n \in DOMAIN journal' : bootKnown =>
           /\ fate'[journal'[n].run] = "running" => journal'[n].boot = boot
           /\ fate'[journal'[n].run] = "stopped" => journal'[n].boot < boot
    <3>1. \A n \in DOMAIN journal : bootKnown =>
             /\ fate'[journal[n].run] = "running" => journal[n].boot = boot
             /\ fate'[journal[n].run] = "stopped" => journal[n].boot < boot
      BY <1>0, <1>3 DEF BootInv
    <3> QED
      BY <1>0, <1>1, <3>1
  <2> QED
    BY <1>0, <2>1, <2>2, <2>3 DEF BootInv
<1>5. LiveInv'
  <2> SUFFICES ASSUME NEW n \in DOMAIN journal', bootKnown, journal'[n].ev = "start",
                      NEW r \in journal'[n].live
               PROVE  /\ fate'[r] = "running" => journal'[n].boot = boot
                      /\ \A m \in Entries(journal', r) : journal'[m].boot = journal'[n].boot
    BY <1>0 DEF LiveInv
  <2>1. CASE n \in DOMAIN journal
    <3>1. r \in Runs /\ r \in journal[n].live /\ journal[n].ev = "start"
      BY <1>1, <1>3, <2>1
    <3>2. /\ fate[r] = "running" => journal[n].boot = boot
          /\ \A m \in Entries(journal, r) : journal[m].boot = journal[n].boot
      BY <2>1, <3>1, <1>0 DEF LiveInv
    <3>3. fate'[r] = "running" => fate[r] = "running"
      BY <1>0, <3>1
    <3>4. ASSUME NEW m \in Entries(journal', r) PROVE journal'[m].boot = journal'[n].boot
      <4>1. CASE m \in Entries(journal, r)
        BY <1>1, <2>1, <3>2, <4>1 DEF Entries
      <4>2. CASE r = x /\ m = L + 1
        BY <1>0, <1>1, <2>1, <3>2, <4>2
      <4> QED
        BY <1>1, <3>4, <4>1, <4>2
    <3> QED
      BY <1>1, <2>1, <3>2, <3>3, <3>4
  <2>2. CASE n = L + 1
    <3>1. Reading(x) /\ r \in start[x].live /\ journal'[n].boot = boot
      BY <1>0, <1>1, <2>2
    <3>2. \A m \in Entries(journal, r) : journal[m].boot = boot
      BY <1>0, <3>1 DEF ReadInv, ReadLive
    <3>3. ASSUME NEW m \in Entries(journal', r) PROVE journal'[m].boot = boot
      <4>1. CASE m \in Entries(journal, r)
        BY <1>1, <3>2, <4>1 DEF Entries
      <4>2. CASE r = x /\ m = L + 1
        BY <1>0, <1>1, <4>2
      <4> QED
        BY <1>1, <3>3, <4>1, <4>2
    <3> QED
      BY <3>1, <3>3
  <2> QED
    BY <1>1, <2>1, <2>2
<1>6. SeenInv'
  <2> SUFFICES ASSUME NEW r \in Walked(journal') \ (cut \cup crossed), NEW n \in DOMAIN journal',
                      bootKnown, fate'[r] \in {"running", "stopped"}, After(journal', n, r)
               PROVE  r \in journal'[n].live
    BY <1>0 DEF SeenInv
  <2>1. CASE r \in Recorded(journal)
    <3>1. /\ r \in Walked(journal) /\ r \in Runs /\ fate[r] \in {"running", "stopped"}
          /\ fate'[r] = "running" => fate[r] = "running"
          /\ fate'[r] = "stopped" => fate[r] = "stopped"
      BY <1>0, <1>1, <2>1
    <3>2. /\ First(journal, r) \in DOMAIN journal /\ journal[First(journal, r)].run = r
          /\ journal'[First(journal', r)] = journal[First(journal, r)]
      <4>1. First(journal, r) \in DOMAIN journal /\ journal[First(journal, r)].run = r
        BY <1>0, <2>1, FirstFacts
      <4> QED
        BY <1>1, <2>1, <4>1
    <3>3. CASE n \in DOMAIN journal
      <4>1. After(journal, n, r)
        BY <1>1, <2>1, <3>2, <3>3 DEF After
      <4> QED
        BY <1>0, <1>1, <3>1, <3>3, <4>1 DEF SeenInv
    <3>4. CASE n = L + 1
      <4>1. e.ev = "start" /\ e.boot = journal[First(journal, r)].boot /\ e.boot = boot
        BY <1>0, <1>1, <3>2, <3>4 DEF After
      <4>2. fate[r] # "stopped"
        <5>1. bootKnown /\ fate[r] = "stopped" => journal[First(journal, r)].boot < boot
          BY <1>0, <3>2 DEF BootInv
        <5>2. ~(boot < boot)
          BY <1>0
        <5> QED
          BY <4>1, <5>1, <5>2
      <4> QED
        BY <1>0, <1>1, <3>1, <3>4, <4>1, <4>2 DEF ReadInv, ReadLive
    <3> QED
      BY <1>1, <3>3, <3>4
  <2>2. CASE r \notin Recorded(journal)
    <3>1. First(journal', r) = L + 1
      BY <1>1, <1>10, <2>2
    <3> QED
      BY <1>1, <3>1 DEF After
  <2> QED
    BY <2>1, <2>2
<1> QED
  BY <1>4, <1>5, <1>6

(* What was found or read, and the failure record, stay true. *)
LEMMA GrowReads ==
    ASSUME JournalInv, NEW x \in Runs, NEW e, Grow(x, e)
    PROVE  FoundInv' /\ StartInv' /\ ReadInv'
<1>0. /\ TypeInv /\ MarksInv /\ FoundInv /\ StartInv /\ ReadInv
      /\ e \in Marks /\ e.run = x /\ journal \in Seq(Marks)
      /\ fate[x] = "running" /\ fate'[x] = (IF e.ev = "exit" THEN "exited" ELSE "running")
      /\ \A r \in Runs : r # x => fate'[r] = fate[r] /\ carries'[r] = carries[r] /\ start'[r] = start[r]
      /\ IF bootKnown THEN e.boot = boot ELSE e.boot = NoBoot
      /\ UNCHANGED <<boot, bootKnown, cut, crossed>> /\ passed \subseteq passed'
      /\ carries[x] \subseteq Runs /\ found \subseteq Runs
      /\ \A r \in Runs : start[r].live \subseteq Runs /\ carries[r] \subseteq Runs
  <2>1. \A r \in Runs : start[r].live \subseteq Runs /\ carries[r] \subseteq Runs
    BY DEF JournalInv, TypeInv, Starts
  <2>2. passed \subseteq passed'
    BY DEF Grow
  <2> QED
    BY <2>1, <2>2 DEF JournalInv, TypeInv, Grow
<1>1. /\ \A n \in DOMAIN journal : journal'[n] = journal[n]
      /\ journal'[Len(journal) + 1] = e
      /\ \A r, n : n \in Entries(journal', r) <=>
                    (n \in Entries(journal, r) \/ (r = x /\ n = Len(journal) + 1))
      /\ Recorded(journal') = Recorded(journal) \cup {x}
      /\ Walked(journal') \cap Recorded(journal) \subseteq Walked(journal)
      /\ Recorded(journal) \subseteq Runs
  BY GrowJournal
<1>2. /\ \A r \in Runs : Over(r) => Over(r)' /\ r # x
      /\ \A r \in Runs : Dead(r) => Dead(r)'
      /\ \A r \in Walked(journal) \ passed' : r \in Walked(journal')
      /\ \A r \in Recorded(journal) : Witnessed(journal, r) => Witnessed(journal', r)
      /\ \A r \in Recorded(journal) : journal'[First(journal', r)] = journal[First(journal, r)]
      /\ e.ev = "start" => \A r \in carries[x] \ cut : Dead(r)'
  BY GrowDead
<1>3. Walked(journal') \subseteq Recorded(journal')
  BY DEF Walked
<1>4. FoundInv'
  <2> SUFFICES ASSUME NEW r \in found' \ cut
               PROVE  Dead(r)' /\ (r \notin passed' => r \in Walked(journal'))
    BY <1>0 DEF FoundInv
  <2>1. CASE r \in found
    BY <1>0, <1>2, <2>1 DEF FoundInv
  <2>2. CASE r \notin found
    <3>1. e.ev = "start" /\ r \in carries[x] /\ Reading(x)
      BY <2>2 DEF Grow
    <3>2. r \notin passed => r \in Walked(journal)
      BY <1>0, <3>1 DEF ReadInv, SeenDead
    <3> QED
      BY <1>0, <1>2, <3>1, <3>2
  <2> QED
    BY <2>1, <2>2
<1>5. Starting(x)' => Starting(x) /\ e.ev = "start"
  BY DEF Grow, Reading, Starting
<1>6. \A r \in Runs : Starting(r)' => Starting(r)
  BY <1>0, <1>5 DEF Starting
<1>7. \A r \in Runs : Reading(r)' => Reading(r) /\ r # x
  <2>1. ~Reading(x)'
    BY DEF Grow
  <2> QED
    BY <1>0, <2>1 DEF Reading
<1>8. StartInv'
  <2>1. \A r \in Runs : Starting(r)' => fate'[r] = "running"
    BY <1>0, <1>5, <1>6 DEF StartInv
  <2>2. \A r \in Runs : Reading(r)' => r \notin Recorded(journal')
    BY <1>0, <1>1, <1>7 DEF StartInv
  <2> QED
    BY <1>0, <1>6, <2>1, <2>2 DEF StartInv
<1>9. ReadInv'
  <2> SUFFICES ASSUME NEW y \in Runs, Reading(y)'
               PROVE  /\ ReadLive(y)' /\ \A r \in carries'[y] \ cut' : SeenDead(y, r)'
                      /\ start'[y].crash # 0 <=> carries'[y] # {}
                      /\ start'[y].crash # 0 => start'[y].crash \in carries'[y]
    BY DEF ReadInv
  <2>1. Reading(y) /\ y # x /\ start'[y] = start[y] /\ carries'[y] = carries[y]
    BY <1>0, <1>7
  <2>2. ReadLive(y)'
    <3>0. ReadLive(y)
      BY <1>0, <2>1 DEF ReadInv
    <3>1. \A r \in start[y].live : fate'[r] # "unborn"
      BY <1>0, <3>0 DEF ReadLive
    <3>2. ASSUME bootKnown, NEW r \in start[y].live, NEW m \in Entries(journal', r)
          PROVE  journal'[m].boot = boot
      <4>1. CASE m \in Entries(journal, r)
        BY <1>1, <3>0, <3>2, <4>1 DEF ReadLive, Entries
      <4>2. CASE r = x /\ m = Len(journal) + 1
        BY <1>0, <1>1, <3>2, <4>2
      <4> QED
        BY <1>1, <3>2, <4>1, <4>2
    <3>3. ASSUME NEW r \in Walked(journal') \ (cut \cup crossed), fate'[r] = "running"
          PROVE  r \in start[y].live
      <4>1. r \in Runs /\ fate[r] = "running"
        BY <1>0, <1>1, <1>3, <3>3
      <4>2. r \in Recorded(journal)
        <5> SUFFICES ASSUME r \notin Recorded(journal) PROVE FALSE
          OBVIOUS
        <5>1. Reading(r) /\ r = x
          BY <1>0, <1>1, <1>3, <3>3, <4>1 DEF MarksInv
        <5>2. Starting(x) /\ Starting(y)
          BY <2>1, <5>1 DEF Reading, Starting
        <5> QED
          BY <1>0, <2>1, <3>3, <5>1, <5>2 DEF StartInv
      <4> QED
        BY <1>1, <3>0, <3>3, <4>1, <4>2 DEF ReadLive
    <3> QED
      BY <1>0, <2>1, <3>1, <3>2, <3>3 DEF ReadLive
  <2>3. ASSUME NEW r \in carries[y] \ cut PROVE SeenDead(y, r)'
    <3>1. SeenDead(y, r)
      BY <1>0, <2>1, <2>3 DEF ReadInv
    <3>2. r \in Runs /\ r \in Recorded(journal) /\ Over(r)'
      BY <1>0, <1>2, <2>3, <3>1 DEF SeenDead, Over
    <3> QED
      BY <1>0, <1>2, <2>1, <3>1, <3>2 DEF SeenDead
  <2> QED
    BY <1>0, <2>1, <2>2, <2>3 DEF ReadInv
<1> QED
  BY <1>4, <1>8, <1>9

(* An appended entry keeps the invariant. *)
LEMMA GrowStep ==
    ASSUME JournalInv, NEW x \in Runs, NEW e, Grow(x, e)
    PROVE  JournalInv'
<1>0. /\ TypeInv /\ ReadInv /\ EventInv /\ NewerInv
      /\ crashEvents \in Seq(Crashes) /\ start \in [Runs -> Starts]
      /\ \A r \in Runs : r # x => carries'[r] = carries[r] /\ start'[r] = start[r]
      /\ start'[x].events \in {<<>>, start[x].events}
      /\ UNCHANGED <<boot, bootKnown, reused, crashEvents, lent, crossed, cut>> /\ TypeInv'
  BY DEF JournalInv, TypeInv, Grow
<1>1. Starting(x)' => /\ e.ev = "start" /\ start'[x].at = "record" /\ carries[x] # {}
                      /\ start'[x].crash = start[x].crash /\ Reading(x) /\ Starting(x)
  BY DEF Grow, Reading, Starting
<1>2. /\ \A r \in Runs : Dead(r) => Dead(r)' /\ First(journal', r) = First(journal, r)
      /\ e.ev = "start" => \A r \in carries[x] \ cut : Dead(r)'
  BY GrowDead
<1>3. \A r \in Recorded(journal) : First(journal', r) = First(journal, r)
  BY GrowJournal
<1>4. \A E \in Seq(Crashes) : Ordered(E) => Ordered(E)'
  <2> SUFFICES ASSUME NEW E \in Seq(Crashes), Ordered(E) PROVE Ordered(E)'
    OBVIOUS
  <2>1. /\ \A n \in DOMAIN E : E[n].run \notin cut' => Dead(E[n].run)'
        /\ ~lent' => \A m, n \in DOMAIN E :
             m < n /\ (\A k \in m..n : E[k].run \notin cut' /\ E[k].by \notin crossed') =>
               First(journal', E[m].run) < First(journal', E[n].run)
    BY <1>0, <1>2, OrderedStays
  <2> QED
    BY <2>1 DEF Ordered, Rising
<1>5. EventInv'
  <2>1. Ordered(crashEvents)'
    <3>1. Ordered(crashEvents)
      BY <1>0 DEF EventInv
    <3>2. \A E \in Seq(Crashes) : E = crashEvents' /\ Ordered(E)' => Ordered(crashEvents)'
      BY DEF Ordered, Rising
    <3> QED
      BY <1>0, <1>4, <3>1, <3>2
  <2>2. ASSUME NEW y \in Runs PROVE Ordered(start[y].events)'
    <3>1. start[y].events \in Seq(Crashes) /\ Ordered(start[y].events)
      BY <1>0 DEF Starts, EventInv
    <3>2. start'[y].events \in {<<>>, start[y].events}
      BY <1>0
    <3>3. CASE start'[y].events = <<>>
      BY <3>3 DEF Ordered
    <3>4. CASE start'[y].events = start[y].events
      <4>1. \A E \in Seq(Crashes) : E = start'[y].events /\ Ordered(E)' => Ordered(start[y].events)'
        BY DEF Ordered, Rising
      <4> QED
        BY <1>4, <3>1, <3>4, <4>1
    <3> QED
      BY <3>2, <3>3, <3>4
  <2>3. ASSUME NEW y \in Runs, start'[y].at \in {"record", "write"}
        PROVE  start'[y].crash # 0 /\ \A c : c = start'[y].crash /\ c \notin cut => Dead(c)'
    <3>1. CASE y # x
      <4>1. /\ start[y].at \in {"record", "write"} /\ start'[y].crash = start[y].crash
            /\ start[y].crash \in 0..RunCount
        BY <1>0, <2>3, <3>1 DEF Starts
      <4>2. start[y].crash # 0 /\ (start[y].crash \notin cut => Dead(start[y].crash))
        BY <1>0, <4>1 DEF EventInv
      <4>3. start[y].crash \in Runs
        BY <4>1, <4>2 DEF Runs
      <4> QED
        BY <1>2, <4>1, <4>2, <4>3
    <3>2. CASE y = x
      <4>1. e.ev = "start" /\ carries[x] # {} /\ start'[x].crash = start[x].crash /\ Reading(x)
        BY <1>1, <2>3, <3>2 DEF Starting
      <4>2. start[x].crash # 0 /\ start[x].crash \in carries[x]
        BY <1>0, <4>1 DEF ReadInv
      <4> QED
        BY <1>2, <3>2, <4>1, <4>2
    <3> QED
      BY <3>1, <3>2
  <2>4. ~lent' => reused' = {}
    BY <1>0 DEF EventInv
  <2>5. \A y \in Runs : Ordered(start[y].events)'
    BY <2>2
  <2>6. \A y \in Runs : start'[y].at \in {"record", "write"} =>
           start'[y].crash # 0 /\ (start'[y].crash \notin cut' => Dead(start[y].crash)')
    <3>1. ASSUME NEW y \in Runs, start'[y].at \in {"record", "write"}, start'[y].crash \notin cut'
          PROVE  Dead(start[y].crash)'
      <4>1. \A c : c = start'[y].crash /\ Dead(c)' => Dead(start[y].crash)'
        BY DEF Dead, Over
      <4> QED
        BY <1>0, <2>3, <3>1, <4>1
    <3> QED
      BY <2>3, <3>1
  <2> QED
    BY <2>1, <2>4, <2>5, <2>6 DEF EventInv
<1>6. NewerInv'
  <2> SUFFICES ASSUME NEW y \in Runs \ crossed, Starting(y)'
               PROVE  /\ ~lent /\ crashEvents # <<>> /\ start'[y].crash # 0
                            /\ LastCrash \notin cut /\ start'[y].crash \notin cut =>
                              \/ LastCrash = start'[y].crash
                              \/ First(journal', LastCrash) < First(journal', start'[y].crash)
                      /\ start'[y].at = "write" =>
                            /\ start'[y].events = crashEvents
                            /\ crashEvents # <<>> => LastCrash # start'[y].crash
    BY <1>0 DEF NewerInv, LastCrash
  <2>1. Starting(y) /\ start'[y].crash = start[y].crash
    BY <1>0, <1>1 DEF Starting
  <2>2. start'[y].at = "write" => y # x /\ start'[y] = start[y]
    BY <1>0, <1>1 DEF Starting
  <2>3. ASSUME ~lent, crashEvents # <<>>, start[y].crash # 0, LastCrash \notin cut, start[y].crash \notin cut,
               LastCrash # start[y].crash
        PROVE  First(journal', LastCrash) < First(journal', start[y].crash)
    <3>1. First(journal, LastCrash) < First(journal, start[y].crash)
      BY <1>0, <2>1, <2>3 DEF NewerInv
    <3>2. Len(crashEvents) \in DOMAIN crashEvents
      BY <1>0, <2>3
    <3>3. LastCrash \in Recorded(journal)
      BY <1>0, <2>3, <3>2 DEF EventInv, Ordered, LastCrash, Dead, Over
    <3>4. start[y].crash \in Recorded(journal)
      BY <2>1, <2>3, CrashRecorded
    <3> QED
      BY <1>3, <3>1, <3>3, <3>4
  <2> QED
    BY <1>0, <2>1, <2>2, <2>3 DEF NewerInv
<1>7. MarksInv' /\ BootInv' /\ LiveInv' /\ SeenInv' /\ FoundInv' /\ StartInv' /\ ReadInv'
  BY GrowMarks, GrowBoots, GrowReads
<1> QED
  BY <1>0, <1>5, <1>6, <1>7 DEF JournalInv

-----------------------------------------------------------------------------
(* The journal's theorems. *)

(* The journal starts empty. *)
LEMMA JournalStarts == JournalInit => JournalInv
<1> SUFFICES ASSUME JournalInit PROVE JournalInv
  OBVIOUS
<1>1. /\ journal = <<>> /\ crashEvents = <<>> /\ DOMAIN journal = {} /\ DOMAIN crashEvents = {}
      /\ \A r \in Runs : fate[r] = "unborn" /\ start[r] = Started
      /\ reused = {} /\ found = {} /\ lent = FALSE
  BY DEF JournalInit
<1>0. /\ Started \in Starts /\ Started.at = "none" /\ Started.events = <<>>
  BY DEF Started, Starts, Stages
<1>2. TypeInv
  <2>1. fate \in [Runs -> Fates] /\ carries \in [Runs -> SUBSET Runs]
    BY DEF JournalInit, Fates
  <2>2. start \in [Runs -> Starts]
    BY <1>0 DEF JournalInit
  <2>3. journal \in Seq(Marks) /\ crashEvents \in Seq(Crashes) /\ boot \in 1..MaxBoot
    BY <1>1 DEF JournalInit
  <2>4. /\ bootKnown \in BOOLEAN /\ lent \in BOOLEAN /\ reused \subseteq Runs /\ found \subseteq Runs
        /\ cut \subseteq Runs /\ passed \subseteq Runs /\ crossed \subseteq Runs
    BY DEF JournalInit
  <2> QED
    BY <2>1, <2>2, <2>3, <2>4, Zenon DEF TypeInv
<1>3. Recorded(journal) = {} /\ Walked(journal) = {} /\ \A r, v : ~Wrote(journal, r, v)
  BY <1>1 DEF Recorded, Walked, Wrote, Entries
<1>4. \A r \in Runs : ~Starting(r) /\ ~Reading(r) /\ start[r].at \notin {"record", "write"}
  BY <1>0, <1>1 DEF Starting, Reading
<1>5. MarksInv
  BY <1>1, <1>3 DEF MarksInv
<1>6. BootInv /\ LiveInv /\ SeenInv /\ FoundInv /\ StartInv /\ ReadInv /\ NewerInv
  BY <1>1, <1>3, <1>4 DEF BootInv, LiveInv, SeenInv, FoundInv, StartInv, ReadInv, NewerInv
<1>7. EventInv
  <2>1. \A r \in Runs : start[r].events = <<>>
    BY <1>0, <1>1
  <2>2. Ordered(<<>>)
    BY DEF Ordered
  <2> QED
    BY <1>1, <1>4, <2>1, <2>2 DEF EventInv
<1> QED
  BY <1>2, <1>5, <1>6, <1>7 DEF JournalInv

(* What the entries say of every run, and what the starts on the way have   *)
(* read, stays true through overlapping starts, deaths, reboots, reused     *)
(* pids and journals moved aside.                                           *)
THEOREM JournalInductive == Spec => []JournalInv
<1>1. Init => JournalInv
  BY JournalStarts DEF Init
<1>2. JournalInv /\ [Next]_vars => JournalInv'
  <2> SUFFICES ASSUME JournalInv, [Next]_vars PROVE JournalInv'
    OBVIOUS
  <2>1. JournalNext \/ UNCHANGED journalVars
    BY DEF Next, vars
  <2>2. CASE UNCHANGED journalVars
    BY <2>2, OnwardFacts, OnwardStep
  <2>3. CASE \E r \in Runs : ReadJournal(r)
    BY <2>3, ReadStep
  <2>4. CASE \E r \in Runs : MoveAside(r)
    BY <2>4, MoveStep
  <2>5. CASE \E r \in Runs : WriteCrash(r)
    BY <2>5, WriteStep
  <2>6. CASE \E r \in Runs : AppendStart(r) \/ Phase(r) \/ Reported(r) \/ Exit(r)
    BY <2>6, GrowFacts, GrowStep
  <2>7. CASE \E r \in Runs : MeasureJournal(r) \/ RecordCrash(r) \/ Die(r) \/ PidIsReused(r)
    BY <2>7, OnwardFacts, OnwardStep
  <2>8. CASE MachineGoesDown
    BY <2>8, OnwardFacts, OnwardStep
  <2> QED
    BY <2>1, <2>2, <2>3, <2>4, <2>5, <2>6, <2>7, <2>8 DEF JournalNext
<1> QED
  BY <1>1, <1>2, PTL DEF Spec

(* crashjournal.go, LastRun, and judge.go, RecordCrash: where boots can be  *)
(* told apart no crash of a run whose start was alone is invented; a found  *)
(* one is found by every later start until a run that began after it        *)
(* delivers a report; and it stays one event unless overlapping starts or   *)
(* a journal moved aside come between, for any number of runs and boots and *)
(* any size of a generation.                                                *)
THEOREM CrashesAlwaysTold == Spec => []CrashesAreTold
<1>1. ASSUME JournalInv, DaemonTypeOK PROVE CrashesAreTold
  <2>0. /\ TypeInv /\ FoundInv /\ EventInv /\ journal \in Seq(Marks)
        /\ crashEvents \in Seq(Crashes) /\ start \in [Runs -> Starts]
    BY <1>1 DEF JournalInv, TypeInv
  <2>1. JournalTypeOK
    <3>1. \A n \in DOMAIN journal : journal[n] \in Marks
      BY <2>0
    <3>2. \A n \in DOMAIN journal : journal[n].run \in Runs /\ journal[n].boot \in 0..MaxBoot
      BY <3>1 DEF Marks
    <3>3. \A r \in Runs : start[r].at \in Stages /\ start[r].live \subseteq Runs
      BY <2>0 DEF Starts
    <3>4. \A r \in Runs : carries[r] \subseteq Runs
      BY <2>0 DEF TypeInv
    <3> QED
      BY <2>0, <3>2, <3>3, <3>4 DEF JournalTypeOK, TypeInv, Fates, Stages
  <2>2. NoInventedCrash
    BY <1>1, FoundIsCrashed DEF NoInventedCrash
  <2>3. CrashIsKept
    BY <1>1, <2>0, DeadIsFound DEF CrashIsKept, FoundInv
  <2>4. OneEventPerCrash
    <3> SUFFICES ASSUME ~lent, NEW m \in DOMAIN crashEvents, NEW n \in DOMAIN crashEvents, m < n,
                        crashEvents[m].run = crashEvents[n].run,
                        \A k \in m..n : crashEvents[k].run \notin cut /\ crashEvents[k].by \notin crossed
                 PROVE  FALSE
      BY DEF OneEventPerCrash, Repeats
    <3>1. First(journal, crashEvents[m].run) < First(journal, crashEvents[n].run)
      BY <2>0 DEF EventInv, Ordered, Rising
    <3>2. crashEvents[n].run \in Recorded(journal)
      <4>1. n \in m..n
        BY <2>0
      <4> QED
        BY <2>0, <4>1 DEF EventInv, Ordered, Dead, Over
    <3>3. First(journal, crashEvents[n].run) \in Nat
      BY <2>0, <3>2, FirstFacts
    <3> QED
      BY <3>1, <3>3
  <2> QED
    BY <1>1, <2>1, <2>2, <2>3, <2>4 DEF CrashesAreTold, TypeOK
<1> QED
  BY <1>1, JournalInductive, DaemonTypeCorrect, PTL
=============================================================================
