---------------------------- MODULE SourcePass -----------------------------
(***************************************************************************)
(* One source's file pass (src/internal/engine/pool.go) and the runs that  *)
(* repeat it.  One loop goroutine admits candidates oldest first, hands    *)
(* each to a worker that reads, redacts and seals it, collects sealed      *)
(* objects into authorization groups, and settles every result; a group    *)
(* goroutine holds one upload slot while it authorizes and PUTs.           *)
(*                                                                         *)
(* What a file's fingerprint says is reduced to "none", "parked" or        *)
(* "shipped": FlushEngine models the document itself.                      *)
(***************************************************************************)
EXTENDS Integers, Sequences, FiniteSets, FiniteSetsExt, SequencesExt,
        UploadPort

CONSTANTS
    N,               \* candidates, numbered oldest first
    Size,            \* [1..N -> Nat]: stat size
    Decoded,         \* [1..N -> Nat]: what loading it holds (zstd: more)
    Sealed,          \* [1..N -> Nat]: size of the sealed object
    Broken,          \* files whose PUT never succeeds
    Budget,          \* max_files_per_run
    ComputeLimit,    \* files read, scrubbed and sealed at once
    UploadLimit,     \* groups on the network at once
    Gate,            \* MaxInFlightBytes
    MaxBatchObjects,
    MaxBatchBytes,
    MaxFaults        \* bound: failures, refusals and cancellations in all

Files == 1..N

(* The limits and sizes are numbers, and the limits are not zero. *)
ASSUME PassAssumption ==
    /\ N \in Nat
    /\ Size \in [Files -> Nat]
    /\ Decoded \in [Files -> Nat]
    /\ Sealed \in [Files -> Nat]
    /\ Broken \subseteq Files
    /\ Budget \in Nat
    /\ ComputeLimit \in Nat \ {0}
    /\ UploadLimit \in Nat \ {0}
    /\ Gate \in Nat
    /\ MaxBatchObjects \in Nat \ {0}
    /\ MaxBatchBytes \in Nat
    /\ MaxFaults \in Nat

VARIABLES
    record,     \* what the fingerprint store says of each file
    budget,     \* what is left of the run-wide budget
    start,      \* history: what was left when the pass began
    next,       \* the next candidate to admit
    pc,         \* where each file is
    verdict,    \* the result a worker or a group hands back for it
    out,        \* the report's slot for it
    bytes,      \* inFlightBytes
    staged,     \* the accumulator
    groups,     \* authorization groups handed to a goroutine
    todo,       \* the answered group the loop is settling
    loop,       \* where the loop goroutine is
    fatal,      \* latch: credentials were refused
    halted,     \* latch: authorization is unavailable
    cancelled,  \* the context is done
    stopped,    \* the loop has noticed that it is
    end,        \* how the pass ended
    faults      \* faults so far

vars == <<record, budget, start, next, pc, verdict, out, bytes, staged, groups,
          todo, loop, fatal, halted, cancelled, stopped, end, faults>>

latches == <<fatal, halted, stopped>>
report == <<record, budget, out, bytes>>
queues == <<staged, groups, todo>>

-----------------------------------------------------------------------------
Prepared == {"unchanged", "refreshed", "skipped", "parked", "sealed"}
Answers == {"shipped", "failed", "refused", "unavailable"}
Decisions == {"unchanged", "refreshed", "skipped", "parked"} \cup Answers
Refunded == {"unchanged", "refreshed", "skipped"}

Computing == {f \in Files : pc[f] \in {"waiting", "reading", "result"}}
InFlight == {f \in Files : pc[f] \notin {"queued", "settled"}}

Limit == ComputeLimit + UploadLimit

(* The bytes of the members of s, of which x has w[x]. *)
Total(w, s) == Cardinality(UNION {{x} \X (1..w[x]) : x \in s})

(* Half the upload budget bounds a group, so that sealing and sending      *)
(* overlap.                                                                *)
MaxObjects == Max({1, Min({MaxBatchObjects, UploadLimit \div 2})})

TypeOK ==
    /\ record \in [Files -> {"none", "parked", "shipped"}]
    /\ budget \in 0..Budget
    /\ start \in 0..Budget
    /\ next \in 1..(N + 1)
    /\ pc \in [Files -> {"queued", "waiting", "reading", "result", "staged",
                         "grouped", "sending", "answered", "settled"}]
    /\ verdict \in [Files -> Prepared \cup Answers \cup {"none"}]
    /\ out \in [Files -> Decisions \cup {"none"}]
    /\ bytes \in Nat
    /\ staged \in Seq(Files)
    /\ groups \subseteq Seq(Files)
    /\ todo \in Seq(Files)
    /\ loop \in {"admitting", "waiting", "settling", "ended"}
    /\ fatal \in BOOLEAN /\ halted \in BOOLEAN
    /\ cancelled \in BOOLEAN /\ stopped \in BOOLEAN
    /\ end \in {"running", "refused", "halted", "cancelled", "truncated",
                "complete"}
    /\ faults \in 0..MaxFaults

(* A pass starts with whatever the run's earlier sources left of the       *)
(* budget.                                                                 *)
Init ==
    /\ record \in [Files -> {"none", "shipped"}]
    /\ budget \in 0..Budget
    /\ start = budget
    /\ next = 1
    /\ pc = [f \in Files |-> "queued"]
    /\ verdict = [f \in Files |-> "none"]
    /\ out = [f \in Files |-> "none"]
    /\ bytes = 0
    /\ staged = << >> /\ groups = {} /\ todo = << >>
    /\ loop = "admitting"
    /\ fatal = FALSE /\ halted = FALSE
    /\ cancelled = FALSE /\ stopped = FALSE
    /\ end = "running"
    /\ faults = 0

Fault == faults < MaxFaults /\ faults' = faults + 1

(* The drain deadline, or a signal. *)
Cancel ==
    /\ end = "running" /\ ~cancelled
    /\ Fault
    /\ cancelled' = TRUE
    /\ UNCHANGED <<report, start, next, pc, verdict, queues, loop, latches, end>>

-----------------------------------------------------------------------------
(* Admission. *)

(* charge: a file counts as what loading it holds, unless its fingerprint  *)
(* says it will not be opened.  The memo makes admission and release       *)
(* agree; so does the record, which only settling f changes.               *)
Charge(f) == IF record[f] = "shipped" THEN Size[f] ELSE Decoded[f]

(* Variants that leave out the file's own charge, or never let a file      *)
(* larger than the gate run.                                               *)
FitsGateBefore(f) == InFlight = {} \/ bytes <= Gate
FitsGateAlways(f) == bytes + Charge(f) <= Gate

(* A file larger than the gate runs alone. *)
FitsGate(f) == InFlight = {} \/ bytes + Charge(f) <= Gate

(* A variant without the budget. *)
CanAdmitFreely ==
    /\ Cardinality(InFlight) < Limit
    /\ ~stopped /\ ~fatal /\ ~halted
    /\ next <= N
    /\ ~cancelled
    /\ FitsGate(next)

(* canAdmit: the latches, the context, the budget and the gate, in order.  *)
CanAdmit ==
    /\ Cardinality(InFlight) < Limit
    /\ ~stopped /\ ~fatal /\ ~halted
    /\ next <= N
    /\ ~cancelled
    /\ budget > 0
    /\ FitsGate(next)

(* The budget is reserved here and refunded when the file is settled.      *)
Admit ==
    /\ loop = "admitting"
    /\ CanAdmit
    /\ budget' = budget - 1
    /\ bytes' = bytes + Charge(next)
    /\ pc' = [pc EXCEPT ![next] = "waiting"]
    /\ next' = next + 1
    /\ UNCHANGED <<record, start, verdict, out, queues, loop, latches,
                   cancelled, end, faults>>

(* A variant that calls every pass that leaves files over truncated. *)
VerdictByCount(stop) == IF next <= N THEN "truncated" ELSE "complete"

(* Which verdict the pass returns once nothing is in flight. *)
Verdict(stop) ==
    CASE fatal    -> "refused"
      [] ~fatal /\ halted -> "halted"
      [] ~fatal /\ ~halted /\ stop -> "cancelled"
      [] ~fatal /\ ~halted /\ ~stop /\ next <= N -> "truncated"
      [] OTHER    -> "complete"

(* batcher.flush: what is accumulated goes to a group goroutine. *)
Flushed(s) == IF s = << >> THEN groups ELSE groups \cup {s}

Handed(s) == [f \in Files |-> IF f \in ToSet(s) THEN "grouped" ELSE pc[f]]

(* A variant that waits for more budget when it runs out. *)
StopAdmittingAtEnd ==
    /\ loop = "admitting"
    /\ ~CanAdmit
    /\ stopped' = (stopped \/ cancelled)
    /\ IF Computing = {}
       THEN /\ groups' = Flushed(staged)
            /\ pc' = Handed(staged)
            /\ staged' = << >>
       ELSE UNCHANGED <<groups, pc, staged>>
    /\ CASE InFlight # {} -> loop' = "waiting" /\ UNCHANGED end
         [] InFlight = {} /\ (next > N \/ stopped' \/ fatal \/ halted) ->
               loop' = "ended" /\ end' = Verdict(stopped')
         [] OTHER -> UNCHANGED <<loop, end>>
    /\ UNCHANGED <<report, start, next, verdict, todo, fatal, halted,
                   cancelled, faults>>

(* Nothing more is admitted in this turn.  With no file left that could    *)
(* join the accumulator, it is sent; with nothing in flight, the pass ends.*)
StopAdmitting ==
    LET noticed ==
          /\ Cardinality(InFlight) < Limit
          /\ ~stopped /\ ~fatal /\ ~halted /\ next <= N
          /\ cancelled
    IN  /\ loop = "admitting"
        /\ ~CanAdmit
        /\ stopped' = (stopped \/ noticed)
        /\ IF Computing = {}
           THEN /\ groups' = Flushed(staged)
                /\ pc' = Handed(staged)
                /\ staged' = << >>
           ELSE UNCHANGED <<groups, pc, staged>>
        /\ IF InFlight = {}
           THEN loop' = "ended" /\ end' = Verdict(stopped')
           ELSE loop' = "waiting" /\ UNCHANGED end
        /\ UNCHANGED <<report, start, next, verdict, todo, fatal, halted,
                       cancelled, faults>>

-----------------------------------------------------------------------------
(* The workers. *)

(* A worker takes a compute slot. *)
Start(f) ==
    /\ pc[f] = "waiting"
    /\ Cardinality({g \in Files : pc[g] = "reading"}) < ComputeLimit
    /\ pc' = [pc EXCEPT ![f] = "reading"]
    /\ UNCHANGED <<report, start, next, verdict, queues, loop, latches,
                   cancelled, end, faults>>

(* prepareFile: the slot is released and the result sent to the loop.  A   *)
(* shipped file is unchanged by its stat or by its hash; a parked one may  *)
(* still be waiting; any other is sealed, or parked or failed by an error. *)
Prepare(f) ==
    /\ pc[f] = "reading"
    /\ pc' = [pc EXCEPT ![f] = "result"]
    /\ \/ /\ record[f] = "shipped" /\ UNCHANGED faults
          /\ \E v \in {"unchanged", "refreshed"} :
                verdict' = [verdict EXCEPT ![f] = v]
       \/ /\ record[f] = "parked" /\ Fault
          /\ verdict' = [verdict EXCEPT ![f] = "skipped"]
       \/ /\ record[f] # "shipped" /\ Fault
          /\ \E v \in {"parked", "failed"} :
                verdict' = [verdict EXCEPT ![f] = v]
       \/ /\ record[f] # "shipped" /\ UNCHANGED faults
          /\ verdict' = [verdict EXCEPT ![f] = "sealed"]
    /\ UNCHANGED <<report, start, next, queues, loop, latches, cancelled, end>>

(* A group goroutine takes one upload slot for the group's whole life.     *)
Sending == {g \in groups : \E f \in ToSet(g) : pc[f] = "sending"}

SendGroup(g) ==
    /\ \A f \in ToSet(g) : pc[f] = "grouped"
    /\ Cardinality(Sending) < UploadLimit
    /\ pc' = [f \in Files |-> IF f \in ToSet(g) THEN "sending" ELSE pc[f]]
    /\ UNCHANGED <<report, start, next, verdict, queues, loop, latches,
                   cancelled, end, faults>>

(* What authorizeAndUpload may make of a group whose broken files never    *)
(* ship.                                                                   *)
AnswersFor(s) ==
    {a \in GroupAnswers(s) : \A f \in s \cap Broken : a[f] # "shipped"}

(* The expected answer: everything that can be stored is. *)
Good(s) == [f \in s |-> IF f \in Broken THEN "failed" ELSE "shipped"]

(* sendBatch is done: the upload slot is released and the group handed     *)
(* back.                                                                   *)
AnswerGroup(g) ==
    LET s == ToSet(g)
    IN  /\ \A f \in s : pc[f] = "sending"
        /\ \E a \in AnswersFor(s) :
              /\ verdict' = [f \in Files |-> IF f \in s THEN a[f]
                                                        ELSE verdict[f]]
              /\ IF a = Good(s) THEN UNCHANGED faults ELSE Fault
        /\ pc' = [f \in Files |-> IF f \in s THEN "answered" ELSE pc[f]]
        /\ UNCHANGED <<report, start, next, queues, loop, latches, cancelled,
                       end>>

-----------------------------------------------------------------------------
(* The loop takes a result. *)

(* A variant that counts every one of them. *)
DuplicateCounted(v) == FALSE

(* Only the first refusal or unavailable verdict is counted. *)
Duplicate(v) == (v = "refused" /\ fatal) \/ (v = "unavailable" /\ halted)

(* applyIntent: a commit that fails turns the decision into a failure,     *)
(* except that a parked file stays parked.                                 *)
Applied(v, ok) == IF ok \/ v = "parked" THEN v ELSE "failed"

Durable(f, v, ok) ==
    CASE ok /\ v = "shipped" -> "shipped"
      [] ok /\ v = "parked"  -> "parked"
      [] OTHER -> record[f]

(* A variant that refunds by the verdict, not by what became of it. *)
SettleByVerdict(f, v) ==
    /\ bytes' = bytes - Charge(f)
    /\ \E ok \in BOOLEAN :
          /\ IF ok THEN UNCHANGED faults
                   ELSE v \in {"shipped", "refreshed", "parked"} /\ Fault
          /\ record' = [record EXCEPT ![f] = Durable(f, v, ok)]
          /\ out' = IF Duplicate(v) THEN out
                    ELSE [out EXCEPT ![f] = Applied(v, ok)]
          /\ budget' = IF ~Duplicate(v) /\ v \in Refunded
                       THEN budget + 1 ELSE budget
    /\ fatal' = (fatal \/ v = "refused")
    /\ halted' = (halted \/ v = "unavailable")

(* settle, then fold: the gate's share is released, the intent committed,  *)
(* the outcome counted, the budget refunded for a file that cost nothing,  *)
(* and a refusal or an outage latched.                                     *)
Settle(f, v) ==
    /\ bytes' = bytes - Charge(f)
    /\ \E ok \in BOOLEAN :
          /\ IF ok THEN UNCHANGED faults
                   ELSE v \in {"shipped", "refreshed", "parked"} /\ Fault
          /\ record' = [record EXCEPT ![f] = Durable(f, v, ok)]
          /\ out' = IF Duplicate(v) THEN out
                    ELSE [out EXCEPT ![f] = Applied(v, ok)]
          /\ budget' = IF ~Duplicate(v) /\ Applied(v, ok) \in Refunded
                       THEN budget + 1 ELSE budget
    /\ fatal' = (fatal \/ v = "refused")
    /\ halted' = (halted \/ v = "unavailable")

(* abandon: a sealed object the latched pass will not send. *)
Abandoned == IF fatal THEN "refused" ELSE "unavailable"

GroupBytes(s) == Total([i \in DOMAIN s |-> Sealed[s[i]]], DOMAIN s)

(* A variant that looks at the bounds only after the append. *)
AddThenFlush(f) ==
    LET s == Append(staged, f)
        full == Len(s) >= MaxObjects \/ GroupBytes(s) >= MaxBatchBytes
    IN  /\ groups' = IF full THEN groups \cup {s} ELSE groups
        /\ staged' = IF full THEN << >> ELSE s
        /\ pc' = [g \in Files |->
                     CASE full /\ g \in ToSet(s) -> "grouped"
                       [] ~full /\ g = f -> "staged"
                       [] OTHER -> pc[g]]

(* batcher.add, in its order: a group the object would take past the byte  *)
(* bound is sent first, a group that reached a bound is sent after.        *)
Add(f) ==
    LET before == staged # << >> /\ GroupBytes(staged) + Sealed[f] > MaxBatchBytes
        s == IF before THEN <<f>> ELSE Append(staged, f)
        full == Len(s) >= MaxObjects \/ GroupBytes(s) >= MaxBatchBytes
        sent == (IF before THEN {staged} ELSE {}) \cup (IF full THEN {s} ELSE {})
        handed == UNION {ToSet(g) : g \in sent}
    IN  /\ groups' = groups \cup sent
        /\ staged' = IF full THEN << >> ELSE s
        /\ pc' = [g \in Files |-> CASE g \in handed -> "grouped"
                                    [] g = f /\ g \notin handed -> "staged"
                                    [] OTHER -> pc[g]]

(* A worker's result: a sealed object joins the accumulator, unless the    *)
(* pass has latched; anything else is settled.                             *)
Receive(f) ==
    /\ loop = "waiting"
    /\ pc[f] = "result"
    /\ loop' = "admitting"
    /\ IF verdict[f] = "sealed" /\ ~fatal /\ ~halted
       THEN Add(f) /\ UNCHANGED <<report, fatal, halted, faults>>
       ELSE /\ Settle(f, IF verdict[f] = "sealed" THEN Abandoned
                                                  ELSE verdict[f])
            /\ pc' = [pc EXCEPT ![f] = "settled"]
            /\ UNCHANGED <<staged, groups>>
    /\ UNCHANGED <<start, next, verdict, todo, stopped, cancelled, end>>

(* A group's answer: its members are settled one after another ... *)
ReceiveGroup(g) ==
    /\ loop = "waiting"
    /\ \A f \in ToSet(g) : pc[f] = "answered"
    /\ groups' = groups \ {g}
    /\ todo' = g
    /\ loop' = "settling"
    /\ UNCHANGED <<report, start, next, pc, verdict, staged, latches,
                   cancelled, end, faults>>

SettleNext ==
    /\ loop = "settling"
    /\ todo # << >>
    /\ Settle(Head(todo), verdict[Head(todo)])
    /\ pc' = [pc EXCEPT ![Head(todo)] = "settled"]
    /\ todo' = Tail(todo)
    /\ UNCHANGED <<start, next, verdict, staged, groups, loop, stopped,
                   cancelled, end>>

(* A variant that leaves the accumulator alone. *)
DrainNothing ==
    /\ loop = "settling"
    /\ todo = << >>
    /\ loop' = "admitting"
    /\ UNCHANGED <<report, start, next, pc, verdict, queues, latches, cancelled,
                   end, faults>>

(* ... and then the accumulator is drained if the pass has latched.        *)
DrainStaged ==
    /\ loop = "settling"
    /\ todo = << >>
    /\ IF staged # << >> /\ (fatal \/ halted)
       THEN /\ todo' = staged
            /\ staged' = << >>
            /\ verdict' = [f \in Files |-> IF f \in ToSet(staged)
                                           THEN Abandoned ELSE verdict[f]]
            /\ pc' = [f \in Files |-> IF f \in ToSet(staged)
                                      THEN "answered" ELSE pc[f]]
            /\ UNCHANGED loop
       ELSE loop' = "admitting" /\ UNCHANGED <<todo, staged, verdict, pc>>
    /\ UNCHANGED <<report, start, next, groups, latches, cancelled, end, faults>>

-----------------------------------------------------------------------------
(* The next tick's run, or, after a refusal, the first one once the        *)
(* install is enrolled again.                                              *)
NextRun ==
    /\ loop = "ended"
    /\ budget' = Budget /\ start' = Budget
    /\ next' = 1
    /\ pc' = [f \in Files |-> "queued"]
    /\ verdict' = [f \in Files |-> "none"]
    /\ out' = [f \in Files |-> "none"]
    /\ loop' = "admitting"
    /\ fatal' = FALSE /\ halted' = FALSE
    /\ cancelled' = FALSE /\ stopped' = FALSE
    /\ end' = "running"
    /\ UNCHANGED <<record, bytes, queues, faults>>

Next ==
    \/ Cancel \/ Admit \/ StopAdmitting \/ SettleNext \/ DrainStaged \/ NextRun
    \/ \E f \in Files : Start(f) \/ Prepare(f) \/ Receive(f)
    \/ \E g \in groups : SendGroup(g) \/ AnswerGroup(g) \/ ReceiveGroup(g)

Spec == Init /\ [][Next]_vars

-----------------------------------------------------------------------------
(* Properties. *)

(* "Budget is RESERVED here and refunded in fold, which is what makes      *)
(* overshoot impossible" (canAdmit): the budget taken is exactly the files *)
(* in flight and the files settled at a cost, however results are          *)
(* reordered, duplicated by a refusal, or demoted by a failed commit.      *)
BudgetIsExact ==
    budget + Cardinality({f \in Files : pc[f] # "queued"
                                        /\ out[f] \notin Refunded}) = start

(* "the sum of raw bytes in flight is held to the same figure.  A file     *)
(* larger than the gate runs alone": the charges of the files in flight    *)
(* add up to what the gate thinks, and never exceed it unless alone.       *)
GateHolds ==
    /\ bytes = Total([f \in Files |-> Charge(f)], InFlight)
    /\ bytes <= Gate \/ Cardinality(InFlight) <= 1

(* A group is within the limits the control plane refuses it whole for     *)
(* (one oversized object travels alone), and no file is in two places.     *)
GroupsAreSendable ==
    /\ \A g \in groups :
          /\ Len(g) <= MaxBatchObjects
          /\ GroupBytes(g) <= MaxBatchBytes \/ Len(g) = 1
    /\ \A f \in Files :
          pc[f] \in {"grouped", "sending"} =>
             Cardinality({g \in groups : f \in ToSet(g)}) = 1

(* One verdict per run: the report counts a refusal at most once and an    *)
(* outage at most once, or rep.Failed would depend on GOMAXPROCS.          *)
OneStopIsCounted ==
    \A v \in {"refused", "unavailable"} :
       Cardinality({f \in Files : out[f] = v}) <= 1

(* A file whose object has been handed to a group goroutine, or has come   *)
(* back stored and is not yet settled: neither a refusal nor an outage     *)
(* calls it back.                                                          *)
OnItsWay ==
    {f \in Files : \/ pc[f] \in {"grouped", "sending"}
                   \/ pc[f] = "answered" /\ verdict[f] = "shipped"}

Latched == (fatal \/ halted) /\ end = "running"

(* Files that the step to the next state records as shipped. *)
NewlyShipped == {f \in Files : record'[f] = "shipped" /\ record[f] # "shipped"}

(* canAdmit, add and drainStaged after a refusal or an outage: the pass    *)
(* admits no file, hands no object to a group goroutine that it had not    *)
(* handed over already, and commits only files that were on their way,     *)
(* whatever the accumulator held and however the answers of the other      *)
(* groups are ordered around the one that stopped it.                      *)
StopHoldsBack ==
    [][Latched => /\ next' = next
                  /\ OnItsWay' \subseteq OnItsWay
                  /\ NewlyShipped \subseteq OnItsWay]_vars

(* "this run sends and commits nothing more" (uploadHalted), read as it    *)
(* stands: no group starts its uploads and nothing is recorded as shipped. *)
(* The code does not keep this: a group that waits on uploadSlots when the *)
(* latch closes still takes its slot, uploads and is committed.            *)
SendsAndCommitsNothingMore ==
    [][Latched => /\ \A f \in Files : pc[f] = "grouped" => pc'[f] = "grouped"
                  /\ NewlyShipped = {}]_vars

(* "Truncation is a budget verdict only": a pass that ends without a stop  *)
(* has settled every file it admitted with a decision in the report, and   *)
(* leaves files over only because the budget is spent.                     *)
EndIsExact ==
    /\ loop = "ended" => InFlight = {} /\ bytes = 0 /\ staged = << >>
                         /\ groups = {}
    /\ end \in {"complete", "truncated"} =>
          \A f \in Files : (out[f] # "none") <=> f < next
    /\ end = "complete" => next = N + 1
    /\ end = "truncated" => next <= N /\ budget = 0

(* The loop's accounts (pool.go: fold, settle) are exact in every order of *)
(* results: the budget, the one verdict of a stop, and the report a pass   *)
(* ends with.                                                              *)
AccountsAreExact == TypeOK /\ BudgetIsExact /\ OneStopIsCounted /\ EndIsExact

(* The two limits (pool.go: charge; upload.go: fits): memory in flight and *)
(* the size of a group, each at its bound and past it.                     *)
LimitsHold == GateHolds /\ GroupsAreSendable

-----------------------------------------------------------------------------
(* Liveness: goroutines run, the network answers or times out, and the     *)
(* daemon ticks.                                                           *)
Fairness ==
    /\ WF_vars(Admit) /\ WF_vars(StopAdmitting)
    /\ WF_vars(SettleNext) /\ WF_vars(DrainStaged) /\ WF_vars(NextRun)
    /\ WF_vars(\E f \in Files : Receive(f))
    /\ WF_vars(\E g \in groups : ReceiveGroup(g))
    /\ WF_vars(\E f \in Files : Start(f))
    /\ WF_vars(\E f \in Files : Prepare(f))
    /\ WF_vars(\E g \in groups : SendGroup(g))
    /\ WF_vars(\E g \in groups : AnswerGroup(g))

FairSpec == Spec /\ Fairness

(* No pass hangs: neither on a slot, nor on a half-full accumulator, nor   *)
(* on the bytes that accumulator holds.                                    *)
PassEnds == loop # "ended" ~> loop = "ended"

(* "Missed ticks are harmless: the backlog is fingerprint-driven and       *)
(* oldest-first ... so a backlog converges" (run.go): once faults cease,   *)
(* every file that can be stored is.                                       *)
BacklogConverges == \A f \in Files \ Broken : <>(record[f] = "shipped")
=============================================================================
