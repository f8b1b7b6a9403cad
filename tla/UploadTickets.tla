--------------------------- MODULE UploadTickets ---------------------------
(***************************************************************************)
(* How a group of sealed objects reaches the bucket: the engine's upload   *)
(* loop (engine/upload.go), the client's port (app/vendupload.go,          *)
(* controlplane/uploads.go, internal/upload), the Fleet Manager's          *)
(* authorization handler (fleet-manager/src/server.go, upload.go) and the  *)
(* bucket, which accepts a PUT on a ticket until the ticket expires.       *)
(*                                                                         *)
(* The machine's clock is off by a constant; calls are lost, time out or   *)
(* land after their client gave up; an administrator revokes the install   *)
(* at any time; and a faulty control plane may answer with a wrong ticket. *)
(***************************************************************************)
EXTENDS Integers, Sequences, FiniteSets, SequencesExt, UploadPort

CONSTANTS
    Objects,      \* the install's object keys
    Mirror,       \* those of collected files; the others are state objects
    Groups,       \* the groups the engine may hand out: sequences of keys
    Unservable,   \* objects the plane's validation refuses (too large)
    Digests,      \* source and shipped hash of a sealed object
    NoDigest,
    Contents,     \* [Objects -> SUBSET Digests]: what each may contain
    Skews,        \* how far the machine's clock may be off
    MaxAge,       \* uploadIssuedAtMaxAge
    MaxAhead,     \* uploadIssuedAtSkew
    Lifetime,     \* uploadTicketLifetime
    CallTimeout,  \* the client's timeout of one control-plane call
    PutTimeout,   \* the client's timeout of one PUT
    PutSlots,     \* PUTs of one group in flight
    MaxClock,     \* bound: time
    MaxFaults     \* bound: lost calls, failed reads, wrong answers

(* Keys and limits have their types. *)
ASSUME TicketAssumption ==
    /\ Mirror \subseteq Objects /\ Unservable \subseteq Objects
    /\ \A g \in Groups : g \in Seq(Objects) /\ IsInjective(g)
    /\ NoDigest \notin Digests
    /\ Contents \in [Objects -> SUBSET Digests]
    /\ Skews \subseteq Int
    /\ {MaxAge, MaxAhead, Lifetime, CallTimeout, PutTimeout, MaxClock,
        MaxFaults} \subseteq Nat
    /\ PutSlots \in Nat \ {0}

VARIABLES
    clock,      \* the time, as the plane and the bucket see it
    skew,       \* the machine's clock minus the time
    status,     \* the install record's status
    revokedAt,  \* history: when it was revoked
    marker,     \* the client knows that it was
    bucket,     \* under each key, the current version and every version
    late,       \* PUTs the client gave up on that may still land
    group,      \* the group the engine handed out
    offer,      \* the digest of each of its objects
    round,      \* 1, or 2 when expired tickets are authorized again
    batch,      \* the objects of this round's authorization
    stage,      \* where the authorization is
    call,       \* the authorization call under way
    misled,     \* history: a faulty plane answered this group
    put,        \* each object's PUT
    outcome,    \* the port's verdict on each object
    faults

vars == <<clock, skew, status, revokedAt, marker, bucket, late, group, offer,
          round, batch, stage, call, misled, put, outcome, faults>>

world == <<clock, skew, status, revokedAt>>
job == <<group, offer, round, batch>>
attempt == <<stage, call, misled>>

-----------------------------------------------------------------------------
(* A version is whose bytes they are, and the hashes in its metadata.      *)
Versions == [obj : Objects, body : Digests, label : Digests]

(* The hashes of the current version (none under a new key), and the       *)
(* versions a versioned bucket keeps.                                      *)
Slots == [label : Digests \cup {NoDigest}, all : SUBSET Versions]

(* A ticket: the object id it answers, and either "already present" or a   *)
(* PUT capability.  "sound" stands for the method, the signed exact        *)
(* length, the origin and the closed set of headers.                       *)
Tickets == [id : Nat, present : BOOLEAN, key : Objects,
            label : Digests \cup {NoDigest}, expires : Nat, sound : BOOLEAN]

(* A call: issued_at by the machine's clock, when it was made, the time    *)
(* its handler read, the mirror objects probed, those the archive holds,   *)
(* and the answer.                                                         *)
Calls == [issued : Int, posted : Nat, signedAt : Nat, asked : SUBSET Mirror,
          held : SUBSET Mirror, tickets : SUBSET Tickets]
NoCall == [issued |-> 0, posted |-> 0, signedAt |-> 0, asked |-> {},
           held |-> {}, tickets |-> {}]

Puts == [pc : {"none", "waiting", "sending", "accepted", "landed"},
         ticket : Tickets, began : Nat]

Verdicts == {"none", "shipped", "present", "failed", "refused", "unavailable",
             "expired"}

NoTicket == [id |-> 0, present |-> FALSE, key |-> CHOOSE o \in Objects : TRUE,
             label |-> NoDigest, expires |-> 0, sound |-> FALSE]
NoPut == [pc |-> "none", ticket |-> NoTicket, began |-> 0]

TypeOK ==
    /\ clock \in 0..MaxClock /\ skew \in Skews
    /\ status \in {"active", "revoked"} /\ revokedAt \in 0..MaxClock
    /\ marker \in BOOLEAN
    /\ bucket \in [Objects -> Slots]
    /\ late \subseteq [key : Objects, version : Versions, until : Nat]
    /\ group \in Seq(Objects) /\ batch \in Seq(Objects)
    /\ offer \in [Objects -> Digests \cup {NoDigest}]
    /\ round \in 1..2
    /\ stage \in {"idle", "start", "posted", "authenticated", "validated",
                  "answered", "sending"}
    /\ call \in Calls /\ call.held \subseteq call.asked
    /\ misled \in BOOLEAN
    /\ put \in [Objects -> Puts]
    /\ outcome \in [Objects -> Verdicts]
    /\ faults \in 0..MaxFaults

Init ==
    /\ clock = 0 /\ skew \in Skews
    /\ status = "active" /\ revokedAt = 0
    /\ marker = FALSE
    /\ bucket = [o \in Objects |-> [label |-> NoDigest, all |-> {}]]
    /\ late = {}
    /\ group = << >> /\ batch = << >>
    /\ offer = [o \in Objects |-> NoDigest]
    /\ round = 1
    /\ stage = "idle"
    /\ call = NoCall
    /\ misled = FALSE
    /\ put = [o \in Objects |-> NoPut]
    /\ outcome = [o \in Objects |-> "none"]
    /\ faults = 0

Fault == faults < MaxFaults /\ faults' = faults + 1

-----------------------------------------------------------------------------
(* Time, and the administrator.  Bytes that have not landed in time never  *)
(* do.                                                                     *)
Tick ==
    /\ clock < MaxClock /\ clock' = clock + 1
    /\ late' = {x \in late : clock' <= x.until}
    /\ UNCHANGED <<skew, status, revokedAt, marker, bucket, job, attempt, put,
                   outcome, faults>>

Revoke ==
    /\ status = "active" /\ status' = "revoked"
    /\ revokedAt' = clock
    /\ UNCHANGED <<clock, skew, marker, bucket, late, job, attempt, put,
                   outcome, faults>>

-----------------------------------------------------------------------------
(* The client: one authorization. *)

InBatch(o) == o \in ToSet(batch)

(* sameOutcome: one verdict for the whole round. *)
Whole(v) ==
    /\ outcome' = [o \in Objects |-> IF InBatch(o) THEN v ELSE outcome[o]]
    /\ stage' = "sending" /\ call' = NoCall

(* sendBatch starts with newly sealed objects; object ids are positions.   *)
SendBatch(g) ==
    /\ stage = "idle"
    /\ group' = g /\ batch' = g
    /\ round' = 1
    /\ offer' \in [Objects -> Digests \cup {NoDigest}]
    /\ \A o \in Objects : offer'[o] \in IF o \in ToSet(g) THEN Contents[o]
                                        ELSE {NoDigest}
    /\ stage' = "start"
    /\ misled' = FALSE
    /\ outcome' = [o \in Objects |-> "none"]
    /\ UNCHANGED <<world, marker, bucket, late, call, put, faults>>

(* The request is stamped and signed, unless this client already knows the *)
(* install was revoked.                                                    *)
Post ==
    /\ stage = "start"
    /\ IF marker
       THEN Whole("refused")
       ELSE /\ stage' = "posted"
            /\ call' = [NoCall EXCEPT !.issued = clock + skew, !.posted = clock]
            /\ UNCHANGED outcome
    /\ UNCHANGED <<world, marker, bucket, late, job, misled, put, faults>>

Calling == stage \in {"posted", "authenticated", "validated", "answered"}
InTime == clock <= call.posted + CallTimeout

(* The client's own timeout ends the call, whatever the plane still does.  *)
AuthorizeTimesOut ==
    /\ Calling /\ ~InTime
    /\ Whole("failed")
    /\ UNCHANGED <<world, marker, bucket, late, job, misled, put, faults>>

(* classifyAuthorize: a plane that cannot be reached, a 429 and a 5xx are  *)
(* an outage; an answer lost on the way is a failure.                      *)
AuthorizeFails ==
    /\ Calling /\ Fault
    /\ \E v \in {"failed", "unavailable"} : Whole(v)
    /\ UNCHANGED <<world, marker, bucket, late, job, misled, put>>

-----------------------------------------------------------------------------
(* The plane. *)

(* A variant that authenticates against a record it read at enrollment. *)
AuthenticateCached ==
    /\ stage = "posted" /\ InTime
    /\ stage' = "authenticated"
    /\ UNCHANGED <<world, marker, bucket, late, job, call, misled, put, outcome,
                   faults>>

(* The client keeps the news, in memory and in its state directory.        *)
RecordRevocation == marker' = TRUE

(* deviceAuth reads the install record for every request.  The answer to a *)
(* revoked install is 403, which the client remembers.                     *)
Authenticate ==
    /\ stage = "posted" /\ InTime
    /\ IF status = "revoked"
       THEN Whole("refused") /\ RecordRevocation
       ELSE stage' = "authenticated" /\ UNCHANGED <<call, marker, outcome>>
    /\ UNCHANGED <<world, bucket, late, job, misled, put, faults>>

Fresh == clock - call.issued <= MaxAge /\ call.issued - clock <= MaxAhead

(* A variant that lets a stale signature cost the install its credentials. *)
ValidateRefuses ==
    /\ stage = "authenticated" /\ InTime
    /\ IF Fresh /\ ToSet(batch) \cap Unservable = {}
       THEN /\ stage' = "validated" /\ call' = [call EXCEPT !.signedAt = clock]
            /\ UNCHANGED outcome
       ELSE Whole("refused")
    /\ UNCHANGED <<world, marker, bucket, late, job, misled, put, faults>>

(* validateUploadRequest: stale, early or out of bounds is a 400 for the   *)
(* whole batch.                                                            *)
Validate ==
    /\ stage = "authenticated" /\ InTime
    /\ IF Fresh /\ ToSet(batch) \cap Unservable = {}
       THEN /\ stage' = "validated" /\ call' = [call EXCEPT !.signedAt = clock]
            /\ UNCHANGED outcome
       ELSE Whole("failed")
    /\ UNCHANGED <<world, marker, bucket, late, job, misled, put, faults>>

(* A variant that asks only whether the key exists. *)
HoldsAny(o) == bucket[o].label # NoDigest

(* StoredHashes: the current version's metadata is what is on offer.       *)
HoldsOffer(o) == bucket[o].label = offer[o]

(* A variant that asks about state objects too. *)
ProbeAll(o) ==
    /\ stage = "validated"
    /\ InBatch(o) /\ o \notin call.asked
    /\ call' = [call EXCEPT !.asked = @ \cup {o}]
    /\ UNCHANGED <<world, marker, bucket, late, job, stage, misled, put, outcome,
                   faults>>

(* probeStored: one concurrent read per mirror object; a read that fails   *)
(* leaves the object to be sent.                                           *)
Probe(o) ==
    /\ stage = "validated"
    /\ InBatch(o) /\ o \in Mirror \ call.asked
    /\ \/ /\ call' = [call EXCEPT !.asked = @ \cup {o},
                               !.held = IF HoldsOffer(o) THEN @ \cup {o} ELSE @]
          /\ UNCHANGED faults
       \/ /\ HoldsOffer(o) /\ Fault
          /\ call' = [call EXCEPT !.asked = @ \cup {o}]
    /\ UNCHANGED <<world, marker, bucket, late, job, stage, misled, put, outcome>>

PutTicket(i) == [id |-> i, present |-> FALSE, key |-> batch[i],
                 label |-> offer[batch[i]], expires |-> call.signedAt + Lifetime,
                 sound |-> TRUE]
PresentTicket(i) == [id |-> i, present |-> TRUE, key |-> batch[i],
                     label |-> NoDigest, expires |-> 0, sound |-> TRUE]

(* splitAlreadyStored: a signed ticket for each object that needs a PUT,   *)
(* and word of the ones already stored.  The client files tickets by id,   *)
(* so their order says nothing.                                            *)
Answer ==
    {PutTicket(i) : i \in {j \in DOMAIN batch : batch[j] \notin call.held}}
    \cup {PresentTicket(i) : i \in {j \in DOMAIN batch : batch[j] \in call.held}}

Probed == stage = "validated" /\ ToSet(batch) \cap Mirror \subseteq call.asked

Authorize ==
    /\ Probed
    /\ call' = [call EXCEPT !.tickets = Answer]
    /\ stage' = "answered"
    /\ UNCHANGED <<world, marker, bucket, late, job, misled, put, outcome, faults>>

(* One field of a ticket wrong. *)
Corrupted(t) ==
    {[t EXCEPT !.id = i] : i \in 0..Len(batch)}
    \cup {[t EXCEPT !.key = k] : k \in ToSet(group)}
    \cup {[t EXCEPT !.label = d] : d \in Digests}
    \cup {[t EXCEPT !.sound = FALSE], [t EXCEPT !.present = ~@]}

(* A faulty plane answers with a wrong ticket, or with one too few.        *)
Misanswer ==
    /\ Probed /\ Fault
    /\ \E t \in Answer :
          \/ \E u \in Corrupted(t) \ {t} :
                call' = [call EXCEPT !.tickets = (Answer \ {t}) \cup {u}]
          \/ call' = [call EXCEPT !.tickets = Answer \ {t}]
    /\ misled' = TRUE
    /\ stage' = "answered"
    /\ UNCHANGED <<world, marker, bucket, late, job, put, outcome>>

-----------------------------------------------------------------------------
(* The client: the answer is matched to the batch, then each ticket spent. *)

WellFormed ==
    /\ Cardinality(call.tickets) = Len(batch)
    /\ \A t \in call.tickets : t.present => t.sound
    /\ \A t, u \in call.tickets : t.id = u.id => t = u

(* The tickets naming o's position in this round's batch. *)
TicketFor(o) ==
    {t \in call.tickets : t.id \in DOMAIN batch /\ batch[t.id] = o}

(* The verdict before any PUT: no ticket, or nothing to send. *)
Settled(o) == CASE TicketFor(o) = {} -> "failed"
                [] \E t \in TicketFor(o) : t.present -> "present"
                [] OTHER -> "none"

Receive ==
    /\ stage = "answered" /\ InTime
    /\ IF ~WellFormed
       THEN Whole("failed") /\ UNCHANGED put
       ELSE /\ outcome' = [o \in Objects |->
                             IF InBatch(o) THEN Settled(o) ELSE outcome[o]]
            /\ put' = [o \in Objects |->
                 IF InBatch(o) /\ Settled(o) = "none"
                 THEN [pc |-> "waiting", began |-> 0,
                       ticket |-> CHOOSE t \in TicketFor(o) : TRUE]
                 ELSE NoPut]
            /\ stage' = "sending" /\ call' = NoCall
    /\ UNCHANGED <<world, marker, bucket, late, job, misled, faults>>

(* A variant that trusts the headers the plane asks for. *)
ValidTicketKey(o, t) == t.key = o /\ t.sound

(* ValidateTicket: everything is compared with the object this machine     *)
(* prepared.                                                               *)
ValidTicket(o, t) == t.key = o /\ t.label = offer[o] /\ t.sound

Conclude(o, v) ==
    /\ outcome' = [outcome EXCEPT ![o] = v]
    /\ put' = [put EXCEPT ![o] = NoPut]

Sending == {o \in Objects : put[o].pc \in {"sending", "accepted", "landed"}}
PutInTime(o) == clock <= put[o].began + PutTimeout

(* send: a slot, the validation, then the bytes leave. *)
Send(o) ==
    /\ put[o].pc = "waiting"
    /\ Cardinality(Sending) < PutSlots
    /\ IF ValidTicket(o, put[o].ticket)
       THEN /\ put' = [put EXCEPT ![o] = [@ EXCEPT !.pc = "sending", !.began = clock]]
            /\ UNCHANGED outcome
       ELSE Conclude(o, "failed")
    /\ UNCHANGED <<world, marker, bucket, late, job, attempt, faults>>

(* The bucket checks the ticket when the request arrives ... *)
Accept(o) ==
    /\ put[o].pc = "sending" /\ PutInTime(o)
    /\ clock <= put[o].ticket.expires
    /\ put' = [put EXCEPT ![o].pc = "accepted"]
    /\ UNCHANGED <<world, marker, bucket, late, job, attempt, outcome,
                   faults>>

Version(o) == [obj |-> o, body |-> offer[o], label |-> put[o].ticket.label]

Store(k, v) ==
    bucket' = [bucket EXCEPT ![k] = [label |-> v.label, all |-> @.all \cup {v}]]

(* ... and stores the body when all of it has come. *)
Land(o) ==
    /\ put[o].pc = "accepted" /\ PutInTime(o)
    /\ Store(put[o].ticket.key, Version(o))
    /\ put' = [put EXCEPT ![o].pc = "landed"]
    /\ UNCHANGED <<world, marker, late, job, attempt, outcome, faults>>

(* A 200 is the only success. *)
Confirm(o) ==
    /\ put[o].pc = "landed" /\ PutInTime(o)
    /\ Conclude(o, "shipped")
    /\ UNCHANGED <<world, marker, bucket, late, job, attempt, faults>>

(* classifyPut: a 403 or 400, because the ticket has expired or for any    *)
(* other reason, counts as an expiry if this machine's clock is past the   *)
(* ticket's.                                                               *)
PutRefused(o) ==
    /\ put[o].pc = "sending" /\ PutInTime(o)
    /\ IF clock > put[o].ticket.expires THEN UNCHANGED faults ELSE Fault
    /\ Conclude(o, IF clock + skew > put[o].ticket.expires
                   THEN "expired" ELSE "failed")
    /\ UNCHANGED <<world, marker, bucket, late, job, attempt>>

(* Until when o's bytes may still become a version without the client. *)
Lingers(o) == LET end == put[o].began + PutTimeout
              IN  IF put[o].pc = "sending" THEN Min({end, put[o].ticket.expires})
                  ELSE end

(* A variant without the whole-operation deadline. *)
GivesUpOnError(o) == PutInTime(o) /\ Fault

(* Any other answer, no answer, or the timeout. *)
GivesUp(o) == IF PutInTime(o) THEN Fault ELSE UNCHANGED faults

PutFails(o) ==
    /\ o \in Sending
    /\ GivesUp(o)
    /\ late' = IF put[o].pc = "landed" \/ clock > Lingers(o) THEN late
               ELSE late \cup {[key |-> put[o].ticket.key, version |-> Version(o),
                                until |-> Lingers(o)]}
    /\ Conclude(o, "failed")
    /\ UNCHANGED <<world, marker, bucket, job, attempt>>

(* They may land although the client gave up. *)
LateLands(x) ==
    /\ Store(x.key, x.version)
    /\ late' = late \ {x}
    /\ UNCHANGED <<world, marker, job, attempt, put, outcome, faults>>

Expired == {o \in ToSet(batch) : outcome[o] = "expired"}

(* The objects of s as a batch of their own, in the order they have.       *)
Renumbered(s) ==
    {b \in BoundedSeq(s, Len(batch)) :
       /\ ToSet(b) = s
       /\ \A i, j \in DOMAIN b : i < j =>
             \E k, l \in DOMAIN batch : k < l /\ batch[k] = b[i] /\ batch[l] = b[j]}

(* A variant that does not wait for its PUTs. *)
NoWait == TRUE

(* Every PUT of the round is over. *)
RoundOver == \A o \in ToSet(batch) : outcome[o] # "none"

(* authorizeAndUpload: expired tickets of collected files are authorized   *)
(* again, once, renumbered; whatever comes of that is final.               *)
EndRound ==
    /\ stage = "sending" /\ RoundOver
    /\ IF round = 1 /\ Expired # {} /\ ToSet(group) \subseteq Mirror
       THEN /\ round' = 2 /\ batch' \in Renumbered(Expired)
            /\ outcome' = [o \in Objects |-> IF o \in Expired
                                             THEN "none" ELSE outcome[o]]
            /\ stage' = "start"
       ELSE stage' = "idle" /\ UNCHANGED <<round, batch, outcome>>
    /\ UNCHANGED <<world, marker, bucket, late, group, offer, call, misled, put,
                   faults>>

-----------------------------------------------------------------------------
PutStep(o) == \/ Send(o) \/ Accept(o) \/ Land(o) \/ Confirm(o)
              \/ PutRefused(o) \/ PutFails(o)

Next ==
    \/ Tick \/ Revoke
    \/ \E g \in Groups : SendBatch(g)
    \/ Post \/ AuthorizeTimesOut \/ AuthorizeFails
    \/ Authenticate \/ Validate \/ Authorize \/ Misanswer
    \/ Receive \/ EndRound
    \/ \E o \in Objects : Probe(o) \/ PutStep(o)
    \/ \E x \in late : LateLands(x)

Spec == Init /\ [][Next]_vars

-----------------------------------------------------------------------------
(* Properties. *)

(* "an owner trusts the plane on WHERE, never on WHAT" (target.go):        *)
(* whatever the plane answers, and however objects are renumbered, bytes   *)
(* are only ever stored under their own key and with their own hashes.     *)
StoredUnderOwnKey ==
    \A k \in Objects : \A v \in bucket[k].all : v.obj = k /\ v.label = v.body

Stored(o) == \E v \in bucket[o].all : v.body = offer[o]

(* "a missed match costs one upload, a wrong match loses the object"       *)
(* (splitAlreadyStored): an object the port calls shipped is in the        *)
(* bucket, and so is one a truthful plane calls already present.           *)
SuccessMeansStored ==
    \A o \in Objects :
       /\ outcome[o] = "shipped" => Stored(o)
       /\ outcome[o] = "present" /\ ~misled => Stored(o)

(* "Never conflate them: a refusal kills the install" (stopsRun): no       *)
(* outage, timeout, clock error or wrong answer is ever taken for refused  *)
(* credentials.                                                            *)
RefusedMeansRevoked ==
    marker \/ (\E o \in Objects : outcome[o] = "refused") => status = "revoked"

(* What the port reports is so, whatever the clock, the network and the    *)
(* plane do: success means stored, a refusal means revoked.                *)
VerdictsAreTrue == TypeOK /\ SuccessMeansStored /\ RefusedMeansRevoked

(* Revocation is found out at the next call; tickets signed before it stay *)
(* good.  Nothing of a revoked install becomes a version later than one    *)
(* call, one ticket's life and one PUT after the revocation.               *)
RevokedGoesQuiet ==
    [][bucket' # bucket /\ status = "revoked" =>
          clock <= revokedAt + CallTimeout + Lifetime + PutTimeout]_vars

Reported(o) == CASE outcome[o] = "present" -> "shipped"
                 [] outcome[o] = "expired" -> "failed"
                 [] OTHER -> outcome[o]

(* The port keeps the contract SourcePass relies on: one verdict per       *)
(* object, refusals and outages for a whole authorization, and expired     *)
(* tickets authorized at most once more.                                   *)
KeepsContract ==
    stage = "idle" =>
       [o \in ToSet(group) |-> Reported(o)] \in GroupAnswers(ToSet(group))

(* The Go runtime runs every goroutine, the plane's handlers included, and *)
(* timers fire.  Nothing is assumed of the network: a call or a PUT that   *)
(* is not answered in time ends at its timeout.                            *)
Fairness ==
    /\ WF_vars(Post) /\ WF_vars(AuthorizeTimesOut)
    /\ WF_vars(Authenticate) /\ WF_vars(Validate)
    /\ WF_vars(\E o \in Objects : Probe(o)) /\ WF_vars(Authorize)
    /\ WF_vars(Receive) /\ WF_vars(EndRound)
    /\ \A o \in Objects : WF_vars(PutStep(o))

FairSpec == Spec /\ Fairness

(* Every group handed to the port comes to an end: no ticket, slot or      *)
(* second authorization is waited for forever.                             *)
GroupSettles == stage = "start" ~> stage = "idle"
=============================================================================
