---------------------------- MODULE FlushEngine ----------------------------
(***************************************************************************)
(* The engine's flush loop over one source, and the durable fingerprint    *)
(* store it resumes from (src/internal/engine): open the store under its   *)
(* lock, discover candidates, decide which changed, load, redact and seal, *)
(* upload, and only then commit a fingerprint through the commit buffer.   *)
(*                                                                         *)
(* Around the loop: programs write the files while it runs, a PUT can land *)
(* without its answer arriving, a document write can fail, the process can *)
(* crash between any two steps, and an operator can reset or prune the     *)
(* document while no run holds the lock.                                   *)
(*                                                                         *)
(* Which candidate is admitted when, and how groups, slots and the budget  *)
(* bound a pass, is SourcePass; here admission is free.                    *)
(***************************************************************************)
EXTENDS Naturals, FiniteSets

CONSTANTS
    Files,        \* the logical objects of the source (state keys)
    Contents,     \* what a file can hold
    Gone,         \* the file does not exist
    Follows,      \* pairs <<a, b>>: a file holding a may come to hold b
    Compare,      \* [Contents -> Contents]: what change detection hashes
    NoHash,       \* a fingerprint that no completed upload has filled in
    Gens,         \* generations of the source's spec (its redaction rules)
    NoGen,        \* the document records no generation for the source
    Scrub,        \* [Contents \X Gens -> Outputs]: the bytes that leave
    Outputs,
    NoObject,     \* the archive holds nothing under the key
    AlwaysLoad,   \* files that are read whatever their stat says
    Staging,      \* TRUE: the source feeds an enricher (recent files are read)
    CommitBatch,  \* commits buffered before the document is replaced
    LatePuts,     \* TRUE: a PUT given up on may land during a later run
    MaxStat,      \* bound: changes of one file
    MaxFaults     \* bound: crashes, failures and operator overrides in all

(* Assumptions on the constants. *)
ASSUME ContentAssumption ==
    /\ Gone \notin Contents
    /\ NoHash \notin Contents
    /\ Compare \in [Contents -> Contents]
    /\ Follows \subseteq (Contents \cup {Gone}) \X (Contents \cup {Gone})
ASSUME GenAssumption ==
    /\ NoGen \notin Gens
    /\ Scrub \in [Contents \X Gens -> Outputs]
ASSUME BoundAssumption ==
    /\ CommitBatch \in Nat \ {0}
    /\ MaxStat \in Nat
    /\ MaxFaults \in Nat
    /\ LatePuts \in BOOLEAN
    /\ Staging \in BOOLEAN
    /\ AlwaysLoad \subseteq Files

Objects == [src : Contents, out : Outputs]

ASSUME NoObjectAssumption == NoObject \notin Objects

VARIABLES
    file,      \* the file system: content and (size, mtime) stamp of each file
    archive,   \* the bucket: current version and every version per key
    late,      \* PUTs the client gave up on that may still land
    gen,       \* the spec generation of the plan in force
    doc,       \* the document on disk
    store,     \* the Store a run holds in memory
    pending,   \* the commit buffer
    phase,     \* where the run is
    cand,      \* discovery's snapshot: the stamp of each candidate
    stop,      \* why the pass admits nothing more
    job,       \* each candidate's progress through the pipeline
    faults     \* faults so far

vars == <<file, archive, late, gen, doc, store, pending, phase, cand,
          stop, job, faults>>

envVars == <<file, archive, late, gen>>
runVars == <<phase, cand, stop>>

-----------------------------------------------------------------------------
(* A Fingerprint.  The zero value stands for "no entry". *)
Fingerprints ==
    [seen : BOOLEAN, hash : Contents \cup {NoHash}, stat : Nat,
     parked : BOOLEAN]

NoEntry == [seen |-> FALSE, hash |-> NoHash, stat |-> 0, parked |-> FALSE]

Entries == [Files -> Fingerprints]
NoEntries == [f \in Files |-> NoEntry]

Documents == [spec : Gens \cup {NoGen}, entries : Entries]
EmptyDocument == [spec |-> NoGen, entries |-> NoEntries]

Statuses == {"queued", "admitted", "sealed", "sent", "landed",
             "unchanged", "decided"}

Uploading == {"sealed", "sent", "landed"}

Jobs == [pc : Statuses, fp : Fingerprints, content : Contents \cup {Gone}]
Queued == [pc |-> "queued", fp |-> NoEntry, content |-> Gone]

NotCandidate == MaxStat + 1

Candidates == {f \in Files : cand[f] # NotCandidate}

Sealed(c) == [src |-> c, out |-> Scrub[<<c, gen>>]]

TypeOK ==
    /\ file \in [Files -> [content : Contents \cup {Gone}, stat : 0..MaxStat]]
    /\ archive \in [Files -> [current : Objects \cup {NoObject},
                              versions : SUBSET Objects]]
    /\ late \subseteq Files \X Objects
    /\ gen \in Gens
    /\ doc \in Documents
    /\ store \in Documents
    /\ pending \in Entries
    /\ phase \in {"idle", "open", "pass", "vanish", "forget", "final"}
    /\ cand \in [Files -> 0..(MaxStat + 1)]
    /\ stop \in {"no", "cancelled", "halted"}
    /\ job \in [Files -> Jobs]
    /\ \A f \in Files : job[f].pc \in Uploading => job[f].content \in Contents
    /\ faults \in 0..MaxFaults

Init ==
    /\ file \in [Files -> [content : Contents \cup {Gone}, stat : {0}]]
    /\ archive = [f \in Files |-> [current |-> NoObject, versions |-> {}]]
    /\ late = {}
    /\ gen \in Gens
    /\ doc = EmptyDocument
    /\ store = EmptyDocument
    /\ pending = NoEntries
    /\ phase = "idle"
    /\ cand = [f \in Files |-> NotCandidate]
    /\ stop = "no"
    /\ job = [f \in Files |-> Queued]
    /\ faults = 0

(* Something goes wrong, or an operator steps in. *)
Fault == faults < MaxFaults /\ faults' = faults + 1

-----------------------------------------------------------------------------
(* The environment. *)

(* Another program writes, touches or removes the file: the stamp moves. *)
ChangeFile(f, c) ==
    /\ <<file[f].content, c>> \in Follows
    /\ file[f].stat < MaxStat
    /\ file' = [file EXCEPT ![f] = [content |-> c, stat |-> @.stat + 1]]
    /\ UNCHANGED <<archive, late, gen, doc, store, pending, runVars, job,
                   faults>>

(* The served configuration moves the source to another spec generation;   *)
(* a run keeps the plan it started with.                                   *)
ChangeSpec(g) ==
    /\ phase = "idle"
    /\ g # gen
    /\ Fault
    /\ gen' = g
    /\ UNCHANGED <<file, archive, late, doc, store, pending, runVars, job>>

(* The bucket takes a PUT: the newest write is current, earlier versions   *)
(* remain.                                                                 *)
Put(f, o) ==
    archive' = [archive EXCEPT ![f] = [current |-> o,
                                       versions |-> @.versions \cup {o}]]

LatePutLands(f, o) ==
    /\ <<f, o>> \in late
    /\ Put(f, o)
    /\ late' = late \ {<<f, o>>}
    /\ UNCHANGED <<file, gen, doc, store, pending, runVars, job, faults>>

LatePutIsLost(f, o) ==
    /\ <<f, o>> \in late
    /\ late' = late \ {<<f, o>>}
    /\ UNCHANGED <<file, archive, gen, doc, store, pending, runVars, job,
                   faults>>

-----------------------------------------------------------------------------
(* The store and the commit buffer. *)

(* Store.flush through WriteAtomic: the rename happens or it does not. *)
WriteDocument(d) ==
    \/ doc' = d /\ UNCHANGED faults
    \/ Fault /\ UNCHANGED doc

(* commitBuffer.Get reads through the buffer. *)
Get(f) == IF pending[f].seen THEN pending[f] ELSE store.entries[f]

Merged(p) == [store EXCEPT !.entries =
                 [f \in Files |-> IF p[f].seen THEN p[f] ELSE @[f]]]

(* commitBuffer.Flush of the buffer p: the merge reaches memory whether or *)
(* not the document is replaced; a failed write keeps the buffer.          *)
FlushBuffer(p) ==
    IF p = NoEntries
    THEN UNCHANGED <<doc, store, faults>> /\ pending' = p
    ELSE /\ store' = Merged(p)
         /\ \/ doc' = Merged(p) /\ pending' = NoEntries /\ UNCHANGED faults
            \/ Fault /\ pending' = p /\ UNCHANGED doc

Full(p) == Cardinality({f \in Files : p[f].seen}) >= CommitBatch

(* commitBuffer.Commit *)
Commit(f, fp) ==
    LET p == [pending EXCEPT ![f] = fp]
    IN  IF Full(p)
        THEN FlushBuffer(p)
        ELSE pending' = p /\ UNCHANGED <<doc, store, faults>>

-----------------------------------------------------------------------------
(* The run. *)

(* Flush opens the store: the lock is free, and a document that cannot be  *)
(* loaded or belongs to another install is discarded.                      *)
OpenStore ==
    /\ phase = "idle"
    /\ LatePuts \/ late = {}
    /\ phase' = "open"
    /\ \/ store' = doc /\ UNCHANGED faults
       \/ Fault /\ store' = EmptyDocument
    /\ UNCHANGED <<envVars, doc, pending, cand, stop, job>>

(* A variant that keeps the entries of another generation. *)
EnsuredSpecKept == [spec |-> gen, entries |-> store.entries]

(* Store.EnsureSpec: entries of another generation are dropped; entries of *)
(* no known generation adopt this one.                                     *)
EnsuredSpec ==
    [spec |-> gen,
     entries |-> IF store.spec = NoGen \/ store.spec = gen
                 THEN store.entries
                 ELSE NoEntries]

(* Discover, then EnsureSpec.  The walk stamps every file it sees.  A      *)
(* subtree it cannot look at, or a file over the size cap, is hidden; the  *)
(* source still counts as Collected whenever anything matched.             *)
Discover(hidden) ==
    LET found == {f \in Files : file[f].content # Gone} \ hidden
    IN  /\ phase = "open"
        /\ hidden # {} => faults < MaxFaults
        /\ \A f \in hidden : file[f].content # Gone
        /\ cand' = [f \in Files |-> IF f \in found THEN file[f].stat
                                                   ELSE NotCandidate]
        /\ store' = EnsuredSpec
        /\ \/ /\ doc' = IF store.spec = gen THEN doc ELSE EnsuredSpec
              /\ phase' = "pass"
              /\ faults' = IF hidden = {} THEN faults ELSE faults + 1
           \/ store.spec # gen /\ Fault /\ phase' = "final" /\ UNCHANGED doc
        /\ UNCHANGED <<envVars, pending, stop, job>>

(* Discovery reports an error: the source is skipped. *)
DiscoverFails ==
    /\ phase = "open"
    /\ Fault
    /\ phase' = "final"
    /\ UNCHANGED <<envVars, doc, store, pending, cand, stop, job>>

(* canAdmit and the loop's read of the fingerprint. *)
Admit(f) ==
    /\ phase = "pass"
    /\ stop = "no"
    /\ f \in Candidates
    /\ job[f].pc = "queued"
    /\ job' = [job EXCEPT ![f] = [pc |-> "admitted", fp |-> Get(f),
                                  content |-> Gone]]
    /\ UNCHANGED <<envVars, doc, store, pending, runVars, faults>>

(* The drain deadline or a signal: nothing more is admitted. *)
Cancel ==
    /\ phase = "pass"
    /\ stop = "no"
    /\ Fault
    /\ stop' = "cancelled"
    /\ UNCHANGED <<envVars, doc, store, pending, phase, cand, job>>

-----------------------------------------------------------------------------
(* prepareFile: one action per way out of it.  A result that wants no      *)
(* upload is settled by the loop in the same step.                         *)

InState(f, pc) == phase = "pass" /\ job[f].pc = pc

Finished == {"unchanged", "decided"}

Decide(f, pc) ==
    job' = [job EXCEPT ![f] = [pc |-> pc, fp |-> NoEntry, content |-> Gone]]

(* A variant that trusts any completed upload, whatever the stat. *)
UnchangedOnceShipped(f) == job[f].fp.seen /\ job[f].fp.hash # NoHash

(* unchangedByStat, for a file outside the enricher's recompute window whose *)
(* key is its path: the path that the record names is then always its own.   *)
UnchangedByStat(f) ==
    /\ job[f].fp.seen
    /\ job[f].fp.stat = cand[f]
    /\ job[f].fp.hash # NoHash

(* A parked file waits out its backoff. *)
SkipParked(f) ==
    /\ InState(f, "admitted")
    /\ job[f].fp.parked
    /\ Decide(f, "decided")
    /\ UNCHANGED <<envVars, doc, store, pending, runVars, faults>>

(* Size and mtime unchanged: the file is not opened. *)
SkipUnchanged(f) ==
    /\ InState(f, "admitted")
    /\ f \notin AlwaysLoad
    /\ UnchangedByStat(f)
    /\ Decide(f, "unchanged")
    /\ UNCHANGED <<envVars, doc, store, pending, runVars, faults>>

(* The file is opened: its stat moved, or it is always read, or an         *)
(* enricher wants it because its mtime is recent.                          *)
Opens(f) ==
    /\ InState(f, "admitted")
    /\ f \in AlwaysLoad \/ Staging \/ ~UnchangedByStat(f)

(* The load or the redaction fails: the file is parked, what is known of   *)
(* it is kept; the path written beside it is the one it had.               *)
FailAndBackOff(f) ==
    /\ Opens(f)
    /\ Commit(f, [job[f].fp EXCEPT !.seen = TRUE, !.parked = TRUE])
    /\ Decide(f, "decided")
    /\ UNCHANGED <<envVars, runVars>>

(* The content hash is the authority: the stamp is refreshed and whatever  *)
(* parked the entry is over.                                               *)
Refresh(f) ==
    /\ Opens(f)
    /\ file[f].content # Gone
    /\ job[f].fp.seen
    /\ Compare[file[f].content] = job[f].fp.hash
    /\ Commit(f, [seen |-> TRUE, hash |-> job[f].fp.hash, stat |-> cand[f],
                  parked |-> FALSE])
    /\ Decide(f, "unchanged")
    /\ UNCHANGED <<envVars, runVars>>

(* A variant that ignores the error of a read. *)
SealUnread(f) ==
    /\ Opens(f)
    /\ ~(job[f].fp.seen /\ Compare[file[f].content] = job[f].fp.hash)
    /\ job' = [job EXCEPT ![f] = [pc |-> "sealed", fp |-> job[f].fp,
                                  content |-> file[f].content]]
    /\ UNCHANGED <<envVars, doc, store, pending, runVars, faults>>

(* Changed content is redacted and sealed for upload. *)
Seal(f) ==
    /\ Opens(f)
    /\ file[f].content # Gone
    /\ ~(job[f].fp.seen /\ Compare[file[f].content] = job[f].fp.hash)
    /\ job' = [job EXCEPT ![f] = [pc |-> "sealed", fp |-> job[f].fp,
                                  content |-> file[f].content]]
    /\ UNCHANGED <<envVars, doc, store, pending, runVars, faults>>

-----------------------------------------------------------------------------
(* The upload of one sealed object. *)

(* A variant that stamps the file as it is when the upload is over. *)
ShippedStatNow(f) == [seen |-> TRUE, hash |-> Compare[job[f].content],
                      stat |-> file[f].stat, parked |-> FALSE]

(* What a confirmed upload commits: the stamp discovery saw and the digest *)
(* of what was read.                                                       *)
Shipped(f) == [seen |-> TRUE, hash |-> Compare[job[f].content],
               stat |-> cand[f], parked |-> FALSE]

(* The plane answers already_present: the stored object has this source    *)
(* hash and this shipped hash.                                             *)
AlreadyPresent(f) ==
    /\ InState(f, "sealed")
    /\ stop # "halted"
    /\ archive[f].current = Sealed(job[f].content)
    /\ Commit(f, Shipped(f))
    /\ Decide(f, "decided")
    /\ UNCHANGED <<envVars, runVars>>

(* A variant that commits when the PUT is sent. *)
SendAndCommit(f) ==
    /\ InState(f, "sealed")
    /\ stop # "halted"
    /\ Commit(f, Shipped(f))
    /\ job' = [job EXCEPT ![f].pc = "sent"]
    /\ UNCHANGED <<envVars, runVars>>

(* A ticket was vended and the PUT is on the wire. *)
Send(f) ==
    /\ InState(f, "sealed")
    /\ stop # "halted"
    /\ job' = [job EXCEPT ![f].pc = "sent"]
    /\ UNCHANGED <<envVars, doc, store, pending, runVars, faults>>

Land(f) ==
    /\ InState(f, "sent")
    /\ Put(f, Sealed(job[f].content))
    /\ job' = [job EXCEPT ![f].pc = "landed"]
    /\ UNCHANGED <<file, late, gen, doc, store, pending, runVars, faults>>

(* 200: applyUploadOutcome turns it into the only durable intent. *)
Confirm(f) ==
    /\ InState(f, "landed")
    /\ Commit(f, Shipped(f))
    /\ Decide(f, "decided")
    /\ UNCHANGED <<envVars, runVars>>

(* A variant that takes a PUT without an answer for a stored one. *)
UploadFailsCommitted(f) ==
    /\ phase = "pass"
    /\ job[f].pc \in {"sent", "landed"}
    /\ Commit(f, Shipped(f))
    /\ Decide(f, "decided")
    /\ UNCHANGED <<envVars, runVars>>

(* This object fails: authorization left it out, or the PUT was answered   *)
(* with an error, timed out or lost its answer.  Nothing is committed.  A  *)
(* key or sealing error in prepareFile ends the same way.                  *)
UploadFails(f) ==
    /\ phase = "pass"
    /\ job[f].pc \in {"sealed", "sent", "landed"}
    /\ Fault
    /\ late' = IF job[f].pc = "sent"
               THEN late \cup {<<f, Sealed(job[f].content)>>} ELSE late
    /\ Decide(f, "decided")
    /\ UNCHANGED <<file, archive, gen, doc, store, pending, runVars>>

(* The authorization is refused or unavailable: the latch stops the run.   *)
Halt(f) ==
    /\ InState(f, "sealed")
    /\ stop # "halted"
    /\ Fault
    /\ stop' = "halted"
    /\ Decide(f, "decided")
    /\ UNCHANGED <<envVars, doc, store, pending, phase, cand>>

(* abandon: a sealed object the latched pass will not send. *)
Abandon(f) ==
    /\ InState(f, "sealed")
    /\ stop = "halted"
    /\ Decide(f, "decided")
    /\ UNCHANGED <<envVars, doc, store, pending, runVars, faults>>

-----------------------------------------------------------------------------
(* The end of the source and of the run. *)

(* Nothing is in flight.  A stopped pass returns its error; otherwise the  *)
(* GC runs only if discovery returned candidates and none was left over.   *)
EndPass ==
    /\ phase = "pass"
    /\ \A f \in Files : job[f].pc \in Finished \cup {"queued"}
    /\ phase' = IF /\ stop = "no"
                   /\ Candidates # {}
                   /\ \A f \in Candidates : job[f].pc \in Finished
                THEN "vanish" ELSE "final"
    /\ UNCHANGED <<envVars, doc, store, pending, cand, stop, job, faults>>

(* commitBuffer.DropVanished flushes first ... *)
FlushBeforeDrop ==
    /\ phase = "vanish"
    /\ FlushBuffer(pending)
    /\ phase' = IF pending' = NoEntries THEN "forget" ELSE "final"
    /\ UNCHANGED <<envVars, cand, stop, job>>

Live == [store EXCEPT !.entries =
            [f \in Files |-> IF f \in Candidates THEN @[f] ELSE NoEntry]]

(* ... then Store.DropVanished forgets what discovery did not see. *)
DropVanished ==
    /\ phase = "forget"
    /\ phase' = "final"
    /\ store' = Live
    /\ IF Live = store THEN UNCHANGED <<doc, faults>> ELSE WriteDocument(Live)
    /\ UNCHANGED <<envVars, pending, cand, stop, job>>

(* The deferred Flush and Close: the lock is released and memory is gone.  *)
(* A failed flush loses what was buffered.                                 *)
CloseStore ==
    /\ phase = "final"
    /\ IF pending = NoEntries THEN UNCHANGED <<doc, faults>>
                              ELSE WriteDocument(Merged(pending))
    /\ phase' = "idle"
    /\ store' = EmptyDocument
    /\ pending' = NoEntries
    /\ cand' = [f \in Files |-> NotCandidate]
    /\ stop' = "no"
    /\ job' = [f \in Files |-> Queued]
    /\ UNCHANGED envVars

(* The process dies: the document stays, PUTs on the wire may still land.  *)
Crash ==
    /\ phase # "idle"
    /\ Fault
    /\ late' = late \cup {<<f, Sealed(job[f].content)>> :
                             f \in {g \in Files : job[g].pc = "sent"}}
    /\ phase' = "idle"
    /\ store' = EmptyDocument
    /\ pending' = NoEntries
    /\ cand' = [f \in Files |-> NotCandidate]
    /\ stop' = "no"
    /\ job' = [f \in Files |-> Queued]
    /\ UNCHANGED <<file, archive, gen, doc>>

-----------------------------------------------------------------------------
(* Operator overrides, under the same lock (editStore). *)

(* state reset: every fingerprint is forgotten, the generation is kept.    *)
Reset ==
    /\ phase = "idle"
    /\ doc.entries # NoEntries
    /\ Fault
    /\ doc' = [doc EXCEPT !.entries = NoEntries]
    /\ UNCHANGED <<envVars, store, pending, runVars, job>>

(* state prune: entries whose file is gone are forgotten. *)
Prune ==
    /\ phase = "idle"
    /\ \E f \in Files : doc.entries[f].seen /\ file[f].content = Gone
    /\ Fault
    /\ doc' = [doc EXCEPT !.entries =
                  [f \in Files |-> IF file[f].content = Gone THEN NoEntry
                                                             ELSE @[f]]]
    /\ UNCHANGED <<envVars, store, pending, runVars, job>>

-----------------------------------------------------------------------------
FileStep(f) ==
    \/ Admit(f) \/ SkipParked(f) \/ SkipUnchanged(f) \/ FailAndBackOff(f)
    \/ Refresh(f) \/ Seal(f) \/ AlreadyPresent(f) \/ Send(f) \/ Land(f)
    \/ Confirm(f) \/ UploadFails(f) \/ Halt(f) \/ Abandon(f)

Next ==
    \/ \E f \in Files, c \in Contents \cup {Gone} : ChangeFile(f, c)
    \/ \E g \in Gens : ChangeSpec(g)
    \/ \E f \in Files, o \in Objects : LatePutLands(f, o)
    \/ \E f \in Files, o \in Objects : LatePutIsLost(f, o)
    \/ OpenStore
    \/ \E hidden \in SUBSET Files : Discover(hidden)
    \/ \E f \in Files : FileStep(f)
    \/ DiscoverFails \/ Cancel \/ EndPass \/ FlushBeforeDrop \/ DropVanished
    \/ CloseStore \/ Crash
    \/ Reset \/ Prune

Spec == Init /\ [][Next]_vars

-----------------------------------------------------------------------------
(* Properties. *)

(* The archive has, under f's key, content with digest h redacted by the   *)
(* rules of generation g.                                                  *)
Holds(f, h, g) ==
    \E o \in archive[f].versions :
       Compare[o.src] = h /\ o.out = Scrub[<<o.src, g>>]

(* CONSTITUTION.md, Article 7: the durable record is committed only after  *)
(* the destination confirmed the write.  Whatever crashes, failed writes,  *)
(* lost answers and spec changes happen, a fingerprint on disk with a      *)
(* source hash means a version with that content, redacted under the       *)
(* generation the document names, is in the bucket.                        *)
RecordedWasStored ==
    \A f \in Files :
       doc.entries[f].hash # NoHash =>
          doc.spec # NoGen /\ Holds(f, doc.entries[f].hash, doc.spec)

(* The size-and-mtime pre-filter never hides a change: a file the next run *)
(* would leave unopened, because its stat equals the committed one, has    *)
(* its present content in the bucket, even when it was rewritten between   *)
(* the discovery stat and the load.                                        *)
UnopenedIsArchived ==
    \A f \in Files :
       (/\ file[f].content # Gone
        /\ doc.entries[f].hash # NoHash
        /\ doc.entries[f].stat = file[f].stat)
       => Holds(f, Compare[file[f].content], doc.spec)

(* "a crash before the replace re-runs those files onto their existing     *)
(* keys" (state.go): once the record calls a file settled, the CURRENT     *)
(* version under its key is that content.                                  *)
SettledIsCurrent ==
    \A f \in Files :
       (/\ file[f].content # Gone
        /\ doc.entries[f].hash # NoHash
        /\ doc.entries[f].stat = file[f].stat)
       => /\ archive[f].current # NoObject
          /\ Compare[archive[f].current.src] = doc.entries[f].hash

(* The GC forgets a fingerprint only of a file that is gone ("proves       *)
(* absence: err on kept-too-long", state.go).                              *)
ForgetOnlyVanished ==
    [][\A f \in Files :
          (phase = "forget" /\ phase' = "final"
             /\ store.entries[f].seen /\ ~store'.entries[f].seen)
          => file[f].content = Gone]_vars

(* A file the run decided is unchanged is not left recorded as parked      *)
(* ("Carrying the flag forward reports a healthy file as parked for good", *)
(* file.go).                                                               *)
UnchangedIsNotParked ==
    \A f \in Files :
       phase = "pass" /\ job[f].pc = "unchanged" => ~Get(f).parked

-----------------------------------------------------------------------------
(* The inductive invariant behind RecordedWasStored and UnopenedIsArchived.*)

(* Every fingerprint anywhere - on disk, in memory, in the buffer, in a    *)
(* worker's hands - that names a hash names a stored version.              *)
Backed(f, fp, g) == fp.hash # NoHash => g # NoGen /\ Holds(f, fp.hash, g)

(* A stamp equal to the file's present one vouches for its content.        *)
Stamped(f, fp) ==
    /\ fp.stat <= file[f].stat
    /\ (fp.hash # NoHash /\ fp.stat = file[f].stat /\ file[f].content # Gone)
       => fp.hash = Compare[file[f].content]

FingerprintInv ==
    \A f \in Files :
       /\ Backed(f, doc.entries[f], doc.spec)
       /\ Backed(f, store.entries[f], store.spec)
       /\ Backed(f, pending[f], store.spec)
       /\ Backed(f, job[f].fp, store.spec)

StampInv ==
    \A f \in Files :
       /\ Stamped(f, doc.entries[f])
       /\ Stamped(f, store.entries[f])
       /\ Stamped(f, pending[f])
       /\ Stamped(f, job[f].fp)
       /\ f \in Candidates => cand[f] <= file[f].stat

(* Work in flight belongs to a pass run under the plan's generation; what  *)
(* was loaded is at least as new as the stamp discovery took.              *)
JobInv ==
    /\ phase \in {"pass", "vanish", "forget"} => store.spec = gen
    /\ phase \in {"idle", "open"} => pending = NoEntries
    /\ \A f \in Files :
          /\ job[f].pc \in Uploading \cup {"admitted"} =>
                phase = "pass" /\ f \in Candidates
          /\ job[f].pc \in Uploading /\ cand[f] = file[f].stat =>
                job[f].content = file[f].content
          /\ job[f].pc = "landed" =>
                Sealed(job[f].content) \in archive[f].versions
          /\ phase \in {"idle", "open"} => job[f] = Queued

ArchiveInv ==
    \A f \in Files : archive[f].current \in archive[f].versions \cup {NoObject}

IInv == TypeOK /\ ArchiveInv /\ JobInv /\ FingerprintInv /\ StampInv

-----------------------------------------------------------------------------
(* The engine implements Article 7's promise: the record is the document   *)
(* on disk, and what is shipped is what the bucket's versions amount to.   *)
Claims == [digest : Contents, gen : Gens]
NoClaim == [digest |-> NoHash, gen |-> NoGen]

ShippedClaims == [f \in Files |->
                    {r \in Claims : Holds(f, r.digest, r.gen)}]

RecordedClaims ==
    [f \in Files |-> IF doc.entries[f].hash = NoHash
                     THEN NoClaim
                     ELSE [digest |-> doc.entries[f].hash, gen |-> doc.spec]]

Promise == INSTANCE UploadRecord
              WITH shipped <- ShippedClaims, recorded <- RecordedClaims

(* Every step of the engine is a step of UploadRecord or a stutter: the    *)
(* record comes to assert only what was in the bucket before the step.     *)
KeepsPromise == Promise!Spec

-----------------------------------------------------------------------------
(* Liveness.  The daemon ticks for ever and goroutines make progress (weak *)
(* fairness); a backoff runs out and a readable file is sometimes read,    *)
(* and the budget is not for ever used up by older files, so a candidate   *)
(* that keeps being discovered is sometimes admitted (strong fairness; see *)
(* SourcePass for when that last assumption fails).  The bounded faults    *)
(* stand for "faults cease".                                               *)
Fairness ==
    /\ WF_vars(OpenStore) /\ WF_vars(\E h \in SUBSET Files : Discover(h))
    /\ WF_vars(EndPass) /\ WF_vars(FlushBeforeDrop)
    /\ WF_vars(DropVanished) /\ WF_vars(CloseStore)
    /\ WF_vars(\E f \in Files, o \in Objects : LatePutIsLost(f, o))
    /\ \A f \in Files :
          /\ SF_vars(Admit(f))
          /\ SF_vars(SkipUnchanged(f) \/ Refresh(f) \/ Seal(f))
          /\ WF_vars(InState(f, "admitted") /\ FileStep(f))
          /\ WF_vars(Send(f) \/ AlreadyPresent(f) \/ Abandon(f))
          /\ WF_vars(Land(f)) /\ WF_vars(Confirm(f))

FairSpec == Spec /\ Fairness

(* The record says f's present content is archived under the plan's rules. *)
Settled(f) ==
    /\ doc.entries[f].hash = Compare[file[f].content]
    /\ doc.spec = gen
    /\ Holds(f, doc.entries[f].hash, gen)

(* No file is lost: one that exists is, again and again, archived with its *)
(* present content and recorded so, whatever was interrupted before.       *)
EventuallyShipped ==
    \A f \in Files : []<>(file[f].content = Gone \/ Settled(f))
=============================================================================
