------------------------- MODULE FlushEngineProofs -------------------------
(***************************************************************************)
(* Proofs about FlushEngine, for any files, contents, generations and      *)
(* bounds.                                                                 *)
(***************************************************************************)
EXTENDS FlushEngine, TLAPS

(* The empty fingerprint and the empty table are of their types. *)
LEMMA NoEntryType == NoEntry \in Fingerprints /\ NoEntries \in Entries
                     /\ EmptyDocument \in Documents /\ Queued \in Jobs
BY DEF NoEntry, Fingerprints, NoEntries, Entries, EmptyDocument, Documents,
       Queued, Jobs, Statuses

(* Sealing a loaded content gives a well-formed object. *)
LEMMA SealedType ==
    ASSUME TypeOK, NEW c \in Contents
    PROVE  Sealed(c) \in Objects
<1>1. <<c, gen>> \in Contents \X Gens
  BY DEF TypeOK
<1>2. Scrub[<<c, gen>>] \in Outputs
  BY <1>1, GenAssumption
<1> QED
  BY <1>2 DEF Sealed, Objects

(* Merging a well-formed buffer gives a well-formed document. *)
LEMMA MergedType ==
    ASSUME TypeOK, NEW p \in Entries
    PROVE  Merged(p) \in Documents
BY DEF TypeOK, Documents, Entries, Merged

(* A fault keeps the count within its bound. *)
LEMMA FaultType ==
    ASSUME TypeOK, Fault
    PROVE  faults' \in 0..MaxFaults
BY BoundAssumption DEF TypeOK, Fault

(* What a flush of the buffer leaves behind. *)
LEMMA FlushBufferType ==
    ASSUME TypeOK, NEW p \in Entries, FlushBuffer(p)
    PROVE  /\ doc' \in Documents
           /\ store' \in Documents
           /\ pending' \in Entries
           /\ faults' \in 0..MaxFaults
<1>1. CASE p = NoEntries
  BY <1>1 DEF FlushBuffer, TypeOK
<1>2. CASE p # NoEntries
  <2>1. Merged(p) \in Documents
    BY MergedType
  <2>2. doc \in Documents /\ faults \in 0..MaxFaults
    BY DEF TypeOK
  <2>3. faults' \in 0..MaxFaults
    BY <1>2, <2>2, FaultType DEF FlushBuffer
  <2> QED
    BY <1>2, <2>1, <2>2, <2>3, NoEntryType DEF FlushBuffer
<1> QED
  BY <1>1, <1>2

(* A commit keeps the document, the store and the buffer typed. *)
LEMMA CommitType ==
    ASSUME TypeOK, NEW f \in Files, NEW fp \in Fingerprints, Commit(f, fp)
    PROVE  /\ doc' \in Documents
           /\ store' \in Documents
           /\ pending' \in Entries
           /\ faults' \in 0..MaxFaults
<1> DEFINE p == [pending EXCEPT ![f] = fp]
<1>1. p \in Entries
  BY DEF TypeOK, Entries
<1>2. CASE Full(p)
  <2>1. FlushBuffer(p)
    BY <1>2 DEF Commit
  <2> QED
    BY <1>1, <2>1, FlushBufferType
<1>3. CASE ~Full(p)
  <2>1. pending' = p /\ UNCHANGED <<doc, store, faults>>
    BY <1>3 DEF Commit
  <2> QED
    BY <1>1, <2>1 DEF TypeOK
<1> QED
  BY <1>2, <1>3

(* A decided file holds no work. *)
LEMMA DecideType ==
    ASSUME TypeOK, NEW f \in Files, NEW pc \in Finished, Decide(f, pc)
    PROVE  /\ job' \in [Files -> Jobs]
           /\ \A g \in Files :
                 job'[g].pc \in Uploading => job'[g].content \in Contents
<1> DEFINE done == [pc |-> pc, fp |-> NoEntry, content |-> Gone]
<1>1. done \in Jobs
  BY NoEntryType DEF Jobs, Finished, Statuses
<1>2. done.pc \notin Uploading
  BY DEF Finished, Uploading
<1> QED
  BY <1>1, <1>2 DEF TypeOK, Decide

(***************************************************************************)
(* Type correctness.                                                       *)
(***************************************************************************)
LEMMA TypeInit == Init => TypeOK
<1> SUFFICES ASSUME Init PROVE TypeOK
  OBVIOUS
<1>1. \A f \in Files : job[f].pc \notin Uploading
  BY DEF Init, Queued, Uploading
<1>2. cand \in [Files -> 0..(MaxStat + 1)]
  BY BoundAssumption DEF Init, NotCandidate
<1>3. file \in [Files -> [content : Contents \cup {Gone}, stat : 0..MaxStat]]
  BY BoundAssumption DEF Init
<1>4. faults \in 0..MaxFaults
  BY BoundAssumption DEF Init
<1> QED
  BY <1>1, <1>2, <1>3, <1>4, NoEntryType DEF Init, TypeOK

(* Every step keeps the types. *)
LEMMA TypeStep == TypeOK /\ [Next]_vars => TypeOK'
<1> SUFFICES ASSUME TypeOK, [Next]_vars PROVE TypeOK'
  OBVIOUS
<1> USE DEF envVars, runVars
<1>1. CASE UNCHANGED vars
  BY <1>1 DEF TypeOK, vars
<1>2. ASSUME NEW f \in Files, NEW c \in Contents \cup {Gone}, ChangeFile(f, c)
      PROVE  TypeOK'
  <2>1. [content |-> c, stat |-> file[f].stat + 1]
          \in [content : Contents \cup {Gone}, stat : 0..MaxStat]
    BY <1>2, BoundAssumption DEF ChangeFile, TypeOK
  <2> QED
    BY <1>2, <2>1 DEF ChangeFile, TypeOK
<1>3. ASSUME NEW g \in Gens, ChangeSpec(g)
      PROVE  TypeOK'
  BY <1>3, FaultType DEF ChangeSpec, TypeOK
<1>4. ASSUME NEW f \in Files, NEW o \in Objects, LatePutLands(f, o)
      PROVE  TypeOK'
  BY <1>4 DEF LatePutLands, Put, TypeOK
<1>5. ASSUME NEW f \in Files, NEW o \in Objects, LatePutIsLost(f, o)
      PROVE  TypeOK'
  BY <1>5 DEF LatePutIsLost, TypeOK
<1>6. CASE OpenStore
  BY <1>6, FaultType, NoEntryType DEF OpenStore, TypeOK
<1>7. ASSUME NEW hidden \in SUBSET Files, Discover(hidden)
      PROVE  TypeOK'
  <2>1. EnsuredSpec \in Documents
    BY NoEntryType DEF EnsuredSpec, TypeOK, Documents
  <2>2. faults' \in 0..MaxFaults
    BY <1>7, FaultType, BoundAssumption DEF Discover, TypeOK
  <2>3. cand' \in [Files -> 0..(MaxStat + 1)]
    BY <1>7, BoundAssumption DEF Discover, TypeOK, NotCandidate
  <2>4. phase' \in {"pass", "final"}
    BY <1>7 DEF Discover
  <2>5. doc' \in Documents
    BY <1>7, <2>1 DEF Discover, TypeOK
  <2> QED
    BY <1>7, <2>1, <2>2, <2>3, <2>4, <2>5 DEF Discover, TypeOK
<1>8. CASE DiscoverFails
  BY <1>8, FaultType DEF DiscoverFails, TypeOK
<1>9. CASE Cancel
  BY <1>9, FaultType DEF Cancel, TypeOK
<1>10. CASE EndPass
  BY <1>10 DEF EndPass, TypeOK
<1>11. CASE FlushBeforeDrop
  <2>1. /\ doc' \in Documents
        /\ store' \in Documents
        /\ pending' \in Entries
        /\ faults' \in 0..MaxFaults
    BY <1>11, FlushBufferType DEF FlushBeforeDrop, TypeOK
  <2> QED
    BY <1>11, <2>1 DEF FlushBeforeDrop, TypeOK
<1>12. CASE DropVanished
  <2>1. Live \in Documents
    BY NoEntryType DEF Live, TypeOK, Documents, Entries
  <2> QED
    BY <1>12, <2>1, FaultType DEF DropVanished, WriteDocument, TypeOK
<1>13. CASE CloseStore
  <2>1. Merged(pending) \in Documents
    BY MergedType DEF TypeOK
  <2>2. doc' \in Documents /\ faults' \in 0..MaxFaults
    BY <1>13, <2>1, FaultType DEF CloseStore, WriteDocument, TypeOK
  <2>3. cand' \in [Files -> 0..(MaxStat + 1)]
    BY <1>13, BoundAssumption DEF CloseStore, NotCandidate
  <2>4. \A f \in Files : job'[f].pc \notin Uploading
    BY <1>13 DEF CloseStore, Queued, Uploading
  <2> QED
    BY <1>13, <2>2, <2>3, <2>4, NoEntryType DEF CloseStore, TypeOK
<1>14. CASE Crash
  <2>1. late' \subseteq Files \X Objects
    <3>1. \A f \in Files : job[f].pc = "sent" =>
             Sealed(job[f].content) \in Objects
      BY SealedType DEF TypeOK, Uploading
    <3> QED
      BY <1>14, <3>1 DEF Crash, TypeOK
  <2>2. faults' \in 0..MaxFaults
    BY <1>14, FaultType DEF Crash
  <2>3. cand' \in [Files -> 0..(MaxStat + 1)]
    BY <1>14, BoundAssumption DEF Crash, NotCandidate
  <2>4. \A f \in Files : job'[f].pc \notin Uploading
    BY <1>14 DEF Crash, Queued, Uploading
  <2> QED
    BY <1>14, <2>1, <2>2, <2>3, <2>4, NoEntryType DEF Crash, TypeOK
<1>15. CASE Reset
  <2>1. doc' \in Documents
    BY <1>15, NoEntryType DEF Reset, TypeOK, Documents
  <2> QED
    BY <1>15, <2>1, FaultType DEF Reset, TypeOK
<1>16. CASE Prune
  <2>1. doc' \in Documents
    BY <1>16, NoEntryType DEF Prune, TypeOK, Documents, Entries
  <2> QED
    BY <1>16, <2>1, FaultType DEF Prune, TypeOK
<1>17. ASSUME NEW f \in Files, FileStep(f)
       PROVE  TypeOK'
  <2>1. CASE Admit(f)
    <3>1. Get(f) \in Fingerprints
      BY DEF Get, TypeOK, Documents, Entries
    <3>2. [pc |-> "admitted", fp |-> Get(f), content |-> Gone] \in Jobs
      BY <3>1 DEF Jobs, Statuses
    <3>3. job' \in [Files -> Jobs]
      BY <2>1, <3>2 DEF Admit, TypeOK
    <3>4. \A g \in Files : job'[g].pc \in Uploading => job'[g].content \in Contents
      BY <2>1 DEF Admit, TypeOK, Uploading
    <3> QED
      BY <2>1, <3>3, <3>4 DEF Admit, TypeOK
  <2>2. CASE SkipParked(f)
    BY <2>2, DecideType DEF SkipParked, TypeOK, Finished
  <2>3. CASE SkipUnchanged(f)
    BY <2>3, DecideType DEF SkipUnchanged, TypeOK, Finished
  <2>4. CASE FailAndBackOff(f)
    <3>1. [job[f].fp EXCEPT !.seen = TRUE, !.parked = TRUE] \in Fingerprints
      BY DEF TypeOK, Jobs, Fingerprints
    <3>2. Commit(f, [job[f].fp EXCEPT !.seen = TRUE, !.parked = TRUE])
      BY <2>4 DEF FailAndBackOff
    <3>3. /\ doc' \in Documents
          /\ store' \in Documents
          /\ pending' \in Entries
          /\ faults' \in 0..MaxFaults
      BY <3>1, <3>2, CommitType
    <3> QED
      BY <2>4, <3>3, DecideType DEF FailAndBackOff, TypeOK, Finished
  <2>5. CASE Refresh(f)
    <3> DEFINE fp == [seen |-> TRUE, hash |-> job[f].fp.hash,
                      stat |-> cand[f], parked |-> FALSE]
    <3>1. fp \in Fingerprints
      BY BoundAssumption DEF TypeOK, Jobs, Fingerprints
    <3>2. Commit(f, fp)
      BY <2>5 DEF Refresh
    <3>3. /\ doc' \in Documents
          /\ store' \in Documents
          /\ pending' \in Entries
          /\ faults' \in 0..MaxFaults
      BY <3>1, <3>2, CommitType
    <3> QED
      BY <2>5, <3>3, DecideType DEF Refresh, TypeOK, Finished
  <2>6. CASE Seal(f)
    <3>1. [pc |-> "sealed", fp |-> job[f].fp, content |-> file[f].content]
             \in Jobs
      BY DEF TypeOK, Jobs, Statuses
    <3> job' \in [Files -> Jobs]
      BY <2>6, <3>1 DEF Seal, TypeOK
    <3>2. \A g \in Files : job'[g].pc \in Uploading => job'[g].content \in Contents
      BY <2>6 DEF Seal, TypeOK, Jobs
    <3> QED
      BY <2>6, <3>1, <3>2 DEF Seal, TypeOK
  <2>7. CASE AlreadyPresent(f) \/ Confirm(f)
    <3>1. Shipped(f) \in Fingerprints
      <4>1. job[f].content \in Contents
        BY <2>7 DEF AlreadyPresent, Confirm, InState, TypeOK, Uploading
      <4>2. Compare[job[f].content] \in Contents
        BY <4>1, ContentAssumption
      <4>3. cand[f] \in Nat
        BY BoundAssumption DEF TypeOK
      <4> QED
        BY <4>2, <4>3 DEF Shipped, Fingerprints
    <3>2. /\ doc' \in Documents
          /\ store' \in Documents
          /\ pending' \in Entries
          /\ faults' \in 0..MaxFaults
      BY <2>7, <3>1, CommitType DEF AlreadyPresent, Confirm
    <3> QED
      BY <2>7, <3>2, DecideType DEF AlreadyPresent, Confirm, TypeOK, Finished
  <2>8. CASE Send(f)
    <3>1. job' \in [Files -> Jobs]
      BY <2>8 DEF Send, TypeOK, Jobs, Statuses
    <3>2. \A g \in Files : job'[g].pc \in Uploading => job'[g].content \in Contents
      BY <2>8 DEF Send, InState, TypeOK, Jobs, Uploading
    <3> QED
      BY <2>8, <3>1, <3>2 DEF Send, TypeOK
  <2>9. CASE Land(f)
    <3>1. job' \in [Files -> Jobs]
      BY <2>9 DEF Land, TypeOK, Jobs, Statuses
    <3>2. \A g \in Files : job'[g].pc \in Uploading => job'[g].content \in Contents
      BY <2>9 DEF Land, InState, TypeOK, Jobs, Uploading
    <3>3. Sealed(job[f].content) \in Objects
      BY <2>9, SealedType DEF Land, InState, TypeOK, Uploading
    <3> QED
      BY <2>9, <3>1, <3>2, <3>3 DEF Land, Put, TypeOK
  <2>10. CASE UploadFails(f)
    <3>1. Sealed(job[f].content) \in Objects
      BY <2>10, SealedType DEF UploadFails, TypeOK, Uploading
    <3>2. late' \subseteq Files \X Objects
      BY <2>10, <3>1 DEF UploadFails, TypeOK
    <3> QED
      BY <2>10, <3>2, DecideType, FaultType DEF UploadFails, TypeOK, Finished
  <2>11. CASE Halt(f)
    BY <2>11, DecideType, FaultType DEF Halt, TypeOK, Finished
  <2>12. CASE Abandon(f)
    BY <2>12, DecideType DEF Abandon, TypeOK, Finished
  <2> QED
    BY <1>17, <2>1, <2>2, <2>3, <2>4, <2>5, <2>6, <2>7, <2>8, <2>9, <2>10,
       <2>11, <2>12 DEF FileStep
<1> QED
  BY <1>1, <1>2, <1>3, <1>4, <1>5, <1>6, <1>7, <1>8, <1>9, <1>10, <1>11,
     <1>12, <1>13, <1>14, <1>15, <1>16, <1>17 DEF Next

(* The engine's state stays well formed: in particular only a loaded       *)
(* content is ever sealed or sent.                                         *)
THEOREM TypeCorrect == Spec => []TypeOK
<1>1. Init => TypeOK
  BY TypeInit
<1>2. TypeOK /\ [Next]_vars => TypeOK'
  BY TypeStep
<1> QED
  BY <1>1, <1>2, PTL DEF Spec

(***************************************************************************)
(* The inductive invariant.  The two predicates below say of any document, *)
(* store, buffer and jobs what FingerprintInv and StampInv say of the      *)
(* present ones, so that a step can be argued about before it is taken.    *)
(***************************************************************************)
AllBacked(d, s, p, j) ==
    \A f \in Files :
       /\ Backed(f, d.entries[f], d.spec)
       /\ Backed(f, s.entries[f], s.spec)
       /\ Backed(f, p[f], s.spec)
       /\ Backed(f, j[f].fp, s.spec)

AllStamped(d, s, p, j) ==
    \A f \in Files :
       /\ Stamped(f, d.entries[f])
       /\ Stamped(f, s.entries[f])
       /\ Stamped(f, p[f])
       /\ Stamped(f, j[f].fp)

(* The zero fingerprint claims nothing. *)
LEMMA NoEntryGood ==
    ASSUME TypeOK, NEW f \in Files, NEW g
    PROVE  Backed(f, NoEntry, g) /\ Stamped(f, NoEntry)
<1>1. NoEntry.hash = NoHash /\ NoEntry.stat = 0
  BY DEF NoEntry
<1>2. file[f].stat \in Nat
  BY BoundAssumption DEF TypeOK
<1> QED
  BY <1>1, <1>2 DEF Backed, Stamped

(* The archive only gains versions, so what was backed stays backed. *)
LEMMA BackedCarries ==
    ASSUME AllBacked(doc', store', pending', job'),
           \A f \in Files : archive[f].versions \subseteq archive'[f].versions
    PROVE  FingerprintInv'
BY DEF AllBacked, FingerprintInv, Backed, Holds

(* A stamp vouches for the content across a change of the file. *)
LEMMA StampedCarries ==
    ASSUME AllStamped(doc', store', pending', job'),
           file' = file,
           \A f \in Files : cand'[f] # NotCandidate => cand'[f] <= file[f].stat
    PROVE  StampInv'
BY DEF AllStamped, StampInv, Stamped, Candidates, NotCandidate

(* Flushing a good buffer leaves good documents. *)
LEMMA FlushBufferGood ==
    ASSUME IInv, NEW p \in Entries, FlushBuffer(p),
           NEW j,
           \A f \in Files : /\ Backed(f, p[f], store.spec) /\ Stamped(f, p[f])
                            /\ Backed(f, j[f].fp, store.spec)
                            /\ Stamped(f, j[f].fp)
    PROVE  /\ AllBacked(doc', store', pending', j)
           /\ AllStamped(doc', store', pending', j)
           /\ store'.spec = store.spec
<1>0. TypeOK /\ FingerprintInv /\ StampInv
  BY DEF IInv
<1>1. \A f \in Files : Backed(f, NoEntries[f], store.spec)
                       /\ Stamped(f, NoEntries[f])
  BY <1>0, NoEntryGood DEF NoEntries
<1>2. /\ Merged(p).spec = store.spec
      /\ \A f \in Files : Merged(p).entries[f] =
                             IF p[f].seen THEN p[f] ELSE store.entries[f]
  BY <1>0 DEF Merged, TypeOK, Documents, Entries
<1>3. \A f \in Files : /\ Backed(f, Merged(p).entries[f], store.spec)
                       /\ Stamped(f, Merged(p).entries[f])
  BY <1>0, <1>2 DEF FingerprintInv, StampInv
<1>4. CASE p = NoEntries
  BY <1>0, <1>1, <1>4 DEF FlushBuffer, AllBacked, AllStamped, FingerprintInv,
                          StampInv
<1>5. CASE p # NoEntries
  <2>1. store' = Merged(p)
    BY <1>5 DEF FlushBuffer
  <2>2. CASE doc' = Merged(p) /\ pending' = NoEntries
    BY <1>1, <1>2, <1>3, <2>1, <2>2 DEF AllBacked, AllStamped
  <2>3. CASE pending' = p /\ doc' = doc
    BY <1>0, <1>2, <1>3, <2>1, <2>3 DEF AllBacked, AllStamped, FingerprintInv,
                                        StampInv
  <2> QED
    BY <1>5, <2>2, <2>3 DEF FlushBuffer
<1> QED
  BY <1>4, <1>5

(* Committing a good fingerprint for a file that is thereby decided. *)
LEMMA CommitGood ==
    ASSUME IInv, NEW f \in Files, NEW fp \in Fingerprints,
           Backed(f, fp, store.spec), Stamped(f, fp),
           Commit(f, fp), NEW pc, Decide(f, pc)
    PROVE  /\ AllBacked(doc', store', pending', job')
           /\ AllStamped(doc', store', pending', job')
           /\ store'.spec = store.spec
<1>0. TypeOK /\ FingerprintInv /\ StampInv
  BY DEF IInv
<1> DEFINE p == [pending EXCEPT ![f] = fp]
<1>1. p \in Entries
  BY <1>0 DEF TypeOK, Entries
<1>2. \A g \in Files : p[g] = IF g = f THEN fp ELSE pending[g]
  BY <1>0 DEF TypeOK, Entries
<1>3. \A g \in Files : job'[g].fp = IF g = f THEN NoEntry ELSE job[g].fp
  BY <1>0 DEF Decide, TypeOK
<1>4. \A g \in Files : /\ Backed(g, p[g], store.spec) /\ Stamped(g, p[g])
                       /\ Backed(g, job'[g].fp, store.spec)
                       /\ Stamped(g, job'[g].fp)
  BY <1>0, <1>2, <1>3, NoEntryGood DEF FingerprintInv, StampInv
<1> HIDE DEF p
<1>5. CASE Full(p)
  <2>1. FlushBuffer(p)
    BY <1>5 DEF Commit, p
  <2> QED
    BY <1>1, <1>4, <2>1, FlushBufferGood
<1>6. CASE ~Full(p)
  <2>1. pending' = p /\ doc' = doc /\ store' = store
    BY <1>6 DEF Commit, p
  <2> QED
    BY <1>0, <1>4, <2>1 DEF AllBacked, AllStamped, FingerprintInv, StampInv
<1> QED
  BY <1>5, <1>6

(* Deciding a file during the pass leaves the rest of the pipeline alone. *)
LEMMA DecideJobs ==
    ASSUME IInv, NEW f \in Files, NEW pc \in Finished, Decide(f, pc),
           phase = "pass", UNCHANGED <<file, archive, gen, phase, cand>>,
           store'.spec = store.spec
    PROVE  JobInv'
<1>0. TypeOK /\ JobInv
  BY DEF IInv
<1>1. \A g \in Files : g # f => job'[g] = job[g]
  BY <1>0 DEF Decide, TypeOK
<1>2. job'[f].pc = pc
  BY <1>0 DEF Decide, TypeOK
<1>3. pc \notin Uploading \cup {"admitted"} /\ pc # "landed"
  BY DEF Finished, Uploading
<1> QED
  BY <1>0, <1>1, <1>2, <1>3
     DEF JobInv, Sealed, Candidates, NotCandidate, Uploading

(* A decided file that commits nothing. *)
LEMMA DecideOnly ==
    ASSUME IInv, NEW f \in Files, NEW pc \in Finished, Decide(f, pc),
           phase = "pass",
           UNCHANGED <<file, archive, gen, phase, cand, doc, store, pending>>
    PROVE  ArchiveInv' /\ JobInv' /\ FingerprintInv' /\ StampInv'
<1>0. TypeOK /\ ArchiveInv /\ FingerprintInv /\ StampInv
  BY DEF IInv
<1>1. \A g \in Files : job'[g].fp = IF g = f THEN NoEntry ELSE job[g].fp
  BY <1>0 DEF Decide, TypeOK
<1>2. AllBacked(doc', store', pending', job')
  BY <1>0, <1>1, NoEntryGood DEF AllBacked, FingerprintInv
<1>3. AllStamped(doc', store', pending', job')
  BY <1>0, <1>1, NoEntryGood DEF AllStamped, StampInv
<1>4. FingerprintInv'
  BY <1>2, BackedCarries
<1>5. StampInv'
  BY <1>0, <1>3, StampedCarries DEF StampInv, Candidates
<1>6. JobInv'
  BY DecideJobs
<1>7. ArchiveInv'
  BY <1>0 DEF ArchiveInv
<1> QED
  BY <1>4, <1>5, <1>6, <1>7

(* A decided file that commits a good fingerprint. *)
LEMMA DecideAndCommit ==
    ASSUME IInv, NEW f \in Files, NEW pc \in Finished, Decide(f, pc),
           NEW fp \in Fingerprints, Commit(f, fp),
           Backed(f, fp, store.spec), Stamped(f, fp),
           phase = "pass", UNCHANGED <<file, archive, gen, phase, cand>>
    PROVE  ArchiveInv' /\ JobInv' /\ FingerprintInv' /\ StampInv'
<1>0. ArchiveInv /\ StampInv
  BY DEF IInv
<1>1. /\ AllBacked(doc', store', pending', job')
      /\ AllStamped(doc', store', pending', job')
      /\ store'.spec = store.spec
  BY CommitGood
<1>2. FingerprintInv'
  BY <1>1, BackedCarries
<1>3. StampInv'
  BY <1>0, <1>1, StampedCarries DEF StampInv, Candidates
<1>4. JobInv'
  BY <1>1, DecideJobs
<1>5. ArchiveInv'
  BY <1>0 DEF ArchiveInv
<1> QED
  BY <1>2, <1>3, <1>4, <1>5

(* What an upload confirmed by the archive may record. *)
LEMMA ShippedGood ==
    ASSUME IInv, NEW f \in Files, job[f].pc \in Uploading,
           Sealed(job[f].content) \in archive[f].versions
    PROVE  /\ Shipped(f) \in Fingerprints
           /\ Backed(f, Shipped(f), store.spec)
           /\ Stamped(f, Shipped(f))
<1>0. TypeOK /\ JobInv /\ StampInv
  BY DEF IInv
<1>1. /\ phase = "pass" /\ f \in Candidates /\ store.spec = gen
      /\ job[f].content \in Contents
      /\ cand[f] = file[f].stat => job[f].content = file[f].content
  BY <1>0 DEF JobInv, TypeOK
<1>2. Compare[job[f].content] \in Contents
  BY <1>1, ContentAssumption
<1>3. cand[f] \in Nat /\ cand[f] <= file[f].stat
  BY <1>0, <1>1, BoundAssumption DEF TypeOK, StampInv
<1>4. Shipped(f) \in Fingerprints
  BY <1>2, <1>3 DEF Shipped, Fingerprints
<1>5. gen # NoGen
  BY <1>0, GenAssumption DEF TypeOK
<1>6. Holds(f, Compare[job[f].content], gen)
  BY <1>1 DEF Holds, Sealed
<1>7. Backed(f, Shipped(f), store.spec)
  BY <1>1, <1>5, <1>6 DEF Backed, Shipped
<1>8. Stamped(f, Shipped(f))
  BY <1>1, <1>3 DEF Stamped, Shipped
<1> QED
  BY <1>4, <1>7, <1>8

(* A PUT only adds a version. *)
LEMMA PutGrows ==
    ASSUME TypeOK, ArchiveInv, NEW f \in Files, NEW o \in Objects, Put(f, o)
    PROVE  /\ ArchiveInv'
           /\ \A g \in Files :
                 archive[g].versions \subseteq archive'[g].versions
           /\ o \in archive'[f].versions
BY DEF Put, ArchiveInv, TypeOK

(* The run is over, by Close or by a crash: memory is empty. *)
LEMMA Ended ==
    ASSUME IInv, phase' = "idle", store' = EmptyDocument,
           pending' = NoEntries, cand' = [f \in Files |-> NotCandidate],
           job' = [f \in Files |-> Queued], UNCHANGED <<file, archive, gen>>,
           \A f \in Files : /\ Backed(f, doc'.entries[f], doc'.spec)
                            /\ Stamped(f, doc'.entries[f])
    PROVE  ArchiveInv' /\ JobInv' /\ FingerprintInv' /\ StampInv'
<1>0. TypeOK /\ ArchiveInv
  BY DEF IInv
<1>1. \A f \in Files : /\ store'.entries[f] = NoEntry
                       /\ pending'[f] = NoEntry
                       /\ job'[f].fp = NoEntry
                       /\ job'[f].pc = "queued"
  BY DEF EmptyDocument, NoEntries, Queued
<1>2. AllBacked(doc', store', pending', job')
  BY <1>0, <1>1, NoEntryGood DEF AllBacked
<1>3. AllStamped(doc', store', pending', job')
  BY <1>0, <1>1, NoEntryGood DEF AllStamped
<1>4. FingerprintInv'
  BY <1>2, BackedCarries
<1>5. StampInv'
  BY <1>3, StampedCarries
<1>6. JobInv'
  BY <1>1 DEF JobInv, Uploading
<1>7. ArchiveInv'
  BY <1>0 DEF ArchiveInv
<1> QED
  BY <1>4, <1>5, <1>6, <1>7

(* The invariant holds initially ... *)
LEMMA InvInit == Init => IInv
<1> SUFFICES ASSUME Init PROVE IInv
  OBVIOUS
<1>1. TypeOK
  BY TypeInit
<1>2. \A f \in Files : /\ doc.entries[f] = NoEntry /\ store.entries[f] = NoEntry
                       /\ pending[f] = NoEntry /\ job[f].fp = NoEntry
                       /\ job[f].pc = "queued" /\ cand[f] = NotCandidate
  BY DEF Init, EmptyDocument, NoEntries, Queued
<1>3. FingerprintInv
  BY <1>1, <1>2, NoEntryGood DEF FingerprintInv
<1>4. StampInv
  BY <1>1, <1>2, NoEntryGood DEF StampInv, Candidates
<1>5. JobInv
  BY <1>2 DEF JobInv, Init, Uploading
<1>6. ArchiveInv
  BY DEF Init, ArchiveInv
<1> QED
  BY <1>1, <1>3, <1>4, <1>5, <1>6 DEF IInv

(* One file's step through the pipeline. *)
LEMMA FileStepInv ==
    ASSUME IInv, NEW f \in Files, FileStep(f)
    PROVE  ArchiveInv' /\ JobInv' /\ FingerprintInv' /\ StampInv'
<1> USE DEF envVars, runVars
<1>0. TypeOK /\ ArchiveInv /\ JobInv /\ FingerprintInv /\ StampInv
  BY DEF IInv
<1>1. CASE Admit(f)
  <2>1. /\ phase = "pass" /\ f \in Candidates
        /\ UNCHANGED <<file, archive, gen, doc, store, pending, phase, cand>>
    BY <1>1 DEF Admit
  <2>2. \A g \in Files : g # f => job'[g] = job[g]
    BY <1>0, <1>1 DEF Admit, TypeOK
  <2>3. job'[f] = [pc |-> "admitted", fp |-> Get(f), content |-> Gone]
    BY <1>0, <1>1 DEF Admit, TypeOK
  <2>4. Backed(f, Get(f), store.spec) /\ Stamped(f, Get(f))
    BY <1>0 DEF Get, FingerprintInv, StampInv
  <2>5. \A g \in Files : /\ Backed(g, job'[g].fp, store.spec)
                         /\ Stamped(g, job'[g].fp)
    BY <1>0, <2>2, <2>3, <2>4 DEF FingerprintInv, StampInv
  <2>6. AllBacked(doc', store', pending', job')
    BY <1>0, <2>1, <2>5 DEF AllBacked, FingerprintInv
  <2>7. AllStamped(doc', store', pending', job')
    BY <1>0, <2>1, <2>5 DEF AllStamped, StampInv
  <2>8. FingerprintInv'
    BY <2>1, <2>6, BackedCarries
  <2>9. StampInv'
    BY <1>0, <2>1, <2>7, StampedCarries DEF StampInv, Candidates
  <2>10. JobInv'
    BY <1>0, <2>1, <2>2, <2>3
       DEF JobInv, Uploading, Sealed, Candidates, NotCandidate
  <2>11. ArchiveInv'
    BY <1>0, <2>1 DEF ArchiveInv
  <2> QED
    BY <2>8, <2>9, <2>10, <2>11
<1>2. CASE SkipParked(f) \/ SkipUnchanged(f) \/ Abandon(f) \/ Halt(f)
  BY <1>2, DecideOnly DEF SkipParked, SkipUnchanged, Abandon, Halt, InState,
                          Finished
<1>3. CASE FailAndBackOff(f)
  <2> DEFINE fp == [job[f].fp EXCEPT !.seen = TRUE, !.parked = TRUE]
  <2>1. job[f].fp \in Fingerprints
    BY <1>0 DEF TypeOK, Jobs
  <2>2. fp \in Fingerprints /\ fp.hash = job[f].fp.hash
        /\ fp.stat = job[f].fp.stat
    BY <2>1 DEF Fingerprints
  <2>3. Backed(f, fp, store.spec) /\ Stamped(f, fp)
    BY <1>0, <2>2 DEF FingerprintInv, StampInv, Backed, Stamped
  <2>4. Commit(f, fp) /\ Decide(f, "decided") /\ phase = "pass"
        /\ UNCHANGED <<file, archive, gen, phase, cand>>
    BY <1>3 DEF FailAndBackOff, Opens, InState
  <2> HIDE DEF fp
  <2> QED
    BY <2>2, <2>3, <2>4, DecideAndCommit DEF Finished
<1>4. CASE Refresh(f)
  <2> DEFINE fp == [seen |-> TRUE, hash |-> job[f].fp.hash,
                    stat |-> cand[f], parked |-> FALSE]
  <2>1. Commit(f, fp) /\ Decide(f, "unchanged") /\ phase = "pass"
        /\ job[f].pc = "admitted"
        /\ UNCHANGED <<file, archive, gen, phase, cand>>
    BY <1>4 DEF Refresh, Opens, InState
  <2>2. f \in Candidates
    BY <1>0, <2>1 DEF JobInv
  <2>3. cand[f] \in Nat /\ cand[f] <= file[f].stat
    BY <1>0, <2>2, BoundAssumption DEF TypeOK, StampInv
  <2>4. fp \in Fingerprints
    BY <1>0, <2>3 DEF TypeOK, Jobs, Fingerprints
  <2>5. Backed(f, fp, store.spec)
    BY <1>0 DEF FingerprintInv, Backed
  <2>6. Stamped(f, fp)
    BY <1>4, <2>3 DEF Refresh, Stamped
  <2> HIDE DEF fp
  <2> QED
    BY <2>1, <2>4, <2>5, <2>6, DecideAndCommit DEF Finished
<1>5. CASE Seal(f)
  <2>1. /\ phase = "pass" /\ job[f].pc = "admitted"
        /\ UNCHANGED <<file, archive, gen, doc, store, pending, phase, cand>>
    BY <1>5 DEF Seal, Opens, InState
  <2>2. \A g \in Files : g # f => job'[g] = job[g]
    BY <1>0, <1>5 DEF Seal, TypeOK
  <2>3. job'[f] = [pc |-> "sealed", fp |-> job[f].fp,
                   content |-> file[f].content]
    BY <1>0, <1>5 DEF Seal, TypeOK
  <2>4. f \in Candidates
    BY <1>0, <2>1 DEF JobInv
  <2>5. \A g \in Files : job'[g].fp = job[g].fp
    BY <2>2, <2>3
  <2>6. AllBacked(doc', store', pending', job')
    BY <1>0, <2>1, <2>5 DEF AllBacked, FingerprintInv
  <2>7. AllStamped(doc', store', pending', job')
    BY <1>0, <2>1, <2>5 DEF AllStamped, StampInv
  <2>8. FingerprintInv'
    BY <2>1, <2>6, BackedCarries
  <2>9. StampInv'
    BY <1>0, <2>1, <2>7, StampedCarries DEF StampInv, Candidates
  <2>10. JobInv'
    BY <1>0, <2>1, <2>2, <2>3, <2>4
       DEF JobInv, Uploading, Sealed, Candidates, NotCandidate
  <2>11. ArchiveInv'
    BY <1>0, <2>1 DEF ArchiveInv
  <2> QED
    BY <2>8, <2>9, <2>10, <2>11
<1>6. CASE AlreadyPresent(f)
  <2>1. job[f].pc \in Uploading
    BY <1>6 DEF AlreadyPresent, InState, Uploading
  <2>2. Sealed(job[f].content) \in Objects
    BY <1>0, <2>1, SealedType DEF TypeOK
  <2>3. Sealed(job[f].content) \in archive[f].versions
    BY <1>0, <1>6, <2>2, NoObjectAssumption DEF AlreadyPresent, ArchiveInv
  <2> QED
    BY <1>6, <2>1, <2>3, ShippedGood, DecideAndCommit
       DEF AlreadyPresent, InState, Finished
<1>7. CASE Send(f)
  <2>1. /\ phase = "pass" /\ job[f].pc = "sealed"
        /\ UNCHANGED <<file, archive, gen, doc, store, pending, phase, cand>>
    BY <1>7 DEF Send, InState
  <2>2. \A g \in Files : /\ g # f => job'[g] = job[g]
                         /\ job'[g].fp = job[g].fp
                         /\ job'[g].content = job[g].content
    BY <1>0, <1>7 DEF Send, TypeOK, Jobs
  <2>3. job'[f].pc = "sent"
    BY <1>0, <1>7 DEF Send, TypeOK, Jobs
  <2>6. AllBacked(doc', store', pending', job')
    BY <1>0, <2>1, <2>2 DEF AllBacked, FingerprintInv
  <2>7. AllStamped(doc', store', pending', job')
    BY <1>0, <2>1, <2>2 DEF AllStamped, StampInv
  <2>8. FingerprintInv'
    BY <2>1, <2>6, BackedCarries
  <2>9. StampInv'
    BY <1>0, <2>1, <2>7, StampedCarries DEF StampInv, Candidates
  <2>10. JobInv'
    BY <1>0, <2>1, <2>2, <2>3
       DEF JobInv, Uploading, Sealed, Candidates, NotCandidate
  <2>11. ArchiveInv'
    BY <1>0, <2>1 DEF ArchiveInv
  <2> QED
    BY <2>8, <2>9, <2>10, <2>11
<1>8. CASE Land(f)
  <2>1. /\ phase = "pass" /\ job[f].pc = "sent"
        /\ UNCHANGED <<file, gen, doc, store, pending, phase, cand>>
    BY <1>8 DEF Land, InState
  <2>2. \A g \in Files : /\ g # f => job'[g] = job[g]
                         /\ job'[g].fp = job[g].fp
                         /\ job'[g].content = job[g].content
    BY <1>0, <1>8 DEF Land, TypeOK, Jobs
  <2>3. job'[f].pc = "landed"
    BY <1>0, <1>8 DEF Land, TypeOK, Jobs
  <2>4. Sealed(job[f].content) \in Objects
    BY <1>0, <2>1, SealedType DEF TypeOK, Uploading
  <2>5. /\ ArchiveInv'
        /\ \A g \in Files : archive[g].versions \subseteq archive'[g].versions
        /\ Sealed(job[f].content) \in archive'[f].versions
    BY <1>0, <1>8, <2>4, PutGrows DEF Land
  <2>6. AllBacked(doc', store', pending', job')
    BY <1>0, <2>1, <2>2 DEF AllBacked, FingerprintInv
  <2>7. AllStamped(doc', store', pending', job')
    BY <1>0, <2>1, <2>2 DEF AllStamped, StampInv
  <2>8. FingerprintInv'
    BY <2>5, <2>6, BackedCarries
  <2>9. StampInv'
    BY <1>0, <2>1, <2>7, StampedCarries DEF StampInv, Candidates
  <2>10. JobInv'
    BY <1>0, <2>1, <2>2, <2>3, <2>5
       DEF JobInv, Uploading, Sealed, Candidates, NotCandidate
  <2> QED
    BY <2>5, <2>8, <2>9, <2>10
<1>9. CASE Confirm(f)
  <2>1. job[f].pc \in Uploading /\ job[f].pc = "landed"
    BY <1>9 DEF Confirm, InState, Uploading
  <2>2. Sealed(job[f].content) \in archive[f].versions
    BY <1>0, <2>1 DEF JobInv
  <2> QED
    BY <1>9, <2>1, <2>2, ShippedGood, DecideAndCommit
       DEF Confirm, InState, Finished
<1>10. CASE UploadFails(f)
  BY <1>10, DecideOnly DEF UploadFails, Finished
<1> QED
  BY <1>1, <1>2, <1>3, <1>4, <1>5, <1>6, <1>7, <1>8, <1>9, <1>10 DEF FileStep

(* A change of phase that touches neither fingerprints nor jobs. *)
LEMMA PhaseOnly ==
    ASSUME IInv, UNCHANGED <<file, archive, gen, doc, store, pending, cand, job>>,
           phase' = "final" \/ (phase = "pass" /\ phase' \in {"vanish", "pass"}),
           \A f \in Files :
              phase' # phase => job[f].pc \notin Uploading \cup {"admitted"}
    PROVE  ArchiveInv' /\ JobInv' /\ FingerprintInv' /\ StampInv'
<1>0. TypeOK /\ ArchiveInv /\ JobInv /\ FingerprintInv /\ StampInv
  BY DEF IInv
<1>1. FingerprintInv'
  BY <1>0 DEF FingerprintInv, Backed, Holds
<1>2. StampInv'
  BY <1>0 DEF StampInv, Stamped, Candidates, NotCandidate
<1>3. JobInv'
  BY <1>0 DEF JobInv, Uploading, Sealed, Candidates, NotCandidate
<1>4. ArchiveInv'
  BY <1>0 DEF ArchiveInv
<1> QED
  BY <1>1, <1>2, <1>3, <1>4

(* ... is kept by every step, action by action ... *)
LEMMA InvStep == IInv /\ [Next]_vars => IInv'
<1> SUFFICES ASSUME IInv, [Next]_vars
             PROVE  ArchiveInv' /\ JobInv' /\ FingerprintInv' /\ StampInv'
  BY TypeStep DEF IInv
<1> USE DEF envVars, runVars
<1>0. TypeOK /\ ArchiveInv /\ JobInv /\ FingerprintInv /\ StampInv
  BY DEF IInv
<1>1. CASE UNCHANGED vars
  BY <1>0, <1>1 DEF vars, ArchiveInv, JobInv, FingerprintInv, StampInv, Backed,
     Holds, Stamped, Candidates, NotCandidate, Sealed
<1>2. ASSUME NEW f \in Files, NEW c \in Contents \cup {Gone}, ChangeFile(f, c)
      PROVE  ArchiveInv' /\ JobInv' /\ FingerprintInv' /\ StampInv'
  <2>1. UNCHANGED <<archive, late, gen, doc, store, pending, phase, cand, job>>
    BY <1>2 DEF ChangeFile
  <2>2. /\ file'[f].stat = file[f].stat + 1
        /\ file[f].stat \in Nat
        /\ \A g \in Files : g # f => file'[g] = file[g]
    BY <1>0, <1>2, BoundAssumption DEF ChangeFile, TypeOK
  <2>3. ASSUME NEW g \in Files, NEW fp \in Fingerprints, Stamped(g, fp)
        PROVE  /\ fp.stat <= file'[g].stat
               /\ (fp.hash # NoHash /\ fp.stat = file'[g].stat
                     /\ file'[g].content # Gone)
                  => fp.hash = Compare[file'[g].content]
    BY <2>2, <2>3 DEF Stamped, Fingerprints
  <2>4. \A g \in Files : /\ doc.entries[g] \in Fingerprints
                         /\ store.entries[g] \in Fingerprints
                         /\ pending[g] \in Fingerprints
                         /\ job[g].fp \in Fingerprints
    BY <1>0 DEF TypeOK, Documents, Entries, Jobs
  <2>5. \A g \in Files : cand[g] \in Nat /\ (g \in Candidates =>
                            cand[g] <= file'[g].stat
                            /\ (g = f => cand[g] # file'[g].stat))
    BY <1>0, <2>2, BoundAssumption DEF TypeOK, StampInv
  <2>6. StampInv'
    BY <1>0, <2>1, <2>3, <2>4, <2>5
       DEF StampInv, Stamped, Candidates, NotCandidate
  <2>7. FingerprintInv'
    BY <1>0, <2>1 DEF FingerprintInv, Backed, Holds
  <2>8. JobInv'
    BY <1>0, <2>1, <2>2, <2>5
       DEF JobInv, Sealed, Candidates, NotCandidate, Uploading
  <2>9. ArchiveInv'
    BY <1>0, <2>1 DEF ArchiveInv
  <2> QED
    BY <2>6, <2>7, <2>8, <2>9
<1>3. ASSUME NEW g \in Gens, ChangeSpec(g)
      PROVE  ArchiveInv' /\ JobInv' /\ FingerprintInv' /\ StampInv'
  <2>1. /\ phase = "idle"
        /\ UNCHANGED <<file, archive, doc, store, pending, phase, cand, job>>
    BY <1>3 DEF ChangeSpec
  <2>2. \A f \in Files : job[f].pc = "queued"
    BY <1>0, <2>1 DEF JobInv, Queued
  <2>3. JobInv'
    BY <1>0, <2>1, <2>2 DEF JobInv, Uploading
  <2>4. FingerprintInv' /\ ArchiveInv'
    BY <1>0, <2>1 DEF FingerprintInv, Backed, Holds, ArchiveInv
  <2>5. StampInv'
    BY <1>0, <2>1 DEF StampInv, Stamped, Candidates, NotCandidate
  <2> QED
    BY <2>3, <2>4, <2>5
<1>4. ASSUME NEW f \in Files, NEW o \in Objects, LatePutLands(f, o)
      PROVE  ArchiveInv' /\ JobInv' /\ FingerprintInv' /\ StampInv'
  <2>1. UNCHANGED <<file, gen, doc, store, pending, phase, cand, job>>
    BY <1>4 DEF LatePutLands
  <2>2. /\ ArchiveInv'
        /\ \A g \in Files : archive[g].versions \subseteq archive'[g].versions
    BY <1>0, <1>4, PutGrows DEF LatePutLands
  <2>6. AllBacked(doc', store', pending', job')
    BY <1>0, <2>1 DEF AllBacked, FingerprintInv
  <2>3. FingerprintInv'
    BY <2>2, <2>6, BackedCarries
  <2>4. StampInv'
    BY <1>0, <2>1 DEF StampInv, Stamped, Candidates, NotCandidate
  <2>5. JobInv'
    BY <1>0, <2>1, <2>2 DEF JobInv, Sealed, Candidates, NotCandidate
  <2> QED
    BY <2>2, <2>3, <2>4, <2>5
<1>5. ASSUME NEW f \in Files, NEW o \in Objects, LatePutIsLost(f, o)
      PROVE  ArchiveInv' /\ JobInv' /\ FingerprintInv' /\ StampInv'
  <2>1. UNCHANGED <<file, archive, gen, doc, store, pending, phase, cand, job>>
    BY <1>5 DEF LatePutIsLost
  <2> QED
    BY <1>0, <2>1 DEF ArchiveInv, JobInv, FingerprintInv, StampInv, Backed,
       Holds, Stamped, Candidates, NotCandidate, Sealed
<1>6. CASE OpenStore
  <2>1. /\ phase = "idle" /\ phase' = "open"
        /\ UNCHANGED <<file, archive, gen, doc, pending, cand, job>>
        /\ store' = doc \/ store' = EmptyDocument
    BY <1>6 DEF OpenStore
  <2>2. \A f \in Files : job[f] = Queued /\ pending[f] = NoEntry
                         /\ job[f].fp = NoEntry /\ job[f].pc = "queued"
    BY <1>0, <2>1 DEF JobInv, Queued, NoEntries
  <2>3. \A f \in Files : /\ Backed(f, store'.entries[f], store'.spec)
                         /\ Stamped(f, store'.entries[f])
    BY <1>0, <2>1, NoEntryGood
       DEF FingerprintInv, StampInv, EmptyDocument, NoEntries
  <2>4. AllBacked(doc', store', pending', job')
    BY <1>0, <2>1, <2>2, <2>3, NoEntryGood DEF AllBacked, FingerprintInv
  <2>5. AllStamped(doc', store', pending', job')
    BY <1>0, <2>1, <2>2, <2>3, NoEntryGood DEF AllStamped, StampInv
  <2>6. FingerprintInv'
    BY <2>1, <2>4, BackedCarries
  <2>7. StampInv'
    BY <1>0, <2>1, <2>5, StampedCarries DEF StampInv, Candidates
  <2>8. JobInv'
    BY <1>0, <2>1, <2>2 DEF JobInv, Uploading
  <2>9. ArchiveInv'
    BY <1>0, <2>1 DEF ArchiveInv
  <2> QED
    BY <2>6, <2>7, <2>8, <2>9
<1>7. ASSUME NEW hidden \in SUBSET Files, Discover(hidden)
      PROVE  ArchiveInv' /\ JobInv' /\ FingerprintInv' /\ StampInv'
  <2>1. /\ phase = "open" /\ phase' \in {"pass", "final"}
        /\ UNCHANGED <<file, archive, gen, pending, job>>
        /\ store' = EnsuredSpec
        /\ doc' = doc \/ doc' = EnsuredSpec
    BY <1>7 DEF Discover
  <2>2. \A f \in Files : job[f] = Queued /\ pending[f] = NoEntry
                         /\ job[f].fp = NoEntry /\ job[f].pc = "queued"
    BY <1>0, <2>1 DEF JobInv, Queued, NoEntries
  <2>3. /\ EnsuredSpec.spec = gen
        /\ \A f \in Files :
              \/ EnsuredSpec.entries[f] = NoEntry
              \/ /\ EnsuredSpec.entries[f] = store.entries[f]
                 /\ store.spec = NoGen \/ store.spec = gen
    BY DEF EnsuredSpec, NoEntries
  <2>4. \A f \in Files : /\ Backed(f, EnsuredSpec.entries[f], gen)
                         /\ Stamped(f, EnsuredSpec.entries[f])
    BY <1>0, <2>3, NoEntryGood DEF FingerprintInv, StampInv, Backed
  <2>5. AllBacked(doc', store', pending', job')
    BY <1>0, <2>1, <2>2, <2>3, <2>4, NoEntryGood DEF AllBacked, FingerprintInv
  <2>6. AllStamped(doc', store', pending', job')
    BY <1>0, <2>1, <2>2, <2>4, NoEntryGood DEF AllStamped, StampInv
  <2>7. \A f \in Files : cand'[f] # NotCandidate => cand'[f] <= file[f].stat
    BY <1>0, <1>7, BoundAssumption DEF Discover, TypeOK
  <2>8. FingerprintInv'
    BY <2>1, <2>5, BackedCarries
  <2>9. StampInv'
    BY <2>1, <2>6, <2>7, StampedCarries
  <2>10. JobInv'
    BY <2>1, <2>2, <2>3 DEF JobInv, Uploading
  <2>11. ArchiveInv'
    BY <1>0, <2>1 DEF ArchiveInv
  <2> QED
    BY <2>8, <2>9, <2>10, <2>11
<1>8. CASE DiscoverFails
  <2>1. \A f \in Files : job[f].pc \notin Uploading \cup {"admitted"}
    BY <1>0, <1>8 DEF DiscoverFails, JobInv, Uploading, Queued
  <2> QED
    BY <1>8, <2>1, PhaseOnly DEF DiscoverFails
<1>9. CASE Cancel
  BY <1>9, PhaseOnly DEF Cancel
<1>10. CASE EndPass
  <2>1. \A f \in Files : job[f].pc \notin Uploading \cup {"admitted"}
    BY <1>10 DEF EndPass, Uploading, Finished
  <2>2. phase = "pass" /\ phase' \in {"vanish", "final"}
    BY <1>10 DEF EndPass
  <2> QED
    BY <1>10, <2>1, <2>2, PhaseOnly DEF EndPass
<1>11. CASE FlushBeforeDrop
  <2>1. /\ phase = "vanish" /\ phase' \in {"forget", "final"}
        /\ FlushBuffer(pending)
        /\ UNCHANGED <<file, archive, gen, cand, job>>
    BY <1>11 DEF FlushBeforeDrop
  <2>2. pending \in Entries
    BY <1>0 DEF TypeOK
  <2>3. /\ AllBacked(doc', store', pending', job)
        /\ AllStamped(doc', store', pending', job)
        /\ store'.spec = store.spec
    BY <1>0, <2>1, <2>2, FlushBufferGood DEF FingerprintInv, StampInv
  <2>4. FingerprintInv'
    BY <2>1, <2>3, BackedCarries
  <2>5. StampInv'
    BY <1>0, <2>1, <2>3, StampedCarries DEF StampInv, Candidates
  <2>6. \A f \in Files : job[f].pc \notin Uploading \cup {"admitted"}
    BY <1>0, <2>1 DEF JobInv
  <2>7. JobInv'
    BY <1>0, <2>1, <2>3, <2>6 DEF JobInv, Uploading
  <2>8. ArchiveInv'
    BY <1>0, <2>1 DEF ArchiveInv
  <2> QED
    BY <2>4, <2>5, <2>7, <2>8
<1>12. CASE DropVanished
  <2>1. /\ phase = "forget" /\ phase' = "final" /\ store' = Live
        /\ doc' = doc \/ doc' = Live
        /\ UNCHANGED <<file, archive, gen, pending, cand, job>>
    BY <1>12 DEF DropVanished, WriteDocument
  <2>2. /\ Live.spec = store.spec
        /\ \A f \in Files : Live.entries[f] \in {store.entries[f], NoEntry}
    BY <1>0 DEF Live, TypeOK, Documents, Entries
  <2>3. \A f \in Files : /\ Backed(f, Live.entries[f], store.spec)
                         /\ Stamped(f, Live.entries[f])
    BY <1>0, <2>2, NoEntryGood DEF FingerprintInv, StampInv
  <2>4. AllBacked(doc', store', pending', job')
    BY <1>0, <2>1, <2>2, <2>3 DEF AllBacked, FingerprintInv
  <2>5. AllStamped(doc', store', pending', job')
    BY <1>0, <2>1, <2>3 DEF AllStamped, StampInv
  <2>6. FingerprintInv'
    BY <2>1, <2>4, BackedCarries
  <2>7. StampInv'
    BY <1>0, <2>1, <2>5, StampedCarries DEF StampInv, Candidates
  <2>8. \A f \in Files : job[f].pc \notin Uploading \cup {"admitted"}
    BY <1>0, <2>1 DEF JobInv
  <2>9. JobInv'
    BY <2>1, <2>8 DEF JobInv, Uploading
  <2>10. ArchiveInv'
    BY <1>0, <2>1 DEF ArchiveInv
  <2> QED
    BY <2>6, <2>7, <2>9, <2>10
<1>13. CASE CloseStore
  <2>1. doc' = doc \/ doc' = Merged(pending)
    BY <1>13 DEF CloseStore, WriteDocument
  <2>2. /\ Merged(pending).spec = store.spec
        /\ \A f \in Files :
              Merged(pending).entries[f] \in {pending[f], store.entries[f]}
    BY <1>0 DEF Merged, TypeOK, Documents, Entries
  <2>3. \A f \in Files : /\ Backed(f, doc'.entries[f], doc'.spec)
                         /\ Stamped(f, doc'.entries[f])
    BY <1>0, <2>1, <2>2 DEF FingerprintInv, StampInv
  <2> QED
    BY <1>13, <2>3, Ended DEF CloseStore
<1>14. CASE Crash
  <2>1. \A f \in Files : /\ Backed(f, doc'.entries[f], doc'.spec)
                         /\ Stamped(f, doc'.entries[f])
    BY <1>0, <1>14 DEF Crash, FingerprintInv, StampInv
  <2> QED
    BY <1>14, <2>1, Ended DEF Crash
<1>15. CASE Reset \/ Prune
  <2>1. /\ phase = "idle"
        /\ UNCHANGED <<file, archive, gen, store, pending, phase, cand, job>>
    BY <1>15 DEF Reset, Prune
  <2>2. /\ doc'.spec = doc.spec
        /\ \A f \in Files : doc'.entries[f] \in {doc.entries[f], NoEntry}
    BY <1>0, <1>15 DEF Reset, Prune, TypeOK, Documents, Entries, NoEntries
  <2>3. \A f \in Files : /\ Backed(f, doc'.entries[f], doc'.spec)
                         /\ Stamped(f, doc'.entries[f])
    BY <1>0, <2>2, NoEntryGood DEF FingerprintInv, StampInv
  <2>4. AllBacked(doc', store', pending', job')
    BY <1>0, <2>1, <2>3 DEF AllBacked, FingerprintInv
  <2>5. AllStamped(doc', store', pending', job')
    BY <1>0, <2>1, <2>3 DEF AllStamped, StampInv
  <2>6. FingerprintInv'
    BY <2>1, <2>4, BackedCarries
  <2>7. StampInv'
    BY <1>0, <2>1, <2>5, StampedCarries DEF StampInv, Candidates
  <2>8. JobInv'
    BY <1>0, <2>1 DEF JobInv, Sealed, Candidates, NotCandidate, Uploading
  <2>9. ArchiveInv'
    BY <1>0, <2>1 DEF ArchiveInv
  <2> QED
    BY <2>6, <2>7, <2>8, <2>9
<1>16. ASSUME NEW f \in Files, FileStep(f)
       PROVE  ArchiveInv' /\ JobInv' /\ FingerprintInv' /\ StampInv'
  BY <1>16, FileStepInv
<1> QED
  BY <1>1, <1>2, <1>3, <1>4, <1>5, <1>6, <1>7, <1>8, <1>9, <1>10, <1>11,
     <1>12, <1>13, <1>14, <1>15, <1>16 DEF Next

(* ... and so holds in every reachable state: every fingerprint, on disk, *)
(* in memory, buffered or in a worker's hands, is backed by the bucket.   *)
THEOREM Inductive == Spec => []IInv
<1>1. Init => IInv
  BY InvInit
<1>2. IInv /\ [Next]_vars => IInv'
  BY InvStep
<1> QED
  BY <1>1, <1>2, PTL DEF Spec

(* Article 7 for every instance: a fingerprint on disk that names a source *)
(* hash is backed by a version in the bucket, redacted under the           *)
(* generation the document names, whatever crashed or failed on the way.   *)
THEOREM RecordIsBacked == Spec => []RecordedWasStored
<1>1. IInv => RecordedWasStored
  BY DEF IInv, FingerprintInv, Backed, RecordedWasStored
<1> QED
  BY <1>1, Inductive, PTL

(* The stat pre-filter is safe for every instance: a file whose stat       *)
(* equals the committed one has its present content in the bucket.         *)
THEOREM PrefilterIsSafe == Spec => []UnopenedIsArchived
<1>1. IInv => UnopenedIsArchived
  BY DEF IInv, FingerprintInv, StampInv, Backed, Stamped, UnopenedIsArchived
<1> QED
  BY <1>1, Inductive, PTL

(***************************************************************************)
(* Append-only files.  R ranks contents: a file only moves up, and two     *)
(* contents of one rank are the same to change detection.                  *)
(***************************************************************************)
Ordered(R) ==
    /\ R \in [Contents \cup {Gone} -> Nat]
    /\ \A a, b \in Contents \cup {Gone} : <<a, b>> \in Follows => R[a] <= R[b]
    /\ \A a, b \in Contents : Compare[a] = Compare[b] <=> R[a] = R[b]

(* A fingerprint names nothing newer than the current version.             *)
Behind(R, f, fp) ==
    fp.hash # NoHash =>
      /\ archive[f].current # NoObject
      /\ \A c \in Contents : Compare[c] = fp.hash => R[c] <= R[archive[f].current.src]

BehindInv(R) ==
    \A f \in Files :
       /\ Behind(R, f, doc.entries[f]) /\ Behind(R, f, store.entries[f])
       /\ Behind(R, f, pending[f]) /\ Behind(R, f, job[f].fp)

(* The current version is not newer than what is on its way, which is not  *)
(* newer than the file.                                                    *)
CurrentUpTo(R, f, c) == archive[f].current # NoObject => R[archive[f].current.src] <= R[c]

WayInv(R, f) ==
    /\ CurrentUpTo(R, f, file[f].content)
    /\ job[f].pc \in {"sealed", "sent"} => CurrentUpTo(R, f, job[f].content)
    /\ job[f].pc \in Uploading => R[job[f].content] <= R[file[f].content]
    /\ job[f].pc = "landed" => /\ archive[f].current # NoObject
                               /\ R[job[f].content] <= R[archive[f].current.src]

(* A PUT that was given up on is the only one of its file, and nothing     *)
(* else is sent for the file before it has landed or is lost.              *)
LateInv(R, f) ==
    \A o \in Objects : <<f, o>> \in late =>
       /\ phase = "idle" \/ job[f].pc = "decided"
       /\ CurrentUpTo(R, f, o.src) /\ R[o.src] <= R[file[f].content]
       /\ \A p \in Objects : <<f, p>> \in late => p = o

OrderInv(R) == BehindInv(R) /\ \A f \in Files : WayInv(R, f) /\ LateInv(R, f)

(* Ranks are numbers. *)
LEMMA RankFacts ==
    ASSUME TypeOK, NEW R, Ordered(R), NEW f \in Files
    PROVE  /\ file[f].content \in Contents \cup {Gone} /\ R[file[f].content] \in Nat
           /\ archive[f].current # NoObject =>
                 /\ archive[f].current.src \in Contents
                 /\ R[archive[f].current.src] \in Nat
           /\ job[f].pc \in Uploading => job[f].content \in Contents /\ R[job[f].content] \in Nat
           /\ \A o \in Objects : o.src \in Contents /\ R[o.src] \in Nat
<1>1. file[f].content \in Contents \cup {Gone}
  BY DEF TypeOK
<1>2. archive[f].current # NoObject => archive[f].current \in Objects
  BY DEF TypeOK
<1>3. \A o \in Objects : o.src \in Contents
  BY DEF Objects
<1>4. job[f].pc \in Uploading => job[f].content \in Contents
  BY DEF TypeOK
<1> QED
  BY <1>1, <1>2, <1>3, <1>4 DEF Ordered

(* The hashes that fingerprints of f name. *)
Hashes(f) == {NoHash, doc.entries[f].hash, store.entries[f].hash, pending[f].hash,
              job[f].fp.hash}

(* What a flush of the buffer leaves of f was in the buffer or the store.  *)
LEMMA FlushHashes ==
    ASSUME TypeOK, NEW p \in Entries, FlushBuffer(p), NEW f \in Files, NEW H,
           p[f].hash \in H, Hashes(f) \subseteq H
    PROVE  doc'.entries[f].hash \in H /\ store'.entries[f].hash \in H /\ pending'[f].hash \in H
<1>1. Merged(p).entries[f] \in {p[f], store.entries[f]}
  BY DEF Merged, TypeOK, Documents, Entries
<1>2. NoEntries[f].hash = NoHash
  BY DEF NoEntries, NoEntry
<1> QED
  BY <1>1, <1>2 DEF FlushBuffer, Hashes

(* A commit brings in the hash it commits, and only for its file. *)
LEMMA CommitHashes ==
    ASSUME TypeOK, NEW g \in Files, NEW fp \in Fingerprints, Commit(g, fp), NEW f \in Files, NEW H,
           f = g => fp.hash \in H, Hashes(f) \subseteq H
    PROVE  doc'.entries[f].hash \in H /\ store'.entries[f].hash \in H /\ pending'[f].hash \in H
<1> DEFINE p == [pending EXCEPT ![g] = fp]
<1>1. p \in Entries /\ p[f] = IF f = g THEN fp ELSE pending[f]
  BY DEF TypeOK, Entries
<1>2. p[f].hash \in H
  BY <1>1 DEF Hashes
<1> HIDE DEF p
<1>3. CASE Full(p)
  <2>1. FlushBuffer(p)
    BY <1>3 DEF Commit, p
  <2> QED
    BY <1>1, <1>2, <2>1, FlushHashes
<1>4. CASE ~Full(p)
  BY <1>2, <1>4 DEF Commit, Hashes, p
<1> QED
  BY <1>3, <1>4

(* A step of the pipeline brings a new hash in only for an upload that the *)
(* archive confirmed.                                                      *)
LEMMA FileHashes ==
    ASSUME IInv, NEW g \in Files, FileStep(g), NEW f \in Files, NEW H, Hashes(f) \subseteq H,
           f = g /\ (AlreadyPresent(f) \/ Confirm(f)) => Compare[job[f].content] \in H
    PROVE  Hashes(f)' \subseteq H
<1> USE DEF envVars, runVars
<1>0. TypeOK /\ JobInv
  BY DEF IInv
<1>j. job[g].fp \in Fingerprints /\ NoEntry.hash = NoHash /\ NoHash \in H
  BY <1>0 DEF TypeOK, Jobs, NoEntry, Hashes
<1>1. ASSUME NEW pc, Decide(g, pc) PROVE job'[f].fp.hash \in H
  BY <1>0, <1>1, <1>j DEF Decide, TypeOK, Hashes
<1>2. ASSUME UNCHANGED <<doc, store, pending>>, job'[f].fp.hash \in H
      PROVE  Hashes(f)' \subseteq H
  BY <1>2 DEF Hashes
<1>3. ASSUME NEW fp \in Fingerprints, Commit(g, fp), f = g => fp.hash \in H, NEW pc, Decide(g, pc)
      PROVE  Hashes(f)' \subseteq H
  <2>1. doc'.entries[f].hash \in H /\ store'.entries[f].hash \in H /\ pending'[f].hash \in H
    BY <1>0, <1>3, CommitHashes
  <2> QED
    BY <1>1, <1>3, <1>j, <2>1 DEF Hashes
<1>4. CASE Admit(g)
  <2>1. job'[f].fp.hash \in H
    <3>1. Get(g) \in {pending[g], store.entries[g]}
      BY DEF Get
    <3> QED
      BY <1>0, <1>4, <3>1 DEF Admit, TypeOK, Hashes
  <2> QED
    BY <1>2, <1>4, <2>1 DEF Admit
<1>5. CASE SkipParked(g) \/ SkipUnchanged(g) \/ Abandon(g) \/ Halt(g) \/ UploadFails(g)
  <2>1. UNCHANGED <<doc, store, pending>> /\ \E pc \in Finished : Decide(g, pc)
    BY <1>5 DEF SkipParked, SkipUnchanged, Abandon, Halt, UploadFails, Finished
  <2> QED
    BY <1>1, <1>2, <2>1
<1>6. CASE FailAndBackOff(g)
  <2> DEFINE fp == [job[g].fp EXCEPT !.seen = TRUE, !.parked = TRUE]
  <2>1. fp \in Fingerprints /\ fp.hash = job[g].fp.hash
    BY <1>j DEF Fingerprints
  <2>2. f = g => fp.hash \in H
    BY <2>1 DEF Hashes
  <2>3. Commit(g, fp) /\ Decide(g, "decided")
    BY <1>6 DEF FailAndBackOff
  <2> HIDE DEF fp
  <2> QED
    BY <1>3, <2>1, <2>2, <2>3
<1>7. CASE Refresh(g)
  <2> DEFINE fp == [seen |-> TRUE, hash |-> job[g].fp.hash, stat |-> cand[g], parked |-> FALSE]
  <2>1. fp \in Fingerprints /\ fp.hash = job[g].fp.hash
    <3>1. cand[g] \in Nat
      BY <1>0, BoundAssumption DEF TypeOK
    <3> QED
      BY <1>j, <3>1 DEF Fingerprints
  <2>2. f = g => fp.hash \in H
    BY <2>1 DEF Hashes
  <2>3. Commit(g, fp) /\ Decide(g, "unchanged")
    BY <1>7 DEF Refresh
  <2> HIDE DEF fp
  <2> QED
    BY <1>3, <2>1, <2>2, <2>3
<1>8. CASE AlreadyPresent(g) \/ Confirm(g)
  <2>1. job[g].pc \in Uploading /\ Commit(g, Shipped(g)) /\ Decide(g, "decided")
    BY <1>8 DEF AlreadyPresent, Confirm, InState, Uploading
  <2>2. Shipped(g) \in Fingerprints /\ Shipped(g).hash = Compare[job[g].content]
    <3>1. cand[g] \in Nat /\ Compare[job[g].content] \in Contents
      BY <1>0, <2>1, BoundAssumption, ContentAssumption DEF TypeOK
    <3> QED
      BY <3>1 DEF Shipped, Fingerprints
  <2>3. f = g => Shipped(g).hash \in H
    BY <1>8, <2>2
  <2> QED
    BY <1>3, <2>1, <2>2, <2>3
<1>9. CASE Seal(g) \/ Send(g) \/ Land(g)
  <2>1. job'[f].fp.hash \in H
    BY <1>0, <1>9 DEF Seal, Send, Land, TypeOK, Jobs, Hashes
  <2> QED
    BY <1>2, <1>9, <2>1 DEF Seal, Send, Land
<1> QED
  BY <1>4, <1>5, <1>6, <1>7, <1>8, <1>9 DEF FileStep

(* So does any step. *)
LEMMA StepHashes ==
    ASSUME IInv, [Next]_vars, NEW f \in Files, NEW H, Hashes(f) \subseteq H,
           AlreadyPresent(f) \/ Confirm(f) => Compare[job[f].content] \in H
    PROVE  Hashes(f)' \subseteq H
<1> USE DEF envVars, runVars
<1>0. TypeOK /\ JobInv /\ NoHash \in H
  BY DEF IInv, Hashes
<1>n. /\ EmptyDocument.entries[f].hash = NoHash /\ NoEntries[f].hash = NoHash
      /\ NoEntry.hash = NoHash /\ Queued.fp.hash = NoHash
  BY DEF EmptyDocument, NoEntries, NoEntry, Queued
<1>1. CASE UNCHANGED <<doc, store, pending, job>>
  BY <1>1 DEF Hashes
<1>2. ASSUME NEW g \in Files, FileStep(g) PROVE Hashes(f)' \subseteq H
  BY <1>2, FileHashes
<1>3. CASE OpenStore
  BY <1>0, <1>3, <1>n DEF OpenStore, Hashes
<1>4. ASSUME NEW hidden \in SUBSET Files, Discover(hidden) PROVE Hashes(f)' \subseteq H
  <2>1. EnsuredSpec.entries[f].hash \in {NoHash, store.entries[f].hash}
    BY <1>n DEF EnsuredSpec
  <2>2. /\ store' = EnsuredSpec /\ doc' \in {doc, EnsuredSpec}
        /\ UNCHANGED <<pending, job>>
    BY <1>4 DEF Discover
  <2> QED
    BY <1>0, <2>1, <2>2 DEF Hashes
<1>5. CASE FlushBeforeDrop
  <2>1. pending \in Entries /\ FlushBuffer(pending) /\ job' = job
    BY <1>0, <1>5 DEF FlushBeforeDrop, TypeOK
  <2>2. pending[f].hash \in H
    BY DEF Hashes
  <2>3. doc'.entries[f].hash \in H /\ store'.entries[f].hash \in H /\ pending'[f].hash \in H
    BY <1>0, <2>1, <2>2, FlushHashes
  <2> QED
    BY <1>0, <2>1, <2>3 DEF Hashes
<1>6. CASE DropVanished
  <2>1. store' = Live /\ doc' \in {doc, Live} /\ UNCHANGED <<pending, job>>
    BY <1>6 DEF DropVanished, WriteDocument
  <2>2. Live.entries[f] \in {store.entries[f], NoEntry}
    BY <1>0 DEF Live, TypeOK, Documents, Entries
  <2> QED
    BY <1>0, <1>n, <2>1, <2>2 DEF Hashes
<1>7. CASE CloseStore
  <2>1. /\ store' = EmptyDocument /\ pending' = NoEntries /\ job'[f] = Queued
        /\ doc' \in {doc, Merged(pending)}
    BY <1>7 DEF CloseStore, WriteDocument
  <2>2. Merged(pending).entries[f] \in {pending[f], store.entries[f]}
    BY <1>0 DEF Merged, TypeOK, Documents, Entries
  <2> QED
    BY <1>0, <1>n, <2>1, <2>2 DEF Hashes
<1>8. CASE Crash
  BY <1>0, <1>8, <1>n DEF Crash, Hashes
<1>9. CASE Reset \/ Prune
  <2>1. doc'.entries[f] \in {doc.entries[f], NoEntry} /\ UNCHANGED <<store, pending, job>>
    BY <1>0, <1>9 DEF Reset, Prune, TypeOK, Documents, Entries, NoEntries
  <2> QED
    BY <1>0, <1>n, <2>1 DEF Hashes
<1>10. CASE \/ UNCHANGED vars \/ DiscoverFails \/ Cancel \/ EndPass
            \/ \E g \in Files, c \in Contents \cup {Gone} : ChangeFile(g, c)
            \/ \E g \in Gens : ChangeSpec(g)
            \/ \E g \in Files, o \in Objects : LatePutLands(g, o) \/ LatePutIsLost(g, o)
  <2>1. UNCHANGED <<doc, store, pending, job>>
    BY <1>10 DEF vars, DiscoverFails, Cancel, EndPass, ChangeFile, ChangeSpec, LatePutLands,
                 LatePutIsLost
  <2> QED
    BY <1>1, <2>1
<1> QED
  BY <1>2, <1>3, <1>4, <1>5, <1>6, <1>7, <1>8, <1>9, <1>10 DEF Next

(* Where f's upload is left alone or ends, and no PUT of f is given up.    *)
LEMMA WayFrame ==
    ASSUME NEW R, NEW f \in Files, WayInv(R, f), LateInv(R, f),
           file'[f] = file[f], archive'[f] = archive[f],
           job'[f] = job[f] \/ job'[f].pc \notin Uploading,
           \A o \in Objects : <<f, o>> \in late' =>
              <<f, o>> \in late /\ (phase' = "idle" \/ job'[f].pc = "decided")
    PROVE  WayInv(R, f)' /\ LateInv(R, f)'
<1>1. WayInv(R, f)'
  BY DEF WayInv, CurrentUpTo, Uploading
<1>2. LateInv(R, f)'
  BY DEF LateInv, CurrentUpTo
<1> QED
  BY <1>1, <1>2

(* The pipeline keeps the order: what is sealed is read from the file, and *)
(* what lands was sealed.                                                  *)
LEMMA FileWay ==
    ASSUME IInv, NEW R, Ordered(R), NEW f \in Files, FileStep(f), WayInv(R, f), LateInv(R, f)
    PROVE  WayInv(R, f)' /\ LateInv(R, f)'
<1> USE DEF envVars, runVars
<1>0. TypeOK /\ JobInv
  BY DEF IInv
<1>1. /\ phase = "pass" /\ job[f].pc # "decided" /\ phase' = phase /\ file' = file
  BY DEF FileStep, Admit, SkipParked, SkipUnchanged, FailAndBackOff, Refresh, Seal,
         AlreadyPresent, Send, Land, Confirm, UploadFails, Halt, Abandon, Opens, InState
<1>2. \A o \in Objects : <<f, o>> \notin late
  BY <1>1 DEF LateInv
<1>3. /\ R[file[f].content] \in Nat
      /\ archive[f].current # NoObject => R[archive[f].current.src] \in Nat
      /\ job[f].pc \in Uploading => job[f].content \in Contents /\ R[job[f].content] \in Nat
  BY <1>0, RankFacts
<1>4. CASE /\ UNCHANGED <<archive, late>>
           /\ job'[f].pc \notin Uploading
  BY <1>1, <1>2, <1>4, WayFrame
<1>5. CASE Admit(f)
  <2>1. job'[f].pc = "admitted"
    BY <1>0, <1>5 DEF Admit, TypeOK
  <2> QED
    BY <1>4, <1>5, <2>1 DEF Admit, Uploading
<1>6. CASE \/ SkipParked(f) \/ SkipUnchanged(f) \/ Abandon(f) \/ Halt(f) \/ FailAndBackOff(f)
           \/ Refresh(f) \/ AlreadyPresent(f) \/ Confirm(f)
  <2>1. UNCHANGED <<archive, late>> /\ \E pc \in Finished : Decide(f, pc)
    BY <1>6 DEF SkipParked, SkipUnchanged, Abandon, Halt, FailAndBackOff, Refresh,
                AlreadyPresent, Confirm, Finished
  <2>2. job'[f].pc \in Finished
    BY <1>0, <2>1 DEF Decide, TypeOK
  <2> QED
    BY <1>4, <2>1, <2>2 DEF Finished, Uploading
<1>7. CASE Seal(f)
  <2>1. /\ job'[f].pc = "sealed" /\ job'[f].content = file[f].content
        /\ UNCHANGED <<archive, late>>
    BY <1>0, <1>7 DEF Seal, TypeOK
  <2>2. CurrentUpTo(R, f, file[f].content)
    BY DEF WayInv
  <2>3. WayInv(R, f)'
    BY <1>1, <1>3, <2>1, <2>2 DEF WayInv, CurrentUpTo, Uploading
  <2> QED
    BY <1>2, <2>1, <2>3 DEF LateInv
<1>8. CASE Send(f)
  <2>1. /\ job[f].pc = "sealed" /\ job'[f].pc = "sent" /\ job'[f].content = job[f].content
        /\ UNCHANGED <<archive, late>>
    BY <1>0, <1>8 DEF Send, InState, TypeOK, Jobs
  <2>2. WayInv(R, f)'
    BY <1>1, <2>1 DEF WayInv, CurrentUpTo, Uploading
  <2> QED
    BY <1>2, <2>1, <2>2 DEF LateInv
<1>9. CASE Land(f)
  <2>1. /\ job[f].pc = "sent" /\ job'[f].pc = "landed" /\ job'[f].content = job[f].content
        /\ archive'[f].current = Sealed(job[f].content) /\ UNCHANGED late
    BY <1>0, <1>9 DEF Land, Put, InState, TypeOK, Jobs
  <2>2. /\ Sealed(job[f].content).src = job[f].content /\ Sealed(job[f].content) # NoObject
    <3>1. job[f].content \in Contents
      BY <1>3, <2>1 DEF Uploading
    <3>2. Sealed(job[f].content) \in Objects
      BY <1>0, <3>1, SealedType
    <3> QED
      BY <3>2, NoObjectAssumption DEF Sealed
  <2>3. R[job[f].content] <= R[file[f].content] /\ R[job[f].content] \in Nat
    BY <1>3, <2>1 DEF WayInv, Uploading
  <2>4. WayInv(R, f)'
    BY <1>1, <2>1, <2>2, <2>3 DEF WayInv, CurrentUpTo, Uploading
  <2> QED
    BY <1>2, <2>1, <2>4 DEF LateInv
<1>10. CASE UploadFails(f)
  <2>1. /\ job[f].pc \in Uploading /\ job'[f].pc = "decided" /\ UNCHANGED archive
        /\ late' = IF job[f].pc = "sent"
                   THEN late \cup {<<f, Sealed(job[f].content)>>} ELSE late
    BY <1>0, <1>10 DEF UploadFails, Decide, TypeOK, Uploading
  <2>2. CASE job[f].pc # "sent"
    BY <1>4, <2>1, <2>2 DEF Uploading
  <2>3. CASE job[f].pc = "sent"
    <3>1. Sealed(job[f].content).src = job[f].content
      BY DEF Sealed
    <3>2. CurrentUpTo(R, f, job[f].content) /\ R[job[f].content] <= R[file[f].content]
      BY <2>1, <2>3 DEF WayInv
    <3>3. WayInv(R, f)'
      BY <1>1, <2>1 DEF WayInv, CurrentUpTo, Uploading
    <3>4. \A o \in Objects : <<f, o>> \in late' => o = Sealed(job[f].content)
      BY <1>2, <2>1, <2>3
    <3>5. LateInv(R, f)'
      BY <1>1, <2>1, <3>1, <3>2, <3>4 DEF LateInv, CurrentUpTo
    <3> QED
      BY <3>3, <3>5
  <2> QED
    BY <2>2, <2>3
<1> QED
  BY <1>5, <1>6, <1>7, <1>8, <1>9, <1>10 DEF FileStep

(* A step of another file's pipeline. *)
LEMMA OtherWay ==
    ASSUME IInv, NEW R, NEW f \in Files, NEW g \in Files, g # f, FileStep(g),
           WayInv(R, f), LateInv(R, f)
    PROVE  WayInv(R, f)' /\ LateInv(R, f)'
<1> USE DEF envVars, runVars
<1>0. TypeOK
  BY DEF IInv
<1>1. file' = file /\ phase' = phase
  BY DEF FileStep, Admit, SkipParked, SkipUnchanged, FailAndBackOff, Refresh, Seal,
         AlreadyPresent, Send, Land, Confirm, UploadFails, Halt, Abandon
<1>2. job'[f] = job[f]
  BY <1>0 DEF FileStep, Admit, SkipParked, SkipUnchanged, FailAndBackOff, Refresh, Seal,
         AlreadyPresent, Send, Land, Confirm, UploadFails, Halt, Abandon, Decide, TypeOK
<1>3. archive'[f] = archive[f]
  BY <1>0 DEF FileStep, Admit, SkipParked, SkipUnchanged, FailAndBackOff, Refresh, Seal,
         AlreadyPresent, Send, Land, Put, Confirm, UploadFails, Halt, Abandon, TypeOK
<1>4. \A o \in Objects : <<f, o>> \in late' => <<f, o>> \in late
  BY DEF FileStep, Admit, SkipParked, SkipUnchanged, FailAndBackOff, Refresh, Seal,
         AlreadyPresent, Send, Land, Confirm, UploadFails, Halt, Abandon
<1>5. \A o \in Objects : <<f, o>> \in late' => phase' = "idle" \/ job'[f].pc = "decided"
  BY <1>1, <1>2, <1>4 DEF LateInv
<1> QED
  BY <1>1, <1>2, <1>3, <1>4, <1>5, WayFrame

(* Every step keeps a file's order, where a given-up PUT is over before    *)
(* the next run.                                                           *)
LEMMA StepWay ==
    ASSUME IInv, [Next]_vars, ~LatePuts, NEW R, Ordered(R), NEW f \in Files,
           WayInv(R, f), LateInv(R, f)
    PROVE  WayInv(R, f)' /\ LateInv(R, f)'
<1> USE DEF envVars, runVars
<1>0. TypeOK /\ JobInv
  BY DEF IInv
<1>1. ASSUME file' = file, archive' = archive, job' = job, late' = late,
             phase # "idle" \/ late = {}
      PROVE  WayInv(R, f)' /\ LateInv(R, f)'
  BY <1>1, WayFrame DEF LateInv
<1>2. ASSUME NEW g \in Files, FileStep(g) PROVE WayInv(R, f)' /\ LateInv(R, f)'
  BY <1>2, FileWay, OtherWay
<1>3. ASSUME NEW g \in Files, NEW c \in Contents \cup {Gone}, ChangeFile(g, c)
      PROVE  WayInv(R, f)' /\ LateInv(R, f)'
  <2>1. UNCHANGED <<archive, late, phase, job>>
    BY <1>3 DEF ChangeFile
  <2>2. R[file[f].content] <= R[file'[f].content] /\ R[file'[f].content] \in Nat
    <3>1. CASE g = f
      <4>1. <<file[f].content, c>> \in Follows /\ file'[f].content = c
        BY <1>0, <1>3, <3>1 DEF ChangeFile, TypeOK
      <4>2. file[f].content \in Contents \cup {Gone}
        BY <1>0 DEF TypeOK
      <4> QED
        BY <4>1, <4>2 DEF Ordered
    <3>2. CASE g # f
      <4>1. file'[f] = file[f]
        BY <1>0, <1>3, <3>2 DEF ChangeFile, TypeOK
      <4> QED
        BY <1>0, <4>1, RankFacts
    <3> QED
      BY <3>1, <3>2
  <2>3. /\ R[file[f].content] \in Nat
        /\ archive[f].current # NoObject => R[archive[f].current.src] \in Nat
        /\ job[f].pc \in Uploading => R[job[f].content] \in Nat
        /\ \A o \in Objects : R[o.src] \in Nat
    BY <1>0, RankFacts
  <2>4. WayInv(R, f)'
    BY <2>1, <2>2, <2>3 DEF WayInv, CurrentUpTo
  <2>5. LateInv(R, f)'
    BY <2>1, <2>2, <2>3 DEF LateInv, CurrentUpTo
  <2> QED
    BY <2>4, <2>5
<1>4. ASSUME NEW g \in Files, NEW o \in Objects, LatePutLands(g, o)
      PROVE  WayInv(R, f)' /\ LateInv(R, f)'
  <2>1. /\ UNCHANGED <<file, phase, job>> /\ late' = late \ {<<g, o>>} /\ <<g, o>> \in late
        /\ Put(g, o)
    BY <1>4 DEF LatePutLands
  <2>2. CASE g # f
    <3>1. archive'[f] = archive[f]
      BY <1>0, <2>1, <2>2 DEF Put, TypeOK
    <3> QED
      BY <2>1, <3>1, WayFrame DEF LateInv
  <2>3. CASE g = f
    <3>1. archive'[f].current = o /\ o # NoObject
      BY <1>0, <2>1, <2>3, NoObjectAssumption DEF Put, TypeOK
    <3>2. /\ phase = "idle" \/ job[f].pc = "decided"
          /\ R[o.src] <= R[file[f].content]
          /\ \A p \in Objects : <<f, p>> \in late => p = o
      BY <2>1, <2>3 DEF LateInv
    <3>3. job[f].pc \notin Uploading
      BY <1>0, <3>2 DEF JobInv, Queued, Uploading
    <3>4. WayInv(R, f)'
      BY <2>1, <3>1, <3>2, <3>3 DEF WayInv, CurrentUpTo, Uploading
    <3>5. LateInv(R, f)'
      BY <2>1, <2>3, <3>2 DEF LateInv
    <3> QED
      BY <3>4, <3>5
  <2> QED
    BY <2>2, <2>3
<1>5. ASSUME NEW g \in Files, NEW o \in Objects, LatePutIsLost(g, o)
      PROVE  WayInv(R, f)' /\ LateInv(R, f)'
  BY <1>5, WayFrame DEF LatePutIsLost, LateInv
<1>6. CASE OpenStore
  BY <1>1, <1>6, WayFrame DEF OpenStore
<1>7. CASE \/ DiscoverFails \/ Cancel \/ EndPass \/ FlushBeforeDrop \/ DropVanished
           \/ \E hidden \in SUBSET Files : Discover(hidden)
  <2>1. /\ file' = file /\ archive' = archive /\ job' = job /\ late' = late
        /\ phase # "idle"
    BY <1>7 DEF DiscoverFails, Cancel, EndPass, FlushBeforeDrop, DropVanished, Discover
  <2> QED
    BY <1>1, <2>1
<1>8. CASE UNCHANGED vars \/ Reset \/ Prune \/ (\E g \in Gens : ChangeSpec(g))
  <2>1. UNCHANGED <<file, archive, job, late, phase>>
    BY <1>8 DEF vars, Reset, Prune, ChangeSpec
  <2> QED
    BY <2>1, WayFrame DEF LateInv
<1>9. CASE CloseStore
  <2>1. /\ file' = file /\ archive' = archive /\ late' = late /\ phase' = "idle"
        /\ job'[f].pc \notin Uploading
    BY <1>9 DEF CloseStore, Queued, Uploading
  <2> QED
    BY <2>1, WayFrame
<1>10. CASE Crash
  <2>1. /\ file' = file /\ archive' = archive /\ phase # "idle" /\ phase' = "idle"
        /\ job'[f].pc \notin Uploading
        /\ late' = late \cup {<<g, Sealed(job[g].content)>> :
                                 g \in {h \in Files : job[h].pc = "sent"}}
    BY <1>10 DEF Crash, Queued, Uploading
  <2>2. CASE job[f].pc # "sent"
    <3>1. \A o \in Objects : <<f, o>> \in late' => <<f, o>> \in late
      BY <2>1, <2>2
    <3> QED
      BY <2>1, <3>1, WayFrame
  <2>3. CASE job[f].pc = "sent"
    <3>1. \A o \in Objects : <<f, o>> \notin late
      BY <2>1, <2>3 DEF LateInv
    <3>2. \A o \in Objects : <<f, o>> \in late' => o = Sealed(job[f].content)
      BY <2>1, <3>1
    <3>3. CurrentUpTo(R, f, job[f].content) /\ R[job[f].content] <= R[file[f].content]
      BY <2>3 DEF WayInv, Uploading
    <3>4. Sealed(job[f].content).src = job[f].content
      BY DEF Sealed
    <3>5. LateInv(R, f)'
      BY <2>1, <3>2, <3>3, <3>4 DEF LateInv, CurrentUpTo
    <3>6. WayInv(R, f)'
      BY <2>1 DEF WayInv, CurrentUpTo, Uploading
    <3> QED
      BY <3>5, <3>6
  <2> QED
    BY <2>2, <2>3
<1> QED
  BY <1>2, <1>3, <1>4, <1>5, <1>6, <1>7, <1>8, <1>9, <1>10 DEF Next

(* The current version of a file only gets newer. *)
LEMMA CurrentGrows ==
    ASSUME IInv, [Next]_vars, NEW R, Ordered(R), NEW f \in Files, WayInv(R, f), LateInv(R, f),
           archive[f].current # NoObject
    PROVE  /\ archive'[f].current # NoObject
           /\ archive'[f].current.src \in Contents
           /\ R[archive[f].current.src] <= R[archive'[f].current.src]
<1> USE DEF envVars, runVars
<1>0. TypeOK /\ TypeOK'
  BY InvStep DEF IInv
<1>r. R[archive[f].current.src] \in Nat /\ archive[f].current.src \in Contents
  BY <1>0, RankFacts
<1>1. CASE archive'[f] = archive[f]
  BY <1>1, <1>r
<1>2. CASE Land(f)
  <2>1. job[f].pc = "sent" /\ archive'[f].current = Sealed(job[f].content)
    BY <1>0, <1>2 DEF Land, Put, InState, TypeOK
  <2>2. job[f].content \in Contents /\ Sealed(job[f].content) \in Objects
    BY <1>0, <2>1, SealedType DEF TypeOK, Uploading
  <2>3. R[archive[f].current.src] <= R[job[f].content]
    BY <2>1 DEF WayInv, CurrentUpTo
  <2> QED
    BY <2>1, <2>2, <2>3, NoObjectAssumption DEF Sealed
<1>3. ASSUME NEW o \in Objects, LatePutLands(f, o)
      PROVE  /\ archive'[f].current # NoObject
             /\ archive'[f].current.src \in Contents
             /\ R[archive[f].current.src] <= R[archive'[f].current.src]
  <2>1. archive'[f].current = o /\ <<f, o>> \in late
    BY <1>0, <1>3 DEF LatePutLands, Put, TypeOK
  <2> QED
    BY <1>0, <2>1, NoObjectAssumption, RankFacts DEF LateInv, CurrentUpTo
<1>4. \/ archive'[f] = archive[f] \/ Land(f) \/ \E o \in Objects : LatePutLands(f, o)
  <2>1. \/ UNCHANGED archive \/ (\E g \in Files : Land(g))
        \/ (\E g \in Files, o \in Objects : LatePutLands(g, o))
    BY DEF Next, vars, ChangeFile, ChangeSpec, LatePutIsLost, OpenStore, Discover, FileStep,
           Admit, SkipParked, SkipUnchanged, FailAndBackOff, Refresh, Seal, AlreadyPresent, Send,
           Confirm, UploadFails, Halt, Abandon, DiscoverFails, Cancel, EndPass, FlushBeforeDrop,
           DropVanished, CloseStore, Crash, Reset, Prune
  <2> QED
    BY <1>0, <2>1 DEF Land, LatePutLands, Put, TypeOK
<1> QED
  BY <1>1, <1>2, <1>3, <1>4

(* Every step keeps the fingerprints behind the current versions. *)
LEMMA StepBehind ==
    ASSUME IInv, [Next]_vars, NEW R, Ordered(R), OrderInv(R)
    PROVE  BehindInv(R)'
<1>0. TypeOK /\ \A f \in Files : WayInv(R, f) /\ LateInv(R, f)
  BY DEF IInv, OrderInv
<1> SUFFICES ASSUME NEW f \in Files, NEW h \in Hashes(f)', h # NoHash
             PROVE  /\ archive'[f].current # NoObject
                    /\ \A c \in Contents : Compare[c] = h => R[c] <= R[archive'[f].current.src]
  BY DEF BehindInv, Behind, Hashes
<1> DEFINE Old(x) == /\ archive[f].current # NoObject
                     /\ \A c \in Contents : Compare[c] = x => R[c] <= R[archive[f].current.src]
           H == {x \in Hashes(f) \cup {Compare[job[f].content], h} : x # NoHash => Old(x)}
<1>1. Hashes(f) \subseteq H
  BY DEF OrderInv, BehindInv, Behind, Hashes
<1>2. AlreadyPresent(f) \/ Confirm(f) => Compare[job[f].content] \in H
  <2> SUFFICES ASSUME AlreadyPresent(f) \/ Confirm(f) PROVE Old(Compare[job[f].content])
    OBVIOUS
  <2>1. job[f].pc \in {"sealed", "landed"}
    BY DEF AlreadyPresent, Confirm, InState
  <2>2. job[f].content \in Contents
    BY <1>0, <2>1 DEF TypeOK, Uploading
  <2>3. archive[f].current # NoObject /\ R[job[f].content] <= R[archive[f].current.src]
    <3>1. CASE AlreadyPresent(f)
      <4>1. archive[f].current = Sealed(job[f].content) /\ Sealed(job[f].content) \in Objects
        BY <1>0, <2>2, <3>1, SealedType DEF AlreadyPresent
      <4>2. Sealed(job[f].content).src = job[f].content /\ R[job[f].content] \in Nat
        BY <2>2 DEF Sealed, Ordered
      <4> QED
        BY <4>1, <4>2, NoObjectAssumption
    <3>2. CASE Confirm(f)
      BY <1>0, <3>2 DEF Confirm, InState, WayInv
    <3> QED
      BY <3>1, <3>2
  <2>4. \A c \in Contents : Compare[c] = Compare[job[f].content] => R[c] = R[job[f].content]
    BY <2>2 DEF Ordered
  <2> QED
    BY <2>3, <2>4
<1> HIDE DEF H
<1>3. h \in H
  BY <1>1, <1>2, StepHashes
<1>4. Old(h)
  BY <1>3 DEF H
<1>5. /\ archive'[f].current # NoObject /\ archive'[f].current.src \in Contents
      /\ R[archive[f].current.src] <= R[archive'[f].current.src]
  BY <1>0, <1>4, CurrentGrows
<1>6. R[archive[f].current.src] \in Nat /\ R[archive'[f].current.src] \in Nat
      /\ \A c \in Contents : R[c] \in Nat
  BY <1>0, <1>4, <1>5, RankFacts DEF Ordered
<1> QED
  BY <1>4, <1>5, <1>6

(* state.go: "a crash before the replace re-runs those files onto their    *)
(* existing keys".  For files whose content only moves forward, and PUTs   *)
(* that land before the next run or never, a file the record calls settled *)
(* has that content as the current version under its key, whatever failed  *)
(* or crashed on the way.                                                  *)
THEOREM SettledAlwaysCurrent ==
    ASSUME ~LatePuts, NEW R, Ordered(R)
    PROVE  Spec => []SettledIsCurrent
<1>1. Init => OrderInv(R)
  <2> SUFFICES ASSUME Init PROVE OrderInv(R)
    OBVIOUS
  <2>1. \A f \in Files : /\ doc.entries[f].hash = NoHash /\ store.entries[f].hash = NoHash
                         /\ pending[f].hash = NoHash /\ job[f].fp.hash = NoHash
    BY DEF Init, EmptyDocument, NoEntries, NoEntry, Queued
  <2>2. BehindInv(R)
    BY <2>1 DEF BehindInv, Behind
  <2>3. \A f \in Files : archive[f].current = NoObject /\ job[f].pc = "queued"
    BY DEF Init, Queued
  <2>4. \A f \in Files : WayInv(R, f)
    BY <2>3 DEF WayInv, CurrentUpTo, Uploading
  <2>5. \A f \in Files : LateInv(R, f)
    BY DEF LateInv, Init
  <2> QED
    BY <2>2, <2>4, <2>5 DEF OrderInv
<1>2. IInv /\ OrderInv(R) /\ [Next]_vars => OrderInv(R)'
  BY StepBehind, StepWay DEF OrderInv
<1>3. IInv /\ OrderInv(R) => SettledIsCurrent
  <2> SUFFICES ASSUME IInv, OrderInv(R), NEW f \in Files, file[f].content # Gone,
                      doc.entries[f].hash # NoHash, doc.entries[f].stat = file[f].stat
               PROVE  /\ archive[f].current # NoObject
                      /\ Compare[archive[f].current.src] = doc.entries[f].hash
    BY DEF SettledIsCurrent
  <2>1. doc.entries[f].hash = Compare[file[f].content] /\ file[f].content \in Contents
    BY DEF IInv, StampInv, Stamped, TypeOK
  <2>2. archive[f].current # NoObject /\ R[file[f].content] <= R[archive[f].current.src]
    BY <2>1 DEF OrderInv, BehindInv, Behind
  <2>3. R[archive[f].current.src] <= R[file[f].content]
    BY <2>2 DEF OrderInv, WayInv, CurrentUpTo
  <2>4. /\ archive[f].current.src \in Contents /\ R[archive[f].current.src] \in Nat
        /\ R[file[f].content] \in Nat
    BY <2>2, RankFacts DEF IInv
  <2>5. R[archive[f].current.src] = R[file[f].content]
    BY <2>2, <2>3, <2>4
  <2> QED
    BY <2>1, <2>2, <2>4, <2>5 DEF Ordered
<1> QED
  BY <1>1, <1>2, <1>3, Inductive, PTL DEF Spec

(***************************************************************************)
(* Refinement: the engine implements UploadRecord.                         *)
(***************************************************************************)
LEMMA PromiseInit == Init => Promise!Init
<1> SUFFICES ASSUME Init PROVE Promise!Init
  OBVIOUS
<1>1. \A f \in Files : archive[f].versions = {} /\ doc.entries[f] = NoEntry
  BY DEF Init, EmptyDocument, NoEntries
<1>2. ShippedClaims = [f \in Files |-> {}]
  BY <1>1 DEF ShippedClaims, Holds
<1>3. RecordedClaims = [f \in Files |-> NoClaim]
  BY <1>1 DEF RecordedClaims, NoEntry
<1> QED
  BY <1>2, <1>3 DEF Promise!Init

(* Only a landing PUT changes the bucket, and it leaves the document alone.*)
LEMMA OnlyPutsChangeTheArchive ==
    ASSUME TypeOK, [Next]_vars, archive' # archive
    PROVE  doc' = doc /\ \E f \in Files : \E o : Put(f, o)
<1> USE DEF envVars, runVars
<1>1. ASSUME NEW f \in Files, FileStep(f), ~Land(f)
      PROVE  archive' = archive
  BY <1>1 DEF FileStep, Admit, SkipParked, SkipUnchanged, FailAndBackOff,
     Refresh, Seal, AlreadyPresent, Send, Confirm, UploadFails, Halt, Abandon
<1>2. (\E f \in Files : Land(f))
      \/ (\E f \in Files, o \in Objects : LatePutLands(f, o))
  BY <1>1 DEF Next, vars, ChangeFile, ChangeSpec, LatePutIsLost, OpenStore,
     Discover, DiscoverFails, Cancel, EndPass, FlushBeforeDrop, DropVanished,
     CloseStore, Crash, Reset, Prune
<1> QED
  BY <1>2 DEF Land, LatePutLands

(* Every step is a step of the promise, or a stutter. *)
LEMMA PromiseStep ==
    ASSUME IInv, IInv', [Next]_vars
    PROVE  [Promise!Next]_(Promise!recordVars)
<1>0. TypeOK /\ TypeOK' /\ FingerprintInv'
  BY DEF IInv
<1>1. CASE archive' = archive
  <2>1. ShippedClaims' = ShippedClaims
    BY <1>1 DEF ShippedClaims, Holds
  <2>2. ASSUME NEW f \in Files, doc'.entries[f].hash # NoHash
        PROVE  [digest |-> doc'.entries[f].hash, gen |-> doc'.spec]
                  \in ShippedClaims[f]
    <3>1. doc'.entries[f].hash \in Contents /\ doc'.spec \in Gens \cup {NoGen}
      BY <1>0, <2>2 DEF TypeOK, Documents, Entries, Fingerprints
    <3>2. doc'.spec # NoGen /\ Holds(f, doc'.entries[f].hash, doc'.spec)
      BY <1>0, <1>1, <2>2 DEF FingerprintInv, Backed, Holds
    <3>3. [digest |-> doc'.entries[f].hash, gen |-> doc'.spec] \in Claims
      BY <3>1, <3>2 DEF Claims
    <3> QED
      BY <3>2, <3>3 DEF ShippedClaims
  <2>3. \A f \in Files : RecordedClaims'[f] \in
                            {NoClaim, RecordedClaims[f]} \cup ShippedClaims[f]
    BY <2>2 DEF RecordedClaims, NoClaim
  <2>4. RecordedClaims' = [f \in Files |-> RecordedClaims'[f]]
    BY DEF RecordedClaims
  <2>5. Promise!Recorded
    BY <2>1, <2>3, <2>4 DEF Promise!Recorded
  <2> QED
    BY <2>5 DEF Promise!Next
<1>2. CASE archive' # archive
  <2>1. doc' = doc
    BY <1>0, <1>2, OnlyPutsChangeTheArchive
  <2>2. PICK f \in Files : \E o : Put(f, o)
    BY <1>0, <1>2, OnlyPutsChangeTheArchive
  <2>3. RecordedClaims' = RecordedClaims
    BY <2>1 DEF RecordedClaims, NoClaim
  <2>4. /\ archive[f].versions \subseteq archive'[f].versions
        /\ \A g \in Files : g # f => archive'[g] = archive[g]
    BY <1>0, <2>2 DEF Put, TypeOK
  <2>5. \A g \in Files : g # f => ShippedClaims'[g] = ShippedClaims[g]
    BY <2>4 DEF ShippedClaims, Holds
  <2>6. /\ ShippedClaims'[f] = ShippedClaims[f] \cup ShippedClaims'[f]
        /\ ShippedClaims'[f] \in SUBSET Claims
    BY <2>4 DEF ShippedClaims, Holds
  <2>7. ShippedClaims' =
           [ShippedClaims EXCEPT ![f] = @ \cup ShippedClaims'[f]]
    BY <2>5, <2>6 DEF ShippedClaims
  <2>8. Promise!Stored
    BY <2>3, <2>6, <2>7 DEF Promise!Stored
  <2> QED
    BY <2>8 DEF Promise!Next
<1> QED
  BY <1>1, <1>2

(* The engine keeps Article 7's promise for every instance: each of its    *)
(* steps, crashes and failed writes included, is a step of UploadRecord or *)
(* changes neither the record nor what the bucket amounts to.              *)
THEOREM EngineKeepsPromise == Spec => KeepsPromise
<1>1. Init => Promise!Init
  BY PromiseInit
<1>2. IInv /\ IInv' /\ [Next]_vars => [Promise!Next]_(Promise!recordVars)
  BY PromiseStep
<1> QED
  BY <1>1, <1>2, Inductive, PTL DEF Spec, KeepsPromise, Promise!Spec
=============================================================================
