# Quesma Shipper: TLA+ specifications

Formal models of the Quesma Shipper (the daemon that archives AI-agent session
files into a customer's bucket) and of its control plane, the Fleet Manager.
The models are translated from the Go code in `src/`; TLC checks them on small
instances and TLAPS proves the main safety results for every value of the
constants. Paths below are relative to the repository.

## 1. Inventory of the system

| Component | State it keeps | Operations | Hard behaviour |
|---|---|---|---|
| Flush engine (`src/internal/engine`: engine, file, upload, manifest, derived, health) | a run's candidates, jobs, report | one `Run` per tick: pause gate, open store, discover, pass per source, enrichers, drop vanished, boundary flush | files change while read; PUT lands without an answer; crash between PUT and commit |
| Fingerprint store (`engine/state.go`, `commitbuffer.go`, `platform/safeio.go`) | one JSON document, replaced atomically; a buffer of commits | `Open`, `CommitAll`, `EnsureSpec`, `DropVanished`, `Reset`, `Prune` | failed replace, discarded corrupt document, changed spec |
| Source pass (`engine/pool.go`, `upload.go`) | budget, memory gate, compute and upload slots, accumulator, latches | admit, prepare, group, authorize, settle, stop | reordered results, latches racing with groups in flight, everybody waiting for everybody |
| Enrichment (`engine/derived.go`, `sources/*` enrichers) | staged recent files, derived objects | recompute inside a 24 h window, ship derived objects | stale window, partial staging |
| Upload port (`src/app/vendupload.go`, `internal/upload`, `controlplane/uploads.go`) | a ticket per object | authorize a group, PUT each object with its ticket | ticket expiry, clock skew, partial answers |
| Discovery (`internal/sources/gather.go`, per-agent adapters) | none | walk globs, collapse identities | unreadable directories look like absence |
| Repository tracking (`internal/sources/ignore.go`, `anchor.go`, `app/survey.go`, `cli/tracking.go`) | marker files, a flush's caches, the browser's rows | judge a session, load it, survey, switch a row | caches against files that agents, git and the user change meanwhile |
| Redaction and sealing (`internal/transforms`) | compiled rules | plan a string, walk a line, compress, encrypt | overlapping matches, documents inside strings, torn lines |
| Configuration (`internal/config`, `internal/controlplane/cache.go`, `refresh.go`) | last accepted configuration, layers | resolve, refresh, cache | stale cache, generation going backwards |
| Control-plane client (`internal/controlplane`) | credentials, enrollment attempt on disk | enroll, refresh, revoke, heartbeat | retry after a lost answer, revocation races |
| Daemon and application (`src/app`, `internal/cli/run.go`) | tick timer, pause file, last verdict | tick, flush, drain, pause, re-enroll, judge | drain against a tick, pause against a run |
| Diagnosis and command line (`src/app/diagnose.go`, `internal/cli`) | none | reports over the other state | reads concurrent with a run |
| Platform (`internal/platform`) | lock files, crash journal, audit log | lock, atomic write, rotate | crash between two file operations |
| Identity (`internal/identity`) | device key, install id | load or create | two processes creating at once |
| Readers of agents' databases and accounts | none | export SQLite and account data | database written while read |
| Packaging and update, unsealing tool | installed binaries | install, update, supervise; decrypt | restart between two replacements |
| Fleet Manager: enrollment (`fleet-manager/src/manager.go`, `admin.go`) | invite, grant and install records under versions | enroll by invite or grant, revoke, release | four writes by concurrent handlers that may die |
| Fleet Manager: configuration (`config_authorship.go`, `model.go`) | configuration documents | author, publish, resolve for an install | lost update by two administrators |
| Fleet Manager: upload authorization (`upload.go`) | none (probes the bucket) | check a batch, split already stored, mint tickets | object stored between probe and PUT |
| Fleet Manager: activity, tags, catalog, telemetry | seen records, tags, catalogue pages | append, merge, sweep | concurrent merges |
| Fleet Manager: storage backends (`gcp`, `aws`, `azure`) | objects | get, create-if-absent, replace-if-version | lost answers to conditional writes |
| Fleet Manager: administration UI | sessions | forms over the operations above | none of its own |

How they interact. The daemon's tick loop calls the engine's `Run`. `Run` holds
the store's file lock for its whole length, discovers each source, and gives its
candidates to a source pass. The pass's single loop goroutine owns every counter
and the report; workers read, scrub and seal; a group goroutine asks the Fleet
Manager for upload tickets through the upload port and PUTs straight into the
bucket. Results come back over channels in any order and the loop commits
fingerprints through the commit buffer, which replaces the document on disk once
a batch is full and at every source boundary. A refused credential latches the
run and the application re-enrolls through the control-plane client. Fleet
Manager handlers share nothing but versioned records in an object store.

What makes each part correct:

* engine and store: the durable record never asserts an upload the bucket does
  not hold, no change is hidden by the size-and-mtime pre-filter, nothing is
  forgotten that still exists, every file is archived in the end;
* pass: budget and memory are accounted exactly whatever the order of results,
  groups respect the control plane's limits, one stop is one verdict, no pass
  hangs, a backlog converges;
* enrollment: one invite makes at most one active install, a crashed handler's
  work can be completed by a retry and by nobody else, a revoked install stays
  revoked, success is reported only to the holder of the enrolled key;
* upload authorization: bytes are stored only under their own key with their
  own hashes whatever the plane answers, a success means the object is there, no
  outage or clock error is taken for a revocation, a revoked install stops
  writing within a known time, every group ends;
* credentials: whatever write of a login or re-enrollment is the last, no
  identity is lost, an accepted request can be sent again, identity and
  enrollment are used only together, and only a new enrollment lifts a stop;
* configuration: nothing refused is in force, local reservations and the
  organization's exclusions hold on every path a document can take, a document
  that works is not lost to one that does not;
* content: no secret a rule matches leaves the machine, and no session of a
  repository that is marked as not tracked does;
* daemon: every tick and every signalled process ends, newer reports are not
  overwritten, failed runs are counted, crashes are told from exits and each is
  one event;
* the Fleet Manager's records: successful edits are not erased, the displayed
  author is the one who committed, digests resolve, limits cannot be reset.

## 2. Modules

| Module | What it is |
|---|---|
| `FlushEngine` | one source's runs over time, and the fingerprint document |
| `UploadRecord` | the abstract promise: a record that asserts only what the destination holds |
| `FlushEngineProofs` | theorems about `FlushEngine` |
| `SourcePass` | the goroutines, budget, gate and groups inside one pass, and the runs that repeat it |
| `UploadPort` | the contract of the upload port: what a group may come back with |
| `UploadTickets` | the port itself, the Fleet Manager's authorization handler and the bucket |
| `SourcePassProofs`, `UploadTicketsProofs` | theorems about the two |
| `InviteEnrollment` | the Fleet Manager's enrollment handlers and the administrator |
| `InviteEnrollmentProofs` | theorems about `InviteEnrollment` |
| `ClientCredentials` | the files a login, a re-enrollment and a revoked client write |
| `ClientCredentialsProofs` | theorems about `ClientCredentials` |
| `ConfigLayers` | the resolver: layers, overrides, checks, blame, roots (operators) |
| `ConfigRefresh` | fetching, caching and falling back, over `ConfigLayers` |
| `ConfigRefreshProofs` | theorems about the two |
| `SpanPlan` | how the detectors' matches in one string become replacements |
| `Redaction` | how a payload's lines, documents, keys and numbers are walked |
| `RepoTracking` | markers, the repository filter of a flush and the tracking browser |
| `CrashJournal` | the journal of runs and what a start reads from it |
| `Daemon` | the tick loop, watchdog, heartbeats and the failure record |
| `AdminConfig` | configuration edits, authorship and the partner's credential |
| `FleetActivity`, `InstallTags`, `TelemetryRelay` | the Fleet Manager's other records |
| `FleetRecordsProofs` | theorems about the Fleet Manager's records, over `MCFleetRecords` |
| `DaemonProofs` | theorems about the loop and the journal, over `MCDaemon` |
| `MCFlushEngine`, `MCSourcePass`, `MCUploadTickets`, `MCInviteEnrollment`, `MCClientCredentials`, `MCConfigRefresh` | constants for TLC |
| `MCCrashJournal` | the journal by itself, begun where two runs have crashed and a third is starting |
| `MCContent`, `MCDaemon`, `MCFleetRecords` | constants for TLC, and the composition of modules that share no state: a behaviour moves one of them, `focus` says which |

A definition whose name ends in a variant of another's (`SealUnread`,
`ShippedStatNow`, `FitsGateBefore`, `InviteOverwritten`, ...) and that precedes
it is a deliberately wrong form of it, used only to see that the properties
notice.

### FlushEngine

* `file`, `archive`, `late` are the world: file contents with a stamp that
  changes at every write (size and mtime), a versioned bucket, and PUTs whose
  client gave up. `doc` is the document on disk, `store` and `pending` the
  in-memory document and commit buffer of a run, `cand` discovery's snapshot of
  stats, `job` each candidate's progress.
* A run is `OpenStore` (with the discarded-document path), `Discover` (which calls
  `EnsureSpec`, and may miss files the walk cannot see), `Admit`, then per file
  `SkipParked`, `SkipUnchanged`, `FailAndBackOff`, `Refresh` or `Seal`, then
  `AlreadyPresent` or `Send`, `Land`, `Confirm`, or `UploadFails`, `Halt`,
  `Abandon`; `EndPass`, `FlushBeforeDrop`, `DropVanished`, `CloseStore`.
* `ChangeFile` runs between any two of these steps. In particular a file may be
  rewritten between discovery's stat and the read; the fingerprint then carries
  the older stat on purpose.
* `Crash` loses `store` and `pending`; `Reset` and `Prune` are the operator's,
  while no run holds the lock. `WriteDocument` may fail in every place it is
  called.
* A content is a model value; `Compare` gives what change detection hashes of it
  (some formats ignore volatile parts); `Scrub` what leaves the machine under a
  generation of the rules, so a changed generation means other bytes.
* The constant `Follows` says which content may succeed which: append-only session
  files, files that may go back, files with volatile noise.
* A file's key is its path. The code's stamp also holds the path last seen under a
  key, which for these files never changes; identities and series, whose path may
  move under one key, are not modelled (section 6).

### SourcePass

* Files are numbered oldest first. `pc` is where each one is; `verdict` is a
  result on its way to the loop, `out` its slot in the report.
* The loop's steps are `Admit`, `StopAdmitting` (flush the accumulator or end the
  pass), `Receive`, `ReceiveGroup`, `SettleNext`, `DrainStaged`. Workers:
  `Start`, `Prepare`. Group goroutines: `SendGroup`, `AnswerGroup`.
* `Charge` follows the code: a file with a fingerprint is charged its stat size,
  one without is charged what decoding may hold.
* `AnswerGroup` answers with any member of `UploadPort`'s `GroupAnswers`: a refusal
  or an outage for a whole authorization, otherwise a verdict per object; `Settle` applies commit failures, refunds and
  the two latches.
* `Broken` are files whose PUT never succeeds; `NextRun` is the next tick.

### UploadTickets

* One group at a time, from `SendBatch` to the second `EndRound`: `Post` stamps
  and signs the request by the machine's clock (`skew`), the plane runs
  `Authenticate`, `Validate`, a `Probe` per collected file and `Authorize`, the
  client runs `Receive`, then per object `Send`, and `Confirm`, `PutRefused` or
  `PutFails`. `Accept` and `Land` are the bucket's.
* A call or a PUT that is not over by its timeout fails; the bytes of a PUT may
  land all the same until the timeout (`late`, `LateLands`). That nothing lands
  later is an assumption about the network.
* Expired tickets of collected files are authorized once more with new
  positions; the heartbeat goes through the port once.
* `Revoke` may happen between any two steps; the client learns of it from the
  next call's 403 and remembers it (`marker`).
* `Misanswer` is a plane that returns a wrong ticket (one field wrong) or one
  ticket too few; `misled` remembers it, because an "already present" answer is
  taken on the plane's word. A plane that wrongly answers 401 or 403 is not
  modelled.
* A digest stands for an object's source and shipped hash; a ticket's `sound`
  stands for method, signed exact length, origin and the closed set of headers.
  The pass sends several groups at once; they share nothing in the port but the
  client, so one is enough here.

`SourcePass` and `UploadTickets` meet in `UploadPort`: the first assumes
`GroupAnswers`, the second is checked to stay inside it (`KeepsContract`).

### InviteEnrollment

* `invite` and `install[i]` are versioned records. A handler step is one read or
  one conditional write together with the local decisions up to the next one:
  `ReadInvite`, `Reserve`, `ReadInstall`, `Create`, `Confirm`, `Spend`, `Reread`,
  `Activate`; the grant path is `ReadGrant`, `CreateActive`, `Compare`.
* A failed conditional write restarts the handler, as the code's retry loop does.
* `Die` may strike after any step; `Serve` may start the same request in another
  handler while the first one still runs.
* The administrator: `RevokeInvite`, `RevokeInstall`, and `ReleaseInvite` in two
  steps, `CheckRelease` and `WriteRelease`. `Expire` and `CloseGrant` are time
  and the grant's own lifecycle.
* A request stands for its body's digest. `Resent` are the requests whose client
  keeps the body and sends it until it is answered (a managed enrollment, a
  re-enrollment); the others are first logins, whose next attempt has a new device
  key and so is another request. Cryptography, token formats, rate limits and HTTP
  are left out.

### ClientCredentials

* One variable per file of the state directory (`identity`, `enrollment`,
  `marker`, `attempt`, `pendingId`, `pending`, `archive`, `cache`), the Fleet
  Manager's record per site and install, the login that holds the enrollment
  lock, and the runtimes that run beside it.
* Each step of a login is one file operation or one exchange: `NewKey`,
  `ManagedAttempt`, `Send`, `AnsweredFirst`, `Save`, `ClearAttempt` for a first
  enrollment; `Archive`, `KeepMarker`, `PendingIdentity`, `PendingRequest`,
  `AnsweredAgain`, `ReplaceIdentity`, `RemoveCache`, `Commit` and the removal of
  the pending directory for a re-enrollment. `Interrupt` ends it after any of
  them; answers are lost; a token is closed or belongs to another site.
* A runtime that loaded the old enrollment may still write its marker or its
  cache after the new one is committed (`late`); a request whose body was given
  up on purpose is in `forsaken`. Reads that `New` makes without the lock are
  separate steps. Removal of a directory is one step per file.

### ConfigLayers and ConfigRefresh

* A document keeps one field per rule of the merge; fields that follow the same
  rule are represented by one. `Resolve` gives a configuration or the layer to
  blame for the first refusal, in the order the code checks.
* `ConfigRefresh` starts processes (`StartFetched`, `StartFallback`,
  `StartLocalRejected`, `StartRefused`), ticks (`RefreshAbsentRoots`), and lets
  the user, the organization, the build and the directories change. The Fleet
  Manager renders the document for the build that asks; the cache holds the
  full document and a reduced copy for builds without exclusions, or the reduced
  copy alone when the full one would not fit.
* A document's entries are applied by a fold, layer by layer; what is refused or
  picked is the entry at the least index that is, and a field is of the greatest
  layer that states it. `Document` and `Override` are what parsing can yield.

### SpanPlan, Redaction, RepoTracking

* `SpanPlan`: a value is a string over four kinds of bytes (backslash, a letter
  that can follow one, another alphanumeric, a separator). Pattern rules match
  any span of it; entropy is the number of different bytes against a floor.
  `\uXXXX` is reduced to a two-byte escape; the username does not overlap
  itself. Path-user replacements are not snapped to escapes, as in the code.
* `Redaction`: a text holds one of a few words; a document in a string may be
  torn, too deep, or a secret only when key and value are read together.
* `RepoTracking`: a directory tree with checkouts, worktrees and broken
  pointers; sessions whose directory is probed from the file, anchored in a
  workspace, or stored in a database. `Consider` is one question of the walk to
  the filter with its caches, `Load` the second snapshot, `Toggle` a switch in
  the browser. The folders of one workspace are looked up in one step, a survey
  is one step, relative directories and remotes are left out, and sessions of
  one project have one directory. A sidecar file that is listed before its
  session has no directory yet and is kept: `VerdictIsTrue` says so (`Told`).

### Daemon and CrashJournal

* `Daemon`: `pc` is the loop; the flush is a step with an outcome, with or without
  failed uploads beside it (`Too`), of a tick or of the final slice (`last`);
  `watchdog` is the goroutine that reports a stall; both upload heartbeats under
  `hbMu`, and an upload the client gave up on may land later (`stray`).
* `disk` and `mem` are the failure record. `verb` is what another process has read
  of the file and is about to write back with its event: `VerbReads` and
  `VerbWrites` are two steps, with the daemon's writes between them. `truth`
  counts the failed runs as they are judged, whatever any copy says; `lost` is why
  the record may say otherwise: a full disk at a failed start, a process that
  ended while only its memory held the count, or a verb that wrote back an older
  count.
* Left out: a failure record that cannot be read, a `run --once` that judges its
  own outcome beside the daemon, and other processes during the daemon's own
  start, whose appends before there is a runtime are one step each.
* `CrashJournal`: entries of one generation. A start is `ReadJournal` (`LastRun`:
  which runs are dead, `FoundDead`, and which alive, `FoundAlive`),
  `MeasureJournal` and `MoveAside` (`Open`), `AppendStart`, then `RecordCrash` and
  `WriteCrash`, the read and the write of the failure record. No lock is held: the
  steps of several starts interleave with one another and with the entries, exits
  and deaths of running runs, with the machine going down and with pids that
  another program gets.
* `crossed` remembers the runs whose starts overlapped, `cut` those with entries
  that were moved aside, `found` the dead runs some start has found, `passed` the
  runs behind which a delivered report ends the walk.

### The Fleet Manager's records

* Each request is a sequence of store operations, and it may die between any
  two. `AdminConfig` is the read, the merge with what the request states, the
  authorship record and the conditional replace (`include_install_recipient` apart,
  which the code takes from every full edit, stated or not); `FleetActivity` the
  unconditional put of a seen record after its catalog; `InstallTags` edits with
  bounded retries and the matching of an import's rows; `TelemetryRelay` the
  replicas' identity and each one's token buckets.

External parts, modelled from how the code uses them: the programs that write
session files, the bucket and the network, and the source of configuration
generations.

## 3. Runs

Every bound is a constant of the cfg. `MaxFaults` counts crashes, failures and
operator overrides together.

| Run | Bounds | Checks and shows |
|---|---|---|
| `flush` | 2 files (one of them always read), 2 contents, 1 generation, each file changes once, 2 faults, commit batch 2 | `RecordedWasStored`, `UnopenedIsArchived`, `SettledIsCurrent` for append-only files. Two files and a batch of two let a commit be buffered, flushed by the other file, or lost with it |
| `flush_one` | 1 file, 3 contents of which two compare equal, 2 generations, 2 changes, 2 faults, PUTs that land in a later run, fair | `IInv` (the proofs' invariant), `KeepsPromise` (refinement of `UploadRecord`), `EventuallyShipped`, where the hash is not the content and the bucket moves behind the client's back. Two changes reach: recorded, rewritten during the read, rewritten again |
| `pass` | 4 files: small ones, a compressed one larger than the gate that can never be stored, one that seals to more than a group may declare; budget 3, 2 compute slots, groups of 2, 2 faults, fair | `AccountsAreExact`, `LimitsHold`, `StopHoldsBack`, `PassEnds`, `BacklogConverges`. Budget, gate, group size and group bytes are each reached and exceeded by some schedule; fewer broken files than the budget delay nobody for ever |
| `invite` | 2 machines, 3 requests (two of a first login with changed material, one that its client keeps), 2 handlers, 1 death, no release, fair | `SingleUse`, `ReservationCompletes` |
| `invite_released` | as above with a grant request and one release, 2 handlers, 1 death, symmetric handlers | `IInv` (the proofs' invariant), `ActiveIsSpent`, `AnswerIsHonest`, `RevocationIsFinal` |
| `invite_release_race` (violation) | 2 machines, 1 release | `SingleUse` fails |
| `tickets` | 2 files (one with 2 contents), a heartbeat, a batch with an object the plane refuses; clocks off by -2, -1 and 1; ticket lifetime, PUT timeout, maximum age and skew of 1, a call within one unit of time, 4 instants, 1 PUT slot, 1 fault, fair | `StoredUnderOwnKey`, `VerdictsAreTrue`, `KeepsContract`, `RevokedGoesQuiet`, `GroupSettles`. The unit is about the ticket's five minutes, far above the call's 30 seconds; -2 is refused as stale, -1 mistakes an expiry for a failure, 1 a failure for an expiry. Four instants reach one past the bound of `RevokedGoesQuiet` |
| `client` | 2 sites, a grant at each and an invite, 3 installs, 3 keys, 1 runtime, 1 fault, fair | `FilesAgree`, `StopHolds`, `ManagedCompletes`. Three installs let a re-enrollment be interrupted and a second one begin |
| `config` | 1 source, 2 places for its root, 1 edit of the user, 2 of the organization, 1 move of a directory; every rule of the merge is set by some edit | `InForceIsLawful`, `WorkingLayerKept`, `AbsentRootIsFound`. Two served edits: one that works and one that does not |
| `fleet_records` | 2 requests, 2 touches, 2 editors, 2 replicas at a time; 3 installs of which two share a hostname; a table of 2 buckets for 3 senders; requests and touches symmetric | `AdminIsHonest`, `UnstatedIsKept`, `ActivityIsCurrent`, `TagsAreKept`, `RelayIsFair` |
| `daemon` | 3 runs of which 2 overlap in any of their steps, 2 boots, one run whose pid may be reused, journal of 5 entries; record of 2 events, streak of 1; faults by groups (another process; a full disk; a stray upload, a death and a signal; a revocation and a signal), fair; 1,199,617 states, about three minutes | `CrashesAreTold`, `ReportsAreTrue`, `LoopEnds`. `MayFail` and, with a revocation, `Signal` keep the counts within the streak's bound |
| `content` | strings of up to 4 bytes with up to 3 matches, two floors; payloads of 2 lines nesting up to 2 documents; 7 directories, 3 layouts of checkouts, 2 sessions, 2 changes of the disk | `PlanIsSound`, `RedactionIsSound`, `UntrackedStaysOut` |

A property that is a conjunction is one promise of a component in named parts:

* `AccountsAreExact`: `TypeOK`, `BudgetIsExact`, `OneStopIsCounted`, `EndIsExact`;
  `LimitsHold`: `GateHolds`, `GroupsAreSendable`;
* `VerdictsAreTrue`: `TypeOK`, `SuccessMeansStored`, `RefusedMeansRevoked`;
* `FilesAgree`: `TypeOK`, `IdentityKept`, `OneUnit`, `Resumable`, `CacheIsOwn`;
* `InForceIsLawful`: `TypeOK`, `InForceIsSound`, `OwnerKeepsControl`, `ExclusionsHold`;
* `AdminIsHonest`: `TypeOK`, `AuthorIsHonest`, `MintedSecretWorks`;
  `ActivityIsCurrent`: `DigestResolves`, `CatalogIsLatest`; `TagsAreKept`:
  `EditsAreSerial`, `ImportIsUnambiguous`; `RelayIsFair`: `OneIdentity`, `RateIsKept`;
* `CrashesAreTold`: `TypeOK`, `NoInventedCrash`, `CrashIsKept`, `OneEventPerCrash`;
  `ReportsAreTrue`: `HeartbeatIsNewest`, `StreakIsKept`, `StandingIsOneEvent`;
  `LoopEnds`: `TickEnds`, `SignalEnds`;
* `PlanIsSound`: `MatchedIsCovered`, `LedgerIsExact`, `EscapesStayWhole`,
  `UsernameIsGone`, `GridFindsEveryRun`; `RedactionIsSound`: `SecretsNeverShip`,
  `ExemptionIsExact`, `LedgerCountsOnce`; `UntrackedStaysOut`: `VerdictIsTrue`,
  `ShippedWasJudged`, `SwitchedOffIsDropped`, `SwitchIsLocal`.

Every part has wrong variants of its own in the modules, written as the code could
plausibly have been: a dropped guard, a swapped order, a missing reset. `mutants`
in `PROJECT.json` lists them under the property their part belongs to, and TLC
finds that property violated with each.

Why these bounds are enough to be interesting: each property takes at most two
actors and two interruptions to break in the wrong variants listed under
`mutants` in `PROJECT.json`, and each of those variants is found at these bounds.
Handlers are interchangeable and no liveness property is checked where they are
declared symmetric.

`CHECK_DEADLOCK` is on for the engine, the pass, the tickets and enrollment,
where some actor can always move (a tick, a retry, a re-delivery). It is off in
the other five: a scrub or a plan ends, and the edits, runs, requests and changes
of the rest are bounded, after which a behaviour may stop.

## 4. Fairness

* `FlushEngine`: weak fairness on the steps of goroutines and of the tick loop,
  which the Go scheduler and the ticker give. Strong fairness on `Admit` (the
  budget is not for ever used by older files; `MCPassStarve.cfg` shows when it is) and
  on a successful read (a backoff runs out; a readable file is sometimes read).
  The bound on faults stands for "faults cease".
* `SourcePass`: weak fairness on each loop, worker and group step and on
  `NextRun`; every network call in the code has a timeout, so a group answers.
* `UploadTickets`: weak fairness on the steps of the client and of the plane's
  handlers, and on the two timeouts (`AuthorizeTimesOut`, and `PutFails` as part
  of an object's steps). Time itself need not pass.
* `InviteEnrollment`: weak fairness on handler steps, strong fairness on `Serve`
  for the requests in `Resent` only: their client persists the attempt and sends the
  same body until it is answered (`internal/controlplane/enrollment_attempt.go`,
  `interactive_enrollment.go`). A first login (`controlplane/login.go:130`) keeps
  nothing, and nothing is assumed of it (section 6).
* `ClientCredentials`: weak fairness on the steps of a running login, strong
  fairness on the managed service's next start with a grant for the server it
  first named (`cli/run.go`).
* `ConfigRefresh`: weak fairness on `Tick`.
* `Daemon`: strong fairness on the loop's steps (a mutex is handed on, an upload
  has a deadline), weak fairness on the watchdog's.

## 5. Proofs

All theorems hold for every set of files, contents, generations, objects, groups,
requests, installs, handlers, editors and senders, and every value of the bounds,
under the `ASSUME`s of the modules: constants have their types (the documents of
the configuration among them, `Document`), "none" values are not members of the
sets they are added to, sets that are counted are finite, the catalog lists what it
leaves off by default, compiled packs are known ones, `home` is a place, and
the sizes that the code fixes as positive (the commit batch, a generation of the
journal, the record's list, the relay's rate and burst) are at least one. Two
theorems have a hypothesis of their own, stated with them below.

Each proof follows the same plan: a state property that a step could break by what
it carries from an earlier step is strengthened to an inductive invariant, TLC
checks that invariant on the run's instance (for the journal, 3 runs, 2 boots and a
journal of 4 entries, 725,757 states), one lemma per action (or per kind of action) shows that it is
kept, and the property follows from it. The invariants:

`FlushEngineProofs`

* `TypeCorrect`, `Inductive` (`[]IInv`), `RecordIsBacked` (`[]RecordedWasStored`),
  `PrefilterIsSafe` (`[]UnopenedIsArchived`), `EngineKeepsPromise`
  (`Spec => KeepsPromise`, the refinement).
* `RecordedWasStored` is not inductive: a commit copies what a worker holds, a
  flush copies the buffer. `IInv` therefore says it of every fingerprint anywhere
  (`FingerprintInv`: document, memory, buffer, job), says that work in flight
  belongs to the generation in force and that a landed object is in the bucket
  (`JobInv`), and that a stamp equal to the file's present one vouches for its
  hash (`StampInv`: stamps only grow, and a job's content is the file's if the
  stamp discovery took is still the file's). `Init => IInv` and one step per
  action give the induction; the facts about the buffer (`Commit`, `FlushBuffer`,
  `WriteDocument`) are lemmas cited by every action that commits.
* The refinement adds that no step both stores an object and replaces the
  document with a claim about it.
* `SettledAlwaysCurrent`: `Spec => []SettledIsCurrent`, assuming that no PUT lands in
  a later run (`~LatePuts`) and that contents can be ranked so that a file only
  moves up and contents of one rank are equal to change detection (`Ordered(R)`).
  This is what the run `flush` instantiates; without the second hypothesis the
  property is false (`MCFlushRevert`, section 6). `OrderInv` says that no
  fingerprint anywhere names anything newer than the bucket's current version
  (`BehindInv`), that the current version is not newer than what is on its way,
  nor that than the file (`WayInv`), and that a PUT the client gave up on is in
  that order too and the only one of its file (`LateInv`).

`InviteEnrollmentProofs`

* `EnrollmentTypeCorrect`, `Inductive` (`[]IInv`), `SpentBeforeActive` (`[]ActiveIsSpent`),
  `SuccessIsHonest` (`[]AnswerIsHonest`), `RevokedForGood`
  (`RevocationIsFinal`), with a release in play.
* The idea: a copy of a record whose version is still the record's version *is*
  the record (`InviteCopyInv`, `InstallCopyInv`), so a conditional write acts on
  the present state even though the decision was taken on a read made earlier.
  `SpentInv` adds that a handler past the third write leaves the invite spent.
  The lemma `StepMoves` says what any step can do to the shared records, and each
  conjunct of `IInv` follows from it.
* `InviteIsSingleUse`: `Spec => []SingleUse`, assuming `MaxReleases = 0`. The run
  `invite_release_race` shows why: a release takes the reservation away from a
  handler that still acts on it. `OwnerInv` says that a handler past its
  reservation finds the invite reserved for its own request, and that every
  install the invite made belongs to the request it is reserved for.

`UploadTicketsProofs`

* `TicketsInductive`, `OwnKeyAlways` (`[]StoredUnderOwnKey`), `VerdictsAlwaysTrue`
  (`[]VerdictsAreTrue`), `RevokedAlwaysQuiet` (`RevokedGoesQuiet`), `ContractKept`
  (`[]KeepsContract`).
* `PutInv` says that bytes leave only with a ticket that was held against the
  object, which is why a plane that answers wrongly cannot misplace them;
  `BucketInv` says the same of what may still land. `CallInv` keeps what the
  plane's probe found true until the answer is used. `TimeInv` bounds every
  ticket, PUT and late PUT by the last moment the install was active plus a
  call, a lifetime and a PUT, whatever the client's clock says. `RoundInv` gives
  the contract: one verdict for the whole round, or one of its own for each
  object, and a final one for those the second round leaves out.

`SourcePassProofs`

* `PassInductive`, `AccountsAlwaysExact` (`[]AccountsAreExact`), `LimitsAlwaysHold`
  (`[]LimitsHold`), `StopAlwaysHoldsBack` (`StopHoldsBack`).
* An admitted file is in exactly one place: a slot, the accumulator, one group, the
  group being settled, or settled (`AdmissionInv`, `QueueInv`, `GroupInv`). The
  accounts are then differences of cardinalities of those places. `SizeInv`
  leaves the accumulator room for one more object, `LatchInv` says that a latch
  was closed by the one file counted for it and that a closed latch leaves
  nothing staged once the loop is out of settling. With the first, what is on its way
  to the bucket only shrinks after the latch, and what is recorded as shipped comes
  from there, which is `StopHoldsBack`.

`ClientCredentialsProofs`

* `CredentialsInductive`, `FilesAlwaysAgree` (`[]FilesAgree`), `StopAlwaysHolds`
  (`StopHolds`).
* `FirstInv` and `AgainInv` say for every step of the two kinds of login which
  files exist and whose they are, `ArchiveInv` that every install that was ever
  enrolled is the present one or archived, `AttemptInv` that a saved managed
  request is the identity's own. A process may die after any step, so these
  are also what the next one may find.

`FleetRecordsProofs`

* `RecordsInductive`, `AdminAlwaysHonest`, `UnstatedAlwaysKept`, `ActivityAlwaysCurrent`,
  `TagsAlwaysKept`, `RelayAlwaysFair`, each for the property of the same subject.
* A write prepared at a version that is still the record's was prepared from the
  record as it is (`CarriesOver`, `EditInv`, `PartnerInv`), so a replacement that
  succeeds carries over what its request did not state, the install recipient of a full
  edit excepted. `AuthorInv`: content has one
  author and its record precedes it. `TouchInv`: a catalog is stored before a seen
  record names it, and a touch that was never overlapped read the record as it
  is. `LevelInv`: a bucket in the bounded table never holds more than the one an
  unbounded table would hold, and a sender without one would have a full one.

`DaemonProofs`

* `ReportInductive`, `ReportsAlwaysTrue` (`[]ReportsAreTrue`), `DaemonTypeCorrect`.
* `MutexInv`: who sends a heartbeat holds the mutex, so `BeatInv` can say that only a
  stall heartbeat begun after the flush's own lands over it. `RecordInv` says of the
  record on disk, in memory and in every writer's hands that equal standing
  events are not repeated, and that who is about to write it writes what is in
  memory. `AwayInv`: outside a runtime no copy is in memory, so a failed start counts
  on what the disk says. With these, `StreakInv` counts a failed run once, whichever
  copy is the one that survives a full disk, until something is in `lost`.
* `JournalInductive`, `CrashesAlwaysTold` (`[]CrashesAreTold`, the types of both modules
  included).
* `LastRun` decides by counting: a run of an earlier boot went down with the machine
  if as many later starts on that boot found it alive as there are. The
  invariant turns the counts into sets. `MarksInv`: a run's entries are one of each
  kind, its start first and, but for `cut` runs, all there. `BootInv`: a run lives
  within one boot and its entries name it. `LiveInv`: a start finds alive only
  runs of its own boot, so the second set is part of the first; `SeenInv`: but for
  `crossed` runs it finds all that really lived, so for a run that stopped with the
  machine they are equal (`FoundIsCrashed`). `FoundInv`: for a run once found dead
  some start on its boot is in the first and not in the second, so it stays found
  (`DeadIsFound`).
* Between its read and its entry a start is only as good as what it has read.
  `ReadInv` says that what it read stays as good until then: who was alive on its
  boot and still is, is in its list (`ReadLive`), and who was dead is seen dead by
  an earlier entry or will be by its own (`SeenDead`). `StartInv`: two starts on
  the way have crossed.
* `EventInv`: without a `cut` run or a `crossed` recorder in between, a later event is of
  a run with a later first entry, so none repeats (`NewIsLater`); `NewerInv` carries
  this through the read and the write of the failure record, of a start that is
  alone.
* The steps fall into four kinds, one lemma each: reads (`ReadStep`), steps that leave
  the journal alone (`OnwardStep`), appended entries (`GrowStep`) and the move
  (`MoveStep`), after which everything the journal held is `cut`; `WriteStep` adds the
  event.

`ConfigRefreshProofs`

* `ConfigInductive` (`[]IndInv`), `InForceAlwaysLawful` (`[]InForceIsLawful`),
  `WorkingLayerAlwaysKept` (`[]WorkingLayerKept`), for
  every catalog and every document in the sense of `Document`.
* A fold over a sequence is a function that starts at the accumulator and takes one
  step per entry (`FoldLayerSteps`, `CollectedSteps`); what holds at 0 and is kept
  by a step holds throughout (`StepByStep`, from the well-foundedness of the
  naturals, over a set of indices instead of a predicate). `Carried` is what the
  first entries of a layer made of a source: its additions stay, a local "off"
  stays off under any remote entry, an enricher stays off, and the last entry that
  says "off" decides.
* `Resolve` blames nothing exactly when each check refuses nothing (`ResolveIsClean`),
  so whatever is in force was `Clean`, and `Clean` gives the three parts of
  `InForceIsLawful` (`CleanIsSound`, `CleanIsKept`, `CleanIsExcluded`).
* The organization's exclusions need an invariant of what travels: `Covers(doc, org)`
  says that each of its exclusions is carried by an entry of `doc` or that `doc`
  leaves the source paused. It holds of what the Fleet Manager sends to either
  build (`SentCovers`), of both copies of the cache (`Covered`), and survives
  reduction and parsing by an old build.
* `Accepted`: while nothing local has changed, the cache is that of the last accepted
  document. `ReducedIsClean`: what was accepted in full is accepted reduced, unless a
  paused source has an entry with an enricher that is not attached. Without that
  exception the property is false (`MCConfigOversize`, section 6).
* TLC checks `IndInv` on the instance of `config` (144,713 states).

For the proofs, some definitions were given a form the provers can use, with the
same meaning: the tickets of an answer are a set, totals of a pass are
cardinalities, overlapping `CASE` arms are `IF`s in the code's order, and the
resolver selects by least and greatest indices instead of by `SelectSeq`.

Only model-checked:

* liveness under fairness (`EventuallyShipped`, `PassEnds`, `BacklogConverges`,
  `ReservationCompletes`, `GroupSettles`, `ManagedCompletes`, `AbsentRootIsFound`,
  `LoopEnds`), which the proof system does not reach;
* `PlanIsSound`, `RedactionIsSound` and `UntrackedStaysOut`: what `SpanPlan`,
  `Redaction` and `RepoTracking` compute is defined by recursive operators over
  strings, documents and directories, which the proof system does not take.

## 6. Where the code and its documents disagree

The run `invite_release_race` expects a violation: `ReleaseInvite` clears a
reservation whose install does not exist yet, which is also the state of a live
handler between its first and second write; that handler does not check
afterwards that the reservation is still its own. One invite can activate two
installs. The finding in `PROJECT.json` quotes the documents it contradicts.

Seventeen smaller disagreements are checked by hand; TLC finds each violated. The first
nine have a cfg of their own (`tlc -config X.cfg M`):

1. `MCFlushRevert` (`MCFlushEngine`, `SettledIsCurrent`): after a PUT that landed
   but was not committed, a file that returns to its recorded content is called
   unchanged and the bucket's current version stays the other content
   (`engine/file.go:89`; `state.go:237` says "Safe under retry-is-re-run"). Older
   versions are still there, so nothing is lost.
2. `MCFlushForget` (`MCFlushEngine`, `ForgetOnlyVanished`): a source that returned
   any candidate is taken to prove the absence of all others, including files
   under an unreadable directory (`engine/engine.go:351`). They are uploaded again.
3. `MCFlushParked` (`MCFlushEngine`, `UnchangedIsNotParked`): the stat pre-filter
   carries the parked flag forward (`engine/file.go:60`), against the comment at
   `file.go:98`.
4. `MCPassStarve` (`MCSourcePass`, `BacklogConverges`): as many permanently failing
   old files as the budget keep every younger file out (`engine/pool.go:281`;
   `cli/run.go:160` says "a backlog converges at upload speed").
5. `MCConfigBlame` (`MCConfigRefresh`, `RemoteNeverStops`): a served document can
   make a field of the user's file the one that is refused; the refusal is then
   blamed on the user's layer and the start is fatal, although
   `config/resolve.go:99` says "collection continues under the last valid one".
6. `MCRecordMerge` (`MCDaemon`, `OthersMerge`): `app/judge.go:138` says that after a
   successful write "the next mutation re-reads the file, so events appended by
   other processes merge"; a heartbeat in between reads the record and keeps it
   in memory, and the next write drops another process's event.
7. `MCStallBeat` (`MCDaemon`, `StallLandsFirst`): `app/app.go:103` says a stall
   heartbeat "must land BEFORE the engine's own, not over it"; one that was
   waiting for the mutex lands over it. `HeartbeatIsNewest` excepts that case.
8. `MCCrashEvents` (`MCCrashJournal`, `OneEventPerDeadRun`): `app/judge.go:198` says
   "One event per dead run, not per restart"; `RecordCrash` compares a crash only with
   the newest crash event, and the crash is what the start had read from the journal
   before. Runs 1 and 2 crashed; run 3 read the journal while 2 was still alive,
   run 4 starts beside it and records 2, run 3 records 1, and the next start records
   2 again (2, 1, 2 in the trace). A run whose start was moved aside comes between in
   the same way: every entry opens the path again, so it has no pid in the new file
   and looks dead until it exits. `OneEventPerCrash`, which `daemon` checks and
   `CrashesAlwaysTold` proves, excuses only duplicates between which such an event
   stands.
9. `MCConfigOversize` (`MCConfigRefresh`, `CachedLayerKept`): `controlplane/cache.go:27`
   calls the reduced copy "the safe fallback". The user switches a source off; the
   served entry for it says "on", has exclusions and an enricher the catalog does
   not attach. The resolver skips the rest of an entry that would undo a local "off"
   (`config/resolve.go:343`), so the document is accepted; the full copy does not
   fit into the cache (`cache.go:54`); in the reduced copy the entry says "off", is
   no longer skipped, and is refused for its enricher. A start without the service
   then has no remote layer at all. The proof of `WorkingLayerKept` found it; the
   property excepts exactly this case (`ReducedIsStricter`).

The other eight replace the `INVARIANTS` and `PROPERTIES` lines of a cfg of the runs
by one line:

10. `PROPERTIES SendsAndCommitsNothingMore` in `MCSourcePass.cfg`: `engine/pool.go:92`
   says of a halted upload that "this run sends and commits nothing more". A group
   that was handed out before and waits on `uploadSlots` (`pool.go:144`) takes its slot
   after the latch, uploads, and its result is committed. What does hold is
   `StopHoldsBack`: nothing is handed out after the latch, and only what was handed
   out before is committed.
11. `PROPERTIES EveryReservationCompletes` in `MCInviteEnrollment.cfg`:
   `fleet-manager/src/manager.go:250` says of the four writes that their "durable
   intermediate states are recoverable". A first login makes its device key anew and
   keeps no attempt (`controlplane/login.go:130`), so if the answer or the handler is
   lost, the reservation refuses the same machine's next attempt until an
   administrator releases it. `ReservationCompletes` says it of the clients that keep
   their request.
12. `PROPERTIES NothingUnstatedChanges` in `MCFleetRecords.cfg`:
   `fleet-manager/src/admin_http.go:642` says "Like the fields above: a client that does
   not mention collection must not erase it"; every field a full edit may leave out is
   carried over there but `include_install_recipient`, a plain bool
   (`admin_http.go:24`, `:468`), which becomes false. `UnstatedIsKept` excepts it.
13. `PROPERTIES MintReplaces` in `MCFleetRecords.cfg`: `fleet-manager/src/admin.go:144`
   says "MintPartnerCredential replaces any earlier credential, which stops working on
   the next request"; the code answers `ErrConflict` instead, its own comment says
   why, and `partner_test.go` expects it. In the model the earlier secret works
   after a mint that was answered so. `MintedSecretWorks` is what the code and the test
   say.
14. `INVARIANTS VerbsLeaveTheCount` in `MCDaemon.cfg`: `app/judge.go:233` says "the
   consecutive count answers 'how many COLLECTION runs failed in a row', and a
   one-shot verb crashing is not one of those". `appendWithoutRuntime`
   (`judge.go:273`) reads the record and writes it back without a lock; a failure that
   the daemon counts in between is gone, and a success is undone. `StreakIsKept`
   excepts it (`lost`).
15. `INVARIANTS NoCrashIsInvented` in `MCDaemon.cfg`: `crashjournal.go:165` says that
   `LastRun` reports no "run that stopped with the machine". Of two starts that overlap
   neither finds the other's entry, so neither lists it as alive; after the machine
   went down the next start counts a start that did not find it and takes it for a
   crash. `NoInventedCrash` excepts such runs (`crossed`).
16. `PROPERTIES NoCrashIsLost` in `MCCrashEvents.cfg`: `crashjournal.go:207` says that a
   crash survives "restarts that could not deliver the report", until "a heartbeat
   carrying it reached the sink". The walk stops at any run that delivered a report
   and at whatever began before it: a run that died after that one had read the
   journal is not in that report, and no later start looks at it again. `CrashIsKept` says only that
   a crash is found until a report of a run that began after it is delivered
   (`passed`).
17. `INVARIANTS LastDeathIsFound` in `MCDaemon.cfg`: `crashjournal.go:165` says "LastRun
   reports the undelivered crash before this process". A run that delivered a report
   and then crashed itself ends the walk at its own entries (`:216`), before its
   missing exit is looked at.

These are run with the cfg's other lines as they are.

Without a run: `crashjournal.go:56` says that "one run's entries never straddle
generations"; runs of the daemon and of `run --once` overlap, and a start may
move aside a journal another run is appending to. `CrashIsKept`, `NoInventedCrash`
and `OneEventPerCrash` except such runs (`cut`). `engine/file.go:171` says "A stat
says nothing across paths", but `failAndBackOff` (`file.go:194`) writes the path of
the failed read beside the size and mtime of the path before it; a copy that kept
both and whose first read failed is later taken for unchanged without being read.
Keys whose path moves are not in `FlushEngine`, so no run shows it. In the tracking
browser the git scopes are those of its first survey until it is opened again.

## 7. Plan

The models of the plan are written, and the invariants of every component with
concurrent steps or crashes are theorems. What is left, in order of value:

1. `RepoTracking`: `SwitchIsLocal` and `ShippedWasJudged`, once its directory walk
   is a recursive function instead of a recursive operator;
2. enrichment (`engine/derived.go`) as an extension of `FlushEngine`;
3. pause and drain deadlines as an extension of `Daemon`.

## 8. Not modelled

What the patterns of the rule packs match (any span, in `SpanPlan`), sealing,
compression and encryption (`Scrub` in `FlushEngine` stands for them); glob and
deny-list matching; enrichment; the pause file and audit log; agents' file
formats and databases; the administration pages and HTTP plumbing; cloud SDK
adapters (the versioned store and the bucket stand for them); packaging, update
and the unsealing tool; diagnosis and the formatting of reports. `PROJECT.json`
lists every component with its status.
