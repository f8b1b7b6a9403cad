------------------------- MODULE ClientCredentials -------------------------
(***************************************************************************)
(* What an install knows of itself: identity.json, enrollment.json,        *)
(* revocation.json and the saved enrollment attempts, written one file at  *)
(* a time by login (src/app/login.go, src/app/reenroll.go) and by every    *)
(* client that hears it is revoked (src/internal/controlplane/             *)
(* revocation.go).  A login may be interrupted between any two writes, by  *)
(* a crash, a failed write or a lost answer, and is simply run again.      *)
(*                                                                         *)
(* Installs and device keys are the numbers they were minted in.  A site   *)
(* is a server and an organization; the token carries it, and is also the  *)
(* server argument.  The fleet manager's side of an enrollment is one step *)
(* here: InviteEnrollment models it.                                       *)
(***************************************************************************)
EXTENDS Naturals, FiniteSets

CONSTANTS
    Sites, Tokens,
    SiteOf,          \* [Tokens -> Sites]
    Invites,         \* the tokens that are single-use invites, the rest grants
    Policy,          \* the tokens a managed policy may hand out
    Closable,        \* the tokens an administrator may close
    Runtimes,        \* processes with a runtime: daemon, doctor, flush
    MaxInstalls, MaxKeys,
    MaxFaults        \* bound: interruptions and damaged markers

(* Policies hand out grants. *)
ASSUME CredentialsAssumption ==
    /\ SiteOf \in [Tokens -> Sites]
    /\ Invites \subseteq Tokens
    /\ Policy \subseteq Tokens \ Invites
    /\ Closable \subseteq Tokens
    /\ MaxInstalls \in Nat /\ MaxKeys \in Nat /\ MaxFaults \in Nat

Installs == 1..MaxInstalls
Keys == 1..MaxKeys

VARIABLES
    identity,    \* identity.json: the install, 0 when there is none
    enrollment,  \* enrollment.json
    marker,      \* revocation.json
    attempt,     \* managed-enrollment-attempt.json
    pendingId,   \* re-enrollment/<old>/identity.json
    pending,     \* re-enrollment/<old>/interactive-enrollment-attempt.json
    archive,     \* revoked-installs/<old>: the identity kept there
    cache,       \* remote-config.json: the install it was served to
    server,      \* the fleet manager's record of each install, per site
    token,       \* each token: open or closed, and the body it is reserved for
    login,       \* the login holding enrollment.lock
    runtime,     \* each process's runtime
    minted,      \* history: how many installs and keys were generated
    committed,   \* history: installs that were ever enrolled here
    forsaken,    \* history: installs whose request was not kept to be resent
    late,        \* history: a client being replaced wrote its marker or cache
    faults

vars == <<identity, enrollment, marker, attempt, pendingId, pending, archive,
          cache, server, token, login, runtime, minted, committed, forsaken,
          late, faults>>
disk == <<identity, enrollment, marker, attempt, pendingId, pending, archive,
          cache>>
fleet == <<server, token>>
history == <<minted, committed, forsaken, late, faults>>

-----------------------------------------------------------------------------
(* Records.  A body is an EnrollRequest: what the server digests. *)

NoEnrollment == [install |-> 0, key |-> 0, site |-> "none"]
Enrollments == [install : Installs, key : Keys, site : Sites] \cup {NoEnrollment}

NoMarker == [install |-> 0, site |-> "none", valid |-> TRUE, notified |-> FALSE]
Markers == [install : 0..MaxInstalls, site : Sites \cup {"none"},
            valid : BOOLEAN, notified : BOOLEAN]

Bodies == [install : Installs, key : Keys, tok : Tokens, as : {"invite", "grant"}]
NoBody == [install |-> 0, key |-> 0, tok |-> "none", as |-> "none"]

NoRecord == [body |-> NoBody, status |-> "absent"]
Records == [body : Bodies \cup {NoBody}, status : {"absent", "active", "revoked"}]
TokenStates == [open : BOOLEAN, body : Bodies \cup {NoBody}]

Logins ==
    [pc : {"idle", "key", "attempt", "send", "answer", "save", "clear",
           "archive", "marker", "pending", "request", "sweep", "identity",
           "cache", "commit", "clean"},
     kind : {"none", "first", "managed", "again"},
     tok : Tokens \cup {"none"}, body : Bodies \cup {NoBody},
     old : 0..MaxInstalls, again : BOOLEAN,
     answer : {"none", "ok", "refused", "conflict"}]
Idle == [pc |-> "idle", kind |-> "none", tok |-> "none", body |-> NoBody,
         old |-> 0, again |-> FALSE, answer |-> "none"]

(* A runtime's client: the enrollment it read, and the revocation pointer. *)
Clients == [pc : {"off", "checked", "on", "served", "refused"},
            enr : Enrollments, revoked : BOOLEAN]
Off == [pc |-> "off", enr |-> NoEnrollment, revoked |-> FALSE]

InstallMinted == minted.install + 1
KeyMinted == minted.key + 1

(* LoadRevocation(stateDir, enr): "revoked", "invalid" or "none". *)
LoadRevocation(enr) ==
    IF enr.install = 0 \/ marker = NoMarker THEN "none"
    ELSE IF ~marker.valid THEN "invalid"
    ELSE IF marker.install = enr.install /\ marker.site = enr.site THEN "revoked"
    ELSE "none"

(* EnrollmentRevocation: nothing is collected. *)
Stopped == LoadRevocation(enrollment) # "none"

NewMarker(enr, told) ==
    [install |-> enr.install, site |-> enr.site, valid |-> TRUE, notified |-> told]

Init ==
    /\ identity = 0
    /\ enrollment = NoEnrollment
    /\ marker = NoMarker
    /\ attempt = NoBody
    /\ pendingId = [i \in Installs |-> 0]
    /\ pending = [i \in Installs |-> NoBody]
    /\ archive = [i \in Installs |-> 0]
    /\ cache = 0
    /\ server = [s \in Sites |-> [i \in Installs |-> NoRecord]]
    /\ token = [t \in Tokens |-> [open |-> TRUE, body |-> NoBody]]
    /\ login = Idle
    /\ runtime = [r \in Runtimes |-> Off]
    /\ minted = [install |-> 0, key |-> 0]
    /\ committed = {}
    /\ forsaken = {}
    /\ late = FALSE
    /\ faults = 0

-----------------------------------------------------------------------------
(* The fleet manager's answer to an enrollment body, and what it records:  *)
(* InviteEnrollment, in one step.                                          *)

SiteOfBody(b) == SiteOf[b.tok]
RecordOf(b) == server[SiteOfBody(b)][b.install]

Forbidden(b) ==
    \/ (b.as = "invite") # (b.tok \in Invites)
    \/ ~token[b.tok].open
    \/ token[b.tok].body \notin {NoBody, b}

SameDevice(b) ==
    /\ RecordOf(b).status = "active"
    /\ IF b.as = "invite" THEN RecordOf(b).body = b
                          ELSE RecordOf(b).body.key = b.key

Answer(b) ==
    CASE Forbidden(b) -> "refused"
      [] ~Forbidden(b) /\ (RecordOf(b).status = "absent" \/ SameDevice(b)) -> "ok"
      [] OTHER -> "conflict"

Enroll(b) ==
    /\ token' = IF ~Forbidden(b) /\ b.as = "invite"
                THEN [token EXCEPT ![b.tok].body = b] ELSE token
    /\ server' = IF Answer(b) = "ok" /\ RecordOf(b).status = "absent"
                 THEN [server EXCEPT ![SiteOfBody(b)][b.install] =
                         [body |-> b, status |-> "active"]]
                 ELSE server

-----------------------------------------------------------------------------
(* login(ctx, server, token, managed): loginWithRunCheck. *)

At(pc) == login.pc = pc
Goto(pc) == login' = [login EXCEPT !.pc = pc]
Fail == login' = Idle
Becomes(pc, body) == login' = [login EXCEPT !.pc = pc, !.body = body]

NewBody(install, t, as) ==
    [install |-> install, key |-> KeyMinted, tok |-> t, as |-> as]

(* An install that is enrolled already: only a revoked one, and only by a  *)
(* person, is enrolled again.                                              *)
LoginEnrolled(t) ==
    /\ At("idle")
    /\ enrollment # NoEnrollment
    /\ \/ /\ Stopped
          /\ login' = [Idle EXCEPT !.pc = "archive", !.kind = "again",
                                   !.tok = t, !.old = enrollment.install]
          /\ UNCHANGED attempt
       \/ /\ ~Stopped
          /\ attempt' = NoBody
          /\ UNCHANGED login
    /\ UNCHANGED <<identity, enrollment, marker, pendingId, pending, archive,
                   cache, fleet, runtime, history>>

(* ManagedLogin of an enrolled install, without the lock. *)
ManagedLoggedIn ==
    /\ enrollment # NoEnrollment
    /\ attempt # NoBody
    /\ attempt' = NoBody
    /\ UNCHANGED <<identity, enrollment, marker, pendingId, pending, archive,
                   cache, fleet, login, runtime, history>>

(* loadOrMintIdentity, then a managed attempt or a key of this login only. *)
Login(t, kind) ==
    /\ At("idle")
    /\ enrollment = NoEnrollment
    /\ identity = 0 => InstallMinted \in Installs
    /\ identity' = IF identity = 0 THEN InstallMinted ELSE identity
    /\ minted' = IF identity = 0 THEN [minted EXCEPT !.install = @ + 1] ELSE minted
    /\ login' = [Idle EXCEPT !.pc = IF kind = "managed" THEN "attempt" ELSE "key",
                             !.kind = kind, !.tok = t]
    /\ UNCHANGED <<enrollment, marker, attempt, pendingId, pending, archive,
                   cache, fleet, runtime, committed, forsaken, late, faults>>

NewKey ==
    /\ At("key")
    /\ KeyMinted \in Keys
    /\ Becomes("send", NewBody(identity, login.tok, "invite"))
    /\ minted' = [minted EXCEPT !.key = @ + 1]
    /\ UNCHANGED <<disk, fleet, runtime, committed, forsaken, late, faults>>

(* A variant that makes a key for every managed try. *)
ManagedAttemptAnew ==
    /\ At("attempt")
    /\ KeyMinted \in Keys
    /\ attempt' = NewBody(identity, login.tok, "grant")
    /\ Becomes("send", attempt')
    /\ minted' = [minted EXCEPT !.key = @ + 1]
    /\ UNCHANGED <<identity, enrollment, marker, pendingId, pending, archive,
                   cache, fleet, runtime, committed, forsaken, late, faults>>

(* ManagedEnrollmentAttempt: the saved request, with a rotated grant of    *)
(* the same site, or a new request, on disk before it is sent.             *)
ManagedAttempt ==
    /\ At("attempt")
    /\ \/ /\ attempt = NoBody
          /\ KeyMinted \in Keys
          /\ attempt' = NewBody(identity, login.tok, "grant")
          /\ minted' = [minted EXCEPT !.key = @ + 1]
          /\ Becomes("send", attempt')
       \/ /\ attempt # NoBody
          /\ attempt.install = identity
          /\ SiteOfBody(attempt) = SiteOf[login.tok]
          /\ attempt' = [attempt EXCEPT !.tok = login.tok]
          /\ Becomes("send", attempt')
          /\ UNCHANGED minted
       \/ /\ attempt # NoBody
          /\ attempt.install # identity \/ SiteOfBody(attempt) # SiteOf[login.tok]
          /\ Fail
          /\ UNCHANGED <<attempt, minted>>
    /\ UNCHANGED <<identity, enrollment, marker, pendingId, pending, archive,
                   cache, fleet, runtime, committed, forsaken, late, faults>>

(* EnrollJSON: the server acts, then the answer travels. *)
Send ==
    /\ At("send")
    /\ Enroll(login.body)
    /\ login' = [login EXCEPT !.pc = "answer", !.answer = Answer(login.body)]
    /\ forsaken' = IF login.kind = "first" THEN forsaken \cup {login.body.install}
                                           ELSE forsaken
    /\ UNCHANGED <<disk, runtime, minted, committed, late, faults>>

Answered(a) == At("answer") /\ login.answer = a

AnsweredFirst ==
    /\ login.kind # "again"
    /\ forsaken' = IF Answered("conflict") THEN forsaken \cup {login.body.install}
                                           ELSE forsaken
    /\ \/ Answered("ok") /\ Goto("save")
       \/ /\ Answered("refused")
          /\ login.kind = "first" /\ login.body.as = "invite"
          /\ Becomes("send", [login.body EXCEPT !.as = "grant"])
       \/ /\ Answered("refused")
          /\ login.kind = "managed" \/ login.body.as = "grant"
          /\ Fail
       \/ Answered("conflict") /\ Fail
    /\ UNCHANGED <<disk, fleet, runtime, minted, committed, late, faults>>

(* A variant that saves the record without its site. *)
SaveNoSite ==
    /\ At("save")
    /\ enrollment' = [install |-> login.body.install, key |-> login.body.key,
                      site |-> "none"]
    /\ committed' = committed \cup {login.body.install}
    /\ Goto("clear")
    /\ UNCHANGED <<identity, marker, attempt, pendingId, pending, archive,
                   cache, fleet, runtime, minted, forsaken, late, faults>>

(* rec.Save, the login's commit; then the managed attempt is dropped. *)
Save ==
    /\ At("save")
    /\ enrollment' = [install |-> login.body.install, key |-> login.body.key,
                      site |-> SiteOfBody(login.body)]
    /\ committed' = committed \cup {login.body.install}
    /\ Goto("clear")
    /\ UNCHANGED <<identity, marker, attempt, pendingId, pending, archive,
                   cache, fleet, runtime, minted, forsaken, late, faults>>

ClearAttempt ==
    /\ At("clear")
    /\ attempt' = NoBody
    /\ Fail
    /\ UNCHANGED <<identity, enrollment, marker, pendingId, pending, archive,
                   cache, fleet, runtime, history>>

-----------------------------------------------------------------------------
(* reenroll, in the order of its writes. *)

Old == login.old

(* A variant that leaves the revoked identity where it is. *)
ArchiveNothing ==
    /\ At("archive")
    /\ Goto("marker")
    /\ UNCHANGED <<disk, fleet, runtime, history>>

(* archiveRevokedState: a file that is archived already is not copied over. *)
Archive ==
    /\ At("archive")
    /\ archive' = IF archive[Old] = 0 THEN [archive EXCEPT ![Old] = identity]
                                      ELSE archive
    /\ Goto("marker")
    /\ UNCHANGED <<identity, enrollment, marker, attempt, pendingId, pending,
                   cache, fleet, runtime, history>>

(* A variant that clears the marker it is recovering from. *)
DropMarker ==
    /\ At("marker")
    /\ marker' = NoMarker
    /\ Goto("pending")
    /\ UNCHANGED <<identity, enrollment, attempt, pendingId, pending, archive,
                   cache, fleet, runtime, history>>

(* A damaged marker is replaced by a valid one. *)
KeepMarker ==
    /\ At("marker")
    /\ marker' = IF LoadRevocation(enrollment) = "invalid"
                 THEN NewMarker(enrollment, TRUE) ELSE marker
    /\ Goto("pending")
    /\ UNCHANGED <<identity, enrollment, attempt, pendingId, pending, archive,
                   cache, fleet, runtime, history>>

PendingIdentity ==
    /\ At("pending")
    /\ pendingId[Old] = 0 => InstallMinted \in Installs
    /\ IF pendingId[Old] = 0
       THEN /\ pendingId' = [pendingId EXCEPT ![Old] = InstallMinted]
            /\ minted' = [minted EXCEPT !.install = @ + 1]
       ELSE UNCHANGED <<pendingId, minted>>
    /\ Goto("request")
    /\ UNCHANGED <<identity, enrollment, marker, attempt, pending, archive,
                   cache, fleet, runtime, committed, forsaken, late, faults>>

SavePending(b) == pending' = [pending EXCEPT ![Old] = b]

(* A variant that sends what it has not saved. *)
PendingUnsaved ==
    /\ At("request")
    /\ KeyMinted \in Keys
    /\ UNCHANGED pending
    /\ Becomes("send", NewBody(pendingId[Old], login.tok, "invite"))
    /\ minted' = [minted EXCEPT !.key = @ + 1]
    /\ UNCHANGED <<identity, enrollment, marker, attempt, pendingId, archive,
                   cache, fleet, runtime, committed, forsaken, late, faults>>

(* EnrollInteractive: the saved request is sent again as it is; another    *)
(* server makes a new one, and a request of another identity is an error.  *)
PendingRequest ==
    LET saved == pending[Old]
    IN  /\ At("request")
        /\ \/ /\ \/ saved = NoBody
                 \/ /\ saved # NoBody /\ saved.install = pendingId[Old]
                    /\ SiteOfBody(saved) # SiteOf[login.tok]
              /\ KeyMinted \in Keys
              /\ SavePending(NewBody(pendingId[Old], login.tok, "invite"))
              /\ Becomes("send", pending'[Old])
              /\ minted' = [minted EXCEPT !.key = @ + 1]
              /\ forsaken' = IF saved = NoBody THEN forsaken
                             ELSE forsaken \cup {saved.install}
           \/ /\ saved # NoBody /\ saved.install = pendingId[Old]
              /\ SiteOfBody(saved) = SiteOf[login.tok]
              /\ Becomes("send", saved)
              /\ UNCHANGED <<pending, minted, forsaken>>
           \/ /\ saved # NoBody /\ saved.install # pendingId[Old]
              /\ Fail
              /\ UNCHANGED <<pending, minted, forsaken>>
        /\ UNCHANGED <<identity, enrollment, marker, attempt, pendingId,
                       archive, cache, fleet, runtime, committed, late,
                       faults>>

(* The loop of EnrollInteractive: a refused invite is tried as a grant, a  *)
(* refused old grant gives way to the token of this login; each form is    *)
(* saved before it is sent.                                                *)
AnsweredAgain ==
    LET b == login.body
        asGrant == [b EXCEPT !.as = "grant"]
        asInvite == [b EXCEPT !.tok = login.tok, !.as = "invite"]
    IN  /\ login.kind = "again"
        /\ forsaken' = IF Answered("conflict") THEN forsaken \cup {b.install}
                                               ELSE forsaken
        /\ \/ Answered("ok") /\ Goto("identity") /\ UNCHANGED pending
           \/ /\ Answered("refused") /\ b.as = "invite"
              /\ SavePending(asGrant) /\ Becomes("send", asGrant)
           \/ /\ Answered("refused") /\ b.as = "grant" /\ b.tok # login.tok
              /\ SavePending(asInvite) /\ Becomes("send", asInvite)
           \/ /\ Answered("refused") /\ b.as = "grant" /\ b.tok = login.tok
              /\ Fail /\ UNCHANGED pending
           \/ /\ Answered("conflict") /\ ~login.again
              /\ login' = [login EXCEPT !.pc = "sweep", !.again = TRUE]
              /\ UNCHANGED pending
           \/ Answered("conflict") /\ login.again /\ Fail /\ UNCHANGED pending
        /\ UNCHANGED <<identity, enrollment, marker, attempt, pendingId,
                       archive, cache, fleet, runtime, minted, committed, late,
                       faults>>

(* clearPendingEnrollment: RemoveAll takes the files one by one, in either *)
(* order.                                                                  *)
RemovePendingFile ==
    /\ At("sweep") \/ At("clean")
    /\ \/ pendingId[Old] # 0 /\ pendingId' = [pendingId EXCEPT ![Old] = 0]
          /\ UNCHANGED pending
       \/ pending[Old] # NoBody /\ SavePending(NoBody) /\ UNCHANGED pendingId
    /\ UNCHANGED <<identity, enrollment, marker, attempt, archive, cache,
                   fleet, login, runtime, history>>

PendingRemoved ==
    /\ At("sweep") \/ At("clean")
    /\ pendingId[Old] = 0 /\ pending[Old] = NoBody
    /\ IF At("sweep") THEN Goto("pending") ELSE Fail
    /\ UNCHANGED <<disk, fleet, runtime, history>>

ReplaceIdentity ==
    /\ At("identity")
    /\ identity' = pendingId[Old]
    /\ Goto("cache")
    /\ UNCHANGED <<enrollment, marker, attempt, pendingId, pending, archive,
                   cache, fleet, runtime, history>>

(* A variant that keeps the cache. *)
KeepCache ==
    /\ At("cache")
    /\ Goto("commit")
    /\ UNCHANGED <<disk, fleet, runtime, history>>

(* The cached configuration was served to the revoked install. *)
RemoveCache ==
    /\ At("cache")
    /\ cache' = 0
    /\ Goto("commit")
    /\ UNCHANGED <<identity, enrollment, marker, attempt, pendingId, pending,
                   archive, fleet, runtime, history>>

(* "The enrollment record commits the replacement last." *)
Commit ==
    /\ At("commit")
    /\ enrollment' = [install |-> login.body.install, key |-> login.body.key,
                      site |-> SiteOfBody(login.body)]
    /\ committed' = committed \cup {login.body.install}
    /\ Goto("clean")
    /\ UNCHANGED <<identity, marker, attempt, pendingId, pending, archive,
                   cache, fleet, runtime, minted, forsaken, late, faults>>

(* The process stops, a write fails, or the answer is lost. *)
Interrupt ==
    /\ ~At("idle")
    /\ faults < MaxFaults
    /\ faults' = faults + 1
    /\ Fail
    /\ UNCHANGED <<disk, fleet, runtime, minted, committed, forsaken, late>>

-----------------------------------------------------------------------------
(* NewFrom builds a runtime from separate reads, under no lock: the        *)
(* marker first, the enrollment last.                                      *)

Stay(r, s) == runtime' = [runtime EXCEPT ![r] = s]

CheckMarker(r) ==
    /\ runtime[r].pc = "off"
    /\ identity # 0
    /\ ~Stopped
    /\ Stay(r, [Off EXCEPT !.pc = "checked"])
    /\ UNCHANGED <<disk, fleet, login, history>>

LoadClient(r) ==
    /\ runtime[r].pc = "checked"
    /\ IF enrollment = NoEnrollment
       THEN Stay(r, Off)
       ELSE Stay(r, [runtime[r] EXCEPT !.pc = "on", !.enr = enrollment])
    /\ UNCHANGED <<disk, fleet, login, history>>

(* exchange: a signed call looks for a marker of its own, and the server   *)
(* says whether the install is revoked.                                    *)
Exchange(r) ==
    LET c == runtime[r]
    IN  /\ c.pc = "on" /\ ~c.revoked
        /\ LoadRevocation(c.enr) = "none"
        /\ server[c.enr.site][c.enr.install].status = "revoked"
        /\ Stay(r, [c EXCEPT !.pc = "refused"])
        /\ UNCHANGED <<disk, fleet, login, history>>

(* FetchConfig by an install in good standing, and fetch's SaveCache.      *)
Fetch(r) ==
    LET c == runtime[r]
    IN  /\ c.pc = "on" /\ ~c.revoked
        /\ LoadRevocation(c.enr) = "none"
        /\ server[c.enr.site][c.enr.install].status = "active"
        /\ Stay(r, [c EXCEPT !.pc = "served"])
        /\ UNCHANGED <<disk, fleet, login, history>>

SaveCache(r) ==
    /\ runtime[r].pc = "served"
    /\ cache' = runtime[r].enr.install
    /\ late' = (late \/ runtime[r].enr # enrollment \/ At("commit"))
    /\ Stay(r, [runtime[r] EXCEPT !.pc = "on"])
    /\ UNCHANGED <<identity, enrollment, marker, attempt, pendingId, pending,
                   archive, fleet, login, minted, committed, forsaken, faults>>

(* recordRevocation: in memory first, then on disk when the lock is free   *)
(* and no marker of this install, and no damaged one, is there.            *)
RecordRevocation(r) ==
    LET c == runtime[r]
    IN  /\ c.pc = "refused"
        /\ Stay(r, [c EXCEPT !.pc = "on", !.revoked = TRUE])
        /\ IF At("idle") /\ LoadRevocation(c.enr) = "none"
           THEN /\ marker' = NewMarker(c.enr, FALSE)
                /\ late' = (late \/ c.enr # enrollment)
           ELSE UNCHANGED <<marker, late>>
        /\ UNCHANGED <<identity, enrollment, attempt, pendingId, pending,
                       archive, cache, fleet, login, minted, committed,
                       forsaken, faults>>

(* notifyRevocation, by a runtime that stops. *)
Notify(r) ==
    /\ runtime[r].pc = "on" /\ runtime[r].revoked
    /\ Stay(r, Off)
    /\ marker' = IF At("idle") /\ LoadRevocation(enrollment) = "revoked"
                 THEN [marker EXCEPT !.notified = TRUE] ELSE marker
    /\ UNCHANGED <<identity, enrollment, attempt, pendingId, pending, archive,
                   cache, fleet, login, history>>

Exit(r) ==
    /\ runtime[r].pc # "off"
    /\ Stay(r, Off)
    /\ UNCHANGED <<disk, fleet, login, history>>

-----------------------------------------------------------------------------
(* What administrators do, and a marker that is damaged on disk. *)

Revoke(s, i) ==
    /\ server[s][i].status = "active"
    /\ server' = [server EXCEPT ![s][i].status = "revoked"]
    /\ UNCHANGED <<disk, token, login, runtime, history>>

CloseToken(t) ==
    /\ token[t].open
    /\ token' = [token EXCEPT ![t].open = FALSE]
    /\ UNCHANGED <<disk, server, login, runtime, history>>

Damage ==
    /\ marker # NoMarker /\ marker.valid
    /\ faults < MaxFaults
    /\ faults' = faults + 1
    /\ marker' = [marker EXCEPT !.valid = FALSE]
    /\ UNCHANGED <<identity, enrollment, attempt, pendingId, pending, archive,
                   cache, fleet, login, runtime, minted, committed, forsaken,
                   late>>

(* The bounds leave no key or install to mint: the login ends. *)
OutOfRoom ==
    /\ \/ At("key") /\ KeyMinted \notin Keys
       \/ At("attempt") /\ attempt = NoBody /\ KeyMinted \notin Keys
       \/ At("pending") /\ pendingId[Old] = 0 /\ InstallMinted \notin Installs
       \/ /\ At("request") /\ KeyMinted \notin Keys
          /\ pending[Old] # NoBody => SiteOfBody(pending[Old]) # SiteOf[login.tok]
    /\ Fail
    /\ UNCHANGED <<disk, fleet, runtime, history>>

LoginStep ==
    \/ NewKey \/ ManagedAttempt \/ Send \/ AnsweredFirst \/ Save \/ ClearAttempt
    \/ Archive \/ KeepMarker \/ PendingIdentity \/ PendingRequest \/ AnsweredAgain
    \/ RemovePendingFile \/ PendingRemoved \/ ReplaceIdentity \/ RemoveCache
    \/ Commit \/ OutOfRoom

ManagedLogin == \E t \in Policy : Login(t, "managed")
InteractiveLogin == \E t \in Tokens : Login(t, "first") \/ LoginEnrolled(t)

RuntimeStep(r) ==
    \/ CheckMarker(r) \/ LoadClient(r) \/ Exchange(r)
    \/ Fetch(r) \/ SaveCache(r)
    \/ RecordRevocation(r) \/ Notify(r) \/ Exit(r)

Next ==
    \/ ManagedLogin \/ ManagedLoggedIn \/ InteractiveLogin \/ LoginStep \/ Interrupt
    \/ \E r \in Runtimes : RuntimeStep(r)
    \/ \E s \in Sites, i \in Installs : Revoke(s, i)
    \/ \E t \in Closable : CloseToken(t)
    \/ Damage

Spec == Init /\ [][Next]_vars

-----------------------------------------------------------------------------
(* Type correctness. *)
TypeOK ==
    /\ identity \in 0..MaxInstalls
    /\ enrollment \in Enrollments
    /\ marker \in Markers
    /\ attempt \in Bodies \cup {NoBody}
    /\ pendingId \in [Installs -> 0..MaxInstalls]
    /\ pending \in [Installs -> Bodies \cup {NoBody}]
    /\ archive \in [Installs -> 0..MaxInstalls]
    /\ cache \in 0..MaxInstalls
    /\ server \in [Sites -> [Installs -> Records]]
    /\ token \in [Tokens -> TokenStates]
    /\ login \in Logins
    /\ runtime \in [Runtimes -> Clients]
    /\ minted \in [install : 0..MaxInstalls, key : 0..MaxKeys]
    /\ committed \subseteq Installs /\ forsaken \subseteq Installs
    /\ late \in BOOLEAN
    /\ faults \in 0..MaxFaults

(* The identity of every install that was ever enrolled here is still on   *)
(* disk: nothing it named or sealed is orphaned by a recovery, however     *)
(* often that is interrupted (identity.Mint, archiveRevokedState).         *)
IdentityKept == \A i \in committed : identity = i \/ archive[i] = i

(* An install collects only under the identity it enrolled with: while a   *)
(* recovery has replaced identity.json and not yet enrollment.json, the    *)
(* stop marker stands (reenroll).  Only a superseded client that writes    *)
(* its own marker late can lift that.                                      *)
OneUnit ==
    enrollment # NoEnrollment /\ identity # enrollment.install
        => Stopped \/ late

(* Nothing but a new enrollment lifts a stop, and no damage to the marker  *)
(* does; the exception is again a superseded client's late record.         *)
StopHolds ==
    [][ Stopped /\ ~Stopped' =>
          \/ enrollment' # enrollment
          \/ \E r \in Runtimes : /\ runtime[r].pc = "refused"
                                 /\ runtime[r].enr # enrollment ]_vars

(* A request the server has accepted can be sent again as it was: its key  *)
(* is on disk until the enrollment is committed, through any crash or lost *)
(* answer (EnrollManaged, EnrollInteractive), unless the server called it  *)
(* a conflict or the user moved to another server.                         *)
Resumable ==
    \A s \in Sites, i \in Installs \ (committed \cup forsaken) :
        server[s][i].status = "active" =>
            \E b \in {attempt} \cup {pending[o] : o \in Installs} :
                b.install = i /\ b.key = server[s][i].body.key

(* The configuration an install falls back to is one served to it: the     *)
(* cache of the revoked install is gone before the new one is committed.   *)
CacheIsOwn ==
    ~Stopped /\ ~late => cache \in {0, enrollment.install}

(* The files of the state directory agree, whatever was interrupted: none  *)
(* of the install's past is lost, none of it is used for its successor.    *)
FilesAgree == TypeOK /\ IdentityKept /\ OneUnit /\ Resumable /\ CacheIsOwn

(* The managed service retries at every start, with a grant for the server *)
(* it first named (run --daemon, src/internal/cli/run.go); every other     *)
(* step of a login is the next line of a running program.                  *)
RetryManaged ==
    \E t \in Policy : /\ attempt # NoBody => SiteOf[t] = SiteOfBody(attempt)
                      /\ Login(t, "managed")
Fairness == WF_vars(LoginStep) /\ SF_vars(RetryManaged)
FairSpec == Spec /\ Fairness

(* A managed enrollment the server has accepted is committed in the end,   *)
(* however often its answer is lost, unless the grant is closed or the     *)
(* install revoked first (ManagedEnrollmentAttempt).                       *)
Accepted ==
    /\ enrollment = NoEnrollment
    /\ attempt # NoBody /\ attempt.install = identity
    /\ RecordOf(attempt).status = "active"
    /\ RecordOf(attempt).body.key = attempt.key
ManagedCompletes ==
    Accepted ~> \/ enrollment # NoEnrollment
                \/ \E t \in Policy : ~token[t].open
                \/ \E s \in Sites, i \in Installs : server[s][i].status = "revoked"
=============================================================================
