------------------------- MODULE InviteEnrollment --------------------------
(***************************************************************************)
(* Enrollment at the Fleet Manager (fleet-manager/src/manager.go and       *)
(* admin.go): HTTP handlers turn one single-use invite, or a grant, into   *)
(* active installs, while administrators revoke and release.               *)
(*                                                                         *)
(* All state is records in an object store that offers create-if-absent    *)
(* and replace-if-version; a handler reads a record, decides, and writes   *)
(* it back under the version it read.  A handler can die after any step    *)
(* and a body can be sent again, perhaps while the first handler still     *)
(* runs: by a transport that retries, or by a client that kept the body.   *)
(* Only a re-enrollment and a managed enrollment keep it; the next attempt *)
(* of a first interactive login has another device key, so it is another   *)
(* request, with the same install id.                                      *)
(***************************************************************************)
EXTENDS Naturals, FiniteSets

CONSTANTS
    Requests,      \* enrollment bodies; a body is its own digest
    InstallOf,     \* [Requests -> Installs]: the install id in the body
    DeviceOf,      \* [Requests -> Devices]: its device key and recipient
    ByGrant,       \* the requests that carry the grant, not the invite
    Resent,        \* the requests whose client keeps the body on disk
    Installs,
    Devices,
    NoRequest,     \* no reservation, or no install record
    Handlers,      \* concurrent HTTP handlers
    MaxReleases,   \* bound: ReleaseInvite calls
    MaxDeaths      \* bound: handlers that die

(* Every request names an install and a device key. *)
ASSUME RequestAssumption ==
    /\ InstallOf \in [Requests -> Installs]
    /\ DeviceOf \in [Requests -> Devices]
    /\ ByGrant \subseteq Requests
    /\ Resent \subseteq Requests
    /\ NoRequest \notin Requests
    /\ MaxReleases \in Nat
    /\ MaxDeaths \in Nat

VARIABLES
    invite,    \* the invite record
    expired,   \* its expiry has passed
    grantOpen, \* the grant is neither revoked nor expired
    install,   \* the install records
    handler,   \* each handler: where it is, what it serves, what it read
    release,   \* an administrator's ReleaseInvite
    answered,  \* history: the requests answered with success
    releases,
    deaths

vars == <<invite, expired, grantOpen, install, handler, release, answered,
          releases, deaths>>

-----------------------------------------------------------------------------
Invites == [reserved : Requests \cup {NoRequest}, spent : BOOLEAN,
            revoked : BOOLEAN, version : Nat]
NewInvite == [reserved |-> NoRequest, spent |-> FALSE, revoked |-> FALSE,
              version |-> 0]

(* An install record holds the material of the request that created it.    *)
Records == [status : {"absent", "pending", "active", "revoked"},
            req : Requests \cup {NoRequest}, version : Nat]
NoRecord == [status |-> "absent", req |-> NoRequest, version |-> 0]

Steps == {"idle", "start", "reserve", "install", "create", "confirm", "spend",
          "reread", "activate", "grant", "createActive", "compare"}

States == [pc : Steps, req : Requests \cup {NoRequest}, inv : Invites,
           rec : Records]
Idle == [pc |-> "idle", req |-> NoRequest, inv |-> NewInvite, rec |-> NoRecord]

Releasing == [active : BOOLEAN, inv : Invites]
NoRelease == [active |-> FALSE, inv |-> NewInvite]

HandlerOK ==
    /\ handler \in [Handlers -> States]
    /\ \A h \in Handlers : handler[h].pc # "idle" => handler[h].req \in Requests

TypeOK ==
    /\ invite \in Invites
    /\ expired \in BOOLEAN
    /\ grantOpen \in BOOLEAN
    /\ install \in [Installs -> Records]
    /\ HandlerOK
    /\ release \in Releasing
    /\ answered \subseteq Requests
    /\ releases \in 0..MaxReleases
    /\ deaths \in 0..MaxDeaths

Init ==
    /\ invite = NewInvite
    /\ expired = FALSE
    /\ grantOpen = TRUE
    /\ install = [i \in Installs |-> NoRecord]
    /\ handler = [h \in Handlers |-> Idle]
    /\ release = NoRelease
    /\ answered = {}
    /\ releases = 0
    /\ deaths = 0

-----------------------------------------------------------------------------
(* Reading and writing records. *)

Req(h) == handler[h].req
Target(h) == install[InstallOf[Req(h)]]

Goto(h, pc, inv, rec) ==
    handler' = [handler EXCEPT ![h] = [pc |-> pc, req |-> Req(h), inv |-> inv,
                                       rec |-> rec]]

(* A variant that forgets what it was asked. *)
RestartEmpty(h) ==
    handler' = [handler EXCEPT ![h] = [pc |-> "start", req |-> NoRequest,
                                       inv |-> NewInvite, rec |-> NoRecord]]

Restart(h) == Goto(h, "start", NewInvite, NoRecord)
Refuse(h) == handler' = [handler EXCEPT ![h] = Idle] /\ UNCHANGED answered
Succeed(h) == /\ handler' = [handler EXCEPT ![h] = Idle]
              /\ answered' = answered \cup {Req(h)}

(* Variants that write whatever happened since the read. *)
InviteOverwritten(read) == TRUE
InstallOverwritten(h) == TRUE

(* replaceRecord: the write happens only if the record is still at the     *)
(* version the writer read.                                                *)
InviteUnmoved(read) == invite.version = read.version
WriteInvite(inv) == invite' = [reserved |-> inv.reserved, spent |-> inv.spent,
                               revoked |-> inv.revoked,
                               version |-> inv.version + 1]

InstallUnmoved(h) == Target(h).version = handler[h].rec.version

WriteInstall(h, rec) ==
    install' = [install EXCEPT ![InstallOf[Req(h)]] = rec]

(* createRecord: the record appears only if there is none. *)
NewRecord(h, status) == [status |-> status, req |-> Req(h), version |-> 1]

(* A variant that takes any record of the install id for its own. *)
SameInstall(rec, r) == rec.req # NoRequest

(* sameEnrollment; sameEnrollmentIdentity leaves out the body's digest.    *)
SameEnrollment(rec, r) == rec.req = r
SameIdentity(rec, r) == rec.req \in Requests /\ DeviceOf[rec.req] = DeviceOf[r]

At(h, pc) == handler[h].pc = pc

-----------------------------------------------------------------------------
(* EnrollInvite. *)

Serve(h, r) ==
    /\ At(h, "idle")
    /\ handler' = [handler EXCEPT ![h] =
                     [pc |-> IF r \in ByGrant THEN "grant" ELSE "start",
                      req |-> r, inv |-> NewInvite, rec |-> NoRecord]]
    /\ UNCHANGED <<invite, expired, grantOpen, install, release, answered,
                   releases, deaths>>

(* The invite is refused when revoked, when expired and unreserved, or     *)
(* when it is reserved for, or was spent by, another request.              *)
Refused(r) ==
    \/ invite.revoked
    \/ invite.reserved = NoRequest /\ (expired \/ invite.spent)
    \/ invite.reserved \notin {NoRequest, r}

ReadInvite(h) ==
    /\ At(h, "start")
    /\ IF Refused(Req(h))
       THEN Refuse(h)
       ELSE /\ IF invite.reserved = NoRequest
               THEN Goto(h, "reserve", invite, NoRecord)
               ELSE Goto(h, "install", NewInvite, NoRecord)
            /\ UNCHANGED answered
    /\ UNCHANGED <<invite, expired, grantOpen, install, release, releases,
                   deaths>>

(* The first write: the reservation. *)
Reserve(h) ==
    LET inv == handler[h].inv
    IN  /\ At(h, "reserve")
        /\ IF InviteUnmoved(inv)
           THEN /\ WriteInvite([reserved |-> Req(h), spent |-> inv.spent,
                                revoked |-> inv.revoked,
                                version |-> inv.version])
                /\ Goto(h, "install", NewInvite, NoRecord)
           ELSE Restart(h) /\ UNCHANGED invite
        /\ UNCHANGED <<expired, grantOpen, install, release, answered,
                       releases, deaths>>

(* A variant that refuses a pending record instead of resuming it. *)
ReadInstallOnce(h) ==
    LET rec == Target(h)
    IN  /\ At(h, "install")
        /\ \/ /\ rec.status = "absent"
              /\ Goto(h, "create", NewInvite, NoRecord) /\ UNCHANGED answered
           \/ /\ rec.status # "absent" /\ rec.status # "active"
              /\ Refuse(h)
           \/ /\ SameEnrollment(rec, Req(h)) /\ rec.status = "active"
              /\ Succeed(h)
           \/ /\ ~SameEnrollment(rec, Req(h)) /\ rec.status = "active"
              /\ Refuse(h)
        /\ UNCHANGED <<invite, expired, grantOpen, install, release, releases,
                       deaths>>

ReadInstall(h) ==
    LET rec == Target(h)
    IN  /\ At(h, "install")
        /\ \/ /\ rec.status = "absent"
              /\ Goto(h, "create", NewInvite, NoRecord) /\ UNCHANGED answered
           \/ /\ rec.status # "absent"
              /\ ~SameEnrollment(rec, Req(h)) \/ rec.status = "revoked"
              /\ Refuse(h)
           \/ /\ SameEnrollment(rec, Req(h)) /\ rec.status = "active"
              /\ Succeed(h)
           \/ /\ SameEnrollment(rec, Req(h)) /\ rec.status = "pending"
              /\ Goto(h, "confirm", NewInvite, NoRecord) /\ UNCHANGED answered
        /\ UNCHANGED <<invite, expired, grantOpen, install, release, releases,
                       deaths>>

(* A variant that creates the install and leaves the invite unspent. *)
CreateUnspent(h) ==
    /\ At(h, "create")
    /\ IF Target(h).status = "absent"
       THEN /\ WriteInstall(h, NewRecord(h, "pending"))
            /\ Goto(h, "reread", NewInvite, NoRecord)
       ELSE Restart(h) /\ UNCHANGED install
    /\ UNCHANGED <<invite, expired, grantOpen, release, answered, releases,
                   deaths>>

(* The second write: the install record, pending. *)
Create(h) ==
    /\ At(h, "create")
    /\ IF Target(h).status = "absent"
       THEN /\ WriteInstall(h, NewRecord(h, "pending"))
            /\ Goto(h, "confirm", NewInvite, NoRecord)
       ELSE Restart(h) /\ UNCHANGED install
    /\ UNCHANGED <<invite, expired, grantOpen, release, answered, releases,
                   deaths>>

Confirm(h) ==
    /\ At(h, "confirm")
    /\ IF invite.spent THEN Goto(h, "reread", NewInvite, NoRecord)
                       ELSE Goto(h, "spend", invite, NoRecord)
    /\ UNCHANGED <<invite, expired, grantOpen, install, release, answered,
                   releases, deaths>>

(* The third write: the invite is spent. *)
Spend(h) ==
    LET inv == handler[h].inv
    IN  /\ At(h, "spend")
        /\ IF InviteUnmoved(inv)
           THEN /\ WriteInvite([reserved |-> inv.reserved, spent |-> TRUE,
                                revoked |-> inv.revoked,
                                version |-> inv.version])
                /\ Goto(h, "reread", NewInvite, NoRecord)
           ELSE Restart(h) /\ UNCHANGED invite
        /\ UNCHANGED <<expired, grantOpen, install, release, answered,
                       releases, deaths>>

Reread(h) ==
    LET rec == Target(h)
    IN  /\ At(h, "reread")
        /\ \/ /\ SameEnrollment(rec, Req(h)) /\ rec.status = "active"
              /\ Succeed(h)
           \/ /\ SameEnrollment(rec, Req(h)) /\ rec.status = "pending"
              /\ Goto(h, "activate", NewInvite, rec) /\ UNCHANGED answered
           \/ /\ ~SameEnrollment(rec, Req(h))
                 \/ rec.status \notin {"active", "pending"}
              /\ Refuse(h)
        /\ UNCHANGED <<invite, expired, grantOpen, install, release, releases,
                       deaths>>

(* The fourth write: the install is active. *)
Activate(h) ==
    LET rec == handler[h].rec
    IN  /\ At(h, "activate")
        /\ IF InstallUnmoved(h)
           THEN /\ WriteInstall(h, [status |-> "active", req |-> rec.req,
                                    version |-> rec.version + 1])
                /\ Succeed(h)
           ELSE Restart(h) /\ UNCHANGED <<install, answered>>
        /\ UNCHANGED <<invite, expired, grantOpen, release, releases, deaths>>

-----------------------------------------------------------------------------
(* EnrollGrant: an active install in one write.  If there is a record      *)
(* already, the same device is told it is enrolled.                        *)

ReadGrant(h) ==
    /\ At(h, "grant")
    /\ IF grantOpen
       THEN Goto(h, "createActive", NewInvite, NoRecord) /\ UNCHANGED answered
       ELSE Refuse(h)
    /\ UNCHANGED <<invite, expired, grantOpen, install, release, releases,
                   deaths>>

CreateActive(h) ==
    /\ At(h, "createActive")
    /\ IF Target(h).status = "absent"
       THEN WriteInstall(h, NewRecord(h, "active")) /\ Succeed(h)
       ELSE /\ Goto(h, "compare", NewInvite, NoRecord)
            /\ UNCHANGED <<install, answered>>
    /\ UNCHANGED <<invite, expired, grantOpen, release, releases, deaths>>

Compare(h) ==
    /\ At(h, "compare")
    /\ IF Target(h).status = "active" /\ SameIdentity(Target(h), Req(h))
       THEN Succeed(h)
       ELSE Refuse(h)
    /\ UNCHANGED <<invite, expired, grantOpen, install, release, releases,
                   deaths>>

(* The handler dies where it stands: the process stops, the request is     *)
(* cancelled, or the store's answer to a write is lost.                    *)
Die(h) ==
    /\ ~At(h, "idle")
    /\ deaths < MaxDeaths
    /\ deaths' = deaths + 1
    /\ handler' = [handler EXCEPT ![h] = Idle]
    /\ UNCHANGED <<invite, expired, grantOpen, install, release, answered,
                   releases>>

-----------------------------------------------------------------------------
(* Time and administrators.  A command that reads one record and replaces  *)
(* it under the version it read takes effect in one step or not at all.    *)

Expire ==
    /\ ~expired
    /\ expired' = TRUE
    /\ UNCHANGED <<invite, grantOpen, install, handler, release, answered,
                   releases, deaths>>

(* RevokeGrant, or the grant's expiry *)
CloseGrant ==
    /\ grantOpen
    /\ grantOpen' = FALSE
    /\ UNCHANGED <<invite, expired, install, handler, release, answered,
                   releases, deaths>>

RevokeInvite ==
    /\ ~invite.revoked
    /\ WriteInvite([reserved |-> invite.reserved, spent |-> invite.spent,
                    revoked |-> TRUE, version |-> invite.version])
    /\ UNCHANGED <<expired, grantOpen, install, handler, release, answered,
                   releases, deaths>>

RevokeInstall(i) ==
    /\ install[i].status \in {"pending", "active"}
    /\ install' = [install EXCEPT ![i] = [status |-> "revoked", req |-> @.req,
                                          version |-> @.version + 1]]
    /\ UNCHANGED <<invite, expired, grantOpen, handler, release, answered,
                   releases, deaths>>

(* ReleaseInvite reads the invite and the install it is reserved for: it   *)
(* goes on if the invite is unspent and that install is absent or revoked  *)
(* ...                                                                     *)
CheckRelease ==
    /\ ~release.active
    /\ releases < MaxReleases
    /\ ~invite.spent
    /\ invite.reserved # NoRequest
    /\ install[InstallOf[invite.reserved]].status \in {"absent", "revoked"}
    /\ release' = [active |-> TRUE, inv |-> invite]
    /\ releases' = releases + 1
    /\ UNCHANGED <<invite, expired, grantOpen, install, handler, answered,
                   deaths>>

(* ... and clears the reservation. *)
WriteRelease ==
    /\ release.active
    /\ IF InviteUnmoved(release.inv)
       THEN WriteInvite([reserved |-> NoRequest, spent |-> release.inv.spent,
                         revoked |-> release.inv.revoked,
                         version |-> release.inv.version])
       ELSE UNCHANGED invite
    /\ release' = NoRelease
    /\ UNCHANGED <<expired, grantOpen, install, handler, answered, releases,
                   deaths>>

-----------------------------------------------------------------------------
HandlerStep(h) ==
    \/ ReadInvite(h) \/ Reserve(h) \/ ReadInstall(h) \/ Create(h)
    \/ Confirm(h) \/ Spend(h) \/ Reread(h) \/ Activate(h)
    \/ ReadGrant(h) \/ CreateActive(h) \/ Compare(h)

Next ==
    \/ \E h \in Handlers, r \in Requests : Serve(h, r)
    \/ \E h \in Handlers : HandlerStep(h) \/ Die(h)
    \/ Expire \/ CloseGrant \/ RevokeInvite \/ CheckRelease \/ WriteRelease
    \/ \E i \in Installs : RevokeInstall(i)

Spec == Init /\ [][Next]_vars

-----------------------------------------------------------------------------
(* Properties. *)

(* The installs that came to be active through the invite. *)
Enrolled == {i \in Installs : /\ install[i].status = "active"
                              /\ install[i].req \notin ByGrant}

(* "invite token, 24h, single use" (PROTOCOL.md): however handlers race,   *)
(* die and are retried, one invite has at most one active install.         *)
SingleUse == Cardinality(Enrolled) <= 1

(* The four writes are ordered so that a death between any two is safe: an *)
(* install is active by the invite only if the invite is already spent,    *)
(* so no later request can reserve it again.                               *)
ActiveIsSpent == Enrolled # {} => invite.spent

(* A revocation wins over the enrollment it races with: a handler that     *)
(* read the install while it was pending cannot bring it back.             *)
RevocationIsFinal ==
    [][\A i \in Installs : install[i].status = "revoked" =>
          install'[i].status = "revoked"]_vars

(* "an identical completed request is idempotent; changed enrollment       *)
(* material is refused" (PROTOCOL.md): a request answered with success     *)
(* names an install that was activated with this request's device key.     *)
AnswerIsHonest ==
    \A r \in answered :
       /\ install[InstallOf[r]].status \in {"active", "revoked"}
       /\ SameIdentity(install[InstallOf[r]], r)

-----------------------------------------------------------------------------
(* The inductive invariant behind ActiveIsSpent, AnswerIsHonest and        *)
(* RevocationIsFinal.                                                      *)

(* A copy of a record is old, or it is the record.                         *)
Copy(read, now) ==
    /\ read.version <= now.version
    /\ read.version = now.version => read = now

(* What a handler holds when it is about to write the invite back.         *)
InviteCopyInv ==
    /\ \A h \in Handlers :
          handler[h].pc \in {"reserve", "spend"} => Copy(handler[h].inv, invite)
    /\ release.active => Copy(release.inv, invite) /\ ~release.inv.spent

(* What a handler holds when it is about to activate the install.          *)
InstallCopyInv ==
    \A h \in Handlers :
       At(h, "activate") => /\ Copy(handler[h].rec, Target(h))
                            /\ handler[h].rec.status = "pending"
                            /\ handler[h].rec.req = Req(h)

(* Past the third write the invite is spent, for good.                     *)
SpentInv ==
    /\ \A h \in Handlers :
          handler[h].pc \in {"reread", "activate"} => invite.spent
    /\ \A h \in Handlers : At(h, "createActive") => Req(h) \in ByGrant
    /\ \A h \in Handlers : At(h, "grant") => Req(h) \in ByGrant
    /\ ActiveIsSpent

RecordInv ==
    \A i \in Installs : IF install[i].status = "absent"
                        THEN install[i].version = 0
                        ELSE install[i].req \in Requests

IInv == /\ TypeOK /\ InviteCopyInv /\ InstallCopyInv /\ SpentInv /\ RecordInv
        /\ AnswerIsHonest

-----------------------------------------------------------------------------
(* Liveness: handlers run, and a client that keeps its attempt sends the   *)
(* same body until it is answered (interactive_enrollment.go,              *)
(* enrollment_attempt.go).  A first login (login.go) makes a new device    *)
(* key each time and keeps nothing: nobody need ever send its body again.  *)
Fairness ==
    \A h \in Handlers :
       /\ WF_vars(HandlerStep(h))
       /\ \A r \in Resent : SF_vars(Serve(h, r))

FairSpec == Spec /\ Fairness

(* The install record the reservation needs belongs to someone else.       *)
Blocked(r) == LET rec == install[InstallOf[r]]
              IN  rec.status = "revoked" \/ rec.req \notin {NoRequest, r}

(* The reservation of r ends with its install active, unless an            *)
(* administrator stepped in or the install id is taken.                    *)
Completes(r) ==
    invite.reserved = r ~>
       \/ install[InstallOf[r]].status = "active"
       \/ invite.revoked \/ invite.reserved # r \/ Blocked(r)

(* "a four-write transaction whose durable intermediate states are         *)
(* recoverable" (EnrollInvite): whatever state deaths leave, an invite     *)
(* reserved by a request that is sent again ends with its install active.  *)
ReservationCompletes == \A r \in Resent : Completes(r)

(* The same promise for every client.  The code does not keep it: the      *)
(* reservation of a first login whose answer or whose handler is lost      *)
(* refuses the next attempt of the same machine, and waits for an          *)
(* administrator.                                                          *)
EveryReservationCompletes == \A r \in Requests : Completes(r)
=============================================================================
