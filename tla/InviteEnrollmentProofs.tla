---------------------- MODULE InviteEnrollmentProofs -----------------------
(***************************************************************************)
(* What InviteEnrollment keeps for every set of requests, installs and     *)
(* handlers and any number of deaths and releases.  Everything rests on    *)
(* one idea: a copy of a record at the version it was read at is the       *)
(* record itself, so a write under that version acts on the present state. *)
(***************************************************************************)
EXTENDS InviteEnrollment, FiniteSetTheorems, TLAPS

USE RequestAssumption

(* The blank records are of their types. *)
LEMMA Blanks ==
    /\ NewInvite \in Invites
    /\ NoRecord \in Records
    /\ Idle \in States
    /\ NoRelease \in Releasing
  BY DEF NewInvite, NoRecord, Idle, NoRelease, Invites, Records, States, Steps,
         Releasing

(* Goto moves one handler and leaves the others where they are.            *)
LEMMA GotoMoves ==
    ASSUME HandlerOK, NEW h \in Handlers, NEW pc \in Steps \ {"idle"},
           NEW inv \in Invites, NEW rec \in Records,
           handler[h].pc # "idle", Goto(h, pc, inv, rec)
    PROVE  /\ HandlerOK'
           /\ handler'[h].pc = pc
           /\ handler'[h].req = handler[h].req
           /\ handler'[h].inv = inv
           /\ handler'[h].rec = rec
           /\ \A k \in Handlers : k # h => handler'[k] = handler[k]
<1> DEFINE s == [pc |-> pc, req |-> handler[h].req, inv |-> inv, rec |-> rec]
<1>1. handler[h] \in States /\ handler[h].req \in Requests
  BY DEF HandlerOK
<1>2. s \in States /\ s.pc = pc /\ s.req = handler[h].req /\ s.inv = inv
      /\ s.rec = rec
  BY <1>1 DEF States
<1>3. handler' = [handler EXCEPT ![h] = s]
  BY DEF Goto, Req
<1> HIDE DEF s
<1>4. /\ handler' \in [Handlers -> States]
      /\ handler'[h] = s
      /\ \A k \in Handlers : k # h => handler'[k] = handler[k]
  BY <1>2, <1>3 DEF HandlerOK
<1>5. HandlerOK'
  BY <1>1, <1>2, <1>4 DEF HandlerOK
<1> QED
  BY <1>2, <1>4, <1>5

(* A handler that answers, is refused or dies becomes idle.                *)
LEMMA IdleMoves ==
    ASSUME HandlerOK, NEW h \in Handlers,
           handler' = [handler EXCEPT ![h] = Idle]
    PROVE  /\ HandlerOK'
           /\ handler'[h].pc = "idle"
           /\ \A k \in Handlers : k # h => handler'[k] = handler[k]
<1>1. Idle \in States /\ Idle.pc = "idle"
  BY Blanks DEF Idle
<1>2. /\ handler' \in [Handlers -> States]
      /\ handler'[h] = Idle
      /\ \A k \in Handlers : k # h => handler'[k] = handler[k]
  BY <1>1 DEF HandlerOK
<1> QED
  BY <1>1, <1>2 DEF HandlerOK

(* A handler that takes up a request. *)
LEMMA ServeMoves ==
    ASSUME HandlerOK, NEW h \in Handlers, NEW r \in Requests, Serve(h, r)
    PROVE  /\ HandlerOK'
           /\ handler'[h].pc \in {"grant", "start"}
           /\ handler'[h].pc = "grant" => handler'[h].req \in ByGrant
           /\ \A k \in Handlers : k # h => handler'[k] = handler[k]
<1> DEFINE s == [pc |-> IF r \in ByGrant THEN "grant" ELSE "start",
                 req |-> r, inv |-> NewInvite, rec |-> NoRecord]
<1>1. s \in States /\ s.pc \in {"grant", "start"} /\ s.req = r
      /\ (s.pc = "grant" => r \in ByGrant)
  BY Blanks DEF States, Steps
<1>2. handler' = [handler EXCEPT ![h] = s]
  BY DEF Serve
<1> HIDE DEF s
<1>3. /\ handler' \in [Handlers -> States]
      /\ handler'[h] = s
      /\ \A k \in Handlers : k # h => handler'[k] = handler[k]
  BY <1>1, <1>2 DEF HandlerOK
<1> QED
  BY <1>1, <1>3 DEF HandlerOK

-----------------------------------------------------------------------------
(* What a step may do to each record. *)

(* The moved handler holds a fresh copy of what it is about to replace.    *)
Moves(h) ==
    /\ HandlerOK'
    /\ \A k \in Handlers : k # h => handler'[k] = handler[k]
    /\ handler'[h].pc \in {"reserve", "spend"} =>
          handler'[h].inv = invite /\ invite' = invite
    /\ handler'[h].pc = "activate" =>
          /\ handler'[h].req = handler[h].req
          /\ handler'[h].rec = Target(h)
          /\ Target(h).status = "pending"
          /\ Target(h).req = handler[h].req
          /\ handler[h].req \in Requests
          /\ install' = install
    /\ handler'[h].pc \in {"reread", "activate"} => invite'.spent
    /\ handler'[h].pc \in {"grant", "createActive"} =>
          handler'[h].req \in ByGrant

InviteMoves ==
    \/ invite' = invite
    \/ /\ invite' \in Invites
       /\ invite'.version = invite.version + 1
       /\ invite.spent => invite'.spent

(* The life of an install record. *)
RecordMoves(old, new) ==
    /\ new \in Records
    /\ new.version = old.version + 1
    /\ new.req \in Requests
    /\ \/ old.status = "absent" /\ new.status = "pending"
       \/ old.status = "absent" /\ new.status = "active" /\ new.req \in ByGrant
       \/ /\ old.status = "pending" /\ new.status = "active"
          /\ new.req = old.req /\ invite.spent
       \/ /\ old.status \in {"pending", "active"} /\ new.status = "revoked"
          /\ new.req = old.req

InstallMoves ==
    /\ install' \in [Installs -> Records]
    /\ \A i \in Installs :
          install'[i] = install[i] \/ RecordMoves(install[i], install'[i])

ReleaseMoves ==
    /\ release' \in Releasing
    /\ \/ release' = release
       \/ ~release'.active
       \/ release'.inv = invite /\ invite' = invite /\ ~invite.spent

AnswerMoves ==
    \/ answered' = answered
    \/ \E r \in Requests :
          /\ answered' = answered \cup {r}
          /\ install'[InstallOf[r]].status = "active"
          /\ install'[InstallOf[r]].req \in Requests
          /\ DeviceOf[install'[InstallOf[r]].req] = DeviceOf[r]

StepMoves ==
    /\ handler' = handler \/ \E h \in Handlers : Moves(h)
    /\ InviteMoves /\ InstallMoves /\ ReleaseMoves /\ AnswerMoves
    /\ expired' \in BOOLEAN /\ grantOpen' \in BOOLEAN
    /\ releases' \in 0..MaxReleases /\ deaths' \in 0..MaxDeaths

(* Leaving a record alone is one of its moves. *)
LEMMA Stays ==
    ASSUME TypeOK
    PROVE  /\ UNCHANGED invite => InviteMoves
           /\ UNCHANGED install => InstallMoves
           /\ UNCHANGED release => ReleaseMoves
           /\ UNCHANGED answered => AnswerMoves
           /\ UNCHANGED <<expired, grantOpen, releases, deaths>> =>
                 /\ expired' \in BOOLEAN /\ grantOpen' \in BOOLEAN
                 /\ releases' \in 0..MaxReleases /\ deaths' \in 0..MaxDeaths
  BY DEF TypeOK, InviteMoves, InstallMoves, ReleaseMoves, AnswerMoves

(* The types of what a handler at work holds. *)
LEMMA HandlerFacts ==
    ASSUME TypeOK, NEW h \in Handlers, handler[h].pc # "idle"
    PROVE  /\ handler[h].req \in Requests
           /\ InstallOf[handler[h].req] \in Installs
           /\ Target(h) \in Records
           /\ handler[h].inv \in Invites
           /\ handler[h].rec \in Records
  BY DEF TypeOK, HandlerOK, States, Target, Req

(* One install is written, the others stay. *)
LEMMA WriteMoves ==
    ASSUME TypeOK, NEW h \in Handlers, handler[h].pc # "idle", NEW rec,
           RecordMoves(Target(h), rec), WriteInstall(h, rec)
    PROVE  InstallMoves /\ install'[InstallOf[handler[h].req]] = rec
  BY HandlerFacts DEF TypeOK, InstallMoves, WriteInstall, RecordMoves, Req, Target

(* Success is answered for an install active with the request's key.       *)
LEMMA SucceedMoves ==
    ASSUME TypeOK, NEW h \in Handlers, handler[h].pc # "idle", Succeed(h),
           install'[InstallOf[handler[h].req]].status = "active",
           install'[InstallOf[handler[h].req]].req \in Requests,
           DeviceOf[install'[InstallOf[handler[h].req]].req]
              = DeviceOf[handler[h].req]
    PROVE  Moves(h) /\ AnswerMoves
<1>1. /\ HandlerOK' /\ handler'[h].pc = "idle"
      /\ \A k \in Handlers : k # h => handler'[k] = handler[k]
  BY IdleMoves DEF Succeed, TypeOK
<1>2. answered' = answered \cup {handler[h].req}
  BY DEF Succeed, Req
<1> QED
  BY <1>1, <1>2, HandlerFacts DEF Moves, AnswerMoves

(* A refusal, or a death, moves nothing else. *)
LEMMA RefuseMoves ==
    ASSUME TypeOK, NEW h \in Handlers, handler' = [handler EXCEPT ![h] = Idle]
    PROVE  Moves(h)
  BY IdleMoves DEF Moves, TypeOK

(* So does a restart. *)
LEMMA RestartMoves ==
    ASSUME TypeOK, NEW h \in Handlers, handler[h].pc # "idle", Restart(h)
    PROVE  Moves(h)
<1>1. HandlerOK' /\ handler'[h].pc = "start"
      /\ \A k \in Handlers : k # h => handler'[k] = handler[k]
  BY GotoMoves, Blanks DEF Restart, TypeOK, Steps
<1> QED
  BY <1>1 DEF Moves

-----------------------------------------------------------------------------
(* Each step of a handler makes only those moves. *)
LEMMA HandlerStepMoves ==
    ASSUME IInv, NEW h \in Handlers, HandlerStep(h)
    PROVE  StepMoves
<1> USE DEF IInv
<1> SUFFICES /\ Moves(h) /\ InviteMoves /\ InstallMoves /\ AnswerMoves
             /\ UNCHANGED <<release, expired, grantOpen, releases, deaths>>
  BY Stays DEF StepMoves
<1> DEFINE others == <<release, expired, grantOpen, releases, deaths>>
<1>ty. TypeOK /\ HandlerOK
  BY DEF TypeOK
<1>1. ASSUME ReadInvite(h)
      PROVE  /\ Moves(h) /\ InviteMoves /\ InstallMoves /\ AnswerMoves
             /\ UNCHANGED others
  <2>1. handler[h].pc # "idle" /\ invite \in Invites
    BY <1>1 DEF ReadInvite, At, TypeOK
  <2>2. CASE Refuse(h)
    BY <1>1, <2>2, RefuseMoves, Stays DEF ReadInvite, Refuse
  <2>3. CASE Goto(h, "reserve", invite, NoRecord) /\ UNCHANGED answered
    <3>1. HandlerOK' /\ handler'[h].pc = "reserve" /\ handler'[h].inv = invite
          /\ \A k \in Handlers : k # h => handler'[k] = handler[k]
      BY <1>ty, <2>1, <2>3, GotoMoves, Blanks DEF Steps
    <3> QED
      BY <1>1, <2>3, <3>1, Stays DEF ReadInvite, Moves
  <2>4. CASE Goto(h, "install", NewInvite, NoRecord) /\ UNCHANGED answered
    <3>1. HandlerOK' /\ handler'[h].pc = "install"
          /\ \A k \in Handlers : k # h => handler'[k] = handler[k]
      BY <1>ty, <2>1, <2>4, GotoMoves, Blanks DEF Steps
    <3> QED
      BY <1>1, <2>4, <3>1, Stays DEF ReadInvite, Moves
  <2> QED
    BY <1>1, <2>2, <2>3, <2>4 DEF ReadInvite
<1>2. ASSUME Reserve(h)
      PROVE  /\ Moves(h) /\ InviteMoves /\ InstallMoves /\ AnswerMoves
             /\ UNCHANGED others
  <2> DEFINE inv == handler[h].inv
  <2>1. handler[h].pc # "idle" /\ inv \in Invites /\ handler[h].req \in Requests
    BY <1>2, HandlerFacts DEF Reserve, At
  <2>2. CASE InviteUnmoved(inv)
    <3>1. inv = invite
      BY <1>2, <2>2 DEF Reserve, At, InviteCopyInv, Copy, InviteUnmoved
    <3>2. InviteMoves
      BY <1>2, <2>1, <2>2, <3>1
      DEF Reserve, WriteInvite, InviteMoves, Invites, Req
    <3>3. HandlerOK' /\ handler'[h].pc = "install"
          /\ \A k \in Handlers : k # h => handler'[k] = handler[k]
      BY <1>ty, <1>2, <2>1, <2>2, GotoMoves, Blanks DEF Reserve, Steps
    <3> QED
      BY <1>2, <3>2, <3>3, Stays DEF Reserve, Moves
  <2>3. CASE ~InviteUnmoved(inv)
    BY <1>2, <2>1, <2>3, RestartMoves, Stays DEF Reserve
  <2> QED
    BY <2>2, <2>3
<1>3. ASSUME ReadInstall(h)
      PROVE  /\ Moves(h) /\ InviteMoves /\ InstallMoves /\ AnswerMoves
             /\ UNCHANGED others
  <2>1. handler[h].pc # "idle" /\ handler[h].req \in Requests
    BY <1>3, HandlerFacts DEF ReadInstall, At
  <2>2. CASE Refuse(h)
    BY <1>3, <2>2, RefuseMoves, Stays DEF ReadInstall, Refuse
  <2>3. CASE Succeed(h) /\ SameEnrollment(Target(h), Req(h))
             /\ Target(h).status = "active"
    BY <1>3, <2>1, <2>3, SucceedMoves, Stays
    DEF ReadInstall, SameEnrollment, Target, Req
  <2>4. CASE /\ UNCHANGED answered
             /\ \/ Goto(h, "create", NewInvite, NoRecord)
                \/ Goto(h, "confirm", NewInvite, NoRecord)
    <3>1. HandlerOK' /\ handler'[h].pc \in {"create", "confirm"}
          /\ \A k \in Handlers : k # h => handler'[k] = handler[k]
      BY <1>ty, <2>1, <2>4, GotoMoves, Blanks DEF Steps
    <3> QED
      BY <1>3, <2>4, <3>1, Stays DEF ReadInstall, Moves
  <2> QED
    BY <1>3, <2>2, <2>3, <2>4 DEF ReadInstall
<1>4. ASSUME Create(h)
      PROVE  /\ Moves(h) /\ InviteMoves /\ InstallMoves /\ AnswerMoves
             /\ UNCHANGED others
  <2>1. handler[h].pc # "idle"
    BY <1>4 DEF Create, At
  <2>2. CASE Target(h).status = "absent"
    <3>1. RecordMoves(Target(h), NewRecord(h, "pending"))
      BY <2>1, <2>2, HandlerFacts
      DEF RecordMoves, NewRecord, Records, RecordInv, Target, Req
    <3>2. InstallMoves
      BY <1>ty, <1>4, <2>1, <2>2, <3>1, WriteMoves DEF Create
    <3>3. HandlerOK' /\ handler'[h].pc = "confirm"
          /\ \A k \in Handlers : k # h => handler'[k] = handler[k]
      BY <1>ty, <1>4, <2>1, <2>2, GotoMoves, Blanks DEF Create, Steps
    <3> QED
      BY <1>4, <3>2, <3>3, Stays DEF Create, Moves
  <2>3. CASE Target(h).status # "absent"
    BY <1>4, <2>1, <2>3, RestartMoves, Stays DEF Create
  <2> QED
    BY <2>2, <2>3
<1>5. ASSUME Confirm(h)
      PROVE  /\ Moves(h) /\ InviteMoves /\ InstallMoves /\ AnswerMoves
             /\ UNCHANGED others
  <2>1. handler[h].pc # "idle" /\ invite \in Invites
    BY <1>5 DEF Confirm, At, TypeOK
  <2>2. CASE invite.spent
    <3>1. HandlerOK' /\ handler'[h].pc = "reread"
          /\ \A k \in Handlers : k # h => handler'[k] = handler[k]
      BY <1>ty, <1>5, <2>1, <2>2, GotoMoves, Blanks DEF Confirm, Steps
    <3>2. invite' = invite
      BY <1>5 DEF Confirm
    <3>3. Moves(h)
      BY <2>2, <3>1, <3>2 DEF Moves
    <3> QED
      BY <1>5, <3>3, Stays DEF Confirm
  <2>3. CASE ~invite.spent
    <3>1. HandlerOK' /\ handler'[h].pc = "spend" /\ handler'[h].inv = invite
          /\ \A k \in Handlers : k # h => handler'[k] = handler[k]
      BY <1>ty, <1>5, <2>1, <2>3, GotoMoves, Blanks DEF Confirm, Steps
    <3> QED
      BY <1>5, <3>1, Stays DEF Confirm, Moves
  <2> QED
    BY <2>2, <2>3
<1>6. ASSUME Spend(h)
      PROVE  /\ Moves(h) /\ InviteMoves /\ InstallMoves /\ AnswerMoves
             /\ UNCHANGED others
  <2> DEFINE inv == handler[h].inv
  <2>1. handler[h].pc # "idle" /\ inv \in Invites
    BY <1>6, HandlerFacts DEF Spend, At
  <2>2. CASE InviteUnmoved(inv)
    <3>1. inv = invite
      BY <1>6, <2>2 DEF Spend, At, InviteCopyInv, Copy, InviteUnmoved
    <3>2. invite' = [reserved |-> invite.reserved, spent |-> TRUE,
                     revoked |-> invite.revoked, version |-> invite.version + 1]
      BY <1>6, <2>2, <3>1 DEF Spend, WriteInvite
    <3>3. InviteMoves /\ invite'.spent = TRUE
      BY <2>1, <3>1, <3>2 DEF InviteMoves, Invites
    <3>4. HandlerOK' /\ handler'[h].pc = "reread"
          /\ \A k \in Handlers : k # h => handler'[k] = handler[k]
      BY <1>ty, <1>6, <2>1, <2>2, GotoMoves, Blanks DEF Spend, Steps
    <3>5. Moves(h)
      BY <3>3, <3>4 DEF Moves
    <3> QED
      BY <1>6, <3>3, <3>5, Stays DEF Spend
  <2>3. CASE ~InviteUnmoved(inv)
    BY <1>6, <2>1, <2>3, RestartMoves, Stays DEF Spend
  <2> QED
    BY <2>2, <2>3
<1>7. ASSUME Reread(h)
      PROVE  /\ Moves(h) /\ InviteMoves /\ InstallMoves /\ AnswerMoves
             /\ UNCHANGED others
  <2>1. handler[h].pc # "idle" /\ handler[h].req \in Requests
        /\ Target(h) \in Records /\ invite.spent
    BY <1>7, HandlerFacts DEF Reread, At, SpentInv
  <2>2. CASE Refuse(h)
    BY <1>7, <2>2, RefuseMoves, Stays DEF Reread, Refuse
  <2>3. CASE Succeed(h) /\ SameEnrollment(Target(h), Req(h))
             /\ Target(h).status = "active"
    BY <1>7, <2>1, <2>3, SucceedMoves, Stays
    DEF Reread, SameEnrollment, Target, Req
  <2>4. CASE /\ Goto(h, "activate", NewInvite, Target(h)) /\ UNCHANGED answered
             /\ SameEnrollment(Target(h), Req(h))
             /\ Target(h).status = "pending"
    <3>1. /\ HandlerOK' /\ handler'[h].pc = "activate"
          /\ handler'[h].req = handler[h].req /\ handler'[h].rec = Target(h)
          /\ \A k \in Handlers : k # h => handler'[k] = handler[k]
      BY <1>ty, <2>1, <2>4, GotoMoves, Blanks DEF Steps
    <3> QED
      BY <1>7, <2>1, <2>4, <3>1, Stays DEF Reread, Moves, SameEnrollment, Req
  <2> QED
    BY <1>7, <2>2, <2>3, <2>4 DEF Reread
<1>8. ASSUME Activate(h)
      PROVE  /\ Moves(h) /\ InviteMoves /\ InstallMoves /\ AnswerMoves
             /\ UNCHANGED others
  <2> DEFINE rec == handler[h].rec
             new == [status |-> "active", req |-> rec.req,
                     version |-> rec.version + 1]
  <2>1. /\ handler[h].pc # "idle" /\ handler[h].req \in Requests
        /\ rec \in Records /\ Target(h) \in Records
        /\ rec.status = "pending" /\ rec.req = handler[h].req /\ invite.spent
    BY <1>8, HandlerFacts DEF Activate, At, SpentInv, InstallCopyInv, Req
  <2>2. CASE InstallUnmoved(h)
    <3>1. rec = Target(h)
      BY <1>8, <2>2 DEF Activate, InstallCopyInv, Copy, InstallUnmoved
    <3>2. RecordMoves(Target(h), new) /\ new.status = "active"
          /\ new.req = handler[h].req
      BY <2>1, <3>1 DEF RecordMoves, Records
    <3>3. WriteInstall(h, new) /\ Succeed(h)
      BY <1>8, <2>2 DEF Activate
    <3> HIDE DEF new
    <3>4. InstallMoves /\ install'[InstallOf[handler[h].req]] = new
      BY <1>ty, <2>1, <3>2, <3>3, WriteMoves
    <3> QED
      BY <1>8, <1>ty, <2>1, <3>2, <3>3, <3>4, SucceedMoves, Stays DEF Activate
  <2>3. CASE ~InstallUnmoved(h)
    BY <1>8, <2>1, <2>3, RestartMoves, Stays DEF Activate
  <2> QED
    BY <2>2, <2>3
<1>9. ASSUME ReadGrant(h)
      PROVE  /\ Moves(h) /\ InviteMoves /\ InstallMoves /\ AnswerMoves
             /\ UNCHANGED others
  <2>1. handler[h].pc # "idle" /\ handler[h].req \in ByGrant
    BY <1>9 DEF ReadGrant, At, SpentInv, Req
  <2>2. CASE Refuse(h)
    BY <1>9, <2>2, RefuseMoves, Stays DEF ReadGrant, Refuse
  <2>3. CASE Goto(h, "createActive", NewInvite, NoRecord) /\ UNCHANGED answered
    <3>1. HandlerOK' /\ handler'[h].pc = "createActive"
          /\ handler'[h].req = handler[h].req
          /\ \A k \in Handlers : k # h => handler'[k] = handler[k]
      BY <1>ty, <2>1, <2>3, GotoMoves, Blanks DEF Steps
    <3> QED
      BY <1>9, <2>1, <2>3, <3>1, Stays DEF ReadGrant, Moves
  <2> QED
    BY <1>9, <2>2, <2>3 DEF ReadGrant
<1>10. ASSUME CreateActive(h)
       PROVE  /\ Moves(h) /\ InviteMoves /\ InstallMoves /\ AnswerMoves
              /\ UNCHANGED others
  <2>1. handler[h].pc # "idle" /\ handler[h].req \in ByGrant
    BY <1>10 DEF CreateActive, At, SpentInv, Req
  <2>2. CASE Target(h).status = "absent"
    <3>1. /\ RecordMoves(Target(h), NewRecord(h, "active"))
          /\ NewRecord(h, "active").status = "active"
          /\ NewRecord(h, "active").req = handler[h].req
      BY <2>1, <2>2, HandlerFacts
      DEF RecordMoves, NewRecord, Records, RecordInv, Target, Req
    <3>2. InstallMoves
          /\ install'[InstallOf[handler[h].req]] = NewRecord(h, "active")
      BY <1>ty, <1>10, <2>1, <2>2, <3>1, WriteMoves DEF CreateActive
    <3> QED
      BY <1>10, <1>ty, <2>1, <2>2, <3>1, <3>2, HandlerFacts, SucceedMoves, Stays
      DEF CreateActive
  <2>3. CASE Target(h).status # "absent"
    <3>1. HandlerOK' /\ handler'[h].pc = "compare"
          /\ \A k \in Handlers : k # h => handler'[k] = handler[k]
      BY <1>ty, <1>10, <2>1, <2>3, GotoMoves, Blanks DEF CreateActive, Steps
    <3> QED
      BY <1>10, <2>3, <3>1, Stays DEF CreateActive, Moves
  <2> QED
    BY <2>2, <2>3
<1>11. ASSUME Compare(h)
       PROVE  /\ Moves(h) /\ InviteMoves /\ InstallMoves /\ AnswerMoves
              /\ UNCHANGED others
  <2>1. handler[h].pc # "idle"
    BY <1>11 DEF Compare, At
  <2>2. CASE Refuse(h)
    BY <1>11, <2>2, RefuseMoves, Stays DEF Compare, Refuse
  <2>3. CASE Succeed(h) /\ Target(h).status = "active"
             /\ SameIdentity(Target(h), Req(h))
    BY <1>11, <2>1, <2>3, SucceedMoves, Stays
    DEF Compare, SameIdentity, Target, Req
  <2> QED
    BY <1>11, <2>2, <2>3 DEF Compare
<1> QED
  BY <1>1, <1>2, <1>3, <1>4, <1>5, <1>6, <1>7, <1>8, <1>9, <1>10, <1>11
  DEF HandlerStep

(* So do time, deaths and administrators. *)
LEMMA NextMoves ==
    ASSUME IInv, Next
    PROVE  StepMoves
<1> USE DEF IInv
<1>ty. TypeOK /\ HandlerOK
  BY DEF TypeOK
<1>1. ASSUME NEW h \in Handlers, NEW r \in Requests, Serve(h, r)
      PROVE  StepMoves
  <2>1. Moves(h)
    BY <1>1, <1>ty, ServeMoves DEF Moves
  <2> QED
    BY <1>1, <2>1, Stays DEF StepMoves, Serve
<1>2. ASSUME NEW h \in Handlers, Die(h)
      PROVE  StepMoves
  <2>1. deaths' \in 0..MaxDeaths
    BY <1>2 DEF Die, TypeOK
  <2> QED
    BY <1>2, <2>1, RefuseMoves, Stays DEF StepMoves, Die, TypeOK
<1>3. CASE Expire
  BY <1>3, Stays DEF StepMoves, Expire, TypeOK
<1>4. CASE CloseGrant
  BY <1>4, Stays DEF StepMoves, CloseGrant, TypeOK
<1>5. CASE RevokeInvite
  <2>1. InviteMoves
    BY <1>5 DEF RevokeInvite, WriteInvite, InviteMoves, Invites, TypeOK
  <2> QED
    BY <1>5, <2>1, Stays DEF StepMoves, RevokeInvite
<1>6. CASE CheckRelease
  <2> DEFINE new == [active |-> TRUE, inv |-> invite]
  <2>1. new \in Releasing /\ new.inv = invite
    BY DEF TypeOK, Releasing
  <2>2. releases' \in 0..MaxReleases
    BY <1>6 DEF CheckRelease, TypeOK
  <2>3. release' = new /\ ~invite.spent /\ invite' = invite
    BY <1>6 DEF CheckRelease
  <2> HIDE DEF new
  <2>4. ReleaseMoves
    BY <2>1, <2>3 DEF ReleaseMoves
  <2> QED
    BY <1>6, <2>2, <2>4, Stays DEF StepMoves, CheckRelease, TypeOK
<1>7. CASE WriteRelease
  <2>1. InviteMoves
    <3>1. CASE InviteUnmoved(release.inv)
      <4>1. release.inv = invite /\ ~invite.spent
        BY <1>7, <3>1 DEF WriteRelease, InviteUnmoved, InviteCopyInv, Copy
      <4> QED
        BY <1>7, <3>1, <4>1
        DEF WriteRelease, WriteInvite, InviteMoves, Invites, TypeOK
    <3> QED
      BY <1>7, <3>1, Stays DEF WriteRelease
  <2>2. ReleaseMoves
    BY <1>7, Blanks DEF WriteRelease, ReleaseMoves, NoRelease
  <2> QED
    BY <1>7, <2>1, <2>2, Stays DEF StepMoves, WriteRelease
<1>8. ASSUME NEW i \in Installs, RevokeInstall(i)
      PROVE  StepMoves
  <2> DEFINE new == [status |-> "revoked", req |-> install[i].req,
                     version |-> install[i].version + 1]
  <2>1. install[i] \in Records /\ install[i].req \in Requests
    BY <1>8 DEF RevokeInstall, RecordInv, TypeOK
  <2>2. RecordMoves(install[i], new)
    BY <1>8, <2>1 DEF RecordMoves, Records, RevokeInstall
  <2>3. install' = [install EXCEPT ![i] = new]
    BY <1>8 DEF RevokeInstall
  <2> HIDE DEF new
  <2>4. InstallMoves
    BY <2>2, <2>3 DEF InstallMoves, RecordMoves, TypeOK
  <2> QED
    BY <1>8, <2>4, Stays DEF StepMoves, RevokeInstall
<1> QED
  BY <1>1, <1>2, <1>3, <1>4, <1>5, <1>6, <1>7, <1>8, HandlerStepMoves DEF Next

-----------------------------------------------------------------------------
(* The invariant, part by part, from the moves. *)

(* Types are kept. *)
LEMMA TypeStep ==
    ASSUME IInv, StepMoves
    PROVE  TypeOK'
<1>1. HandlerOK'
  BY DEF StepMoves, Moves, IInv, TypeOK, HandlerOK
<1>2. invite' \in Invites /\ install' \in [Installs -> Records]
      /\ release' \in Releasing /\ answered' \subseteq Requests
  BY DEF StepMoves, InviteMoves, InstallMoves, ReleaseMoves, AnswerMoves, IInv,
         TypeOK
<1> QED
  BY <1>1, <1>2 DEF StepMoves, TypeOK

(* A copy of the invite stays old or exact: every write of the record moves*)
(* its version on.                                                         *)
LEMMA InviteCopyStep ==
    ASSUME IInv, StepMoves
    PROVE  InviteCopyInv'
<1>1. invite \in Invites /\ invite' \in Invites
  BY TypeStep DEF IInv, TypeOK
<1>2. ASSUME NEW read \in Invites, Copy(read, invite)
      PROVE  Copy(read, invite')
  BY <1>1, <1>2 DEF StepMoves, InviteMoves, Copy, Invites
<1>3. Copy(invite, invite)
  BY <1>1 DEF Copy, Invites
<1>4. ASSUME NEW k \in Handlers, handler'[k].pc \in {"reserve", "spend"}
      PROVE  Copy(handler'[k].inv, invite')
  <2>1. CASE handler'[k] = handler[k]
    <3>1. handler[k].inv \in Invites /\ Copy(handler[k].inv, invite)
      BY <1>4, <2>1 DEF IInv, TypeOK, HandlerOK, States, InviteCopyInv
    <3> QED
      BY <2>1, <3>1, <1>2
  <2>2. CASE handler'[k].inv = invite /\ invite' = invite
    BY <2>2, <1>3
  <2> QED
    BY <1>4, <2>1, <2>2 DEF StepMoves, Moves
<1>5. ASSUME release'.active
      PROVE  Copy(release'.inv, invite') /\ ~release'.inv.spent
  <2>1. CASE release' = release
    <3>1. release.inv \in Invites /\ Copy(release.inv, invite)
          /\ ~release.inv.spent
      BY <1>5, <2>1 DEF IInv, TypeOK, Releasing, InviteCopyInv
    <3> QED
      BY <2>1, <3>1, <1>2
  <2>2. CASE release'.inv = invite /\ invite' = invite /\ ~invite.spent
    BY <2>2, <1>3
  <2> QED
    BY <1>5, <2>1, <2>2 DEF StepMoves, ReleaseMoves
<1> QED
  BY <1>4, <1>5 DEF InviteCopyInv

(* The same of the install a handler is about to activate.                 *)
LEMMA InstallCopyStep ==
    ASSUME IInv, StepMoves
    PROVE  InstallCopyInv'
<1>1. ASSUME NEW i \in Installs, NEW read \in Records, Copy(read, install[i])
      PROVE  Copy(read, install'[i])
  BY <1>1 DEF StepMoves, InstallMoves, RecordMoves, Copy, Records, IInv, TypeOK
<1>2. ASSUME NEW k \in Handlers, handler'[k].pc = "activate"
      PROVE  /\ Copy(handler'[k].rec, install'[InstallOf[handler'[k].req]])
             /\ handler'[k].rec.status = "pending"
             /\ handler'[k].rec.req = handler'[k].req
  <2>1. CASE handler'[k] = handler[k]
    <3>1. /\ InstallOf[handler[k].req] \in Installs
          /\ handler[k].rec \in Records
          /\ Copy(handler[k].rec, install[InstallOf[handler[k].req]])
          /\ handler[k].rec.status = "pending"
          /\ handler[k].rec.req = handler[k].req
      BY <1>2, <2>1, HandlerFacts DEF IInv, InstallCopyInv, At, Target, Req
    <3> QED
      BY <2>1, <3>1, <1>1
  <2>2. CASE /\ handler'[k].req = handler[k].req /\ handler'[k].rec = Target(k)
             /\ Target(k).status = "pending" /\ Target(k).req = handler[k].req
             /\ handler[k].req \in Requests
             /\ install' = install
    <3>1. Target(k) \in Records
      BY <2>2 DEF IInv, TypeOK, Target, Req
    <3>2. Copy(Target(k), Target(k))
      BY <3>1 DEF Copy, Records
    <3> QED
      BY <2>2, <3>2 DEF Target, Req
  <2> QED
    BY <1>2, <2>1, <2>2 DEF StepMoves, Moves
<1> QED
  BY <1>2 DEF InstallCopyInv, At, Target, Req

(* An install record always holds some request's material.                 *)
LEMMA RecordStep ==
    ASSUME IInv, StepMoves
    PROVE  RecordInv'
  BY DEF IInv, StepMoves, InstallMoves, RecordMoves, RecordInv

(* A spent invite stays spent, and only past that point is an install      *)
(* activated by it.                                                        *)
LEMMA SpentStep ==
    ASSUME IInv, StepMoves
    PROVE  SpentInv'
<1>1. invite.spent => invite'.spent
  BY DEF StepMoves, InviteMoves
<1>2. ASSUME NEW k \in Handlers
      PROVE  /\ handler'[k].pc \in {"reread", "activate"} => invite'.spent
             /\ handler'[k].pc \in {"grant", "createActive"} =>
                   handler'[k].req \in ByGrant
  <2>1. CASE handler'[k] = handler[k]
    BY <1>1, <2>1 DEF IInv, SpentInv, At, Req
  <2>2. CASE Moves(k)
    BY <2>2 DEF Moves
  <2> QED
    BY <2>1, <2>2 DEF StepMoves, Moves
<1>3. ASSUME NEW i \in Installs, install'[i].status = "active",
             install'[i].req \notin ByGrant
      PROVE  invite'.spent
  <2>1. CASE install'[i] = install[i]
    BY <1>1, <1>3, <2>1 DEF IInv, SpentInv, ActiveIsSpent, Enrolled
  <2>2. CASE RecordMoves(install[i], install'[i])
    BY <1>1, <1>3, <2>2 DEF RecordMoves
  <2> QED
    BY <2>1, <2>2 DEF StepMoves, InstallMoves
<1> QED
  BY <1>2, <1>3 DEF SpentInv, ActiveIsSpent, Enrolled, At, Req

(* An answered request keeps its install.                                  *)
LEMMA AnswerStep ==
    ASSUME IInv, StepMoves
    PROVE  AnswerIsHonest'
<1>1. ASSUME NEW r \in Requests, r \in answered
      PROVE  /\ install'[InstallOf[r]].status \in {"active", "revoked"}
             /\ install'[InstallOf[r]].req \in Requests
             /\ DeviceOf[install'[InstallOf[r]].req] = DeviceOf[r]
  <2>1. /\ install[InstallOf[r]].status \in {"active", "revoked"}
        /\ install[InstallOf[r]].req \in Requests
        /\ DeviceOf[install[InstallOf[r]].req] = DeviceOf[r]
        /\ InstallOf[r] \in Installs
    BY <1>1 DEF IInv, AnswerIsHonest, SameIdentity
  <2> QED
    BY <2>1 DEF StepMoves, InstallMoves, RecordMoves
<1>2. answered \subseteq Requests
  BY DEF IInv, TypeOK
<1> QED
  BY <1>1, <1>2 DEF AnswerIsHonest, SameIdentity, StepMoves, AnswerMoves

(* The invariant holds at the start ... *)
LEMMA InvInit == Init => IInv
<1> SUFFICES ASSUME Init PROVE IInv
  OBVIOUS
<1>1. \A h \in Handlers : handler[h] = Idle /\ handler[h].pc = "idle"
  BY DEF Init, Idle
<1>2. \A i \in Installs : install[i] = NoRecord /\ install[i].status = "absent"
                          /\ install[i].version = 0
  BY DEF Init, NoRecord
<1>3. TypeOK
  <2>1. expired \in BOOLEAN /\ grantOpen \in BOOLEAN
    BY DEF Init
  <2>2. HandlerOK
    BY <1>1, Blanks DEF Init, HandlerOK
  <2>3. releases \in 0..MaxReleases /\ deaths \in 0..MaxDeaths
    BY DEF Init
  <2>4. /\ invite \in Invites /\ install \in [Installs -> Records]
        /\ release \in Releasing /\ answered \subseteq Requests
    BY Blanks DEF Init
  <2> QED
    BY <2>1, <2>2, <2>3, <2>4 DEF TypeOK
<1>4. ~release.active
  BY DEF Init, NoRelease
<1> QED
  BY <1>1, <1>2, <1>3, <1>4
  DEF Init, IInv, InviteCopyInv, InstallCopyInv, SpentInv, ActiveIsSpent,
      Enrolled, RecordInv, AnswerIsHonest, At

(* ... is kept by every step ... *)
LEMMA InvStep == IInv /\ [Next]_vars => IInv'
<1>1. ASSUME IInv, Next
      PROVE  IInv'
  BY <1>1, NextMoves, TypeStep, InviteCopyStep, InstallCopyStep, RecordStep,
     SpentStep, AnswerStep DEF IInv
<1>2. ASSUME IInv, UNCHANGED vars
      PROVE  IInv'
  BY <1>2 DEF vars, IInv, TypeOK, HandlerOK, InviteCopyInv, InstallCopyInv,
              SpentInv, ActiveIsSpent, Enrolled, RecordInv, AnswerIsHonest, At,
              Req, Target, SameIdentity
<1> QED
  BY <1>1, <1>2

(* ... and so holds in every reachable state: a handler's copy of a record *)
(* whose version is still current is that record, whatever came between.   *)
THEOREM Inductive == Spec => []IInv
  BY InvInit, InvStep, PTL DEF Spec

-----------------------------------------------------------------------------
(* Enrollment records always have their types. *)
THEOREM EnrollmentTypeCorrect == Spec => []TypeOK
<1>1. IInv => TypeOK
  BY DEF IInv
<1> QED
  BY Inductive, <1>1, PTL

(* No install is active by an invite that could still be reserved: the     *)
(* invite is spent first, whatever handlers die, race or are retried, and  *)
(* even if an administrator releases it in between.                        *)
THEOREM SpentBeforeActive == Spec => []ActiveIsSpent
<1>1. IInv => ActiveIsSpent
  BY DEF IInv, SpentInv
<1> QED
  BY Inductive, <1>1, PTL

(* A request answered with success is enrolled under its own device key.   *)
THEOREM SuccessIsHonest == Spec => []AnswerIsHonest
<1>1. IInv => AnswerIsHonest
  BY DEF IInv
<1> QED
  BY Inductive, <1>1, PTL

(* A revocation is never undone by an enrollment in progress.              *)
THEOREM RevokedForGood == Spec => RevocationIsFinal
<1>1. IInv /\ [Next]_vars =>
         [\A i \in Installs : install[i].status = "revoked" =>
             install'[i].status = "revoked"]_vars
  <2>1. ASSUME IInv, Next, NEW i \in Installs, install[i].status = "revoked"
        PROVE  install'[i].status = "revoked"
    BY <2>1, NextMoves DEF StepMoves, InstallMoves, RecordMoves
  <2> QED
    BY <2>1
<1> QED
  BY Inductive, <1>1, PTL DEF Spec, RevocationIsFinal
-----------------------------------------------------------------------------
(* Single use.  Without ReleaseInvite a reservation is for good, and every *)
(* install the invite creates is the one it is reserved for.               *)
Holding == {"install", "create", "confirm", "spend", "reread", "activate"}

OwnerInv ==
    /\ ~release.active
    /\ \A h \in Handlers : At(h, "reserve") => handler[h].inv.reserved = NoRequest
    /\ \A h \in Handlers : handler[h].pc \in Holding => invite.reserved = Req(h)
    /\ \A i \in Installs : install[i].status # "absent" =>
          /\ InstallOf[install[i].req] = i
          /\ install[i].req \in ByGrant \/ invite.reserved = install[i].req

(* What a step of a handler may do to the reservation and to an install.   *)
Owned(i) ==
    /\ InstallOf[install'[i].req] = i
    /\ install'[i].req \in ByGrant \/ invite'.reserved = install'[i].req

OwnerMoves(h) ==
    /\ release' = release
    /\ \A k \in Handlers : k # h => handler'[k] = handler[k]
    /\ handler'[h].pc = "reserve" => handler'[h].inv.reserved = NoRequest
    /\ handler'[h].pc \in Holding => invite'.reserved = handler'[h].req
    /\ invite'.reserved = invite.reserved \/ invite.reserved = NoRequest
    /\ \A i \in Installs : install'[i] = install[i] \/ Owned(i)

(* A handler that only moves on keeps its hold on the invite.              *)
LEMMA HoldKept ==
    ASSUME IInv, OwnerInv, NEW h \in Handlers, NEW pc \in Holding, NEW inv \in Invites,
           NEW rec \in Records, handler[h].pc \in Holding, Goto(h, pc, inv, rec),
           UNCHANGED <<invite, install, release>>
    PROVE  OwnerMoves(h)
<1>1. pc \in Steps \ {"idle"} /\ handler[h].pc # "idle" /\ pc # "reserve"
  BY DEF Holding, Steps
<1>2. /\ handler'[h].pc = pc /\ handler'[h].req = handler[h].req
      /\ \A k \in Handlers : k # h => handler'[k] = handler[k]
  BY <1>1, GotoMoves DEF IInv, TypeOK
<1> QED
  BY <1>1, <1>2 DEF OwnerMoves, OwnerInv, Req

(* A handler that stops, or starts over, holds nothing.                    *)
LEMMA HoldDropped ==
    ASSUME IInv, NEW h \in Handlers, UNCHANGED <<invite, install, release>>,
           \/ Refuse(h) \/ Succeed(h) \/ handler' = [handler EXCEPT ![h] = Idle]
           \/ handler[h].pc # "idle" /\ Restart(h)
    PROVE  OwnerMoves(h)
<1>1. /\ handler'[h].pc \in {"idle", "start"}
      /\ \A k \in Handlers : k # h => handler'[k] = handler[k]
  BY IdleMoves, GotoMoves, Blanks DEF Refuse, Succeed, Restart, IInv, TypeOK, Steps
<1> QED
  BY <1>1 DEF OwnerMoves, Holding

(* Each step of a handler keeps the reservation, or makes the first one.   *)
LEMMA HandlerOwnerMoves ==
    ASSUME IInv, OwnerInv, NEW h \in Handlers, HandlerStep(h)
    PROVE  OwnerMoves(h)
<1>0. TypeOK /\ HandlerOK /\ handler[h].pc # "idle" /\ release' = release
  BY DEF IInv, TypeOK, HandlerStep, ReadInvite, Reserve, ReadInstall, Create, Confirm, Spend,
         Reread, Activate, ReadGrant, CreateActive, Compare, At
<1>1. CASE ReadInvite(h)
  <2>1. CASE Refuse(h)
    BY <1>0, <1>1, <2>1, HoldDropped DEF ReadInvite
  <2>2. CASE invite.reserved = NoRequest /\ Goto(h, "reserve", invite, NoRecord)
    <3>1. /\ handler'[h].pc = "reserve" /\ handler'[h].inv = invite
          /\ \A k \in Handlers : k # h => handler'[k] = handler[k]
      BY <1>0, <2>2, GotoMoves, Blanks DEF TypeOK, Steps
    <3> QED
      BY <1>1, <2>2, <3>1 DEF OwnerMoves, Holding, ReadInvite
  <2>3. CASE invite.reserved = Req(h) /\ Goto(h, "install", NewInvite, NoRecord)
    <3>1. /\ handler'[h].pc = "install" /\ handler'[h].req = Req(h)
          /\ \A k \in Handlers : k # h => handler'[k] = handler[k]
      BY <1>0, <2>3, GotoMoves, Blanks DEF Steps, Req
    <3> QED
      BY <1>1, <2>3, <3>1 DEF OwnerMoves, Holding, ReadInvite
  <2> QED
    BY <1>1, <2>1, <2>2, <2>3 DEF ReadInvite, Refused
<1>2. CASE Reserve(h)
  <2> DEFINE inv == handler[h].inv
  <2>1. CASE InviteUnmoved(inv)
    <3>1. inv = invite /\ invite.reserved = NoRequest
      BY <1>2, <2>1 DEF Reserve, At, IInv, InviteCopyInv, Copy, InviteUnmoved, OwnerInv
    <3>2. invite'.reserved = Req(h)
      BY <1>2, <2>1 DEF Reserve, WriteInvite
    <3>3. /\ handler'[h].pc = "install" /\ handler'[h].req = Req(h)
          /\ \A k \in Handlers : k # h => handler'[k] = handler[k]
      BY <1>0, <1>2, <2>1, GotoMoves, Blanks DEF Reserve, Steps, Req
    <3> QED
      BY <1>2, <3>1, <3>2, <3>3 DEF OwnerMoves, Holding, Reserve
  <2> QED
    BY <1>0, <1>2, <2>1, HoldDropped DEF Reserve
<1>3. CASE ReadInstall(h)
  <2>1. handler[h].pc \in Holding /\ "create" \in Holding /\ "confirm" \in Holding
    BY <1>3 DEF ReadInstall, At, Holding
  <2> QED
    BY <1>0, <1>3, <2>1, HoldKept, HoldDropped, Blanks DEF ReadInstall
<1>4. CASE Create(h)
  <2>1. CASE Target(h).status = "absent"
    <3>1. /\ handler'[h].pc = "confirm" /\ handler'[h].req = Req(h)
          /\ \A k \in Handlers : k # h => handler'[k] = handler[k]
      BY <1>0, <1>4, <2>1, GotoMoves, Blanks DEF Create, Steps, Req
    <3>2. invite.reserved = Req(h) /\ invite' = invite
      BY <1>4 DEF Create, At, OwnerInv, Holding
    <3>3. /\ install' = [install EXCEPT ![InstallOf[Req(h)]] = NewRecord(h, "pending")]
          /\ NewRecord(h, "pending").req = Req(h)
      BY <1>4, <2>1 DEF Create, WriteInstall, NewRecord
    <3>4. \A i \in Installs : install'[i] = install[i] \/ Owned(i)
      BY <1>0, <3>2, <3>3 DEF TypeOK, Owned
    <3> QED
      BY <1>4, <3>1, <3>2, <3>4 DEF OwnerMoves, Holding, Create
  <2> QED
    BY <1>0, <1>4, <2>1, HoldDropped DEF Create
<1>5. CASE Confirm(h)
  <2>1. handler[h].pc \in Holding /\ "reread" \in Holding /\ "spend" \in Holding
    BY <1>5 DEF Confirm, At, Holding
  <2>2. invite \in Invites
    BY <1>0 DEF TypeOK
  <2> QED
    BY <1>0, <1>5, <2>1, <2>2, HoldKept, Blanks DEF Confirm
<1>6. CASE Spend(h)
  <2> DEFINE inv == handler[h].inv
  <2>1. CASE InviteUnmoved(inv)
    <3>1. inv = invite /\ invite.reserved = Req(h)
      BY <1>6, <2>1 DEF Spend, At, IInv, InviteCopyInv, Copy, InviteUnmoved, OwnerInv, Holding
    <3>2. invite'.reserved = inv.reserved
      BY <1>6, <2>1 DEF Spend, WriteInvite
    <3>3. /\ handler'[h].pc = "reread" /\ handler'[h].req = Req(h)
          /\ \A k \in Handlers : k # h => handler'[k] = handler[k]
      BY <1>0, <1>6, <2>1, GotoMoves, Blanks DEF Spend, Steps, Req
    <3> QED
      BY <1>6, <3>1, <3>2, <3>3 DEF OwnerMoves, Holding, Spend
  <2> QED
    BY <1>0, <1>6, <2>1, HoldDropped DEF Spend
<1>7. CASE Reread(h)
  <2>1. handler[h].pc \in Holding /\ "activate" \in Holding /\ Target(h) \in Records
    BY <1>0, <1>7, HandlerFacts DEF Reread, At, Holding
  <2> QED
    BY <1>0, <1>7, <2>1, HoldKept, HoldDropped, Blanks DEF Reread
<1>8. CASE Activate(h)
  <2> DEFINE new == [status |-> "active", req |-> handler[h].rec.req,
                     version |-> handler[h].rec.version + 1]
  <2>1. CASE InstallUnmoved(h)
    <3>1. new.req = Req(h) /\ invite.reserved = Req(h) /\ invite' = invite
      BY <1>8, <2>1 DEF Activate, At, IInv, InstallCopyInv, OwnerInv, Holding
    <3>2. install' = [install EXCEPT ![InstallOf[Req(h)]] = new] /\ Succeed(h)
      BY <1>8, <2>1 DEF Activate, WriteInstall
    <3> HIDE DEF new
    <3>3. \A i \in Installs : install'[i] = install[i] \/ Owned(i)
      BY <1>0, <3>1, <3>2 DEF TypeOK, Owned
    <3>4. /\ handler'[h].pc = "idle"
          /\ \A k \in Handlers : k # h => handler'[k] = handler[k]
      BY <1>0, <3>2, IdleMoves DEF Succeed
    <3> QED
      BY <1>0, <3>1, <3>3, <3>4 DEF OwnerMoves, Holding
  <2> QED
    BY <1>0, <1>8, <2>1, HoldDropped DEF Activate
<1>9. CASE ReadGrant(h)
  <2>1. CASE Goto(h, "createActive", NewInvite, NoRecord)
    <3>1. /\ handler'[h].pc = "createActive"
          /\ \A k \in Handlers : k # h => handler'[k] = handler[k]
      BY <1>0, <2>1, GotoMoves, Blanks DEF Steps
    <3> QED
      BY <1>9, <3>1 DEF OwnerMoves, Holding, ReadGrant
  <2> QED
    BY <1>0, <1>9, <2>1, HoldDropped DEF ReadGrant
<1>10. CASE CreateActive(h)
  <2>1. CASE Target(h).status = "absent"
    <3>1. NewRecord(h, "active").req = Req(h) /\ Req(h) \in ByGrant /\ invite' = invite
      BY <1>10 DEF CreateActive, NewRecord, IInv, SpentInv
    <3>2. install' = [install EXCEPT ![InstallOf[Req(h)]] = NewRecord(h, "active")] /\ Succeed(h)
      BY <1>10, <2>1 DEF CreateActive, WriteInstall
    <3>3. \A i \in Installs : install'[i] = install[i] \/ Owned(i)
      BY <1>0, <3>1, <3>2 DEF TypeOK, Owned
    <3>4. /\ handler'[h].pc = "idle"
          /\ \A k \in Handlers : k # h => handler'[k] = handler[k]
      BY <1>0, <3>2, IdleMoves DEF Succeed
    <3> QED
      BY <1>0, <3>1, <3>3, <3>4 DEF OwnerMoves, Holding
  <2>2. CASE Target(h).status # "absent"
    <3>1. /\ handler'[h].pc = "compare"
          /\ \A k \in Handlers : k # h => handler'[k] = handler[k]
      BY <1>0, <1>10, <2>2, GotoMoves, Blanks DEF CreateActive, Steps
    <3> QED
      BY <1>10, <2>2, <3>1 DEF OwnerMoves, Holding, CreateActive
  <2> QED
    BY <2>1, <2>2
<1>11. CASE Compare(h)
  BY <1>0, <1>11, HoldDropped DEF Compare
<1> QED
  BY <1>1, <1>2, <1>3, <1>4, <1>5, <1>6, <1>7, <1>8, <1>9, <1>10, <1>11 DEF HandlerStep

(* Such a step keeps the invariant: whoever makes the first reservation    *)
(* finds no handler that holds the invite and no install made by it.       *)
LEMMA OwnerKept ==
    ASSUME IInv, OwnerInv, NEW h \in Handlers, OwnerMoves(h)
    PROVE  OwnerInv'
<1>0. TypeOK
  BY DEF IInv
<1>1. ASSUME NEW k \in Handlers, handler'[k].pc \in Holding
      PROVE  invite'.reserved = handler'[k].req
  <2>1. CASE k = h
    BY <1>1, <2>1 DEF OwnerMoves
  <2>2. CASE k # h
    <3>1. handler'[k] = handler[k] /\ invite.reserved = handler[k].req
      BY <1>1, <2>2 DEF OwnerMoves, OwnerInv, Req
    <3>2. invite.reserved # NoRequest
      BY <1>0, <1>1, <3>1 DEF TypeOK, HandlerOK, Holding
    <3> QED
      BY <3>1, <3>2 DEF OwnerMoves
  <2> QED
    BY <2>1, <2>2
<1>2. ASSUME NEW i \in Installs, install'[i].status # "absent"
      PROVE  /\ InstallOf[install'[i].req] = i
             /\ install'[i].req \in ByGrant \/ invite'.reserved = install'[i].req
  <2>1. CASE Owned(i)
    BY <2>1 DEF Owned
  <2>2. CASE install'[i] = install[i]
    <3>1. install[i].req \in Requests
      BY <1>2, <2>2 DEF IInv, RecordInv
    <3> QED
      BY <1>2, <2>2, <3>1 DEF OwnerMoves, OwnerInv
  <2> QED
    BY <2>1, <2>2 DEF OwnerMoves
<1>3. ASSUME NEW k \in Handlers, handler'[k].pc = "reserve"
      PROVE  handler'[k].inv.reserved = NoRequest
  BY <1>3 DEF OwnerMoves, OwnerInv, At
<1> QED
  BY <1>1, <1>2, <1>3 DEF OwnerInv, OwnerMoves, At, Req

(* Every step keeps the invariant, where nothing is released.              *)
LEMMA OwnerStep ==
    ASSUME IInv, OwnerInv, MaxReleases = 0, [Next]_vars
    PROVE  OwnerInv'
<1>0. TypeOK /\ HandlerOK
  BY DEF IInv, TypeOK
<1>1. ASSUME handler' = handler, release' = release, invite'.reserved = invite.reserved,
             install' = install
      PROVE  OwnerInv'
  BY <1>1 DEF OwnerInv, At, Req
<1>2. ASSUME NEW h \in Handlers, NEW r \in Requests, Serve(h, r)
      PROVE  OwnerInv'
  <2>1. OwnerMoves(h)
    BY <1>0, <1>2, ServeMoves DEF OwnerMoves, Holding, Serve
  <2> QED
    BY <2>1, OwnerKept
<1>3. ASSUME NEW h \in Handlers, Die(h)
      PROVE  OwnerInv'
  <2>1. OwnerMoves(h)
    BY <1>3, HoldDropped DEF Die
  <2> QED
    BY <2>1, OwnerKept
<1>4. CASE RevokeInvite
  BY <1>1, <1>4 DEF RevokeInvite, WriteInvite
<1>5. ASSUME NEW i \in Installs, RevokeInstall(i)
      PROVE  OwnerInv'
  <2>1. /\ install'[i].req = install[i].req /\ install[i].status # "absent"
        /\ \A j \in Installs : j # i => install'[j] = install[j]
    BY <1>0, <1>5 DEF RevokeInstall, TypeOK
  <2> QED
    BY <1>5, <2>1 DEF OwnerInv, RevokeInstall, At, Req
<1>6. ~CheckRelease /\ ~WriteRelease
  BY <1>0 DEF CheckRelease, WriteRelease, OwnerInv, TypeOK
<1>7. CASE Expire \/ CloseGrant \/ UNCHANGED vars
  BY <1>1, <1>7 DEF Expire, CloseGrant, vars
<1> QED
  BY <1>2, <1>3, <1>4, <1>5, <1>6, <1>7, HandlerOwnerMoves, OwnerKept DEF Next

(* "invite token, 24h, single use" (PROTOCOL.md): for any number of        *)
(* requests, installs, handlers and deaths, an invite that is not released *)
(* has at most one active install.  (With a release it may have two: the   *)
(* run invite_release_race.)                                               *)
THEOREM InviteIsSingleUse ==
    ASSUME MaxReleases = 0
    PROVE  Spec => []SingleUse
<1>1. Init => OwnerInv
  BY DEF Init, OwnerInv, NoRelease, Idle, NoRecord, At, Holding
<1>2. IInv /\ OwnerInv /\ [Next]_vars => OwnerInv'
  BY OwnerStep
<1>3. IInv /\ OwnerInv => SingleUse
  <2> SUFFICES ASSUME IInv, OwnerInv PROVE SingleUse
    OBVIOUS
  <2> DEFINE owner == InstallOf[invite.reserved]
  <2>1. Enrolled \subseteq {owner}
    BY DEF Enrolled, OwnerInv
  <2>2. Enrolled = {} \/ Enrolled = {owner}
    BY <2>1
  <2>3. Cardinality({}) = 0 /\ Cardinality({owner}) = 1
    BY FS_EmptySet, FS_Singleton
  <2> QED
    BY <2>2, <2>3 DEF SingleUse
<1> QED
  BY <1>1, <1>2, <1>3, Inductive, PTL DEF Spec
=============================================================================
