---------------------- MODULE ClientCredentialsProofs ----------------------
(***************************************************************************)
(* Proofs about ClientCredentials, for any sites, tokens and processes and *)
(* any number of installs, keys and interruptions.                         *)
(***************************************************************************)
EXTENDS ClientCredentials, TLAPS

-----------------------------------------------------------------------------
(* The inductive invariant. *)

(* No login in progress. *)
IdleInv == login.kind = "none" => login.pc = "idle"

(* A first enrollment: the install has an identity and no enrollment, and  *)
(* what is sent is a request of that identity; a managed login sends what  *)
(* is saved.                                                               *)
FirstInv ==
    login.kind \in {"first", "managed"} =>
       /\ login.pc \in {"key", "attempt", "send", "answer", "save", "clear"}
       /\ login.pc = "key" => login.kind = "first"
       /\ login.pc = "attempt" => login.kind = "managed"
       /\ login.tok \in Tokens
       /\ login.pc # "clear" => enrollment = NoEnrollment /\ identity \in Installs
       /\ login.pc = "clear" => enrollment # NoEnrollment
       /\ login.pc \in {"send", "answer", "save"} =>
             /\ login.body \in Bodies
             /\ login.body.install = identity
             /\ login.kind = "managed" => attempt = login.body

Requested == {"send", "answer", "identity", "cache", "commit"}

(* A recovery: the revoked install is archived and stays stopped until the *)
(* commit, and the request is on disk from the first send to the commit.   *)
AgainInv ==
    login.kind = "again" =>
       /\ login.pc \in {"archive", "marker", "pending", "request", "sweep",
                        "clean"} \cup Requested
       /\ login.tok \in Tokens
       /\ login.old \in Installs
       /\ enrollment # NoEnrollment
       /\ login.pc # "clean" => enrollment.install = login.old /\ Stopped
       /\ login.pc # "archive" => archive[login.old] = login.old
       /\ login.pc = "request" => pendingId[login.old] \in Installs
       /\ login.pc \in Requested => /\ login.body \in Bodies
                                    /\ pendingId[login.old] = login.body.install
                                    /\ pending[login.old] = login.body
       /\ login.pc \in {"cache", "commit"} => identity = login.body.install
       /\ login.pc = "commit" => cache = 0 \/ late
       /\ login.pc = "sweep" /\ pending[login.old] # NoBody =>
             pending[login.old].install \in forsaken
       /\ login.pc = "clean" /\ pending[login.old] # NoBody =>
             pending[login.old].install \in committed

(* Only the present install is not archived, and a directory of the        *)
(* archive holds the identity it is named after.                           *)
ArchiveInv ==
    /\ \A i \in Installs : archive[i] \in {0, i}
    /\ \A i \in committed : archive[i] = i \/ enrollment.install = i
    /\ enrollment # NoEnrollment =>
          /\ enrollment.install \in committed
          /\ identity = enrollment.install
                \/ archive[enrollment.install] = enrollment.install

(* A saved managed request is the identity's, and outlives the commit only *)
(* as litter.                                                              *)
AttemptInv ==
    attempt # NoBody =>
       IF enrollment = NoEnrollment THEN attempt.install = identity
                                    ELSE attempt.install \in committed

IInv ==
    /\ TypeOK /\ IdleInv /\ FirstInv /\ AgainInv /\ ArchiveInv /\ AttemptInv
    /\ OneUnit /\ Resumable /\ CacheIsOwn

-----------------------------------------------------------------------------
(* Records and the marker. *)

(* A request is not the empty one, and goes to a site. *)
LEMMA BodyFacts ==
    ASSUME NEW b \in Bodies
    PROVE  /\ b # NoBody /\ b.install # 0
           /\ b.install \in Installs /\ b.key \in Keys /\ b.tok \in Tokens
           /\ b.as \in {"invite", "grant"}
           /\ SiteOfBody(b) \in Sites
BY CredentialsAssumption DEF Bodies, NoBody, Installs, Keys, SiteOfBody

(* No request has the empty one's install. *)
LEMMA NoBodyFacts == NoBody.install = 0 /\ NoBody \notin Bodies /\ 0 \notin Installs
BY CredentialsAssumption DEF Bodies, NoBody, Installs

(* An enrollment names an install exactly when there is one. *)
LEMMA EnrollmentFacts ==
    ASSUME NEW e \in Enrollments
    PROVE  /\ e = NoEnrollment <=> e.install = 0
           /\ e # NoEnrollment => e.install \in Installs
           /\ e.install \in 0..MaxInstalls /\ e.site \in Sites \cup {"none"}
           /\ NewMarker(e, TRUE) \in Markers /\ NewMarker(e, FALSE) \in Markers
BY CredentialsAssumption DEF Enrollments, NoEnrollment, Installs, NewMarker, Markers

(* What a request enrolls is an enrollment. *)
LEMMA BodyEnrolls ==
    ASSUME NEW b \in Bodies, NEW e,
           e = [install |-> b.install, key |-> b.key, site |-> SiteOfBody(b)]
    PROVE  e \in Enrollments /\ e # NoEnrollment /\ e.install = b.install
BY BodyFacts DEF Enrollments, NoEnrollment

(* A stop: a marker that names the enrolled install, or one that cannot be *)
(* read (LoadRevocation).                                                  *)
StopMark(m, e) ==
    /\ e.install # 0
    /\ m # NoMarker
    /\ ~m.valid \/ (m.install = e.install /\ m.site = e.site)

(* What LoadRevocation finds is one of three, and it finds nothing exactly *)
(* when the marker does not stop the install.                              *)
LEMMA LoadFacts ==
    ASSUME NEW e
    PROVE  /\ LoadRevocation(e) = "none" <=> ~StopMark(marker, e)
           /\ LoadRevocation(e) = "invalid" => e.install # 0
BY DEF LoadRevocation, StopMark

(* Stopped, before and after a step. *)
LEMMA StoppedIs ==
    /\ Stopped <=> StopMark(marker, enrollment)
    /\ Stopped' <=> StopMark(marker', enrollment')
<1>1. Stopped <=> StopMark(marker, enrollment)
  BY LoadFacts DEF Stopped
<1>2. (Stopped <=> StopMark(marker, enrollment))'
  BY <1>1, PTL
<1> QED BY <1>1, <1>2 DEF StopMark

(* The marker a recovery or a client writes stops the install it names. *)
LEMMA NewMarkerStops ==
    ASSUME NEW e \in Enrollments, e # NoEnrollment, NEW t \in BOOLEAN
    PROVE  StopMark(NewMarker(e, t), e)
<1>1. e.install # 0
  BY EnrollmentFacts
<1>2. NewMarker(e, t).install = e.install /\ NewMarker(e, t).site = e.site
  BY DEF NewMarker
<1>3. NewMarker(e, t) # NoMarker
  BY <1>1, <1>2 DEF NoMarker
<1> QED BY <1>1, <1>2, <1>3 DEF StopMark

-----------------------------------------------------------------------------
(* Types. *)

(* The first state is well formed. *)
LEMMA InitTypes == Init => TypeOK
<1> SUFFICES ASSUME Init PROVE TypeOK
  OBVIOUS
<1> USE CredentialsAssumption
<1>1. NoEnrollment \in Enrollments /\ NoRecord \in Records /\ Idle \in Logins
  BY DEF NoEnrollment, Enrollments, NoRecord, Records, Idle, Logins
<1>2. NoMarker \in Markers
  BY DEF NoMarker, Markers
<1>3. Off \in Clients
  BY <1>1 DEF Off, Clients
<1>4. [open |-> TRUE, body |-> NoBody] \in TokenStates
  BY DEF TokenStates
<1>5. late \in BOOLEAN
  BY Zenon DEF Init
<1> QED BY <1>1, <1>2, <1>3, <1>4, <1>5 DEF Init, TypeOK, Installs

(* The request a login makes is a request.                                 *)
LEMMA NewBodyFacts ==
    ASSUME TypeOK, KeyMinted \in Keys, NEW i \in Installs, NEW t \in Tokens,
           NEW as \in {"invite", "grant"}
    PROVE  NewBody(i, t, as) \in Bodies /\ NewBody(i, t, as).install = i
BY DEF NewBody, Bodies

(* Minting keeps the counts within their bounds. *)
LEMMA MintFacts ==
    ASSUME TypeOK
    PROVE  /\ InstallMinted \in Installs =>
                 [minted EXCEPT !.install = @ + 1] \in [install : 0..MaxInstalls, key : 0..MaxKeys]
           /\ KeyMinted \in Keys =>
                 [minted EXCEPT !.key = @ + 1] \in [install : 0..MaxInstalls, key : 0..MaxKeys]
           /\ Installs \subseteq 0..MaxInstalls
BY CredentialsAssumption DEF TypeOK, InstallMinted, KeyMinted, Installs, Keys

(* No login is a login's state, and has no request. *)
LEMMA IdleFacts ==
    /\ Idle \in Logins
    /\ Idle.pc = "idle" /\ Idle.kind = "none" /\ Idle.body = NoBody
BY CredentialsAssumption DEF Idle, Logins

(* The moves of a login stay among the logins. *)
LEMMA LoginFacts ==
    ASSUME TypeOK
    PROVE  /\ Fail => login' \in Logins
           /\ \A pc \in {"save", "clear", "marker", "pending", "request",
                         "identity", "cache", "commit", "clean"} :
                 Goto(pc) => login' \in Logins
           /\ \A b \in Bodies : Becomes("send", b) => login' \in Logins
<1> USE DEF TypeOK, Logins
<1>1. Fail => login' \in Logins
  BY CredentialsAssumption DEF Fail, Idle
<1>2. ASSUME NEW pc \in {"save", "clear", "marker", "pending", "request",
                         "identity", "cache", "commit", "clean"}, Goto(pc)
      PROVE  login' \in Logins
  BY <1>2 DEF Goto
<1>3. ASSUME NEW b \in Bodies, Becomes("send", b)
      PROVE  login' \in Logins
  BY <1>3 DEF Becomes
<1> QED BY <1>1, <1>2, <1>3

(* The server's answer is one of three, and its records stay records. *)
LEMMA EnrollFacts ==
    ASSUME TypeOK, NEW b \in Bodies, Enroll(b)
    PROVE  /\ Answer(b) \in {"ok", "refused", "conflict"}
           /\ token' \in [Tokens -> TokenStates]
           /\ server' \in [Sites -> [Installs -> Records]]
<1> USE BodyFacts
<1>1. Answer(b) \in {"ok", "refused", "conflict"}
  BY DEF Answer
<1>2. token' \in [Tokens -> TokenStates]
  <2>1. [token EXCEPT ![b.tok].body = b] \in [Tokens -> TokenStates]
    BY DEF TypeOK, TokenStates
  <2> QED BY <2>1 DEF Enroll, TypeOK
<1>3. server' \in [Sites -> [Installs -> Records]]
  <2>1. [body |-> b, status |-> "active"] \in Records
    BY DEF Records
  <2>2. [server EXCEPT ![SiteOfBody(b)][b.install] = [body |-> b, status |-> "active"]]
           \in [Sites -> [Installs -> Records]]
    BY <2>1 DEF TypeOK
  <2> QED BY <2>2 DEF Enroll, TypeOK
<1> QED BY <1>1, <1>2, <1>3

(* A runtime's moves stay among the clients. *)
LEMMA StayFacts ==
    ASSUME TypeOK, NEW r \in Runtimes, NEW c \in Clients, Stay(r, c)
    PROVE  runtime' \in [Runtimes -> Clients]
BY DEF TypeOK, Stay

(* Every step of a login keeps the types. *)
LEMMA LoginTypes == IInv /\ LoginStep => TypeOK'
<1> SUFFICES ASSUME IInv, LoginStep PROVE TypeOK'
  OBVIOUS
<1> USE LoginFacts, MintFacts
<1>t. TypeOK
  BY DEF IInv
<1>i. InstallMinted \in Installs => InstallMinted \in 0..MaxInstalls
  BY MintFacts, <1>t
<1>1. CASE NewKey
  <2>1. NewBody(identity, login.tok, "invite") \in Bodies
    BY <1>1, <1>t, NewBodyFacts DEF NewKey, At, IInv, IdleInv, FirstInv, AgainInv, TypeOK, Logins, Requested
  <2> QED BY <1>1, <2>1, <1>t DEF NewKey, TypeOK, disk, fleet
<1>2. CASE ManagedAttempt
  <2>0. login.tok \in Tokens /\ identity \in Installs
    BY <1>2, <1>t DEF ManagedAttempt, At, IInv, IdleInv, FirstInv, AgainInv, TypeOK, Logins, Requested
  <2>a. KeyMinted \in Keys => NewBody(identity, login.tok, "grant") \in Bodies
    BY <1>t, <2>0, NewBodyFacts
  <2>b. attempt # NoBody => [attempt EXCEPT !.tok = login.tok] \in Bodies
    BY <1>t, <2>0 DEF TypeOK, Bodies
  <2>1. attempt' \in Bodies \cup {NoBody}
    BY <1>2, <1>t, <2>a, <2>b DEF ManagedAttempt, TypeOK
  <2>2. login' \in Logins
    BY <1>2, <1>t, <2>a, <2>b DEF ManagedAttempt
  <2>3. minted' \in [install : 0..MaxInstalls, key : 0..MaxKeys]
    BY <1>2, <1>t DEF ManagedAttempt, TypeOK
  <2> QED BY <1>2, <2>1, <2>2, <2>3, <1>t DEF ManagedAttempt, TypeOK, fleet
<1>3. CASE Send
  <2>0. login.body \in Bodies
    BY <1>3, <1>t DEF Send, At, IInv, IdleInv, FirstInv, AgainInv, TypeOK, Logins, Requested
  <2>1. login' \in Logins
    BY <1>3, <1>t, <2>0, EnrollFacts DEF Send, TypeOK, Logins
  <2>2. forsaken' \subseteq Installs
    BY <1>3, <1>t, <2>0, BodyFacts DEF Send, TypeOK
  <2> QED BY <1>3, <1>t, <2>0, <2>1, <2>2, EnrollFacts DEF Send, TypeOK, disk
<1>4. CASE AnsweredFirst
  <2>0. login.body \in Bodies
    BY <1>4, <1>t DEF AnsweredFirst, Answered, At, IInv, IdleInv, FirstInv, AgainInv, TypeOK, Logins, Requested
  <2>a. [login.body EXCEPT !.as = "grant"] \in Bodies
    BY <2>0 DEF Bodies
  <2>1. login' \in Logins
    BY <1>4, <1>t, <2>a DEF AnsweredFirst
  <2>2. forsaken' \subseteq Installs
    BY <1>4, <1>t, <2>0, BodyFacts DEF AnsweredFirst, TypeOK
  <2> QED BY <1>4, <1>t, <2>1, <2>2 DEF AnsweredFirst, TypeOK, disk, fleet
<1>5. CASE Save
  <2>0. login.body \in Bodies
    BY <1>5, <1>t DEF Save, At, IInv, IdleInv, FirstInv, AgainInv, TypeOK, Logins, Requested
  <2>1. enrollment' \in Enrollments
    BY <1>5, <2>0, BodyEnrolls DEF Save
  <2> QED BY <1>5, <1>t, <2>0, <2>1, BodyFacts DEF Save, TypeOK, fleet
<1>6. CASE ClearAttempt
  BY <1>6, <1>t DEF ClearAttempt, TypeOK, fleet, history
<1>7. CASE Archive
  <2>1. archive' \in [Installs -> 0..MaxInstalls]
    BY <1>7, <1>t DEF Archive, TypeOK
  <2> QED BY <1>7, <1>t, <2>1 DEF Archive, TypeOK, fleet, history
<1>8. CASE KeepMarker
  <2>1. marker' \in Markers
    BY <1>8, <1>t, EnrollmentFacts DEF KeepMarker, TypeOK
  <2> QED BY <1>8, <1>t, <2>1 DEF KeepMarker, TypeOK, fleet, history
<1>9. CASE PendingIdentity
  <2>1. pendingId' \in [Installs -> 0..MaxInstalls]
    BY <1>9, <1>t, <1>i DEF PendingIdentity, TypeOK
  <2>2. minted' \in [install : 0..MaxInstalls, key : 0..MaxKeys]
    BY <1>9, <1>t DEF PendingIdentity, TypeOK
  <2> QED BY <1>9, <1>t, <2>1, <2>2 DEF PendingIdentity, TypeOK, fleet
<1>10. CASE PendingRequest
  <2>0. /\ login.tok \in Tokens /\ Old \in Installs /\ pendingId[Old] \in Installs
        /\ pending[Old] \in Bodies \cup {NoBody}
    BY <1>10, <1>t DEF PendingRequest, At, Old, IInv, IdleInv, FirstInv, AgainInv, TypeOK, Logins, Requested
  <2>1. CASE UNCHANGED <<pending, minted, forsaken>>
    <3>1. login' \in Logins
      BY <1>10, <1>t, <2>0, <2>1, NewBodyFacts DEF PendingRequest, SavePending, TypeOK
    <3> QED BY <1>10, <1>t, <2>1, <3>1 DEF PendingRequest, TypeOK, fleet
  <2>2. CASE /\ SavePending(NewBody(pendingId[Old], login.tok, "invite"))
             /\ KeyMinted \in Keys
             /\ Becomes("send", pending'[Old])
             /\ minted' = [minted EXCEPT !.key = @ + 1]
             /\ forsaken' = IF pending[Old] = NoBody THEN forsaken
                            ELSE forsaken \cup {pending[Old].install}
    <3>1. NewBody(pendingId[Old], login.tok, "invite") \in Bodies
      BY <2>0, <2>2, <1>t, NewBodyFacts
    <3>2. pending' \in [Installs -> Bodies \cup {NoBody}] /\ pending'[Old] \in Bodies
      BY <2>0, <2>2, <3>1, <1>t DEF SavePending, TypeOK
    <3>3. forsaken' \subseteq Installs
      BY <2>0, <2>2, <1>t, BodyFacts DEF TypeOK
    <3> QED BY <1>10, <1>t, <2>2, <3>2, <3>3 DEF PendingRequest, TypeOK, fleet
  <2> QED BY <1>10, <2>1, <2>2 DEF PendingRequest
<1>11. CASE AnsweredAgain
  <2>0. login.body \in Bodies /\ Old \in Installs /\ login.tok \in Tokens
    BY <1>11, <1>t DEF AnsweredAgain, Answered, At, Old, IInv, IdleInv, FirstInv, AgainInv, TypeOK, Logins, Requested
  <2>1. forsaken' \subseteq Installs
    BY <1>11, <1>t, <2>0, BodyFacts DEF AnsweredAgain, TypeOK
  <2>a. /\ [login.body EXCEPT !.as = "grant"] \in Bodies
        /\ [login.body EXCEPT !.tok = login.tok, !.as = "invite"] \in Bodies
    BY <2>0 DEF Bodies
  <2>2. pending' \in [Installs -> Bodies \cup {NoBody}]
    BY <1>11, <1>t, <2>0, <2>a DEF AnsweredAgain, SavePending, TypeOK
  <2>3. login' \in Logins
    <3>1. CASE login' = [login EXCEPT !.pc = "sweep", !.again = TRUE]
      BY <1>t, <3>1 DEF TypeOK, Logins
    <3>2. CASE ~(login' = [login EXCEPT !.pc = "sweep", !.again = TRUE])
      BY <1>11, <1>t, <2>a, <3>2 DEF AnsweredAgain
    <3> QED BY <3>1, <3>2
  <2> QED BY <1>11, <1>t, <2>1, <2>2, <2>3 DEF AnsweredAgain, TypeOK, fleet
<1>12. CASE RemovePendingFile
  <2>0. NoBody \in Bodies \cup {NoBody} /\ 0 \in 0..MaxInstalls
    BY CredentialsAssumption
  <2>1. pendingId' \in [Installs -> 0..MaxInstalls]
    BY <1>12, <1>t, <2>0 DEF RemovePendingFile, TypeOK
  <2>2. pending' \in [Installs -> Bodies \cup {NoBody}]
    BY <1>12, <1>t, <2>0 DEF RemovePendingFile, SavePending, TypeOK
  <2> QED BY <1>12, <1>t, <2>1, <2>2 DEF RemovePendingFile, TypeOK, fleet, history
<1>13. CASE PendingRemoved
  BY <1>13, <1>t DEF PendingRemoved, TypeOK, disk, fleet, history
<1>14. CASE ReplaceIdentity
  <2>1. Old \in Installs
    BY <1>14, <1>t DEF ReplaceIdentity, At, Old, IInv, IdleInv, FirstInv, AgainInv, TypeOK, Logins, Requested
  <2> QED BY <1>14, <1>t, <2>1 DEF ReplaceIdentity, TypeOK, fleet, history
<1>15. CASE RemoveCache
  BY <1>15, <1>t, CredentialsAssumption DEF RemoveCache, TypeOK, fleet, history
<1>16. CASE Commit
  <2>0. login.body \in Bodies
    BY <1>16, <1>t DEF Commit, At, IInv, IdleInv, FirstInv, AgainInv, TypeOK, Logins, Requested
  <2>1. enrollment' \in Enrollments
    BY <1>16, <2>0, BodyEnrolls DEF Commit
  <2> QED BY <1>16, <1>t, <2>0, <2>1, BodyFacts DEF Commit, TypeOK, fleet
<1>17. CASE OutOfRoom
  BY <1>17, <1>t DEF OutOfRoom, TypeOK, disk, fleet, history
<1> QED BY <1>1, <1>2, <1>3, <1>4, <1>5, <1>6, <1>7, <1>8, <1>9, <1>10, <1>11,
           <1>12, <1>13, <1>14, <1>15, <1>16, <1>17 DEF LoginStep

(* The steps that start or end a login, or are no login's, keep them too.  *)
LEMMA OtherTypes ==
    ASSUME IInv,
           \/ ManagedLogin \/ ManagedLoggedIn \/ InteractiveLogin \/ Interrupt \/ Damage
           \/ \E s \in Sites, i \in Installs : Revoke(s, i)
           \/ \E t \in Closable : CloseToken(t)
    PROVE  TypeOK'
<1>t. TypeOK
  BY DEF IInv
<1>1. ASSUME NEW t \in Tokens, NEW kind \in {"first", "managed"}, Login(t, kind)
      PROVE  TypeOK'
  <2>1. login' \in Logins
    BY <1>1, IdleFacts DEF Login, Logins
  <2>2. identity' \in 0..MaxInstalls
    BY <1>1, <1>t, MintFacts DEF Login, TypeOK
  <2>3. minted' \in [install : 0..MaxInstalls, key : 0..MaxKeys]
    BY <1>1, <1>t, MintFacts DEF Login, TypeOK
  <2> QED BY <1>1, <1>t, <2>1, <2>2, <2>3 DEF Login, TypeOK, fleet
<1>2. ASSUME NEW t \in Tokens, LoginEnrolled(t)
      PROVE  TypeOK'
  <2>0. enrollment.install \in 0..MaxInstalls
    BY <1>t, EnrollmentFacts DEF TypeOK
  <2>a. [Idle EXCEPT !.pc = "archive", !.kind = "again", !.tok = t,
                     !.old = enrollment.install] \in Logins
    BY <2>0, IdleFacts DEF Logins
  <2>1. login' \in Logins
    BY <1>2, <1>t, <2>a DEF LoginEnrolled, TypeOK
  <2> QED BY <1>2, <1>t, <2>1 DEF LoginEnrolled, TypeOK, fleet, history
<1>3. CASE ManagedLogin
  BY <1>1, <1>3, CredentialsAssumption DEF ManagedLogin
<1>4. CASE InteractiveLogin
  BY <1>1, <1>2, <1>4 DEF InteractiveLogin
<1>5. CASE ManagedLoggedIn
  BY <1>5, <1>t DEF ManagedLoggedIn, TypeOK, fleet, history
<1>6. CASE Interrupt
  <2>1. faults' \in 0..MaxFaults
    BY <1>6, <1>t, CredentialsAssumption DEF Interrupt, TypeOK
  <2> QED BY <1>6, <1>t, <2>1, LoginFacts DEF Interrupt, TypeOK, disk, fleet
<1>7. CASE Damage
  <2>1. faults' \in 0..MaxFaults
    BY <1>7, <1>t, CredentialsAssumption DEF Damage, TypeOK
  <2>2. marker' \in Markers
    BY <1>7, <1>t DEF Damage, TypeOK, Markers
  <2> QED BY <1>7, <1>t, <2>1, <2>2 DEF Damage, TypeOK, fleet
<1>8. ASSUME NEW s \in Sites, NEW i \in Installs, Revoke(s, i)
      PROVE  TypeOK'
  <2>1. server[s][i] \in Records
    BY <1>t DEF TypeOK
  <2>2. [server[s][i] EXCEPT !.status = "revoked"] \in Records
    BY <2>1 DEF Records
  <2>3. server' \in [Sites -> [Installs -> Records]]
    BY <1>8, <1>t, <2>2 DEF Revoke, TypeOK
  <2> QED BY <1>8, <1>t, <2>3 DEF Revoke, TypeOK, disk, history
<1>9. ASSUME NEW t \in Closable, CloseToken(t)
      PROVE  TypeOK'
  <2>1. token[t] \in TokenStates /\ t \in Tokens
    BY <1>t, CredentialsAssumption DEF TypeOK
  <2>2. [token[t] EXCEPT !.open = FALSE] \in TokenStates
    BY <2>1 DEF TokenStates
  <2>3. token' \in [Tokens -> TokenStates]
    BY <1>9, <1>t, <2>1, <2>2 DEF CloseToken, TypeOK
  <2> QED BY <1>9, <1>t, <2>3 DEF CloseToken, TypeOK, disk, history
<1> QED BY <1>3, <1>4, <1>5, <1>6, <1>7, <1>8, <1>9

(* So do the runtimes. *)
LEMMA RuntimeTypes ==
    ASSUME IInv, NEW r \in Runtimes, RuntimeStep(r)
    PROVE  TypeOK'
<1>t. TypeOK /\ runtime[r] \in Clients
  BY DEF IInv, TypeOK
<1>o. Off \in Clients
  BY DEF Off, Clients, Enrollments
<1>c. /\ [Off EXCEPT !.pc = "checked"] \in Clients
      /\ [runtime[r] EXCEPT !.pc = "on", !.enr = enrollment] \in Clients
      /\ [runtime[r] EXCEPT !.pc = "refused"] \in Clients
      /\ [runtime[r] EXCEPT !.pc = "served"] \in Clients
      /\ [runtime[r] EXCEPT !.pc = "on"] \in Clients
  BY <1>t, <1>o DEF Clients, TypeOK
<1>d. [runtime[r] EXCEPT !.pc = "on", !.revoked = TRUE] \in Clients
  BY <1>t DEF Clients
<1> USE StayFacts
<1>1. CASE CheckMarker(r) \/ Exchange(r) \/ Fetch(r) \/ Exit(r)
  <2>1. runtime' \in [Runtimes -> Clients]
    BY <1>1, <1>t, <1>o, <1>c DEF CheckMarker, Exchange, Fetch, Exit
  <2> QED BY <1>1, <1>t, <2>1 DEF CheckMarker, Exchange, Fetch, Exit, TypeOK, disk, fleet, history
<1>2. CASE LoadClient(r)
  BY <1>2, <1>t, <1>o, <1>c DEF LoadClient, TypeOK, disk, fleet, history
<1>3. CASE SaveCache(r)
  <2>1. cache' \in 0..MaxInstalls
    BY <1>3, <1>t, EnrollmentFacts DEF SaveCache, Clients
  <2>2. late' \in BOOLEAN
    BY <1>3, Zenon DEF SaveCache
  <2>3. runtime' \in [Runtimes -> Clients]
    BY <1>3, <1>t, <1>c DEF SaveCache
  <2> QED BY <1>3, <1>t, <2>1, <2>2, <2>3 DEF SaveCache, TypeOK, fleet
<1>4. CASE RecordRevocation(r)
  <2>1. marker' \in Markers
    BY <1>4, <1>t, EnrollmentFacts DEF RecordRevocation, Clients, TypeOK
  <2>2. late' \in BOOLEAN
    BY <1>4, <1>t, Zenon DEF RecordRevocation, TypeOK
  <2>3. runtime' \in [Runtimes -> Clients]
    BY <1>4, <1>t, <1>d DEF RecordRevocation
  <2> QED BY <1>4, <1>t, <2>1, <2>2, <2>3 DEF RecordRevocation, TypeOK, fleet
<1>5. CASE Notify(r)
  <2>1. [marker EXCEPT !.notified = TRUE] \in Markers
    BY <1>t DEF TypeOK, Markers
  <2>2. runtime' \in [Runtimes -> Clients]
    BY <1>5, <1>t, <1>o DEF Notify
  <2> QED BY <1>5, <1>t, <2>1, <2>2 DEF Notify, TypeOK, fleet, history
<1> QED BY <1>1, <1>2, <1>3, <1>4, <1>5 DEF RuntimeStep

(* Every step keeps the types. *)
LEMMA TypesKept == IInv /\ [Next]_vars => TypeOK'
<1> SUFFICES ASSUME IInv, [Next]_vars PROVE TypeOK'
  OBVIOUS
<1>1. CASE UNCHANGED vars
  BY <1>1 DEF IInv, TypeOK, vars
<1>2. CASE Next
  BY <1>2, LoginTypes, OtherTypes, RuntimeTypes DEF Next
<1> QED BY <1>1, <1>2

-----------------------------------------------------------------------------
(* The stop. *)

(* A client that was replaced records its own revocation over the marker. *)
Superseding ==
    /\ \E r \in Runtimes : runtime[r].pc = "refused" /\ runtime[r].enr # enrollment
    /\ At("idle") /\ late'

(* The marker is written by a recovery, by a client that hears of its      *)
(* revocation or tells of it, or is damaged.                               *)
MarkerWrites ==
    \/ KeepMarker \/ Damage
    \/ \E r \in Runtimes : RecordRevocation(r) \/ Notify(r)

(* No other step writes it. *)
LEMMA MarkerWritten == [Next]_vars => UNCHANGED marker \/ MarkerWrites
<1> SUFFICES ASSUME [Next]_vars, ~MarkerWrites PROVE UNCHANGED marker
  OBVIOUS
<1>1. CASE LoginStep
  BY <1>1 DEF LoginStep, MarkerWrites, NewKey, ManagedAttempt, Send, AnsweredFirst,
     Save, ClearAttempt, Archive, PendingIdentity, PendingRequest, AnsweredAgain,
     RemovePendingFile, PendingRemoved, ReplaceIdentity, RemoveCache, Commit,
     OutOfRoom, disk
<1>2. CASE \E r \in Runtimes : RuntimeStep(r)
  BY <1>2 DEF RuntimeStep, MarkerWrites, CheckMarker, LoadClient, Exchange, Fetch,
     SaveCache, Exit, disk
<1>3. CASE ManagedLogin \/ ManagedLoggedIn \/ InteractiveLogin \/ Interrupt
  BY <1>3 DEF ManagedLogin, ManagedLoggedIn, InteractiveLogin, Interrupt, Login,
     LoginEnrolled, disk
<1>4. CASE \/ \E s \in Sites, i \in Installs : Revoke(s, i)
           \/ \E t \in Closable : CloseToken(t)
           \/ UNCHANGED vars
  BY <1>4 DEF Revoke, CloseToken, disk, vars
<1> QED BY <1>1, <1>2, <1>3, <1>4 DEF Next, MarkerWrites

(* A stop outlives every step that keeps the enrollment, but for a         *)
(* superseded client's record, made while no login runs.                   *)
LEMMA StopStep ==
    ASSUME TypeOK, [Next]_vars, Stopped, enrollment' = enrollment
    PROVE  Stopped' \/ Superseding
<1>0. StopMark(marker, enrollment) /\ (Stopped' <=> StopMark(marker', enrollment))
  BY StoppedIs
<1>e. enrollment \in Enrollments /\ enrollment # NoEnrollment
  BY <1>0, EnrollmentFacts DEF TypeOK, StopMark
<1>m. marker \in Markers
  BY DEF TypeOK
<1>1. CASE UNCHANGED marker
  BY <1>0, <1>1
<1>2. CASE KeepMarker
  BY <1>0, <1>2, <1>e, NewMarkerStops DEF KeepMarker
<1>3. CASE Damage
  <2>1. ~marker'.valid /\ marker'.install = marker.install
    BY <1>3, <1>m DEF Damage, Markers
  <2>2. marker' # NoMarker
    BY <2>1 DEF NoMarker
  <2> QED BY <1>0, <2>1, <2>2 DEF StopMark
<1>4. ASSUME NEW r \in Runtimes, RecordRevocation(r)
      PROVE  Stopped' \/ Superseding
  <2>1. CASE UNCHANGED marker
    BY <1>0, <2>1
  <2>2. CASE runtime[r].enr = enrollment /\ ~UNCHANGED marker
    <3>1. marker' = NewMarker(enrollment, FALSE)
      BY <1>4, <2>2 DEF RecordRevocation
    <3> QED BY <1>0, <1>e, <3>1, NewMarkerStops
  <2>3. CASE runtime[r].enr # enrollment /\ ~UNCHANGED marker
    BY <1>4, <2>3 DEF RecordRevocation, Superseding
  <2> QED BY <2>1, <2>2, <2>3
<1>5. ASSUME NEW r \in Runtimes, Notify(r)
      PROVE  Stopped' \/ Superseding
  <2>1. CASE UNCHANGED marker
    BY <1>0, <2>1
  <2>2. CASE LoadRevocation(enrollment) = "revoked" /\ marker' = [marker EXCEPT !.notified = TRUE]
    <3>1. marker.install = enrollment.install /\ marker.site = enrollment.site
      BY <2>2 DEF LoadRevocation
    <3>2. marker'.install = marker.install /\ marker'.site = marker.site
      BY <2>2, <1>m DEF Markers
    <3>3. marker' # NoMarker
      BY <1>0, <3>1, <3>2 DEF NoMarker, StopMark
    <3> QED BY <1>0, <3>1, <3>2, <3>3 DEF StopMark
  <2> QED BY <1>5, <2>1, <2>2 DEF Notify
<1> QED BY <1>1, <1>2, <1>3, <1>4, <1>5, MarkerWritten DEF MarkerWrites

(* Nothing takes back that a superseded client wrote. *)
LEMMA LateStays == [Next]_vars /\ late => late'
<1> SUFFICES ASSUME [Next]_vars, late PROVE late'
  OBVIOUS
<1>1. CASE LoginStep
  BY <1>1 DEF LoginStep, NewKey, ManagedAttempt, Send, AnsweredFirst,
     Save, ClearAttempt, Archive, KeepMarker, PendingIdentity, PendingRequest,
     AnsweredAgain, RemovePendingFile, PendingRemoved, ReplaceIdentity,
     RemoveCache, Commit, OutOfRoom, history
<1>2. CASE \E r \in Runtimes : RuntimeStep(r)
  BY <1>2 DEF RuntimeStep, CheckMarker, LoadClient, Exchange, Fetch,
     SaveCache, RecordRevocation, Notify, Exit, history
<1>3. CASE ManagedLogin \/ ManagedLoggedIn \/ InteractiveLogin \/ Interrupt \/ Damage
  BY <1>3 DEF ManagedLogin, ManagedLoggedIn, InteractiveLogin, Interrupt, Damage,
     Login, LoginEnrolled, history
<1>4. CASE \/ \E s \in Sites, i \in Installs : Revoke(s, i)
           \/ \E t \in Closable : CloseToken(t)
           \/ UNCHANGED vars
  BY <1>4 DEF Revoke, CloseToken, history, vars
<1> QED BY <1>1, <1>2, <1>3, <1>4 DEF Next

-----------------------------------------------------------------------------
(* The login. *)

(* Which login is where. *)
LEMMA Kinds ==
    ASSUME IInv
    PROVE  /\ login.kind \in {"none", "first", "managed", "again"}
           /\ login.pc = "idle" <=> login.kind = "none"
           /\ login.pc \in {"key", "attempt", "save", "clear"} =>
                 login.kind \in {"first", "managed"}
           /\ login.pc = "key" => login.kind = "first"
           /\ login.pc = "attempt" => login.kind = "managed"
           /\ login.pc \in {"archive", "marker", "pending", "request", "sweep",
                            "clean", "identity", "cache", "commit"} =>
                 login.kind = "again"
           /\ login.kind \in {"first", "managed"} /\ login.pc \in {"send", "answer", "save"} =>
                 login.body \in Bodies
           /\ login.kind = "again" /\ login.pc \in Requested => login.body \in Bodies
BY DEF IInv, TypeOK, Logins, IdleInv, FirstInv, AgainInv, Requested

(* What the moves of a login leave of it. *)
LEMMA Moves ==
    ASSUME TypeOK
    PROVE  /\ \A pc : Goto(pc) => /\ login'.pc = pc /\ login'.kind = login.kind
                                  /\ login'.tok = login.tok /\ login'.body = login.body
                                  /\ login'.old = login.old
           /\ \A pc, b : Becomes(pc, b) => /\ login'.pc = pc /\ login'.kind = login.kind
                                           /\ login'.tok = login.tok /\ login'.body = b
                                           /\ login'.old = login.old
           /\ Fail => login'.pc = "idle" /\ login'.kind = "none"
<1>1. login \in Logins
  BY DEF TypeOK
<1> QED BY <1>1, IdleFacts DEF Logins, Goto, Becomes, Fail

(* A first enrollment and the absence of a login are undisturbed. *)
LEMMA FirstKept == IInv /\ [Next]_vars => IdleInv' /\ FirstInv'
<1> SUFFICES ASSUME IInv, [Next]_vars PROVE IdleInv' /\ FirstInv'
  OBVIOUS
<1>t. TypeOK /\ IdleInv /\ FirstInv
  BY DEF IInv
<1>f. Fail => IdleInv' /\ FirstInv'
  BY <1>t, Moves DEF IdleInv, FirstInv
<1>g. login'.kind = "again" => IdleInv' /\ FirstInv'
  BY DEF IdleInv, FirstInv
<1>u. UNCHANGED <<login, enrollment, identity, attempt>> => IdleInv' /\ FirstInv'
  BY <1>t DEF IdleInv, FirstInv
<1>1. ASSUME NEW t \in Tokens, NEW kind \in {"first", "managed"}, Login(t, kind)
      PROVE  IdleInv' /\ FirstInv'
  <2>1. /\ login'.kind = kind /\ login'.tok = t
        /\ login'.pc = IF kind = "managed" THEN "attempt" ELSE "key"
    BY <1>1, IdleFacts DEF Login, Logins
  <2>2. enrollment' = NoEnrollment /\ identity' \in Installs
    BY <1>1, <1>t, CredentialsAssumption DEF Login, TypeOK, Installs
  <2> QED BY <2>1, <2>2 DEF IdleInv, FirstInv
<1>2. ASSUME NEW t \in Tokens, LoginEnrolled(t)
      PROVE  IdleInv' /\ FirstInv'
  <2>1. CASE UNCHANGED login
    BY <1>2, <2>1, Kinds DEF LoginEnrolled, At, IdleInv, FirstInv
  <2>2. CASE login' = [Idle EXCEPT !.pc = "archive", !.kind = "again",
                                   !.tok = t, !.old = enrollment.install]
    BY <1>g, <2>2, IdleFacts DEF Logins
  <2> QED BY <1>2, <2>1, <2>2 DEF LoginEnrolled
<1>3. CASE ManagedLoggedIn
  BY <1>3, <1>t DEF ManagedLoggedIn, IdleInv, FirstInv
<1>4. CASE NewKey
  <2>0. login.kind = "first" /\ At("key")
    BY <1>4, Kinds DEF NewKey, At
  <2>1. /\ login'.pc = "send" /\ login'.kind = login.kind /\ login'.tok = login.tok
        /\ login'.body = NewBody(identity, login.tok, "invite")
    BY <1>4, <1>t, Moves DEF NewKey
  <2> QED BY <1>4, <1>t, <2>0, <2>1, NewBodyFacts DEF NewKey, disk, FirstInv, IdleInv, At
<1>5. CASE ManagedAttempt
  <2>0. login.kind = "managed" /\ At("attempt")
    BY <1>5, Kinds DEF ManagedAttempt, At
  <2>1. CASE Fail
    BY <1>f, <2>1
  <2>2. CASE ~Fail
    <3>1. /\ login'.pc = "send" /\ login'.kind = login.kind /\ login'.tok = login.tok
          /\ login'.body = attempt'
      BY <1>5, <1>t, <2>2, Moves DEF ManagedAttempt
    <3>2. attempt' \in Bodies /\ attempt'.install = identity
      <4>0. login.tok \in Tokens /\ identity \in Installs
        BY <1>t, <2>0 DEF FirstInv, At
      <4>1. CASE attempt = NoBody
        BY <1>5, <1>t, <2>2, <4>0, <4>1, NewBodyFacts DEF ManagedAttempt
      <4>2. CASE attempt # NoBody
        <5>1. attempt \in Bodies /\ attempt.install = identity
          BY <1>5, <1>t, <2>2, <4>2 DEF ManagedAttempt, TypeOK
        <5>2. attempt' = [attempt EXCEPT !.tok = login.tok]
          BY <1>5, <2>2, <4>2 DEF ManagedAttempt
        <5> QED BY <4>0, <5>1, <5>2 DEF Bodies
      <4> QED BY <4>1, <4>2
    <3> QED BY <1>5, <1>t, <2>0, <3>1, <3>2 DEF ManagedAttempt, FirstInv, IdleInv, At
  <2> QED BY <2>1, <2>2
<1>6. CASE Send
  <2>1. /\ login'.pc = "answer" /\ login'.kind = login.kind /\ login'.tok = login.tok
        /\ login'.body = login.body
    BY <1>6, <1>t DEF Send, TypeOK, Logins
  <2> QED BY <1>6, <1>t, <2>1, Kinds DEF Send, disk, FirstInv, IdleInv, At
<1>7. CASE AnsweredFirst
  <2>0. login.kind \in {"first", "managed"} /\ At("answer") /\ login.body \in Bodies
    BY <1>7, Kinds DEF AnsweredFirst, Answered, At
  <2>1. CASE Fail
    BY <1>f, <2>1
  <2>2. CASE Goto("save")
    BY <1>7, <1>t, <2>0, <2>2, Moves DEF AnsweredFirst, disk, FirstInv, IdleInv, At
  <2>3. CASE login.kind = "first" /\ Becomes("send", [login.body EXCEPT !.as = "grant"])
    <3>1. [login.body EXCEPT !.as = "grant"] \in Bodies
      BY <2>0 DEF Bodies
    <3>2. [login.body EXCEPT !.as = "grant"].install = login.body.install
      BY <2>0 DEF Bodies
    <3>3. login'.pc = "send" /\ login'.kind = "first" /\ login'.tok = login.tok
      BY <1>t, <2>3, Moves
    <3>4. login'.body \in Bodies /\ login'.body.install = login.body.install
      BY <1>t, <2>3, <3>1, <3>2, Moves
    <3> QED BY <1>7, <1>t, <2>0, <2>3, <3>3, <3>4 DEF AnsweredFirst, disk, FirstInv, IdleInv, At
  <2> QED BY <1>7, <2>1, <2>2, <2>3 DEF AnsweredFirst
<1>8. CASE Save
  <2>0. login.kind \in {"first", "managed"} /\ At("save") /\ login.body \in Bodies
    BY <1>8, Kinds DEF Save, At
  <2>1. enrollment' # NoEnrollment
    BY <1>8, <2>0, BodyEnrolls DEF Save
  <2>2. login'.pc = "clear" /\ login'.kind = login.kind /\ login'.tok = login.tok
    BY <1>8, <1>t, Moves DEF Save
  <2> QED BY <1>t, <2>0, <2>1, <2>2 DEF FirstInv, IdleInv
<1>9. CASE ClearAttempt \/ OutOfRoom \/ Interrupt
  BY <1>9, <1>f DEF ClearAttempt, OutOfRoom, Interrupt
<1>10. CASE \/ Archive \/ KeepMarker \/ PendingIdentity \/ ReplaceIdentity
            \/ RemoveCache \/ Commit
  <2>1. login.kind = "again"
    BY <1>10, Kinds DEF Archive, KeepMarker, PendingIdentity, ReplaceIdentity,
       RemoveCache, Commit, At
  <2>2. login'.kind = login.kind
    BY <1>10, <1>t, Moves DEF Archive, KeepMarker, PendingIdentity, ReplaceIdentity,
       RemoveCache, Commit
  <2> QED BY <1>g, <2>1, <2>2
<1>11. CASE PendingRequest
  <2>1. login.kind = "again"
    BY <1>11, Kinds DEF PendingRequest, At
  <2>2. Fail \/ login'.kind = login.kind
    BY <1>11, <1>t, Moves DEF PendingRequest
  <2> QED BY <1>f, <1>g, <2>1, <2>2
<1>12. CASE AnsweredAgain
  <2>2. Fail \/ login'.kind = login.kind
    <3>1. CASE login' = [login EXCEPT !.pc = "sweep", !.again = TRUE]
      BY <1>t, <3>1 DEF TypeOK, Logins
    <3>2. CASE login' # [login EXCEPT !.pc = "sweep", !.again = TRUE]
      BY <1>12, <1>t, <3>2, Moves DEF AnsweredAgain
    <3> QED BY <3>1, <3>2
  <2> QED BY <1>12, <1>f, <1>g, <2>2 DEF AnsweredAgain
<1>13. CASE RemovePendingFile
  BY <1>13, <1>u DEF RemovePendingFile
<1>14. CASE PendingRemoved
  <2>1. login.kind = "again"
    BY <1>14, Kinds DEF PendingRemoved, At
  <2>2. Fail \/ login'.kind = login.kind
    BY <1>14, <1>t, Moves DEF PendingRemoved
  <2> QED BY <1>f, <1>g, <2>1, <2>2
<1>15. CASE \E r \in Runtimes : RuntimeStep(r)
  BY <1>15, <1>u DEF RuntimeStep, CheckMarker, LoadClient, Exchange, Fetch,
     SaveCache, RecordRevocation, Notify, Exit, disk
<1>16. CASE \/ \E s \in Sites, i \in Installs : Revoke(s, i)
            \/ \E t \in Closable : CloseToken(t)
            \/ Damage \/ UNCHANGED vars
  BY <1>16, <1>u DEF Revoke, CloseToken, Damage, disk, vars
<1>17. CASE LoginStep
  BY <1>17, <1>4, <1>5, <1>6, <1>7, <1>8, <1>9, <1>10, <1>11, <1>12, <1>13, <1>14
     DEF LoginStep
<1>18. CASE ManagedLogin \/ InteractiveLogin
  BY <1>18, <1>1, <1>2, CredentialsAssumption DEF ManagedLogin, InteractiveLogin
<1> QED BY <1>3, <1>9, <1>15, <1>16, <1>17, <1>18 DEF Next

(* A recovery is undisturbed: no client writes the marker while it runs,   *)
(* and none the cache after it was removed without that being known.       *)
LEMMA AgainKept == IInv /\ [Next]_vars => AgainInv'
<1> SUFFICES ASSUME IInv, [Next]_vars PROVE AgainInv'
  OBVIOUS
<1>t. TypeOK /\ AgainInv
  BY DEF IInv
<1>n. login'.kind # "again" => AgainInv'
  BY DEF AgainInv
<1>f. Fail => AgainInv'
  BY <1>t, <1>n, Moves
<1>l. late => late'
  BY LateStays
<1>s. login.kind = "again" /\ login.pc # "clean" /\ enrollment' = enrollment => Stopped'
  BY <1>t, StopStep, Kinds DEF AgainInv, Superseding, At
<1>u. ASSUME UNCHANGED <<login, enrollment, identity, archive, pendingId, pending,
                         committed, forsaken>>,
             login.pc = "commit" => UNCHANGED cache \/ late'
      PROVE  AgainInv'
  <2>1. CASE login.kind # "again"
    BY <1>n, <1>u, <2>1
  <2>2. CASE login.kind = "again"
    BY <1>u, <1>t, <1>s, <1>l, <2>2 DEF AgainInv
  <2> QED BY <2>1, <2>2
<1>1. CASE ManagedLogin \/ (\E t \in Tokens : Login(t, "first"))
  BY <1>1, <1>n, IdleFacts DEF ManagedLogin, Login, Logins
<1>2. ASSUME NEW t \in Tokens, LoginEnrolled(t)
      PROVE  AgainInv'
  <2>1. CASE UNCHANGED login
    BY <1>2, <2>1, <1>n, Kinds DEF LoginEnrolled, At
  <2>2. CASE Stopped /\ login' = [Idle EXCEPT !.pc = "archive", !.kind = "again",
                                   !.tok = t, !.old = enrollment.install]
    <3>1. /\ login'.pc = "archive" /\ login'.tok = t
          /\ login'.old = enrollment.install
      BY <2>2, IdleFacts DEF Logins
    <3>2. enrollment # NoEnrollment /\ enrollment.install \in Installs
      BY <1>2, <1>t, EnrollmentFacts DEF LoginEnrolled, TypeOK
    <3>3. UNCHANGED <<enrollment, marker>>
      BY <1>2 DEF LoginEnrolled
    <3>4. Stopped'
      BY <2>2, <3>3, StoppedIs
    <3> QED BY <3>1, <3>2, <3>3, <3>4 DEF AgainInv, Requested
  <2> QED BY <1>2, <2>1, <2>2 DEF LoginEnrolled
<1>3. CASE ManagedLoggedIn
  BY <1>3, <1>u DEF ManagedLoggedIn, history
<1>4. CASE NewKey
  BY <1>4, <1>t, <1>n, Kinds, Moves DEF NewKey, At
<1>5. CASE ManagedAttempt
  BY <1>5, <1>t, <1>n, Kinds, Moves DEF ManagedAttempt, At
<1>6. CASE Send
  <2>1. /\ login'.pc = "answer" /\ login'.kind = login.kind /\ login'.tok = login.tok
        /\ login'.body = login.body /\ login'.old = login.old
    BY <1>6, <1>t DEF Send, TypeOK, Logins
  <2>2. login.kind = "again" => Stopped'
    BY <1>6, <1>s DEF Send, disk, At
  <2> QED BY <1>6, <1>t, <2>1, <2>2 DEF Send, disk, AgainInv, At, Requested
<1>7. CASE AnsweredFirst
  BY <1>7, <1>t, <1>n, Moves DEF AnsweredFirst
<1>8. CASE Save
  BY <1>8, <1>t, <1>n, Kinds, Moves DEF Save, At
<1>9. CASE ClearAttempt \/ OutOfRoom \/ Interrupt
  BY <1>9, <1>f DEF ClearAttempt, OutOfRoom, Interrupt
<1>10. CASE Archive
  <2>0. login.kind = "again" /\ At("archive")
    BY <1>10, Kinds DEF Archive, At
  <2>1. /\ login'.pc = "marker" /\ login'.kind = login.kind /\ login'.tok = login.tok
        /\ login'.old = login.old
    BY <1>10, <1>t, Moves DEF Archive
  <2>2. /\ Old \in Installs /\ enrollment.install = Old
        /\ enrollment # NoEnrollment /\ login.tok \in Tokens
    BY <1>t, <2>0 DEF AgainInv, Old, At
  <2>3. archive'[Old] = Old
    <3>1. archive[Old] # 0 => archive[Old] = Old
      BY <2>2 DEF IInv, ArchiveInv
    <3>2. archive[Old] = 0 => identity = Old
      BY <2>2, NoBodyFacts DEF IInv, ArchiveInv
    <3> QED BY <1>10, <1>t, <2>2, <3>1, <3>2 DEF Archive, TypeOK
  <2>4. Stopped'
    BY <1>10, <1>s, <2>0 DEF Archive, At
  <2> QED BY <1>10, <2>0, <2>1, <2>2, <2>3, <2>4 DEF Archive, AgainInv, At, Old, Requested
<1>11. CASE KeepMarker
  <2>0. login.kind = "again" /\ At("marker")
    BY <1>11, Kinds DEF KeepMarker, At
  <2>1. /\ login'.pc = "pending" /\ login'.kind = login.kind /\ login'.tok = login.tok
        /\ login'.old = login.old
    BY <1>11, <1>t, Moves DEF KeepMarker
  <2>2. Stopped'
    BY <1>11, <1>s, <2>0 DEF KeepMarker, At
  <2> QED BY <1>11, <1>t, <2>0, <2>1, <2>2 DEF KeepMarker, AgainInv, At, Requested
<1>12. CASE PendingIdentity
  <2>0. login.kind = "again" /\ At("pending")
    BY <1>12, Kinds DEF PendingIdentity, At
  <2>1. /\ login'.pc = "request" /\ login'.kind = login.kind /\ login'.tok = login.tok
        /\ login'.old = login.old
    BY <1>12, <1>t, Moves DEF PendingIdentity
  <2>2. Stopped'
    BY <1>12, <1>s, <2>0 DEF PendingIdentity, At
  <2>3. pendingId'[login.old] \in Installs
    <3>1. login.old \in Installs /\ pendingId[login.old] \in 0..MaxInstalls
      BY <1>t, <2>0 DEF AgainInv, TypeOK
    <3> QED BY <1>12, <1>t, <3>1, CredentialsAssumption DEF PendingIdentity, Old, TypeOK, Installs
  <2> QED BY <1>12, <1>t, <2>0, <2>1, <2>2, <2>3 DEF PendingIdentity, AgainInv, At, Requested
<1>13. CASE PendingRequest
  <2>0. login.kind = "again" /\ At("request") /\ login.old \in Installs
        /\ pendingId[login.old] \in Installs /\ login.tok \in Tokens
    BY <1>13, <1>t, Kinds DEF PendingRequest, At, AgainInv
  <2>1. CASE Fail
    BY <1>f, <2>1
  <2>2. CASE ~Fail
    <3>1. /\ login'.pc = "send" /\ login'.kind = login.kind /\ login'.tok = login.tok
          /\ login'.old = login.old /\ login'.body = pending'[login.old]
      BY <1>13, <1>t, <2>2, Moves DEF PendingRequest, Old
    <3>2. pending'[login.old] \in Bodies /\ pending'[login.old].install = pendingId[login.old]
      <4>1. CASE UNCHANGED pending
        <5>1. \/ pending[login.old] # NoBody /\ pending[login.old].install = pendingId[login.old]
              \/ SavePending(NewBody(pendingId[Old], login.tok, "invite")) /\ KeyMinted \in Keys
          BY <1>13, <2>2 DEF PendingRequest, Old
        <5>2. pending[login.old] \in Bodies \cup {NoBody}
          BY <1>t, <2>0 DEF TypeOK
        <5> QED BY <1>t, <2>0, <4>1, <5>1, <5>2, NewBodyFacts DEF SavePending, Old, TypeOK
      <4>2. CASE SavePending(NewBody(pendingId[Old], login.tok, "invite")) /\ KeyMinted \in Keys
        BY <1>t, <2>0, <4>2, NewBodyFacts DEF SavePending, Old, TypeOK
      <4> QED BY <1>13, <4>1, <4>2 DEF PendingRequest
    <3>3. Stopped'
      BY <1>13, <1>s, <2>0 DEF PendingRequest, At
    <3> QED BY <1>13, <1>t, <2>0, <3>1, <3>2, <3>3 DEF PendingRequest, AgainInv, At, Requested
  <2> QED BY <2>1, <2>2
<1>14. CASE AnsweredAgain
  <2>0. /\ login.kind = "again" /\ At("answer") /\ login.old \in Installs
        /\ login.body \in Bodies /\ login.tok \in Tokens
        /\ pendingId[login.old] = login.body.install /\ pending[login.old] = login.body
    BY <1>14, <1>t, Kinds DEF AnsweredAgain, Answered, At, AgainInv, Requested
  <2>s. Stopped'
    BY <1>14, <1>s, <2>0 DEF AnsweredAgain, At
  <2>1. CASE Fail
    BY <1>f, <2>1
  <2>2. CASE Goto("identity") /\ UNCHANGED pending
    BY <1>14, <1>t, <2>0, <2>s, <2>2, Moves DEF AnsweredAgain, AgainInv, At, Requested
  <2>3. ASSUME NEW b \in Bodies, b.install = login.body.install,
               SavePending(b), Becomes("send", b)
        PROVE  AgainInv'
    <3>1. pending'[login.old] = b
      BY <1>t, <2>0, <2>3 DEF SavePending, Old, TypeOK
    <3>2. /\ login'.pc = "send" /\ login'.kind = login.kind /\ login'.tok = login.tok
          /\ login'.old = login.old /\ login'.body = b
      BY <1>t, <2>3, Moves
    <3> QED BY <1>14, <1>t, <2>0, <2>s, <2>3, <3>1, <3>2 DEF AnsweredAgain, AgainInv, At, Requested
  <2>4. CASE Answered("conflict") /\ UNCHANGED pending
             /\ login' = [login EXCEPT !.pc = "sweep", !.again = TRUE]
    <3>1. /\ login'.pc = "sweep" /\ login'.kind = login.kind /\ login'.tok = login.tok
          /\ login'.old = login.old
      BY <1>t, <2>4 DEF TypeOK, Logins
    <3>2. login.body.install \in forsaken'
      BY <1>14, <2>4 DEF AnsweredAgain
    <3> QED BY <1>14, <1>t, <2>0, <2>s, <2>4, <3>1, <3>2 DEF AnsweredAgain, AgainInv, At, Requested
  <2>5. /\ [login.body EXCEPT !.as = "grant"] \in Bodies
        /\ [login.body EXCEPT !.as = "grant"].install = login.body.install
        /\ [login.body EXCEPT !.tok = login.tok, !.as = "invite"] \in Bodies
        /\ [login.body EXCEPT !.tok = login.tok, !.as = "invite"].install = login.body.install
    BY <2>0 DEF Bodies
  <2> QED BY <1>14, <2>1, <2>2, <2>3, <2>4, <2>5 DEF AnsweredAgain
<1>15. CASE RemovePendingFile
  <2>0. login.kind = "again" /\ login.pc \in {"sweep", "clean"} /\ login.old \in Installs
    BY <1>15, <1>t, Kinds DEF RemovePendingFile, At, AgainInv
  <2>1. pending'[login.old] \in {pending[login.old], NoBody}
    BY <1>15, <1>t, <2>0 DEF RemovePendingFile, SavePending, Old, TypeOK
  <2>2. login.pc = "sweep" => Stopped'
    BY <1>15, <1>s, <2>0 DEF RemovePendingFile
  <2>3. UNCHANGED <<login, enrollment, identity, archive, committed, forsaken>>
    BY <1>15 DEF RemovePendingFile, history
  <2> QED BY <1>t, <2>0, <2>1, <2>2, <2>3 DEF AgainInv, Requested
<1>16. CASE PendingRemoved
  <2>0. login.kind = "again" /\ login.pc \in {"sweep", "clean"}
    BY <1>16, <1>t, Kinds DEF PendingRemoved, At
  <2>1. CASE Fail
    BY <1>f, <2>1
  <2>2. CASE Goto("pending") /\ login.pc = "sweep"
    <3>1. Stopped'
      BY <1>16, <1>s, <2>0, <2>2 DEF PendingRemoved, disk
    <3> QED BY <1>16, <1>t, <2>0, <2>2, <3>1, Moves DEF PendingRemoved, disk, history, AgainInv, Requested
  <2> QED BY <1>16, <2>1, <2>2 DEF PendingRemoved, At
<1>17. CASE ReplaceIdentity
  <2>0. login.kind = "again" /\ At("identity")
    BY <1>17, Kinds DEF ReplaceIdentity, At
  <2>1. Stopped'
    BY <1>17, <1>s, <2>0 DEF ReplaceIdentity, At
  <2> QED BY <1>17, <1>t, <2>0, <2>1, Moves DEF ReplaceIdentity, history, AgainInv, At, Old, Requested
<1>18. CASE RemoveCache
  <2>0. login.kind = "again" /\ At("cache")
    BY <1>18, Kinds DEF RemoveCache, At
  <2>1. Stopped'
    BY <1>18, <1>s, <2>0 DEF RemoveCache, At
  <2> QED BY <1>18, <1>t, <2>0, <2>1, Moves DEF RemoveCache, history, AgainInv, At, Requested
<1>19. CASE Commit
  <2>0. login.kind = "again" /\ At("commit")
    BY <1>19, Kinds DEF Commit, At
  <2>1. enrollment' # NoEnrollment /\ login.body.install \in committed'
    BY <1>19, <1>t, <2>0, BodyEnrolls DEF Commit, AgainInv, At, Requested
  <2> QED BY <1>19, <1>t, <2>0, <2>1, Moves DEF Commit, AgainInv, At, Requested
<1>20. ASSUME NEW r \in Runtimes, RuntimeStep(r)
       PROVE  AgainInv'
  <2>1. CASE SaveCache(r)
    BY <2>1, <1>u DEF SaveCache, At
  <2>2. CASE ~SaveCache(r)
    BY <1>20, <2>2, <1>u DEF RuntimeStep, CheckMarker, LoadClient, Exchange, Fetch,
       RecordRevocation, Notify, Exit, disk, history
  <2> QED BY <2>1, <2>2
<1>21. CASE \/ \E s \in Sites, i \in Installs : Revoke(s, i)
            \/ \E t \in Closable : CloseToken(t)
            \/ Damage \/ UNCHANGED vars
  BY <1>21, <1>u DEF Revoke, CloseToken, Damage, disk, history, vars
<1>22. CASE LoginStep
  BY <1>22, <1>4, <1>5, <1>6, <1>7, <1>8, <1>9, <1>10, <1>11, <1>12, <1>13, <1>14,
     <1>15, <1>16, <1>17, <1>18, <1>19 DEF LoginStep
<1> QED BY <1>1, <1>2, <1>3, <1>9, <1>20, <1>21, <1>22 DEF Next, InteractiveLogin

-----------------------------------------------------------------------------
(* The files. *)

(* The steps that write one of the three records of the install. *)
RecordWrites ==
    \/ \E t \in Tokens, kind \in {"first", "managed"} : Login(t, kind)
    \/ Save \/ ReplaceIdentity \/ Commit

(* No other step writes any of them. *)
LEMMA RecordsWritten ==
    [Next]_vars => \/ UNCHANGED <<identity, enrollment, committed>>
                   \/ RecordWrites
<1> SUFFICES ASSUME [Next]_vars, ~RecordWrites
             PROVE  UNCHANGED <<identity, enrollment, committed>>
  OBVIOUS
<1>1. CASE LoginStep
  BY <1>1 DEF LoginStep, RecordWrites, NewKey, ManagedAttempt, Send, AnsweredFirst,
     ClearAttempt, Archive, KeepMarker, PendingIdentity, PendingRequest,
     AnsweredAgain, RemovePendingFile, PendingRemoved, RemoveCache, OutOfRoom,
     disk, history
<1>2. CASE \E r \in Runtimes : RuntimeStep(r)
  BY <1>2 DEF RuntimeStep, CheckMarker, LoadClient, Exchange, Fetch,
     SaveCache, RecordRevocation, Notify, Exit, disk, history
<1>3. CASE ManagedLoggedIn \/ Interrupt \/ Damage
  BY <1>3 DEF ManagedLoggedIn, Interrupt, Damage, disk, history
<1>4. CASE ManagedLogin
  BY <1>4, CredentialsAssumption DEF ManagedLogin, RecordWrites
<1>5. CASE InteractiveLogin
  BY <1>5 DEF InteractiveLogin, LoginEnrolled, RecordWrites, history
<1>6. CASE \/ \E s \in Sites, i \in Installs : Revoke(s, i)
           \/ \E t \in Closable : CloseToken(t)
           \/ UNCHANGED vars
  BY <1>6 DEF Revoke, CloseToken, disk, history, vars
<1> QED BY <1>1, <1>2, <1>3, <1>4, <1>5, <1>6 DEF Next

(* Only archiveRevokedState writes the archive. *)
LEMMA ArchiveWritten == [Next]_vars => UNCHANGED archive \/ Archive
<1> SUFFICES ASSUME [Next]_vars, ~Archive PROVE UNCHANGED archive
  OBVIOUS
<1>1. CASE LoginStep
  BY <1>1 DEF LoginStep, NewKey, ManagedAttempt, Send, AnsweredFirst, Save,
     ClearAttempt, KeepMarker, PendingIdentity, PendingRequest, AnsweredAgain,
     RemovePendingFile, PendingRemoved, ReplaceIdentity, RemoveCache, Commit,
     OutOfRoom, disk
<1>2. CASE \E r \in Runtimes : RuntimeStep(r)
  BY <1>2 DEF RuntimeStep, CheckMarker, LoadClient, Exchange, Fetch,
     SaveCache, RecordRevocation, Notify, Exit, disk
<1>3. CASE ManagedLogin \/ ManagedLoggedIn \/ InteractiveLogin \/ Interrupt \/ Damage
  BY <1>3 DEF ManagedLogin, ManagedLoggedIn, InteractiveLogin, Interrupt, Damage,
     Login, LoginEnrolled, disk
<1>4. CASE \/ \E s \in Sites, i \in Installs : Revoke(s, i)
           \/ \E t \in Closable : CloseToken(t)
           \/ UNCHANGED vars
  BY <1>4 DEF Revoke, CloseToken, disk, vars
<1> QED BY <1>1, <1>2, <1>3, <1>4 DEF Next

(* An identity is archived before it is replaced, and replaced by the one  *)
(* that is then committed.                                                 *)
LEMMA ArchiveKept == IInv /\ [Next]_vars => ArchiveInv'
<1> SUFFICES ASSUME IInv, [Next]_vars PROVE ArchiveInv'
  OBVIOUS
<1>t. TypeOK /\ ArchiveInv /\ FirstInv /\ AgainInv
  BY DEF IInv
<1>e. enrollment # NoEnrollment => enrollment.install \in Installs
  BY <1>t, EnrollmentFacts DEF TypeOK
<1>1. CASE Archive
  <2>0. login.kind = "again" /\ At("archive")
    BY <1>1, Kinds DEF Archive, At
  <2>1. Old \in Installs /\ enrollment.install = Old /\ enrollment # NoEnrollment
    BY <1>t, <2>0 DEF AgainInv, Old, At
  <2>2. archive[Old] = 0 => identity = Old
    BY <1>t, <2>1, NoBodyFacts DEF ArchiveInv
  <2>3. \A i \in Installs : archive'[i] = archive[i] \/ (i = Old /\ archive'[i] = i)
    BY <1>1, <1>t, <2>1, <2>2 DEF Archive, TypeOK
  <2>4. \A i \in Installs : archive[i] = i => archive'[i] = i
    BY <2>3
  <2>5. UNCHANGED <<identity, enrollment, committed>>
    BY <1>1 DEF Archive, history
  <2>6. committed \subseteq Installs
    BY <1>t DEF TypeOK
  <2> QED BY <1>t, <1>e, <2>3, <2>4, <2>5, <2>6 DEF ArchiveInv
<1>2. CASE UNCHANGED <<archive, identity, enrollment, committed>>
  BY <1>2, <1>t DEF ArchiveInv
<1>3. ASSUME UNCHANGED archive, NEW t \in Tokens, NEW kind \in {"first", "managed"}, Login(t, kind)
      PROVE  ArchiveInv'
  BY <1>3, <1>t DEF Login, ArchiveInv
<1>4. CASE UNCHANGED archive /\ Save
  <2>0. login.kind \in {"first", "managed"} /\ At("save")
    BY <1>4, Kinds DEF Save, At
  <2>1. enrollment = NoEnrollment /\ login.body \in Bodies /\ login.body.install = identity
    BY <1>t, <2>0 DEF FirstInv, At
  <2>2. enrollment'.install = identity /\ committed' = committed \cup {identity}
        /\ identity' = identity /\ identity # 0
    BY <1>4, <2>1, BodyEnrolls, BodyFacts DEF Save
  <2>3. \A i \in committed : archive[i] = i
    BY <1>t, <2>1, NoBodyFacts DEF ArchiveInv, NoEnrollment, TypeOK
  <2> QED BY <1>4, <1>t, <2>2, <2>3 DEF ArchiveInv
<1>5. CASE UNCHANGED archive /\ ReplaceIdentity
  <2>0. login.kind = "again" /\ At("identity")
    BY <1>5, Kinds DEF ReplaceIdentity, At
  <2>1. archive[enrollment.install] = enrollment.install
    BY <1>t, <2>0 DEF AgainInv, At
  <2> QED BY <1>5, <1>t, <2>1 DEF ReplaceIdentity, history, ArchiveInv
<1>6. CASE UNCHANGED archive /\ Commit
  <2>0. login.kind = "again" /\ At("commit")
    BY <1>6, Kinds DEF Commit, At
  <2>1. /\ archive[enrollment.install] = enrollment.install
        /\ login.body \in Bodies /\ identity = login.body.install
    BY <1>t, <2>0 DEF AgainInv, At, Requested
  <2>2. enrollment'.install = identity /\ committed' = committed \cup {identity}
        /\ identity' = identity
    BY <1>6, <2>1, BodyEnrolls DEF Commit
  <2>3. \A i \in committed : archive[i] = i
    BY <1>t, <2>1 DEF ArchiveInv
  <2> QED BY <1>6, <1>t, <2>2, <2>3 DEF ArchiveInv
<1>7. Archive => ArchiveInv'
  BY <1>1
<1> QED BY <1>2, <1>3, <1>4, <1>5, <1>6, <1>7, RecordsWritten, ArchiveWritten DEF RecordWrites

(* The identity of an install that was enrolled here is never lost. *)
LEMMA KeptFromArchive == TypeOK /\ ArchiveInv => IdentityKept
<1> SUFFICES ASSUME TypeOK, ArchiveInv, NEW i \in committed
             PROVE  identity = i \/ archive[i] = i
  BY DEF IdentityKept
<1>1. i \in Installs /\ i # 0
  BY NoBodyFacts DEF TypeOK
<1>2. CASE enrollment = NoEnrollment
  BY <1>1, <1>2 DEF ArchiveInv, NoEnrollment
<1>3. CASE enrollment # NoEnrollment
  BY <1>3 DEF ArchiveInv
<1> QED BY <1>2, <1>3

(* The managed attempt is dropped only once the install is enrolled, and   *)
(* written only by ManagedEnrollmentAttempt.                               *)
Drops ==
    /\ attempt' = NoBody /\ enrollment # NoEnrollment
    /\ UNCHANGED <<identity, enrollment, pending, server, committed, forsaken>>

(* No other step touches the managed attempt. *)
LEMMA AttemptWritten ==
    IInv /\ [Next]_vars => UNCHANGED attempt \/ Drops \/ ManagedAttempt
<1> SUFFICES ASSUME IInv, [Next]_vars, ~ManagedAttempt
             PROVE  UNCHANGED attempt \/ Drops
  OBVIOUS
<1>1. CASE ClearAttempt
  <2>1. enrollment # NoEnrollment
    BY <1>1, Kinds DEF ClearAttempt, At, IInv, FirstInv
  <2> QED BY <1>1, <2>1 DEF ClearAttempt, Drops, fleet, history
<1>2. CASE LoginStep /\ ~ClearAttempt
  BY <1>2 DEF LoginStep, NewKey, Send, AnsweredFirst, Save,
     Archive, KeepMarker, PendingIdentity, PendingRequest, AnsweredAgain,
     RemovePendingFile, PendingRemoved, ReplaceIdentity, RemoveCache, Commit,
     OutOfRoom, disk
<1>3. CASE \E r \in Runtimes : RuntimeStep(r)
  BY <1>3 DEF RuntimeStep, CheckMarker, LoadClient, Exchange, Fetch,
     SaveCache, RecordRevocation, Notify, Exit, disk
<1>4. CASE ManagedLogin \/ Interrupt \/ Damage
  BY <1>4 DEF ManagedLogin, Interrupt, Damage, Login, disk
<1>5. CASE ManagedLoggedIn \/ InteractiveLogin
  BY <1>5 DEF ManagedLoggedIn, InteractiveLogin, Login, LoginEnrolled, Drops, fleet, history
<1>6. CASE \/ \E s \in Sites, i \in Installs : Revoke(s, i)
           \/ \E t \in Closable : CloseToken(t)
           \/ UNCHANGED vars
  BY <1>6 DEF Revoke, CloseToken, disk, vars
<1> QED BY <1>1, <1>2, <1>3, <1>4, <1>5, <1>6 DEF Next

(* A saved managed request stays its identity's. *)
LEMMA AttemptKept == IInv /\ [Next]_vars => AttemptInv'
<1> SUFFICES ASSUME IInv, [Next]_vars PROVE AttemptInv'
  OBVIOUS
<1>t. TypeOK /\ AttemptInv /\ FirstInv /\ AgainInv
  BY DEF IInv
<1>1. CASE Drops
  BY <1>1 DEF Drops, AttemptInv
<1>2. CASE ManagedAttempt
  <2>0. login.kind = "managed" /\ At("attempt")
    BY <1>2, Kinds DEF ManagedAttempt, At
  <2>1. enrollment = NoEnrollment /\ identity \in Installs
    BY <1>t, <2>0 DEF FirstInv, At
  <2>2. UNCHANGED <<identity, enrollment, committed>>
    BY <1>2 DEF ManagedAttempt
  <2>3. attempt'.install = identity \/ UNCHANGED attempt
    BY <1>2, <1>t DEF ManagedAttempt, NewBody, TypeOK, Bodies
  <2> QED BY <1>t, <2>1, <2>2, <2>3 DEF AttemptInv
<1>3. CASE UNCHANGED <<attempt, identity, enrollment, committed>>
  BY <1>3, <1>t DEF AttemptInv
<1>4. ASSUME UNCHANGED attempt, NEW t \in Tokens, NEW kind \in {"first", "managed"}, Login(t, kind)
      PROVE  AttemptInv'
  <2>1. attempt # NoBody => attempt.install # 0
    BY <1>t, BodyFacts DEF TypeOK
  <2> QED BY <1>4, <1>t, <2>1 DEF Login, AttemptInv
<1>5. CASE UNCHANGED attempt /\ Save
  <2>0. login.kind \in {"first", "managed"} /\ At("save")
    BY <1>5, Kinds DEF Save, At
  <2>1. enrollment = NoEnrollment /\ login.body \in Bodies /\ login.body.install = identity
    BY <1>t, <2>0 DEF FirstInv, At
  <2>2. enrollment' # NoEnrollment /\ identity \in committed'
    BY <1>5, <2>1, BodyEnrolls DEF Save
  <2> QED BY <1>5, <1>t, <2>1, <2>2 DEF AttemptInv
<1>6. CASE UNCHANGED attempt /\ ReplaceIdentity
  <2>1. enrollment # NoEnrollment
    BY <1>6, <1>t, Kinds DEF ReplaceIdentity, At, AgainInv
  <2> QED BY <1>6, <1>t, <2>1 DEF ReplaceIdentity, history, AttemptInv
<1>7. CASE UNCHANGED attempt /\ Commit
  <2>1. enrollment # NoEnrollment /\ enrollment' # NoEnrollment
    BY <1>7, <1>t, Kinds, BodyEnrolls DEF Commit, At, AgainInv, Requested
  <2> QED BY <1>7, <1>t, <2>1 DEF Commit, AttemptInv
<1> QED BY <1>1, <1>2, <1>3, <1>4, <1>5, <1>6, <1>7, AttemptWritten, RecordsWritten
        DEF RecordWrites

(* The install does not collect under an identity that is not enrolled. *)
LEMMA OneUnitKept == IInv /\ [Next]_vars => OneUnit'
<1> SUFFICES ASSUME IInv, [Next]_vars PROVE OneUnit'
  OBVIOUS
<1>t. TypeOK /\ OneUnit /\ FirstInv /\ AgainInv
  BY DEF IInv
<1>l. late => late'
  BY LateStays
<1>s. enrollment' = enrollment => (Stopped => Stopped' \/ late')
  BY <1>t, StopStep DEF Superseding
<1>1. CASE UNCHANGED <<identity, enrollment, committed>>
  BY <1>1, <1>t, <1>l, <1>s DEF OneUnit
<1>2. ASSUME NEW t \in Tokens, NEW kind \in {"first", "managed"}, Login(t, kind)
      PROVE  OneUnit'
  BY <1>2 DEF Login, OneUnit
<1>3. CASE Save
  <2>0. login.kind \in {"first", "managed"} /\ At("save")
    BY <1>3, Kinds DEF Save, At
  <2> QED BY <1>3, <1>t, <2>0, BodyEnrolls DEF Save, FirstInv, At, OneUnit
<1>4. CASE ReplaceIdentity
  <2>0. login.kind = "again" /\ At("identity")
    BY <1>4, Kinds DEF ReplaceIdentity, At
  <2>1. Stopped
    BY <1>t, <2>0 DEF AgainInv, At
  <2> QED BY <1>4, <1>s, <2>1 DEF ReplaceIdentity, OneUnit
<1>5. CASE Commit
  <2>0. login.kind = "again" /\ At("commit")
    BY <1>5, Kinds DEF Commit, At
  <2> QED BY <1>5, <1>t, <2>0, BodyEnrolls DEF Commit, AgainInv, At, Requested, OneUnit
<1> QED BY <1>1, <1>2, <1>3, <1>4, <1>5, RecordsWritten DEF RecordWrites

(* The cache in use was served to the install that uses it. *)
LEMMA CacheKept == IInv /\ [Next]_vars => CacheIsOwn'
<1> SUFFICES ASSUME IInv, [Next]_vars, ~Stopped', ~late'
             PROVE  cache' \in {0, enrollment'.install}
  BY DEF CacheIsOwn
<1>t. TypeOK /\ CacheIsOwn /\ FirstInv /\ AgainInv
  BY DEF IInv
<1>l. ~late
  BY LateStays
<1>s. enrollment' = enrollment => ~Stopped
  BY <1>t, StopStep DEF Superseding
<1>w. UNCHANGED cache \/ RemoveCache \/ \E r \in Runtimes : SaveCache(r)
  <2>1. CASE LoginStep
    BY <2>1 DEF LoginStep, NewKey, ManagedAttempt, Send, AnsweredFirst, Save,
       ClearAttempt, Archive, KeepMarker, PendingIdentity, PendingRequest,
       AnsweredAgain, RemovePendingFile, PendingRemoved, ReplaceIdentity, Commit,
       OutOfRoom, disk
  <2>2. CASE \E r \in Runtimes : RuntimeStep(r)
    BY <2>2 DEF RuntimeStep, CheckMarker, LoadClient, Exchange, Fetch,
       RecordRevocation, Notify, Exit, disk
  <2>3. CASE ManagedLogin \/ ManagedLoggedIn \/ InteractiveLogin \/ Interrupt \/ Damage
    BY <2>3 DEF ManagedLogin, ManagedLoggedIn, InteractiveLogin, Interrupt, Damage,
       Login, LoginEnrolled, disk
  <2>4. CASE \/ \E s \in Sites, i \in Installs : Revoke(s, i)
             \/ \E t \in Closable : CloseToken(t)
             \/ UNCHANGED vars
    BY <2>4 DEF Revoke, CloseToken, disk, vars
  <2> QED BY <2>1, <2>2, <2>3, <2>4 DEF Next
<1>1. CASE RemoveCache
  BY <1>1 DEF RemoveCache
<1>2. ASSUME NEW r \in Runtimes, SaveCache(r)
      PROVE  cache' \in {0, enrollment'.install}
  BY <1>2 DEF SaveCache
<1>3. CASE UNCHANGED <<cache, enrollment>>
  BY <1>3, <1>t, <1>l, <1>s DEF CacheIsOwn
<1>4. CASE UNCHANGED cache /\ Save
  <2>0. login.kind \in {"first", "managed"} /\ At("save")
    BY <1>4, Kinds DEF Save, At
  <2>1. enrollment = NoEnrollment /\ enrollment.install = 0
    BY <1>t, <2>0, EnrollmentFacts DEF FirstInv, At, TypeOK
  <2>2. ~Stopped
    BY <2>1, StoppedIs DEF StopMark
  <2> QED BY <1>4, <1>t, <1>l, <2>1, <2>2 DEF CacheIsOwn
<1>5. CASE UNCHANGED cache /\ Commit
  <2>0. login.kind = "again" /\ At("commit")
    BY <1>5, Kinds DEF Commit, At
  <2> QED BY <1>5, <1>t, <1>l, <2>0 DEF AgainInv, At
<1>6. CASE UNCHANGED cache /\ (ReplaceIdentity \/ \E t \in Tokens, kind \in {"first", "managed"} : Login(t, kind))
  BY <1>3, <1>6 DEF ReplaceIdentity, Login
<1> QED BY <1>w, <1>1, <1>2, <1>3, <1>4, <1>5, <1>6, RecordsWritten DEF RecordWrites

-----------------------------------------------------------------------------
(* What can be sent again. *)

(* The requests on disk. *)
Held == {attempt} \cup {pending[o] : o \in Installs}

(* The steps that may disturb it. *)
LEMMA RequestsWritten ==
    ASSUME [Next]_vars
    PROVE  /\ UNCHANGED pending \/ PendingRequest \/ AnsweredAgain \/ RemovePendingFile
           /\ \/ UNCHANGED server \/ Send
              \/ \E s \in Sites, i \in Installs : Revoke(s, i)
           /\ committed \subseteq committed' /\ forsaken \subseteq forsaken'
<1>1. CASE LoginStep
  BY <1>1 DEF LoginStep, NewKey, ManagedAttempt, Send, AnsweredFirst, Save,
     ClearAttempt, Archive, KeepMarker, PendingIdentity, PendingRequest,
     AnsweredAgain, RemovePendingFile, PendingRemoved, ReplaceIdentity,
     RemoveCache, Commit, OutOfRoom, disk, fleet, history
<1>2. CASE \E r \in Runtimes : RuntimeStep(r)
  BY <1>2 DEF RuntimeStep, CheckMarker, LoadClient, Exchange, Fetch,
     SaveCache, RecordRevocation, Notify, Exit, disk, fleet, history
<1>3. CASE ManagedLogin \/ ManagedLoggedIn \/ InteractiveLogin \/ Interrupt \/ Damage
  BY <1>3 DEF ManagedLogin, ManagedLoggedIn, InteractiveLogin, Interrupt, Damage,
     Login, LoginEnrolled, disk, fleet, history
<1>4. CASE \/ \E s \in Sites, i \in Installs : Revoke(s, i)
           \/ \E t \in Closable : CloseToken(t)
           \/ UNCHANGED vars
  BY <1>4 DEF Revoke, CloseToken, disk, history, vars
<1> QED BY <1>1, <1>2, <1>3, <1>4 DEF Next

(* A step that accepts no request, and that keeps every request it does    *)
(* not forsake or commit, keeps what was accepted resumable.               *)
LEMMA StillHeld ==
    ASSUME TypeOK, Resumable, [Next]_vars,
           \A s \in Sites, i \in Installs : server'[s][i].status = "active" =>
               /\ server[s][i].status = "active"
               /\ server'[s][i].body = server[s][i].body,
           \A b \in Held : \/ b.install = 0
                           \/ b.install \in committed' \cup forsaken'
                           \/ \E c \in Held' : c.install = b.install /\ c.key = b.key
    PROVE  Resumable'
<1> SUFFICES ASSUME NEW s \in Sites, NEW i \in Installs, i \notin committed' \cup forsaken',
                    server'[s][i].status = "active"
             PROVE  \E c \in Held' : c.install = i /\ c.key = server'[s][i].body.key
  BY DEF Resumable, Held
<1>1. i \notin committed \cup forsaken /\ i # 0
  BY RequestsWritten, NoBodyFacts
<1>2. PICK b \in Held : b.install = i /\ b.key = server[s][i].body.key
  BY <1>1 DEF Resumable, Held
<1> QED BY <1>1, <1>2

(* An accepted request can be sent again. *)
LEMMA ResumableKept == IInv /\ [Next]_vars => Resumable'
<1> SUFFICES ASSUME IInv, [Next]_vars PROVE Resumable'
  OBVIOUS
<1>t. TypeOK /\ Resumable /\ FirstInv /\ AgainInv /\ AttemptInv
  BY DEF IInv
<1>u. UNCHANGED <<attempt, pending>> => Held' = Held
  BY DEF Held
<1>1. CASE UNCHANGED <<attempt, pending, server>>
  BY <1>1, <1>t, <1>u, StillHeld
<1>2. CASE UNCHANGED <<attempt, pending>> /\ \E s \in Sites, i \in Installs : Revoke(s, i)
  <2>1. PICK s \in Sites, i \in Installs : Revoke(s, i)
    BY <1>2
  <2>2. \A z \in Sites, j \in Installs : server'[z][j].status = "active" =>
            server'[z][j] = server[z][j]
    <3> SUFFICES ASSUME NEW z \in Sites, NEW j \in Installs, server'[z][j].status = "active"
                 PROVE  server'[z][j] = server[z][j]
      OBVIOUS
    <3>1. server[s][i] \in Records
      BY <1>t DEF TypeOK
    <3>2. [server[s][i] EXCEPT !.status = "revoked"].status = "revoked"
      BY <3>1 DEF Records
    <3> QED BY <1>t, <2>1, <3>2 DEF Revoke, TypeOK
  <2> QED BY <1>2, <1>t, <1>u, <2>2, StillHeld
<1>3. CASE Drops
  <2>1. \A b \in Held : b.install = 0 \/ b.install \in committed' \cup forsaken' \/ b \in Held'
    <3>1. attempt # NoBody => attempt.install \in committed'
      BY <1>3, <1>t DEF Drops, AttemptInv
    <3> QED BY <1>3, <3>1, NoBodyFacts DEF Drops, Held
  <2> QED BY <1>3, <1>t, <2>1, StillHeld DEF Drops
<1>4. CASE ManagedAttempt
  <2>1. UNCHANGED <<pending, server>>
    BY <1>4 DEF ManagedAttempt, fleet
  <2>2. attempt.install = 0 \/ (attempt'.install = attempt.install /\ attempt'.key = attempt.key)
    BY <1>4, <1>t, NoBodyFacts DEF ManagedAttempt, TypeOK, Bodies
  <2>3. \A b \in Held : b.install = 0 \/ \E c \in Held' : c.install = b.install /\ c.key = b.key
    BY <2>1, <2>2 DEF Held
  <2> QED BY <1>t, <2>1, <2>3, StillHeld
<1>5. CASE Send
  <2>0. At("send") /\ login.body \in Bodies
    BY <1>5, Kinds, <1>t DEF Send, At, TypeOK, Requested
  <2>1. Held' = Held
    BY <1>5, <1>u DEF Send, disk
  <2> SUFFICES ASSUME NEW s \in Sites, NEW i \in Installs, i \notin committed' \cup forsaken',
                      server'[s][i].status = "active"
               PROVE  \E c \in Held : c.install = i /\ c.key = server'[s][i].body.key
    BY <2>1 DEF Resumable, Held
  <2>2. i \notin committed \cup forsaken
    BY RequestsWritten
  <2>3. CASE server'[s][i] = server[s][i]
    BY <1>t, <2>2, <2>3 DEF Resumable, Held
  <2>4. CASE server'[s][i] # server[s][i]
    <3>1. i = login.body.install /\ server'[s][i].body = login.body
      BY <1>5, <1>t, <2>0, <2>4, BodyFacts DEF Send, Enroll, TypeOK
    <3>2. login.kind \in {"managed", "again"}
      BY <1>5, <2>0, <3>1, Kinds DEF Send, At
    <3>3. login.body \in Held
      <4>1. CASE login.kind = "managed"
        BY <1>t, <2>0, <4>1 DEF FirstInv, At, Held
      <4>2. CASE login.kind = "again"
        BY <1>t, <2>0, <4>2 DEF AgainInv, At, Held, Requested
      <4> QED BY <3>2, <4>1, <4>2
    <3> QED BY <3>1, <3>3
  <2> QED BY <2>3, <2>4
<1>6. ASSUME UNCHANGED <<attempt, server>>, NEW o \in Installs,
             \A p \in Installs \ {o} : pending'[p] = pending[p],
             \/ pending[o].install \in committed' \cup forsaken' \cup {0}
             \/ pending'[o].install = pending[o].install /\ pending'[o].key = pending[o].key
      PROVE  Resumable'
  <2>1. \A b \in Held : \/ b.install = 0
                        \/ b.install \in committed' \cup forsaken'
                        \/ \E c \in Held' : c.install = b.install /\ c.key = b.key
    BY <1>6 DEF Held
  <2> QED BY <1>6, <1>t, <2>1, StillHeld
<1>7. CASE PendingRequest /\ ~UNCHANGED pending
  <2>0. login.old \in Installs
    BY <1>7, <1>t, Kinds DEF PendingRequest, At, AgainInv
  <2>1. \A p \in Installs \ {login.old} : pending'[p] = pending[p]
    BY <1>7, <1>t, <2>0 DEF PendingRequest, SavePending, Old, TypeOK
  <2>2. pending[login.old].install \in forsaken' \cup {0}
    BY <1>7, NoBodyFacts DEF PendingRequest, Old
  <2>3. UNCHANGED <<attempt, server>>
    BY <1>7 DEF PendingRequest, fleet
  <2> QED BY <1>6, <2>0, <2>1, <2>2, <2>3
<1>8. CASE AnsweredAgain /\ ~UNCHANGED pending
  <2>0. /\ login.old \in Installs /\ login.body \in Bodies
        /\ pending[login.old] = login.body
    BY <1>8, <1>t, Kinds DEF AnsweredAgain, Answered, At, AgainInv, Requested
  <2>1. \A p \in Installs \ {login.old} : pending'[p] = pending[p]
    BY <1>8, <1>t, <2>0 DEF AnsweredAgain, SavePending, Old, TypeOK
  <2>2. pending'[login.old] \in {[login.body EXCEPT !.as = "grant"],
                                 [login.body EXCEPT !.tok = login.tok, !.as = "invite"]}
    BY <1>8, <1>t, <2>0 DEF AnsweredAgain, SavePending, Old, TypeOK
  <2>3. /\ pending'[login.old].install = pending[login.old].install
        /\ pending'[login.old].key = pending[login.old].key
    BY <2>0, <2>2 DEF Bodies
  <2>4. UNCHANGED <<attempt, server>>
    BY <1>8 DEF AnsweredAgain, fleet
  <2> QED BY <1>6, <2>0, <2>1, <2>3, <2>4
<1>9. CASE RemovePendingFile /\ ~UNCHANGED pending
  <2>0. login.old \in Installs /\ login.kind = "again" /\ login.pc \in {"sweep", "clean"}
    BY <1>9, <1>t, Kinds DEF RemovePendingFile, At, AgainInv
  <2>1. \A p \in Installs \ {login.old} : pending'[p] = pending[p]
    BY <1>9, <1>t, <2>0 DEF RemovePendingFile, SavePending, Old, TypeOK
  <2>2. pending[login.old].install \in committed \cup forsaken
    BY <1>9, <1>t, <2>0 DEF RemovePendingFile, Old, AgainInv
  <2>3. UNCHANGED <<attempt, server>>
    BY <1>9 DEF RemovePendingFile, fleet
  <2> QED BY <1>6, <2>0, <2>1, <2>2, <2>3, RequestsWritten
<1>10. CASE UNCHANGED <<attempt, pending>>
  BY <1>1, <1>2, <1>5, <1>10, RequestsWritten
<1>11. CASE UNCHANGED attempt /\ ~UNCHANGED pending
  BY <1>7, <1>8, <1>9, <1>11, RequestsWritten
<1> QED BY <1>3, <1>4, <1>10, <1>11, AttemptWritten

-----------------------------------------------------------------------------
(* The theorems. *)

(* A fresh machine satisfies the invariant. *)
LEMMA InitHolds == Init => IInv
<1> SUFFICES ASSUME Init PROVE IInv
  OBVIOUS
<1>1. TypeOK
  BY InitTypes
<1>2. IdleInv /\ FirstInv /\ AgainInv
  BY IdleFacts DEF Init, IdleInv, FirstInv, AgainInv
<1>3. ArchiveInv /\ AttemptInv /\ OneUnit
  BY DEF Init, ArchiveInv, AttemptInv, OneUnit
<1>4. Resumable
  BY DEF Init, Resumable, NoRecord
<1>5. CacheIsOwn
  BY DEF Init, CacheIsOwn
<1> QED BY <1>1, <1>2, <1>3, <1>4, <1>5 DEF IInv

(* Every step of a login, of a client and of an administrator, and every   *)
(* interruption, keeps the invariant.                                      *)
THEOREM CredentialsInductive == Spec => []IInv
<1>1. IInv /\ [Next]_vars => IInv'
  BY TypesKept, FirstKept, AgainKept, ArchiveKept, AttemptKept, OneUnitKept,
     ResumableKept, CacheKept DEF IInv
<1> QED BY <1>1, InitHolds, PTL DEF Spec

(* The files of the state directory agree, wherever login, reenroll or the *)
(* process was interrupted: no identity that was enrolled is lost, no      *)
(* install collects under another's, an accepted request can be sent       *)
(* again, and no install runs on its predecessor's configuration.          *)
THEOREM FilesAlwaysAgree == Spec => []FilesAgree
<1>1. IInv => FilesAgree
  BY KeptFromArchive DEF IInv, FilesAgree
<1> QED BY <1>1, CredentialsInductive, PTL

(* Only a new enrollment lifts a stop, or the late record of a client that *)
(* was replaced.                                                           *)
THEOREM StopAlwaysHolds == Spec => StopHolds
<1>1. TypeOK /\ [Next]_vars =>
         [ Stopped /\ ~Stopped' =>
             \/ enrollment' # enrollment
             \/ \E r \in Runtimes : /\ runtime[r].pc = "refused"
                                    /\ runtime[r].enr # enrollment ]_vars
  BY StopStep DEF Superseding
<1>2. IInv => TypeOK
  BY DEF IInv
<1> QED BY <1>1, <1>2, CredentialsInductive, PTL DEF Spec, StopHolds
=============================================================================
