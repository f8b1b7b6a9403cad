------------------------ MODULE UploadTicketsProofs ------------------------
(***************************************************************************)
(* Proofs about UploadTickets, for any objects, groups, contents, clocks,  *)
(* limits and bounds.                                                      *)
(***************************************************************************)
EXTENDS UploadTickets, SequenceTheorems, TLAPS

-----------------------------------------------------------------------------
(* The inductive invariant. *)

(* A round's objects are objects of the group, and each has a digest on    *)
(* offer.                                                                  *)
BatchInv ==
    /\ ToSet(batch) \subseteq ToSet(group)
    /\ \A o \in ToSet(group) : offer[o] \in Digests
    /\ round = 1 => ToSet(batch) = ToSet(group)

(* A PUT belongs to an object of the round that has no verdict yet; once   *)
(* its bytes leave, its ticket has been held against the object.           *)
PutInv ==
    \A o \in Objects :
       /\ put[o].pc # "none" => stage = "sending" /\ InBatch(o) /\ outcome[o] = "none"
       /\ o \in Sending => ValidTicket(o, put[o].ticket)
       /\ put[o].pc = "landed" => Stored(o)

(* The current version is one of the versions kept, and whatever may still *)
(* land is under its own key with its own hashes.                          *)
BucketInv ==
    /\ StoredUnderOwnKey
    /\ \A k \in Objects : bucket[k].label # NoDigest =>
          \E v \in bucket[k].all : v.label = bucket[k].label
    /\ \A x \in late : x.version.obj = x.key /\ x.version.label = x.version.body

(* What the plane found stored is stored; a truthful answer says present   *)
(* only of that.                                                           *)
CallInv ==
    /\ ~Calling => call = NoCall
    /\ \A o \in call.held : Stored(o)
    /\ ~misled => \A t \in call.tickets :
          t.present => t.id \in DOMAIN batch /\ batch[t.id] \in call.held

(* The last moment at which the install was, as far as is known, active.   *)
Reach == IF status = "revoked" THEN revokedAt ELSE clock

(* Every ticket was signed within a call that was authenticated while the  *)
(* install was active, and every PUT was accepted before its ticket        *)
(* expired.                                                                *)
TimeInv ==
    /\ revokedAt <= clock /\ call.posted <= clock
    /\ stage \in {"authenticated", "validated", "answered"} => call.posted <= Reach
    /\ stage \in {"validated", "answered"} => call.signedAt <= Reach + CallTimeout
    /\ \A t \in call.tickets : t.expires <= Reach + CallTimeout + Lifetime
    /\ \A o \in Objects :
          /\ put[o].ticket.expires <= Reach + CallTimeout + Lifetime
          /\ put[o].pc = "sending" => put[o].began <= clock
          /\ put[o].pc = "accepted" => put[o].began <= put[o].ticket.expires
    /\ \A x \in late : /\ clock <= x.until
                       /\ x.until <= Reach + CallTimeout + Lifetime + PutTimeout

Final == {"shipped", "present", "failed"}

(* A round ends with one verdict for all of its objects or with verdicts   *)
(* of their own; an object the second round leaves out has a final one.    *)
RoundInv ==
    /\ \/ \E v \in {"refused", "unavailable"} : \A o \in ToSet(batch) : outcome[o] = v
       \/ \A o \in ToSet(batch) : outcome[o] \in Final \cup {"none", "expired"}
    /\ \A o \in ToSet(group) \ ToSet(batch) : outcome[o] \in Final
    /\ stage = "idle" => \A o \in ToSet(batch) : outcome[o] # "none"

IInv ==
    /\ TypeOK /\ BatchInv /\ PutInv /\ BucketInv /\ CallInv
    /\ SuccessMeansStored /\ RefusedMeansRevoked /\ TimeInv /\ RoundInv

-----------------------------------------------------------------------------
(* Operators. *)

(* The smaller of two numbers. *)
LEMMA MinOfTwo ==
    ASSUME NEW a \in Int, NEW b \in Int
    PROVE  Min({a, b}) \in {a, b} /\ Min({a, b}) <= a /\ Min({a, b}) <= b
<1>1. \E x \in {a, b} : \A y \in {a, b} : x <= y
  BY SMT
<1> QED
  BY <1>1 DEF Min

(* A sequence of objects lists objects. *)
LEMMA ToSetType ==
    ASSUME NEW s \in Seq(Objects)
    PROVE  ToSet(s) \subseteq Objects /\ \A i \in DOMAIN s : s[i] \in ToSet(s)
BY DEF ToSet

(* The empty values have their types. *)
LEMMA NoCallType == NoCall \in Calls
BY DEF NoCall, Calls

(* So has the absent PUT, with its placeholder ticket. *)
LEMMA NoPutType == \A o \in Objects : NoPut \in Puts
<1> SUFFICES ASSUME NEW o \in Objects PROVE NoPut \in Puts
  OBVIOUS
<1>1. (CHOOSE k \in Objects : TRUE) \in Objects
  OBVIOUS
<1>2. NoTicket \in Tickets
  BY <1>1 DEF NoTicket, Tickets
<1> QED
  BY <1>2 DEF NoPut, Puts

(* Renumbering gives a batch of exactly the objects it was given. *)
LEMMA RenumberedType ==
    ASSUME TypeOK, NEW s \in SUBSET Objects, NEW b \in Renumbered(s)
    PROVE  b \in Seq(Objects) /\ ToSet(b) = s
<1>1. Len(batch) \in Nat
  BY DEF TypeOK
<1>2. PICK n \in 0..Len(batch) : b \in [1..n -> s]
  BY <1>1 DEF Renumbered, BoundedSeq, SeqOf
<1>3. b \in Seq(Objects)
  BY <1>1, <1>2
<1> QED
  BY <1>3 DEF Renumbered

(* A fault is counted within its bound. *)
LEMMA FaultType ==
    ASSUME TypeOK, Fault
    PROVE  faults' \in 0..MaxFaults
BY TicketAssumption DEF TypeOK, Fault

(* One verdict for the round. *)
LEMMA WholeType ==
    ASSUME TypeOK, NEW v \in Verdicts, Whole(v)
    PROVE  outcome' \in [Objects -> Verdicts] /\ stage' = "sending" /\ call' = NoCall
           /\ call' \in Calls /\ call'.held \subseteq call'.asked
<1>1. NoCall.held = {}
  BY DEF NoCall
<1> QED
  BY <1>1, NoCallType DEF TypeOK, Whole

(* The tickets a truthful plane answers with. *)
LEMMA AnswerType ==
    ASSUME TypeOK
    PROVE  Answer \subseteq Tickets
<1> SUFFICES ASSUME NEW i \in DOMAIN batch
             PROVE  PutTicket(i) \in Tickets /\ PresentTicket(i) \in Tickets
  BY DEF Answer
<1>1. i \in Nat /\ batch[i] \in Objects
  BY DEF TypeOK
<1>2. offer[batch[i]] \in Digests \cup {NoDigest}
  BY <1>1 DEF TypeOK
<1>3. call.signedAt \in Nat
  BY DEF TypeOK, Calls
<1>4. call.signedAt + Lifetime \in Nat
  BY <1>3, TicketAssumption
<1> QED
  BY <1>1, <1>2, <1>4 DEF PutTicket, PresentTicket, Tickets

(* The bytes an object's PUT stores. *)
LEMMA VersionType ==
    ASSUME IInv, NEW o \in Sending
    PROVE  /\ Version(o) \in Versions
           /\ put[o].ticket.key = o
           /\ Version(o).obj = o /\ Version(o).label = Version(o).body
           /\ Version(o).body = offer[o]
<1>1. o \in Objects /\ put[o].pc # "none" /\ InBatch(o)
  BY DEF Sending, IInv, PutInv
<1>2. ValidTicket(o, put[o].ticket)
  BY DEF Sending, IInv, PutInv
<1>3. offer[o] \in Digests
  BY <1>1 DEF IInv, BatchInv, InBatch
<1> QED
  BY <1>1, <1>2, <1>3 DEF Version, Versions, ValidTicket

(* Until when bytes may land is a number. *)
LEMMA LingersType ==
    ASSUME TypeOK, NEW o \in Objects
    PROVE  /\ Lingers(o) \in Nat
           /\ put[o].began \in Nat /\ put[o].ticket.expires \in Nat
           /\ put[o].pc = "sending" => Lingers(o) <= put[o].ticket.expires
           /\ put[o].pc # "sending" => Lingers(o) = put[o].began + PutTimeout
<1>1. put[o].began \in Nat /\ put[o].ticket.expires \in Nat
  BY DEF TypeOK, Puts, Tickets
<1>2. PutTimeout \in Nat
  BY TicketAssumption
<1>3. CASE put[o].pc = "sending"
  <2> DEFINE a == put[o].began + PutTimeout
             b == put[o].ticket.expires
  <2>1. a \in Nat /\ b \in Nat /\ a \in Int /\ b \in Int
    BY <1>1, <1>2
  <2>2. Lingers(o) = Min({a, b})
    BY <1>3 DEF Lingers
  <2> HIDE DEF a, b
  <2>3. Min({a, b}) \in {a, b} /\ Min({a, b}) <= b
    BY <2>1, MinOfTwo
  <2>4. Lingers(o) \in Nat /\ Lingers(o) <= b
    BY <2>1, <2>2, <2>3
  <2> QED
    BY <1>1, <1>3, <2>4 DEF b
<1>4. CASE put[o].pc # "sending"
  BY <1>1, <1>2, <1>4 DEF Lingers
<1> QED
  BY <1>1, <1>3, <1>4

-----------------------------------------------------------------------------
(* Type correctness. *)

(* The initial state is well typed ... *)
LEMMA TypeInit == Init => TypeOK
<1> SUFFICES ASSUME Init PROVE TypeOK
  OBVIOUS
<1>1. clock \in 0..MaxClock /\ revokedAt \in 0..MaxClock /\ faults \in 0..MaxFaults
  BY TicketAssumption DEF Init
<1>2. put \in [Objects -> Puts]
  BY NoPutType DEF Init
<1>3. bucket \in [Objects -> Slots]
  BY DEF Init, Slots
<1>4. call \in Calls /\ call.held \subseteq call.asked
  BY NoCallType DEF Init, NoCall
<1>5. outcome \in [Objects -> Verdicts]
  BY DEF Init, Verdicts
<1>6. group \in Seq(Objects) /\ batch \in Seq(Objects)
  BY DEF Init
<1>7. offer \in [Objects -> Digests \cup {NoDigest}] /\ late = {}
  BY DEF Init
<1>8. round \in 1..2 /\ stage = "idle" /\ status = "active" /\ skew \in Skews
  BY DEF Init
<1>9. marker \in BOOLEAN /\ misled \in BOOLEAN
  BY Zenon DEF Init
<1> QED
  BY <1>1, <1>2, <1>3, <1>4, <1>5, <1>6, <1>7, <1>8, <1>9 DEF TypeOK

(* A version stored under a key leaves well-formed slots. *)
LEMMA StoreType ==
    ASSUME TypeOK, NEW k \in Objects, NEW v \in Versions, Store(k, v)
    PROVE  bucket' \in [Objects -> Slots]
<1>1. bucket[k].all \in SUBSET Versions
  BY DEF TypeOK, Slots
<1>2. v.label \in Digests
  BY DEF Versions
<1>3. [label |-> v.label, all |-> bucket[k].all \cup {v}] \in Slots
  BY <1>1, <1>2 DEF Slots
<1> QED
  BY <1>3 DEF TypeOK, Store

(* A concluded PUT is gone and its verdict recorded. *)
LEMMA ConcludeType ==
    ASSUME TypeOK, NEW o \in Objects, NEW v \in Verdicts, Conclude(o, v)
    PROVE  outcome' \in [Objects -> Verdicts] /\ put' \in [Objects -> Puts]
BY NoPutType DEF TypeOK, Conclude

(* ... and every action keeps it so. *)
LEMMA TypeStep == IInv /\ [Next]_vars => TypeOK'
<1> SUFFICES ASSUME IInv, [Next]_vars PROVE TypeOK'
  OBVIOUS
<1>0. TypeOK
  BY DEF IInv
<1> USE DEF world, job, attempt
<1>1. CASE UNCHANGED vars
  BY <1>0, <1>1 DEF TypeOK, vars
<1>2. CASE Tick
  <2>1. clock' \in 0..MaxClock
    BY <1>0, <1>2, TicketAssumption DEF Tick, TypeOK
  <2> QED
    BY <1>0, <1>2, <2>1 DEF Tick, TypeOK
<1>3. CASE Revoke
  BY <1>0, <1>3 DEF Revoke, TypeOK
<1>4. ASSUME NEW g \in Groups, SendBatch(g)
      PROVE  TypeOK'
  <2>1. g \in Seq(Objects)
    BY TicketAssumption
  <2>2. outcome' \in [Objects -> Verdicts]
    BY <1>4 DEF SendBatch, Verdicts
  <2>3. offer' \in [Objects -> Digests \cup {NoDigest}]
    BY <1>4 DEF SendBatch
  <2>4. group' = g /\ batch' = g /\ round' \in 1..2 /\ stage' = "start"
        /\ UNCHANGED <<world, marker, bucket, late, call, put, faults>>
    BY <1>4 DEF SendBatch
  <2>5. misled' \in BOOLEAN
    BY <1>4, Zenon DEF SendBatch
  <2> QED
    BY <1>0, <2>1, <2>2, <2>3, <2>4, <2>5 DEF TypeOK
<1>5. CASE Post
  <2>1. CASE marker
    BY <1>0, <1>5, <2>1, WholeType DEF Post, TypeOK, Verdicts
  <2>2. CASE ~marker
    <3>1. clock \in Nat /\ clock + skew \in Int
      BY <1>0, TicketAssumption DEF TypeOK
    <3>2. call' \in Calls /\ call'.held \subseteq call'.asked
      <4>1. call' = [issued |-> clock + skew, posted |-> clock, signedAt |-> 0,
                     asked |-> {}, held |-> {}, tickets |-> {}]
        BY <1>5, <2>2 DEF Post, NoCall
      <4> QED
        BY <3>1, <4>1 DEF Calls
    <3> QED
      BY <1>0, <1>5, <2>2, <3>2 DEF Post, TypeOK
  <2> QED
    BY <2>1, <2>2
<1>6. CASE AuthorizeTimesOut
  BY <1>0, <1>6, WholeType DEF AuthorizeTimesOut, TypeOK, Verdicts
<1>7. CASE AuthorizeFails
  <2>1. PICK v \in {"failed", "unavailable"} : Whole(v)
    BY <1>7 DEF AuthorizeFails
  <2>2. v \in Verdicts
    BY DEF Verdicts
  <2> QED
    BY <1>0, <1>7, <2>1, <2>2, WholeType, FaultType DEF AuthorizeFails, TypeOK
<1>8. CASE Authenticate
  <2>1. CASE status = "revoked"
    BY <1>0, <1>8, <2>1, WholeType DEF Authenticate, RecordRevocation, TypeOK, Verdicts
  <2>2. CASE status # "revoked"
    BY <1>0, <1>8, <2>2 DEF Authenticate, TypeOK
  <2> QED
    BY <2>1, <2>2
<1>9. CASE Validate
  <2>1. CASE Fresh /\ ToSet(batch) \cap Unservable = {}
    <3>1. clock \in Nat
      BY <1>0, TicketAssumption DEF TypeOK
    <3>2. call' \in Calls /\ call'.held \subseteq call'.asked
      BY <1>0, <1>9, <2>1, <3>1 DEF Validate, TypeOK, Calls
    <3> QED
      BY <1>0, <1>9, <2>1, <3>2 DEF Validate, TypeOK
  <2>2. CASE ~(Fresh /\ ToSet(batch) \cap Unservable = {})
    BY <1>0, <1>9, <2>2, WholeType DEF Validate, TypeOK, Verdicts
  <2> QED
    BY <2>1, <2>2
<1>10. ASSUME NEW o \in Objects, Probe(o)
       PROVE  TypeOK'
  <2>1. faults' \in 0..MaxFaults
    BY <1>0, <1>10, FaultType DEF Probe, TypeOK
  <2>2. call' \in Calls /\ call'.held \subseteq call'.asked
    <3>1. PICK h \in {call.held, call.held \cup {o}} :
             call' = [call EXCEPT !.asked = call.asked \cup {o}, !.held = h]
      BY <1>0, <1>10 DEF Probe, TypeOK, Calls
    <3>2. o \in Mirror /\ call.held \subseteq call.asked
      BY <1>0, <1>10 DEF Probe, TypeOK
    <3> QED
      BY <1>0, <3>1, <3>2 DEF TypeOK, Calls
  <2> QED
    BY <1>0, <1>10, <2>1, <2>2 DEF Probe, TypeOK
<1>11. CASE Authorize
  <2>1. call' \in Calls /\ call'.held \subseteq call'.asked
    BY <1>0, <1>11, AnswerType DEF Authorize, TypeOK, Calls
  <2> QED
    BY <1>0, <1>11, <2>1 DEF Authorize, TypeOK
<1>12. CASE Misanswer
  <2>1. PICK t \in Answer :
           \/ \E u \in Corrupted(t) \ {t} :
                 call' = [call EXCEPT !.tickets = (Answer \ {t}) \cup {u}]
           \/ call' = [call EXCEPT !.tickets = Answer \ {t}]
    BY <1>12 DEF Misanswer
  <2>2. t \in Tickets
    BY <1>0, AnswerType
  <2>3. \A u \in Corrupted(t) : u \in Tickets
    <3>1. ToSet(group) \subseteq Objects /\ Len(batch) \in Nat
      BY <1>0, ToSetType DEF TypeOK
    <3>2. \A i \in 0..Len(batch) : [t EXCEPT !.id = i] \in Tickets
      BY <2>2, <3>1 DEF Tickets
    <3>3. \A k \in ToSet(group) : [t EXCEPT !.key = k] \in Tickets
      BY <2>2, <3>1 DEF Tickets
    <3>4. \A d \in Digests : [t EXCEPT !.label = d] \in Tickets
      BY <2>2 DEF Tickets
    <3>5. [t EXCEPT !.sound = FALSE] \in Tickets
      BY <2>2 DEF Tickets
    <3>6. [t EXCEPT !.present = ~t.present] \in Tickets
      BY <2>2 DEF Tickets
    <3> QED
      BY <3>2, <3>3, <3>4, <3>5, <3>6 DEF Corrupted
  <2>4. call' \in Calls /\ call'.held \subseteq call'.asked
    BY <1>0, <2>1, <2>3, AnswerType DEF TypeOK, Calls
  <2> QED
    BY <1>0, <1>12, <2>4, FaultType DEF Misanswer, TypeOK
<1>13. CASE Receive
  <2>1. CASE ~WellFormed
    BY <1>0, <1>13, <2>1, WholeType DEF Receive, TypeOK, Verdicts
  <2>2. CASE WellFormed
    <3>1. \A o \in Objects : Settled(o) \in Verdicts
      BY DEF Settled, Verdicts
    <3>2. ASSUME NEW o \in Objects, Settled(o) = "none"
          PROVE  [pc |-> "waiting", began |-> 0,
                  ticket |-> CHOOSE t \in TicketFor(o) : TRUE] \in Puts
      <4>1. (CHOOSE t \in TicketFor(o) : TRUE) \in TicketFor(o)
        BY <3>2 DEF Settled
      <4>2. (CHOOSE t \in TicketFor(o) : TRUE) \in Tickets
        BY <1>0, <4>1 DEF TicketFor, TypeOK, Calls
      <4> QED
        BY <4>2 DEF Puts
    <3>3. put' \in [Objects -> Puts]
      BY <1>13, <2>2, <3>2, NoPutType DEF Receive
    <3>4. outcome' \in [Objects -> Verdicts]
      BY <1>0, <1>13, <2>2, <3>1 DEF Receive, TypeOK
    <3>5. call' \in Calls /\ call'.held \subseteq call'.asked
      <4>1. call' = NoCall /\ NoCall.held = {}
        BY <1>13, <2>2 DEF Receive, NoCall
      <4> QED
        BY <4>1, NoCallType
    <3> QED
      BY <1>0, <1>13, <2>2, <3>3, <3>4, <3>5 DEF Receive, TypeOK
  <2> QED
    BY <2>1, <2>2
<1>14. CASE EndRound
  <2>1. CASE round = 1 /\ Expired # {} /\ ToSet(group) \subseteq Mirror
    <3>1. Expired \subseteq Objects
      BY <1>0, ToSetType DEF Expired, TypeOK
    <3>2. batch' \in Seq(Objects)
      BY <1>0, <1>14, <2>1, <3>1, RenumberedType DEF EndRound
    <3>3. outcome' \in [Objects -> Verdicts]
      BY <1>0, <1>14, <2>1 DEF EndRound, TypeOK, Verdicts
    <3> QED
      BY <1>0, <1>14, <2>1, <3>2, <3>3 DEF EndRound, TypeOK
  <2>2. CASE ~(round = 1 /\ Expired # {} /\ ToSet(group) \subseteq Mirror)
    BY <1>0, <1>14, <2>2 DEF EndRound, TypeOK
  <2> QED
    BY <2>1, <2>2
<1>15. ASSUME NEW o \in Objects, Send(o)
       PROVE  TypeOK'
  <2>1. CASE ValidTicket(o, put[o].ticket)
    <3>1. clock \in Nat
      BY <1>0, TicketAssumption DEF TypeOK
    <3>2. put' \in [Objects -> Puts]
      <4>1. [put[o] EXCEPT !.pc = "sending", !.began = clock] \in Puts
        BY <1>0, <3>1 DEF TypeOK, Puts
      <4> QED
        BY <1>0, <1>15, <2>1, <4>1 DEF Send, TypeOK
    <3> QED
      BY <1>0, <1>15, <2>1, <3>2 DEF Send, TypeOK
  <2>2. CASE ~ValidTicket(o, put[o].ticket)
    BY <1>0, <1>15, <2>2, ConcludeType DEF Send, TypeOK, Verdicts
  <2> QED
    BY <2>1, <2>2
<1>16. ASSUME NEW o \in Objects, Accept(o)
       PROVE  TypeOK'
  <2>1. put' \in [Objects -> Puts]
    BY <1>0, <1>16 DEF Accept, TypeOK, Puts
  <2> QED
    BY <1>0, <1>16, <2>1 DEF Accept, TypeOK
<1>17. ASSUME NEW o \in Objects, Land(o)
       PROVE  TypeOK'
  <2>1. put' \in [Objects -> Puts]
    BY <1>0, <1>17 DEF Land, TypeOK, Puts
  <2>2. o \in Sending
    BY <1>17 DEF Land, Sending
  <2>3. Store(o, Version(o)) /\ Version(o) \in Versions
    BY <1>17, <2>2, VersionType DEF Land
  <2>4. bucket' \in [Objects -> Slots]
    BY <1>0, <2>3, StoreType
  <2> QED
    BY <1>0, <1>17, <2>1, <2>4 DEF Land, TypeOK
<1>18. ASSUME NEW o \in Objects, Confirm(o)
       PROVE  TypeOK'
  BY <1>0, <1>18, ConcludeType DEF Confirm, TypeOK, Verdicts
<1>19. ASSUME NEW o \in Objects, PutRefused(o)
       PROVE  TypeOK'
  <2>1. faults' \in 0..MaxFaults
    BY <1>0, <1>19, FaultType DEF PutRefused, TypeOK
  <2>2. outcome' \in [Objects -> Verdicts] /\ put' \in [Objects -> Puts]
    BY <1>0, <1>19, ConcludeType DEF PutRefused, Verdicts
  <2> QED
    BY <1>0, <1>19, <2>1, <2>2 DEF PutRefused, TypeOK
<1>20. ASSUME NEW o \in Objects, PutFails(o)
       PROVE  TypeOK'
  <2>1. faults' \in 0..MaxFaults
    BY <1>0, <1>20, FaultType DEF PutFails, GivesUp, TypeOK
  <2>2. outcome' \in [Objects -> Verdicts] /\ put' \in [Objects -> Puts]
    BY <1>0, <1>20, ConcludeType DEF PutFails, Verdicts
  <2>3. late' \subseteq [key : Objects, version : Versions, until : Nat]
    <3>1. Version(o) \in Versions /\ put[o].ticket.key = o
      BY <1>20, VersionType DEF PutFails
    <3>2. Lingers(o) \in Nat
      BY <1>0, LingersType
    <3> QED
      BY <1>0, <1>20, <3>1, <3>2 DEF PutFails, TypeOK
  <2> QED
    BY <1>0, <1>20, <2>1, <2>2, <2>3 DEF PutFails, TypeOK
<1>21. ASSUME NEW x \in late, LateLands(x)
       PROVE  TypeOK'
  <2>1. x.key \in Objects /\ x.version \in Versions
    BY <1>0 DEF TypeOK
  <2>2. bucket' \in [Objects -> Slots]
    BY <1>0, <1>21, <2>1, StoreType DEF LateLands
  <2> QED
    BY <1>0, <1>21, <2>2 DEF LateLands, TypeOK
<1> QED
  BY <1>1, <1>2, <1>3, <1>4, <1>5, <1>6, <1>7, <1>8, <1>9, <1>10, <1>11, <1>12,
     <1>13, <1>14, <1>15, <1>16, <1>17, <1>18, <1>19, <1>20, <1>21
     DEF Next, PutStep

-----------------------------------------------------------------------------
(* What a step may move. *)

(* Only a new group and the end of a round move the group, its offer and   *)
(* its batch.                                                              *)
LEMMA JobMoves ==
    ASSUME [Next]_vars
    PROVE  UNCHANGED job \/ (\E g \in Groups : SendBatch(g)) \/ EndRound
BY DEF Next, vars, world, job, attempt, PutStep, Tick, Revoke, Post,
       AuthorizeTimesOut, AuthorizeFails, Authenticate, Validate, Authorize,
       Misanswer, Receive, Probe, Send, Accept, Land, Confirm, PutRefused,
       PutFails, LateLands

(* Only a PUT that lands moves the bucket, and what lands has its own key  *)
(* and its own hashes.                                                     *)
LEMMA BucketMoves ==
    ASSUME IInv, [Next]_vars
    PROVE  \/ UNCHANGED bucket
           \/ \E k \in Objects, v \in Versions :
                 Store(k, v) /\ v.obj = k /\ v.label = v.body
<1>1. \/ UNCHANGED bucket
      \/ \E o \in Objects : Land(o)
      \/ \E x \in late : LateLands(x)
  BY DEF Next, vars, world, job, attempt, PutStep, Tick, Revoke, SendBatch, Post,
         AuthorizeTimesOut, AuthorizeFails, Authenticate, Validate, Authorize,
         Misanswer, Receive, EndRound, Probe, Send, Accept, Confirm, PutRefused,
         PutFails
<1>2. ASSUME NEW o \in Objects, Land(o)
      PROVE  \E k \in Objects, v \in Versions :
                 Store(k, v) /\ v.obj = k /\ v.label = v.body
  <2>1. o \in Sending
    BY <1>2 DEF Land, Sending
  <2>2. Store(o, Version(o))
    BY <1>2, <2>1, VersionType DEF Land
  <2> QED
    BY <2>1, <2>2, VersionType
<1>3. ASSUME NEW x \in late, LateLands(x)
      PROVE  \E k \in Objects, v \in Versions :
                 Store(k, v) /\ v.obj = k /\ v.label = v.body
  <2>1. x.key \in Objects /\ x.version \in Versions
    BY DEF IInv, TypeOK
  <2>2. x.version.obj = x.key /\ x.version.label = x.version.body
    BY DEF IInv, BucketInv
  <2> QED
    BY <1>3, <2>1, <2>2 DEF LateLands
<1> QED
  BY <1>1, <1>2, <1>3

(* What is stored stays stored. *)
LEMMA StoredKept ==
    ASSUME IInv, [Next]_vars, UNCHANGED offer, NEW o \in Objects, Stored(o)
    PROVE  Stored(o)'
<1>1. CASE UNCHANGED bucket
  BY <1>1 DEF Stored
<1>2. ASSUME NEW k \in Objects, NEW v \in Versions, Store(k, v)
      PROVE  Stored(o)'
  <2>1. bucket \in [Objects -> Slots]
    BY DEF IInv, TypeOK
  <2>2. bucket[o].all \subseteq bucket'[o].all
    BY <1>2, <2>1 DEF Store
  <2> QED
    BY <2>2 DEF Stored
<1> QED
  BY <1>1, <1>2, BucketMoves

-----------------------------------------------------------------------------
(* The parts of the invariant, one after another. *)

(* A second round takes its batch from the first. *)
LEMMA BatchStep == IInv /\ [Next]_vars => BatchInv'
<1> SUFFICES ASSUME IInv, [Next]_vars PROVE BatchInv'
  OBVIOUS
<1>0. TypeOK /\ BatchInv
  BY DEF IInv
<1>1. CASE UNCHANGED job
  BY <1>0, <1>1 DEF BatchInv, job
<1>2. ASSUME NEW g \in Groups, SendBatch(g)
      PROVE  BatchInv'
  <2>1. \A o \in ToSet(g) : o \in Objects
    BY TicketAssumption, ToSetType
  <2>2. \A o \in ToSet(g) : offer'[o] \in Contents[o]
    BY <1>2, <2>1 DEF SendBatch
  <2>3. \A o \in ToSet(g) : offer'[o] \in Digests
    BY <2>1, <2>2, TicketAssumption
  <2> QED
    BY <1>2, <2>3 DEF SendBatch, BatchInv
<1>3. CASE EndRound
  <2>1. CASE round = 1 /\ Expired # {} /\ ToSet(group) \subseteq Mirror
    <3>1. Expired \subseteq Objects /\ Expired \subseteq ToSet(batch)
      BY <1>0, ToSetType DEF Expired, TypeOK
    <3>2. ToSet(batch') = Expired
      BY <1>0, <1>3, <2>1, <3>1, RenumberedType DEF EndRound
    <3> QED
      BY <1>0, <1>3, <2>1, <3>1, <3>2 DEF EndRound, BatchInv
  <2>2. CASE ~(round = 1 /\ Expired # {} /\ ToSet(group) \subseteq Mirror)
    BY <1>0, <1>3, <2>2 DEF EndRound, BatchInv
  <2> QED
    BY <2>1, <2>2
<1> QED
  BY <1>1, <1>2, <1>3, JobMoves

(* Nothing lands that was not held against its object. *)
LEMMA BucketStep == IInv /\ [Next]_vars => BucketInv'
<1> SUFFICES ASSUME IInv, [Next]_vars PROVE BucketInv'
  OBVIOUS
<1>0. BucketInv /\ bucket \in [Objects -> Slots]
  BY DEF IInv, TypeOK
<1>1. /\ StoredUnderOwnKey'
      /\ \A k \in Objects : bucket'[k].label # NoDigest =>
            \E v \in bucket'[k].all : v.label = bucket'[k].label
  <2>1. CASE UNCHANGED bucket
    BY <1>0, <2>1 DEF BucketInv, StoredUnderOwnKey
  <2>2. ASSUME NEW k \in Objects, NEW v \in Versions, Store(k, v),
               v.obj = k, v.label = v.body
        PROVE  /\ StoredUnderOwnKey'
               /\ \A q \in Objects : bucket'[q].label # NoDigest =>
                    \E w \in bucket'[q].all : w.label = bucket'[q].label
    <3>1. bucket'[k] = [label |-> v.label, all |-> bucket[k].all \cup {v}]
      BY <1>0, <2>2 DEF Store
    <3>2. \A q \in Objects : q # k => bucket'[q] = bucket[q]
      BY <1>0, <2>2 DEF Store
    <3>3. StoredUnderOwnKey'
      BY <1>0, <2>2, <3>1, <3>2 DEF BucketInv, StoredUnderOwnKey
    <3>4. \A q \in Objects : bucket'[q].label # NoDigest =>
             \E w \in bucket'[q].all : w.label = bucket'[q].label
      BY <1>0, <3>1, <3>2 DEF BucketInv
    <3> QED
      BY <3>3, <3>4
  <2> QED
    BY <2>1, <2>2, BucketMoves
<1>2. \A x \in late' : x.version.obj = x.key /\ x.version.label = x.version.body
  <2>1. late' \subseteq late \/ \E o \in Objects : PutFails(o)
    BY DEF Next, vars, world, job, attempt, PutStep, Tick, Revoke, SendBatch, Post,
           AuthorizeTimesOut, AuthorizeFails, Authenticate, Validate, Authorize,
           Misanswer, Receive, EndRound, Probe, Send, Accept, Land, Confirm,
           PutRefused, LateLands
  <2>2. ASSUME NEW o \in Objects, PutFails(o)
        PROVE  \A x \in late' : x.version.obj = x.key /\ x.version.label = x.version.body
    <3>1. /\ put[o].ticket.key = o /\ Version(o).obj = o
          /\ Version(o).label = Version(o).body
      BY <2>2, VersionType DEF PutFails
    <3> HIDE DEF Version
    <3> QED
      BY <1>0, <2>2, <3>1 DEF PutFails, BucketInv
  <2> QED
    BY <1>0, <2>1, <2>2 DEF BucketInv
<1> QED
  BY <1>1, <1>2 DEF BucketInv

(* Landed bytes are stored. *)
LEMMA LandStores ==
    ASSUME IInv, NEW o \in Objects, Land(o)
    PROVE  Stored(o)'
<1>1. o \in Sending
  BY DEF Land, Sending
<1>2. Store(o, Version(o)) /\ Version(o).body = offer[o]
  BY <1>1, VersionType DEF Land
<1>3. bucket \in [Objects -> Slots]
  BY DEF IInv, TypeOK
<1>4. Version(o) \in bucket'[o].all
  BY <1>2, <1>3 DEF Store
<1>5. offer' = offer
  BY DEF Land, job
<1> QED
  BY <1>2, <1>4, <1>5 DEF Stored

(* A PUT is validated before its bytes leave, and over with its verdict.    *)
LEMMA PutInvStep == IInv /\ [Next]_vars => PutInv'
<1> SUFFICES ASSUME IInv, [Next]_vars PROVE PutInv'
  OBVIOUS
<1>0. TypeOK /\ PutInv
  BY DEF IInv
<1> USE DEF world, job, attempt
<1>a. ASSUME \A o \in Objects : put'[o].pc = "none"
      PROVE  PutInv'
  BY <1>a DEF PutInv, Sending
<1>b. ASSUME UNCHANGED <<put, stage, job, outcome>>
      PROVE  PutInv'
  <2> SUFFICES ASSUME NEW o \in Objects
               PROVE  /\ put[o].pc # "none" => stage = "sending" /\ InBatch(o)
                                               /\ outcome[o] = "none"
                      /\ o \in Sending => ValidTicket(o, put[o].ticket)
                      /\ put[o].pc = "landed" => Stored(o)'
    BY <1>b DEF PutInv, InBatch, Sending, ValidTicket
  <2> QED
    BY <1>0, <1>b, StoredKept DEF PutInv
<1>c. ASSUME stage # "sending", UNCHANGED put
      PROVE  PutInv'
  BY <1>0, <1>a, <1>c DEF PutInv
<1>1. CASE UNCHANGED vars
  BY <1>1, <1>b DEF vars
<1>2. CASE Tick
  BY <1>2, <1>b DEF Tick
<1>3. CASE Revoke
  BY <1>3, <1>b DEF Revoke
<1>4. ASSUME NEW g \in Groups, SendBatch(g)
      PROVE  PutInv'
  BY <1>4, <1>c DEF SendBatch
<1>5. CASE Post
  BY <1>5, <1>c DEF Post
<1>6. CASE AuthorizeTimesOut \/ AuthorizeFails
  BY <1>6, <1>c DEF AuthorizeTimesOut, AuthorizeFails, Calling
<1>7. CASE Authenticate \/ Validate
  BY <1>7, <1>c DEF Authenticate, Validate
<1>8. ASSUME NEW o \in Objects, Probe(o)
      PROVE  PutInv'
  BY <1>8, <1>c DEF Probe
<1>9. CASE Authorize \/ Misanswer
  BY <1>9, <1>c DEF Authorize, Misanswer, Probed
<1>10. CASE Receive
  <2>1. CASE ~WellFormed
    BY <1>10, <2>1, <1>c DEF Receive
  <2>2. CASE WellFormed
    <3> SUFFICES ASSUME NEW o \in Objects
                 PROVE  /\ put'[o].pc # "none" => stage' = "sending" /\ InBatch(o)'
                                                  /\ outcome'[o] = "none"
                        /\ put'[o].pc \in {"none", "waiting"}
      BY DEF PutInv, Sending
    <3>1. put'[o] = IF InBatch(o) /\ Settled(o) = "none"
                    THEN [pc |-> "waiting", began |-> 0,
                          ticket |-> CHOOSE t \in TicketFor(o) : TRUE]
                    ELSE NoPut
      BY <1>10, <2>2 DEF Receive
    <3>2. outcome'[o] = IF InBatch(o) THEN Settled(o) ELSE outcome[o]
      BY <1>10, <2>2 DEF Receive
    <3>3. stage' = "sending" /\ InBatch(o)' = InBatch(o)
      BY <1>10, <2>2 DEF Receive, InBatch
    <3> QED
      BY <3>1, <3>2, <3>3 DEF NoPut
  <2> QED
    BY <2>1, <2>2
<1>11. CASE EndRound
  <2>1. \A o \in Objects : put[o].pc = "none"
    BY <1>0, <1>11 DEF EndRound, RoundOver, PutInv, InBatch
  <2> QED
    BY <1>11, <1>a, <2>1 DEF EndRound
<1>d. ASSUME NEW o \in Objects, UNCHANGED <<stage, job>>,
             \A q \in Objects : q # o => put'[q] = put[q] /\ outcome'[q] = outcome[q],
             \/ put'[o].pc = "none"
             \/ /\ put'[o].pc \in {"sending", "accepted", "landed"}
                /\ put[o].pc # "none" /\ outcome'[o] = outcome[o]
                /\ ValidTicket(o, put'[o].ticket)
                /\ put'[o].pc = "landed" => Stored(o)'
      PROVE  PutInv'
  <2> SUFFICES ASSUME NEW q \in Objects
               PROVE  /\ put'[q].pc # "none" => stage = "sending" /\ InBatch(q)
                                                /\ outcome'[q] = "none"
                      /\ put'[q].pc \in {"sending", "accepted", "landed"} =>
                            ValidTicket(q, put'[q].ticket)
                      /\ put'[q].pc = "landed" => Stored(q)'
    BY <1>d DEF PutInv, InBatch, Sending, ValidTicket
  <2>1. CASE q # o
    <3>1. put'[q] = put[q] /\ outcome'[q] = outcome[q]
      BY <1>d, <2>1
    <3> QED
      BY <1>0, <1>d, <3>1, StoredKept DEF PutInv, Sending
  <2>2. CASE q = o
    BY <1>0, <1>d, <2>2 DEF PutInv
  <2> QED
    BY <2>1, <2>2
<1>e. ASSUME NEW o \in Objects, NEW v, Conclude(o, v), UNCHANGED <<stage, job>>
      PROVE  PutInv'
  <2>1. \A q \in Objects : q # o => put'[q] = put[q] /\ outcome'[q] = outcome[q]
    BY <1>0, <1>e DEF Conclude, TypeOK
  <2>2. put'[o].pc = "none"
    BY <1>0, <1>e DEF Conclude, TypeOK, NoPut
  <2> QED
    BY <1>d, <1>e, <2>1, <2>2
<1>12. ASSUME NEW o \in Objects, Send(o)
       PROVE  PutInv'
  <2>1. CASE ValidTicket(o, put[o].ticket)
    <3>1. /\ put'[o].pc = "sending" /\ put'[o].ticket = put[o].ticket
          /\ put[o].pc # "none"
          /\ \A q \in Objects : q # o => put'[q] = put[q]
      <4>1. /\ put' = [put EXCEPT ![o] = [put[o] EXCEPT !.pc = "sending",
                                                       !.began = clock]]
            /\ put[o].pc = "waiting"
        BY <1>12, <2>1 DEF Send
      <4>2. put[o] \in Puts /\ o \in DOMAIN put
        BY <1>0 DEF TypeOK
      <4>3. put'[o] = [put[o] EXCEPT !.pc = "sending", !.began = clock]
        BY <4>1, <4>2
      <4>4. put'[o].pc = "sending" /\ put'[o].ticket = put[o].ticket
        BY <4>2, <4>3 DEF Puts
      <4> QED
        BY <1>0, <4>1, <4>4 DEF TypeOK
    <3>2. UNCHANGED <<stage, job, outcome>>
      BY <1>12, <2>1 DEF Send
    <3>3. ValidTicket(o, put'[o].ticket)
      BY <2>1, <3>1
    <3> QED
      BY <1>d, <3>1, <3>2, <3>3
  <2>2. CASE ~ValidTicket(o, put[o].ticket)
    BY <1>12, <1>e, <2>2 DEF Send
  <2> QED
    BY <2>1, <2>2
<1>13. ASSUME NEW o \in Objects, Accept(o)
       PROVE  PutInv'
  <2>1. /\ put'[o].pc = "accepted" /\ put'[o].ticket = put[o].ticket
        /\ put[o].pc # "none" /\ o \in Sending
        /\ \A q \in Objects : q # o => put'[q] = put[q]
    BY <1>0, <1>13 DEF Accept, TypeOK, Puts, Sending
  <2>2. UNCHANGED <<stage, job, outcome>>
    BY <1>13 DEF Accept
  <2>3. ValidTicket(o, put[o].ticket)
    BY <1>0, <2>1 DEF PutInv
  <2> QED
    BY <1>d, <2>1, <2>2, <2>3
<1>14. ASSUME NEW o \in Objects, Land(o)
       PROVE  PutInv'
  <2>1. /\ put'[o].pc = "landed" /\ put'[o].ticket = put[o].ticket
        /\ put[o].pc # "none" /\ o \in Sending
        /\ \A q \in Objects : q # o => put'[q] = put[q]
    BY <1>0, <1>14 DEF Land, TypeOK, Puts, Sending
  <2>2. UNCHANGED <<stage, job, outcome>>
    BY <1>14 DEF Land
  <2>3. ValidTicket(o, put[o].ticket)
    BY <1>0, <2>1 DEF PutInv
  <2>4. Stored(o)'
    BY <1>14, LandStores
  <2> QED
    BY <1>d, <2>1, <2>2, <2>3, <2>4
<1>15. ASSUME NEW o \in Objects, Confirm(o) \/ PutRefused(o) \/ PutFails(o)
       PROVE  PutInv'
  BY <1>15, <1>e DEF Confirm, PutRefused, PutFails
<1>16. ASSUME NEW x \in late, LateLands(x)
       PROVE  PutInv'
  BY <1>16, <1>b DEF LateLands
<1> QED
  BY <1>1, <1>2, <1>3, <1>4, <1>5, <1>6, <1>7, <1>8, <1>9, <1>10, <1>11, <1>12,
     <1>13, <1>14, <1>15, <1>16 DEF Next, PutStep

(* What the plane found stored stays stored until it answers. *)
LEMMA CallStep == IInv /\ [Next]_vars => CallInv'
<1> SUFFICES ASSUME IInv, [Next]_vars PROVE CallInv'
  OBVIOUS
<1>0. TypeOK /\ CallInv /\ BatchInv /\ BucketInv
  BY DEF IInv
<1> USE DEF world, job, attempt
<1>a. ASSUME call' = NoCall
      PROVE  CallInv'
  BY <1>a DEF CallInv, NoCall
<1>b. ASSUME UNCHANGED <<stage, call, misled, job>>
      PROVE  CallInv'
  <2>1. \A o \in call.held : Stored(o)'
    BY <1>0, <1>b, StoredKept, TicketAssumption DEF CallInv, TypeOK, Calls
  <2> QED
    BY <1>0, <1>b, <2>1 DEF CallInv, Calling
<1>c. ASSUME NEW v, Whole(v)
      PROVE  CallInv'
  BY <1>a, <1>c DEF Whole
<1>1. CASE UNCHANGED vars
  BY <1>1, <1>b DEF vars
<1>2. CASE Tick \/ Revoke
  BY <1>2, <1>b DEF Tick, Revoke
<1>3. ASSUME NEW g \in Groups, SendBatch(g)
      PROVE  CallInv'
  <2>1. call' = NoCall
    BY <1>0, <1>3 DEF SendBatch, CallInv, Calling
  <2> QED
    BY <1>a, <2>1
<1>4. CASE Post
  <2>1. CASE marker
    BY <1>4, <1>c, <2>1 DEF Post
  <2>2. CASE ~marker
    <3>1. call'.held = {} /\ call'.tickets = {} /\ stage' = "posted"
      BY <1>4, <2>2 DEF Post, NoCall
    <3> QED
      BY <3>1 DEF CallInv, Calling
  <2> QED
    BY <2>1, <2>2
<1>5. CASE AuthorizeTimesOut \/ AuthorizeFails
  BY <1>5, <1>c DEF AuthorizeTimesOut, AuthorizeFails
<1>d. ASSUME stage' \in {"authenticated", "validated", "answered"},
             UNCHANGED <<misled, job, bucket>>, call'.held = call.held,
             call'.tickets = call.tickets
      PROVE  CallInv'
  BY <1>0, <1>d DEF CallInv, Calling, Stored
<1>6. CASE Authenticate
  <2>1. CASE status = "revoked"
    BY <1>6, <1>c, <2>1 DEF Authenticate
  <2>2. CASE status # "revoked"
    BY <1>6, <1>d, <2>2 DEF Authenticate
  <2> QED
    BY <2>1, <2>2
<1>7. CASE Validate
  <2>1. CASE Fresh /\ ToSet(batch) \cap Unservable = {}
    <3>1. call'.held = call.held /\ call'.tickets = call.tickets
      BY <1>0, <1>7, <2>1 DEF Validate, TypeOK, Calls
    <3> QED
      BY <1>7, <1>d, <2>1, <3>1 DEF Validate
  <2>2. CASE ~(Fresh /\ ToSet(batch) \cap Unservable = {})
    BY <1>7, <1>c, <2>2 DEF Validate
  <2> QED
    BY <2>1, <2>2
<1>8. ASSUME NEW o \in Objects, Probe(o)
      PROVE  CallInv'
  <2>1. /\ call'.tickets = call.tickets
        /\ call.held \subseteq call'.held
        /\ \A q \in call'.held : q \in call.held \/ (q = o /\ HoldsOffer(o))
    <3>1. PICK h \in SUBSET Objects :
             /\ call' = [call EXCEPT !.asked = call.asked \cup {o}, !.held = h]
             /\ h = call.held \/ (h = call.held \cup {o} /\ HoldsOffer(o))
      <4>1. call \in Calls /\ call.held \subseteq Objects
        BY <1>0, TicketAssumption DEF TypeOK, Calls
      <4>2. CASE call' = [call EXCEPT !.asked = call.asked \cup {o}]
        <5>1. call' = [call EXCEPT !.asked = call.asked \cup {o}, !.held = call.held]
          BY <4>1, <4>2 DEF Calls
        <5> QED
          BY <4>1, <5>1
      <4>3. CASE call' = [call EXCEPT !.asked = call.asked \cup {o},
                            !.held = IF HoldsOffer(o) THEN call.held \cup {o}
                                     ELSE call.held]
        BY <4>1, <4>3
      <4> QED
        BY <1>8, <4>2, <4>3 DEF Probe
    <3> QED
      BY <1>0, <3>1 DEF TypeOK, Calls
  <2>2. HoldsOffer(o) => Stored(o)
    <3>1. offer[o] \in Digests
      BY <1>0, <1>8 DEF Probe, InBatch, BatchInv
    <3>2. offer[o] # NoDigest
      BY <3>1, TicketAssumption
    <3> QED
      BY <1>0, <3>2 DEF HoldsOffer, Stored, BucketInv, StoredUnderOwnKey
  <2>3. UNCHANGED <<stage, misled, job, bucket>> /\ Calling
    BY <1>8 DEF Probe, Calling
  <2> QED
    BY <1>0, <2>1, <2>2, <2>3 DEF CallInv, Calling, Stored
<1>9. CASE Authorize
  <2>1. call'.tickets = Answer /\ call'.held = call.held
    BY <1>0, <1>9 DEF Authorize, TypeOK, Calls
  <2>2. \A t \in Answer : t.present => t.id \in DOMAIN batch /\ batch[t.id] \in call.held
    BY DEF Answer, PutTicket, PresentTicket
  <2>3. UNCHANGED <<misled, job, bucket>> /\ stage' = "answered"
    BY <1>9 DEF Authorize
  <2> QED
    BY <1>0, <2>1, <2>2, <2>3 DEF CallInv, Calling, Stored
<1>10. CASE Misanswer
  <2>1. call'.held = call.held
    BY <1>0, <1>10 DEF Misanswer, TypeOK, Calls
  <2>2. misled' /\ UNCHANGED <<job, bucket>> /\ stage' = "answered"
    BY <1>10 DEF Misanswer
  <2> QED
    BY <1>0, <2>1, <2>2 DEF CallInv, Calling, Stored
<1>11. CASE Receive
  <2>1. call' = NoCall
    BY <1>11 DEF Receive, Whole
  <2> QED
    BY <1>a, <2>1
<1>12. CASE EndRound
  <2>1. call' = NoCall
    BY <1>0, <1>12 DEF EndRound, CallInv, Calling
  <2> QED
    BY <1>a, <2>1
<1>13. ASSUME NEW o \in Objects, PutStep(o)
       PROVE  CallInv'
  BY <1>13, <1>b DEF PutStep, Send, Accept, Land, Confirm, PutRefused, PutFails
<1>14. ASSUME NEW x \in late, LateLands(x)
       PROVE  CallInv'
  BY <1>14, <1>b DEF LateLands
<1> QED
  BY <1>1, <1>2, <1>3, <1>4, <1>5, <1>6, <1>7, <1>8, <1>9, <1>10, <1>11, <1>12,
     <1>13, <1>14 DEF Next

(* A success is concluded from what has landed, and that stays. *)
LEMMA SuccessStep == IInv /\ [Next]_vars => SuccessMeansStored'
<1> SUFFICES ASSUME IInv, [Next]_vars PROVE SuccessMeansStored'
  OBVIOUS
<1>0. TypeOK /\ SuccessMeansStored /\ CallInv /\ PutInv
  BY DEF IInv
<1> USE DEF world, job, attempt
<1>a. ASSUME UNCHANGED <<misled, offer>>,
             \A o \in Objects : outcome'[o] \in {"shipped", "present"} => outcome'[o] = outcome[o]
      PROVE  SuccessMeansStored'
  BY <1>0, <1>a, StoredKept DEF SuccessMeansStored
<1>b. ASSUME NEW v \in Verdicts \ {"shipped", "present"}, Whole(v), UNCHANGED <<misled, offer>>
      PROVE  SuccessMeansStored'
  <2>1. \A o \in Objects : outcome'[o] \in {outcome[o], v}
    BY <1>b DEF Whole
  <2> QED
    BY <1>a, <1>b, <2>1
<1>c. ASSUME NEW o \in Objects, NEW v \in Verdicts \ {"shipped", "present"}, Conclude(o, v),
             UNCHANGED <<misled, offer>>
      PROVE  SuccessMeansStored'
  <2>1. \A q \in Objects : outcome'[q] \in {outcome[q], v}
    BY <1>0, <1>c DEF Conclude, TypeOK
  <2> QED
    BY <1>a, <1>c, <2>1
<1>1. CASE UNCHANGED vars
  BY <1>1, <1>a DEF vars
<1>2. CASE Tick \/ Revoke
  BY <1>2, <1>a DEF Tick, Revoke
<1>3. ASSUME NEW g \in Groups, SendBatch(g)
      PROVE  SuccessMeansStored'
  <2>1. \A o \in Objects : outcome'[o] = "none"
    BY <1>3 DEF SendBatch
  <2> QED
    BY <2>1 DEF SuccessMeansStored
<1>4. CASE Post
  BY <1>4, <1>a, <1>b DEF Post, Verdicts
<1>5. CASE AuthorizeTimesOut \/ AuthorizeFails
  BY <1>5, <1>b DEF AuthorizeTimesOut, AuthorizeFails, Verdicts
<1>6. CASE Authenticate \/ Validate
  BY <1>6, <1>a, <1>b DEF Authenticate, Validate, Verdicts
<1>7. ASSUME NEW o \in Objects, Probe(o)
      PROVE  SuccessMeansStored'
  BY <1>7, <1>a DEF Probe
<1>8. CASE Authorize
  BY <1>8, <1>a DEF Authorize
<1>9. CASE Misanswer
  <2>1. misled' /\ UNCHANGED <<outcome, offer>>
    BY <1>9 DEF Misanswer
  <2> QED
    BY <1>0, <2>1, StoredKept DEF SuccessMeansStored
<1>10. CASE Receive
  <2>1. CASE ~WellFormed
    BY <1>10, <1>b, <2>1 DEF Receive, Verdicts
  <2>2. CASE WellFormed
    <3>1. UNCHANGED <<misled, offer, batch>>
      BY <1>10 DEF Receive
    <3> SUFFICES ASSUME NEW o \in Objects
                 PROVE  /\ outcome'[o] = "shipped" => Stored(o)'
                        /\ outcome'[o] = "present" /\ ~misled => Stored(o)'
      BY <3>1 DEF SuccessMeansStored
    <3>2. outcome'[o] = IF InBatch(o) THEN Settled(o) ELSE outcome[o]
      BY <1>10, <2>2 DEF Receive
    <3>3. Settled(o) # "shipped"
      BY DEF Settled
    <3>4. ASSUME Settled(o) = "present", ~misled
          PROVE  Stored(o)
      <4>1. PICK t \in TicketFor(o) : t.present
        BY <3>4 DEF Settled
      <4>2. t \in call.tickets /\ batch[t.id] = o
        BY DEF TicketFor
      <4> QED
        BY <1>0, <3>4, <4>1, <4>2 DEF CallInv
    <3> QED
      BY <1>0, <3>1, <3>2, <3>3, <3>4, StoredKept DEF SuccessMeansStored
  <2> QED
    BY <2>1, <2>2
<1>11. CASE EndRound
  <2>1. \A o \in Objects : outcome'[o] \in {outcome[o], "none"}
    BY <1>11 DEF EndRound
  <2>2. UNCHANGED <<misled, offer>>
    BY <1>11 DEF EndRound
  <2> QED
    BY <1>a, <2>1, <2>2
<1>12. ASSUME NEW o \in Objects, Send(o)
       PROVE  SuccessMeansStored'
  BY <1>12, <1>a, <1>c DEF Send, Verdicts
<1>13. ASSUME NEW o \in Objects, Accept(o) \/ Land(o)
       PROVE  SuccessMeansStored'
  BY <1>13, <1>a DEF Accept, Land
<1>14. ASSUME NEW o \in Objects, Confirm(o)
       PROVE  SuccessMeansStored'
  <2>1. Stored(o)' /\ UNCHANGED <<misled, offer>>
    BY <1>0, <1>14, StoredKept DEF Confirm, PutInv
  <2>2. \A q \in Objects : q # o => outcome'[q] = outcome[q]
    BY <1>0, <1>14 DEF Confirm, Conclude, TypeOK
  <2> QED
    BY <1>0, <2>1, <2>2, StoredKept DEF SuccessMeansStored
<1>15. ASSUME NEW o \in Objects, PutRefused(o) \/ PutFails(o)
       PROVE  SuccessMeansStored'
  BY <1>15, <1>c DEF PutRefused, PutFails, Verdicts
<1>16. ASSUME NEW x \in late, LateLands(x)
       PROVE  SuccessMeansStored'
  BY <1>16, <1>a DEF LateLands
<1> QED
  BY <1>1, <1>2, <1>3, <1>4, <1>5, <1>6, <1>7, <1>8, <1>9, <1>10, <1>11, <1>12,
     <1>13, <1>14, <1>15, <1>16 DEF Next, PutStep

(* A refusal is heard from the plane, or from a marker that was. *)
LEMMA RefusedStep == IInv /\ [Next]_vars => RefusedMeansRevoked'
<1> SUFFICES ASSUME IInv, [Next]_vars PROVE RefusedMeansRevoked'
  OBVIOUS
<1>0. TypeOK /\ RefusedMeansRevoked
  BY DEF IInv
<1> USE DEF world, job, attempt
<1>a. ASSUME status = "revoked" => status' = "revoked", marker' = marker,
             \A o \in Objects : outcome'[o] = "refused" => outcome[o] = "refused"
      PROVE  RefusedMeansRevoked'
  BY <1>0, <1>a DEF RefusedMeansRevoked
<1>b. ASSUME status' = status, marker' = marker, NEW v, v # "refused", Whole(v)
      PROVE  RefusedMeansRevoked'
  <2>1. \A o \in Objects : outcome'[o] \in {outcome[o], v}
    BY <1>b DEF Whole
  <2> QED
    BY <1>a, <1>b, <2>1
<1>c. ASSUME NEW o \in Objects, NEW v, v # "refused", Conclude(o, v),
             status' = status, marker' = marker
      PROVE  RefusedMeansRevoked'
  <2>1. \A q \in Objects : outcome'[q] \in {outcome[q], v}
    BY <1>0, <1>c DEF Conclude, TypeOK
  <2> QED
    BY <1>a, <1>c, <2>1
<1>d. ASSUME status' = "revoked"
      PROVE  RefusedMeansRevoked'
  BY <1>d DEF RefusedMeansRevoked
<1>1. CASE UNCHANGED vars
  BY <1>1, <1>a DEF vars
<1>2. CASE Tick
  BY <1>2, <1>a DEF Tick
<1>3. CASE Revoke
  BY <1>3, <1>d DEF Revoke
<1>4. ASSUME NEW g \in Groups, SendBatch(g)
      PROVE  RefusedMeansRevoked'
  <2>1. \A o \in Objects : outcome'[o] = "none"
    BY <1>4 DEF SendBatch
  <2> QED
    BY <1>4, <1>a, <2>1 DEF SendBatch
<1>5. CASE Post
  <2>1. CASE marker
    <3>1. status' = "revoked"
      BY <1>0, <1>5, <2>1 DEF Post, RefusedMeansRevoked
    <3> QED
      BY <1>d, <3>1
  <2>2. CASE ~marker
    BY <1>5, <1>a, <2>2 DEF Post
  <2> QED
    BY <2>1, <2>2
<1>6. CASE AuthorizeTimesOut \/ AuthorizeFails
  BY <1>6, <1>b DEF AuthorizeTimesOut, AuthorizeFails
<1>7. CASE Authenticate
  <2>1. CASE status = "revoked"
    BY <1>7, <1>d, <2>1 DEF Authenticate
  <2>2. CASE status # "revoked"
    BY <1>7, <1>a, <2>2 DEF Authenticate
  <2> QED
    BY <2>1, <2>2
<1>8. CASE Validate
  BY <1>8, <1>a, <1>b DEF Validate
<1>9. ASSUME NEW o \in Objects, Probe(o)
      PROVE  RefusedMeansRevoked'
  BY <1>9, <1>a DEF Probe
<1>10. CASE Authorize \/ Misanswer
  BY <1>10, <1>a DEF Authorize, Misanswer
<1>11. CASE Receive
  <2>1. CASE ~WellFormed
    BY <1>11, <1>b, <2>1 DEF Receive
  <2>2. CASE WellFormed
    <3>1. \A o \in Objects : outcome'[o] = IF InBatch(o) THEN Settled(o) ELSE outcome[o]
      BY <1>11, <2>2 DEF Receive
    <3>2. \A o \in Objects : Settled(o) # "refused"
      BY DEF Settled
    <3> QED
      BY <1>11, <1>a, <3>1, <3>2 DEF Receive
  <2> QED
    BY <2>1, <2>2
<1>12. CASE EndRound
  <2>1. \A o \in Objects : outcome'[o] \in {outcome[o], "none"}
    BY <1>12 DEF EndRound
  <2> QED
    BY <1>12, <1>a, <2>1 DEF EndRound
<1>13. ASSUME NEW o \in Objects, Send(o)
       PROVE  RefusedMeansRevoked'
  BY <1>13, <1>a, <1>c DEF Send
<1>14. ASSUME NEW o \in Objects, Accept(o) \/ Land(o)
       PROVE  RefusedMeansRevoked'
  BY <1>14, <1>a DEF Accept, Land
<1>15. ASSUME NEW o \in Objects, Confirm(o) \/ PutRefused(o) \/ PutFails(o)
       PROVE  RefusedMeansRevoked'
  BY <1>15, <1>c DEF Confirm, PutRefused, PutFails
<1>16. ASSUME NEW x \in late, LateLands(x)
       PROVE  RefusedMeansRevoked'
  BY <1>16, <1>a DEF LateLands
<1> QED
  BY <1>1, <1>2, <1>3, <1>4, <1>5, <1>6, <1>7, <1>8, <1>9, <1>10, <1>11, <1>12,
     <1>13, <1>14, <1>15, <1>16 DEF Next, PutStep

(* The objects outside a round keep the verdict they have; the round's own *)
(* are told one verdict for all or each its own.                           *)
LEMMA RoundStep == IInv /\ [Next]_vars => RoundInv'
<1> SUFFICES ASSUME IInv, [Next]_vars PROVE RoundInv'
  OBVIOUS
<1>0. TypeOK /\ RoundInv /\ BatchInv /\ PutInv
  BY DEF IInv
<1>00. ToSet(batch) \subseteq Objects /\ ToSet(group) \subseteq Objects
  BY <1>0, ToSetType DEF TypeOK
<1> USE DEF world, job, attempt
<1>a. ASSUME UNCHANGED <<outcome, job>>, stage' = "idle" => stage = "idle"
      PROVE  RoundInv'
  BY <1>0, <1>a DEF RoundInv
<1>b. ASSUME UNCHANGED job, NEW v \in {"refused", "unavailable", "failed"}, Whole(v)
      PROVE  RoundInv'
  <2>1. \A o \in ToSet(batch) : outcome'[o] = v
    BY <1>00, <1>b DEF Whole, InBatch
  <2>2. \A o \in ToSet(group) \ ToSet(batch) : outcome'[o] = outcome[o]
    BY <1>00, <1>b DEF Whole, InBatch
  <2>3. stage' = "sending"
    BY <1>b DEF Whole
  <2> QED
    BY <1>0, <1>b, <2>1, <2>2, <2>3 DEF RoundInv, Final
<1>c. ASSUME NEW o \in Objects, NEW v \in {"shipped", "failed", "expired"},
             put[o].pc # "none", Conclude(o, v), UNCHANGED <<job, stage>>
      PROVE  RoundInv'
  <2>1. o \in ToSet(batch) /\ outcome[o] = "none" /\ stage' = "sending"
    BY <1>0, <1>c DEF PutInv, InBatch
  <2>2. \A q \in ToSet(batch) : outcome[q] \in Final \cup {"none", "expired"}
    BY <1>0, <2>1 DEF RoundInv
  <2>3. \A q \in Objects : outcome'[q] = IF q = o THEN v ELSE outcome[q]
    BY <1>0, <1>c DEF Conclude, TypeOK
  <2>4. \A q \in ToSet(batch) : outcome'[q] \in Final \cup {"none", "expired"}
    BY <1>00, <2>2, <2>3 DEF Final
  <2>5. \A q \in ToSet(group) \ ToSet(batch) : outcome'[q] \in Final
    BY <1>0, <1>00, <2>1, <2>3 DEF RoundInv
  <2> QED
    BY <1>c, <2>1, <2>4, <2>5 DEF RoundInv
<1>1. CASE UNCHANGED vars
  BY <1>1, <1>a DEF vars
<1>2. CASE Tick \/ Revoke
  BY <1>2, <1>a DEF Tick, Revoke
<1>3. ASSUME NEW g \in Groups, SendBatch(g)
      PROVE  RoundInv'
  <2>1. ToSet(g) \subseteq Objects
    BY TicketAssumption, ToSetType
  <2>2. group' = g /\ batch' = g /\ stage' = "start"
    BY <1>3 DEF SendBatch
  <2>3. \A o \in ToSet(g) : outcome'[o] = "none"
    BY <1>3, <2>1 DEF SendBatch
  <2> QED
    BY <2>2, <2>3 DEF RoundInv
<1>4. CASE Post
  BY <1>4, <1>a, <1>b DEF Post
<1>5. CASE AuthorizeTimesOut \/ AuthorizeFails
  BY <1>5, <1>b DEF AuthorizeTimesOut, AuthorizeFails
<1>6. CASE Authenticate \/ Validate
  BY <1>6, <1>a, <1>b DEF Authenticate, Validate
<1>7. ASSUME NEW o \in Objects, Probe(o)
      PROVE  RoundInv'
  BY <1>7, <1>a DEF Probe
<1>8. CASE Authorize \/ Misanswer
  BY <1>8, <1>a DEF Authorize, Misanswer
<1>9. CASE Receive
  <2>1. CASE ~WellFormed
    BY <1>9, <1>b, <2>1 DEF Receive
  <2>2. CASE WellFormed
    <3>1. \A o \in Objects : outcome'[o] = IF InBatch(o) THEN Settled(o) ELSE outcome[o]
      BY <1>9, <2>2 DEF Receive
    <3>2. \A o \in Objects : Settled(o) \in Final \cup {"none"}
      BY DEF Settled, Final
    <3>3. UNCHANGED job /\ stage' = "sending"
      BY <1>9, <2>2 DEF Receive
    <3>4. \A o \in ToSet(batch) : outcome'[o] \in Final \cup {"none"}
      BY <1>00, <3>1, <3>2 DEF InBatch
    <3>5. \A o \in ToSet(group) \ ToSet(batch) : outcome'[o] = outcome[o]
      BY <1>00, <3>1 DEF InBatch
    <3> QED
      BY <1>0, <3>3, <3>4, <3>5 DEF RoundInv
  <2> QED
    BY <2>1, <2>2
<1>10. CASE EndRound
  <2>1. CASE round = 1 /\ Expired # {} /\ ToSet(group) \subseteq Mirror
    <3>1. Expired \subseteq Objects
      BY <1>00 DEF Expired
    <3>2. ToSet(batch') = Expired /\ group' = group /\ stage' = "start"
      BY <1>0, <1>10, <2>1, <3>1, RenumberedType DEF EndRound
    <3>3. \A o \in Objects : outcome'[o] = IF o \in Expired THEN "none" ELSE outcome[o]
      BY <1>10, <2>1 DEF EndRound
    <3>4. \A o \in ToSet(batch) : outcome[o] \in Final \cup {"none", "expired"}
      BY <1>0, <2>1 DEF Expired, RoundInv
    <3>5. \A o \in ToSet(group) \ Expired : outcome'[o] \in Final
      <4> SUFFICES ASSUME NEW o \in ToSet(group), o \notin Expired
                   PROVE  outcome'[o] \in Final
        OBVIOUS
      <4>1. o \in ToSet(batch) /\ o \in Objects
        BY <1>0, <1>00, <2>1 DEF BatchInv
      <4>2. outcome[o] # "none"
        BY <1>10, <4>1 DEF EndRound, RoundOver
      <4>3. outcome[o] # "expired"
        BY <4>1 DEF Expired
      <4> QED
        BY <3>3, <3>4, <4>1, <4>2, <4>3
    <3>6. \A o \in Expired : outcome'[o] = "none"
      BY <3>1, <3>3
    <3> HIDE DEF Expired
    <3> QED
      BY <3>2, <3>5, <3>6 DEF RoundInv
  <2>2. CASE ~(round = 1 /\ Expired # {} /\ ToSet(group) \subseteq Mirror)
    BY <1>0, <1>10, <2>2 DEF EndRound, RoundInv, RoundOver
  <2> QED
    BY <2>1, <2>2
<1>11. ASSUME NEW o \in Objects, Send(o)
       PROVE  RoundInv'
  BY <1>11, <1>a, <1>c DEF Send
<1>12. ASSUME NEW o \in Objects, Accept(o) \/ Land(o)
       PROVE  RoundInv'
  BY <1>12, <1>a DEF Accept, Land
<1>13. ASSUME NEW o \in Objects, Confirm(o) \/ PutRefused(o) \/ PutFails(o)
       PROVE  RoundInv'
  <2>1. put[o].pc # "none" /\ UNCHANGED <<job, stage>>
    BY <1>13 DEF Confirm, PutRefused, PutFails, Sending
  <2>2. \E v \in {"shipped", "failed", "expired"} : Conclude(o, v)
    BY <1>13 DEF Confirm, PutRefused, PutFails
  <2> QED
    BY <1>c, <2>1, <2>2
<1>14. ASSUME NEW x \in late, LateLands(x)
       PROVE  RoundInv'
  BY <1>14, <1>a DEF LateLands
<1> QED
  BY <1>1, <1>2, <1>3, <1>4, <1>5, <1>6, <1>7, <1>8, <1>9, <1>10, <1>11, <1>12,
     <1>13, <1>14 DEF Next, PutStep

(* A revocation is final, and time moves forward. *)
LEMMA ReachGrows ==
    ASSUME IInv, [Next]_vars
    PROVE  /\ Reach \in Nat /\ Reach' \in Nat /\ Reach <= Reach'
           /\ clock \in Nat /\ clock' \in Nat /\ clock <= clock'
           /\ revokedAt' <= clock'
           /\ status = "revoked" => Reach' = Reach
<1> USE DEF world, job, attempt
<1>0. /\ clock \in Nat /\ revokedAt \in Nat /\ revokedAt <= clock
      /\ status \in {"active", "revoked"}
  BY TicketAssumption DEF IInv, TypeOK, TimeInv
<1>1. CASE UNCHANGED world
  BY <1>0, <1>1 DEF Reach
<1>2. CASE Tick
  BY <1>0, <1>2 DEF Reach, Tick
<1>3. CASE Revoke
  BY <1>0, <1>3 DEF Reach, Revoke
<1>4. UNCHANGED world \/ Tick \/ Revoke
  BY DEF Next, vars, PutStep, SendBatch, Post, AuthorizeTimesOut,
         AuthorizeFails, Authenticate, Validate, Authorize, Misanswer, Receive,
         EndRound, Probe, Send, Accept, Land, Confirm, PutRefused, PutFails,
         LateLands
<1> QED
  BY <1>1, <1>2, <1>3, <1>4

(* The limits are numbers. *)
LEMMA LimitType == CallTimeout \in Nat /\ Lifetime \in Nat /\ PutTimeout \in Nat
BY TicketAssumption

(* The part of TimeInv about the call. *)
CallTime ==
    /\ call.posted <= clock
    /\ stage \in {"authenticated", "validated", "answered"} => call.posted <= Reach
    /\ stage \in {"validated", "answered"} => call.signedAt <= Reach + CallTimeout
    /\ \A t \in call.tickets : t.expires <= Reach + CallTimeout + Lifetime

(* The part about the PUTs. *)
PutTime ==
    \A o \in Objects :
       /\ put[o].ticket.expires <= Reach + CallTimeout + Lifetime
       /\ put[o].pc = "sending" => put[o].began <= clock
       /\ put[o].pc = "accepted" => put[o].began <= put[o].ticket.expires

(* The part about the bytes that may land late. *)
LateTime ==
    \A x \in late : /\ clock <= x.until
                    /\ x.until <= Reach + CallTimeout + Lifetime + PutTimeout

(* Together they say what TimeInv says. *)
LEMMA TimeParts == TimeInv <=> revokedAt <= clock /\ CallTime /\ PutTime /\ LateTime
BY DEF TimeInv, CallTime, PutTime, LateTime

(* A call is authenticated while the install is active, and signed no      *)
(* later than the client waits for it.                                     *)
LEMMA CallTimeStep == IInv /\ [Next]_vars => CallTime'
<1> SUFFICES ASSUME IInv, [Next]_vars PROVE CallTime'
  OBVIOUS
<1>0. TypeOK /\ CallTime
  BY TimeParts DEF IInv
<1>r. /\ Reach \in Nat /\ Reach' \in Nat /\ Reach <= Reach'
      /\ clock \in Nat /\ clock' \in Nat /\ clock <= clock'
  BY ReachGrows
<1>l. CallTimeout \in Nat /\ Lifetime \in Nat
  BY LimitType
<1>t. /\ call.posted \in Nat /\ call.signedAt \in Nat
      /\ \A t \in call.tickets : t.expires \in Nat
  BY <1>0 DEF TypeOK, Calls, Tickets
<1> USE DEF world, job, attempt
<1>a. ASSUME call' = NoCall, stage' \in {"idle", "start", "sending"}
      PROVE  CallTime'
  <2>1. call'.posted = 0 /\ call'.tickets = {}
    BY <1>a DEF NoCall
  <2> QED
    BY <1>a, <1>r, <2>1 DEF CallTime
<1>b. ASSUME UNCHANGED <<stage, call>>
      PROVE  CallTime'
  <2>1. call.posted <= clock'
    BY <1>0, <1>r, <1>t DEF CallTime
  <2>2. /\ stage \in {"authenticated", "validated", "answered"} => call.posted <= Reach'
        /\ stage \in {"validated", "answered"} => call.signedAt <= Reach' + CallTimeout
    BY <1>0, <1>r, <1>t, <1>l DEF CallTime
  <2>3. \A t \in call.tickets : t.expires <= Reach' + CallTimeout + Lifetime
    BY <1>0, <1>r, <1>t, <1>l DEF CallTime
  <2> QED
    BY <1>b, <2>1, <2>2, <2>3 DEF CallTime
<1>c. ASSUME NEW v, Whole(v)
      PROVE  CallTime'
  BY <1>a, <1>c DEF Whole
<1>1. CASE UNCHANGED vars
  BY <1>1, <1>b DEF vars
<1>2. CASE Tick \/ Revoke
  BY <1>2, <1>b DEF Tick, Revoke
<1>3. ASSUME NEW g \in Groups, SendBatch(g)
      PROVE  CallTime'
  <2>1. call' = NoCall /\ stage' = "start"
    BY <1>3 DEF SendBatch, IInv, CallInv, Calling
  <2> QED
    BY <1>a, <2>1
<1>4. CASE Post
  <2>1. CASE marker
    BY <1>4, <1>c, <2>1 DEF Post
  <2>2. CASE ~marker
    <3>1. call'.posted = clock /\ call'.tickets = {} /\ stage' = "posted"
      BY <1>4, <2>2 DEF Post, NoCall
    <3> QED
      BY <1>r, <3>1 DEF CallTime
  <2> QED
    BY <2>1, <2>2
<1>5. CASE AuthorizeTimesOut \/ AuthorizeFails
  BY <1>5, <1>c DEF AuthorizeTimesOut, AuthorizeFails
<1>6. CASE Authenticate
  <2>1. CASE status = "revoked"
    BY <1>6, <1>c, <2>1 DEF Authenticate
  <2>2. CASE status # "revoked"
    <3>1. stage' = "authenticated" /\ UNCHANGED <<call, clock, status>>
      BY <1>6, <2>2 DEF Authenticate
    <3>2. Reach' = clock
      BY <2>2, <3>1 DEF Reach
    <3>3. \A t \in call.tickets : t.expires <= Reach' + CallTimeout + Lifetime
      BY <1>0, <1>r, <1>t, <1>l DEF CallTime
    <3> QED
      BY <1>0, <3>1, <3>2, <3>3 DEF CallTime
  <2> QED
    BY <2>1, <2>2
<1>7. CASE Validate
  <2>1. CASE Fresh /\ ToSet(batch) \cap Unservable = {}
    <3>1. /\ call'.posted = call.posted /\ call'.signedAt = clock
          /\ call'.tickets = call.tickets
      BY <1>0, <1>7, <2>1 DEF Validate, TypeOK, Calls
    <3>2. /\ stage = "authenticated" /\ stage' = "validated"
          /\ clock <= call.posted + CallTimeout
          /\ UNCHANGED world
      BY <1>7, <2>1 DEF Validate, InTime
    <3>3. Reach' = Reach /\ clock' = clock /\ call.posted <= Reach
      BY <1>0, <3>2 DEF Reach, CallTime
    <3>4. clock <= Reach + CallTimeout
      BY <1>r, <1>l, <1>t, <3>2, <3>3
    <3> QED
      BY <1>0, <3>1, <3>2, <3>3, <3>4 DEF CallTime
  <2>2. CASE ~(Fresh /\ ToSet(batch) \cap Unservable = {})
    BY <1>7, <1>c, <2>2 DEF Validate
  <2> QED
    BY <2>1, <2>2
<1>8. ASSUME NEW o \in Objects, Probe(o)
      PROVE  CallTime'
  <2>1. /\ call'.posted = call.posted /\ call'.signedAt = call.signedAt
        /\ call'.tickets = call.tickets
    BY <1>0, <1>8 DEF Probe, TypeOK, Calls
  <2>2. UNCHANGED <<world, stage>>
    BY <1>8 DEF Probe
  <2> QED
    BY <1>0, <2>1, <2>2 DEF CallTime, Reach
<1>d. \A t \in Answer : t.expires \in Nat /\ t.expires <= call.signedAt + Lifetime
  <2>1. \A i \in DOMAIN batch : /\ PutTicket(i).expires = call.signedAt + Lifetime
                                /\ PresentTicket(i).expires = 0
    BY DEF PutTicket, PresentTicket
  <2>2. \A t \in Answer : t.expires = call.signedAt + Lifetime \/ t.expires = 0
    BY <2>1 DEF Answer
  <2> QED
    BY <1>t, <1>l, <2>2
<1>e. ASSUME NEW T, call' = [call EXCEPT !.tickets = T], stage = "validated",
             \A t \in T : t.expires <= call.signedAt + Lifetime /\ t.expires \in Nat,
             UNCHANGED world, stage' = "answered"
      PROVE  CallTime'
  <2>1. /\ call'.posted = call.posted /\ call'.signedAt = call.signedAt
        /\ call'.tickets = T
    BY <1>0, <1>e DEF TypeOK, Calls
  <2>2. /\ call.posted <= clock /\ call.posted <= Reach
        /\ call.signedAt <= Reach + CallTimeout
    BY <1>0, <1>e DEF CallTime
  <2>3. Reach' = Reach
    BY <1>e DEF Reach
  <2>4. \A t \in T : t.expires <= Reach' + CallTimeout + Lifetime
    BY <1>e, <1>r, <1>l, <1>t, <2>2, <2>3
  <2> QED
    BY <1>e, <2>1, <2>2, <2>3, <2>4 DEF CallTime
<1>9. CASE Authorize
  BY <1>9, <1>d, <1>e DEF Authorize, Probed
<1>10. CASE Misanswer
  <2>1. PICK t \in Answer :
           \/ \E u \in Corrupted(t) \ {t} :
                 call' = [call EXCEPT !.tickets = (Answer \ {t}) \cup {u}]
           \/ call' = [call EXCEPT !.tickets = Answer \ {t}]
    BY <1>10 DEF Misanswer
  <2>2. \A u \in Corrupted(t) : u.expires = t.expires
    BY <1>0, AnswerType DEF Corrupted, Tickets
  <2>3. UNCHANGED world /\ stage = "validated" /\ stage' = "answered"
    BY <1>10 DEF Misanswer, Probed
  <2>4. CASE call' = [call EXCEPT !.tickets = Answer \ {t}]
    BY <1>d, <1>e, <2>3, <2>4
  <2>5. ASSUME NEW u \in Corrupted(t),
               call' = [call EXCEPT !.tickets = (Answer \ {t}) \cup {u}]
        PROVE  CallTime'
    BY <1>d, <1>e, <2>2, <2>3, <2>5
  <2> QED
    BY <2>1, <2>4, <2>5
<1>11. CASE Receive
  <2>1. call' = NoCall /\ stage' = "sending"
    BY <1>11 DEF Receive, Whole
  <2> QED
    BY <1>a, <2>1
<1>12. CASE EndRound
  <2>1. call' = NoCall /\ stage' \in {"idle", "start"}
    BY <1>12 DEF EndRound, IInv, CallInv, Calling
  <2> QED
    BY <1>a, <2>1
<1>13. ASSUME NEW o \in Objects, PutStep(o)
       PROVE  CallTime'
  BY <1>13, <1>b DEF PutStep, Send, Accept, Land, Confirm, PutRefused, PutFails
<1>14. ASSUME NEW x \in late, LateLands(x)
       PROVE  CallTime'
  BY <1>14, <1>b DEF LateLands
<1> QED
  BY <1>1, <1>2, <1>3, <1>4, <1>5, <1>6, <1>7, <1>8, <1>9, <1>10, <1>11, <1>12,
     <1>13, <1>14 DEF Next

(* A PUT carries a ticket of an answered call, leaves when a clock says,   *)
(* and is accepted only while its ticket is good.                          *)
LEMMA PutTimeStep == IInv /\ [Next]_vars => PutTime'
<1> SUFFICES ASSUME IInv, [Next]_vars PROVE PutTime'
  OBVIOUS
<1>0. TypeOK /\ CallTime /\ PutTime
  BY TimeParts DEF IInv
<1>r. /\ Reach \in Nat /\ Reach' \in Nat /\ Reach <= Reach'
      /\ clock \in Nat /\ clock' \in Nat /\ clock <= clock'
  BY ReachGrows
<1>l. CallTimeout \in Nat /\ Lifetime \in Nat
  BY LimitType
<1>t. \A o \in Objects : put[o].ticket.expires \in Nat /\ put[o].began \in Nat
  BY <1>0 DEF TypeOK, Puts, Tickets
<1>n. NoPut.pc = "none" /\ NoPut.ticket.expires = 0
  BY DEF NoPut, NoTicket
<1> USE DEF world, job, attempt
<1>a. ASSUME \A o \in Objects : put'[o] \in {put[o], NoPut}
      PROVE  PutTime'
  <2> SUFFICES ASSUME NEW o \in Objects
               PROVE  /\ put'[o].ticket.expires <= Reach' + CallTimeout + Lifetime
                      /\ put'[o].pc = "sending" => put'[o].began <= clock'
                      /\ put'[o].pc = "accepted" =>
                            put'[o].began <= put'[o].ticket.expires
    BY DEF PutTime
  <2>1. CASE put'[o] = put[o]
    <3>1. put[o].ticket.expires <= Reach' + CallTimeout + Lifetime
      BY <1>0, <1>r, <1>l, <1>t DEF PutTime
    <3>2. put[o].pc = "sending" => put[o].began <= clock'
      BY <1>0, <1>r, <1>t DEF PutTime
    <3>3. put[o].pc = "accepted" => put[o].began <= put[o].ticket.expires
      BY <1>0 DEF PutTime
    <3> QED
      BY <2>1, <3>1, <3>2, <3>3
  <2>2. CASE put'[o] = NoPut
    <3>1. \A i, j, k \in Nat : 0 <= i + j + k
      OBVIOUS
    <3>2. 0 <= Reach' + CallTimeout + Lifetime
      BY <1>r, <1>l, <3>1
    <3> QED
      BY <1>n, <2>2, <3>2
  <2> QED
    BY <1>a, <2>1, <2>2
<1>b. ASSUME NEW o \in Objects, UNCHANGED world,
             \A q \in Objects : q # o => put'[q] = put[q],
             put'[o].ticket = put[o].ticket,
             put'[o].pc = "sending" => put'[o].began <= clock,
             put'[o].pc = "accepted" => put'[o].began <= put[o].ticket.expires
      PROVE  PutTime'
  BY <1>0, <1>b DEF PutTime, Reach
<1>c. ASSUME NEW o \in Objects, NEW v, Conclude(o, v)
      PROVE  PutTime'
  <2>1. \A q \in Objects : put'[q] \in {put[q], NoPut}
    BY <1>0, <1>c DEF Conclude, TypeOK
  <2> QED
    BY <1>a, <2>1
<1>d. ASSUME UNCHANGED put
      PROVE  PutTime'
  BY <1>a, <1>d
<1>1. CASE UNCHANGED vars
  BY <1>1, <1>d DEF vars
<1>2. CASE Tick \/ Revoke \/ Post \/ AuthorizeTimesOut \/ AuthorizeFails
  BY <1>2, <1>d DEF Tick, Revoke, Post, AuthorizeTimesOut, AuthorizeFails
<1>3. ASSUME NEW g \in Groups, SendBatch(g)
      PROVE  PutTime'
  BY <1>3, <1>d DEF SendBatch
<1>4. CASE Authenticate \/ Validate \/ Authorize \/ Misanswer \/ EndRound
  BY <1>4, <1>d DEF Authenticate, Validate, Authorize, Misanswer, EndRound
<1>5. ASSUME NEW o \in Objects, Probe(o)
      PROVE  PutTime'
  BY <1>5, <1>d DEF Probe
<1>6. CASE Receive
  <2>1. CASE ~WellFormed
    BY <1>6, <1>d, <2>1 DEF Receive
  <2>2. CASE WellFormed
    <3> SUFFICES ASSUME NEW o \in Objects
                 PROVE  /\ put'[o].ticket.expires <= Reach + CallTimeout + Lifetime
                        /\ put'[o].pc \in {"none", "waiting"}
      BY <1>6 DEF PutTime, Receive, Reach
    <3>1. put'[o] = IF InBatch(o) /\ Settled(o) = "none"
                    THEN [pc |-> "waiting", began |-> 0,
                          ticket |-> CHOOSE t \in TicketFor(o) : TRUE]
                    ELSE NoPut
      BY <1>6, <2>2 DEF Receive
    <3>2. CASE InBatch(o) /\ Settled(o) = "none"
      <4> DEFINE T == CHOOSE t \in TicketFor(o) : TRUE
      <4>1. T \in TicketFor(o)
        BY <3>2 DEF Settled
      <4>2. T \in call.tickets
        BY <4>1 DEF TicketFor
      <4> HIDE DEF T
      <4>3. T.expires <= Reach + CallTimeout + Lifetime
        BY <1>0, <4>2 DEF CallTime
      <4>4. put'[o].ticket = T /\ put'[o].pc = "waiting"
        BY <3>1, <3>2 DEF T
      <4> QED
        BY <4>3, <4>4
    <3>3. CASE ~(InBatch(o) /\ Settled(o) = "none")
      <4>1. 0 <= Reach + CallTimeout + Lifetime
        BY <1>r, <1>l
      <4>2. put'[o].pc = "none" /\ put'[o].ticket.expires = 0
        BY <1>n, <3>1, <3>3
      <4> QED
        BY <4>1, <4>2
    <3> QED
      BY <3>2, <3>3
  <2> QED
    BY <2>1, <2>2
<1>7. ASSUME NEW o \in Objects, Send(o)
      PROVE  PutTime'
  <2>1. CASE ValidTicket(o, put[o].ticket)
    <3>1. put' = [put EXCEPT ![o] = [put[o] EXCEPT !.pc = "sending", !.began = clock]]
      BY <1>7, <2>1 DEF Send
    <3>2. put[o] \in Puts /\ o \in DOMAIN put
      BY <1>0 DEF TypeOK
    <3>3. put'[o] = [put[o] EXCEPT !.pc = "sending", !.began = clock]
      BY <3>1, <3>2
    <3>4. /\ put'[o].pc = "sending" /\ put'[o].ticket = put[o].ticket
          /\ put'[o].began = clock
      BY <3>2, <3>3 DEF Puts
    <3>5. \A q \in Objects : q # o => put'[q] = put[q]
      BY <1>0, <3>1 DEF TypeOK
    <3>6. UNCHANGED world
      BY <1>7 DEF Send
    <3> QED
      BY <1>b, <1>r, <3>4, <3>5, <3>6
  <2>2. CASE ~ValidTicket(o, put[o].ticket)
    BY <1>7, <1>c, <2>2 DEF Send
  <2> QED
    BY <2>1, <2>2
<1>8. ASSUME NEW o \in Objects, Accept(o)
      PROVE  PutTime'
  <2>1. /\ put'[o].pc = "accepted" /\ put'[o].ticket = put[o].ticket
        /\ put'[o].began = put[o].began /\ put[o].pc = "sending"
        /\ \A q \in Objects : q # o => put'[q] = put[q]
    BY <1>0, <1>8 DEF Accept, TypeOK, Puts
  <2>2. clock <= put[o].ticket.expires /\ put[o].began <= clock /\ UNCHANGED world
    BY <1>0, <1>8, <2>1 DEF Accept, PutTime
  <2>3. put[o].began <= put[o].ticket.expires
    BY <1>r, <1>t, <2>2
  <2> QED
    BY <1>b, <2>1, <2>2, <2>3
<1>9. ASSUME NEW o \in Objects, Land(o)
      PROVE  PutTime'
  <2>1. /\ put'[o].pc = "landed" /\ put'[o].ticket = put[o].ticket
        /\ \A q \in Objects : q # o => put'[q] = put[q]
    BY <1>0, <1>9 DEF Land, TypeOK, Puts
  <2> QED
    BY <1>9, <1>b, <2>1 DEF Land
<1>10. ASSUME NEW o \in Objects, Confirm(o) \/ PutRefused(o) \/ PutFails(o)
       PROVE  PutTime'
  BY <1>10, <1>c DEF Confirm, PutRefused, PutFails
<1>11. ASSUME NEW x \in late, LateLands(x)
       PROVE  PutTime'
  BY <1>11, <1>d DEF LateLands
<1> QED
  BY <1>1, <1>2, <1>3, <1>4, <1>5, <1>6, <1>7, <1>8, <1>9, <1>10, <1>11
     DEF Next, PutStep

(* Bytes the client gave up on were accepted, or would have been, before   *)
(* their ticket expired.                                                   *)
LEMMA LateTimeStep == IInv /\ [Next]_vars => LateTime'
<1> SUFFICES ASSUME IInv, [Next]_vars PROVE LateTime'
  OBVIOUS
<1>0. TypeOK /\ PutTime /\ LateTime
  BY TimeParts DEF IInv
<1>r. /\ Reach \in Nat /\ Reach' \in Nat /\ Reach <= Reach'
      /\ clock \in Nat /\ clock' \in Nat
  BY ReachGrows
<1>l. CallTimeout \in Nat /\ Lifetime \in Nat /\ PutTimeout \in Nat
  BY LimitType
<1>t. \A x \in late : x.until \in Nat
  BY <1>0 DEF TypeOK
<1> USE DEF world, job, attempt
<1>a. ASSUME late' \subseteq late, \A x \in late' : clock' <= x.until
      PROVE  LateTime'
  <2>1. \A x \in late : x.until <= Reach' + CallTimeout + Lifetime + PutTimeout
    BY <1>0, <1>r, <1>l, <1>t DEF LateTime
  <2> QED
    BY <1>a, <2>1 DEF LateTime
<1>b. ASSUME late' \subseteq late, UNCHANGED clock
      PROVE  LateTime'
  <2>1. \A x \in late' : clock' <= x.until
    BY <1>0, <1>b DEF LateTime
  <2> QED
    BY <1>a, <1>b, <2>1
<1>1. CASE Tick
  BY <1>1, <1>a DEF Tick
<1>2. ASSUME NEW o \in Objects, PutFails(o)
      PROVE  LateTime'
  <2>1. CASE put[o].pc = "landed" \/ clock > Lingers(o)
    BY <1>2, <1>b, <2>1 DEF PutFails
  <2>2. CASE ~(put[o].pc = "landed" \/ clock > Lingers(o))
    <3>1. /\ Lingers(o) \in Nat
          /\ put[o].began \in Nat /\ put[o].ticket.expires \in Nat
          /\ put[o].pc = "sending" => Lingers(o) <= put[o].ticket.expires
          /\ put[o].pc # "sending" => Lingers(o) = put[o].began + PutTimeout
      BY <1>0, LingersType
    <3>2. put[o].pc \in {"sending", "accepted"}
      BY <1>2, <2>2 DEF PutFails, Sending
    <3>3. /\ put[o].ticket.expires <= Reach + CallTimeout + Lifetime
          /\ put[o].pc = "accepted" => put[o].began <= put[o].ticket.expires
      BY <1>0 DEF PutTime
    <3>4. clock <= Lingers(o)
      BY <1>r, <2>2, <3>1
    <3>5. Lingers(o) <= Reach + CallTimeout + Lifetime + PutTimeout
      BY <1>r, <1>l, <3>1, <3>2, <3>3
    <3>6. \A x \in late' : x \in late \/ x.until = Lingers(o)
      BY <1>2, <2>2 DEF PutFails
    <3>7. clock' = clock /\ Reach' = Reach
      BY <1>2 DEF PutFails, Reach
    <3> QED
      BY <1>0, <3>4, <3>5, <3>6, <3>7 DEF LateTime
  <2> QED
    BY <2>1, <2>2
<1>3. ASSUME NEW x \in late, LateLands(x)
      PROVE  LateTime'
  BY <1>3, <1>b DEF LateLands
<1>4. CASE UNCHANGED <<late, clock>>
  BY <1>4, <1>b
<1>5. \/ UNCHANGED <<late, clock>> \/ Tick
      \/ (\E o \in Objects : PutFails(o)) \/ (\E x \in late : LateLands(x))
  BY DEF Next, vars, PutStep, Revoke, SendBatch, Post, AuthorizeTimesOut,
         AuthorizeFails, Authenticate, Validate, Authorize, Misanswer, Receive,
         EndRound, Probe, Send, Accept, Land, Confirm, PutRefused
<1> QED
  BY <1>1, <1>2, <1>3, <1>4, <1>5

-----------------------------------------------------------------------------
(* The theorems. *)

(* The invariant holds at first ... *)
LEMMA InitInv == Init => IInv
<1> SUFFICES ASSUME Init PROVE IInv
  OBVIOUS
<1>1. TypeOK
  BY TypeInit
<1>2. ToSet(group) = {} /\ ToSet(batch) = {}
  BY DEF Init, ToSet
<1>3. /\ \A o \in Objects : /\ put[o].pc = "none" /\ put[o].ticket.expires = 0
                            /\ bucket[o].all = {} /\ bucket[o].label = NoDigest
                            /\ outcome[o] = "none"
  BY DEF Init, NoPut, NoTicket
<1>4. /\ call = NoCall /\ call.held = {} /\ call.tickets = {} /\ call.posted = 0
      /\ stage = "idle" /\ late = {} /\ status = "active" /\ clock = 0 /\ revokedAt = 0
  BY DEF Init, NoCall
<1>5. ~marker
  BY DEF Init
<1>6. BatchInv
  BY <1>2 DEF BatchInv
<1>7. PutInv /\ SuccessMeansStored
  BY <1>3 DEF PutInv, Sending, SuccessMeansStored
<1>8. BucketInv
  BY <1>3, <1>4 DEF BucketInv, StoredUnderOwnKey
<1>9. CallInv
  BY <1>4 DEF CallInv
<1>10. RefusedMeansRevoked
  BY <1>3, <1>5 DEF RefusedMeansRevoked
<1>11. TimeInv
  <2>1. CallTimeout \in Nat /\ Lifetime \in Nat
    BY LimitType
  <2>2. Reach = 0
    BY <1>4 DEF Reach
  <2> QED
    BY <1>3, <1>4, <2>1, <2>2 DEF TimeInv
<1>12. RoundInv
  BY <1>2 DEF RoundInv
<1> QED
  BY <1>1, <1>6, <1>7, <1>8, <1>9, <1>10, <1>11, <1>12 DEF IInv

(* ... and every step keeps it. *)
LEMMA IInvStep == IInv /\ [Next]_vars => IInv'
<1> SUFFICES ASSUME IInv, [Next]_vars PROVE IInv'
  OBVIOUS
<1>1. revokedAt' <= clock'
  BY ReachGrows
<1>2. CallTime' /\ PutTime' /\ LateTime'
  BY CallTimeStep, PutTimeStep, LateTimeStep
<1>3. TimeInv'
  BY <1>1, <1>2 DEF TimeInv, CallTime, PutTime, LateTime
<1> QED
  BY <1>3, TypeStep, BatchStep, PutInvStep, BucketStep, CallStep, SuccessStep,
     RefusedStep, RoundStep DEF IInv

(* The inductive invariant holds of every state of the upload loop, the    *)
(* plane and the bucket together.                                          *)
THEOREM TicketsInductive == Spec => []IInv
<1>1. Init => IInv
  BY InitInv
<1>2. IInv /\ [Next]_vars => IInv'
  BY IInvStep
<1> QED
  BY <1>1, <1>2, PTL DEF Spec

(* Whatever a faulty plane answers, and however the second round renumbers *)
(* the objects, bytes are only stored under their own key and with their   *)
(* own hashes: ValidateTicket compares a ticket with what this machine     *)
(* prepared before the bytes leave.                                        *)
THEOREM OwnKeyAlways == Spec => []StoredUnderOwnKey
<1>1. IInv => StoredUnderOwnKey
  BY DEF IInv, BucketInv
<1> QED
  BY <1>1, TicketsInductive, PTL

(* What the port reports of an object is so: shipped means stored, already *)
(* present means stored unless the plane lied, refused means revoked.      *)
THEOREM VerdictsAlwaysTrue == Spec => []VerdictsAreTrue
<1>1. IInv => VerdictsAreTrue
  BY DEF IInv, VerdictsAreTrue
<1> QED
  BY <1>1, TicketsInductive, PTL

(* Nothing of a revoked install becomes a version of an object later than  *)
(* one call, one ticket's life and one PUT after the revocation.           *)
THEOREM RevokedAlwaysQuiet == Spec => RevokedGoesQuiet
<1>1. ASSUME IInv, Next, bucket' # bucket, status = "revoked"
      PROVE  clock <= revokedAt + CallTimeout + Lifetime + PutTimeout
  <2>0. TypeOK /\ PutTime /\ LateTime /\ Reach = revokedAt
    BY <1>1, TimeParts DEF IInv, Reach
  <2>l. /\ CallTimeout \in Nat /\ Lifetime \in Nat /\ PutTimeout \in Nat
        /\ clock \in Nat /\ revokedAt \in Nat
    BY <2>0, LimitType, TicketAssumption DEF TypeOK
  <2>1. (\E o \in Objects : Land(o)) \/ (\E x \in late : LateLands(x))
    BY <1>1
       DEF Next, world, job, attempt, PutStep, Tick, Revoke, SendBatch, Post,
           AuthorizeTimesOut, AuthorizeFails, Authenticate, Validate, Authorize,
           Misanswer, Receive, EndRound, Probe, Send, Accept, Confirm, PutRefused,
           PutFails
  <2>2. ASSUME NEW o \in Objects, Land(o)
        PROVE  clock <= revokedAt + CallTimeout + Lifetime + PutTimeout
    <3>1. put[o].pc = "accepted" /\ clock <= put[o].began + PutTimeout
      BY <2>2 DEF Land, PutInTime
    <3>2. /\ put[o].began <= put[o].ticket.expires
          /\ put[o].ticket.expires <= revokedAt + CallTimeout + Lifetime
      BY <2>0, <3>1 DEF PutTime
    <3>3. put[o].began \in Nat /\ put[o].ticket.expires \in Nat
      BY <2>0, LingersType
    <3> QED
      BY <2>l, <3>1, <3>2, <3>3
  <2>3. ASSUME NEW x \in late
        PROVE  clock <= revokedAt + CallTimeout + Lifetime + PutTimeout
    <3>1. /\ clock <= x.until /\ x.until \in Nat
          /\ x.until <= revokedAt + CallTimeout + Lifetime + PutTimeout
      BY <2>0 DEF LateTime, TypeOK
    <3> QED
      BY <2>l, <3>1
  <2> QED
    BY <2>1, <2>2, <2>3
<1>2. IInv /\ [Next]_vars =>
         [bucket' # bucket /\ status = "revoked" =>
             clock <= revokedAt + CallTimeout + Lifetime + PutTimeout]_vars
  BY <1>1
<1> QED
  BY <1>2, TicketsInductive, PTL DEF Spec, RevokedGoesQuiet

(* Verdicts that are final outside b, and on b final or one refusal or     *)
(* outage, are what a first authorization of s in which the tickets of b   *)
(* expire and a second one of b may come back with.                        *)
LEMMA ContractWitness ==
    ASSUME NEW s, NEW b \in SUBSET s, NEW r \in [s -> Verdicts],
           \A o \in s \ b : r[o] \in {"shipped", "failed"},
           \/ \E v \in {"refused", "unavailable"} : \A o \in b : r[o] = v
           \/ \A o \in b : r[o] \in {"shipped", "failed"}
    PROVE  r \in GroupAnswers(s)
<1> DEFINE first == [o \in s |-> IF o \in b THEN "expired" ELSE r[o]]
           second == [o \in b |-> r[o]]
<1>1. first \in AuthorizeAndUpload(s)
  <2>1. first \in [s -> {"shipped", "failed", "expired"}]
    OBVIOUS
  <2> QED
    BY <2>1 DEF AuthorizeAndUpload
<1>2. second \in AuthorizeAndUpload(b)
  <2>1. CASE \A o \in b : r[o] \in {"shipped", "failed"}
    <3>1. second \in [b -> {"shipped", "failed", "expired"}]
      BY <2>1
    <3> QED
      BY <3>1 DEF AuthorizeAndUpload
  <2>2. ASSUME NEW v \in {"refused", "unavailable"}, \A o \in b : r[o] = v
        PROVE  second \in AuthorizeAndUpload(b)
    <3>1. second = [o \in b |-> v]
      BY <2>2
    <3> QED
      BY <3>1 DEF AuthorizeAndUpload
  <2> QED
    BY <2>1, <2>2
<1>3. {o \in s : first[o] = "expired"} = b
  OBVIOUS
<1>4. \A o \in b : second[o] # "expired"
  OBVIOUS
<1>5. r = [o \in s |-> CASE o \notin b -> first[o]
                         [] o \in b /\ second[o] = "expired" -> "failed"
                         [] OTHER -> second[o]]
  <2> DEFINE f == [o \in s |-> CASE o \notin b -> first[o]
                                 [] o \in b /\ second[o] = "expired" -> "failed"
                                 [] OTHER -> second[o]]
  <2>1. \A o \in s : f[o] = r[o]
    <3> SUFFICES ASSUME NEW o \in s PROVE f[o] = r[o]
      OBVIOUS
    <3>1. CASE o \in b
      BY <1>4, <3>1
    <3>2. CASE o \notin b
      BY <3>2
    <3> QED
      BY <3>1, <3>2
  <2>2. DOMAIN f = s /\ f = [o \in s |-> f[o]]
    OBVIOUS
  <2>3. r = [o \in s |-> r[o]]
    OBVIOUS
  <2> HIDE DEF f
  <2> QED
    BY <2>1, <2>2, <2>3 DEF f
<1> DEFINE Result(f, t, g) == [o \in s |-> CASE o \notin t -> f[o]
                                   [] o \in t /\ g[o] = "expired" -> "failed"
                                   [] OTHER -> g[o]]
           Results(f) == LET again == {o \in s : f[o] = "expired"}
                         IN  {Result(f, again, g) : g \in AuthorizeAndUpload(again)}
<1>6. r = Result(first, b, second)
  BY <1>5
<1>7. GroupAnswers(s) = UNION {Results(f) : f \in AuthorizeAndUpload(s)}
  BY DEF GroupAnswers
<1> HIDE DEF first, second, Result
<1>8. r \in Results(first)
  BY <1>2, <1>3, <1>6
<1> HIDE DEF Results
<1> QED
  BY <1>1, <1>7, <1>8

(* The port keeps the contract SourcePass assumes of it: when a group is   *)
(* back, its verdicts are those of one authorization, or of two.           *)
THEOREM ContractKept == Spec => []KeepsContract
<1>1. ASSUME IInv, stage = "idle"
      PROVE  [o \in ToSet(group) |-> Reported(o)] \in GroupAnswers(ToSet(group))
  <2> DEFINE r == [o \in ToSet(group) |-> Reported(o)]
  <2>0. TypeOK /\ BatchInv /\ RoundInv
    BY <1>1 DEF IInv
  <2>1. ToSet(batch) \in SUBSET ToSet(group) /\ ToSet(group) \subseteq Objects
    BY <2>0, ToSetType DEF BatchInv, TypeOK
  <2>2. \A o \in ToSet(group) : Reported(o) \in Verdicts
    <3> SUFFICES ASSUME NEW o \in ToSet(group) PROVE Reported(o) \in Verdicts
      OBVIOUS
    <3>1. outcome[o] \in Verdicts
      BY <2>0, <2>1 DEF TypeOK
    <3> QED
      BY <3>1 DEF Reported, Verdicts
  <2>3. r \in [ToSet(group) -> Verdicts]
    BY <2>2
  <2>4. \A o \in ToSet(group) \ ToSet(batch) : r[o] \in {"shipped", "failed"}
    BY <2>0 DEF RoundInv, Final, Reported
  <2>5. \/ \E v \in {"refused", "unavailable"} : \A o \in ToSet(batch) : r[o] = v
        \/ \A o \in ToSet(batch) : r[o] \in {"shipped", "failed"}
    <3>1. ASSUME NEW v \in {"refused", "unavailable"},
                 \A o \in ToSet(batch) : outcome[o] = v
          PROVE  \A o \in ToSet(batch) : r[o] = v
      BY <2>1, <3>1 DEF Reported
    <3>2. ASSUME \A o \in ToSet(batch) : outcome[o] \in Final \cup {"none", "expired"}
          PROVE  \A o \in ToSet(batch) : r[o] \in {"shipped", "failed"}
      <4>1. \A o \in ToSet(batch) : outcome[o] \in Final \cup {"expired"}
        BY <1>1, <2>0, <3>2 DEF RoundInv
      <4> QED
        BY <2>1, <4>1 DEF Reported, Final
    <3> QED
      BY <2>0, <3>1, <3>2 DEF RoundInv
  <2> HIDE DEF r
  <2>6. r \in GroupAnswers(ToSet(group))
    BY <2>1, <2>3, <2>4, <2>5, ContractWitness
  <2> QED
    BY <2>6 DEF r
<1>2. IInv => KeepsContract
  BY <1>1 DEF KeepsContract
<1> QED
  BY <1>2, TicketsInductive, PTL
=============================================================================
