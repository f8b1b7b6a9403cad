---------------------------- MODULE FleetActivity ----------------------------
(***************************************************************************)
(* What the fleet manager remembers of each install's requests: the seen   *)
(* record with its throttle, and the content-addressed catalogs it names   *)
(* (fleet-manager seen.go, catalog.go).  A record is read and then put     *)
(* without a condition, so concurrent touches of one install may lose each *)
(* other's stamps.                                                         *)
(***************************************************************************)
EXTENDS Naturals, FiniteSets, TLC

CONSTANTS Members,        \* installs of the organization
          Touchers,       \* requests being served at a time
          Digests,        \* catalogs builds report
          Facts,          \* what request headers may say of a client
          Window,         \* the throttle interval, in ticks
          MaxTime

NoDigest == "none"

ASSUME ActivityAssumption == NoDigest \notin Digests /\ MaxTime \in Nat \ {0}

VARIABLES seen,           \* seen records, or NoSeen
          stored,         \* catalog objects in the store
          active,         \* installs not revoked
          latest,         \* history: the digest of each install's last config fetch to end
          overlapped,     \* history: touches of the install have overlapped since
          touch, time

activityVars == <<seen, stored, active, latest, overlapped, touch, time>>

NoSeen == [digest |-> NoDigest, config |-> 0, vend |-> 0, facts |-> "none"]
Resting == [pc |-> "resting"]

ActivityTypeOK ==
    /\ \A i \in Members : /\ seen[i].digest \in Digests \cup {NoDigest}
                          /\ seen[i].config \in 0..MaxTime /\ seen[i].vend \in 0..MaxTime
    /\ stored \subseteq Digests /\ active \subseteq Members
    /\ time \in 1..MaxTime

ActivityInit ==
    /\ seen = [i \in Members |-> NoSeen] /\ stored = {} /\ active = Members
    /\ latest = [i \in Members |-> NoDigest] /\ overlapped = [i \in Members |-> FALSE]
    /\ touch = [t \in Touchers |-> Resting] /\ time = 1

Busy(i) == {t \in Touchers : touch[t].pc # "resting" /\ touch[t].install = i}

(* An authenticated request of an active install reads its seen record; facts are its headers. *)
TouchReads(t) ==
    /\ touch[t].pc = "resting"
    /\ \E i \in active, event \in {"enrollment", "config", "vend"}, facts \in Facts,
          digest \in Digests \cup {NoDigest} :
         /\ event # "config" => digest = NoDigest
         /\ touch' = [u \in Touchers |->
               IF u = t
               THEN [pc |-> "decide", install |-> i, event |-> event, facts |-> facts,
                     digest |-> IF event = "config" THEN digest ELSE seen[i].digest,
                     rec |-> seen[i], at |-> time, alone |-> Busy(i) = {}]
               ELSE IF u \in Busy(i) THEN [touch[u] EXCEPT !.alone = FALSE] ELSE touch[u]]
    /\ UNCHANGED <<seen, stored, active, latest, overlapped, time>>

(* Mutant: the throttle looks at the time alone. *)
FreshEnoughByTime(q) ==
    LET at == CASE q.event = "config" -> q.rec.config [] q.event = "vend" -> q.rec.vend
                [] OTHER -> 0
    IN  at # 0 /\ q.at - at < Window

(* The event was recorded within the window and nothing it reports has changed. *)
FreshEnough(q) ==
    LET at == CASE q.event = "config" -> q.rec.config [] q.event = "vend" -> q.rec.vend
                [] OTHER -> 0
    IN  /\ q.rec.facts = q.facts /\ q.digest = q.rec.digest
        /\ at # 0 /\ q.at - at < Window

Ends(t) ==
    /\ touch' = [touch EXCEPT ![t] = Resting]
    /\ overlapped' = [overlapped EXCEPT ![touch[t].install] =
                        ~touch[t].alone \/ (@ /\ touch[t].event # "config")]
    /\ latest' = IF touch[t].event = "config"
                 THEN [latest EXCEPT ![touch[t].install] = touch[t].digest] ELSE latest

TouchSkips(t) ==
    /\ touch[t].pc = "decide" /\ FreshEnough(touch[t])
    /\ Ends(t)
    /\ UNCHANGED <<seen, stored, active, time>>

(* Mutant: the record is put first, its catalog stored afterwards. *)
StoreCatalogLast(t) ==
    /\ touch[t].pc = "decide" /\ ~FreshEnough(touch[t])
    /\ touch' = [touch EXCEPT ![t].pc = "put"]
    /\ UNCHANGED <<seen, stored, active, latest, overlapped, time>>

(* A catalog the record does not name yet is created before the record names it. *)
StoreCatalog(t) ==
    LET q == touch[t]
    IN  /\ q.pc = "decide" /\ ~FreshEnough(q)
        /\ stored' = IF q.digest \notin {q.rec.digest, NoDigest} THEN stored \cup {q.digest}
                     ELSE stored
        /\ touch' = [touch EXCEPT ![t].pc = "put"]
        /\ UNCHANGED <<seen, active, latest, overlapped, time>>

PutSeen(t) ==
    LET q == touch[t]
    IN  /\ q.pc = "put"
        /\ seen' = [seen EXCEPT ![q.install] =
              [digest |-> q.digest, facts |-> q.facts,
               config |-> IF q.event = "config" THEN q.at ELSE q.rec.config,
               vend |-> IF q.event = "vend" THEN q.at ELSE q.rec.vend]]
        /\ Ends(t)
        /\ UNCHANGED <<stored, active, time>>

(* The write timed out or the replica died; the request itself is not failed by it. *)
TouchAbandoned(t) ==
    /\ touch[t].pc # "resting"
    /\ touch' = [touch EXCEPT ![t] = Resting]
    /\ overlapped' = [overlapped EXCEPT ![touch[t].install] = TRUE]
    /\ UNCHANGED <<seen, stored, active, latest, time>>

RevokeMember ==
    /\ \E i \in active : active' = active \ {i}
    /\ UNCHANGED <<seen, stored, latest, overlapped, touch, time>>

TimePasses ==
    /\ time < MaxTime /\ time' = time + 1
    /\ UNCHANGED <<seen, stored, active, latest, overlapped, touch>>

ActivityNext ==
    \/ \E t \in Touchers : \/ TouchReads(t) \/ TouchSkips(t) \/ StoreCatalog(t) \/ PutSeen(t)
                           \/ TouchAbandoned(t)
    \/ RevokeMember \/ TimePasses

-----------------------------------------------------------------------------
(* FleetCatalog: one catalog per active install whose record names one that loads. *)
Reporting == {i \in active : seen[i].digest \in stored /\ seen[i].config # 0}

(* "A digest on record always resolves": validating a collection against the fleet never misses
   an install because its catalog was not stored yet, whatever died between the two writes. *)
DigestResolves ==
    \A i \in Members : seen[i].digest # NoDigest =>
        seen[i].digest \in stored /\ (i \in active => i \in Reporting)

(* The throttle never hides a changed catalog: unless another touch of the same install overlapped
   or failed, the record names what the last config fetch reported. *)
CatalogIsLatest == \A i \in Members : ~overlapped[i] => seen[i].digest = latest[i]
=============================================================================
