---------------------------- MODULE TelemetryRelay ----------------------------
(***************************************************************************)
(* The fleet manager's telemetry relay (telemetry.go,                      *)
(* telemetry_identity.go): replicas that share one signing identity they   *)
(* create on first start, and each replica's token bucket per install in a *)
(* table of bounded size.  Time is in minutes, so a minute adds Rate       *)
(* tokens; bodies, signatures and the collector's answer change no state.  *)
(***************************************************************************)
EXTENDS Naturals, FiniteSets

CONSTANTS Replicas, Senders,
          Rate, Burst,          \* tokens per minute, tokens at most
          TableSize,            \* buckets the table holds
          MaxMinute

ASSUME RelayAssumption ==
    /\ Rate \in Nat \ {0} /\ Burst \in Nat \ {0} /\ TableSize \in Nat /\ MaxMinute \in Nat
    /\ IsFiniteSet(Replicas) /\ IsFiniteSet(Senders)

VARIABLES identity,     \* the stored identity, 0 when there is none
          replica,      \* each replica: its start-up step and the identity it signs with
          bucket,       \* the table of one replica: sender -> tokens and time, or absent
          ideal,        \* history: a bucket per sender that is never evicted
          minute

relayVars == <<identity, replica, bucket, ideal, minute>>

Lower(a, b) == IF a < b THEN a ELSE b

(* The minutes after which an untouched bucket is full again, rounded up. *)
RefillTime == (Burst + Rate - 1) \div Rate

RelayTypeOK ==
    /\ identity \in 0..Cardinality(Replicas)
    /\ DOMAIN bucket \subseteq Senders /\ Cardinality(DOMAIN bucket) <= TableSize
    /\ \A s \in DOMAIN bucket : bucket[s].tokens \in 0..Burst /\ bucket[s].at \in 0..MaxMinute
    /\ minute \in 0..MaxMinute

RelayInit ==
    /\ identity = 0 /\ replica = [r \in Replicas |-> [pc |-> "down", id |-> 0]]
    /\ bucket = [s \in {} |-> 0] /\ minute = 0
    /\ ideal = [s \in Senders |-> [tokens |-> Burst, at |-> 0]]

-----------------------------------------------------------------------------
(* loadTelemetryIdentity: read, create when missing, read again after a conflict. *)

ReadIdentity(r) ==
    /\ replica[r].pc \in {"down", "reread"}
    /\ replica' = [replica EXCEPT ![r] =
          IF identity # 0 THEN [pc |-> "up", id |-> identity] ELSE [pc |-> "create", id |-> 0]]
    /\ UNCHANGED <<identity, bucket, ideal, minute>>

(* Mutant: the loser of the race keeps its own candidate. *)
CreateOwnIdentity(r) ==
    /\ replica[r].pc = "create"
    /\ \E id \in (1..Cardinality(Replicas)) \ {identity} :
         /\ identity' = IF identity = 0 THEN id ELSE identity
         /\ replica' = [replica EXCEPT ![r] = [pc |-> "up", id |-> id]]
    /\ UNCHANGED <<bucket, ideal, minute>>

CreateIdentity(r) ==
    /\ replica[r].pc = "create"
    /\ \E id \in (1..Cardinality(Replicas)) \ {identity} :
         IF identity = 0
         THEN /\ identity' = id
              /\ replica' = [replica EXCEPT ![r] = [pc |-> "up", id |-> id]]
         ELSE /\ replica' = [replica EXCEPT ![r].pc = "reread"]
              /\ UNCHANGED identity
    /\ UNCHANGED <<bucket, ideal, minute>>

(* A replica dies and is started again; a new process has an empty table, so the ideal bucket,
   which is about one process, starts over with it. *)
RestartReplica(r) ==
    /\ replica[r].pc # "down"
    /\ replica' = [replica EXCEPT ![r] = [pc |-> "down", id |-> 0]]
    /\ bucket' = [s \in {} |-> 0]
    /\ ideal' = [s \in Senders |-> [tokens |-> Burst, at |-> minute]]
    /\ UNCHANGED <<identity, minute>>

-----------------------------------------------------------------------------
(* telemetryProxy.allow *)

Refilled(b) == [tokens |-> Lower(Burst, b.tokens + (minute - b.at) * Rate), at |-> minute]

(* Mutant: buckets are evicted as soon as a token has come back. *)
EvictableSoon(b) == minute - b.at >= 1

Evictable(b) == minute - b.at >= RefillTime

(* A full table first drops the buckets that would be full again. *)
Table(s) ==
    IF s \in DOMAIN bucket \/ Cardinality(DOMAIN bucket) < TableSize THEN bucket
    ELSE [x \in {y \in DOMAIN bucket : ~Evictable(bucket[y])} |-> bucket[x]]

Spent(b) == [Refilled(b) EXCEPT !.tokens = @ - 1]
Put1(table, s, b) == [x \in DOMAIN table \cup {s} |-> IF x = s THEN b ELSE table[x]]

(* A request is counted against its sender's bucket, or refused when there is no room for one. *)
Allow(s) ==
    LET table == Table(s)
        room == s \in DOMAIN table \/ Cardinality(DOMAIN table) < TableSize
        mine == Refilled(IF s \in DOMAIN table THEN table[s]
                         ELSE [tokens |-> Burst, at |-> minute])
    IN  /\ \E r \in Replicas : replica[r].pc = "up"
        /\ IF room /\ mine.tokens >= 1
           THEN /\ bucket' = Put1(table, s, [mine EXCEPT !.tokens = @ - 1])
                /\ ideal' = [ideal EXCEPT ![s] =
                      IF Refilled(@).tokens >= 1 THEN Spent(@) ELSE [tokens |-> 0, at |-> MaxMinute + 1]]
           ELSE /\ bucket' = IF room THEN Put1(table, s, mine) ELSE table
                /\ UNCHANGED ideal
        /\ UNCHANGED <<identity, replica, minute>>

MinutePasses ==
    /\ minute < MaxMinute /\ minute' = minute + 1
    /\ UNCHANGED <<identity, replica, bucket, ideal>>

RelayNext ==
    \/ \E r \in Replicas : ReadIdentity(r) \/ CreateIdentity(r) \/ RestartReplica(r)
    \/ \E s \in Senders : Allow(s)
    \/ MinutePasses

-----------------------------------------------------------------------------
(* Replicas that started at the same time, or again later, sign with the one stored identity. *)
OneIdentity == \A r \in Replicas : replica[r].pc = "up" => replica[r].id = identity /\ identity # 0

(* Bounding the table never gives a sender tokens: whatever was evicted and created again, no
   request passes that a bucket kept for ever would have refused. *)
RateIsKept == \A s \in Senders : ideal[s].at <= MaxMinute
=============================================================================
