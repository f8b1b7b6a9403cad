------------------------- MODULE FleetRecordsProofs -------------------------
(***************************************************************************)
(* Proofs about the fleet manager's records, for any requests, replicas,   *)
(* installs, catalogs, rates and bounds.                                   *)
(***************************************************************************)
EXTENDS MCFleetRecords, FiniteSetTheorems, TLAPS

-----------------------------------------------------------------------------
(* Activity: seen records and catalogs. *)

Events == {"enrollment", "config", "vend"}
SeenRecords == [digest : Digests \cup {NoDigest}, config : 0..MaxTime,
                vend : 0..MaxTime, facts : Facts \cup {"none"}]
Touches == [pc : {"decide", "put"}, install : Members, event : Events, facts : Facts,
            digest : Digests \cup {NoDigest}, rec : SeenRecords, at : 1..MaxTime,
            alone : BOOLEAN]

ActivityTypes ==
    /\ seen \in [Members -> SeenRecords]
    /\ stored \subseteq Digests /\ active \subseteq Members
    /\ latest \in [Members -> Digests \cup {NoDigest}]
    /\ overlapped \in [Members -> BOOLEAN]
    /\ touch \in [Touchers -> Touches \cup {Resting}]
    /\ time \in 1..MaxTime

(* A record that names a catalog names one that is stored, and the config  *)
(* fetch that reported it is stamped.                                      *)
Resolves(rec) == rec.digest # NoDigest => rec.digest \in stored /\ rec.config # 0

(* A touch writes what its own event reports and carries the rest over,    *)
(* from the record as it is if no touch of the install has overlapped it.  *)
TouchInv(t) ==
    touch[t] # Resting =>
      /\ Resolves(touch[t].rec)
      /\ touch[t].event # "config" => touch[t].digest = touch[t].rec.digest
      /\ touch[t].pc = "put" /\ touch[t].digest # NoDigest => touch[t].digest \in stored
      /\ touch[t].alone => /\ touch[t].rec = seen[touch[t].install]
                           /\ Busy(touch[t].install) = {t}

ActivityInv ==
    /\ ActivityTypes
    /\ \A i \in Members : Resolves(seen[i])
    /\ \A t \in Touchers : TouchInv(t)
    /\ CatalogIsLatest

-----------------------------------------------------------------------------
(* Tags: edits under way. *)

TagBodies == [name : TagNames \cup {None}, meta : [TagKeys -> TagValues \cup {None}]]
EditKinds == {"name", "ifMissing", "patch"}
ReadEdits ==
    [pc : {"read"}, install : TagInstalls, kind : EditKinds, name : TagNames \cup {None},
     key : TagKeys, value : TagValues \cup {None}, tries : Nat]
WriteEdits ==
    [pc : {"write"}, install : TagInstalls, kind : EditKinds, name : TagNames \cup {None},
     key : TagKeys, value : TagValues \cup {None}, tries : Nat, version : Nat, new : TagBodies]

TagTypes ==
    /\ tags \in [TagInstalls -> [body : TagBodies, version : Nat]]
    /\ edit \in [TagEditors -> {Quiet} \cup ReadEdits \cup WriteEdits]
    /\ serial \in [TagInstalls -> TagBodies]

(* What an edit will write is itself applied to the record at the version  *)
(* it read, and passed validation.                                         *)
EditInv(e) ==
    edit[e].pc = "write" =>
      /\ Acceptable(edit[e].new)
      /\ edit[e].version <= tags[edit[e].install].version
      /\ edit[e].version = tags[edit[e].install].version =>
            edit[e].new = Applied(edit[e], tags[edit[e].install].body)

TagInv ==
    /\ TagTypes /\ TagsTypeOK
    /\ \A e \in TagEditors : EditInv(e)
    /\ EditsAreSerial

-----------------------------------------------------------------------------
(* The relay: identities and buckets. *)

Ids == 0..Cardinality(Replicas)
Buckets == [tokens : 0..Burst, at : 0..minute]

(* What a bucket holds now. *)
Level(b) == Lower(Burst, b.tokens + (minute - b.at) * Rate)

RelayTypes ==
    /\ RelayTypeOK
    /\ replica \in [Replicas -> [pc : {"down", "reread", "create", "up"}, id : Ids]]
    /\ \A s \in DOMAIN bucket : bucket[s] \in Buckets
    /\ ideal \in [Senders -> Buckets]

(* No sender has more than the bucket it would have without evictions: one *)
(* that has no bucket would have a full one.                               *)
LevelInv ==
    \A s \in Senders : IF s \in DOMAIN bucket THEN Level(bucket[s]) <= Level(ideal[s])
                                              ELSE Level(ideal[s]) = Burst

RelayInv == RelayTypes /\ OneIdentity /\ LevelInv

-----------------------------------------------------------------------------
(* Administration: the configuration and its authors. *)

Authors == {"administrator", "partner"}
Stateable == {"coll", "rest", "install", "reset"}
Configs == [coll : Collections \cup {Broken}, install : Switch, rest : Settings,
            stamp : 0..MaxStamp, version : 1..MaxVersion]
Contents == [coll : Collections, install : Switch, rest : Settings, stamp : 0..MaxStamp]
Records == [content : Contents, author : Authors]
LoadRequests ==
    [pc : {"load"}, who : Authors, kind : {"create", "putConfig", "putCollection"},
     coll : Collections \cup {Keep}, install : Switch \cup {Keep}, rest : Settings \cup {Keep},
     match : 0..MaxVersion]
PrepareRequests ==
    [pc : {"prepare"}, who : Authors, match : 0..MaxVersion, coll : Collections,
     install : Switch, rest : Settings, stated : SUBSET Stateable]
CommitRequests ==
    [pc : {"commit"}, who : Authors, match : 0..MaxVersion,
     stated : SUBSET Stateable, content : Contents]

AdminRequests == {Idle} \cup LoadRequests \cup PrepareRequests \cup CommitRequests

ConfigTypes ==
    /\ config \in Configs \cup {NoConfig}
    /\ authorship \subseteq Records
    /\ clock \in 1..MaxStamp
    /\ request \in [Requests -> AdminRequests]

(* A write whose version still matches carries over what is stored, except *)
(* the boolean a full edit leaves out, which becomes false.                *)
CarriesOver(q, coll, install, rest) ==
    /\ q.match <= config.version
    /\ q.stated \subseteq {"coll"} \/ q.who = "administrator"
    /\ q.match = config.version /\ q.match # 0 =>
          /\ "coll" \notin q.stated => coll = config.coll
          /\ "rest" \notin q.stated => rest = config.rest
          /\ \/ install = config.install \/ "install" \in q.stated
             \/ "reset" \in q.stated /\ install = "off"

RequestOK(q) ==
    /\ q \in LoadRequests =>
          /\ q.match <= config.version
          /\ q.kind = "create" => q.coll # Keep /\ q.rest # Keep
          /\ q.kind # "create" => q.match # 0
          /\ q.who = "partner" => q.kind = "putCollection"
          /\ q.kind = "putCollection" => q.rest = Keep /\ q.install = Keep
    /\ q \in PrepareRequests => CarriesOver(q, q.coll, q.install, q.rest)
    /\ q \in CommitRequests =>
          /\ CarriesOver(q, q.content.coll, q.content.install, q.content.rest)
          /\ [content |-> q.content, author |-> q.who] \in authorship

(* Content has one author, and a record was there before the configuration *)
(* that it is about.                                                       *)
AuthorInv ==
    /\ \A a, b \in authorship : a.content = b.content => a = b
    /\ config # NoConfig =>
          \/ config.coll = Broken /\ committedBy = "unknown"
          \/ [content |-> ContentOf(config), author |-> committedBy] \in authorship

ConfigInv == ConfigTypes /\ AuthorInv /\ \A r \in Requests : RequestOK(request[r])

(* Administration: the partner's credential. *)

Partners == [secret : 0..MaxSecret, revoked : BOOLEAN, version : Nat]

PartnerTypes ==
    /\ partner \in Partners
    /\ issued \subseteq 1..MaxSecret /\ ended \subseteq 1..MaxSecret
    /\ minting \in [Requests -> {Idle} \cup [pc : {"mint", "revoke"}, record : Partners]]

(* A record read at the present version is the present record. *)
PartnerInv ==
    /\ PartnerTypes
    /\ MintedSecretWorks
    /\ \A r \in Requests : minting[r] # Idle =>
          /\ minting[r].record.version <= partner.version
          /\ minting[r].record.version = partner.version => minting[r].record = partner

IInv == ConfigInv /\ PartnerInv /\ ActivityInv /\ TagInv /\ RelayInv

-----------------------------------------------------------------------------
(* Activity. *)

(* A touch under way is a touch. *)
LEMMA TouchFacts ==
    ASSUME ActivityTypes, NEW t \in Touchers
    PROVE  /\ touch[t].pc # "resting" <=> touch[t] # Resting
           /\ touch[t] # Resting => touch[t] \in Touches
BY DEF ActivityTypes, Touches, Resting

(* Busy, of the touches as they are. *)
LEMMA BusyIs ==
    ASSUME ActivityTypes, NEW i \in Members
    PROVE  Busy(i) = {t \in Touchers : touch[t] # Resting /\ touch[t].install = i}
BY TouchFacts DEF Busy

(* The activity invariant holds of a new organization. *)
LEMMA ActivityStarts == ActivityInit => ActivityInv
<1> SUFFICES ASSUME ActivityInit PROVE ActivityInv
  OBVIOUS
<1>1. NoSeen \in SeenRecords
  BY ActivityAssumption DEF NoSeen, SeenRecords
<1>2. overlapped \in [Members -> BOOLEAN]
  <2>1. FALSE \in BOOLEAN
    BY Zenon
  <2> QED BY <2>1, Zenon DEF ActivityInit
<1>3. ActivityTypes
  BY <1>1, <1>2, ActivityAssumption DEF ActivityInit, ActivityTypes
<1>4. \A i \in Members : Resolves(seen[i])
  BY DEF ActivityInit, Resolves, NoSeen
<1>5. \A t \in Touchers : TouchInv(t)
  BY DEF ActivityInit, TouchInv
<1>6. CatalogIsLatest
  BY DEF ActivityInit, CatalogIsLatest, NoSeen
<1> QED BY <1>3, <1>4, <1>5, <1>6 DEF ActivityInv

(* A touch that ends leaves the others as they are, and frees its install. *)
LEMMA TouchGoes ==
    ASSUME ActivityTypes, ActivityTypes', NEW t \in Touchers,
           touch' = [touch EXCEPT ![t] = Resting]
    PROVE  /\ touch'[t] = Resting
           /\ \A u \in Touchers \ {t} : touch'[u] = touch[u]
           /\ \A i \in Members : Busy(i)' = Busy(i) \ {t}
<1>1. touch'[t] = Resting /\ \A u \in Touchers \ {t} : touch'[u] = touch[u]
  BY DEF ActivityTypes
<1>2. \A i \in Members : Busy(i)' = Busy(i) \ {t}
  BY <1>1 DEF Busy, Resting
<1> QED BY <1>1, <1>2

(* A request reads the record: it may not be alone any more. *)
LEMMA ReadsKeeps ==
    ASSUME ActivityInv, NEW t \in Touchers, TouchReads(t)
    PROVE  ActivityInv'
<1> USE DEF ActivityInv
<1>0. touch[t] = Resting
  BY TouchFacts DEF TouchReads
<1>1. PICK i \in active, event \in Events, facts \in Facts, digest \in Digests \cup {NoDigest} :
        /\ event # "config" => digest = NoDigest
        /\ touch' = [u \in Touchers |->
               IF u = t
               THEN [pc |-> "decide", install |-> i, event |-> event, facts |-> facts,
                     digest |-> IF event = "config" THEN digest ELSE seen[i].digest,
                     rec |-> seen[i], at |-> time, alone |-> Busy(i) = {}]
               ELSE IF u \in Busy(i) THEN [touch[u] EXCEPT !.alone = FALSE] ELSE touch[u]]
  BY DEF TouchReads, Events
<1>i. i \in Members /\ seen[i] \in SeenRecords
  BY DEF ActivityTypes
<1>d. seen[i].digest \in Digests \cup {NoDigest}
  BY <1>i DEF SeenRecords
<1>b. (Busy(i) = {}) \in BOOLEAN
  BY Zenon
<1>2. touch'[t] \in Touches
  BY <1>1, <1>i, <1>d, <1>b DEF Touches, ActivityTypes
<1>3. \A u \in Touchers \ {t} :
        \/ touch'[u] = touch[u] /\ u \notin Busy(i)
        \/ /\ u \in Busy(i) /\ touch[u] \in Touches /\ touch'[u] \in Touches
           /\ touch'[u] = [touch[u] EXCEPT !.alone = FALSE]
  <2> SUFFICES ASSUME NEW u \in Touchers \ {t}, u \in Busy(i)
               PROVE  /\ touch[u] \in Touches /\ touch'[u] \in Touches
                      /\ touch'[u] = [touch[u] EXCEPT !.alone = FALSE]
    BY <1>1
  <2>1. touch[u] \in Touches
    BY <1>i, BusyIs, TouchFacts
  <2>2. touch'[u] = [touch[u] EXCEPT !.alone = FALSE]
    BY <1>1
  <2>3. FALSE \in BOOLEAN
    BY Zenon
  <2> QED BY <2>1, <2>2, <2>3 DEF Touches
<1>4. ActivityTypes'
  <2>1. \A u \in Touchers : touch'[u] \in Touches \cup {Resting}
    BY <1>2, <1>3 DEF ActivityTypes
  <2>2. touch' \in [Touchers -> Touches \cup {Resting}]
    BY <1>1, <2>1
  <2> QED BY <2>2 DEF TouchReads, ActivityTypes
<1>u. UNCHANGED <<seen, stored, active, latest, overlapped, time>>
  BY DEF TouchReads
<1>5. \A u \in Touchers \ {t} :
        /\ touch'[u] = Resting <=> touch[u] = Resting
        /\ touch[u] # Resting =>
             /\ touch'[u].pc = touch[u].pc /\ touch'[u].install = touch[u].install
             /\ touch'[u].event = touch[u].event /\ touch'[u].digest = touch[u].digest
             /\ touch'[u].rec = touch[u].rec
             /\ touch'[u].alone => touch'[u] = touch[u] /\ u \notin Busy(i)
  <2> SUFFICES ASSUME NEW u \in Touchers \ {t}
               PROVE  /\ touch'[u] = Resting <=> touch[u] = Resting
                      /\ touch[u] # Resting =>
                           /\ touch'[u].pc = touch[u].pc /\ touch'[u].install = touch[u].install
                           /\ touch'[u].event = touch[u].event /\ touch'[u].digest = touch[u].digest
                           /\ touch'[u].rec = touch[u].rec
                           /\ touch'[u].alone => touch'[u] = touch[u] /\ u \notin Busy(i)
    OBVIOUS
  <2>1. CASE touch'[u] = touch[u] /\ u \notin Busy(i)
    BY <2>1
  <2>2. CASE touch[u] \in Touches /\ touch'[u] = [touch[u] EXCEPT !.alone = FALSE]
    <3>1. touch'[u].pc # "resting" /\ touch[u].pc # "resting"
      BY <2>2 DEF Touches
    <3>2. touch'[u] # Resting /\ touch[u] # Resting
      BY <3>1 DEF Resting
    <3>3. ~touch'[u].alone
      BY <2>2 DEF Touches
    <3> QED BY <2>2, <3>2, <3>3 DEF Touches
  <2> QED BY <1>3, <2>1, <2>2
<1>6. touch'[t].install = i /\ touch'[t] # Resting
  <2>1. touch'[t].pc = "decide" /\ touch'[t].install = i
    BY <1>1
  <2> QED BY <2>1 DEF Resting
<1>7. \A j \in Members : Busy(j)' = IF j = i THEN Busy(j) \cup {t} ELSE Busy(j)
  <2> SUFFICES ASSUME NEW j \in Members, NEW u \in Touchers
               PROVE  u \in Busy(j)' <=> (u \in Busy(j) \/ (u = t /\ j = i))
    BY DEF Busy
  <2>1. u \in Busy(j)' <=> touch'[u] # Resting /\ touch'[u].install = j
    BY <1>2, <1>4, TouchFacts DEF Busy, ActivityTypes, Touches, Resting
  <2>2. u \in Busy(j) <=> touch[u] # Resting /\ touch[u].install = j
    BY BusyIs
  <2> QED BY <1>0, <1>5, <1>6, <2>1, <2>2
<1>8. \A u \in Touchers : TouchInv(u)'
  <2> SUFFICES ASSUME NEW u \in Touchers PROVE TouchInv(u)'
    OBVIOUS
  <2>1. CASE u # t
    <3>1. CASE touch[u] = Resting
      BY <1>5, <2>1, <3>1 DEF TouchInv
    <3>2. CASE touch[u] # Resting
      <4>1. touch[u].install \in Members
        BY <3>2, TouchFacts DEF Touches
      <4>2. touch'[u].alone => touch[u].install # i /\ Busy(touch[u].install)' = {u}
        BY <1>5, <1>7, <2>1, <3>2, <4>1, BusyIs, <1>i DEF TouchInv
      <4> QED BY <1>5, <1>u, <2>1, <3>2, <4>2 DEF TouchInv, Resolves
    <3> QED BY <3>1, <3>2
  <2>2. CASE u = t
    <3>1. /\ touch'[t].rec = seen[i] /\ touch'[t].install = i /\ touch'[t].pc = "decide"
          /\ touch'[t].event # "config" => touch'[t].digest = seen[i].digest
          /\ touch'[t].alone = (Busy(i) = {})
      BY <1>1
    <3>2. Resolves(seen[i])'
      BY <1>i, <1>u DEF Resolves
    <3>3. touch'[t].alone => Busy(i)' = {t}
      BY <1>7, <1>i, <3>1
    <3> QED BY <1>u, <2>2, <3>1, <3>2, <3>3 DEF TouchInv, Resolves
  <2> QED BY <2>1, <2>2
<1>9. (\A j \in Members : Resolves(seen[j]))' /\ CatalogIsLatest'
  BY <1>u DEF Resolves, CatalogIsLatest
<1> QED BY <1>4, <1>8, <1>9

(* A touch that ends, having written its record, found it fresh, or been   *)
(* abandoned.                                                              *)
LEMMA EndsKeeps ==
    ASSUME ActivityInv, NEW t \in Touchers,
           TouchSkips(t) \/ PutSeen(t) \/ TouchAbandoned(t)
    PROVE  ActivityInv'
<1> USE DEF ActivityInv
<1> DEFINE q == touch[t]
           i == q.install
<1>0. q \in Touches /\ q # Resting /\ TouchInv(t)
  <2>1. q.pc # "resting"
    BY DEF TouchSkips, PutSeen, TouchAbandoned
  <2> QED BY <2>1, TouchFacts
<1>f. /\ i \in Members /\ q.digest \in Digests \cup {NoDigest} /\ q.alone \in BOOLEAN
      /\ q.rec \in SeenRecords /\ q.at \in 1..MaxTime /\ q.facts \in Facts
  BY <1>0 DEF Touches
<1>t. touch' = [touch EXCEPT ![t] = Resting] /\ UNCHANGED <<stored, active, time>>
  BY DEF TouchSkips, PutSeen, TouchAbandoned, Ends
<1>s. \/ UNCHANGED seen
      \/ /\ PutSeen(t)
         /\ seen' = [seen EXCEPT ![i] =
              [digest |-> q.digest, facts |-> q.facts,
               config |-> IF q.event = "config" THEN q.at ELSE q.rec.config,
               vend |-> IF q.event = "vend" THEN q.at ELSE q.rec.vend]]
  BY DEF TouchSkips, PutSeen, TouchAbandoned
<1>n. [digest |-> q.digest, facts |-> q.facts,
       config |-> IF q.event = "config" THEN q.at ELSE q.rec.config,
       vend |-> IF q.event = "vend" THEN q.at ELSE q.rec.vend] \in SeenRecords
  <2>1. q.rec.config \in 0..MaxTime /\ q.rec.vend \in 0..MaxTime /\ q.at \in 0..MaxTime
    BY <1>f, ActivityAssumption DEF SeenRecords
  <2> QED BY <1>f, <2>1 DEF SeenRecords
<1>1. seen' \in [Members -> SeenRecords]
  BY <1>f, <1>s, <1>n DEF ActivityTypes
<1>2. overlapped' \in [Members -> BOOLEAN]
  <2>1. CASE TouchAbandoned(t)
    <3>1. TRUE \in BOOLEAN
      BY Zenon
    <3> QED BY <1>f, <2>1, <3>1, Zenon DEF TouchAbandoned, ActivityTypes
  <2>2. CASE Ends(t)
    <3>1. PICK b \in BOOLEAN : overlapped' = [overlapped EXCEPT ![i] = b]
      <4>1. (~touch[t].alone \/ (overlapped[i] /\ touch[t].event # "config")) \in BOOLEAN
        BY Zenon
      <4> QED BY <2>2, <4>1, Zenon DEF Ends
    <3> QED BY <1>f, <3>1, Zenon DEF ActivityTypes
  <2> QED BY <2>1, <2>2 DEF TouchSkips, PutSeen
<1>3. latest' \in [Members -> Digests \cup {NoDigest}]
  BY <1>f DEF TouchSkips, PutSeen, TouchAbandoned, Ends, ActivityTypes
<1>4. ActivityTypes'
  BY <1>1, <1>2, <1>3, <1>t DEF ActivityTypes
<1>5. /\ touch'[t] = Resting
      /\ \A u \in Touchers \ {t} : touch'[u] = touch[u]
      /\ \A j \in Members : Busy(j)' = Busy(j) \ {t}
  BY <1>4, <1>t, TouchGoes
<1>6. \A j \in Members : j # i => seen'[j] = seen[j]
  BY <1>f, <1>s DEF ActivityTypes
<1>7. \A j \in Members : Resolves(seen[j])'
  <2> SUFFICES ASSUME NEW j \in Members PROVE Resolves(seen[j])'
    OBVIOUS
  <2>1. CASE seen'[j] = seen[j]
    BY <1>t, <2>1 DEF Resolves
  <2>2. CASE seen'[j] # seen[j]
    <3>1. /\ j = i /\ seen'[j].digest = q.digest /\ q.pc = "put"
          /\ seen'[j].config = IF q.event = "config" THEN q.at ELSE q.rec.config
      BY <1>f, <1>s, <1>6, <2>2 DEF ActivityTypes, PutSeen
    <3> QED BY <1>0, <1>f, <1>t, <3>1 DEF TouchInv, Resolves
  <2> QED BY <2>1, <2>2
<1>8. \A u \in Touchers : TouchInv(u)'
  <2> SUFFICES ASSUME NEW u \in Touchers, u # t, touch[u] # Resting
               PROVE  TouchInv(u)'
    BY <1>5 DEF TouchInv
  <2>1. touch[u].install \in Members /\ touch'[u] = touch[u] /\ TouchInv(u)
    BY <1>5, TouchFacts DEF Touches
  <2>2. touch[u].alone => touch[u].install # i /\ Busy(touch[u].install)' = {u}
    <3>1. t \in Busy(i)
      BY <1>0, <1>f, BusyIs
    <3> QED BY <1>5, <2>1, <3>1 DEF TouchInv
  <2> QED BY <1>t, <1>6, <2>1, <2>2 DEF TouchInv, Resolves
<1>9. CatalogIsLatest'
  <2> SUFFICES ASSUME NEW j \in Members, ~overlapped'[j]
               PROVE  seen'[j].digest = latest'[j]
    BY DEF CatalogIsLatest
  <2>1. CASE j # i
    <3>1. overlapped'[j] = overlapped[j] /\ latest'[j] = latest[j]
      BY <1>f, <2>1 DEF TouchSkips, PutSeen, TouchAbandoned, Ends, ActivityTypes
    <3> QED BY <1>6, <2>1, <3>1 DEF CatalogIsLatest
  <2>2. CASE j = i
    <3>1. Ends(t)
      BY <1>f, <2>2 DEF TouchSkips, PutSeen, TouchAbandoned, ActivityTypes
    <3>2. q.alone /\ (overlapped[i] => q.event = "config")
      BY <1>f, <2>2, <3>1 DEF Ends, ActivityTypes
    <3>3. q.rec = seen[i]
      BY <1>0, <3>2 DEF TouchInv
    <3>4. seen'[i].digest = q.digest
      <4>1. CASE TouchSkips(t)
        BY <3>3, <4>1 DEF TouchSkips, FreshEnough
      <4>2. CASE PutSeen(t)
        BY <1>f, <4>2 DEF PutSeen, ActivityTypes
      <4>3. ~TouchAbandoned(t)
        BY <1>f, <2>2 DEF TouchAbandoned, ActivityTypes
      <4> QED BY <4>1, <4>2, <4>3
    <3>5. CASE q.event = "config"
      BY <1>f, <2>2, <3>1, <3>4, <3>5 DEF Ends, ActivityTypes
    <3>6. CASE q.event # "config"
      <4>1. q.digest = seen[i].digest
        BY <1>0, <3>3, <3>6 DEF TouchInv
      <4>2. seen[i].digest = latest[i]
        BY <1>f, <3>2, <3>6 DEF CatalogIsLatest
      <4> QED BY <2>2, <3>1, <3>4, <3>6, <4>1, <4>2 DEF Ends
    <3> QED BY <3>5, <3>6
  <2> QED BY <2>1, <2>2
<1> QED BY <1>4, <1>7, <1>8, <1>9

(* A catalog is stored before the record names it. *)
LEMMA StoreKeeps ==
    ASSUME ActivityInv, NEW t \in Touchers, StoreCatalog(t)
    PROVE  ActivityInv'
<1> USE DEF ActivityInv
<1>0. touch[t] \in Touches /\ touch[t] # Resting /\ TouchInv(t)
  <2>1. touch[t].pc # "resting"
    BY DEF StoreCatalog
  <2> QED BY <2>1, TouchFacts
<1>1. touch[t].digest \in Digests \cup {NoDigest}
  BY <1>0 DEF Touches
<1>2. stored \subseteq stored' /\ stored' \subseteq Digests
  BY <1>1 DEF StoreCatalog, ActivityTypes
<1>3. /\ touch'[t] = [touch[t] EXCEPT !.pc = "put"]
      /\ \A u \in Touchers \ {t} : touch'[u] = touch[u]
  BY DEF StoreCatalog, ActivityTypes
<1>4. touch'[t] \in Touches /\ touch'[t].pc = "put"
  BY <1>0, <1>3 DEF Touches
<1>5. /\ touch'[t].install = touch[t].install /\ touch'[t].event = touch[t].event
      /\ touch'[t].digest = touch[t].digest /\ touch'[t].rec = touch[t].rec
      /\ touch'[t].alone = touch[t].alone
  BY <1>0, <1>3 DEF Touches
<1>6. UNCHANGED <<seen, active, latest, overlapped, time>>
  BY DEF StoreCatalog
<1>7. ActivityTypes'
  <2>1. touch' \in [Touchers -> Touches \cup {Resting}]
    BY <1>3, <1>4 DEF StoreCatalog, ActivityTypes
  <2> QED BY <1>2, <1>6, <2>1 DEF ActivityTypes
<1>8. touch'[t] # Resting
  BY <1>4 DEF Resting
<1>9. \A j \in Members : Busy(j)' = Busy(j)
  <2>1. touch'[t].pc # "resting" /\ touch[t].pc # "resting"
    BY <1>0, <1>4, TouchFacts
  <2>2. ASSUME NEW j \in Members, NEW u \in Touchers
        PROVE  (touch'[u].pc # "resting" /\ touch'[u].install = j)
                  <=> (touch[u].pc # "resting" /\ touch[u].install = j)
    BY <1>3, <1>5, <2>1
  <2> QED BY <2>2 DEF Busy
<1>10. \A u \in Touchers : TouchInv(u)'
  <2> SUFFICES ASSUME NEW u \in Touchers PROVE TouchInv(u)'
    OBVIOUS
  <2>1. CASE u # t
    <3>1. touch[u] # Resting => touch[u].install \in Members
      BY TouchFacts DEF Touches
    <3> QED BY <1>2, <1>3, <1>6, <1>9, <2>1, <3>1 DEF TouchInv, Resolves
  <2>2. CASE u = t
    <3>1. touch[t].digest # NoDigest => touch[t].digest \in stored'
      <4>1. CASE touch[t].digest = touch[t].rec.digest
        BY <1>0, <1>2, <4>1 DEF TouchInv, Resolves
      <4>2. CASE touch[t].digest # touch[t].rec.digest
        BY <4>2 DEF StoreCatalog
      <4> QED BY <4>1, <4>2
    <3>2. touch[t].install \in Members
      BY <1>0 DEF Touches
    <3> QED BY <1>0, <1>2, <1>5, <1>6, <1>9, <2>2, <3>1, <3>2 DEF TouchInv, Resolves
  <2> QED BY <2>1, <2>2
<1>11. (\A j \in Members : Resolves(seen[j]))' /\ CatalogIsLatest'
  BY <1>2, <1>6 DEF Resolves, CatalogIsLatest
<1> QED BY <1>7, <1>10, <1>11

(* Every step keeps the activity invariant, and it says what it is for. *)
LEMMA ActivityKept == ActivityInv /\ [ActivityNext]_activityVars => ActivityInv'
<1> SUFFICES ASSUME ActivityInv, [ActivityNext]_activityVars PROVE ActivityInv'
  OBVIOUS
<1>1. CASE \E t \in Touchers : TouchReads(t) \/ TouchSkips(t) \/ StoreCatalog(t)
                               \/ PutSeen(t) \/ TouchAbandoned(t)
  BY <1>1, ReadsKeeps, EndsKeeps, StoreKeeps
<1>2. CASE RevokeMember \/ TimePasses \/ UNCHANGED activityVars
  <2>1. UNCHANGED <<seen, stored, latest, overlapped, touch>>
    BY <1>2 DEF RevokeMember, TimePasses, activityVars
  <2>2. active' \subseteq Members /\ time' \in 1..MaxTime
    BY <1>2, ActivityAssumption DEF RevokeMember, TimePasses, activityVars, ActivityInv, ActivityTypes
  <2>3. ActivityTypes'
    BY <2>1, <2>2 DEF ActivityInv, ActivityTypes
  <2>4. \A t \in Touchers : TouchInv(t)'
    BY <2>1 DEF ActivityInv, TouchInv, Busy, Resolves
  <2> QED BY <2>1, <2>3, <2>4 DEF ActivityInv, Resolves, CatalogIsLatest
<1> QED BY <1>1, <1>2 DEF ActivityNext

(* The activity invariant gives what is checked. *)
LEMMA ActivityShows == ActivityInv => ActivityTypeOK /\ DigestResolves /\ CatalogIsLatest
<1> SUFFICES ASSUME ActivityInv PROVE ActivityTypeOK /\ DigestResolves
  BY DEF ActivityInv
<1>1. ActivityTypeOK
  BY DEF ActivityInv, ActivityTypes, SeenRecords, ActivityTypeOK
<1>2. DigestResolves
  BY DEF ActivityInv, Resolves, DigestResolves, Reporting
<1> QED BY <1>1, <1>2

-----------------------------------------------------------------------------
(* Tags. *)

(* An edit turns a record into a record. *)
LEMMA AppliedFacts ==
    ASSUME NEW q, q \in ReadEdits \cup WriteEdits, NEW body \in TagBodies
    PROVE  Applied(q, body) \in TagBodies
<1>0. /\ q.kind \in EditKinds /\ q.name \in TagNames \cup {None}
      /\ q.key \in TagKeys /\ q.value \in TagValues \cup {None}
  BY DEF ReadEdits, WriteEdits
<1>1. [body EXCEPT !.name = q.name] \in TagBodies
  BY <1>0 DEF TagBodies
<1>2. [body EXCEPT !.meta[q.key] = q.value] \in TagBodies
  BY <1>0 DEF TagBodies
<1>3. CASE q.kind = "name"
  BY <1>1, <1>3 DEF Applied
<1>4. CASE q.kind = "ifMissing"
  BY <1>1, <1>4 DEF Applied
<1>5. CASE q.kind = "patch"
  BY <1>2, <1>5 DEF Applied
<1> QED BY <1>0, <1>3, <1>4, <1>5 DEF EditKinds

(* Two edits that ask for the same do the same. *)
LEMMA AppliedSame ==
    ASSUME NEW p, NEW q, NEW body, p.kind = q.kind, p.name = q.name, p.key = q.key,
           p.value = q.value
    PROVE  Applied(p, body) = Applied(q, body)
BY DEF Applied

(* Which edits are where. *)
LEMMA EditFacts ==
    ASSUME TagTypes, NEW e \in TagEditors
    PROVE  /\ edit[e].pc = "read" => edit[e] \in ReadEdits
           /\ edit[e].pc = "write" => edit[e] \in WriteEdits
BY DEF TagTypes, ReadEdits, WriteEdits, Quiet

(* What an edit asks for. *)
LEMMA EditMakes ==
    ASSUME NEW i \in TagInstalls, NEW kind \in EditKinds, NEW name \in TagNames \cup {None},
           NEW key \in TagKeys, NEW value \in TagValues \cup {None}
    PROVE  Edit(i, kind, name, key, value) \in ReadEdits
BY DEF Edit, ReadEdits

(* The tags invariant holds of a new organization. *)
LEMMA TagsStart == TagsInit => TagInv
<1> SUFFICES ASSUME TagsInit PROVE TagInv
  OBVIOUS
<1>1. Blank \in TagBodies
  BY DEF Blank, TagBodies
<1>2. TagTypes
  BY <1>1 DEF TagsInit, TagTypes
<1>3. Keys(Blank.meta) = {}
  BY DEF Keys, Blank
<1>4. TagsTypeOK
  <2> SUFFICES ASSUME NEW i \in TagInstalls
               PROVE  /\ tags[i].body = Blank /\ tags[i].version = 0
                      /\ Blank.name \in TagNames \cup {None}
                      /\ \A k \in TagKeys : Blank.meta[k] \in TagValues \cup {None}
                      /\ Cardinality(Keys(Blank.meta)) <= MaxTagKeys
    BY DEF TagsTypeOK
  <2>1. Cardinality(Keys(Blank.meta)) <= MaxTagKeys
    BY <1>3, FS_EmptySet, TagsAssumption
  <2> QED BY <2>1 DEF TagsInit, Blank
<1>5. (\A e \in TagEditors : EditInv(e)) /\ EditsAreSerial
  BY DEF TagsInit, EditInv, EditsAreSerial, Quiet
<1> QED BY <1>2, <1>4, <1>5 DEF TagInv

(* A step that writes no record keeps the invariant when the edits it      *)
(* leaves are sound.                                                       *)
LEMMA EditsOnly ==
    ASSUME TagInv, UNCHANGED <<tags, serial>>,
           edit' \in [TagEditors -> {Quiet} \cup ReadEdits \cup WriteEdits],
           \A e \in TagEditors : edit'[e].pc = "write" => EditInv(e)'
    PROVE  TagInv'
<1>1. TagTypes' /\ TagsTypeOK' /\ EditsAreSerial'
  BY DEF TagInv, TagTypes, TagsTypeOK, EditsAreSerial
<1>2. \A e \in TagEditors : EditInv(e)'
  BY DEF EditInv
<1> QED BY <1>1, <1>2 DEF TagInv

(* The rest of an edit is as it was. *)
LEMMA EditStays ==
    ASSUME TagInv, NEW e \in TagEditors, UNCHANGED tags, edit'[e] = edit[e]
    PROVE  EditInv(e)'
<1>1. EditInv(e)
  BY DEF TagInv
<1> QED BY <1>1 DEF EditInv, Applied, Acceptable

(* A new edit, of a person or of an import. *)
LEMMA BeginKeeps ==
    ASSUME TagInv, NEW e \in TagEditors, BeginTagEdit(e)
    PROVE  TagInv'
<1>1. PICK x \in ReadEdits : edit' = [edit EXCEPT ![e] = x]
  <2>1. PICK i \in TagInstalls, k \in TagKeys :
          \/ \E n \in TagNames \cup {None}, kind \in {"name", "ifMissing"} :
               edit' = [edit EXCEPT ![e] = Edit(i, kind, n, k, None)]
          \/ \E v \in TagValues \cup {None} :
               edit' = [edit EXCEPT ![e] = Edit(i, "patch", None, k, v)]
    BY DEF BeginTagEdit
  <2>2. CASE \E n \in TagNames \cup {None}, kind \in {"name", "ifMissing"} :
               edit' = [edit EXCEPT ![e] = Edit(i, kind, n, k, None)]
    BY <2>2, EditMakes DEF EditKinds
  <2>3. CASE \E v \in TagValues \cup {None} :
               edit' = [edit EXCEPT ![e] = Edit(i, "patch", None, k, v)]
    BY <2>3, EditMakes DEF EditKinds
  <2> QED BY <2>1, <2>2, <2>3
<1>2. x.pc = "read"
  BY DEF ReadEdits
<1>3. UNCHANGED <<tags, serial>>
  BY DEF BeginTagEdit
<1>4. edit'[e] = x /\ \A u \in TagEditors \ {e} : edit'[u] = edit[u]
  BY <1>1 DEF TagInv, TagTypes
<1>5. edit' \in [TagEditors -> {Quiet} \cup ReadEdits \cup WriteEdits]
  BY <1>1 DEF TagInv, TagTypes
<1>6. \A u \in TagEditors : edit'[u].pc = "write" => EditInv(u)'
  BY <1>2, <1>3, <1>4, EditStays
<1> QED BY <1>3, <1>5, <1>6, EditsOnly

(* An edit reads the record it will replace. *)
LEMMA ReadKeeps ==
    ASSUME TagInv, NEW e \in TagEditors, ReadTags(e)
    PROVE  TagInv'
<1> DEFINE q == edit[e]
           old == tags[q.install]
           new == Applied(q, old.body)
           w == [pc |-> "write", install |-> q.install, kind |-> q.kind, name |-> q.name,
                 key |-> q.key, value |-> q.value, tries |-> q.tries + 1,
                 version |-> old.version, new |-> new]
<1>0. q \in ReadEdits /\ q.install \in TagInstalls
  <2>1. q \in ReadEdits
    BY EditFacts DEF ReadTags, TagInv
  <2> QED BY <2>1 DEF ReadEdits
<1>1. old.body \in TagBodies /\ old.version \in Nat
  BY <1>0 DEF TagInv, TagTypes
<1>2. new \in TagBodies
  BY <1>0, <1>1, AppliedFacts
<1>3. w \in WriteEdits
  BY <1>0, <1>1, <1>2 DEF ReadEdits, WriteEdits
<1>4. UNCHANGED <<tags, serial>>
  BY DEF ReadTags
<1>5. /\ \A u \in TagEditors \ {e} : edit'[u] = edit[u]
      /\ edit'[e] = Quiet \/ (edit'[e] = w /\ Acceptable(new))
  BY DEF ReadTags, TagInv, TagTypes
<1>6. edit' \in [TagEditors -> {Quiet} \cup ReadEdits \cup WriteEdits]
  BY <1>3 DEF ReadTags, TagInv, TagTypes
<1>7. edit'[e].pc = "write" => EditInv(e)'
  <2> SUFFICES ASSUME edit'[e].pc = "write" PROVE EditInv(e)'
    OBVIOUS
  <2>1. edit'[e] = w /\ Acceptable(new)
    BY <1>5 DEF Quiet
  <2>2. /\ edit'[e].install = q.install /\ edit'[e].kind = q.kind /\ edit'[e].name = q.name
        /\ edit'[e].key = q.key /\ edit'[e].value = q.value
        /\ edit'[e].version = old.version /\ edit'[e].new = new
    BY <2>1
  <2>3. Applied(edit'[e], old.body) = new
    BY <2>2, AppliedSame
  <2>4. old.version <= old.version
    BY <1>1
  <2> QED BY <1>4, <2>1, <2>2, <2>3, <2>4 DEF EditInv, Applied, Acceptable
<1>8. \A u \in TagEditors : edit'[u].pc = "write" => EditInv(u)'
  BY <1>4, <1>5, <1>7, EditStays
<1> QED BY <1>4, <1>6, <1>8, EditsOnly

(* The conditional write: the record moves on from the version read, so an *)
(* edit that read an older one cannot succeed.                             *)
LEMMA WriteKeeps ==
    ASSUME TagInv, NEW e \in TagEditors, WriteTags(e)
    PROVE  TagInv'
<1> DEFINE q == edit[e]
           i == q.install
           again == [Edit(q.install, q.kind, q.name, q.key, q.value) EXCEPT !.tries = q.tries]
<1>0. q \in WriteEdits /\ EditInv(e) /\ q.pc = "write"
  BY EditFacts DEF WriteTags, TagInv
<1>f. /\ i \in TagInstalls /\ q.new \in TagBodies /\ q.version \in Nat /\ q.kind \in EditKinds
      /\ q.name \in TagNames \cup {None} /\ q.key \in TagKeys
      /\ q.value \in TagValues \cup {None} /\ q.tries \in Nat
  BY <1>0 DEF WriteEdits
<1>a. again \in ReadEdits /\ again.pc = "read"
  <2>1. Edit(q.install, q.kind, q.name, q.key, q.value) \in ReadEdits
    BY <1>f, EditMakes
  <2>2. again \in ReadEdits
    BY <1>f, <2>1 DEF ReadEdits
  <2> QED BY <2>2 DEF ReadEdits
<1>1. /\ edit'[e] \in {Quiet, again}
      /\ \A u \in TagEditors \ {e} : edit'[u] = edit[u]
  BY DEF WriteTags, TagInv, TagTypes
<1>2. edit' \in [TagEditors -> {Quiet} \cup ReadEdits \cup WriteEdits]
  BY <1>a DEF WriteTags, TagInv, TagTypes
<1>3. edit'[e].pc # "write"
  <2>1. Quiet.pc # "write" /\ again.pc # "write"
    BY <1>a DEF Quiet
  <2> HIDE DEF again
  <2> QED BY <1>1, <2>1
<1>4. CASE tags[i].version # q.version
  <2>1. UNCHANGED <<tags, serial>>
    BY <1>4 DEF WriteTags
  <2>2. \A u \in TagEditors : edit'[u].pc = "write" => EditInv(u)'
    BY <1>1, <1>3, <2>1, EditStays
  <2> QED BY <1>2, <2>1, <2>2, EditsOnly
<1>5. CASE tags[i].version = q.version
  <2>1. /\ tags' = [tags EXCEPT ![i] = [body |-> q.new, version |-> tags[i].version + 1]]
        /\ serial' = [serial EXCEPT ![i] = Applied(q, serial[i])]
    BY <1>5 DEF WriteTags
  <2>2. /\ tags'[i] = [body |-> q.new, version |-> tags[i].version + 1]
        /\ serial'[i] = Applied(q, serial[i])
        /\ \A j \in TagInstalls \ {i} : tags'[j] = tags[j] /\ serial'[j] = serial[j]
    BY <1>f, <2>1 DEF TagInv, TagTypes
  <2>3. q.new = Applied(q, tags[i].body) /\ tags[i].body = serial[i]
    BY <1>0, <1>f, <1>5 DEF EditInv, TagInv, EditsAreSerial
  <2>4. tags[i].version \in Nat /\ tags[i].version + 1 \in Nat
    BY <1>f DEF TagInv, TagTypes
  <2>5. TagTypes'
    <3>1. tags' \in [TagInstalls -> [body : TagBodies, version : Nat]]
      BY <1>f, <2>1, <2>4 DEF TagInv, TagTypes
    <3>2. serial' \in [TagInstalls -> TagBodies]
      BY <1>f, <2>1, <2>3 DEF TagInv, TagTypes
    <3> QED BY <1>2, <3>1, <3>2 DEF TagTypes
  <2>6. TagsTypeOK'
    <3>1. /\ q.new.name \in TagNames \cup {None}
          /\ \A k \in TagKeys : q.new.meta[k] \in TagValues \cup {None}
          /\ Cardinality(Keys(q.new.meta)) <= MaxTagKeys
      BY <1>0, <1>f DEF EditInv, Acceptable, TagBodies
    <3>2. tags'[i].body = q.new /\ tags'[i].version = tags[i].version + 1 /\ tags'[i].version # 0
      BY <2>2, <2>4
    <3>3. ASSUME NEW j \in TagInstalls
          PROVE  /\ tags'[j].body.name \in TagNames \cup {None}
                 /\ \A k \in TagKeys : tags'[j].body.meta[k] \in TagValues \cup {None}
                 /\ Cardinality(Keys(tags'[j].body.meta)) <= MaxTagKeys
                 /\ tags'[j].version \in Nat
                 /\ tags'[j].version = 0 => tags'[j].body = Blank
      BY <2>2, <2>4, <3>1, <3>2 DEF TagInv, TagsTypeOK
    <3> QED BY <3>3 DEF TagsTypeOK, Keys
  <2>7. EditsAreSerial'
    BY <2>2, <2>3 DEF TagInv, EditsAreSerial
  <2>8. \A u \in TagEditors : EditInv(u)'
    <3> SUFFICES ASSUME NEW u \in TagEditors \ {e}, edit[u].pc = "write"
                 PROVE  EditInv(u)'
      BY <1>1, <1>3 DEF EditInv
    <3>1. /\ edit[u].install \in TagInstalls /\ edit[u].version \in Nat
          /\ EditInv(u) /\ edit'[u] = edit[u]
      BY <1>1, EditFacts DEF TagInv, WriteEdits
    <3>2. CASE edit[u].install = i
      <4>1. tags'[i].version = tags[i].version + 1 /\ edit[u].version <= tags[i].version
        BY <2>2, <3>1, <3>2 DEF EditInv
      <4>2. edit[u].version < tags'[i].version
        BY <2>4, <3>1, <4>1
      <4> QED BY <2>4, <3>1, <3>2, <4>1, <4>2 DEF EditInv, Acceptable
    <3>3. CASE edit[u].install # i
      <4>1. tags'[edit[u].install] = tags[edit[u].install]
        BY <2>2, <3>1, <3>3
      <4> QED BY <3>1, <4>1 DEF EditInv
    <3> QED BY <3>2, <3>3
  <2> QED BY <2>5, <2>6, <2>7, <2>8 DEF TagInv
<1> QED BY <1>4, <1>5

(* A row without a selected install is matched to the only install of its  *)
(* hostname, which no other row carries.                                   *)
LEMMA MatchFacts ==
    ASSUME NEW rows \in [1..2 -> Rows], NEW n \in 1..2, Match(rows, n) # None
    PROVE  /\ Match(rows, n) \in TagInstalls
           /\ rows[n].pick = None =>
                 /\ SameHost(rows[n].host) = {Match(rows, n)}
                 /\ \A m \in 1..2 : m # n => rows[m].host # rows[n].host
<1>1. rows[n].pick \in TagInstalls \cup {None}
  BY DEF Rows
<1>2. CASE rows[n].pick # None
  BY <1>1, <1>2 DEF Match
<1>3. CASE rows[n].pick = None
  <2> DEFINE host == rows[n].host
             claims == {m \in DOMAIN rows : rows[m].host = host}
  <2>1. Cardinality(claims) = 1 /\ Cardinality(SameHost(host)) = 1
        /\ Match(rows, n) = CHOOSE i \in SameHost(host) : TRUE
    BY <1>3 DEF Match
  <2>2. IsFiniteSet(1..2)
    <3>1. 1 \in Int /\ 2 \in Int
      OBVIOUS
    <3> QED BY <3>1, FS_Interval
  <2>3. claims \subseteq 1..2 /\ n \in claims
    OBVIOUS
  <2>4. IsFiniteSet(claims) /\ IsFiniteSet(SameHost(host))
    BY <2>2, <2>3, FS_Subset, TagsAssumption DEF SameHost
  <2>5. \E x : claims = {x}
    BY <2>1, <2>4, FS_Singleton
  <2>6. claims = {n}
    BY <2>3, <2>5
  <2>7. \E x : SameHost(host) = {x}
    BY <2>1, <2>4, FS_Singleton
  <2>8. SameHost(host) = {Match(rows, n)}
    BY <2>1, <2>7
  <2>9. Match(rows, n) \in TagInstalls
    BY <2>8 DEF SameHost
  <2>10. \A m \in 1..2 : m # n => rows[m].host # rows[n].host
    BY <2>6
  <2> QED BY <2>8, <2>9, <2>10
<1> QED BY <1>2, <1>3

(* An import starts an edit for each row it matched. *)
LEMMA ImportKeeps ==
    ASSUME TagInv, ImportMetadata
    PROVE  TagInv'
<1>1. PICK rows \in [1..2 -> Rows], slot \in [1..2 -> TagEditors] :
         edit' = [e \in TagEditors |->
               IF \E n \in 1..2 : slot[n] = e /\ ImportTarget(rows, n) # None
               THEN LET n == CHOOSE m \in 1..2 : slot[m] = e
                    IN  Edit(ImportTarget(rows, n), "patch", None, rows[n].key, rows[n].value)
               ELSE Quiet]
         /\ slot[1] # slot[2]
  BY DEF ImportMetadata
<1>2. \A e \in TagEditors : edit'[e] = Quiet \/ edit'[e] \in ReadEdits
  <2> SUFFICES ASSUME NEW e \in TagEditors, NEW n \in 1..2, slot[n] = e,
                      ImportTarget(rows, n) # None
               PROVE  edit'[e] \in ReadEdits
    BY <1>1
  <2>1. (CHOOSE m \in 1..2 : slot[m] = e) = n
    <3>1. \A m \in 1..2 : slot[m] = e => m = n
      BY <1>1
    <3> QED BY <3>1
  <2>2. edit'[e] = Edit(ImportTarget(rows, n), "patch", None, rows[n].key, rows[n].value)
    BY <1>1, <2>1
  <2>3. ImportTarget(rows, n) \in TagInstalls
    BY MatchFacts DEF ImportTarget
  <2>4. rows[n].key \in TagKeys /\ rows[n].value \in TagValues
    BY DEF Rows
  <2> QED BY <2>2, <2>3, <2>4, EditMakes DEF EditKinds
<1>3. edit' \in [TagEditors -> {Quiet} \cup ReadEdits \cup WriteEdits]
  BY <1>1, <1>2
<1>4. \A e \in TagEditors : edit'[e].pc # "write"
  BY <1>2 DEF Quiet, ReadEdits
<1> QED BY <1>3, <1>4, EditsOnly DEF ImportMetadata

(* Every step keeps the tags invariant. *)
LEMMA TagsKept == TagInv /\ [TagsNext]_tagVars => TagInv'
<1> SUFFICES ASSUME TagInv, [TagsNext]_tagVars PROVE TagInv'
  OBVIOUS
<1>1. CASE UNCHANGED tagVars
  <2>1. edit' \in [TagEditors -> {Quiet} \cup ReadEdits \cup WriteEdits]
    BY <1>1 DEF tagVars, TagInv, TagTypes
  <2> QED BY <1>1, <2>1, EditStays, EditsOnly DEF tagVars
<1> QED BY <1>1, BeginKeeps, ReadKeeps, WriteKeeps, ImportKeeps DEF TagsNext

(* Row order never picks an owner, for any installs and any two rows. *)
LEMMA OwnerFacts == NoOwnerIsGuessed
<1> SUFFICES ASSUME NEW rows \in [1..2 -> Rows], NEW n \in 1..2,
                    ImportTarget(rows, n) # None
             PROVE  /\ \A m \in 1..2 : m # n =>
                          /\ ImportTarget(rows, m) # ImportTarget(rows, n)
                          /\ Match(rows, m) # ImportTarget(rows, n)
                    /\ rows[n].pick = None =>
                          /\ SameHost(rows[n].host) = {ImportTarget(rows, n)}
                          /\ \A m \in 1..2 : m # n => rows[m].host # rows[n].host
  BY DEF NoOwnerIsGuessed
<1>1. /\ ImportTarget(rows, n) = Match(rows, n)
      /\ \A m \in 1..2 : m # n => Match(rows, m) # Match(rows, n)
  BY DEF ImportTarget
<1>2. \A m \in 1..2 : ImportTarget(rows, m) \in {None, Match(rows, m)}
  BY DEF ImportTarget
<1> QED BY <1>1, <1>2, MatchFacts

-----------------------------------------------------------------------------
(* The relay. *)

(* Products of natural numbers. *)
LEMMA Products ==
    \A d, r \in Nat : d * r \in Nat /\ (d + 1) * r = d * r + r
OBVIOUS

(* Multiplying keeps the order. *)
LEMMA ProductsOrdered ==
    \A d, q, r \in Nat : d >= q => d * r >= q * r
<1> SUFFICES ASSUME NEW d \in Nat, NEW q \in Nat, NEW r \in Nat, d >= q
             PROVE  d * r >= q * r
  OBVIOUS
<1>1. d - q \in Nat
  OBVIOUS
<1>2. (d - q) * r \in Nat
  BY <1>1, Products
<1>3. d * r = (d - q) * r + q * r
  OBVIOUS
<1>4. d * r \in Nat /\ q * r \in Nat
  BY Products
<1> QED BY <1>2, <1>3, <1>4

(* RefillTime, rounded up, is long enough to fill an empty bucket. *)
LEMMA RefillFacts ==
    /\ RefillTime \in Nat
    /\ \A d \in Nat : d >= RefillTime => d * Rate >= Burst
<1> USE RelayAssumption
<1> DEFINE a == Burst + Rate - 1
<1>1. a \in Nat
  OBVIOUS
<1>2. a \div Rate \in Nat /\ a % Rate \in 0..(Rate - 1)
  <2>1. a \div Rate \in Int /\ a \div Rate >= 0
    BY <1>1
  <2>2. a % Rate \in 0..(Rate - 1)
    BY <1>1
  <2> QED BY <2>1, <2>2
<1>3. a = (a \div Rate) * Rate + (a % Rate)
  BY <1>1
<1>4. RefillTime = a \div Rate
  BY DEF RefillTime
<1>5. (a \div Rate) * Rate \in Nat
  BY <1>2, Products
<1>6. (a \div Rate) * Rate >= Burst
  <2>1. \A x, r, n, b \in Nat : b + n - 1 = x + r /\ r \in 0..(n - 1) => x >= b
    OBVIOUS
  <2>2. Burst + Rate - 1 = (a \div Rate) * Rate + (a % Rate) /\ a % Rate \in Nat
    BY <1>2, <1>3
  <2> HIDE DEF a
  <2> QED BY <1>2, <1>5, <2>1, <2>2
<1> HIDE DEF a
<1>7. ASSUME NEW d \in Nat, d >= a \div Rate
      PROVE  d * Rate >= Burst
  <2>1. d * Rate >= (a \div Rate) * Rate /\ d * Rate \in Nat
    BY <1>2, <1>7, Products, ProductsOrdered
  <2> QED BY <1>5, <1>6, <2>1
<1> QED BY <1>2, <1>4, <1>7

(* What a bucket holds is between nothing and Burst, and refilling is      *)
(* counting it.                                                            *)
LEMMA LevelFacts ==
    ASSUME minute \in Nat, NEW b \in Buckets
    PROVE  /\ Level(b) \in 0..Burst
           /\ Refilled(b) \in Buckets
           /\ Refilled(b).tokens = Level(b) /\ Refilled(b).at = minute
           /\ Evictable(b) => Level(b) = Burst
<1> USE RelayAssumption
<1>1. b.tokens \in 0..Burst /\ b.at \in 0..minute
  BY DEF Buckets
<1>2. minute - b.at \in Nat /\ (minute - b.at) * Rate \in Nat
  <2>1. minute - b.at \in Nat
    BY <1>1
  <2> QED BY <2>1, Products
<1>3. Level(b) \in 0..Burst
  BY <1>1, <1>2 DEF Level, Lower
<1>4. Refilled(b).tokens = Level(b) /\ Refilled(b).at = minute
  BY DEF Refilled, Level
<1>5. Refilled(b) \in Buckets
  BY <1>3 DEF Refilled, Level, Buckets
<1>6. Evictable(b) => Level(b) = Burst
  <2> SUFFICES ASSUME Evictable(b) PROVE Level(b) = Burst
    OBVIOUS
  <2>1. (minute - b.at) * Rate >= Burst
    BY <1>2, RefillFacts DEF Evictable
  <2>2. \A t, x \in Nat : x >= Burst => Lower(Burst, t + x) = Burst
    BY DEF Lower
  <2>3. Lower(Burst, b.tokens + (minute - b.at) * Rate) = Burst
    BY <1>1, <1>2, <2>1, <2>2
  <2> QED BY <2>3 DEF Level
<1> QED BY <1>3, <1>4, <1>5, <1>6

(* A bucket that was just written holds what it says. *)
LEMMA LevelNow ==
    ASSUME minute \in Nat, NEW k \in 0..Burst, NEW b, b.tokens = k, b.at = minute
    PROVE  Level(b) = k
<1>1. (minute - minute) * Rate = 0
  BY RelayAssumption
<1> QED BY <1>1, RelayAssumption DEF Level, Lower

(* A minute adds Rate tokens, up to Burst. *)
LEMMA LevelSteps ==
    ASSUME minute \in Nat, minute' = minute + 1, NEW b \in Buckets
    PROVE  Lower(Burst, b.tokens + (minute' - b.at) * Rate) = Lower(Burst, Level(b) + Rate)
<1> USE RelayAssumption
<1>1. b.tokens \in 0..Burst /\ b.at \in 0..minute
  BY DEF Buckets
<1>2. minute - b.at \in Nat /\ (minute - b.at) * Rate \in Nat
  <2>1. minute - b.at \in Nat
    BY <1>1
  <2> QED BY <2>1, Products
<1>3. (minute' - b.at) * Rate = (minute - b.at) * Rate + Rate
  <2>1. minute' - b.at = (minute - b.at) + 1
    BY <1>1
  <2> QED BY <1>2, <2>1, Products
<1>4. \A t, x \in Nat : Lower(Burst, t + (x + Rate)) = Lower(Burst, Lower(Burst, t + x) + Rate)
  BY DEF Lower
<1>5. Lower(Burst, b.tokens + ((minute - b.at) * Rate + Rate))
        = Lower(Burst, Lower(Burst, b.tokens + (minute - b.at) * Rate) + Rate)
  <2>1. b.tokens \in Nat
    BY <1>1
  <2> QED BY ONLY <1>2, <1>4, <2>1, Zenon
<1>6. Level(b) = Lower(Burst, b.tokens + (minute - b.at) * Rate)
  BY DEF Level
<1>7. Lower(Burst, b.tokens + (minute' - b.at) * Rate)
        = Lower(Burst, b.tokens + ((minute - b.at) * Rate + Rate))
  BY ONLY <1>3
<1> QED BY ONLY <1>5, <1>6, <1>7

(* The relay invariant holds of a relay that never ran. *)
LEMMA RelayStarts == RelayInit => RelayInv
<1> USE RelayAssumption
<1> SUFFICES ASSUME RelayInit PROVE RelayInv
  OBVIOUS
<1>1. Cardinality(Replicas) \in Nat
  BY FS_CardinalityType
<1>2. DOMAIN bucket = {} /\ Cardinality(DOMAIN bucket) = 0
  <2>1. DOMAIN bucket = {}
    BY DEF RelayInit
  <2> QED BY <2>1, FS_EmptySet
<1>3. RelayTypeOK
  BY <1>1, <1>2 DEF RelayInit, RelayTypeOK
<1>4. \A s \in Senders : ideal[s] = [tokens |-> Burst, at |-> minute]
  BY DEF RelayInit
<1>5. ideal \in [Senders -> Buckets]
  BY DEF RelayInit, Buckets
<1>6. RelayTypes
  BY <1>1, <1>2, <1>3, <1>5 DEF RelayInit, RelayTypes, Ids
<1>7. OneIdentity
  BY DEF RelayInit, OneIdentity
<1>8. \A s \in Senders : Level(ideal[s]) = Burst
  BY <1>4, LevelNow DEF RelayInit
<1>9. LevelInv
  BY <1>2, <1>8 DEF LevelInv
<1> QED BY <1>6, <1>7, <1>9 DEF RelayInv

(* Steps that leave the buckets and the time alone. *)
LEMMA IdentitiesOnly ==
    ASSUME RelayInv, UNCHANGED <<bucket, ideal, minute>>,
           identity' \in Ids, OneIdentity',
           replica' \in [Replicas -> [pc : {"down", "reread", "create", "up"}, id : Ids]]
    PROVE  RelayInv'
<1>1. RelayTypes'
  BY DEF RelayInv, RelayTypes, RelayTypeOK, Ids, Buckets
<1>2. LevelInv'
  BY DEF RelayInv, LevelInv, Level
<1> QED BY <1>1, <1>2 DEF RelayInv

(* The start-up steps keep the relay invariant. *)
LEMMA IdentityKeeps ==
    ASSUME RelayInv, NEW r \in Replicas, ReadIdentity(r) \/ CreateIdentity(r)
    PROVE  RelayInv'
<1>1. /\ identity \in Ids
      /\ replica \in [Replicas -> [pc : {"down", "reread", "create", "up"}, id : Ids]]
      /\ OneIdentity
  BY DEF RelayInv, RelayTypes, RelayTypeOK, Ids
<1>2. Cardinality(Replicas) \in Nat
  BY RelayAssumption, FS_CardinalityType
<1>3. CASE ReadIdentity(r)
  <2>1. OneIdentity'
    BY <1>1, <1>3 DEF ReadIdentity, OneIdentity
  <2>2. replica' \in [Replicas -> [pc : {"down", "reread", "create", "up"}, id : Ids]]
    BY <1>1, <1>2, <1>3 DEF ReadIdentity, Ids
  <2> QED BY <1>1, <1>3, <2>1, <2>2, IdentitiesOnly DEF ReadIdentity
<1>4. CASE CreateIdentity(r)
  <2>1. PICK id \in 1..Cardinality(Replicas) :
          IF identity = 0
          THEN /\ identity' = id
               /\ replica' = [replica EXCEPT ![r] = [pc |-> "up", id |-> id]]
          ELSE /\ replica' = [replica EXCEPT ![r].pc = "reread"]
               /\ UNCHANGED identity
    BY <1>4 DEF CreateIdentity
  <2>2. identity' \in Ids
    BY <1>1, <1>2, <2>1 DEF Ids
  <2>3. OneIdentity'
    BY <1>1, <1>2, <2>1 DEF OneIdentity
  <2>4. replica' \in [Replicas -> [pc : {"down", "reread", "create", "up"}, id : Ids]]
    BY <1>1, <1>2, <2>1 DEF Ids
  <2> QED BY <1>4, <2>2, <2>3, <2>4, IdentitiesOnly DEF CreateIdentity
<1> QED BY <1>3, <1>4

(* A restarted replica starts over. *)
LEMMA RestartKeeps ==
    ASSUME RelayInv, NEW r \in Replicas, RestartReplica(r)
    PROVE  RelayInv'
<1> USE RelayAssumption
<1>1. /\ identity \in Ids /\ minute \in 0..MaxMinute
      /\ replica \in [Replicas -> [pc : {"down", "reread", "create", "up"}, id : Ids]]
      /\ OneIdentity
  BY DEF RelayInv, RelayTypes, RelayTypeOK, Ids
<1>2. Cardinality(Replicas) \in Nat
  BY FS_CardinalityType
<1>3. DOMAIN bucket' = {} /\ Cardinality(DOMAIN bucket') = 0
  <2>1. DOMAIN bucket' = {}
    BY DEF RestartReplica
  <2> QED BY <2>1, FS_EmptySet
<1>4. /\ identity' = identity /\ minute' = minute
      /\ ideal' = [s \in Senders |-> [tokens |-> Burst, at |-> minute]]
      /\ replica' = [replica EXCEPT ![r] = [pc |-> "down", id |-> 0]]
  BY DEF RestartReplica
<1>5. RelayTypeOK'
  BY <1>1, <1>3, <1>4 DEF RelayTypeOK, Ids
<1>6. ideal' \in [Senders -> Buckets']
  BY <1>1, <1>4 DEF Buckets
<1>7. replica' \in [Replicas -> [pc : {"down", "reread", "create", "up"}, id : Ids]]
  BY <1>1, <1>2, <1>4 DEF Ids
<1>8. RelayTypes'
  BY <1>3, <1>5, <1>6, <1>7 DEF RelayTypes, Ids
<1>9. OneIdentity'
  BY <1>1, <1>4 DEF OneIdentity
<1>10. \A s \in Senders : Level(ideal[s])' = Burst
  <2> SUFFICES ASSUME NEW s \in Senders PROVE Level(ideal[s])' = Burst
    OBVIOUS
  <2>1. Level([tokens |-> Burst, at |-> minute]) = Burst
    BY <1>1, LevelNow
  <2>2. Level(ideal[s])' = Level([tokens |-> Burst, at |-> minute])
    BY <1>4 DEF Level
  <2> QED BY <2>1, <2>2
<1>11. LevelInv'
  BY <1>3, <1>10 DEF LevelInv
<1> QED BY <1>8, <1>9, <1>11 DEF RelayInv

(* A minute passes for the table and the ideal buckets alike. *)
LEMMA MinuteKeeps ==
    ASSUME RelayInv, MinutePasses
    PROVE  RelayInv'
<1> USE RelayAssumption
<1>1. /\ minute \in 0..MaxMinute /\ minute' = minute + 1 /\ minute' \in 0..MaxMinute
      /\ UNCHANGED <<identity, replica, bucket, ideal>>
  BY DEF RelayInv, RelayTypes, RelayTypeOK, MinutePasses
<1>2. DOMAIN bucket \subseteq Senders
  BY DEF RelayInv, RelayTypes, RelayTypeOK
<1>3. /\ \A s \in DOMAIN bucket : bucket[s] \in Buckets
      /\ \A s \in Senders : ideal[s] \in Buckets
      /\ ideal \in [Senders -> Buckets]
  BY DEF RelayInv, RelayTypes
<1>4. Buckets \subseteq Buckets'
  BY <1>1 DEF Buckets
<1>5. RelayTypes'
  <2>1. RelayTypeOK'
    BY <1>1 DEF RelayInv, RelayTypes, RelayTypeOK
  <2>2. ideal' \in [Senders -> Buckets']
    BY <1>1, <1>3, <1>4
  <2>3. \A s \in DOMAIN bucket' : bucket'[s] \in Buckets'
    BY <1>1, <1>3, <1>4
  <2> QED BY <1>1, <2>1, <2>2, <2>3 DEF RelayInv, RelayTypes, Ids
<1>6. OneIdentity'
  BY <1>1 DEF RelayInv, OneIdentity
<1>7. /\ \A a, c \in 0..Burst : a <= c => Lower(Burst, a + Rate) <= Lower(Burst, c + Rate)
      /\ Lower(Burst, Burst + Rate) = Burst
  BY DEF Lower
<1>8. LevelInv'
  <2> SUFFICES ASSUME NEW s \in Senders
               PROVE  IF s \in DOMAIN bucket' THEN Level(bucket[s])' <= Level(ideal[s])'
                                              ELSE Level(ideal[s])' = Burst
    BY DEF LevelInv
  <2>1. Level(ideal[s])' = Lower(Burst, Level(ideal[s]) + Rate)
    <3>1. Level(ideal[s])' = Lower(Burst, ideal[s].tokens + (minute' - ideal[s].at) * Rate)
      BY <1>1 DEF Level
    <3>2. minute \in Nat /\ ideal[s] \in Buckets
      BY <1>1, <1>3
    <3> QED BY <3>1, <3>2, <1>1, LevelSteps
  <2>2. Level(ideal[s]) \in 0..Burst
    BY <1>1, <1>3, LevelFacts
  <2>3. CASE s \in DOMAIN bucket
    <3>1. Level(bucket[s])' = Lower(Burst, Level(bucket[s]) + Rate)
      <4>1. Level(bucket[s])' = Lower(Burst, bucket[s].tokens + (minute' - bucket[s].at) * Rate)
        BY <1>1 DEF Level
      <4>2. minute \in Nat /\ bucket[s] \in Buckets
        BY <1>1, <1>3, <2>3
      <4> QED BY <4>1, <4>2, <1>1, LevelSteps
    <3>2. Level(bucket[s]) \in 0..Burst
      BY <1>1, <1>3, <2>3, LevelFacts
    <3>3. Level(bucket[s]) <= Level(ideal[s])
      BY <2>3 DEF RelayInv, LevelInv
    <3>4. Lower(Burst, Level(bucket[s]) + Rate) <= Lower(Burst, Level(ideal[s]) + Rate)
      BY <1>7, <2>2, <3>2, <3>3
    <3> QED BY <1>1, <2>1, <2>3, <3>1, <3>4
  <2>4. CASE s \notin DOMAIN bucket
    <3>1. Level(ideal[s]) = Burst
      BY <2>4 DEF RelayInv, LevelInv
    <3> QED BY <1>1, <1>7, <2>1, <2>4, <3>1
  <2> QED BY <2>3, <2>4
<1> QED BY <1>5, <1>6, <1>8 DEF RelayInv

(* Dropping the buckets that would be full again keeps the comparison with *)
(* the ideal buckets, and the bound on the table.                          *)
LEMMA TableFacts ==
    ASSUME RelayInv, NEW s \in Senders
    PROVE  /\ DOMAIN Table(s) \subseteq DOMAIN bucket
           /\ \A x \in DOMAIN Table(s) : Table(s)[x] = bucket[x]
           /\ \A x \in Senders \ DOMAIN Table(s) : Level(ideal[x]) = Burst
           /\ IsFiniteSet(DOMAIN Table(s)) /\ Cardinality(DOMAIN Table(s)) \in 0..TableSize
<1> USE RelayAssumption
<1>1. /\ DOMAIN bucket \subseteq Senders /\ minute \in Nat
      /\ Cardinality(DOMAIN bucket) <= TableSize
      /\ \A x \in DOMAIN bucket : bucket[x] \in Buckets
      /\ \A x \in Senders : ideal[x] \in Buckets
      /\ LevelInv
  BY DEF RelayInv, RelayTypes, RelayTypeOK
<1>2. DOMAIN Table(s) \subseteq DOMAIN bucket /\ \A x \in DOMAIN Table(s) : Table(s)[x] = bucket[x]
  BY DEF Table
<1>3. IsFiniteSet(DOMAIN bucket)
  BY <1>1, FS_Subset
<1>4. IsFiniteSet(DOMAIN Table(s)) /\ Cardinality(DOMAIN Table(s)) <= Cardinality(DOMAIN bucket)
  BY <1>2, <1>3, FS_Subset
<1>5. Cardinality(DOMAIN Table(s)) \in 0..TableSize
  <2>1. Cardinality(DOMAIN Table(s)) \in Nat /\ Cardinality(DOMAIN bucket) \in Nat
    BY <1>3, <1>4, FS_CardinalityType
  <2> QED BY <1>1, <1>4, <2>1
<1>6. ASSUME NEW x \in Senders, x \notin DOMAIN Table(s)
      PROVE  Level(ideal[x]) = Burst
  <2>1. CASE x \notin DOMAIN bucket
    BY <1>1, <2>1 DEF LevelInv
  <2>2. CASE x \in DOMAIN bucket
    <3>1. Evictable(bucket[x])
      BY <1>6, <2>2 DEF Table
    <3>2. Level(bucket[x]) = Burst
      BY <1>1, <2>2, <3>1, LevelFacts
    <3>3. Level(ideal[x]) \in 0..Burst
      BY <1>1, LevelFacts
    <3>4. Level(bucket[x]) <= Level(ideal[x])
      BY <1>1, <2>2 DEF LevelInv
    <3> QED BY <3>2, <3>3, <3>4
  <2> QED BY <2>1, <2>2
<1> QED BY <1>2, <1>4, <1>5, <1>6

(* Putting a sender's bucket into a table that has it, or room for it. *)
LEMMA PutFacts ==
    ASSUME NEW table, NEW s \in Senders, NEW b, IsFiniteSet(DOMAIN table),
           Cardinality(DOMAIN table) \in 0..TableSize,
           s \in DOMAIN table \/ Cardinality(DOMAIN table) < TableSize
    PROVE  Cardinality(DOMAIN Put1(table, s, b)) <= TableSize
<1>1. DOMAIN Put1(table, s, b) = DOMAIN table \cup {s}
  BY DEF Put1
<1>2. CASE s \in DOMAIN table
  <2>1. DOMAIN table \cup {s} = DOMAIN table
    BY <1>2
  <2> QED BY <1>1, <2>1, RelayAssumption
<1>3. CASE s \notin DOMAIN table
  <2>1. Cardinality(DOMAIN table \cup {s}) = Cardinality(DOMAIN table) + 1
    BY <1>3, FS_AddElement
  <2> QED BY <1>1, <1>3, <2>1, RelayAssumption
<1> QED BY <1>2, <1>3

(* A table whose buckets are refilled and spent with the ideal ones.       *)
LEMMA BucketsKept ==
    ASSUME RelayInv, UNCHANGED <<identity, replica, minute>>,
           DOMAIN bucket' \subseteq Senders, Cardinality(DOMAIN bucket') <= TableSize,
           \A x \in DOMAIN bucket' : bucket'[x] \in Buckets,
           ideal' \in [Senders -> Buckets],
           \A x \in Senders : IF x \in DOMAIN bucket' THEN Level(bucket'[x]) <= Level(ideal'[x])
                                                      ELSE Level(ideal'[x]) = Burst
    PROVE  RelayInv'
<1> USE RelayAssumption
<1>1. Buckets' = Buckets /\ \A b \in Buckets : b.tokens \in 0..Burst /\ b.at \in 0..MaxMinute
  BY DEF RelayInv, RelayTypes, RelayTypeOK, Buckets
<1>2. RelayTypeOK'
  BY <1>1 DEF RelayInv, RelayTypes, RelayTypeOK
<1>3. RelayTypes'
  BY <1>1, <1>2 DEF RelayInv, RelayTypes, Ids
<1>4. OneIdentity'
  BY DEF RelayInv, OneIdentity
<1>5. LevelInv'
  <2> SUFFICES ASSUME NEW x \in Senders
               PROVE  IF x \in DOMAIN bucket' THEN Level(bucket[x])' <= Level(ideal[x])'
                                              ELSE Level(ideal[x])' = Burst
    BY DEF LevelInv
  <2>1. Level(bucket[x])' = Level(bucket'[x]) /\ Level(ideal[x])' = Level(ideal'[x])
    BY DEF Level
  <2> QED BY <2>1
<1> QED BY <1>3, <1>4, <1>5 DEF RelayInv

(* Counting a request keeps the relay invariant: the bucket that passes it *)
(* has a token, so the ideal one has.                                      *)
LEMMA AllowKeeps ==
    ASSUME RelayInv, NEW s \in Senders, Allow(s)
    PROVE  RelayInv'
<1> USE RelayAssumption
<1> DEFINE table == Table(s)
           old == IF s \in DOMAIN table THEN table[s] ELSE [tokens |-> Burst, at |-> minute]
           mine == Refilled(old)
           room == s \in DOMAIN table \/ Cardinality(DOMAIN table) < TableSize
<1>1. /\ DOMAIN bucket \subseteq Senders /\ minute \in Nat
      /\ \A x \in DOMAIN bucket : bucket[x] \in Buckets
      /\ ideal \in [Senders -> Buckets]
      /\ LevelInv
  BY DEF RelayInv, RelayTypes, RelayTypeOK
<1>2. /\ DOMAIN table \subseteq DOMAIN bucket
      /\ \A x \in DOMAIN table : table[x] = bucket[x]
      /\ \A x \in Senders \ DOMAIN table : Level(ideal[x]) = Burst
      /\ IsFiniteSet(DOMAIN table) /\ Cardinality(DOMAIN table) \in 0..TableSize
  BY TableFacts
<1>3. UNCHANGED <<identity, replica, minute>>
  BY DEF Allow
<1>4. \/ /\ room /\ mine.tokens >= 1
         /\ bucket' = Put1(table, s, [mine EXCEPT !.tokens = @ - 1])
         /\ ideal' = [ideal EXCEPT ![s] = IF Refilled(ideal[s]).tokens >= 1 THEN Spent(ideal[s])
                                          ELSE [tokens |-> 0, at |-> MaxMinute + 1]]
      \/ room /\ bucket' = Put1(table, s, mine) /\ ideal' = ideal
      \/ bucket' = table /\ ideal' = ideal
  BY DEF Allow
<1>5. old \in Buckets /\ Level(old) <= Level(ideal[s])
  <2>1. CASE s \in DOMAIN table
    BY <1>1, <1>2, <2>1 DEF LevelInv
  <2>2. CASE s \notin DOMAIN table
    <3>1. old = [tokens |-> Burst, at |-> minute]
      BY <2>2
    <3>2. Level(old) = Burst
      BY <1>1, <3>1, LevelNow
    <3>3. Level(ideal[s]) = Burst
      BY <1>2, <2>2
    <3> QED BY <1>1, <3>1, <3>2, <3>3 DEF Buckets
  <2> QED BY <2>1, <2>2
<1>6. /\ mine \in Buckets /\ mine.tokens = Level(old) /\ mine.at = minute
      /\ Level(old) \in 0..Burst
  BY <1>1, <1>5, LevelFacts
<1>7. /\ Refilled(ideal[s]) \in Buckets /\ Refilled(ideal[s]).tokens = Level(ideal[s])
      /\ Refilled(ideal[s]).at = minute /\ Level(ideal[s]) \in 0..Burst
  BY <1>1, LevelFacts
<1>8. Level(mine) = Level(old)
  BY <1>1, <1>6, LevelNow
<1>9. \A x \in Senders \ {s} : x \in DOMAIN table => /\ table[x] \in Buckets
                                                     /\ Level(table[x]) <= Level(ideal[x])
  BY <1>1, <1>2 DEF LevelInv
<1>10. ASSUME NEW b
       PROVE  /\ DOMAIN Put1(table, s, b) = DOMAIN table \cup {s}
              /\ Put1(table, s, b)[s] = b
              /\ \A x \in DOMAIN table \ {s} : Put1(table, s, b)[x] = table[x]
  BY DEF Put1
<1>11. room => \A b : Cardinality(DOMAIN Put1(table, s, b)) <= TableSize
  BY <1>2, PutFacts
<1> HIDE DEF table, old, mine, room
<1>12. CASE /\ room /\ mine.tokens >= 1
            /\ bucket' = Put1(table, s, [mine EXCEPT !.tokens = @ - 1])
            /\ ideal' = [ideal EXCEPT ![s] = IF Refilled(ideal[s]).tokens >= 1 THEN Spent(ideal[s])
                                             ELSE [tokens |-> 0, at |-> MaxMinute + 1]]
  <2> DEFINE b == [mine EXCEPT !.tokens = @ - 1]
             c == Spent(ideal[s])
  <2>1. Refilled(ideal[s]).tokens >= 1
    BY <1>5, <1>6, <1>7, <1>12
  <2>2. ideal' = [ideal EXCEPT ![s] = c]
    BY <1>12, <2>1
  <2>3. b \in Buckets /\ b.tokens = Level(old) - 1 /\ b.at = minute /\ Level(old) - 1 \in 0..Burst
    BY <1>6, <1>12 DEF Buckets
  <2>4. /\ c \in Buckets /\ c.tokens = Level(ideal[s]) - 1 /\ c.at = minute
        /\ Level(ideal[s]) - 1 \in 0..Burst
    BY <1>7, <2>1 DEF Spent, Buckets
  <2> HIDE DEF b, c
  <2>5. Level(b) = Level(old) - 1
    BY <1>1, <2>3, LevelNow
  <2>6. Level(c) = Level(ideal[s]) - 1
    BY <1>1, <2>4, LevelNow
  <2>7. Level(b) <= Level(c)
    BY <1>5, <1>6, <1>7, <2>5, <2>6
  <2>8. bucket' = Put1(table, s, b)
    BY <1>12 DEF b
  <2>9. /\ DOMAIN bucket' \subseteq Senders /\ Cardinality(DOMAIN bucket') <= TableSize
        /\ \A x \in DOMAIN bucket' : bucket'[x] \in Buckets
    <3>1. DOMAIN bucket' = DOMAIN table \cup {s} /\ bucket'[s] = b
      BY <1>10, <2>8
    <3>2. Cardinality(DOMAIN bucket') <= TableSize
      BY <1>11, <1>12, <2>8
    <3>3. \A x \in DOMAIN table \ {s} : bucket'[x] \in Buckets
      BY <1>1, <1>2, <1>9, <1>10, <2>8
    <3> QED BY <1>1, <1>2, <2>3, <3>1, <3>2, <3>3
  <2>10. ideal' \in [Senders -> Buckets]
    BY <1>1, <2>2, <2>4
  <2>11. ASSUME NEW x \in Senders
         PROVE  IF x \in DOMAIN bucket' THEN Level(bucket'[x]) <= Level(ideal'[x])
                                        ELSE Level(ideal'[x]) = Burst
    <3>1. CASE x = s
      <4>1. bucket'[x] = b /\ x \in DOMAIN bucket' /\ ideal'[x] = c
        BY <1>1, <1>10, <2>2, <2>8, <3>1
      <4> QED BY <2>7, <4>1
    <3>2. CASE x # s /\ x \in DOMAIN table
      <4>1. bucket'[x] = table[x] /\ x \in DOMAIN bucket' /\ ideal'[x] = ideal[x]
        BY <1>1, <1>10, <2>2, <2>8, <3>2
      <4> QED BY <1>9, <3>2, <4>1
    <3>3. CASE x # s /\ x \notin DOMAIN table
      <4>1. x \notin DOMAIN bucket' /\ ideal'[x] = ideal[x]
        BY <1>1, <1>10, <2>2, <2>8, <3>3
      <4> QED BY <1>2, <3>3, <4>1
    <3> QED BY <3>1, <3>2, <3>3
  <2> QED BY <1>3, <2>9, <2>10, <2>11, BucketsKept
<1>13. CASE room /\ bucket' = Put1(table, s, mine) /\ ideal' = ideal
  <2>1. /\ DOMAIN bucket' \subseteq Senders /\ Cardinality(DOMAIN bucket') <= TableSize
        /\ \A x \in DOMAIN bucket' : bucket'[x] \in Buckets
    BY <1>1, <1>2, <1>6, <1>9, <1>10, <1>11, <1>13
  <2>2. ASSUME NEW x \in Senders
        PROVE  IF x \in DOMAIN bucket' THEN Level(bucket'[x]) <= Level(ideal'[x])
                                       ELSE Level(ideal'[x]) = Burst
    <3>1. CASE x = s
      <4>1. bucket'[x] = mine /\ x \in DOMAIN bucket' /\ ideal'[x] = ideal[s]
        BY <1>10, <1>13, <3>1
      <4> QED BY <1>5, <1>8, <4>1
    <3>2. CASE x # s /\ x \in DOMAIN table
      <4>1. bucket'[x] = table[x] /\ x \in DOMAIN bucket' /\ ideal'[x] = ideal[x]
        BY <1>10, <1>13, <3>2
      <4> QED BY <1>9, <3>2, <4>1
    <3>3. CASE x # s /\ x \notin DOMAIN table
      <4>1. x \notin DOMAIN bucket' /\ ideal'[x] = ideal[x]
        BY <1>10, <1>13, <3>3
      <4> QED BY <1>2, <3>3, <4>1
    <3> QED BY <3>1, <3>2, <3>3
  <2> QED BY <1>1, <1>3, <1>13, <2>1, <2>2, BucketsKept
<1>14. CASE bucket' = table /\ ideal' = ideal
  <2>1. /\ DOMAIN bucket' \subseteq Senders /\ Cardinality(DOMAIN bucket') <= TableSize
        /\ \A x \in DOMAIN bucket' : bucket'[x] \in Buckets
    BY <1>1, <1>2, <1>14
  <2>2. \A x \in Senders : IF x \in DOMAIN bucket' THEN Level(bucket'[x]) <= Level(ideal'[x])
                                                   ELSE Level(ideal'[x]) = Burst
    BY <1>1, <1>2, <1>14 DEF LevelInv
  <2> QED BY <1>1, <1>3, <1>14, <2>1, <2>2, BucketsKept
<1> QED BY <1>4, <1>12, <1>13, <1>14

(* Every step keeps the relay invariant. *)
LEMMA RelayKept == RelayInv /\ [RelayNext]_relayVars => RelayInv'
<1> SUFFICES ASSUME RelayInv, [RelayNext]_relayVars PROVE RelayInv'
  OBVIOUS
<1>1. CASE UNCHANGED relayVars
  BY <1>1 DEF relayVars, RelayInv, RelayTypes, RelayTypeOK, OneIdentity, LevelInv, Level, Buckets, Ids
<1> QED BY <1>1, IdentityKeeps, RestartKeeps, AllowKeeps, MinuteKeeps DEF RelayNext

(* What the relay invariant says of a sender's tokens. *)
LEMMA RelayShows == RelayInv => RelayTypeOK /\ OneIdentity /\ RateIsKept
<1> SUFFICES ASSUME RelayInv PROVE RateIsKept
  BY DEF RelayInv, RelayTypes
<1>1. minute \in 0..MaxMinute /\ \A s \in Senders : ideal[s].at \in 0..minute
  BY DEF RelayInv, RelayTypes, RelayTypeOK, Buckets
<1> QED BY <1>1, RelayAssumption DEF RateIsKept

-----------------------------------------------------------------------------
(* The partner's credential. *)

(* A credential's record. *)
LEMMA PartnerMakes ==
    ASSUME NEW v \in 0..MaxSecret, NEW n \in Nat
    PROVE  /\ [secret |-> v, revoked |-> FALSE, version |-> n] \in Partners
           /\ [secret |-> v, revoked |-> TRUE, version |-> n] \in Partners
<1>1. \A b \in BOOLEAN : [secret |-> v, revoked |-> b, version |-> n] \in Partners
  BY DEF Partners
<1>2. FALSE \in BOOLEAN /\ TRUE \in BOOLEAN
  BY Zenon
<1> QED BY <1>1, <1>2, Zenon

(* The credential invariant holds of an organization with or without one. *)
LEMMA PartnerStarts == PartnerInit => PartnerInv
<1> USE AdminAssumption
<1> SUFFICES ASSUME PartnerInit PROVE PartnerInv
  OBVIOUS
<1>1. partner \in Partners
  <2>1. 0 \in 0..MaxSecret /\ 1 \in 0..MaxSecret
    OBVIOUS
  <2> QED BY <2>1, PartnerMakes DEF PartnerInit, NoPartner
<1>2. PartnerTypes
  BY <1>1 DEF PartnerInit, PartnerTypes
<1>3. MintedSecretWorks
  BY DEF PartnerInit, MintedSecretWorks, Authenticates
<1>4. \A r \in Requests : minting[r] = Idle
  BY DEF PartnerInit
<1> QED BY <1>2, <1>3, <1>4 DEF PartnerInv

(* Every step keeps the credential invariant. *)
LEMMA PartnerKept == PartnerInv /\ [PartnerNext]_partnerVars => PartnerInv'
<1> USE AdminAssumption
<1> SUFFICES ASSUME PartnerInv, [PartnerNext]_partnerVars PROVE PartnerInv'
  OBVIOUS
<1> DEFINE Reads == [pc : {"mint", "revoke"}, record : Partners]
<1>1. /\ partner \in Partners /\ issued \subseteq 1..MaxSecret /\ ended \subseteq 1..MaxSecret
      /\ minting \in [Requests -> {Idle} \cup Reads]
      /\ MintedSecretWorks
      /\ \A r \in Requests : minting[r] # Idle =>
            /\ minting[r].record.version <= partner.version
            /\ minting[r].record.version = partner.version => minting[r].record = partner
  BY DEF PartnerInv, PartnerTypes
<1>2. /\ partner.secret \in 0..MaxSecret /\ partner.version \in Nat
      /\ partner.revoked \in BOOLEAN
  BY <1>1 DEF Partners
<1>3. ASSUME NEW r \in Requests, minting[r].pc # "idle"
      PROVE  /\ minting[r] # Idle /\ minting[r] \in Reads
             /\ minting[r].record.version \in Nat
  <2>1. minting[r] \in Reads /\ minting[r] # Idle
    BY <1>1, <1>3 DEF Idle
  <2> QED BY <2>1 DEF Partners
<1>4. \A r \in Requests : minting[r] # Idle => minting[r].record.version \in Nat
  BY <1>1 DEF Partners
<1>5. CASE UNCHANGED partnerVars
  BY <1>1, <1>5 DEF partnerVars, PartnerInv, PartnerTypes, MintedSecretWorks, Authenticates
<1>6. ASSUME NEW r \in Requests, NEW kind \in {"mint", "revoke"}, ReadPartner(r, kind)
      PROVE  PartnerInv'
  <2>1. /\ minting' = [minting EXCEPT ![r] = [pc |-> kind, record |-> partner]]
        /\ UNCHANGED <<partner, issued, ended>>
    BY <1>6 DEF ReadPartner
  <2>2. [pc |-> kind, record |-> partner] \in Reads
    BY <1>1
  <2>3. minting' \in [Requests -> {Idle} \cup Reads]
    BY <1>1, <2>1, <2>2
  <2>4. PartnerTypes'
    BY <1>1, <2>1, <2>3 DEF PartnerTypes
  <2>5. MintedSecretWorks'
    BY <1>1, <2>1 DEF MintedSecretWorks, Authenticates
  <2>6. ASSUME NEW x \in Requests, minting'[x] # Idle
        PROVE  /\ minting'[x].record.version <= partner'.version
               /\ minting'[x].record.version = partner'.version => minting'[x].record = partner'
    <3>1. CASE x = r
      <4>1. minting'[x].record = partner
        BY <1>1, <2>1, <3>1
      <4> QED BY <1>2, <2>1, <4>1
    <3>2. CASE x # r
      <4>1. minting'[x] = minting[x]
        BY <1>1, <2>1, <3>2
      <4> QED BY <1>1, <2>1, <2>6, <4>1
    <3> QED BY <3>1, <3>2
  <2> QED BY <2>4, <2>5, <2>6 DEF PartnerInv
<1>7. ASSUME NEW r \in Requests, minting' = [minting EXCEPT ![r] = Idle],
             NEW p \in Partners, partner' = p, p.version = partner.version + 1,
             issued' \subseteq 1..MaxSecret, ended' \subseteq 1..MaxSecret,
             MintedSecretWorks'
      PROVE  PartnerInv'
  <2>1. minting' \in [Requests -> {Idle} \cup Reads]
    BY <1>1, <1>7
  <2>2. PartnerTypes'
    BY <1>7, <2>1 DEF PartnerTypes
  <2>3. ASSUME NEW x \in Requests, minting'[x] # Idle
        PROVE  minting'[x].record.version < partner'.version
    <3>1. minting'[x] = minting[x]
      BY <1>1, <1>7, <2>3
    <3>2. minting[x].record.version \in Nat /\ minting[x].record.version <= partner.version
      BY <1>1, <1>4, <2>3, <3>1
    <3> QED BY <1>2, <1>7, <3>1, <3>2
  <2>4. ASSUME NEW x \in Requests, minting'[x] # Idle
        PROVE  minting'[x].record.version \in Nat /\ partner'.version \in Nat
    BY <1>1, <1>4, <1>7, <2>4 DEF Partners
  <2>5. ASSUME NEW x \in Requests, minting'[x] # Idle
        PROVE  /\ minting'[x].record.version <= partner'.version
               /\ minting'[x].record.version = partner'.version => minting'[x].record = partner'
    BY <2>3, <2>4, <2>5
  <2> QED BY <1>7, <2>2, <2>5 DEF PartnerInv
<1>8. ASSUME NEW r \in Requests, minting' = [minting EXCEPT ![r] = Idle],
             UNCHANGED <<partner, issued, ended>>
      PROVE  PartnerInv'
  <2>1. minting' \in [Requests -> {Idle} \cup Reads]
    BY <1>1, <1>8
  <2>2. PartnerTypes'
    BY <1>1, <1>8, <2>1 DEF PartnerTypes
  <2>3. MintedSecretWorks'
    BY <1>1, <1>8 DEF MintedSecretWorks, Authenticates
  <2>4. ASSUME NEW x \in Requests, minting'[x] # Idle
        PROVE  /\ minting'[x].record.version <= partner'.version
               /\ minting'[x].record.version = partner'.version => minting'[x].record = partner'
    <3>1. minting'[x] = minting[x]
      BY <1>1, <1>8, <2>4
    <3> QED BY <1>1, <1>8, <2>4, <3>1
  <2> QED BY <2>2, <2>3, <2>4 DEF PartnerInv
<1>9. ASSUME NEW r \in Requests, MintPartnerCredential(r)
      PROVE  PartnerInv'
  <2> DEFINE rec == minting[r].record
             free == (rec.secret = 0 \/ rec.revoked) /\ rec.version = partner.version
  <2>1. /\ minting[r].pc = "mint" /\ partner.secret < MaxSecret
        /\ minting' = [minting EXCEPT ![r] = Idle] /\ ended' = ended
        /\ partner' = IF free THEN [secret |-> partner.secret + 1, revoked |-> FALSE,
                                    version |-> partner.version + 1] ELSE partner
        /\ \E answered \in BOOLEAN :
             issued' = IF free /\ answered THEN issued \cup {partner.secret + 1} ELSE issued
    BY <1>9 DEF MintPartnerCredential
  <2>2. rec.version = partner.version => rec = partner
    BY <1>1, <1>3, <2>1
  <2> HIDE DEF rec
  <2>3. CASE ~free
    <3>1. UNCHANGED <<partner, issued, ended>>
      BY <2>1, <2>3
    <3> QED BY <1>8, <2>1, <3>1
  <2>4. CASE free
    <3> DEFINE p == [secret |-> partner.secret + 1, revoked |-> FALSE,
                     version |-> partner.version + 1]
    <3>1. partner.secret = 0 \/ partner.revoked
      BY <2>2, <2>4
    <3>2. partner' = p
      BY <2>1, <2>4
    <3>3. p \in Partners
      <4>1. partner.secret + 1 \in 0..MaxSecret /\ partner.version + 1 \in Nat
        BY <1>2, <2>1
      <4> QED BY <4>1, PartnerMakes
    <3>4. issued' = issued \/ issued' = issued \cup {partner.secret + 1}
      BY <2>1
    <3>5. issued' \subseteq 1..MaxSecret
      <4>1. partner.secret + 1 \in 1..MaxSecret
        BY <1>2, <2>1
      <4> QED BY <1>1, <3>4, <4>1
    <3>6. \A s \in issued : s \in ended
      BY <1>1, <3>1 DEF MintedSecretWorks, Authenticates
    <3>7. MintedSecretWorks'
      BY <1>2, <2>1, <3>2, <3>4, <3>6 DEF MintedSecretWorks, Authenticates
    <3>8. p.version = partner.version + 1
      OBVIOUS
    <3> HIDE DEF p
    <3> QED BY <1>1, <1>7, <2>1, <3>2, <3>3, <3>5, <3>7, <3>8
  <2> QED BY <2>3, <2>4
<1>10. ASSUME NEW r \in Requests, RevokePartnerCredential(r)
       PROVE  PartnerInv'
  <2> DEFINE rec == minting[r].record
             done == rec.secret # 0 /\ ~rec.revoked /\ rec.version = partner.version
  <2>1. /\ minting[r].pc = "revoke" /\ issued' = issued
        /\ minting' = [minting EXCEPT ![r] = Idle]
        /\ partner' = IF done THEN [partner EXCEPT !.revoked = TRUE, !.version = @ + 1] ELSE partner
        /\ ended' = IF done THEN ended \cup {rec.secret} ELSE ended
    BY <1>10 DEF RevokePartnerCredential
  <2>2. rec.version = partner.version => rec = partner
    BY <1>1, <1>3, <2>1
  <2> HIDE DEF rec
  <2>3. CASE ~done
    <3>1. UNCHANGED <<partner, issued, ended>>
      BY <2>1, <2>3
    <3> QED BY <1>8, <2>1, <3>1
  <2>4. CASE done
    <3> DEFINE p == [partner EXCEPT !.revoked = TRUE, !.version = @ + 1]
    <3>1. partner' = p /\ ended' = ended \cup {partner.secret} /\ partner.secret # 0
      BY <2>1, <2>2, <2>4
    <3>2. p \in Partners /\ p.version = partner.version + 1
      <4>1. \A b \in BOOLEAN : LET q == [partner EXCEPT !.revoked = b, !.version = @ + 1]
                               IN  q \in Partners /\ q.version = partner.version + 1
        <5> SUFFICES ASSUME NEW b \in BOOLEAN
                     PROVE  LET q == [partner EXCEPT !.revoked = b, !.version = @ + 1]
                            IN  q \in Partners /\ q.version = partner.version + 1
          OBVIOUS
        <5>1. partner.version + 1 \in Nat
          BY <1>2
        <5> QED BY <1>1, <5>1 DEF Partners
      <4>2. TRUE \in BOOLEAN
        BY Zenon
      <4> QED BY <4>1, <4>2, Zenon
    <3>3. ended' \subseteq 1..MaxSecret
      BY <1>1, <1>2, <3>1
    <3>4. MintedSecretWorks'
      BY <1>1, <2>1, <3>1 DEF MintedSecretWorks, Authenticates
    <3> HIDE DEF p
    <3> QED BY <1>1, <1>7, <2>1, <3>1, <3>2, <3>3, <3>4
  <2> QED BY <2>3, <2>4
<1> QED BY <1>5, <1>6, <1>9, <1>10 DEF PartnerNext

-----------------------------------------------------------------------------
(* The configuration. *)

(* A request is where its pc says. *)
LEMMA RequestFacts ==
    ASSUME NEW q \in AdminRequests
    PROVE  /\ q.pc = "idle" => q = Idle
           /\ q.pc = "load" => q \in LoadRequests
           /\ q.pc = "prepare" => q \in PrepareRequests
           /\ q.pc = "commit" => q \in CommitRequests
           /\ RequestOK(Idle)
BY DEF AdminRequests, Idle, LoadRequests, PrepareRequests, CommitRequests, RequestOK

(* The configuration invariant holds of a new organization, and of one     *)
(* whose collection needs repair.                                          *)
LEMMA ConfigStarts == ConfigInit => ConfigInv
<1> USE AdminAssumption
<1> SUFFICES ASSUME ConfigInit PROVE ConfigInv
  OBVIOUS
<1>2. config \in Configs \cup {NoConfig}
  BY DEF ConfigInit, Configs, Switch
<1>3. ConfigTypes
  BY <1>2 DEF ConfigInit, ConfigTypes, AdminRequests
<1>4. AuthorInv
  BY DEF ConfigInit, AuthorInv
<1>5. \A r \in Requests : request[r] = Idle
  BY DEF ConfigInit
<1>6. RequestOK(Idle)
  BY RequestFacts DEF AdminRequests
<1> QED BY <1>3, <1>4, <1>5, <1>6 DEF ConfigInv

(* Steps that leave the stored configuration alone and may add a record.   *)
LEMMA ConfigFrame ==
    ASSUME ConfigInv, UNCHANGED <<config, committedBy>>, clock' \in 1..MaxStamp,
           authorship \subseteq authorship', authorship' \subseteq Records,
           \A a, b \in authorship' : a.content = b.content => a = b,
           request' \in [Requests -> AdminRequests],
           \A r \in Requests : request'[r] = request[r] \/ RequestOK(request[r])'
    PROVE  ConfigInv'
<1>1. ConfigTypes'
  BY DEF ConfigInv, ConfigTypes, Configs, Contents, Records, Authors, AdminRequests, LoadRequests,
         PrepareRequests, CommitRequests, NoConfig, Idle
<1>2. AuthorInv'
  BY DEF ConfigInv, AuthorInv, ContentOf, NoConfig
<1>3. ASSUME NEW r \in Requests PROVE RequestOK(request[r])'
  <2>1. CASE request'[r] = request[r]
    <3>1. RequestOK(request[r])
      BY DEF ConfigInv
    <3> QED BY <2>1, <3>1 DEF RequestOK, CarriesOver
  <2> QED BY <2>1
<1> QED BY <1>1, <1>2, <1>3 DEF ConfigInv

(* The same for a step of one request that adds no record. *)
LEMMA RequestMoves ==
    ASSUME ConfigInv, UNCHANGED <<config, authorship, committedBy, clock>>,
           NEW r \in Requests, NEW q \in AdminRequests, RequestOK(q),
           request' = [request EXCEPT ![r] = q]
    PROVE  ConfigInv'
<1>1. /\ request \in [Requests -> AdminRequests] /\ clock \in 1..MaxStamp
      /\ authorship \subseteq Records
      /\ \A a, b \in authorship : a.content = b.content => a = b
  BY DEF ConfigInv, ConfigTypes, AuthorInv
<1>2. request' \in [Requests -> AdminRequests]
  BY <1>1
<1>3. RequestOK(q)'
  BY DEF RequestOK, CarriesOver
<1>4. ASSUME NEW x \in Requests PROVE request'[x] = request[x] \/ RequestOK(request[x])'
  <2>1. CASE x = r
    <3>1. request'[x] = q
      BY <1>1, <2>1
    <3> QED BY <1>3, <3>1
  <2>2. CASE x # r
    BY <1>1, <2>2
  <2> QED BY <2>1, <2>2
<1> QED BY <1>1, <1>2, <1>4, ConfigFrame

(* A request begins with a version that was read, and states what its      *)
(* route allows.                                                           *)
LEMMA BeginEditKeeps ==
    ASSUME ConfigInv, NEW r \in Requests, BeginEdit(r)
    PROVE  ConfigInv'
<1> USE AdminAssumption
<1>1. PICK who \in {"administrator", "partner"}, kind \in {"create", "putConfig", "putCollection"},
           coll \in Collections \cup {Keep}, install \in Switch \cup {Keep},
           rest \in Settings \cup {Keep}, match \in 0..config.version :
        /\ kind \in (IF who = "partner" THEN PartnerRoutes ELSE AdminRoutes)
        /\ who = "partner" => \E s \in issued : Authenticates(s)
        /\ kind = "putCollection" => rest = Keep /\ install = Keep /\ coll # Keep
        /\ kind = "create" => coll # Keep /\ rest # Keep /\ match = 0
        /\ kind # "create" => match > 0
        /\ request' = [request EXCEPT ![r] =
              [pc |-> "load", who |-> who, kind |-> kind, coll |-> coll, install |-> install,
               rest |-> rest, match |-> match]]
  BY Zenon DEF BeginEdit
<1> DEFINE q == [pc |-> "load", who |-> who, kind |-> kind, coll |-> coll, install |-> install,
                 rest |-> rest, match |-> match]
<1>2. config.version \in 0..MaxVersion
  BY DEF ConfigInv, ConfigTypes, Configs, NoConfig
<1>3. match \in 0..MaxVersion /\ match <= config.version
  BY <1>2
<1>4. q \in LoadRequests
  BY <1>3 DEF LoadRequests, Authors
<1>5. who = "partner" => kind = "putCollection"
  BY <1>1 DEF PartnerRoutes
<1>6. q.pc = "load" /\ q.match <= config.version /\ q.kind = kind /\ q.who = who /\ q.coll = coll
      /\ q.install = install /\ q.rest = rest /\ q.match = match
  BY <1>3
<1> HIDE DEF q
<1>7. RequestOK(q)
  BY <1>1, <1>4, <1>5, <1>6 DEF RequestOK, PrepareRequests, CommitRequests
<1>8. q \in AdminRequests
  BY <1>4 DEF AdminRequests
<1>9. request' = [request EXCEPT ![r] = q]
  BY <1>1 DEF q
<1> QED BY <1>7, <1>8, <1>9, RequestMoves DEF BeginEdit

(* What a request does not state, it carries over from the configuration   *)
(* it loads.                                                               *)
LEMMA LoadKeeps ==
    ASSUME ConfigInv, NEW r \in Requests, LoadAndValidate(r)
    PROVE  ConfigInv'
<1> USE AdminAssumption
<1> DEFINE q == request[r]
           coll == IF q.kind = "create" THEN q.coll ELSE Carried(q.coll, config.coll)
           rest == IF q.kind = "create" THEN q.rest ELSE Carried(q.rest, config.rest)
           n == [pc |-> "prepare", who |-> q.who, match |-> q.match, coll |-> coll,
                 install |-> NewInstall(q), rest |-> rest, stated |-> StatedBy(q)]
<1>1. /\ q.pc = "load"
      /\ \/ request' = [request EXCEPT ![r] = Idle]
         \/ coll # Broken /\ request' = [request EXCEPT ![r] = n]
      /\ UNCHANGED <<config, authorship, committedBy, clock>>
  BY DEF LoadAndValidate
<1>2. q \in AdminRequests /\ RequestOK(q) /\ config \in Configs \cup {NoConfig}
  BY DEF ConfigInv, ConfigTypes
<1>3. q \in LoadRequests
  BY <1>1, <1>2, RequestFacts
<1>4. /\ q.match <= config.version
      /\ q.kind = "create" => q.coll # Keep /\ q.rest # Keep
      /\ q.kind # "create" => q.match # 0
      /\ q.who = "partner" => q.kind = "putCollection"
      /\ q.kind = "putCollection" => q.rest = Keep /\ q.install = Keep
  BY <1>2, <1>3 DEF RequestOK
<1>5. /\ q.who \in Authors /\ q.match \in 0..MaxVersion
      /\ q.coll \in Collections \cup {Keep} /\ q.rest \in Settings \cup {Keep}
      /\ q.install \in Switch \cup {Keep}
  BY <1>3 DEF LoadRequests
<1>6. q.kind # "create" => /\ config \in Configs /\ config.coll \in Collections \cup {Broken}
                           /\ config.rest \in Settings /\ config.install \in Switch
  BY <1>2, <1>4, <1>5 DEF Configs, NoConfig
<1>7. CASE request' = [request EXCEPT ![r] = Idle]
  BY <1>1, <1>2, <1>7, RequestFacts, RequestMoves DEF AdminRequests
<1>8. CASE coll # Broken /\ request' = [request EXCEPT ![r] = n]
  <2>1. coll \in Collections /\ rest \in Settings
    BY <1>4, <1>5, <1>6, <1>8 DEF Carried
  <2>2. /\ StatedBy(q) \in SUBSET Stateable
        /\ "coll" \in StatedBy(q) <=> q.coll # Keep
        /\ "rest" \in StatedBy(q) <=> q.rest # Keep
        /\ "install" \in StatedBy(q) <=> q.install # Keep
        /\ "reset" \in StatedBy(q) <=> q.install = Keep /\ q.kind # "putCollection"
    BY DEF StatedBy, Stateable
  <2>3. /\ "coll" \notin StatedBy(q) => coll = config.coll
        /\ "rest" \notin StatedBy(q) => rest = config.rest
    BY <1>4, <1>5, <2>2 DEF Carried
  <2>i. /\ NewInstall(q) \in Switch
        /\ \/ NewInstall(q) = config.install \/ "install" \in StatedBy(q)
           \/ "reset" \in StatedBy(q) /\ NewInstall(q) = "off"
    BY <1>5, <1>6, <2>2 DEF NewInstall, Decoded, Switch
  <2>w. StatedBy(q) \subseteq {"coll"} \/ q.who = "administrator"
    BY <1>4, <1>5, <2>2 DEF Authors, Stateable
  <2>4. /\ n.pc = "prepare" /\ n.match = q.match /\ n.stated = StatedBy(q) /\ n.who = q.who
        /\ n.coll = coll /\ n.install = NewInstall(q) /\ n.rest = rest
    OBVIOUS
  <2>5. n \in PrepareRequests
    BY <1>5, <2>1, <2>2, <2>i DEF PrepareRequests
  <2>6. CarriesOver(n, n.coll, n.install, n.rest)
    BY <1>4, <2>3, <2>4, <2>i, <2>w DEF CarriesOver
  <2> HIDE DEF n
  <2>7. RequestOK(n)
    BY <2>4, <2>5, <2>6 DEF RequestOK, LoadRequests, CommitRequests
  <2>8. n \in AdminRequests
    BY <2>5 DEF AdminRequests
  <2> QED BY <1>1, <1>8, <2>7, <2>8, RequestMoves
<1> QED BY <1>1, <1>7, <1>8

(* Preparing a write adds its record, or finds its own: content keeps one  *)
(* author.                                                                 *)
LEMMA PrepareKeeps ==
    ASSUME ConfigInv, NEW r \in Requests, PrepareConfigWrite(r)
    PROVE  ConfigInv'
<1> USE AdminAssumption
<1> DEFINE q == request[r]
           content == NewContent(q)
           existing == {a \in authorship : a.content = content}
           n == Prepared(q, content)
           record == [content |-> content, author |-> q.who]
<1>1. /\ q.pc = "prepare"
      /\ authorship' = IF existing = {} THEN {record} \cup authorship ELSE authorship
      /\ request' = [request EXCEPT ![r] = IF \A a \in existing : a.author = q.who THEN n ELSE Idle]
      /\ UNCHANGED <<config, committedBy, clock>>
  BY DEF PrepareConfigWrite
<1>2. /\ q \in AdminRequests /\ RequestOK(q) /\ request \in [Requests -> AdminRequests]
      /\ authorship \subseteq Records /\ clock \in 1..MaxStamp
      /\ \A a, b \in authorship : a.content = b.content => a = b
  BY DEF ConfigInv, ConfigTypes, AuthorInv
<1>3. q \in PrepareRequests
  BY <1>1, <1>2, RequestFacts
<1>4. CarriesOver(q, q.coll, q.install, q.rest)
  BY <1>2, <1>3 DEF RequestOK
<1>5. /\ content \in Contents /\ content.coll = q.coll /\ content.install = q.install
      /\ content.rest = q.rest
  BY <1>2, <1>3 DEF NewContent, Contents, PrepareRequests
<1>6. /\ q.who \in Authors /\ q.match \in 0..MaxVersion /\ q.stated \in SUBSET Stateable
  BY <1>3 DEF PrepareRequests
<1>7. record \in Records /\ record.content = content /\ record.author = q.who
  BY <1>5, <1>6 DEF Records
<1>8. /\ n.pc = "commit" /\ n.who = q.who /\ n.match = q.match /\ n.stated = q.stated
      /\ n.content = content
  BY DEF Prepared
<1>9. n \in CommitRequests
  BY <1>5, <1>6 DEF Prepared, CommitRequests
<1> HIDE DEF q, content, record, n
<1>10. /\ authorship \subseteq authorship' /\ authorship' \subseteq Records
       /\ \A a, b \in authorship' : a.content = b.content => a = b
  BY <1>1, <1>2, <1>7
<1>11. (\A a \in existing : a.author = q.who) => record \in authorship'
  <2> SUFFICES ASSUME \A a \in existing : a.author = q.who PROVE record \in authorship'
    OBVIOUS
  <2>1. CASE existing = {}
    BY <1>1, <2>1
  <2>2. CASE existing # {}
    <3>1. PICK a \in authorship : a.content = content /\ a.author = q.who
      BY <2>2
    <3>2. a = record
      BY <1>2, <1>7, <3>1 DEF Records
    <3> QED BY <1>10, <3>1, <3>2
  <2> QED BY <2>1, <2>2
<1>m. PICK m : /\ m = n /\ m.pc = "commit" /\ m.who = q.who /\ m.match = q.match
               /\ m.stated = q.stated /\ m.content = content
  BY <1>8
<1>12. record \in authorship' => RequestOK(m)'
  <2> SUFFICES ASSUME record \in authorship' PROVE RequestOK(m)'
    OBVIOUS
  <2>1. CarriesOver(m, m.content.coll, m.content.install, m.content.rest)'
    BY <1>1, <1>4, <1>5, <1>m DEF CarriesOver
  <2>2. [content |-> m.content, author |-> m.who] \in authorship'
    BY <1>m DEF record
  <2> QED BY <1>m, <2>1, <2>2 DEF RequestOK, LoadRequests, PrepareRequests
<1>13. n \in AdminRequests /\ Idle \in AdminRequests
  BY <1>9 DEF AdminRequests
<1>14. request' \in [Requests -> AdminRequests]
  BY <1>1, <1>2, <1>13
<1>15. ASSUME NEW x \in Requests PROVE request'[x] = request[x] \/ RequestOK(request[x])'
  <2>1. CASE x # r
    BY <1>1, <1>2, <2>1
  <2>2. CASE x = r /\ \A a \in existing : a.author = q.who
    <3>1. request'[x] = m
      BY <1>1, <1>2, <1>m, <2>2
    <3> QED BY <1>11, <1>12, <2>2, <3>1
  <2>3. CASE x = r /\ ~\A a \in existing : a.author = q.who
    <3>1. request'[x] = Idle
      BY <1>1, <1>2, <2>3
    <3>2. RequestOK(Idle)'
      BY DEF RequestOK, Idle, LoadRequests, PrepareRequests, CommitRequests
    <3> QED BY <3>1, <3>2
  <2> QED BY <2>1, <2>2, <2>3
<1> QED BY <1>1, <1>2, <1>10, <1>14, <1>15, ConfigFrame

(* What a commit at the matching version replaces. *)
LEMMA CommitFacts ==
    ASSUME ConfigInv, NEW r \in Requests, CommitConfig(r), config.version = request[r].match
    PROVE  LET q == request[r]
           IN  /\ q \in CommitRequests
               /\ config' = Stored(q.content, config.version + 1)
               /\ config' \in Configs /\ config'.version = config.version + 1
               /\ ContentOf(config') = q.content
               /\ config'.coll = q.content.coll /\ config'.install = q.content.install
               /\ config'.rest = q.content.rest
               /\ committedBy' = q.who
               /\ CarriesOver(q, q.content.coll, q.content.install, q.content.rest)
               /\ [content |-> q.content, author |-> q.who] \in authorship
<1> USE AdminAssumption
<1> DEFINE q == request[r]
<1>1. /\ q.pc = "commit" /\ config.version < MaxVersion
      /\ config' = Stored(q.content, config.version + 1)
      /\ committedBy' = q.who
  BY DEF CommitConfig
<1>2. q \in AdminRequests /\ RequestOK(q) /\ config.version \in 0..MaxVersion
  BY DEF ConfigInv, ConfigTypes, Configs, NoConfig
<1>3. q \in CommitRequests
  BY <1>1, <1>2, RequestFacts
<1>4. q.content \in Contents
  BY <1>3 DEF CommitRequests
<1>5. /\ CarriesOver(q, q.content.coll, q.content.install, q.content.rest)
      /\ [content |-> q.content, author |-> q.who] \in authorship
  BY <1>2, <1>3 DEF RequestOK
<1> HIDE DEF q
<1>6. config' \in Configs /\ config'.version = config.version + 1
  BY <1>1, <1>2, <1>4 DEF Stored, Configs, Contents
<1>7. /\ ContentOf(config') = q.content
      /\ config'.coll = q.content.coll /\ config'.install = q.content.install
      /\ config'.rest = q.content.rest
  BY <1>1, <1>4 DEF Stored, ContentOf, Contents
<1> QED BY <1>1, <1>3, <1>5, <1>6, <1>7 DEF q

(* A commit keeps the configuration invariant: every other request under   *)
(* way was made for an earlier version.                                    *)
LEMMA CommitKeeps ==
    ASSUME ConfigInv, NEW r \in Requests, CommitConfig(r)
    PROVE  ConfigInv'
<1> USE AdminAssumption
<1>1. /\ request' = [request EXCEPT ![r] = Idle] /\ UNCHANGED <<authorship, clock>>
  BY DEF CommitConfig
<1>2. /\ request \in [Requests -> AdminRequests] /\ config.version \in Nat
      /\ authorship \subseteq Records /\ clock \in 1..MaxStamp
      /\ \A a, b \in authorship : a.content = b.content => a = b
      /\ \A x \in Requests : RequestOK(request[x])
  BY DEF ConfigInv, ConfigTypes, AuthorInv, Configs, NoConfig
<1>3. CASE config.version # request[r].match
  <2>1. UNCHANGED <<config, committedBy>>
    BY <1>3 DEF CommitConfig
  <2>2. Idle \in AdminRequests /\ RequestOK(Idle)
    BY RequestFacts DEF AdminRequests
  <2> QED BY <1>1, <2>1, <2>2, RequestMoves
<1>4. CASE config.version = request[r].match
  <2>1. /\ config' \in Configs /\ config'.version = config.version + 1
        /\ [content |-> ContentOf(config'), author |-> committedBy'] \in authorship
    BY <1>4, CommitFacts
  <2>2. Idle \in AdminRequests
    BY DEF AdminRequests
  <2>3. request' \in [Requests -> AdminRequests]
    BY <1>1, <1>2, <2>2
  <2>4. ConfigTypes'
    BY <1>1, <1>2, <2>1, <2>3 DEF ConfigTypes
  <2>5. AuthorInv'
    <3>1. ContentOf(config)' = ContentOf(config')
      BY DEF ContentOf
    <3> QED BY <1>1, <1>2, <2>1, <3>1 DEF AuthorInv
  <2>6. ASSUME NEW x \in Requests PROVE RequestOK(request[x])'
    <3>1. CASE x = r
      <4>1. request'[x] = Idle
        BY <1>1, <1>2, <3>1
      <4> QED BY <4>1 DEF RequestOK, Idle, LoadRequests, PrepareRequests, CommitRequests
    <3>2. CASE x # r
      <4>1. request'[x] = request[x] /\ RequestOK(request[x])
        BY <1>1, <1>2, <3>2
      <4> DEFINE q == request[x]
      <4>2. q \in LoadRequests \cup PrepareRequests \cup CommitRequests => q.match \in Nat
        BY DEF LoadRequests, PrepareRequests, CommitRequests
      <4>3. q \in LoadRequests \cup PrepareRequests \cup CommitRequests => q.match <= config.version
        BY <4>1 DEF RequestOK, CarriesOver
      <4>4. q \in LoadRequests \cup PrepareRequests \cup CommitRequests =>
              q.match <= config'.version /\ q.match # config'.version
        BY <1>2, <2>1, <4>2, <4>3
      <4> HIDE DEF q
      <4>5. request'[x] = q /\ RequestOK(q)
        BY <4>1 DEF q
      <4> QED BY <1>1, <4>4, <4>5 DEF RequestOK, CarriesOver
    <3> QED BY <3>1, <3>2
  <2> QED BY <2>4, <2>5, <2>6 DEF ConfigInv
<1> QED BY <1>3, <1>4

(* Every step keeps the configuration invariant. *)
LEMMA ConfigKept == ConfigInv /\ [ConfigNext]_configVars => ConfigInv'
<1> USE AdminAssumption
<1> SUFFICES ASSUME ConfigInv, [ConfigNext]_configVars PROVE ConfigInv'
  OBVIOUS
<1>1. /\ request \in [Requests -> AdminRequests] /\ clock \in 1..MaxStamp
      /\ authorship \subseteq Records
      /\ \A a, b \in authorship : a.content = b.content => a = b
  BY DEF ConfigInv, ConfigTypes, AuthorInv
<1>2. CASE UNCHANGED configVars
  BY <1>1, <1>2, ConfigFrame DEF configVars
<1>3. CASE PassTime
  <2>1. clock' \in 1..MaxStamp
    BY <1>1, <1>3 DEF PassTime
  <2> QED BY <1>1, <1>3, <2>1, ConfigFrame DEF PassTime
<1>4. ASSUME NEW r \in Requests, AbandonRequest(r) PROVE ConfigInv'
  <2>1. Idle \in AdminRequests /\ RequestOK(Idle)
    BY RequestFacts DEF AdminRequests
  <2> QED BY <1>4, <2>1, RequestMoves DEF AbandonRequest
<1> QED BY <1>2, <1>3, <1>4, BeginEditKeeps, LoadKeeps, PrepareKeeps, CommitKeeps DEF ConfigNext

(* The author shown is the one on the only record of the content. *)
LEMMA AuthorShown == ConfigInv => AuthorIsHonest
<1> USE AdminAssumption
<1> SUFFICES ASSUME ConfigInv, config # NoConfig PROVE ShownAuthor = committedBy
  BY DEF AuthorIsHonest
<1> DEFINE records == {a \in authorship : a.content = ContentOf(config)}
<1>1. ShownAuthor = IF records = {} THEN "unknown" ELSE (CHOOSE a \in records : TRUE).author
  BY DEF ShownAuthor
<1>2. authorship \subseteq Records /\ \A a, b \in authorship : a.content = b.content => a = b
  BY DEF ConfigInv, ConfigTypes, AuthorInv
<1>3. CASE config.coll = Broken /\ committedBy = "unknown"
  <2>1. \A a \in authorship : a.content.coll # Broken
    BY <1>2 DEF Records, Contents
  <2>2. ContentOf(config).coll = Broken
    BY <1>3 DEF ContentOf
  <2>3. records = {}
    BY <2>1, <2>2
  <2> QED BY <1>1, <1>3, <2>3
<1>4. CASE [content |-> ContentOf(config), author |-> committedBy] \in authorship
  <2> DEFINE record == [content |-> ContentOf(config), author |-> committedBy]
  <2>1. record \in records /\ record.author = committedBy
    BY <1>4
  <2>2. \A a \in records : a = record
    BY <1>2, <1>4
  <2> HIDE DEF record
  <2>3. (CHOOSE a \in records : TRUE) = record
    BY <2>1, <2>2
  <2> QED BY <1>1, <2>1, <2>3
<1> QED BY <1>3, <1>4 DEF ConfigInv, AuthorInv

(* A step that changes the configuration ends a request, and changes what  *)
(* that request stated.                                                    *)
LEMMA CommitIsHonest ==
    ASSUME ConfigInv, [ConfigNext]_configVars, config # NoConfig, config' # config
    PROVE  \E r \in Requests : CommittedBy(r) /\ OnlyStated(request[r])
<1>1. PICK r \in Requests : CommitConfig(r)
  BY DEF ConfigNext, configVars, BeginEdit, LoadAndValidate, PrepareConfigWrite, AbandonRequest,
         PassTime
<1>2. config.version = request[r].match
  BY <1>1 DEF CommitConfig
<1>3. request[r].match # 0
  BY <1>2 DEF ConfigInv, ConfigTypes, Configs, NoConfig
<1>4. CommittedBy(r)
  BY <1>1 DEF CommitConfig, CommittedBy, ConfigInv, ConfigTypes
<1>5. OnlyStated(request[r])
  BY <1>1, <1>2, <1>3, CommitFacts DEF CarriesOver, OnlyStated
<1> QED BY <1>4, <1>5

-----------------------------------------------------------------------------
(* The records together. *)

(* A step of one area is a step of that area or a stutter of it. *)
LEMMA AreasStep ==
    ASSUME [Next]_vars
    PROVE  /\ [ConfigNext]_configVars /\ [PartnerNext]_partnerVars
           /\ [ActivityNext]_activityVars /\ [TagsNext]_tagVars /\ [RelayNext]_relayVars
<1>1. CASE UNCHANGED vars
  BY <1>1 DEF vars
<1>2. CASE ConfigNext /\ UNCHANGED <<activityVars, tagVars, relayVars>>
  <2>1. UNCHANGED partnerVars
    BY <1>2 DEF ConfigNext, BeginEdit, LoadAndValidate, PrepareConfigWrite, CommitConfig,
                AbandonRequest, PassTime
  <2> QED BY <1>2, <2>1
<1>3. CASE PartnerNext /\ UNCHANGED <<activityVars, tagVars, relayVars>>
  <2>1. UNCHANGED configVars
    BY <1>3 DEF PartnerNext, ReadPartner, MintPartnerCredential, RevokePartnerCredential
  <2> QED BY <1>3, <2>1
<1>4. CASE ActivityNext /\ UNCHANGED <<configVars, partnerVars, tagVars, relayVars>>
  BY <1>4
<1>5. CASE TagsNext /\ UNCHANGED <<configVars, partnerVars, activityVars, relayVars>>
  BY <1>5
<1>6. CASE RelayNext /\ UNCHANGED <<configVars, partnerVars, activityVars, tagVars>>
  BY <1>6
<1> QED BY <1>1, <1>2, <1>3, <1>4, <1>5, <1>6 DEF Next

(* The invariants of the five areas hold together in every behaviour, for  *)
(* any requests, partners, installs, editors, replicas and bounds.         *)
THEOREM RecordsInductive == Spec => []IInv
<1>1. Init => IInv
  BY ConfigStarts, PartnerStarts, ActivityStarts, TagsStart, RelayStarts DEF Init, IInv
<1>2. IInv /\ [Next]_vars => IInv'
  BY AreasStep, ConfigKept, PartnerKept, ActivityKept, TagsKept, RelayKept DEF IInv
<1> QED BY <1>1, <1>2, PTL DEF Spec

(* config_authorship.go, admin.go: the author shown is the one who         *)
(* committed, however many requests prepared, lost or died at any point,   *)
(* and a secret handed to a partner works until a revocation ends it.      *)
THEOREM AdminAlwaysHonest == Spec => []AdminIsHonest
<1>1. IInv => AdminIsHonest
  <2> SUFFICES ASSUME IInv PROVE TypeOK /\ AuthorIsHonest /\ MintedSecretWorks
    BY DEF AdminIsHonest
  <2>1. AuthorIsHonest /\ MintedSecretWorks
    BY AuthorShown DEF IInv, PartnerInv
  <2>2. ConfigTypeOK
    <3>1. config = NoConfig \/ (ContentOf(config) \in Content /\ config.version \in 1..MaxVersion)
      BY DEF IInv, ConfigInv, ConfigTypes, Configs, Content, ContentOf
    <3>2. \A a \in authorship : a.content \in Content /\ a.author \in {"administrator", "partner"}
      BY DEF IInv, ConfigInv, ConfigTypes, Records, Contents, Content, Authors
    <3>3. partner.revoked \in BOOLEAN /\ partner.secret \in 0..MaxSecret
      BY DEF IInv, PartnerInv, PartnerTypes, Partners
    <3>4. issued \subseteq 1..MaxSecret /\ ended \subseteq 1..MaxSecret /\ clock \in 1..MaxStamp
      BY DEF IInv, PartnerInv, PartnerTypes, ConfigInv, ConfigTypes
    <3> QED BY <3>1, <3>2, <3>3, <3>4, Zenon DEF ConfigTypeOK
  <2>3. ActivityTypeOK /\ TagsTypeOK /\ RelayTypeOK
    BY ActivityShows, RelayShows DEF IInv, TagInv
  <2> QED BY <2>1, <2>2, <2>3, Zenon DEF TypeOK
<1> QED BY <1>1, RecordsInductive, PTL

(* admin_http.go: the configuration changes only when a request ends, and  *)
(* changes then only what that request stated; the settings outside the    *)
(* collection change only for an administrator, and include_install_       *)
(* recipient may also go off with a full edit that leaves it out.          *)
THEOREM UnstatedAlwaysKept == Spec => UnstatedIsKept
<1>1. ASSUME IInv, [Next]_vars
      PROVE  [config # NoConfig /\ config' # config =>
                \E r \in Requests : CommittedBy(r) /\ OnlyStated(request[r])]_configVars
  BY <1>1, AreasStep, CommitIsHonest DEF IInv
<1> QED BY <1>1, RecordsInductive, PTL DEF Spec, UnstatedIsKept

(* seen.go, catalog.go: a digest on record resolves, and no touch that ran *)
(* alone leaves an older catalog on record than the one reported last.     *)
THEOREM ActivityAlwaysCurrent == Spec => []ActivityIsCurrent
<1>1. IInv => ActivityIsCurrent
  BY ActivityShows DEF IInv, ActivityIsCurrent
<1> QED BY <1>1, RecordsInductive, PTL

(* tags.go, metadata.go: no successful edit is erased, and no import picks *)
(* an owner by the order of its rows.                                      *)
THEOREM TagsAlwaysKept == Spec => []TagsAreKept
<1>1. IInv => TagsAreKept
  BY OwnerFacts DEF IInv, TagInv, TagsAreKept, ImportIsUnambiguous
<1> QED BY <1>1, RecordsInductive, PTL

(* telemetry.go, telemetry_identity.go: replicas sign with the one stored  *)
(* identity, and a bounded table never gives a sender more than a table    *)
(* without a bound would, for any rate, burst and size.                    *)
THEOREM RelayAlwaysFair == Spec => []RelayIsFair
<1>1. IInv => RelayIsFair
  BY RelayShows DEF IInv, RelayIsFair
<1> QED BY <1>1, RecordsInductive, PTL
=============================================================================
