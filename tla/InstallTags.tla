----------------------------- MODULE InstallTags -----------------------------
(***************************************************************************)
(* Names and metadata of installs (fleet-manager tags.go, metadata.go):    *)
(* every edit reads the latest record, applies itself and writes           *)
(* conditionally, trying a bounded number of times; an inventory import    *)
(* matches rows to installs by hostname and edits each match.              *)
(***************************************************************************)
EXTENDS Naturals, FiniteSets, Sequences, Functions

CONSTANTS TagInstalls,    \* installs, revoked ones included
          HostKey,        \* each install's hostname, first label, case-folded
          TagEditors,     \* edits under way at a time
          TagNames, TagKeys, TagValues,
          MaxTagKeys,     \* metadata entries a record may hold
          MaxTries,       \* conditional writes tried before giving up
          MaxTagWrites    \* bound on the writes to all records

ASSUME TagsAssumption == IsFiniteSet(TagInstalls) /\ MaxTagKeys \in Nat

VARIABLES tags,           \* the stored records
          edit,           \* edits under way
          serial          \* history: the committed edits applied one after another

tagVars == <<tags, edit, serial>>

None == "none"
Blank == [name |-> None, meta |-> [k \in TagKeys |-> None]]
Quiet == [pc |-> "quiet"]
Writes == SumFunction([i \in TagInstalls |-> tags[i].version])
Keys(meta) == {k \in TagKeys : meta[k] # None}

TagsTypeOK ==
    /\ \A i \in TagInstalls :
         /\ tags[i].body.name \in TagNames \cup {None}
         /\ \A k \in TagKeys : tags[i].body.meta[k] \in TagValues \cup {None}
         /\ Cardinality(Keys(tags[i].body.meta)) <= MaxTagKeys
         /\ tags[i].version \in Nat
         /\ tags[i].version = 0 => tags[i].body = Blank

TagsInit ==
    /\ tags = [i \in TagInstalls |-> [body |-> Blank, version |-> 0]]
    /\ edit = [e \in TagEditors |-> Quiet]
    /\ serial = [i \in TagInstalls |-> Blank]

(* What an edit does to a record: SetTag, setTag with if_missing, PatchMetadata. *)
Applied(q, body) ==
    CASE q.kind = "name" -> [body EXCEPT !.name = q.name]
      [] q.kind = "ifMissing" -> IF body.name = None THEN [body EXCEPT !.name = q.name] ELSE body
      [] q.kind = "patch" -> [body EXCEPT !.meta[q.key] = q.value]

(* Mutant: only the entries of the request are counted. *)
AcceptableAny(body) == \A k \in TagKeys : Cardinality(Keys(body.meta) \cap {k}) <= MaxTagKeys

(* validateMetadata: an edit that leaves too many entries is refused. *)
Acceptable(body) == Cardinality(Keys(body.meta)) <= MaxTagKeys

Edit(i, kind, name, key, value) ==
    [pc |-> "read", install |-> i, kind |-> kind, name |-> name, key |-> key, value |-> value,
     tries |-> 0]

BeginTagEdit(e) ==
    /\ edit[e].pc = "quiet"
    /\ \E i \in TagInstalls, k \in TagKeys :
         \/ \E n \in TagNames \cup {None}, kind \in {"name", "ifMissing"} :
              edit' = [edit EXCEPT ![e] = Edit(i, kind, n, k, None)]
         \/ \E v \in TagValues \cup {None} :
              edit' = [edit EXCEPT ![e] = Edit(i, "patch", None, k, v)]
    /\ UNCHANGED <<tags, serial>>

(* An attempt reads the record; an edit that would change or create nothing ends here. *)
ReadTags(e) ==
    LET q == edit[e]
        old == tags[q.install]
        new == Applied(q, old.body)
    IN  /\ q.pc = "read"
        /\ edit' = [edit EXCEPT ![e] =
              IF ~Acceptable(new) \/ new = old.body THEN Quiet
              ELSE [pc |-> "write", install |-> q.install, kind |-> q.kind, name |-> q.name,
                    key |-> q.key, value |-> q.value, tries |-> q.tries + 1,
                    version |-> old.version, new |-> new]]
        /\ UNCHANGED <<tags, serial>>

(* Mutant: the record is put without a condition. *)
WriteTagsAnyway(e) ==
    LET q == edit[e]
    IN  /\ q.pc = "write" /\ Writes < MaxTagWrites
        /\ tags' = [tags EXCEPT ![q.install] = [body |-> q.new, version |-> @.version + 1]]
        /\ serial' = [serial EXCEPT ![q.install] = Applied(q, @)]
        /\ edit' = [edit EXCEPT ![e] = Quiet]

(* Create or replace at the version read; a conflict starts over, up to MaxTries. *)
WriteTags(e) ==
    LET q == edit[e]
        unchanged == tags[q.install].version = q.version
    IN  /\ q.pc = "write" /\ (unchanged => Writes < MaxTagWrites)
        /\ tags' = IF unchanged
                   THEN [tags EXCEPT ![q.install] = [body |-> q.new, version |-> @.version + 1]]
                   ELSE tags
        /\ serial' = IF unchanged THEN [serial EXCEPT ![q.install] = Applied(q, @)] ELSE serial
        /\ edit' = [edit EXCEPT ![e] =
              IF unchanged \/ q.tries = MaxTries THEN Quiet
              ELSE [Edit(q.install, q.kind, q.name, q.key, q.value) EXCEPT !.tries = q.tries]]

-----------------------------------------------------------------------------
(* ImportMetadata: rows are matched before any is written. *)

Rows == [host : {HostKey[i] : i \in TagInstalls} \cup {"other"},
         pick : TagInstalls \cup {None}, key : TagKeys, value : TagValues]

SameHost(host) == {i \in TagInstalls : HostKey[i] = host}

(* Mutant: the first install with the hostname is taken. *)
MatchFirst(rows, n) ==
    IF rows[n].pick # None THEN rows[n].pick
    ELSE IF SameHost(rows[n].host) = {} THEN None
    ELSE CHOOSE i \in SameHost(rows[n].host) : TRUE

(* A selected install, or the only install whose hostname only this row carries. *)
Match(rows, n) ==
    LET host == rows[n].host
        unique == Cardinality({m \in DOMAIN rows : rows[m].host = host}) = 1
    IN  IF rows[n].pick # None THEN rows[n].pick
        ELSE IF unique /\ Cardinality(SameHost(host)) = 1
             THEN CHOOSE i \in SameHost(host) : TRUE
        ELSE None

(* Rows that target one install are all refused. *)
ImportTarget(rows, n) ==
    IF \E m \in DOMAIN rows : m # n /\ Match(rows, m) = Match(rows, n) THEN None
    ELSE Match(rows, n)

(* Each matched row of an import becomes an edit of its own, at most one per editor here. *)
ImportMetadata ==
    /\ \A e \in TagEditors : edit[e].pc = "quiet"
    /\ \E rows \in [1..2 -> Rows], slot \in [1..2 -> TagEditors] :
         /\ slot[1] # slot[2]
         /\ edit' = [e \in TagEditors |->
               IF \E n \in 1..2 : slot[n] = e /\ ImportTarget(rows, n) # None
               THEN LET n == CHOOSE m \in 1..2 : slot[m] = e
                    IN  Edit(ImportTarget(rows, n), "patch", None, rows[n].key, rows[n].value)
               ELSE Quiet]
    /\ UNCHANGED <<tags, serial>>

TagsNext ==
    \/ \E e \in TagEditors : BeginTagEdit(e) \/ ReadTags(e) \/ WriteTags(e)
    \/ ImportMetadata

-----------------------------------------------------------------------------
(* "Name changes and disjoint metadata edits never erase one another": the stored record is what
   the edits that reported success give when applied one after another. *)
EditsAreSerial == \A i \in TagInstalls : tags[i].body = serial[i]

(* Row order never picks an owner: a row without a selected install reaches one only when neither
   another install, revoked or not, nor another row could claim it. *)
NoOwnerIsGuessed ==
    \A rows \in [1..2 -> Rows], n \in 1..2 :
      LET i == ImportTarget(rows, n)
      IN  i # None =>
            /\ \A m \in 1..2 : m # n => ImportTarget(rows, m) # i /\ Match(rows, m) # i
            /\ rows[n].pick = None =>
                 /\ SameHost(rows[n].host) = {i}
                 /\ \A m \in 1..2 : m # n => rows[m].host # rows[n].host
=============================================================================
