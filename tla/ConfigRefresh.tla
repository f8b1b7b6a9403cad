---------------------------- MODULE ConfigRefresh ----------------------------
(***************************************************************************)
(* How a shipper obtains the organization's document and keeps one that    *)
(* works: fetch, validation against the local layers, the cache file with  *)
(* its full and its reduced copy, and the fallbacks between them           *)
(* (controlplane/refresh.go, cache.go, app/resolve.go), with the fleet     *)
(* manager's rendering of the document for the build that asks             *)
(* (fleet-manager catalog.go).  A machine may run the current build or an  *)
(* older one that knows neither exclude_add nor the catalog report.        *)
(* Revocation is in ClientCredentials; expiry of a cached document only    *)
(* sets a flag that is displayed, and is left out.                         *)
(***************************************************************************)
EXTENDS ConfigLayers

CONSTANTS UserEdits,        \* documents setting one field, for the user's file
          RemoteEdits,      \* likewise for the served document
          Places,           \* roots that may appear and vanish
          MaxUserEdits, MaxServedEdits, MaxMoves

ASSUME EditAssumption ==
    /\ UserEdits \subseteq Document /\ RemoteEdits \subseteq Document
    /\ "home" \in Places
    /\ MaxUserEdits \in Nat /\ MaxServedEdits \in Nat /\ MaxMoves \in Nat

VARIABLES user,      \* the user's file, or Unreadable
          served,    \* the organization's document, as authored
          cache,     \* remote-config.json
          build,     \* "new" or "old": the installed build
          present,   \* roots that exist
          proc,      \* the running process and the configuration it holds
          since,     \* history: nothing the resolution reads has changed since the cache was saved
          edits, moves

vars == <<user, served, cache, build, present, proc, since, edits, moves>>

Unreadable == [unreadable |-> TRUE]
NoCache == [config |-> NoDoc, full |-> NoDoc, org |-> NoDoc]
Down == [state |-> "down", eff |-> NoDoc, user |-> EmptyDoc, org |-> NoDoc, origin |-> "none"]

(* Types, and what the parts of one record owe each other: a process that runs holds a configuration, and
   a cache without its compatible copy holds nothing (controlplane/cache.go). *)
TypeOK ==
    /\ build \in {"new", "old"}
    /\ present \subseteq Places
    /\ proc.state \in {"down", "up", "fatal"}
    /\ proc.origin \in {"none", "fetched", "cached"}
    /\ proc.state = "up" <=> proc.eff # NoDoc
    /\ cache.config = NoDoc => cache = NoCache
    /\ since \in BOOLEAN
    /\ edits.user \in 0..MaxUserEdits /\ edits.served \in 0..MaxServedEdits /\ moves \in 0..MaxMoves

Init ==
    /\ user = EmptyDoc /\ served = [EmptyDoc EXCEPT !.envelope = TRUE]
    /\ cache = NoCache /\ build = "new" /\ present = {"home"}
    /\ proc = Down /\ since = FALSE /\ edits = [user |-> 0, served |-> 0] /\ moves = 0

-----------------------------------------------------------------------------
(* What the organization's service sends to the build that asks. *)

EnforcesExclusions(b) == b = "new"

(* The entries of sources the build has. *)
Collected(sources) ==
    FoldLeft(LAMBDA kept, o : IF o.id \in Range(CatalogOrder) THEN Append(kept, o) ELSE kept,
             <<>>, sources)

(* The old build reports no catalog, so nothing is left out for it. *)
CollectionForBuild(b, doc) ==
    IF EnforcesExclusions(b)
    THEN [doc EXCEPT !.sources = Collected(@)]
    ELSE Reduced(doc)

(* ParseServedDocument ignores what the build does not know. *)
ParseServed(b, doc) ==
    IF EnforcesExclusions(b) THEN doc
    ELSE [doc EXCEPT !.sources = [i \in DOMAIN @ |-> [@[i] EXCEPT !.add = {}]]]

(* ParseDocument refuses a user file with a key the build does not know. *)
Unparseable(b, u) ==
    ~EnforcesExclusions(b) /\ \E i \in DOMAIN u.sources : u.sources[i].add # {}

Validate(doc) == Resolve(CatalogOrder, user, ParseServed(build, doc), present)
LocalRejection(res) == res.blame # "none" /\ IsLocal(res.blame)
RemoteRejection(res) == res.blame # "none" /\ ~IsLocal(res.blame)

-----------------------------------------------------------------------------
(* The cache: a reduced copy for builds without a feature the document needs. *)

(* Mutant: only the full copy is written. *)
SaveCacheFullOnly(doc, org, oversize) == [config |-> NoDoc, full |-> doc, org |-> org]

(* A cache over the size an older reader accepts drops its full copy. *)
SaveCache(doc, org, oversize) ==
    IF Paused(doc.sources) = {} THEN [config |-> doc, full |-> NoDoc, org |-> org]
    ELSE [config |-> Reduced(doc), full |-> IF oversize THEN NoDoc ELSE doc, org |-> org]

CachedDocument(c) == IF c.full # NoDoc /\ EnforcesExclusions(build) THEN c.full ELSE c.config

Started(res, u, org, origin) == [state |-> "up", eff |-> res.eff, user |-> u, org |-> org, origin |-> origin]

LocalOutcome(res, u) ==
    IF res.blame = "none" THEN Started(res, u, NoDoc, "none") ELSE [Down EXCEPT !.state = "fatal"]
LocalOnly(u) == LocalOutcome(Resolve(CatalogOrder, u, NoDoc, present), u)

CachedOutcome(res) ==
    IF res.blame = "none" THEN Started(res, user, cache.org, "cached")
    ELSE IF LocalRejection(res) THEN [Down EXCEPT !.state = "fatal"] ELSE LocalOnly(user)

(* The reduced copy is tried when the full one is refused. *)
Retried(res) ==
    IF RemoteRejection(res) /\ CachedDocument(cache) # cache.config THEN Validate(cache.config) ELSE res

(* The fallback: the cached document, then its reduced copy, then no remote layer. *)
FromCache ==
    IF cache = NoCache THEN LocalOnly(user) ELSE CachedOutcome(Retried(Validate(CachedDocument(cache))))

-----------------------------------------------------------------------------
(* A process starts: app.resolve.  Each alternative is one way the fetch ends. *)

UserReadable == user # Unreadable
Readable == UserReadable /\ ~Unparseable(build, user)
(* The user's file cannot be read or parsed; nothing is resolved. *)
StartRefused ==
    /\ IF UserReadable THEN Unparseable(build, user) ELSE TRUE
    /\ proc' = [Down EXCEPT !.state = "fatal"]
    /\ UNCHANGED <<user, served, cache, build, present, since, edits, moves>>

Fetched == CollectionForBuild(build, served)

(* The served document resolves and is cached before it is used. *)
StartFetchedWith(res) ==
    /\ res.blame = "none"
    /\ \E oversize \in BOOLEAN :
         cache' = SaveCache(ParseServed(build, Fetched), served, oversize)
    /\ since' = TRUE
    /\ proc' = Started(res, user, served, "fetched")
    /\ UNCHANGED <<user, served, build, present, edits, moves>>

StartFetched == Readable /\ StartFetchedWith(Validate(Fetched))

(* The local layers are at fault: no fallback can repair them. *)
StartLocalRejected ==
    /\ Readable
    /\ LocalRejection(Validate(Fetched))
    /\ proc' = [Down EXCEPT !.state = "fatal"]
    /\ UNCHANGED <<user, served, cache, build, present, since, edits, moves>>

(* Mutant: a refused document is cached on its way to the fallback. *)
StartFallbackCaches ==
    /\ Readable
    /\ proc' = FromCache
    /\ cache' = IF RemoteRejection(Validate(Fetched))
                THEN SaveCache(ParseServed(build, Fetched), served, FALSE) ELSE cache
    /\ UNCHANGED <<user, served, build, present, since, edits, moves>>

(* Offline, unreachable, refused document or failed cache write: the last working one. *)
StartFallback ==
    /\ Readable
    /\ proc' = FromCache
    /\ UNCHANGED <<user, served, cache, build, present, since, edits, moves>>

(* A tick re-picks the roots that did not resolve. *)
Tick ==
    /\ proc.state = "up"
    /\ proc' = [proc EXCEPT !.eff = RefreshAbsentRoots(@, present)]
    /\ UNCHANGED <<user, served, cache, build, present, since, edits, moves>>

-----------------------------------------------------------------------------
(* The world around it. *)

Edited(doc, edit) ==
    [f \in DOMAIN doc |-> IF f = "sources" THEN doc.sources \o edit.sources
                          ELSE IF edit[f] # EmptyDoc[f] THEN edit[f] ELSE doc[f]]

EditUser ==
    /\ edits.user < MaxUserEdits /\ user # Unreadable
    /\ \/ \E e \in UserEdits : user' = Edited(user, e)
       \/ user' = Unreadable
    /\ edits' = [edits EXCEPT !.user = @ + 1] /\ since' = FALSE
    /\ UNCHANGED <<served, cache, build, present, proc, moves>>

RepairUser ==
    /\ user = Unreadable /\ user' = EmptyDoc /\ since' = FALSE
    /\ UNCHANGED <<served, cache, build, present, proc, edits, moves>>

EditServed ==
    /\ edits.served < MaxServedEdits
    /\ \E e \in RemoteEdits : served' = Edited(served, e)
    /\ edits' = [edits EXCEPT !.served = @ + 1]
    /\ UNCHANGED <<user, cache, build, present, proc, since, moves>>

(* An upgrade or a downgrade; the running process ends with its build. *)
ChangeBuild ==
    /\ moves < MaxMoves
    /\ build' = IF build = "new" THEN "old" ELSE "new"
    /\ proc' = Down /\ moves' = moves + 1 /\ since' = FALSE
    /\ UNCHANGED <<user, served, cache, present, edits>>

MoveRoot ==
    /\ moves < MaxMoves
    /\ \E r \in Places : present' = IF r \in present THEN present \ {r} ELSE present \cup {r}
    /\ moves' = moves + 1 /\ since' = FALSE
    /\ UNCHANGED <<user, served, cache, build, proc, edits>>

Start == StartRefused \/ StartFetched \/ StartLocalRejected \/ StartFallback
Next == Start \/ Tick \/ EditUser \/ RepairUser \/ EditServed \/ ChangeBuild \/ MoveRoot

Spec == Init /\ [][Next]_vars

(* Ticks recur as long as a process runs. *)
FairSpec == Spec /\ WF_vars(Tick)

-----------------------------------------------------------------------------
(* Properties. *)

Running == proc.state = "up"

(* The last of the user's entries that says so switches the source off. *)
UserDisabled(u, id) ==
    LET stated == {i \in DOMAIN u.sources : u.sources[i].id = id /\ u.sources[i].enabled # Unset}
    IN  stated # {} /\ u.sources[Max(stated)].enabled = "off"

(* Whatever the organization serves, directly or from the cache, the machine's owner keeps what
   the resolver reserves to local layers: a source switched off stays off, an enricher and
   self-update are not switched on, destinations and the state directory do not move, and the
   packs, readers and exclusions of the local layers all remain. *)
OwnerKeepsControl ==
    Running =>
      \E own \in {Merge(CatalogOrder, proc.user, NoDoc, {})} :
         /\ proc.eff.autoupdate = "on" => own.autoupdate = "on"
         /\ proc.eff.stateDir = own.stateDir /\ proc.eff.targets = own.targets
         /\ own.packs \subseteq proc.eff.packs /\ own.recipients \subseteq proc.eff.recipients
         /\ \A id \in DOMAIN proc.eff.sources :
              /\ UserDisabled(proc.user, id) => proc.eff.sources[id].enabled = "off"
              /\ own.sources[id].join = "off" => proc.eff.sources[id].join = "off"
              /\ FoldedSource(<<Layer("user", proc.user)>>, id).additions
                   \subseteq proc.eff.sources[id].exclude

(* Nothing a check refuses is ever in force, whichever layer, copy of the cache or later root
   refresh it came through: objects always have a reader, packs exist, no root is denied and no
   included glob of a layer reaches a denied file. *)
InForceIsSound ==
    Running =>
      /\ proc.eff.install = "on" \/ proc.eff.recipients # {}
      /\ BadRecipient \notin proc.eff.recipients
      /\ proc.eff.packs \subseteq KnownPacks
      /\ proc.eff.version = "accepted" /\ proc.eff.targets # "bad"
      /\ \A id \in DOMAIN proc.eff.sources :
           LET src == proc.eff.sources[id]
           IN  /\ src.root \notin Denied \cup Unexpandable
               /\ WideGlob \in src.include => src.root \notin SecretRoots

(* Paths the organization excluded are never collected while its document is in force, on a build
   that can enforce the exclusion or one that cannot, from the service, the cache or its reduced
   copy: the source is paused or the exclusion applies. *)
ExclusionsHold ==
    Running /\ proc.org # NoDoc =>
      \A i \in DOMAIN proc.org.sources :
        LET o == proc.org.sources[i]
        IN  o.id \in DOMAIN proc.eff.sources =>
              \/ proc.eff.sources[o.id].enabled = "off"
              \/ o.add \subseteq proc.eff.sources[o.id].exclude

(* What is in force is lawful (config/resolve.go, controlplane/cache.go): every check passed, the
   owner's reservations stand and the organization's exclusions hold. *)
InForceIsLawful == TypeOK /\ InForceIsSound /\ OwnerKeepsControl /\ ExclusionsHold

(* controlplane/cache.go:27: the reduced copy is "the safe fallback".  As long as the machine's own
   inputs are those of the last accepted fetch, a start that cannot use the service still has a
   remote layer. *)
CachedLayerKept ==
    since => \E start \in {FromCache} :
                start.state = "up" /\ start.origin = "cached" /\ start.org = cache.org

(* The full copy did not fit, and the reduced one switches off, entry by entry, a source that has an
   entry with an enricher the catalog does not attach: the user's own "off" no longer skips it. *)
ReducedIsStricter ==
    /\ EnforcesExclusions(build) /\ cache.full = NoDoc
    /\ \E i \in DOMAIN cache.org.sources :
         cache.org.sources[i].foreign /\ cache.org.sources[i].id \in Paused(cache.org.sources)

(* A document that worked keeps working: but for that case, a start that cannot use the service
   still has a remote layer, however bad the document served meanwhile. *)
WorkingLayerKept == since /\ ~ReducedIsStricter => CachedLayerKept

(* An agent installed after the daemon started is collected without a restart. *)
AbsentRootIsFound ==
    \A id \in Range(CatalogOrder) :
      LET waiting == /\ proc.state = "up"
                     /\ proc.eff.sources[id].enabled = "on"
                     /\ proc.eff.sources[id].root = "none"
                     /\ PickRoot(proc.eff.sources[id], present).root # "none"
      IN  waiting ~> ~waiting

(* internal/config/resolve.go: "A rejected config is never partially applied: collection continues
   under the last valid one."  When the local layers alone resolve, no start may end fatally. *)
RemoteNeverStops ==
    Readable /\ LocalOnly(user).state = "up" => ~LocalRejection(Validate(Fetched))
=============================================================================
