---------------------------- MODULE ConfigLayers ----------------------------
(***************************************************************************)
(* How a shipper merges its configuration layers: compiled defaults, the   *)
(* compiled catalog, the user's file and the organization's served         *)
(* document, in that order (internal/config/resolve.go).  A document keeps *)
(* one field for every rule of the merge; fields that follow the same rule *)
(* (rule packs, secret key names and exemptions are all unioned, schedule  *)
(* and file limits are all last-one-wins and never refused) are            *)
(* represented by one of them.  Values are abstracted to what the checks   *)
(* tell apart.                                                             *)
(***************************************************************************)
EXTENDS Naturals, Sequences, FiniteSets, SequencesExt

CONSTANTS CatalogOrder,     \* the compiled catalog's source ids, in order
          OffByDefault,     \* those the catalog leaves disabled
          KnownPacks,       \* the rule packs the build has
          CompiledPacks,    \* the packs the compiled defaults enable
          SecretRoots       \* roots that hold a file the deny list forbids; "none" is no root

ASSUME CatalogAssumption ==
    /\ OffByDefault \subseteq Range(CatalogOrder)
    /\ CompiledPacks \subseteq KnownPacks
    /\ CatalogOrder \in Seq(STRING)
    /\ "none" \notin SecretRoots

Unset == "unset"
Toggle == {Unset, "on", "off"}
NoDoc == [absent |-> TRUE]

(* One sources[] entry.  An entry's roots, include and exclude are unset when empty. *)
EmptyOverride(id) ==
    [id |-> id, enabled |-> Unset, roots |-> <<>>, include |-> {}, exclude |-> {},
     add |-> {}, join |-> Unset, foreign |-> FALSE]

(* A layer's document; envelope stands for issued_at and org. *)
EmptyDoc ==
    [envelope |-> FALSE, version |-> Unset, deadline |-> Unset, autoupdate |-> Unset,
     telemetry |-> Unset, stateDir |-> Unset, targets |-> Unset, packs |-> {},
     recipients |-> {}, install |-> Unset, sources |-> <<>>]

(* What parsing yields, and so what a file or a served document may say. *)
Optional == STRING \cup {Unset}
Override ==
    [id : STRING, enabled : Toggle, roots : Seq(STRING), include : SUBSET STRING,
     exclude : SUBSET STRING, add : SUBSET STRING, join : Toggle, foreign : BOOLEAN]
Document ==
    [envelope : BOOLEAN, version : {Unset, "accepted", "refused"}, deadline : Optional,
     autoupdate : Toggle, telemetry : Optional, stateDir : Optional, targets : Optional,
     packs : SUBSET STRING, recipients : SUBSET STRING, install : Toggle, sources : Seq(Override)]

Layer(name, doc) == [layer |-> name, doc |-> doc]
Layers(user, remote) ==
    <<Layer("user", user)>> \o IF remote = NoDoc THEN <<>> ELSE <<Layer("remote", remote)>>
IsLocal(layer) == layer # "remote"

-----------------------------------------------------------------------------
(* Merging the fields outside sources[]. *)

Setters(layers, Sets(_)) == {i \in DOMAIN layers : Sets(layers[i].doc)}

(* setOrigin: the last layer that set a field is blamed for it. *)
LayerOf(layers, setters) == IF setters = {} THEN "compiled" ELSE layers[Max(setters)].layer
Origin(layers, Sets(_)) == LayerOf(layers, Setters(layers, Sets))

LastOf(layers, setters, Value(_), default) ==
    IF setters = {} THEN default ELSE Value(layers[Max(setters)].doc)
LastSet(layers, Value(_), default) ==
    LastOf(layers, Setters(layers, LAMBDA d : Value(d) # Unset), Value, default)

UnionOf(layers, Value(_)) == UNION {Value(layers[i].doc) : i \in DOMAIN layers}

(* applyDocument and the envelope check refuse a document on their own account. *)
DocumentRefused(catalog, ld) ==
    LET d == ld.doc
        local == IsLocal(ld.layer)
    IN  \/ d.envelope /\ local
        \/ d.deadline = "bad"
        \/ d.autoupdate = "on" /\ ~local
        \/ d.telemetry # Unset /\ (local \/ d.telemetry = "url")
        \/ d.stateDir # Unset /\ ~local
        \/ d.targets # Unset /\ ~local
        \/ \E i \in DOMAIN d.sources : d.sources[i].id \notin Range(catalog)

-----------------------------------------------------------------------------
(* Folding one source's overrides in layer order. *)

BadGlob == "bad"     \* a pattern ValidateExcludeAdd refuses
CatalogGlob == "logs"
WideGlob == "wide"   \* an include that matches every file of a root

CatalogSource(id) ==
    [enabled |-> IF id \in OffByDefault THEN "off" ELSE "on", roots |-> <<"home">>,
     include |-> {CatalogGlob}, exclude |-> {}, join |-> "off", additions |-> {},
     locallyDisabled |-> FALSE, rootsBy |-> "catalog", includeBy |-> "catalog",
     blame |-> "none"]

Or(set, value, old) == IF set THEN value ELSE old

(* Mutant: a remote enable is applied like any other. *)
ApplyOverrideRemoteWins(acc, lo) ==
    LET o == lo.o
    IN  IF acc.blame # "none" \/ BadGlob \in o.add \/ o.foreign
        THEN [acc EXCEPT !.blame = IF @ = "none" THEN lo.layer ELSE @]
        ELSE [acc EXCEPT !.additions = @ \cup o.add,
                         !.enabled = Or(o.enabled # Unset, o.enabled, @),
                         !.roots = Or(o.roots # <<>>, o.roots, @),
                         !.include = Or(o.include # {}, o.include, @),
                         !.exclude = Or(o.exclude # {}, o.exclude, @)]

(* A remote "on" over a local "off" skips the rest of that entry; its exclusions were taken. *)
ApplyOverride(acc, lo) ==
    LET o == lo.o
        kept == [acc EXCEPT !.additions = @ \cup o.add]
        undoes == acc.locallyDisabled /\ ~IsLocal(lo.layer) /\ o.enabled = "on"
        widens == o.join = "on" /\ ~IsLocal(lo.layer)
    IN  IF acc.blame # "none" THEN acc
        ELSE IF BadGlob \in o.add THEN [acc EXCEPT !.blame = lo.layer]
        ELSE IF undoes THEN kept
        ELSE [kept EXCEPT
                !.enabled = Or(o.enabled # Unset, o.enabled, @),
                !.locallyDisabled = @ \/ (o.enabled = "off" /\ IsLocal(lo.layer)),
                !.roots = Or(o.roots # <<>>, o.roots, @),
                !.rootsBy = Or(o.roots # <<>>, lo.layer, @),
                !.include = Or(o.include # {}, o.include, @),
                !.includeBy = Or(o.include # {}, lo.layer, @),
                !.exclude = Or(o.exclude # {}, o.exclude, @),
                !.join = Or(o.join # Unset /\ ~widens, o.join, @),
                !.blame = Or(o.foreign, lo.layer, "none")]

(* The entries of one layer that name the source, in their order. *)
FoldLayer(acc, ld, id) ==
    FoldLeft(LAMBDA folded, o :
                IF o.id = id THEN ApplyOverride(folded, [layer |-> ld.layer, o |-> o]) ELSE folded,
             acc, ld.doc.sources)

(* The user's layer, then the remote one when there is one. *)
FoldedSource(layers, id) ==
    LET own == FoldLayer(CatalogSource(id), layers[1], id)
    IN  IF Len(layers) = 1 THEN own ELSE FoldLayer(own, layers[2], id)

-----------------------------------------------------------------------------
(* Picking a root; present is the set of roots that exist on the machine. *)

Denied == {"ssh"}                     \* CheckRoot refuses these, present or not
Unexpandable == {"broken"}            \* ExpandRoot fails other than by an unset variable

(* A candidate whose variable is unset, or which is missing or not a store, is passed over. *)
Decisive(present, root) == root \in Denied \cup Unexpandable \cup present

Candidates(src, present) == {i \in DOMAIN src.roots : Decisive(present, src.roots[i])}

Picked(src, root) ==
    IF root \in Denied \cup Unexpandable THEN [root |-> "none", blame |-> src.rootsBy]
    ELSE IF root \in SecretRoots /\ WideGlob \in src.include \ {CatalogGlob}
         THEN [root |-> "none", blame |-> src.includeBy]
    ELSE [root |-> root, blame |-> "none"]

FirstPicked(src, candidates) ==
    IF candidates = {} THEN [root |-> "none", blame |-> "none"]
    ELSE Picked(src, src.roots[Min(candidates)])
PickRoot(src, present) == FirstPicked(src, Candidates(src, present))

ResolvedSource(src, present) ==
    [enabled |-> src.enabled, join |-> src.join, include |-> src.include,
     exclude |-> src.exclude \cup src.additions, roots |-> src.roots,
     rootsBy |-> src.rootsBy, includeBy |-> src.includeBy,
     root |-> IF src.enabled = "on" THEN PickRoot(src, present).root ELSE "none"]

-----------------------------------------------------------------------------
(* The whole resolution: a merged configuration, and the layer of the first *)
(* refusal, in the order the code checks.                                   *)

MergeLayers(catalog, layers, present) ==
    [version |-> LastSet(layers, LAMBDA d : d.version, "accepted"),
     autoupdate |-> LastSet(layers, LAMBDA d : d.autoupdate, "on"),
     telemetry |-> LastSet(layers, LAMBDA d : d.telemetry, Unset),
     stateDir |-> LastSet(layers, LAMBDA d : d.stateDir, Unset),
     targets |-> LastSet(layers, LAMBDA d : d.targets, Unset),
     packs |-> CompiledPacks \cup UnionOf(layers, LAMBDA d : d.packs),
     recipients |-> UnionOf(layers, LAMBDA d : d.recipients),
     install |-> LastSet(layers, LAMBDA d : d.install, "on"),
     sources |-> [id \in Range(catalog) |-> ResolvedSource(FoldedSource(layers, id), present)]]

Merge(catalog, user, remote, present) == MergeLayers(catalog, Layers(user, remote), present)

BadRecipient == "notakey"

(* Mutant: recipients are parsed, an empty set of readers is not noticed. *)
CheckEncryptionKeysOnly(eff) == BadRecipient \notin eff.recipients

CheckEncryption(eff) == eff.install = "off" => eff.recipients # {}

Enforced(eff, layers) ==
    <<[bad |-> eff.version = "refused", layer |-> Origin(layers, LAMBDA d : d.version # Unset)],
      [bad |-> eff.targets = "bad", layer |-> Origin(layers, LAMBDA d : d.targets # Unset)],
      [bad |-> ~(eff.packs \subseteq KnownPacks),
       layer |-> Origin(layers, LAMBDA d : d.packs # {})],
      [bad |-> BadRecipient \in eff.recipients,
       layer |-> Origin(layers, LAMBDA d : d.recipients # {})],
      [bad |-> ~CheckEncryption(eff), layer |-> Origin(layers, LAMBDA d : d.install # Unset)]>>

(* What the resolution of one folded source refuses: an entry, or the root it picks. *)
FoldRefusal(src) == [bad |-> src.blame # "none", layer |-> src.blame]
RootRefusal(src, pick) == [bad |-> src.enabled = "on" /\ pick.blame # "none", layer |-> pick.blame]
PickRefusal(src, present) == RootRefusal(src, PickRoot(src, present))

Refused(refusals) == {i \in DOMAIN refusals : refusals[i].bad}
FirstOf(refusals, refused) == IF refused = {} THEN "none" ELSE refusals[Min(refused)].layer
FirstLayer(refusals) == FirstOf(refusals, Refused(refusals))

Blame(catalog, layers, eff, present) ==
    FirstLayer(
        [i \in DOMAIN layers |-> [bad |-> DocumentRefused(catalog, layers[i]), layer |-> layers[i].layer]]
          \o [i \in DOMAIN catalog |-> FoldRefusal(FoldedSource(layers, catalog[i]))]
          \o Enforced(eff, layers)
          \o [i \in DOMAIN catalog |-> PickRefusal(FoldedSource(layers, catalog[i]), present)])

(* Resolve: a refused configuration yields nothing but its blame. *)
Outcome(blame, eff) == [blame |-> blame, eff |-> IF blame = "none" THEN eff ELSE NoDoc]
ResolveMerged(catalog, layers, eff, present) == Outcome(Blame(catalog, layers, eff, present), eff)
ResolveLayers(catalog, layers, present) ==
    ResolveMerged(catalog, layers, MergeLayers(catalog, layers, present), present)
Resolve(catalog, user, remote, present) == ResolveLayers(catalog, Layers(user, remote), present)

(* Mutant: roots are chosen once per process. *)
RefreshNothing(eff, present) == eff

(* RefreshAbsentRoots: only enabled sources without a root are tried again. *)
RefreshAbsentRoots(eff, present) ==
    [eff EXCEPT !.sources = [id \in DOMAIN @ |->
        LET src == eff.sources[id]
        IN  IF src.enabled = "on" /\ src.root = "none"
            THEN [src EXCEPT !.root = PickRoot(src, present).root]
            ELSE src]]

-----------------------------------------------------------------------------
(* Clients that cannot enforce exclude_add get the sources it names paused. *)

Paused(sources) == {sources[i].id : i \in {k \in DOMAIN sources : sources[k].add # {}}}

(* Mutant: only the entry that carries the exclusions is paused. *)
ReduceEachAlone(sources) ==
    [i \in DOMAIN sources |-> [sources[i] EXCEPT
        !.enabled = IF sources[i].add # {} THEN "off" ELSE @, !.add = {}]]

ReduceSourceExclusions(sources) ==
    [i \in DOMAIN sources |-> [sources[i] EXCEPT
        !.enabled = IF sources[i].id \in Paused(sources) THEN "off" ELSE @, !.add = {}]]

Reduced(doc) == [doc EXCEPT !.sources = ReduceSourceExclusions(@)]
=============================================================================
