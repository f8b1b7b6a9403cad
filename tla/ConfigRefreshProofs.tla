------------------------ MODULE ConfigRefreshProofs ------------------------
(***************************************************************************)
(* What the configuration in force keeps for every document the machine's  *)
(* owner or the organization may write, every catalog and every order of   *)
(* starts, fetches, fallbacks, downgrades and root refreshes.              *)
(***************************************************************************)
EXTENDS ConfigRefresh, SequenceTheorems, WellFoundedInduction, TLAPS

-----------------------------------------------------------------------------
(* Least and greatest indices, and steps from one index to the next. *)

(* A set of indices has a first one. *)
LEMMA FirstIndex ==
    ASSUME NEW S, S \subseteq Nat, S # {}
    PROVE  Min(S) \in S /\ \A y \in S : Min(S) <= y
<1> DEFINE R == OpToRel(<, Nat)
<1>1. \A x, y \in Nat : x < y => <<x, y>> \in R
  BY DEF OpToRel
<1>2. IsWellFoundedOn(R, Nat)
  BY NatLessThanWellFounded
<1> HIDE DEF R
<1>3. PICK x \in S : \A y \in S : ~(<<y, x>> \in R)
  BY <1>2, WFMin
<1>4. \A y \in S : x <= y
  <2> SUFFICES ASSUME NEW y \in S PROVE x <= y
    OBVIOUS
  <2>1. x \in Nat /\ y \in Nat /\ ~(y < x)
    BY <1>1, <1>3
  <2> QED
    BY <2>1
<1> QED
  BY <1>4 DEF Min

(* A bounded one has a last one. *)
LEMMA LastIndex ==
    ASSUME NEW n \in Nat, NEW S, S \subseteq 0..n, S # {}
    PROVE  Max(S) \in S /\ \A y \in S : Max(S) >= y
<1> DEFINE T == {n - x : x \in S}
<1>1. \A x \in S : x \in 0..n /\ n - x \in Nat
  OBVIOUS
<1>2. T \subseteq Nat /\ T # {}
  BY <1>1
<1>3. PICK t \in T : \A u \in T : t <= u
  BY <1>2, FirstIndex
<1>4. PICK x \in S : t = n - x
  OBVIOUS
<1>5. \A y \in S : n - x <= n - y
  BY <1>3, <1>4
<1>6. \A y \in S : x >= y
  BY <1>1, <1>5
<1> QED
  BY <1>6 DEF Max

(* What holds at the start, and at an index when it held at the one before, holds throughout. *)
LEMMA StepByStep ==
    ASSUME NEW n \in Nat, NEW S, 0 \in S, \A i \in 1..n : i - 1 \in S => i \in S
    PROVE  0..n \subseteq S
<1> DEFINE T == (0..n) \ S
<1> SUFFICES ASSUME T # {} PROVE FALSE
  OBVIOUS
<1>0. T \subseteq Nat
  OBVIOUS
<1>1. PICK m \in T : \A y \in T : m <= y
  <2> HIDE DEF T
  <2> QED
    BY <1>0, FirstIndex
<1>2. m \in 1..n
  OBVIOUS
<1>3. m - 1 \in 0..n /\ ~(m <= m - 1)
  BY <1>2
<1>4. m - 1 \in S
  BY <1>1, <1>3
<1> QED
  BY <1>2, <1>4

-----------------------------------------------------------------------------
(* Folds, as the values they pass through. *)

(* One entry of a layer. *)
Step(ld, id, folded, o) ==
    IF o.id = id THEN ApplyOverride(folded, [layer |-> ld.layer, o |-> o]) ELSE folded

(* FoldLayer applies the entries one after the other. *)
LEMMA FoldLayerSteps ==
    ASSUME NEW acc, NEW ld, NEW id, NEW s \in Seq(Override), s = ld.doc.sources
    PROVE  \E f : /\ f[0] = acc
                  /\ \A i \in 1..Len(s) : f[i] = Step(ld, id, f[i - 1], s[i])
                  /\ FoldLayer(acc, ld, id) = f[Len(s)]
<1> DEFINE n == Len(s)
           Body(it, t) == IF t = {} THEN acc ELSE Step(ld, id, it[t \ {Max(t)}], s[Max(t)])
           Fix(it, m) == it = [t \in SUBSET (1..m) |-> Body(it, t)]
           M == {m \in 0..n : \E it : Fix(it, m)}
<1>0. n \in Nat /\ DOMAIN s = 1..n
  OBVIOUS
<1>1. FoldLayer(acc, ld, id) = (CHOOSE it : Fix(it, n))[1..n]
  BY <1>0 DEF FoldLayer, FoldLeft, MapThenFoldSet, Step
<1>2. \E it : Fix(it, 0)
  <2> DEFINE it == [t \in SUBSET (1..0) |-> acc]
  <2>1. \A t \in SUBSET (1..0) : Body(it, t) = acc
    OBVIOUS
  <2> HIDE DEF Body
  <2>2. Fix(it, 0)
    BY <2>1
  <2> QED
    BY <2>2
<1>3. ASSUME NEW m \in 1..n, NEW it, Fix(it, m - 1) PROVE \E up : Fix(up, m)
  <2> DEFINE up == [t \in SUBSET (1..m) |-> Body(it, t)]
  <2>2. ASSUME NEW t \in SUBSET (1..m), t # {} PROVE t \ {Max(t)} \in SUBSET (1..(m - 1))
    <3>0. t \subseteq 0..n
      BY <1>0
    <3>1. Max(t) \in t /\ \A y \in t : Max(t) >= y
      BY <1>0, <2>2, <3>0, LastIndex
    <3>2. ASSUME NEW y \in t \ {Max(t)} PROVE y \in 1..(m - 1)
      <4>1. y \in 1..m /\ Max(t) \in 1..m /\ Max(t) >= y /\ y # Max(t)
        BY <3>1
      <4> HIDE DEF M, Fix
      <4> QED
        BY <1>0, <4>1
    <3> QED
      BY <3>2
  <2>3. ASSUME NEW t \in SUBSET (1..(m - 1)) PROVE up[t] = it[t]
    <3>1. t \in SUBSET (1..m)
      BY <1>0
    <3> HIDE DEF Body
    <3> QED
      BY <1>3, <3>1
  <2>4. ASSUME NEW t \in SUBSET (1..m) PROVE Body(it, t) = Body(up, t)
    <3> HIDE DEF up
    <3> QED
      BY <2>2, <2>3
  <2> HIDE DEF Body
  <2>5. Fix(up, m)
    BY <2>4
  <2> QED
    BY <2>5
<1>4. \E it : Fix(it, n)
  <2> HIDE DEF Fix
  <2>1. 0 \in M
    BY <1>0, <1>2
  <2>2. \A i \in 1..n : i - 1 \in M => i \in M
    BY <1>0, <1>3
  <2> HIDE DEF M
  <2>3. 0..n \subseteq M
    BY <1>0, <2>1, <2>2, StepByStep
  <2>4. n \in M
    BY <1>0, <2>3
  <2> QED
    BY <2>4 DEF M
<1> DEFINE it == CHOOSE it : Fix(it, n)
           f == [i \in 0..n |-> it[1..i]]
<1>5. Fix(it, n)
  <2> HIDE DEF Fix
  <2> QED
    BY <1>4
<1> HIDE DEF it
<1>6. f[0] = acc
  BY <1>0, <1>5
<1>7. ASSUME NEW i \in 1..n PROVE f[i] = Step(ld, id, f[i - 1], s[i])
  <2>0. i \in Nat /\ 1 <= i /\ i <= n
    BY <1>0
  <2>1. 1..i \in SUBSET (1..n) /\ 1..i # {} /\ i \in 1..i
    <3> HIDE DEF n, M
    <3>1. i \in 1..i
      BY <2>0
    <3>2. \A k \in 1..i : k \in 1..n
      BY <1>0, <2>0
    <3> QED
      BY <3>1, <3>2
  <2>2. Max(1..i) = i
    <3>1. 1..i \subseteq 0..n
      BY <1>0
    <3>2. Max(1..i) \in 1..i /\ Max(1..i) >= i
      BY <1>0, <2>1, <3>1, LastIndex
    <3> QED
      BY <3>2
  <2>3. (1..i) \ {i} = 1..(i - 1)
    BY <1>0
  <2>4. it[1..i] = Body(it, 1..i)
    <3> HIDE DEF Body
    <3> QED
      BY <1>5, <2>1
  <2>5. it[1..i] = Step(ld, id, it[1..(i - 1)], s[i])
    BY <2>1, <2>2, <2>3, <2>4
  <2>6. i \in 0..n /\ i - 1 \in 0..n
    BY <1>0
  <2> QED
    BY <2>5, <2>6
<1>8. f[n] = FoldLayer(acc, ld, id)
  BY <1>0, <1>1 DEF it
<1> HIDE DEF f
<1> QED
  BY <1>6, <1>7, <1>8

-----------------------------------------------------------------------------
(* One source, folded. *)

LayerNames == {"catalog", "user", "remote"}
Text == STRING \cup {"home", CatalogGlob}
Folded ==
    [enabled : {"on", "off"}, roots : Seq(Text), include : SUBSET Text,
     exclude : SUBSET Text, join : {"on", "off"}, additions : SUBSET Text,
     locallyDisabled : BOOLEAN, rootsBy : LayerNames, includeBy : LayerNames,
     blame : LayerNames \cup {"none"}]

LEMMA CatalogSourceFolded == ASSUME NEW id PROVE CatalogSource(id) \in Folded
<1>1. <<"home">> \in Seq(Text)
  BY DEF Text
<1> QED
  BY <1>1 DEF CatalogSource, Folded, LayerNames, Text

LEMMA ApplyFolded ==
    ASSUME NEW acc \in Folded, NEW o \in Override, NEW layer \in {"user", "remote"}
    PROVE  ApplyOverride(acc, [layer |-> layer, o |-> o]) \in Folded
<1> DEFINE lo == [layer |-> layer, o |-> o]
           kept == [acc EXCEPT !.additions = @ \cup o.add]
<1> USE DEF LayerNames
<1>0. STRING \subseteq Text /\ Seq(STRING) \subseteq Seq(Text)
  BY SeqMonotonic DEF Text
<1>1. kept \in Folded
  BY <1>0 DEF Folded, Override
<1>2. [acc EXCEPT !.blame = layer] \in Folded
  BY DEF Folded
<1> DEFINE enabled == Or(o.enabled # Unset, o.enabled, kept.enabled)
           disabled == kept.locallyDisabled \/ (o.enabled = "off" /\ IsLocal(layer))
           roots == Or(o.roots # <<>>, o.roots, kept.roots)
           rootsBy == Or(o.roots # <<>>, layer, kept.rootsBy)
           include == Or(o.include # {}, o.include, kept.include)
           includeBy == Or(o.include # {}, layer, kept.includeBy)
           exclude == Or(o.exclude # {}, o.exclude, kept.exclude)
           join == Or(o.join # Unset /\ ~(o.join = "on" /\ ~IsLocal(layer)), o.join, kept.join)
           blame == Or(o.foreign, layer, "none")
           all == [kept EXCEPT !.enabled = enabled, !.locallyDisabled = disabled, !.roots = roots,
                               !.rootsBy = rootsBy, !.include = include, !.includeBy = includeBy,
                               !.exclude = exclude, !.join = join, !.blame = blame]
<1>4. /\ enabled \in {"on", "off"} /\ disabled \in BOOLEAN /\ roots \in Seq(Text)
      /\ rootsBy \in LayerNames /\ include \in SUBSET Text /\ includeBy \in LayerNames
      /\ exclude \in SUBSET Text /\ join \in {"on", "off"} /\ blame \in LayerNames \cup {"none"}
  <2> HIDE DEF kept
  <2> QED
    BY <1>0, <1>1 DEF Folded, Override, Toggle, Unset, Or
<1>5. all \in Folded
  <2> HIDE DEF LayerNames, kept, enabled, disabled, roots, rootsBy, include, includeBy, exclude, join, blame
  <2> DEFINE half == [kept EXCEPT !.enabled = enabled, !.locallyDisabled = disabled,
                                  !.roots = roots, !.rootsBy = rootsBy]
  <2>1. half \in Folded
    BY <1>1, <1>4 DEF Folded
  <2>2. all = [half EXCEPT !.include = include, !.includeBy = includeBy, !.exclude = exclude,
                           !.join = join, !.blame = blame]
    OBVIOUS
  <2> HIDE DEF half
  <2> DEFINE most == [half EXCEPT !.include = include, !.includeBy = includeBy]
  <2>3. most \in Folded
    BY <1>4, <2>1 DEF Folded
  <2>4. [half EXCEPT !.include = include, !.includeBy = includeBy, !.exclude = exclude,
                     !.join = join, !.blame = blame]
          = [most EXCEPT !.exclude = exclude, !.join = join, !.blame = blame]
    OBVIOUS
  <2> HIDE DEF most
  <2>5. [most EXCEPT !.exclude = exclude, !.join = join, !.blame = blame] \in Folded
    BY <1>4, <2>3 DEF Folded
  <2> QED
    BY <2>2, <2>4, <2>5
<1>6. lo.o = o /\ lo.layer = layer
  OBVIOUS
<1> HIDE DEF lo
<1>7. CASE acc.blame # "none"
  BY <1>7 DEF ApplyOverride
<1>8. CASE acc.blame = "none" /\ BadGlob \in o.add
  BY <1>2, <1>6, <1>8 DEF ApplyOverride
<1>9. CASE acc.blame = "none" /\ BadGlob \notin o.add
  BY <1>1, <1>5, <1>6, <1>9 DEF ApplyOverride
<1> QED
  BY <1>7, <1>8, <1>9 DEF lo

(* A layer that a resolution reads. *)
Read(ld) == ld.layer \in {"user", "remote"} /\ ld.doc \in Document

LEMMA StepFolded ==
    ASSUME NEW acc \in Folded, NEW o \in Override, NEW ld, Read(ld), NEW id
    PROVE  Step(ld, id, acc, o) \in Folded
BY ApplyFolded DEF Step, Read

(* What an entry does to a source that is not blamed after it. *)
LEMMA StepApplies ==
    ASSUME NEW acc \in Folded, NEW o \in Override, NEW ld, Read(ld), NEW id,
           Step(ld, id, acc, o).blame = "none"
    PROVE  LET t == Step(ld, id, acc, o)
           IN  /\ acc.blame = "none"
               /\ acc.additions \subseteq t.additions
               /\ o.id = id => o.add \subseteq t.additions
               /\ acc.locallyDisabled => t.locallyDisabled
               /\ ld.layer = "remote" => t.locallyDisabled = acc.locallyDisabled
               /\ ld.layer = "remote" /\ acc.join = "off" => t.join = "off"
               /\ o.id = id /\ o.enabled = "off" => t.enabled = "off"
               /\ o.id = id /\ o.enabled = "off" /\ ld.layer = "user" => t.locallyDisabled
               /\ ~(o.id = id /\ o.enabled # Unset) => t.enabled = acc.enabled
               /\ ld.layer = "remote" /\ acc.locallyDisabled /\ acc.enabled = "off" => t.enabled = "off"
<1> USE DEF Step, Read, IsLocal
<1> DEFINE t == Step(ld, id, acc, o)
           undoes == acc.locallyDisabled /\ ~IsLocal(ld.layer) /\ o.enabled = "on"
<1>1. CASE o.id # id
  BY <1>1
<1>2. CASE o.id = id /\ (acc.blame # "none" \/ BadGlob \in o.add)
  BY <1>2 DEF ApplyOverride, Folded, LayerNames
<1>3. CASE o.id = id /\ acc.blame = "none" /\ BadGlob \notin o.add /\ undoes
  BY <1>3 DEF ApplyOverride, Folded, Unset
<1>4. CASE o.id = id /\ acc.blame = "none" /\ BadGlob \notin o.add /\ ~undoes
  <2>1. /\ t.additions = acc.additions \cup o.add
        /\ t.enabled = Or(o.enabled # Unset, o.enabled, acc.enabled)
        /\ t.locallyDisabled = (acc.locallyDisabled \/ (o.enabled = "off" /\ IsLocal(ld.layer)))
        /\ t.join = Or(o.join # Unset /\ ~(o.join = "on" /\ ~IsLocal(ld.layer)), o.join, acc.join)
    BY <1>4 DEF ApplyOverride, Folded
  <2>2. acc.locallyDisabled \in BOOLEAN /\ acc.join \in {"on", "off"} /\ o.join \in Toggle /\ o.enabled \in Toggle
    BY DEF Folded, Override
  <2> HIDE DEF Step
  <2> QED
    BY <1>4, <2>1, <2>2 DEF Or, Toggle, Unset
<1> QED
  BY <1>1, <1>2, <1>3, <1>4

(* Of the first i entries, k is the last that says whether the source is on, and says no. *)
LastOff(s, id, i, k) ==
    /\ s[k].id = id /\ s[k].enabled = "off"
    /\ \A j \in (k + 1)..i : s[j].id = id => s[j].enabled = Unset

(* What the first i entries of a layer made of acc: t. *)
Carried(acc, ld, id, s, i, t) ==
    /\ acc.blame = "none" /\ acc.additions \subseteq t.additions
    /\ \A k \in 1..i : s[k].id = id => s[k].add \subseteq t.additions
    /\ acc.locallyDisabled => t.locallyDisabled
    /\ ld.layer = "remote" => t.locallyDisabled = acc.locallyDisabled
    /\ ld.layer = "remote" /\ acc.join = "off" => t.join = "off"
    /\ ld.layer = "remote" /\ acc.locallyDisabled /\ acc.enabled = "off" => t.enabled = "off"
    /\ \A k \in 1..i : LastOff(s, id, i, k) =>
          t.enabled = "off" /\ (ld.layer = "user" => t.locallyDisabled)

LEMMA CarriedOn ==
    ASSUME NEW acc \in Folded, NEW ld, Read(ld), NEW id, NEW s \in Seq(Override),
           NEW i \in 1..Len(s), NEW t \in Folded, Carried(acc, ld, id, s, i - 1, t),
           Step(ld, id, t, s[i]).blame = "none"
    PROVE  Carried(acc, ld, id, s, i, Step(ld, id, t, s[i]))
<1> DEFINE u == Step(ld, id, t, s[i])
<1>1. s[i] \in Override /\ i - 1 \in Nat /\ i \in Nat
  OBVIOUS
<1>2. /\ t.blame = "none"
      /\ t.additions \subseteq u.additions
      /\ s[i].id = id => s[i].add \subseteq u.additions
      /\ t.locallyDisabled => u.locallyDisabled
      /\ ld.layer = "remote" => u.locallyDisabled = t.locallyDisabled
      /\ ld.layer = "remote" /\ t.join = "off" => u.join = "off"
      /\ s[i].id = id /\ s[i].enabled = "off" => u.enabled = "off"
      /\ s[i].id = id /\ s[i].enabled = "off" /\ ld.layer = "user" => u.locallyDisabled
      /\ ~(s[i].id = id /\ s[i].enabled # Unset) => u.enabled = t.enabled
      /\ ld.layer = "remote" /\ t.locallyDisabled /\ t.enabled = "off" => u.enabled = "off"
  <2> HIDE DEF u
  <2> QED
    BY <1>1, StepApplies DEF u
<1> HIDE DEF u
<1>3. \A k \in 1..i : k = i \/ k \in 1..(i - 1)
  BY <1>1
<1>4. \A k \in 1..i : s[k].id = id => s[k].add \subseteq u.additions
  BY <1>2, <1>3 DEF Carried
<1>5. ASSUME NEW k \in 1..i, LastOff(s, id, i, k)
      PROVE  u.enabled = "off" /\ (ld.layer = "user" => u.locallyDisabled)
  <2>1. CASE k = i
    BY <1>2, <1>5, <2>1 DEF LastOff
  <2>2. CASE k \in 1..(i - 1)
    <3>1. i \in (k + 1)..i /\ \A j \in (k + 1)..(i - 1) : j \in (k + 1)..i
      BY <1>1, <2>2
    <3>2. LastOff(s, id, i - 1, k) /\ ~(s[i].id = id /\ s[i].enabled # Unset)
      BY <1>5, <3>1 DEF LastOff
    <3> QED
      BY <1>2, <2>2, <3>2 DEF Carried
  <2> QED
    BY <1>3, <2>1, <2>2
<1>6. Carried(acc, ld, id, s, i, u)
  BY <1>2, <1>4, <1>5 DEF Carried
<1> QED
  BY <1>6 DEF u

(* A whole layer. *)
LEMMA FoldLayerCarries ==
    ASSUME NEW acc \in Folded, NEW ld, Read(ld), NEW id
    PROVE  /\ FoldLayer(acc, ld, id) \in Folded
           /\ FoldLayer(acc, ld, id).blame = "none" =>
                 Carried(acc, ld, id, ld.doc.sources, Len(ld.doc.sources), FoldLayer(acc, ld, id))
<1> DEFINE s == ld.doc.sources
           n == Len(s)
<1>1. s \in Seq(Override) /\ n \in Nat
  BY DEF Read, Document
<1>2. PICK f : /\ f[0] = acc
               /\ \A i \in 1..n : f[i] = Step(ld, id, f[i - 1], s[i])
               /\ FoldLayer(acc, ld, id) = f[n]
  <2> HIDE DEF s
  <2> QED
    BY <1>1, FoldLayerSteps, SMTT(30) DEF s
<1> DEFINE P(i) == f[i] \in Folded /\ (f[i].blame = "none" => Carried(acc, ld, id, s, i, f[i]))
           M == {i \in 0..n : P(i)}
<1> HIDE DEF s, n
<1>3. P(0)
  <2>1. \A k \in 1..0 : FALSE
    OBVIOUS
  <2> QED
    BY <1>2, <2>1 DEF Carried
<1>4. ASSUME NEW i \in 1..n, P(i - 1) PROVE P(i)
  <2>1. s[i] \in Override /\ i \in 1..Len(s)
    BY <1>1 DEF n
  <2>2. f[i] \in Folded
    BY <1>2, <1>4, <2>1, StepFolded
  <2>3. ASSUME f[i].blame = "none" PROVE Carried(acc, ld, id, s, i, f[i])
    <3>1. Step(ld, id, f[i - 1], s[i]).blame = "none" /\ f[i - 1] \in Folded
      BY <1>2, <1>4, <2>3
    <3>2. f[i - 1].blame = "none"
      BY <2>1, <3>1, StepApplies
    <3> QED
      BY <1>1, <1>2, <1>4, <2>1, <3>1, <3>2, CarriedOn
  <2> QED
    BY <2>2, <2>3
<1>5. P(n)
  <2> HIDE DEF P
  <2>1. 0 \in M /\ \A i \in 1..n : i - 1 \in M => i \in M
    BY <1>1, <1>3, <1>4
  <2> HIDE DEF M
  <2>2. 0..n \subseteq M
    BY <1>1, <2>1, StepByStep
  <2> QED
    BY <1>1, <2>2 DEF M
<1> QED
  BY <1>2, <1>5 DEF s, n

-----------------------------------------------------------------------------
(* The layers of a resolution. *)

LEMMA NoDocIsNone == NoDoc \notin Document /\ \A d \in Document : d # NoDoc
<1>1. DOMAIN NoDoc = {"absent"} /\ "absent" # "envelope"
  BY DEF NoDoc
<1>2. \A d \in Document : "envelope" \in DOMAIN d
  BY DEF Document
<1> QED
  BY <1>1, <1>2

LEMMA OneLayer ==
    ASSUME NEW u \in Document
    PROVE  /\ Layers(u, NoDoc) = <<Layer("user", u)>>
           /\ Len(Layers(u, NoDoc)) = 1 /\ DOMAIN Layers(u, NoDoc) = {1}
           /\ Layers(u, NoDoc)[1] = Layer("user", u)
BY DEF Layers

LEMMA TwoLayers ==
    ASSUME NEW u \in Document, NEW r \in Document
    PROVE  /\ Len(Layers(u, r)) = 2 /\ DOMAIN Layers(u, r) = {1, 2}
           /\ Layers(u, r)[1] = Layer("user", u) /\ Layers(u, r)[2] = Layer("remote", r)
<1>1. r # NoDoc
  BY NoDocIsNone
<1>2. Layers(u, r) = <<Layer("user", u), Layer("remote", r)>>
  <2>1. ASSUME NEW a, NEW b PROVE <<a>> \o <<b>> = <<a, b>>
    <3> DEFINE c == <<a>> \o <<b>>
    <3>1. <<a>> \in Seq({a, b}) /\ <<b>> \in Seq({a, b}) /\ Len(<<a>>) = 1 /\ Len(<<b>>) = 1
      OBVIOUS
    <3>2. c \in Seq({a, b}) /\ Len(c) = 2 /\ c[1] = a /\ c[2] = b
      BY <3>1
    <3>3. <<a, b>> \in Seq({a, b}) /\ Len(<<a, b>>) = 2
      OBVIOUS
    <3> HIDE DEF c
    <3>4. \A i \in 1..2 : c[i] = <<a, b>>[i]
      BY <3>2
    <3> QED
      BY <3>2, <3>3, <3>4, SeqEqual DEF c
  <2>2. Layers(u, r) = <<Layer("user", u)>> \o <<Layer("remote", r)>>
    BY <1>1 DEF Layers
  <2> QED
    BY <2>1, <2>2
<1> QED
  BY <1>2

LEMMA LayersRead ==
    ASSUME NEW u \in Document, NEW r \in Document \cup {NoDoc}
    PROVE  /\ Read(Layer("user", u)) /\ (r # NoDoc => Read(Layer("remote", r)))
           /\ \A i \in DOMAIN Layers(u, r) : Read(Layers(u, r)[i])
<1>1. Read(Layer("user", u)) /\ (r # NoDoc => Read(Layer("remote", r)))
  BY DEF Layer, Read
<1>2. CASE r = NoDoc
  BY <1>1, <1>2, OneLayer
<1>3. CASE r \in Document
  BY <1>1, <1>3, TwoLayers, NoDocIsNone
<1> QED
  BY <1>1, <1>2, <1>3

Own(u, id) == FoldedSource(<<Layer("user", u)>>, id)

LEMMA OwnSource ==
    ASSUME NEW u \in Document, NEW id
    PROVE  /\ Own(u, id) = FoldedSource(Layers(u, NoDoc), id)
           /\ Own(u, id) = FoldLayer(CatalogSource(id), Layer("user", u), id)
           /\ Own(u, id) \in Folded
<1>1. Own(u, id) = FoldedSource(Layers(u, NoDoc), id)
  BY OneLayer DEF Own
<1>2. Own(u, id) = FoldLayer(CatalogSource(id), Layer("user", u), id)
  BY OneLayer DEF Own, FoldedSource
<1>3. Read(Layer("user", u))
  BY DEF Read, Layer
<1> QED
  BY <1>1, <1>2, <1>3, CatalogSourceFolded, FoldLayerCarries

LEMMA BothSource ==
    ASSUME NEW u \in Document, NEW r \in Document, NEW id
    PROVE  /\ FoldedSource(Layers(u, r), id) = FoldLayer(Own(u, id), Layer("remote", r), id)
           /\ FoldedSource(Layers(u, r), id) \in Folded
<1>1. FoldedSource(Layers(u, r), id) = FoldLayer(Own(u, id), Layer("remote", r), id)
  BY TwoLayers, OwnSource DEF FoldedSource
<1>2. Read(Layer("remote", r))
  BY DEF Read, Layer
<1> QED
  BY <1>1, <1>2, OwnSource, FoldLayerCarries

LEMMA SourceFolded ==
    ASSUME NEW u \in Document, NEW r \in Document \cup {NoDoc}, NEW id
    PROVE  FoldedSource(Layers(u, r), id) \in Folded
BY OwnSource, BothSource

(* A source switched off by its owner is off in the owner's own configuration. *)
LEMMA OwnIsOff ==
    ASSUME NEW u \in Document, NEW id, Own(u, id).blame = "none", UserDisabled(u, id)
    PROVE  Own(u, id).enabled = "off" /\ Own(u, id).locallyDisabled
<1> DEFINE s == u.sources
           stated == {i \in DOMAIN s : s[i].id = id /\ s[i].enabled # Unset}
           k == Max(stated)
<1>1. s \in Seq(Override) /\ DOMAIN s = 1..Len(s) /\ Len(s) \in Nat
  BY DEF Document
<1>2. stated # {} /\ s[k].enabled = "off"
  BY DEF UserDisabled
<1>3. k \in stated /\ \A j \in stated : k >= j
  <2>1. stated \subseteq 0..Len(s)
    BY <1>1
  <2> HIDE DEF stated
  <2> QED
    BY <1>1, <1>2, <2>1, LastIndex
<1> HIDE DEF k
<1>4. k \in 1..Len(s) /\ LastOff(s, id, Len(s), k)
  <2>1. ASSUME NEW j \in (k + 1)..Len(s), s[j].id = id PROVE s[j].enabled = Unset
    BY <1>1, <1>3, <2>1
  <2> QED
    BY <1>1, <1>2, <1>3, <2>1 DEF LastOff
<1>5. Read(Layer("user", u)) /\ Layer("user", u).doc = u /\ Layer("user", u).layer = "user"
  BY DEF Read, Layer
<1>6. Carried(CatalogSource(id), Layer("user", u), id, s, Len(s), Own(u, id))
  BY <1>5, OwnSource, CatalogSourceFolded, FoldLayerCarries
<1> QED
  BY <1>4, <1>5, <1>6 DEF Carried

(* What the owner's layer keeps under any remote one that is not refused. *)
LEMMA OwnerKeepsSource ==
    ASSUME NEW u \in Document, NEW r \in Document \cup {NoDoc}, NEW id,
           FoldedSource(Layers(u, r), id).blame = "none"
    PROVE  LET t == FoldedSource(Layers(u, r), id)
           IN  /\ Own(u, id).blame = "none"
               /\ UserDisabled(u, id) => t.enabled = "off"
               /\ Own(u, id).join = "off" => t.join = "off"
               /\ Own(u, id).additions \subseteq t.additions
<1>1. CASE r = NoDoc
  BY <1>1, OwnSource, OwnIsOff
<1>2. CASE r \in Document
  <2>1. Read(Layer("remote", r)) /\ Layer("remote", r).doc = r /\ Layer("remote", r).layer = "remote"
    BY <1>2 DEF Read, Layer
  <2>2. Carried(Own(u, id), Layer("remote", r), id, r.sources, Len(r.sources),
                FoldedSource(Layers(u, r), id))
    BY <1>2, <2>1, OwnSource, BothSource, FoldLayerCarries
  <2> QED
    BY <2>1, <2>2, OwnIsOff DEF Carried
<1> QED
  BY <1>1, <1>2

(* What a remote layer that is not refused adds. *)
LEMMA RemoteApplies ==
    ASSUME NEW u \in Document, NEW r \in Document, NEW id,
           FoldedSource(Layers(u, r), id).blame = "none"
    PROVE  LET t == FoldedSource(Layers(u, r), id)
           IN  \A k \in 1..Len(r.sources) :
                 /\ r.sources[k].id = id => r.sources[k].add \subseteq t.additions
                 /\ LastOff(r.sources, id, Len(r.sources), k) => t.enabled = "off"
<1>1. Read(Layer("remote", r)) /\ Layer("remote", r).doc = r
  BY DEF Read, Layer
<1>2. Carried(Own(u, id), Layer("remote", r), id, r.sources, Len(r.sources),
              FoldedSource(Layers(u, r), id))
  BY <1>1, OwnSource, BothSource, FoldLayerCarries
<1> QED
  BY <1>2 DEF Carried

-----------------------------------------------------------------------------
(* A resolution is refused exactly when one of its checks refuses something. *)

Enforceable(eff) ==
    /\ eff.version # "refused" /\ eff.targets # "bad" /\ eff.packs \subseteq KnownPacks
    /\ BadRecipient \notin eff.recipients /\ CheckEncryption(eff)

Clean(u, r, p) ==
    /\ \A i \in DOMAIN Layers(u, r) : ~DocumentRefused(CatalogOrder, Layers(u, r)[i])
    /\ \A id \in Range(CatalogOrder) : FoldedSource(Layers(u, r), id).blame = "none"
    /\ Enforceable(Merge(CatalogOrder, u, r, p))
    /\ \A id \in Range(CatalogOrder) : ~PickRefusal(FoldedSource(Layers(u, r), id), p).bad

(* Every refusal names a layer. *)
Refusals == [bad : BOOLEAN, layer : LayerNames \cup {"none", "compiled"}]
Named == {e \in Refusals : e.bad => e.layer # "none"}
NoneBad(s) == \A i \in DOMAIN s : ~s[i].bad

LEMMA FirstIsNone ==
    ASSUME NEW s \in Seq(Named)
    PROVE  FirstLayer(s) = "none" <=> NoneBad(s)
<1> DEFINE bad == Refused(s)
<1>1. bad \subseteq Nat
  BY DEF Refused
<1>2. CASE bad = {}
  BY <1>2 DEF Refused, FirstLayer, FirstOf, NoneBad
<1>3. CASE bad # {}
  <2>1. Min(bad) \in bad
    <3> HIDE DEF bad
    <3> QED
      BY <1>1, <1>3, FirstIndex
  <2>2. Min(bad) \in DOMAIN s /\ s[Min(bad)].bad
    BY <2>1 DEF Refused
  <2>3. s[Min(bad)] \in Named
    BY <2>2
  <2> QED
    BY <1>3, <2>2, <2>3 DEF FirstLayer, FirstOf, NoneBad, Named
<1> QED
  BY <1>2, <1>3

LEMMA NoneBadConcat ==
    ASSUME NEW s \in Seq(Named), NEW t \in Seq(Named)
    PROVE  s \o t \in Seq(Named) /\ (NoneBad(s \o t) <=> NoneBad(s) /\ NoneBad(t))
<1>1. /\ s \o t \in Seq(Named) /\ Len(s \o t) = Len(s) + Len(t)
      /\ Len(s) \in Nat /\ Len(t) \in Nat
      /\ DOMAIN s = 1..Len(s) /\ DOMAIN t = 1..Len(t) /\ DOMAIN (s \o t) = 1..(Len(s) + Len(t))
      /\ \A i \in 1..(Len(s) + Len(t)) : (s \o t)[i] = IF i <= Len(s) THEN s[i] ELSE t[i - Len(s)]
  BY ConcatProperties
<1>2. ASSUME NoneBad(s \o t) PROVE NoneBad(s) /\ NoneBad(t)
  <2>1. ASSUME NEW i \in DOMAIN s PROVE ~s[i].bad
    <3>1. i \in DOMAIN (s \o t) /\ (s \o t)[i] = s[i]
      BY <1>1
    <3> QED
      BY <1>2, <3>1 DEF NoneBad
  <2>2. ASSUME NEW i \in DOMAIN t PROVE ~t[i].bad
    <3>0. i + Len(s) \in 1..(Len(s) + Len(t)) /\ ~(i + Len(s) <= Len(s)) /\ i + Len(s) - Len(s) = i
      BY <1>1
    <3>1. i + Len(s) \in DOMAIN (s \o t) /\ (s \o t)[i + Len(s)] = t[i]
      BY <1>1, <3>0
    <3> QED
      BY <1>2, <3>1 DEF NoneBad
  <2> QED
    BY <2>1, <2>2 DEF NoneBad
<1>3. ASSUME NoneBad(s), NoneBad(t) PROVE NoneBad(s \o t)
  <2>1. ASSUME NEW i \in DOMAIN (s \o t) PROVE ~(s \o t)[i].bad
    <3>1. CASE i <= Len(s)
      BY <1>1, <1>3, <3>1 DEF NoneBad
    <3>2. CASE ~(i <= Len(s))
      <4>1. i - Len(s) \in DOMAIN t /\ (s \o t)[i] = t[i - Len(s)]
        BY <1>1, <3>2
      <4> QED
        BY <1>3, <4>1 DEF NoneBad
    <3> QED
      BY <3>1, <3>2
  <2> QED
    BY <2>1 DEF NoneBad
<1> QED
  BY <1>1, <1>2, <1>3

LEMMA SetterNamed ==
    ASSUME NEW u \in Document, NEW r \in Document \cup {NoDoc}, NEW S, S \subseteq DOMAIN Layers(u, r)
    PROVE  LayerOf(Layers(u, r), S) \in {"compiled", "user", "remote"}
<1>1. CASE S = {}
  BY <1>1 DEF LayerOf
<1>2. CASE S # {}
  <2>1. S \subseteq 0..2
    BY OneLayer, TwoLayers
  <2>2. Max(S) \in S
    BY <1>2, <2>1, LastIndex
  <2> QED
    BY <1>2, <2>2, LayersRead DEF LayerOf, Read
<1> QED
  BY <1>1, <1>2

LEMMA EnforcedNamed ==
    ASSUME NEW u \in Document, NEW r \in Document \cup {NoDoc}, NEW eff
    PROVE  /\ Enforced(eff, Layers(u, r)) \in Seq(Named)
           /\ NoneBad(Enforced(eff, Layers(u, r))) <=> Enforceable(eff)
<1> DEFINE a == [bad |-> eff.version = "refused", layer |-> Origin(Layers(u, r), LAMBDA d : d.version # Unset)]
           b == [bad |-> eff.targets = "bad", layer |-> Origin(Layers(u, r), LAMBDA d : d.targets # Unset)]
           c == [bad |-> ~(eff.packs \subseteq KnownPacks),
                 layer |-> Origin(Layers(u, r), LAMBDA d : d.packs # {})]
           d == [bad |-> BadRecipient \in eff.recipients,
                 layer |-> Origin(Layers(u, r), LAMBDA dd : dd.recipients # {})]
           e == [bad |-> ~CheckEncryption(eff), layer |-> Origin(Layers(u, r), LAMBDA dd : dd.install # Unset)]
<1>1. Enforced(eff, Layers(u, r)) = <<a, b, c, d, e>>
  BY DEF Enforced
<1>2. a \in Named /\ b \in Named /\ c \in Named /\ d \in Named /\ e \in Named
  <2>1. ASSUME NEW bad \in BOOLEAN, NEW layer \in {"compiled", "user", "remote"}
        PROVE  [bad |-> bad, layer |-> layer] \in Named
    BY DEF Named, Refusals, LayerNames
  <2>2. (~CheckEncryption(eff)) \in BOOLEAN
    BY DEF CheckEncryption
  <2>3. /\ a.layer \in {"compiled", "user", "remote"} /\ b.layer \in {"compiled", "user", "remote"}
        /\ c.layer \in {"compiled", "user", "remote"} /\ d.layer \in {"compiled", "user", "remote"}
        /\ e.layer \in {"compiled", "user", "remote"}
    BY SetterNamed DEF Origin, Setters
  <2>4. a = [bad |-> eff.version = "refused", layer |-> a.layer] /\ a \in Named
    BY <2>1, <2>3
  <2>5. b = [bad |-> eff.targets = "bad", layer |-> b.layer] /\ b \in Named
    BY <2>1, <2>3
  <2>6. c = [bad |-> ~(eff.packs \subseteq KnownPacks), layer |-> c.layer] /\ c \in Named
    BY <2>1, <2>3
  <2>7. d = [bad |-> BadRecipient \in eff.recipients, layer |-> d.layer] /\ d \in Named
    <3>1. (BadRecipient \in eff.recipients) \in BOOLEAN
      OBVIOUS
    <3> DEFINE bad == BadRecipient \in eff.recipients
    <3> HIDE DEF bad
    <3>2. d = [bad |-> bad, layer |-> d.layer] /\ bad \in BOOLEAN
      BY <3>1 DEF bad
    <3> QED
      BY <2>1, <2>3, <3>2 DEF bad
  <2>8. e = [bad |-> ~CheckEncryption(eff), layer |-> e.layer] /\ e \in Named
    BY <2>1, <2>2, <2>3
  <2> QED
    BY <2>4, <2>5, <2>6, <2>7, <2>8
<1>3. (~a.bad /\ ~b.bad /\ ~c.bad /\ ~d.bad /\ ~e.bad) <=> Enforceable(eff)
  BY DEF Enforceable
<1> HIDE DEF a, b, c, d, e
<1>4. <<a, b, c, d, e>> \in Seq(Named)
  BY <1>2
<1>5. NoneBad(<<a, b, c, d, e>>) <=> (~a.bad /\ ~b.bad /\ ~c.bad /\ ~d.bad /\ ~e.bad)
  BY DEF NoneBad
<1> QED
  BY <1>1, <1>3, <1>4, <1>5

LEMMA RefusalsNamed ==
    ASSUME NEW u \in Document, NEW r \in Document \cup {NoDoc}, NEW p, NEW id
    PROVE  /\ FoldRefusal(FoldedSource(Layers(u, r), id)) \in Named
           /\ PickRefusal(FoldedSource(Layers(u, r), id), p) \in Named
           /\ \A i \in DOMAIN Layers(u, r) :
                 [bad |-> DocumentRefused(CatalogOrder, Layers(u, r)[i]),
                  layer |-> Layers(u, r)[i].layer] \in Named
<1> DEFINE src == FoldedSource(Layers(u, r), id)
           pick == PickRoot(src, p)
<1>1. src \in Folded
  BY SourceFolded
<1>2. FoldRefusal(src) \in Named
  <2> HIDE DEF src
  <2> QED
    BY <1>1 DEF FoldRefusal, Folded, Named, Refusals
<1>3. pick.blame \in LayerNames \cup {"none"}
  <2> HIDE DEF src
  <2> QED
    BY <1>1 DEF PickRoot, FirstPicked, Picked, Folded
<1>4. PickRefusal(src, p) \in Named
  <2> HIDE DEF src
  <2> DEFINE bad == src.enabled = "on" /\ pick.blame # "none"
             blame == pick.blame
  <2>1. bad \in BOOLEAN /\ (bad => blame # "none") /\ blame \in LayerNames \cup {"none"}
    BY <1>3
  <2>2. PickRefusal(src, p) = [bad |-> bad, layer |-> blame]
    BY DEF PickRefusal, RootRefusal
  <2> HIDE DEF bad, blame
  <2>3. [bad |-> bad, layer |-> blame] \in Named
    BY <2>1 DEF Named, Refusals
  <2> QED
    BY <2>2, <2>3
<1>5. ASSUME NEW i \in DOMAIN Layers(u, r)
      PROVE  [bad |-> DocumentRefused(CatalogOrder, Layers(u, r)[i]),
              layer |-> Layers(u, r)[i].layer] \in Named
  <2>1. Layers(u, r)[i].layer \in {"user", "remote"}
    BY LayersRead DEF Read
  <2>2. DocumentRefused(CatalogOrder, Layers(u, r)[i]) \in BOOLEAN
    BY DEF DocumentRefused
  <2> QED
    BY <2>1, <2>2 DEF Named, Refusals, LayerNames
<1> QED
  BY <1>2, <1>4, <1>5

LEMMA ResolveIsClean ==
    ASSUME NEW u \in Document, NEW r \in Document \cup {NoDoc}, NEW p
    PROVE  /\ Resolve(CatalogOrder, u, r, p).blame = "none" <=> Clean(u, r, p)
           /\ Resolve(CatalogOrder, u, r, p).eff =
                 IF Resolve(CatalogOrder, u, r, p).blame = "none" THEN Merge(CatalogOrder, u, r, p)
                                                                 ELSE NoDoc
<1> DEFINE ls == Layers(u, r)
           eff == Merge(CatalogOrder, u, r, p)
           a == [i \in DOMAIN ls |-> [bad |-> DocumentRefused(CatalogOrder, ls[i]), layer |-> ls[i].layer]]
           b == [i \in DOMAIN CatalogOrder |-> FoldRefusal(FoldedSource(ls, CatalogOrder[i]))]
           c == Enforced(eff, ls)
           d == [i \in DOMAIN CatalogOrder |-> PickRefusal(FoldedSource(ls, CatalogOrder[i]), p)]
<1>0. \E n \in Nat : DOMAIN ls = 1..n
  <2>1. DOMAIN ls = {1} \/ DOMAIN ls = {1, 2}
    BY OneLayer, TwoLayers
  <2>2. {1} = 1..1 /\ {1, 2} = 1..2
    OBVIOUS
  <2> HIDE DEF ls
  <2> QED
    BY <2>1, <2>2
<1>1. a \in Seq(Named) /\ DOMAIN a = DOMAIN ls /\ \A i \in DOMAIN ls :
         a[i].bad <=> DocumentRefused(CatalogOrder, ls[i])
  <2>1. \A i \in DOMAIN ls : a[i] \in Named
    BY RefusalsNamed
  <2>2. DOMAIN a = DOMAIN ls /\ a = [i \in DOMAIN ls |-> a[i]]
    OBVIOUS
  <2>3. \A i \in DOMAIN ls : a[i].bad <=> DocumentRefused(CatalogOrder, ls[i])
    OBVIOUS
  <2> HIDE DEF a, ls
  <2>4. a \in Seq(Named)
    BY <1>0, <2>1, <2>2, SeqDef
  <2> QED
    BY <2>2, <2>3, <2>4
<1>2. \E n \in Nat : DOMAIN CatalogOrder = 1..n
  BY CatalogAssumption
<1>3. b \in Seq(Named) /\ DOMAIN b = DOMAIN CatalogOrder /\ \A i \in DOMAIN CatalogOrder :
         b[i].bad <=> FoldedSource(ls, CatalogOrder[i]).blame # "none"
  <2>1. \A i \in DOMAIN CatalogOrder : b[i] \in Named
    BY RefusalsNamed
  <2>2. DOMAIN b = DOMAIN CatalogOrder /\ b = [i \in DOMAIN CatalogOrder |-> b[i]]
    OBVIOUS
  <2>3. \A i \in DOMAIN CatalogOrder : b[i].bad <=> FoldedSource(ls, CatalogOrder[i]).blame # "none"
    BY DEF FoldRefusal
  <2> HIDE DEF b, ls
  <2>4. b \in Seq(Named)
    BY <1>2, <2>1, <2>2, SeqDef
  <2> QED
    BY <2>2, <2>3, <2>4
<1>4. c \in Seq(Named) /\ (NoneBad(c) <=> Enforceable(eff))
  BY EnforcedNamed
<1>5. d \in Seq(Named) /\ DOMAIN d = DOMAIN CatalogOrder /\ \A i \in DOMAIN CatalogOrder :
         d[i] = PickRefusal(FoldedSource(ls, CatalogOrder[i]), p)
  <2>1. \A i \in DOMAIN CatalogOrder : d[i] \in Named
    BY RefusalsNamed
  <2>2. DOMAIN d = DOMAIN CatalogOrder /\ d = [i \in DOMAIN CatalogOrder |-> d[i]]
    OBVIOUS
  <2>3. \A i \in DOMAIN CatalogOrder : d[i] = PickRefusal(FoldedSource(ls, CatalogOrder[i]), p)
    OBVIOUS
  <2> HIDE DEF d, ls
  <2>4. d \in Seq(Named)
    BY <1>2, <2>1, <2>2, SeqDef
  <2> QED
    BY <2>2, <2>3, <2>4
<1>6. Blame(CatalogOrder, ls, eff, p) = FirstLayer(a \o b \o c \o d)
  BY DEF Blame
<1>7. \A id : id \in Range(CatalogOrder) <=> \E i \in DOMAIN CatalogOrder : id = CatalogOrder[i]
  BY DEF Range
<1>8. (NoneBad(a) /\ NoneBad(b) /\ NoneBad(c) /\ NoneBad(d)) <=> Clean(u, r, p)
  <2>1. NoneBad(a) <=> \A i \in DOMAIN ls : ~DocumentRefused(CatalogOrder, ls[i])
    BY <1>1 DEF NoneBad
  <2>2. NoneBad(b) <=> \A id \in Range(CatalogOrder) : FoldedSource(ls, id).blame = "none"
    <3> HIDE DEF b, ls
    <3> QED
      BY <1>3, <1>7 DEF NoneBad
  <2>3. NoneBad(d) <=> \A id \in Range(CatalogOrder) : ~PickRefusal(FoldedSource(ls, id), p).bad
    <3> HIDE DEF d, ls
    <3> QED
      BY <1>5, <1>7 DEF NoneBad
  <2> HIDE DEF a, b, c, d
  <2> QED
    BY <1>4, <2>1, <2>2, <2>3 DEF Clean
<1> HIDE DEF a, b, c, d
<1>9. FirstLayer(a \o b \o c \o d) = "none" <=> NoneBad(a) /\ NoneBad(b) /\ NoneBad(c) /\ NoneBad(d)
  <2>1. a \o b \in Seq(Named) /\ (NoneBad(a \o b) <=> NoneBad(a) /\ NoneBad(b))
    BY <1>1, <1>3, NoneBadConcat
  <2>2. /\ a \o b \o c \in Seq(Named)
        /\ NoneBad(a \o b \o c) <=> NoneBad(a \o b) /\ NoneBad(c)
    BY <1>4, <2>1, NoneBadConcat
  <2>3. /\ a \o b \o c \o d \in Seq(Named)
        /\ NoneBad(a \o b \o c \o d) <=> NoneBad(a \o b \o c) /\ NoneBad(d)
    BY <1>5, <2>2, NoneBadConcat
  <2> QED
    BY <2>1, <2>2, <2>3, FirstIsNone
<1>10. Resolve(CatalogOrder, u, r, p) = Outcome(Blame(CatalogOrder, ls, eff, p), eff)
  BY DEF Resolve, ResolveLayers, ResolveMerged, Merge
<1> QED
  BY <1>6, <1>8, <1>9, <1>10 DEF Outcome

-----------------------------------------------------------------------------
(* The merged fields. *)

LEMMA LayerDocs ==
    ASSUME NEW u \in Document, NEW r \in Document \cup {NoDoc}
    PROVE  /\ Layers(u, r)[1].doc = u
           /\ r = NoDoc => DOMAIN Layers(u, r) = {1}
           /\ r # NoDoc => DOMAIN Layers(u, r) = {1, 2} /\ Layers(u, r)[2].doc = r
<1>1. CASE r = NoDoc
  <2>1. DOMAIN Layers(u, NoDoc) = {1} /\ Layers(u, NoDoc)[1] = Layer("user", u)
    BY OneLayer
  <2>2. Layer("user", u).doc = u
    BY DEF Layer
  <2> QED
    BY <1>1, <2>1, <2>2
<1>2. CASE r \in Document
  <2>1. DOMAIN Layers(u, r) = {1, 2} /\ Layers(u, r)[1] = Layer("user", u)
        /\ Layers(u, r)[2] = Layer("remote", r)
    BY <1>2, TwoLayers
  <2>2. Layer("user", u).doc = u /\ Layer("remote", r).doc = r
    BY DEF Layer
  <2> QED
    BY <1>2, <2>1, <2>2, NoDocIsNone
<1> QED
  BY <1>1, <1>2

Stated(value, default) == IF value # Unset THEN value ELSE default

(* A field of the last layer that states it. *)
Merged(layers, f, default) ==
    LastOf(layers, {i \in DOMAIN layers : layers[i].doc[f] # Unset}, LAMBDA d : d[f], default)

LEMMA MergedField ==
    ASSUME NEW u \in Document, NEW r \in Document \cup {NoDoc}, NEW f, NEW default
    PROVE  Merged(Layers(u, r), f, default) =
              IF r # NoDoc THEN Stated(r[f], Stated(u[f], default)) ELSE Stated(u[f], default)
<1> DEFINE ls == Layers(u, r)
           S == {i \in DOMAIN ls : ls[i].doc[f] # Unset}
<1>1. Merged(ls, f, default) = IF S = {} THEN default ELSE ls[Max(S)].doc[f]
  BY DEF Merged, LastOf
<1>2. CASE r = NoDoc
  <2>1. DOMAIN ls = {1} /\ ls[1].doc = u
    BY <1>2, LayerDocs
  <2>2. S # {} => S = {1}
    BY <2>1
  <2>3. Max({1}) = 1
    BY DEF Max
  <2> HIDE DEF ls
  <2> QED
    BY <1>1, <1>2, <2>1, <2>2, <2>3 DEF Stated, ls
<1>3. CASE r \in Document
  <2>1. DOMAIN ls = {1, 2} /\ ls[1].doc = u /\ ls[2].doc = r /\ r # NoDoc
    BY <1>3, LayerDocs, NoDocIsNone
  <2>2. S # {} => Max(S) \in S /\ \A y \in S : Max(S) >= y
    <3>1. S \subseteq 0..2
      BY <2>1
    <3> HIDE DEF S
    <3> QED
      BY <3>1, LastIndex
  <2> HIDE DEF ls
  <2>3. CASE r[f] # Unset
    <3>1. 2 \in S /\ S # {} /\ S \subseteq {1, 2}
      BY <2>1, <2>3
    <3>0. S # {} => Max(S) \in S /\ \A y \in S : Max(S) >= y
      BY <2>2
    <3> HIDE DEF S
    <3>a. Max(S) \in {1, 2} /\ Max(S) >= 2
      BY <3>0, <3>1
    <3>2. Max(S) = 2
      BY <3>a
    <3> QED
      BY <1>1, <2>1, <2>3, <3>1, <3>2 DEF Stated, ls
  <2>4. CASE r[f] = Unset /\ u[f] # Unset
    <3>1. S = {1}
      BY <2>1, <2>4
    <3> HIDE DEF S
    <3>2. Max(S) = 1
      BY <2>2, <3>1
    <3> QED
      BY <1>1, <2>1, <2>4, <3>1, <3>2 DEF Stated, ls
  <2>5. CASE r[f] = Unset /\ u[f] = Unset
    <3>1. S = {}
      BY <2>1, <2>5
    <3> QED
      BY <1>1, <2>1, <2>5, <3>1 DEF Stated, ls
  <2> QED
    BY <2>3, <2>4, <2>5
<1> QED
  BY <1>2, <1>3

Union(u, r, f) == IF r # NoDoc THEN u[f] \cup r[f] ELSE u[f]

(* The merge, field by field. *)
FieldsOf(eff, u, r, p) ==
    LET ls == Layers(u, r)
    IN  /\ eff.version = Merged(ls, "version", "accepted")
        /\ eff.autoupdate = Merged(ls, "autoupdate", "on")
        /\ eff.telemetry = Merged(ls, "telemetry", Unset)
        /\ eff.stateDir = Merged(ls, "stateDir", Unset)
        /\ eff.targets = Merged(ls, "targets", Unset)
        /\ eff.install = Merged(ls, "install", "on")
        /\ eff.packs = CompiledPacks \cup Union(u, r, "packs")
        /\ eff.recipients = Union(u, r, "recipients")
        /\ eff.sources = [id \in Range(CatalogOrder) |-> ResolvedSource(FoldedSource(ls, id), p)]

LEMMA MergeFields ==
    ASSUME NEW u \in Document, NEW r \in Document \cup {NoDoc}, NEW p
    PROVE  FieldsOf(Merge(CatalogOrder, u, r, p), u, r, p)
<1> DEFINE ls == Layers(u, r)
           eff == Merge(CatalogOrder, u, r, p)
<1> USE DEF Merge, MergeLayers
<1>1. /\ eff.version = Merged(ls, "version", "accepted")
      /\ eff.autoupdate = Merged(ls, "autoupdate", "on")
      /\ eff.telemetry = Merged(ls, "telemetry", Unset)
  BY DEF LastSet, LastOf, Setters, Merged
<1>2. /\ eff.stateDir = Merged(ls, "stateDir", Unset)
      /\ eff.targets = Merged(ls, "targets", Unset)
      /\ eff.install = Merged(ls, "install", "on")
  BY DEF LastSet, LastOf, Setters, Merged
<1>0. /\ ls[1].doc = u /\ (r = NoDoc => DOMAIN ls = {1})
      /\ r # NoDoc => DOMAIN ls = {1, 2} /\ ls[2].doc = r
  BY LayerDocs
<1> HIDE DEF ls
<1>3. UNION {ls[i].doc.packs : i \in DOMAIN ls} = Union(u, r, "packs")
  <2>1. CASE r = NoDoc
    BY <1>0, <2>1 DEF Union
  <2>2. CASE r \in Document
    BY <1>0, <2>2, NoDocIsNone DEF Union
  <2> QED
    BY <2>1, <2>2
<1>4. UNION {ls[i].doc.recipients : i \in DOMAIN ls} = Union(u, r, "recipients")
  <2>1. CASE r = NoDoc
    BY <1>0, <2>1 DEF Union
  <2>2. CASE r \in Document
    BY <1>0, <2>2, NoDocIsNone DEF Union
  <2> QED
    BY <2>1, <2>2
<1>5. eff.packs = CompiledPacks \cup Union(u, r, "packs") /\ eff.recipients = Union(u, r, "recipients")
  BY <1>3, <1>4 DEF UnionOf, ls
<1>6. eff.sources = [id \in Range(CatalogOrder) |-> ResolvedSource(FoldedSource(ls, id), p)]
  BY DEF ls
<1> QED
  BY <1>1, <1>2, <1>5, <1>6 DEF ls, FieldsOf

-----------------------------------------------------------------------------
(* A merged configuration. *)

Resolved ==
    [enabled : {"on", "off"}, join : {"on", "off"}, include : SUBSET Text,
     exclude : SUBSET Text, roots : Seq(Text), rootsBy : LayerNames, includeBy : LayerNames,
     root : Text \cup {"none"}]
Config ==
    [version : {"accepted", "refused"}, autoupdate : {"on", "off"}, telemetry : Optional,
     stateDir : Optional, targets : Optional,
     packs : SUBSET (STRING \cup CompiledPacks), recipients : SUBSET STRING, install : {"on", "off"},
     sources : [Range(CatalogOrder) -> Resolved]]

(* A root that is picked is allowed. *)
LEMMA PickIsSound ==
    ASSUME NEW src, src.roots \in Seq(Text), NEW p
    PROVE  LET root == PickRoot(src, p).root
           IN  /\ root \in Text \cup {"none"} /\ root \notin Denied \cup Unexpandable
               /\ WideGlob \in src.include => root \notin SecretRoots
<1> DEFINE S == Candidates(src, p)
<1>1. CASE S = {}
  BY <1>1, CatalogAssumption DEF PickRoot, FirstPicked, Denied, Unexpandable
<1>2. CASE S # {}
  <2>1. S \subseteq Nat /\ S \subseteq DOMAIN src.roots
    BY DEF Candidates
  <2>2. Min(S) \in S
    <3> HIDE DEF S
    <3> QED
      BY <1>2, <2>1, FirstIndex
  <2>3. src.roots[Min(S)] \in Text
    BY <2>1, <2>2
  <2>4. PickRoot(src, p) = Picked(src, src.roots[Min(S)])
    BY <1>2 DEF PickRoot, FirstPicked
  <2>5. ASSUME NEW root \in Text
        PROVE  /\ Picked(src, root).root \in Text \cup {"none"}
               /\ Picked(src, root).root \notin Denied \cup Unexpandable
               /\ WideGlob \in src.include => Picked(src, root).root \notin SecretRoots
    BY CatalogAssumption DEF Picked, Denied, Unexpandable, WideGlob, CatalogGlob
  <2> HIDE DEF S
  <2> QED
    BY <2>3, <2>4, <2>5
<1> QED
  BY <1>1, <1>2

LEMMA ResolvedTyped ==
    ASSUME NEW src \in Folded, NEW p
    PROVE  ResolvedSource(src, p) \in Resolved
<1> DEFINE root == IF src.enabled = "on" THEN PickRoot(src, p).root ELSE "none"
<1>1. src.roots \in Seq(Text)
  BY DEF Folded
<1>2. root \in Text \cup {"none"}
  BY <1>1, PickIsSound
<1> HIDE DEF root
<1>3. ResolvedSource(src, p) =
        [enabled |-> src.enabled, join |-> src.join, include |-> src.include,
         exclude |-> src.exclude \cup src.additions, roots |-> src.roots,
         rootsBy |-> src.rootsBy, includeBy |-> src.includeBy, root |-> root]
  BY DEF ResolvedSource, root
<1> QED
  BY <1>2, <1>3 DEF Folded, Resolved

LEMMA MergeTyped ==
    ASSUME NEW u \in Document, NEW r \in Document \cup {NoDoc}, NEW p
    PROVE  Merge(CatalogOrder, u, r, p) \in Config
<1> DEFINE eff == Merge(CatalogOrder, u, r, p)
           ls == Layers(u, r)
<1>0. FieldsOf(eff, u, r, p)
  BY MergeFields
<1>f. \A f, default : Merged(ls, f, default) =
         IF r # NoDoc THEN Stated(r[f], Stated(u[f], default)) ELSE Stated(u[f], default)
  BY MergedField
<1>1. /\ eff.version \in {"accepted", "refused"} /\ eff.autoupdate \in {"on", "off"}
      /\ eff.telemetry \in Optional /\ eff.stateDir \in Optional
      /\ eff.targets \in Optional /\ eff.install \in {"on", "off"}
  <2>1. \A d \in Document :
          /\ d["version"] \in {Unset, "accepted", "refused"} /\ d["autoupdate"] \in {Unset, "on", "off"}
          /\ d["telemetry"] \in Optional /\ d["stateDir"] \in Optional /\ d["targets"] \in Optional
          /\ d["install"] \in {Unset, "on", "off"}
    BY DEF Document, Toggle
  <2>2. r # NoDoc => r \in Document
    OBVIOUS
  <2>3. /\ eff.version \in {"accepted", "refused"} /\ eff.autoupdate \in {"on", "off"}
        /\ eff.install \in {"on", "off"}
    BY <1>0, <1>f, <2>1, <2>2 DEF Stated, FieldsOf
  <2>4. /\ eff.telemetry \in Optional /\ eff.stateDir \in Optional
        /\ eff.targets \in Optional
    BY <1>0, <1>f, <2>1, <2>2 DEF Stated, FieldsOf, Optional
  <2> QED
    BY <2>3, <2>4
<1>2. /\ eff.packs \in SUBSET (STRING \cup CompiledPacks) /\ eff.recipients \in SUBSET STRING
  <2>1. \A d \in Document : d["packs"] \subseteq STRING /\ d["recipients"] \subseteq STRING
    BY DEF Document
  <2>2. Union(u, r, "packs") \subseteq STRING /\ Union(u, r, "recipients") \subseteq STRING
    BY <2>1 DEF Union
  <2> QED
    BY <1>0, <2>2 DEF FieldsOf
<1>3. eff.sources \in [Range(CatalogOrder) -> Resolved]
  <2>1. eff.sources = [id \in Range(CatalogOrder) |-> ResolvedSource(FoldedSource(ls, id), p)]
    BY <1>0 DEF FieldsOf
  <2> HIDE DEF eff
  <2>2. \A id : ResolvedSource(FoldedSource(ls, id), p) \in Resolved
    BY SourceFolded, ResolvedTyped
  <2> QED
    BY <2>1, <2>2
<1>4. eff = [version |-> eff.version, autoupdate |-> eff.autoupdate, telemetry |-> eff.telemetry,
             stateDir |-> eff.stateDir, targets |-> eff.targets, packs |-> eff.packs,
             recipients |-> eff.recipients, install |-> eff.install, sources |-> eff.sources]
  BY DEF Merge, MergeLayers
<1> DEFINE version == eff.version
           autoupdate == eff.autoupdate
           telemetry == eff.telemetry
           stateDir == eff.stateDir
           targets == eff.targets
           packs == eff.packs
           recipients == eff.recipients
           install == eff.install
           sources == eff.sources
           whole == [version |-> version, autoupdate |-> autoupdate, telemetry |-> telemetry,
                     stateDir |-> stateDir, targets |-> targets, packs |-> packs,
                     recipients |-> recipients, install |-> install, sources |-> sources]
<1>5. whole \in Config
  <2> HIDE DEF version, autoupdate, telemetry, stateDir, targets, packs, recipients, install, sources
  <2>1. /\ version \in {"accepted", "refused"} /\ autoupdate \in {"on", "off"}
        /\ telemetry \in Optional /\ stateDir \in Optional
        /\ targets \in Optional /\ install \in {"on", "off"}
    BY <1>1 DEF version, autoupdate, telemetry, stateDir, targets, install
  <2>2. packs \in SUBSET (STRING \cup CompiledPacks) /\ recipients \in SUBSET STRING
    BY <1>2 DEF packs, recipients
  <2>3. sources \in [Range(CatalogOrder) -> Resolved]
    BY <1>3 DEF sources
  <2> QED
    BY <2>1, <2>2, <2>3 DEF Config
<1> QED
  BY <1>4, <1>5

(* The properties' parts, of any configuration. *)
SoundIn(eff) ==
    /\ eff.install = "on" \/ eff.recipients # {}
    /\ BadRecipient \notin eff.recipients
    /\ eff.packs \subseteq KnownPacks
    /\ eff.version = "accepted" /\ eff.targets # "bad"
    /\ \A id \in DOMAIN eff.sources :
         LET src == eff.sources[id]
         IN  /\ src.root \notin Denied \cup Unexpandable
             /\ WideGlob \in src.include => src.root \notin SecretRoots

SourcesKept(eff, u) ==
    \A id \in DOMAIN eff.sources :
      /\ UserDisabled(u, id) => eff.sources[id].enabled = "off"
      /\ Merge(CatalogOrder, u, NoDoc, {}).sources[id].join = "off" => eff.sources[id].join = "off"
      /\ Own(u, id).additions \subseteq eff.sources[id].exclude

FieldsKept(eff, own) ==
    /\ eff.autoupdate = "on" => own.autoupdate = "on"
    /\ eff.stateDir = own.stateDir /\ eff.targets = own.targets
    /\ own.packs \subseteq eff.packs /\ own.recipients \subseteq eff.recipients

KeptIn(eff, u) == SourcesKept(eff, u) /\ FieldsKept(eff, Merge(CatalogOrder, u, NoDoc, {}))

ExcludedIn(eff, org) ==
    \A i \in DOMAIN org.sources :
      LET o == org.sources[i]
      IN  o.id \in DOMAIN eff.sources =>
            \/ eff.sources[o.id].enabled = "off"
            \/ o.add \subseteq eff.sources[o.id].exclude

LEMMA CleanIsSound ==
    ASSUME NEW u \in Document, NEW r \in Document \cup {NoDoc}, NEW p, Clean(u, r, p)
    PROVE  SoundIn(Merge(CatalogOrder, u, r, p))
<1> DEFINE eff == Merge(CatalogOrder, u, r, p)
<1>1. eff \in Config /\ Enforceable(eff)
  BY MergeTyped DEF Clean
<1>2. ASSUME NEW id \in Range(CatalogOrder)
      PROVE  /\ eff.sources[id].root \notin Denied \cup Unexpandable
             /\ WideGlob \in eff.sources[id].include => eff.sources[id].root \notin SecretRoots
  <2> DEFINE src == FoldedSource(Layers(u, r), id)
  <2>1. src.roots \in Seq(Text)
    BY SourceFolded DEF Folded
  <2>0. FieldsOf(eff, u, r, p)
    BY MergeFields
  <2>2. eff.sources[id] = ResolvedSource(src, p)
    BY <2>0 DEF FieldsOf
  <2> HIDE DEF src, eff
  <2>3. /\ eff.sources[id].include = src.include
        /\ eff.sources[id].root = IF src.enabled = "on" THEN PickRoot(src, p).root ELSE "none"
    BY <2>2 DEF ResolvedSource
  <2> QED
    BY <2>1, <2>3, PickIsSound, CatalogAssumption DEF Denied, Unexpandable
<1>3. DOMAIN eff.sources = Range(CatalogOrder) /\ eff.version \in {"accepted", "refused"}
      /\ eff.install \in {"on", "off"}
  BY <1>1 DEF Config
<1> HIDE DEF eff
<1>4. /\ eff.install = "on" \/ eff.recipients # {}
      /\ BadRecipient \notin eff.recipients /\ eff.packs \subseteq KnownPacks
      /\ eff.version = "accepted" /\ eff.targets # "bad"
  BY <1>1, <1>3 DEF Enforceable, CheckEncryption
<1>5. SoundIn(eff)
  BY <1>2, <1>3, <1>4 DEF SoundIn
<1> QED
  BY <1>5 DEF eff

LEMMA CleanIsKept ==
    ASSUME NEW u \in Document, NEW r \in Document \cup {NoDoc}, NEW p, Clean(u, r, p)
    PROVE  KeptIn(Merge(CatalogOrder, u, r, p), u)
<1> DEFINE eff == Merge(CatalogOrder, u, r, p)
           own == Merge(CatalogOrder, u, NoDoc, {})
<1>0. FieldsOf(eff, u, r, p) /\ FieldsOf(own, u, NoDoc, {})
  BY MergeFields
<1>f. \A f, default :
        /\ Merged(Layers(u, NoDoc), f, default) = Stated(u[f], default)
        /\ Merged(Layers(u, r), f, default) =
              IF r # NoDoc THEN Stated(r[f], Stated(u[f], default)) ELSE Stated(u[f], default)
  BY MergedField
<1>1. FieldsKept(eff, own)
  <2>1. r # NoDoc => r["autoupdate"] # "on" /\ r["stateDir"] = Unset /\ r["targets"] = Unset
    <3>1. CASE r \in Document
      <4>1. /\ Layers(u, r)[2] = Layer("remote", r) /\ 2 \in DOMAIN Layers(u, r)
        BY <3>1, TwoLayers
      <4>2. ~DocumentRefused(CatalogOrder, Layer("remote", r))
        BY <4>1 DEF Clean
      <4> QED
        BY <4>2 DEF DocumentRefused, Layer, IsLocal
    <3> QED
      BY <3>1
  <2>2. eff.stateDir = own.stateDir /\ eff.targets = own.targets
    BY <1>0, <1>f, <2>1 DEF Stated, FieldsOf
  <2>3. eff.autoupdate = "on" => own.autoupdate = "on"
    BY <1>0, <1>f, <2>1 DEF Stated, FieldsOf
  <2>4. own.packs \subseteq eff.packs /\ own.recipients \subseteq eff.recipients
    BY <1>0 DEF FieldsOf, Union
  <2> QED
    BY <2>2, <2>3, <2>4 DEF FieldsKept
<1>2. ASSUME NEW id \in Range(CatalogOrder)
      PROVE  /\ UserDisabled(u, id) => eff.sources[id].enabled = "off"
             /\ own.sources[id].join = "off" => eff.sources[id].join = "off"
             /\ Own(u, id).additions \subseteq eff.sources[id].exclude
  <2> DEFINE src == FoldedSource(Layers(u, r), id)
  <2>1. src.blame = "none"
    BY DEF Clean
  <2>2. eff.sources[id] = ResolvedSource(src, p) /\ own.sources[id] = ResolvedSource(Own(u, id), {})
    BY <1>0, OwnSource DEF FieldsOf
  <2>3. /\ UserDisabled(u, id) => src.enabled = "off"
        /\ Own(u, id).join = "off" => src.join = "off"
        /\ Own(u, id).additions \subseteq src.additions
    BY <2>1, OwnerKeepsSource
  <2> HIDE DEF src, eff, own
  <2> QED
    BY <2>2, <2>3 DEF ResolvedSource
<1>3. DOMAIN eff.sources = Range(CatalogOrder)
  BY MergeTyped DEF Config
<1>4. SourcesKept(eff, u)
  <2> HIDE DEF eff
  <2> QED
    BY <1>2, <1>3 DEF SourcesKept
<1> QED
  BY <1>1, <1>4 DEF KeptIn

(* The document carries every exclusion of org, or pauses the source. *)
Covers(doc, org) ==
    \A i \in DOMAIN org.sources :
      LET o == org.sources[i]
          named == {k \in DOMAIN doc.sources : doc.sources[k].id = o.id}
      IN  o.id \in Range(CatalogOrder) /\ o.add # {} =>
            \/ \E k \in named : o.add \subseteq doc.sources[k].add
            \/ named # {} /\ \A k \in named : doc.sources[k].enabled = "off"

LEMMA CleanIsExcluded ==
    ASSUME NEW u \in Document, NEW r \in Document, NEW p, Clean(u, r, p),
           NEW org \in Document, Covers(r, org)
    PROVE  ExcludedIn(Merge(CatalogOrder, u, r, p), org)
<1> DEFINE eff == Merge(CatalogOrder, u, r, p)
<1>1. DOMAIN eff.sources = Range(CatalogOrder)
  BY MergeTyped DEF Config
<1>2. ASSUME NEW i \in DOMAIN org.sources, org.sources[i].id \in Range(CatalogOrder)
      PROVE  \/ eff.sources[org.sources[i].id].enabled = "off"
             \/ org.sources[i].add \subseteq eff.sources[org.sources[i].id].exclude
  <2> DEFINE o == org.sources[i]
             id == o.id
             src == FoldedSource(Layers(u, r), id)
             s == r.sources
             n == Len(s)
             named == {k \in DOMAIN s : s[k].id = id}
  <2>1. src.blame = "none"
    BY <1>2 DEF Clean
  <2>2. FieldsOf(eff, u, r, p)
    BY MergeFields
  <2>3. eff.sources[id] = ResolvedSource(src, p)
    BY <1>2, <2>2 DEF FieldsOf
  <2>4. s \in Seq(Override) /\ n \in Nat /\ DOMAIN s = 1..n
    BY DEF Document
  <2>5. \A k \in 1..n : /\ s[k].id = id => s[k].add \subseteq src.additions
                        /\ LastOff(s, id, n, k) => src.enabled = "off"
    BY <2>1, RemoteApplies
  <2>6. o.add # {} => \/ \E k \in named : o.add \subseteq s[k].add
                      \/ named # {} /\ \A k \in named : s[k].enabled = "off"
    BY <1>2 DEF Covers
  <2> HIDE DEF eff, src, s
  <2>7. eff.sources[id].enabled = src.enabled /\ src.additions \subseteq eff.sources[id].exclude
    BY <2>3 DEF ResolvedSource
  <2>8. CASE o.add = {}
    BY <2>8
  <2>9. CASE \E k \in named : o.add \subseteq s[k].add
    <3>1. PICK k \in named : o.add \subseteq s[k].add
      BY <2>9
    <3>2. o.add \subseteq src.additions
      BY <2>4, <2>5, <3>1
    <3> QED
      BY <2>7, <3>2
  <2>10. CASE named # {} /\ \A k \in named : s[k].enabled = "off"
    <3>1. named \subseteq 0..n
      BY <2>4
    <3>2. Max(named) \in named /\ \A y \in named : Max(named) >= y
      <4> HIDE DEF named, n
      <4> QED
        BY <2>4, <2>10, <3>1, LastIndex
    <3>3. LastOff(s, id, n, Max(named))
      <4> DEFINE k == Max(named)
      <4>1. k \in 1..n /\ s[k].id = id /\ s[k].enabled = "off"
        BY <2>4, <2>10, <3>2
      <4>2. ASSUME NEW j \in (k + 1)..n, s[j].id = id PROVE FALSE
        <5>1. j \in Nat /\ j \in 1..n /\ ~(k >= j)
          BY <2>4, <4>1
        <5>2. j \in named
          BY <2>4, <4>2, <5>1
        <5> QED
          BY <3>2, <5>1, <5>2
      <4> HIDE DEF k
      <4>3. LastOff(s, id, n, k)
        BY <4>1, <4>2 DEF LastOff
      <4> QED
        BY <4>3 DEF k
    <3>4. Max(named) \in 1..n
      BY <2>4, <3>2
    <3> QED
      BY <2>5, <2>7, <3>3, <3>4
  <2> QED
    BY <2>6, <2>8, <2>9, <2>10
<1> HIDE DEF eff
<1>3. ExcludedIn(eff, org)
  BY <1>1, <1>2 DEF ExcludedIn
<1> QED
  BY <1>3 DEF eff

(* Roots that are picked again change nothing else. *)
LEMMA RefreshKeeps ==
    ASSUME NEW eff \in Config, NEW p
    PROVE  LET new == RefreshAbsentRoots(eff, p)
           IN  /\ new \in Config
               /\ SoundIn(eff) => SoundIn(new)
               /\ \A u : KeptIn(eff, u) => KeptIn(new, u)
               /\ \A org : ExcludedIn(eff, org) => ExcludedIn(new, org)
<1> DEFINE new == RefreshAbsentRoots(eff, p)
           sources ==
             [id \in DOMAIN eff.sources |->
                IF eff.sources[id].enabled = "on" /\ eff.sources[id].root = "none"
                THEN [eff.sources[id] EXCEPT !.root = PickRoot(eff.sources[id], p).root]
                ELSE eff.sources[id]]
<1>1. new = [eff EXCEPT !.sources = sources]
  BY DEF RefreshAbsentRoots
<1>2. ASSUME NEW id \in DOMAIN eff.sources
      PROVE  /\ sources[id] \in Resolved
             /\ sources[id].enabled = eff.sources[id].enabled
             /\ sources[id].join = eff.sources[id].join
             /\ sources[id].include = eff.sources[id].include
             /\ sources[id].exclude = eff.sources[id].exclude
             /\ \/ sources[id].root = eff.sources[id].root
                \/ /\ sources[id].root \notin Denied \cup Unexpandable
                   /\ WideGlob \in sources[id].include => sources[id].root \notin SecretRoots
  <2> DEFINE src == eff.sources[id]
  <2>1. src \in Resolved
    BY DEF Config
  <2>2. src.roots \in Seq(Text)
    BY <2>1 DEF Resolved
  <2> HIDE DEF src
  <2>3. /\ PickRoot(src, p).root \in Text \cup {"none"}
        /\ PickRoot(src, p).root \notin Denied \cup Unexpandable
        /\ WideGlob \in src.include => PickRoot(src, p).root \notin SecretRoots
    BY <2>2, PickIsSound
  <2> DEFINE root == PickRoot(src, p).root
  <2>4. sources[id] = IF src.enabled = "on" /\ src.root = "none" THEN [src EXCEPT !.root = root] ELSE src
    BY DEF src
  <2> HIDE DEF root, sources
  <2>5. /\ sources[id] \in Resolved
        /\ sources[id].enabled = src.enabled /\ sources[id].join = src.join
        /\ sources[id].include = src.include /\ sources[id].exclude = src.exclude
        /\ sources[id].root = src.root \/ sources[id].root = root
    BY <2>1, <2>3, <2>4 DEF Resolved, root
  <2> QED
    BY <2>3, <2>5 DEF src, root
<1>3. DOMAIN eff.sources = Range(CatalogOrder) /\ DOMAIN sources = DOMAIN eff.sources
  BY DEF Config
<1>4. sources \in [Range(CatalogOrder) -> Resolved]
  BY <1>2, <1>3
<1> HIDE DEF sources
<1>5. new \in Config /\ new.sources = sources
  BY <1>1, <1>4 DEF Config
<1>6. /\ new.install = eff.install /\ new.recipients = eff.recipients /\ new.packs = eff.packs
      /\ new.version = eff.version /\ new.targets = eff.targets /\ new.autoupdate = eff.autoupdate
      /\ new.stateDir = eff.stateDir
  BY <1>1 DEF Config
<1> HIDE DEF new
<1>7. SoundIn(eff) => SoundIn(new)
  BY <1>2, <1>3, <1>5, <1>6 DEF SoundIn
<1>8. \A u : KeptIn(eff, u) => KeptIn(new, u)
  <2> SUFFICES ASSUME NEW u, KeptIn(eff, u) PROVE KeptIn(new, u)
    OBVIOUS
  <2>1. SourcesKept(new, u)
    BY <1>2, <1>3, <1>5 DEF SourcesKept, KeptIn
  <2>2. FieldsKept(new, Merge(CatalogOrder, u, NoDoc, {}))
    BY <1>6 DEF FieldsKept, KeptIn
  <2> QED
    BY <2>1, <2>2 DEF KeptIn
<1>9. \A org : ExcludedIn(eff, org) => ExcludedIn(new, org)
  BY <1>2, <1>3, <1>5 DEF ExcludedIn
<1> QED
  BY <1>2, <1>5, <1>7, <1>8, <1>9 DEF new

-----------------------------------------------------------------------------
(* What the service sends. *)

Kept(kept, o) == IF o.id \in Range(CatalogOrder) THEN Append(kept, o) ELSE kept

(* Collected passes the entries one after the other. *)
LEMMA CollectedSteps ==
    ASSUME NEW s \in Seq(Override)
    PROVE  \E f : /\ f[0] = <<>>
                  /\ \A i \in 1..Len(s) : f[i] = Kept(f[i - 1], s[i])
                  /\ Collected(s) = f[Len(s)]
<1> DEFINE n == Len(s)
           Body(it, t) == IF t = {} THEN <<>> ELSE Kept(it[t \ {Max(t)}], s[Max(t)])
           Fix(it, m) == it = [t \in SUBSET (1..m) |-> Body(it, t)]
           M == {m \in 0..n : \E it : Fix(it, m)}
<1>0. n \in Nat /\ DOMAIN s = 1..n
  OBVIOUS
<1>1. Collected(s) = (CHOOSE it : Fix(it, n))[1..n]
  BY <1>0 DEF Collected, FoldLeft, MapThenFoldSet, Kept
<1>2. \E it : Fix(it, 0)
  <2> DEFINE it == [t \in SUBSET (1..0) |-> <<>>]
  <2>1. \A t \in SUBSET (1..0) : Body(it, t) = <<>>
    OBVIOUS
  <2> HIDE DEF Body
  <2>2. Fix(it, 0)
    BY <2>1
  <2> QED
    BY <2>2
<1>3. ASSUME NEW m \in 1..n, NEW it, Fix(it, m - 1) PROVE \E up : Fix(up, m)
  <2> DEFINE up == [t \in SUBSET (1..m) |-> Body(it, t)]
  <2>2. ASSUME NEW t \in SUBSET (1..m), t # {} PROVE t \ {Max(t)} \in SUBSET (1..(m - 1))
    <3>0. t \subseteq 0..n
      BY <1>0
    <3>1. Max(t) \in t /\ \A y \in t : Max(t) >= y
      BY <1>0, <2>2, <3>0, LastIndex
    <3>2. ASSUME NEW y \in t \ {Max(t)} PROVE y \in 1..(m - 1)
      <4>1. y \in 1..m /\ Max(t) \in 1..m /\ Max(t) >= y /\ y # Max(t)
        BY <3>1
      <4> HIDE DEF M, Fix
      <4> QED
        BY <1>0, <4>1
    <3> QED
      BY <3>2
  <2>3. ASSUME NEW t \in SUBSET (1..(m - 1)) PROVE up[t] = it[t]
    <3>1. t \in SUBSET (1..m)
      BY <1>0
    <3> HIDE DEF Body
    <3> QED
      BY <1>3, <3>1
  <2>4. ASSUME NEW t \in SUBSET (1..m) PROVE Body(it, t) = Body(up, t)
    <3> HIDE DEF up
    <3> QED
      BY <2>2, <2>3
  <2> HIDE DEF Body
  <2>5. Fix(up, m)
    BY <2>4
  <2> QED
    BY <2>5
<1>4. \E it : Fix(it, n)
  <2> HIDE DEF Fix
  <2>1. 0 \in M
    BY <1>0, <1>2
  <2>2. \A i \in 1..n : i - 1 \in M => i \in M
    BY <1>0, <1>3
  <2> HIDE DEF M
  <2>3. 0..n \subseteq M
    BY <1>0, <2>1, <2>2, StepByStep
  <2>4. n \in M
    BY <1>0, <2>3
  <2> QED
    BY <2>4 DEF M
<1> DEFINE it == CHOOSE it : Fix(it, n)
           f == [i \in 0..n |-> it[1..i]]
<1>5. Fix(it, n)
  <2> HIDE DEF Fix
  <2> QED
    BY <1>4
<1> HIDE DEF it
<1>6. f[0] = <<>>
  BY <1>0, <1>5
<1>7. ASSUME NEW i \in 1..n PROVE f[i] = Kept(f[i - 1], s[i])
  <2>0. i \in Nat /\ 1 <= i /\ i <= n
    BY <1>0
  <2>1. 1..i \in SUBSET (1..n) /\ 1..i # {} /\ i \in 1..i
    <3> HIDE DEF n, M
    <3>1. i \in 1..i
      BY <2>0
    <3>2. \A k \in 1..i : k \in 1..n
      BY <1>0, <2>0
    <3> QED
      BY <3>1, <3>2
  <2>2. Max(1..i) = i
    <3>1. 1..i \subseteq 0..n
      BY <1>0
    <3>2. Max(1..i) \in 1..i /\ Max(1..i) >= i
      BY <1>0, <2>1, <3>1, LastIndex
    <3> QED
      BY <3>2
  <2>3. (1..i) \ {i} = 1..(i - 1)
    BY <1>0
  <2>4. it[1..i] = Body(it, 1..i)
    <3> HIDE DEF Body
    <3> QED
      BY <1>5, <2>1
  <2>5. it[1..i] = Kept(it[1..(i - 1)], s[i])
    BY <2>1, <2>2, <2>3, <2>4
  <2>6. i \in 0..n /\ i - 1 \in 0..n
    BY <1>0
  <2> QED
    BY <2>5, <2>6
<1>8. f[n] = Collected(s)
  BY <1>0, <1>1 DEF it
<1> HIDE DEF f
<1> QED
  BY <1>6, <1>7, <1>8

(* The entries of known sources remain, and nothing is added. *)
LEMMA CollectedKeeps ==
    ASSUME NEW s \in Seq(Override)
    PROVE  /\ Collected(s) \in Seq(Override)
           /\ \A j \in DOMAIN Collected(s) : \E i \in DOMAIN s : Collected(s)[j] = s[i]
           /\ \A i \in DOMAIN s : s[i].id \in Range(CatalogOrder) =>
                 \E j \in DOMAIN Collected(s) : Collected(s)[j] = s[i]
<1> DEFINE n == Len(s)
<1>0. n \in Nat /\ DOMAIN s = 1..n
  OBVIOUS
<1>1. PICK f : /\ f[0] = <<>>
               /\ \A i \in 1..n : f[i] = Kept(f[i - 1], s[i])
               /\ Collected(s) = f[n]
  BY CollectedSteps
<1> DEFINE P(i) == /\ f[i] \in Seq(Override)
                   /\ \A j \in DOMAIN f[i] : \E k \in 1..n : f[i][j] = s[k]
                   /\ \A k \in 1..i : s[k].id \in Range(CatalogOrder) =>
                         \E j \in DOMAIN f[i] : f[i][j] = s[k]
           M == {i \in 0..n : P(i)}
<1> HIDE DEF n
<1>2. P(0)
  BY <1>1
<1>3. ASSUME NEW i \in 1..n, P(i - 1) PROVE P(i)
  <2>0. s[i] \in Override /\ i \in Nat /\ \A k \in 1..i : k = i \/ k \in 1..(i - 1)
    BY <1>0
  <2> DEFINE g == f[i - 1]
  <2>1. /\ g \in Seq(Override)
        /\ \A j \in DOMAIN g : \E k \in 1..n : g[j] = s[k]
        /\ \A k \in 1..(i - 1) : s[k].id \in Range(CatalogOrder) => \E j \in DOMAIN g : g[j] = s[k]
        /\ f[i] = Kept(g, s[i])
    BY <1>1, <1>3
  <2> HIDE DEF g
  <2>2. CASE s[i].id \notin Range(CatalogOrder)
    <3>1. f[i] = g
      BY <2>1, <2>2 DEF Kept
    <3> QED
      BY <2>0, <2>1, <2>2, <3>1
  <2>3. CASE s[i].id \in Range(CatalogOrder)
    <3>1. f[i] = Append(g, s[i])
      BY <2>1, <2>3 DEF Kept
    <3>2. /\ f[i] \in Seq(Override) /\ DOMAIN f[i] = 1..(Len(g) + 1) /\ DOMAIN g = 1..Len(g)
          /\ Len(g) \in Nat
          /\ f[i][Len(g) + 1] = s[i] /\ \A j \in 1..Len(g) : f[i][j] = g[j]
      BY <2>0, <2>1, <3>1, AppendProperties
    <3>3. \A j \in 1..(Len(g) + 1) : j = Len(g) + 1 \/ j \in 1..Len(g)
      BY <3>2
    <3>4. Len(g) + 1 \in DOMAIN f[i] /\ \A j \in DOMAIN g : j \in DOMAIN f[i]
      BY <3>2
    <3>5. \A j \in DOMAIN f[i] : \E k \in 1..n : f[i][j] = s[k]
      BY <2>1, <3>2, <3>3
    <3>6. \A k \in 1..i : s[k].id \in Range(CatalogOrder) => \E j \in DOMAIN f[i] : f[i][j] = s[k]
      BY <2>0, <2>1, <3>2, <3>4
    <3> QED
      BY <3>2, <3>5, <3>6
  <2> QED
    BY <2>2, <2>3
<1>4. P(n)
  <2> HIDE DEF P
  <2>1. 0 \in M /\ \A i \in 1..n : i - 1 \in M => i \in M
    BY <1>0, <1>2, <1>3
  <2> HIDE DEF M
  <2>2. 0..n \subseteq M
    BY <1>0, <2>1, StepByStep
  <2> QED
    BY <1>0, <2>2 DEF M
<1>5. /\ f[n] \in Seq(Override)
      /\ \A j \in DOMAIN f[n] : \E k \in 1..n : f[n][j] = s[k]
      /\ \A k \in 1..n : s[k].id \in Range(CatalogOrder) => \E j \in DOMAIN f[n] : f[n][j] = s[k]
  BY <1>4
<1>6. Collected(s) = f[n]
  BY <1>1
<1> HIDE DEF P, M
<1> QED
  BY <1>0, <1>5, <1>6, Zenon

NoAdds(doc) == \A i \in DOMAIN doc.sources : doc.sources[i].add = {}

LEMMA WithSources ==
    ASSUME NEW d \in Document, NEW s \in Seq(Override)
    PROVE  /\ [d EXCEPT !.sources = s] \in Document
           /\ [d EXCEPT !.sources = s].sources = s
           /\ \A f \in DOMAIN d : f # "sources" => [d EXCEPT !.sources = s][f] = d[f]
<1>1. [d EXCEPT !.sources = s] \in Document /\ [d EXCEPT !.sources = s].sources = s
  BY DEF Document
<1>2. \A f \in DOMAIN d : f # "sources" => [d EXCEPT !.sources = s][f] = d[f]
  OBVIOUS
<1> QED
  BY <1>1, <1>2

(* What reduction does to the entries. *)
LEMMA ReducedEntries ==
    ASSUME NEW s \in Seq(Override)
    PROVE  LET t == ReduceSourceExclusions(s)
           IN  /\ t \in Seq(Override) /\ DOMAIN t = DOMAIN s /\ Len(t) = Len(s)
               /\ \A i \in DOMAIN s :
                    /\ t[i].id = s[i].id /\ t[i].add = {} /\ t[i].foreign = s[i].foreign
                    /\ t[i].enabled = IF s[i].id \in Paused(s) THEN "off" ELSE s[i].enabled
                    /\ s[i].id \notin Paused(s) => t[i] = s[i]
<1> DEFINE t == ReduceSourceExclusions(s)
           off(i) == IF s[i].id \in Paused(s) THEN "off" ELSE s[i].enabled
<1>0. DOMAIN s = 1..Len(s) /\ Len(s) \in Nat
  OBVIOUS
<1>1. t = [i \in DOMAIN s |-> [s[i] EXCEPT !.enabled = off(i), !.add = {}]]
  BY DEF ReduceSourceExclusions
<1>2. ASSUME NEW i \in DOMAIN s
      PROVE  /\ t[i] \in Override /\ t[i].id = s[i].id /\ t[i].add = {}
             /\ t[i].foreign = s[i].foreign /\ t[i].enabled = off(i)
             /\ s[i].id \notin Paused(s) => t[i] = s[i]
  <2>1. s[i] \in Override
    OBVIOUS
  <2>2. off(i) \in Toggle
    BY <2>1 DEF Override, Toggle
  <2>3. s[i].id \notin Paused(s) => off(i) = s[i].enabled /\ s[i].add = {}
    BY DEF Paused
  <2> DEFINE o == s[i]
  <2>4. t[i] = [o EXCEPT !.enabled = off(i), !.add = {}]
    BY <1>1
  <2> HIDE DEF t, off, o
  <2>5. o \in Override /\ (o.id \notin Paused(s) => off(i) = o.enabled /\ o.add = {})
    BY <2>1, <2>3 DEF o
  <2>6. /\ t[i] \in Override /\ t[i].id = o.id /\ t[i].add = {} /\ t[i].foreign = o.foreign
        /\ t[i].enabled = off(i)
    BY <2>2, <2>4, <2>5 DEF Override
  <2>7. o.id \notin Paused(s) => t[i] = o
    BY <2>4, <2>5 DEF Override
  <2> QED
    BY <2>6, <2>7 DEF o
<1>3. DOMAIN t = DOMAIN s /\ t = [i \in DOMAIN s |-> t[i]]
  BY <1>1
<1> HIDE DEF t
<1>4. t \in Seq(Override)
  BY <1>0, <1>2, <1>3, SeqDef
<1>5. Len(t) = Len(s)
  BY <1>0, <1>3, <1>4
<1> QED
  BY <1>2, <1>3, <1>4, <1>5 DEF t

LEMMA ReducedDocument ==
    ASSUME NEW d \in Document
    PROVE  /\ Reduced(d) \in Document /\ NoAdds(Reduced(d))
           /\ Reduced(d).sources = ReduceSourceExclusions(d.sources)
           /\ \A f \in DOMAIN d : f # "sources" => Reduced(d)[f] = d[f]
           /\ \A org : Covers(d, org) => Covers(Reduced(d), org)
<1> DEFINE s == d.sources
           t == ReduceSourceExclusions(s)
<1>0. s \in Seq(Override)
  BY DEF Document
<1>1. Reduced(d) = [d EXCEPT !.sources = t]
  BY DEF Reduced
<1> HIDE DEF s
<1>2. /\ t \in Seq(Override) /\ DOMAIN t = DOMAIN s
      /\ \A i \in DOMAIN s :
           /\ t[i].id = s[i].id /\ t[i].add = {}
           /\ t[i].enabled = IF s[i].id \in Paused(s) THEN "off" ELSE s[i].enabled
  BY <1>0, ReducedEntries
<1> HIDE DEF t
<1>3. /\ Reduced(d) \in Document /\ Reduced(d).sources = t
      /\ \A f \in DOMAIN d : f # "sources" => Reduced(d)[f] = d[f]
  BY <1>1, <1>2, WithSources
<1>4. NoAdds(Reduced(d))
  BY <1>2, <1>3 DEF NoAdds
<1>5. ASSUME NEW org, Covers(d, org) PROVE Covers(Reduced(d), org)
  <2> SUFFICES ASSUME NEW i \in DOMAIN org.sources, org.sources[i].id \in Range(CatalogOrder),
                      org.sources[i].add # {}
               PROVE  LET named == {k \in DOMAIN t : t[k].id = org.sources[i].id}
                      IN  named # {} /\ \A k \in named : t[k].enabled = "off"
    BY <1>3 DEF Covers
  <2> DEFINE o == org.sources[i]
             named == {k \in DOMAIN s : s[k].id = o.id}
  <2>1. \/ \E k \in named : o.add \subseteq s[k].add
        \/ named # {} /\ \A k \in named : s[k].enabled = "off"
    BY <1>5 DEF Covers, s
  <2>2. CASE \E k \in named : o.add \subseteq s[k].add
    <3>1. PICK k \in named : o.add \subseteq s[k].add
      BY <2>2
    <3>2. s[k].add # {} /\ o.id \in Paused(s)
      BY <3>1 DEF Paused
    <3> QED
      BY <1>2, <3>1, <3>2
  <2>3. CASE named # {} /\ \A k \in named : s[k].enabled = "off"
    BY <1>2, <2>3
  <2> QED
    BY <2>1, <2>2, <2>3
<1> QED
  BY <1>3, <1>4, <1>5 DEF t, s

LEMMA ParsedDocument ==
    ASSUME NEW d \in Document, NEW b \in {"new", "old"}
    PROVE  /\ ParseServed(b, d) \in Document
           /\ b = "old" => NoAdds(ParseServed(b, d))
           /\ b = "new" \/ NoAdds(d) => ParseServed(b, d) = d
<1> DEFINE s == d.sources
           t == [i \in DOMAIN s |-> [s[i] EXCEPT !.add = {}]]
<1>0. s \in Seq(Override) /\ DOMAIN s = 1..Len(s) /\ Len(s) \in Nat
  BY DEF Document
<1>1. b = "new" => ParseServed(b, d) = d
  BY DEF ParseServed, EnforcesExclusions
<1>2. CASE b = "old"
  <2>1. ParseServed(b, d) = [d EXCEPT !.sources = t]
    BY <1>2 DEF ParseServed, EnforcesExclusions
  <2> HIDE DEF s
  <2>2. ASSUME NEW i \in DOMAIN s
        PROVE  t[i] \in Override /\ t[i].add = {} /\ (s[i].add = {} => t[i] = s[i])
    <3> DEFINE o == s[i]
    <3>1. o \in Override /\ t[i] = [o EXCEPT !.add = {}]
      BY <1>0
    <3> HIDE DEF o, t
    <3>2. t[i] \in Override /\ t[i].add = {} /\ (o.add = {} => t[i] = o)
      BY <3>1 DEF Override
    <3> QED
      BY <3>2 DEF o
  <2>3. DOMAIN t = DOMAIN s
    OBVIOUS
  <2>4. t \in Seq(Override)
    <3>1. t = [i \in DOMAIN s |-> t[i]]
      OBVIOUS
    <3> HIDE DEF t
    <3> QED
      BY <1>0, <2>2, <3>1, SeqDef
  <2>5. (\A i \in DOMAIN s : s[i].add = {}) => t = s
    <3>1. s = [i \in DOMAIN s |-> s[i]]
      BY <1>0
    <3> QED
      BY <2>2, <2>3, <3>1
  <2> HIDE DEF t
  <2>6. ParseServed(b, d) \in Document /\ ParseServed(b, d).sources = t
    BY <2>1, <2>4, WithSources
  <2>7. NoAdds(ParseServed(b, d))
    BY <2>2, <2>3, <2>6 DEF NoAdds
  <2>8. NoAdds(d) => ParseServed(b, d) = d
    BY <2>1, <2>5 DEF NoAdds, Document, s
  <2> QED
    BY <1>2, <2>6, <2>7, <2>8
<1> QED
  BY <1>1, <1>2

(* What a build is sent covers what the organization wrote. *)
LEMMA SentCovers ==
    ASSUME NEW d \in Document, NEW b \in {"new", "old"}
    PROVE  LET sent == CollectionForBuild(b, d)
           IN  /\ sent \in Document /\ Covers(sent, d) /\ ParseServed(b, sent) = sent
               /\ b = "old" => NoAdds(sent)
               /\ b = "new" => \A j \in DOMAIN sent.sources :
                                  \E i \in DOMAIN d.sources : sent.sources[j] = d.sources[i]
<1> DEFINE sent == CollectionForBuild(b, d)
<1>1. CASE b = "old"
  <2>1. sent = Reduced(d)
    BY <1>1 DEF CollectionForBuild, EnforcesExclusions
  <2>2. Covers(d, d)
    BY DEF Covers
  <2> QED
    BY <1>1, <2>1, <2>2, ReducedDocument, ParsedDocument
<1>2. CASE b = "new"
  <2> DEFINE s == d.sources
             c == Collected(s)
  <2>1. sent = [d EXCEPT !.sources = c]
    BY <1>2 DEF CollectionForBuild, EnforcesExclusions
  <2>2. s \in Seq(Override)
    BY DEF Document
  <2> HIDE DEF s
  <2>3. /\ c \in Seq(Override)
        /\ \A j \in DOMAIN c : \E i \in DOMAIN s : c[j] = s[i]
        /\ \A i \in DOMAIN s : s[i].id \in Range(CatalogOrder) => \E j \in DOMAIN c : c[j] = s[i]
    BY <2>2, CollectedKeeps
  <2> HIDE DEF c
  <2>4. sent \in Document /\ sent.sources = c
    BY <2>1, <2>3, WithSources
  <2>5. ParseServed(b, sent) = sent
    BY <1>2, <2>4, ParsedDocument
  <2>6. Covers(sent, d)
    BY <2>3, <2>4 DEF Covers, s
  <2> QED
    BY <1>2, <2>3, <2>4, <2>5, <2>6 DEF s
<1> QED
  BY <1>1, <1>2

-----------------------------------------------------------------------------
(* When the reduced copy is accepted. *)

(* Layers whose entries for a source agree do the same to it. *)
LEMMA SameFold ==
    ASSUME NEW acc, NEW a, NEW b, a.layer = b.layer, NEW id,
           NEW s \in Seq(Override), s = a.doc.sources, NEW t \in Seq(Override), t = b.doc.sources,
           Len(s) = Len(t), \A i \in 1..Len(s) : t[i].id = s[i].id /\ (s[i].id = id => t[i] = s[i])
    PROVE  FoldLayer(acc, a, id) = FoldLayer(acc, b, id)
<1> DEFINE n == Len(s)
<1>0. n \in Nat
  OBVIOUS
<1>1. PICK f : /\ f[0] = acc
               /\ \A i \in 1..n : f[i] = Step(a, id, f[i - 1], s[i])
               /\ FoldLayer(acc, a, id) = f[n]
  BY FoldLayerSteps
<1>2. PICK g : /\ g[0] = acc
               /\ \A i \in 1..n : g[i] = Step(b, id, g[i - 1], t[i])
               /\ FoldLayer(acc, b, id) = g[n]
  BY FoldLayerSteps
<1>3. \A i \in 1..n : t[i].id = s[i].id /\ (s[i].id = id => t[i] = s[i])
  OBVIOUS
<1> DEFINE M == {i \in 0..n : f[i] = g[i]}
<1> HIDE DEF n
<1>4. 0 \in M
  BY <1>0, <1>1, <1>2
<1>5. ASSUME NEW i \in 1..n, i - 1 \in M PROVE i \in M
  <2>1. f[i - 1] = g[i - 1]
    BY <1>5
  <2>2. Step(a, id, f[i - 1], s[i]) = Step(b, id, g[i - 1], t[i])
    BY <1>3, <2>1 DEF Step
  <2>3. f[i] = g[i]
    BY <1>1, <1>2, <2>2
  <2>4. i \in 0..n
    BY <1>0
  <2> QED
    BY <2>3, <2>4
<1>6. n \in M
  <2> HIDE DEF M
  <2>1. 0..n \subseteq M
    BY <1>0, <1>4, <1>5, StepByStep
  <2> QED
    BY <1>0, <2>1
<1>7. f[n] = g[n]
  BY <1>6
<1> QED
  BY <1>1, <1>2, <1>7

(* An entry that only switches the source off does that, and is never blamed. *)
LEMMA OffApplies ==
    ASSUME NEW acc \in Folded, acc.blame = "none", NEW o \in Override, NEW ld, ld.layer = "remote", NEW id,
           o.id = id => o.add = {} /\ o.enabled = "off" /\ ~o.foreign
    PROVE  LET t == Step(ld, id, acc, o)
           IN  t.blame = "none" /\ t.enabled = IF o.id = id THEN "off" ELSE acc.enabled
<1>1. CASE o.id # id
  BY <1>1 DEF Step
<1>2. CASE o.id = id
  <2>1. BadGlob \notin o.add /\ o.enabled = "off" /\ ~o.foreign /\ "off" # Unset
    BY <1>2 DEF Unset
  <2> DEFINE t == Step(ld, id, acc, o)
  <2>2. /\ t.enabled = Or(o.enabled # Unset, o.enabled, acc.enabled)
        /\ t.blame = Or(o.foreign, ld.layer, "none")
    BY <1>2, <2>1 DEF Step, ApplyOverride, Folded
  <2> HIDE DEF t
  <2>3. t.blame = "none" /\ t.enabled = "off"
    BY <2>1, <2>2 DEF Or
  <2> QED
    BY <1>2, <2>3 DEF t
<1> QED
  BY <1>1, <1>2

LEMMA PausedFold ==
    ASSUME NEW acc \in Folded, acc.blame = "none", NEW ld, Read(ld), ld.layer = "remote", NEW id,
           \A i \in DOMAIN ld.doc.sources : ld.doc.sources[i].id = id =>
              /\ ld.doc.sources[i].add = {} /\ ld.doc.sources[i].enabled = "off"
              /\ ~ld.doc.sources[i].foreign,
           \E i \in DOMAIN ld.doc.sources : ld.doc.sources[i].id = id
    PROVE  FoldLayer(acc, ld, id).blame = "none" /\ FoldLayer(acc, ld, id).enabled = "off"
<1> DEFINE s == ld.doc.sources
           n == Len(s)
<1>0. s \in Seq(Override) /\ n \in Nat /\ DOMAIN s = 1..n
  BY DEF Read, Document
<1>1. PICK f : /\ f[0] = acc
               /\ \A i \in 1..n : f[i] = Step(ld, id, f[i - 1], s[i])
               /\ FoldLayer(acc, ld, id) = f[n]
  <2> HIDE DEF s
  <2> QED
    BY <1>0, FoldLayerSteps, SMTT(30) DEF s
<1>2. \A i \in 1..n : s[i].id = id => s[i].add = {} /\ s[i].enabled = "off" /\ ~s[i].foreign
  BY <1>0
<1>3. PICK m \in 1..n : s[m].id = id
  BY <1>0
<1> DEFINE P(i) == /\ f[i] \in Folded /\ f[i].blame = "none"
                   /\ \A k \in 1..i : s[k].id = id => f[i].enabled = "off"
           M == {i \in 0..n : P(i)}
<1> HIDE DEF s, n
<1>4. P(0)
  <2>1. \A k \in 1..0 : FALSE
    OBVIOUS
  <2> QED
    BY <1>1, <2>1
<1>5. ASSUME NEW i \in 1..n, P(i - 1) PROVE P(i)
  <2>1. s[i] \in Override /\ \A k \in 1..i : k = i \/ k \in 1..(i - 1)
    BY <1>0
  <2>2. f[i] = Step(ld, id, f[i - 1], s[i]) /\ f[i - 1] \in Folded /\ f[i - 1].blame = "none"
    BY <1>1, <1>5
  <2>3. f[i] \in Folded
    BY <2>1, <2>2, StepFolded
  <2>4. f[i].blame = "none" /\ f[i].enabled = IF s[i].id = id THEN "off" ELSE f[i - 1].enabled
    BY <1>2, <2>1, <2>2, OffApplies
  <2>5. \A k \in 1..i : s[k].id = id => f[i].enabled = "off"
    BY <1>5, <2>1, <2>4
  <2> QED
    BY <2>3, <2>4, <2>5
<1>6. P(n)
  <2> HIDE DEF P
  <2>1. 0 \in M /\ \A i \in 1..n : i - 1 \in M => i \in M
    BY <1>0, <1>4, <1>5
  <2> HIDE DEF M
  <2>2. 0..n \subseteq M
    BY <1>0, <2>1, StepByStep
  <2> QED
    BY <1>0, <2>2 DEF M
<1>7. f[n].blame = "none" /\ f[n].enabled = "off"
  BY <1>3, <1>6
<1> QED
  BY <1>1, <1>7

(* A document's checks pass on its reduced copy too, unless a paused source has an entry with an
   enricher the catalog does not attach. *)
LEMMA ReducedIsClean ==
    ASSUME NEW u \in Document, NEW d \in Document, NEW p, Clean(u, d, p),
           \A i \in DOMAIN d.sources : d.sources[i].id \in Paused(d.sources) => ~d.sources[i].foreign
    PROVE  Clean(u, Reduced(d), p)
<1> DEFINE e == Reduced(d)
           s == d.sources
           t == e.sources
<1>0. s \in Seq(Override) /\ DOMAIN s = 1..Len(s)
  BY DEF Document
<1>1. /\ e \in Document /\ t = ReduceSourceExclusions(s)
      /\ \A f \in DOMAIN d : f # "sources" => e[f] = d[f]
  BY ReducedDocument
<1>2. /\ t \in Seq(Override) /\ DOMAIN t = DOMAIN s /\ Len(t) = Len(s)
      /\ \A i \in DOMAIN s :
           /\ t[i].id = s[i].id /\ t[i].add = {} /\ t[i].foreign = s[i].foreign
           /\ t[i].enabled = IF s[i].id \in Paused(s) THEN "off" ELSE s[i].enabled
           /\ s[i].id \notin Paused(s) => t[i] = s[i]
  <2> HIDE DEF s, t
  <2> QED
    BY <1>0, <1>1, ReducedEntries
<1> HIDE DEF e
<1>3. /\ e.envelope = d.envelope /\ e.version = d.version /\ e.deadline = d.deadline
      /\ e.autoupdate = d.autoupdate /\ e.telemetry = d.telemetry /\ e.stateDir = d.stateDir
      /\ e.targets = d.targets /\ e.packs = d.packs /\ e.recipients = d.recipients
      /\ e.install = d.install
  BY <1>1 DEF Document
<1>4. /\ DOMAIN Layers(u, d) = {1, 2} /\ Layers(u, d)[1] = Layer("user", u)
      /\ Layers(u, d)[2] = Layer("remote", d)
      /\ DOMAIN Layers(u, e) = {1, 2} /\ Layers(u, e)[1] = Layer("user", u)
      /\ Layers(u, e)[2] = Layer("remote", e)
  BY <1>1, TwoLayers
<1>5. \A i \in DOMAIN Layers(u, e) : ~DocumentRefused(CatalogOrder, Layers(u, e)[i])
  <2>1. ~DocumentRefused(CatalogOrder, Layer("user", u))
    BY <1>4 DEF Clean
  <2>2. ~DocumentRefused(CatalogOrder, Layer("remote", d))
    BY <1>4 DEF Clean
  <2>3. ~DocumentRefused(CatalogOrder, Layer("remote", e))
    BY <1>2, <1>3, <2>2 DEF DocumentRefused, Layer, IsLocal
  <2> QED
    BY <1>4, <2>1, <2>3
<1>6. Enforceable(Merge(CatalogOrder, u, e, p))
  <2> DEFINE x == Merge(CatalogOrder, u, d, p)
             y == Merge(CatalogOrder, u, e, p)
  <2>1. FieldsOf(x, u, d, p) /\ FieldsOf(y, u, e, p)
    BY <1>1, MergeFields
  <2>2. \A f, default : /\ Merged(Layers(u, d), f, default) = Stated(d[f], Stated(u[f], default))
                        /\ Merged(Layers(u, e), f, default) = Stated(e[f], Stated(u[f], default))
    BY <1>1, MergedField, NoDocIsNone
  <2>3. Enforceable(x)
    BY DEF Clean
  <2> HIDE DEF x, y
  <2>4. x.version = y.version /\ x.targets = y.targets /\ x.install = y.install
    BY <1>3, <2>1, <2>2 DEF FieldsOf
  <2>5. x.packs = y.packs /\ x.recipients = y.recipients
    BY <1>1, <1>3, <2>1, NoDocIsNone DEF FieldsOf, Union
  <2>6. Enforceable(y)
    BY <2>3, <2>4, <2>5 DEF Enforceable, CheckEncryption
  <2> QED
    BY <2>6 DEF y
<1>7. ASSUME NEW id \in Range(CatalogOrder)
      PROVE  /\ FoldedSource(Layers(u, e), id).blame = "none"
             /\ ~PickRefusal(FoldedSource(Layers(u, e), id), p).bad
  <2>1. /\ FoldedSource(Layers(u, d), id).blame = "none"
        /\ ~PickRefusal(FoldedSource(Layers(u, d), id), p).bad
    BY DEF Clean
  <2>2. /\ FoldedSource(Layers(u, d), id) = FoldLayer(Own(u, id), Layer("remote", d), id)
        /\ FoldedSource(Layers(u, e), id) = FoldLayer(Own(u, id), Layer("remote", e), id)
    BY <1>1, BothSource
  <2>3. Own(u, id) \in Folded /\ Own(u, id).blame = "none"
    BY <2>1, OwnSource, OwnerKeepsSource
  <2>4. /\ Layer("remote", e).layer = "remote" /\ Layer("remote", e).doc = e
        /\ Layer("remote", d).layer = "remote" /\ Layer("remote", d).doc = d
        /\ Read(Layer("remote", e))
    BY <1>1 DEF Layer, Read
  <2>5. CASE id \notin Paused(s)
    <3>1. \A i \in 1..Len(s) : t[i].id = s[i].id /\ (s[i].id = id => t[i] = s[i])
      BY <1>0, <1>2, <2>5
    <3>2. FoldLayer(Own(u, id), Layer("remote", d), id) = FoldLayer(Own(u, id), Layer("remote", e), id)
      BY <1>0, <1>2, <2>4, <3>1, SameFold, SMTT(30)
    <3> QED
      BY <2>1, <2>2, <3>2
  <2>6. CASE id \in Paused(s)
    <3>1. \A i \in DOMAIN t : t[i].id = id => t[i].add = {} /\ t[i].enabled = "off" /\ ~t[i].foreign
      BY <1>2, <2>6
    <3>2. \E i \in DOMAIN t : t[i].id = id
      BY <1>2, <2>6 DEF Paused
    <3>3. /\ FoldLayer(Own(u, id), Layer("remote", e), id).blame = "none"
          /\ FoldLayer(Own(u, id), Layer("remote", e), id).enabled = "off"
      BY <2>3, <2>4, <3>1, <3>2, PausedFold, SMTT(30)
    <3> QED
      BY <2>2, <3>3 DEF PickRefusal, RootRefusal
  <2> QED
    BY <2>5, <2>6
<1> QED
  BY <1>5, <1>6, <1>7 DEF Clean, e

-----------------------------------------------------------------------------
(* What a start may put in force. *)

Process ==
    [state : {"down", "up", "fatal"}, eff : Config \cup {NoDoc}, user : Document,
     org : Document \cup {NoDoc}, origin : {"none", "fetched", "cached"}]

Held(q) ==
    /\ q \in Process /\ (q.state = "up" <=> q.eff # NoDoc)
    /\ q.state = "up" =>
         /\ SoundIn(q.eff) /\ KeptIn(q.eff, q.user)
         /\ q.org # NoDoc => ExcludedIn(q.eff, q.org)

LEMMA NoDocIsNoConfig == \A eff \in Config : eff # NoDoc
<1>1. DOMAIN NoDoc = {"absent"} /\ "absent" # "version"
  BY DEF NoDoc
<1>2. \A eff \in Config : "version" \in DOMAIN eff
  BY DEF Config
<1> QED
  BY <1>1, <1>2

LEMMA EmptyIsDocument == EmptyDoc \in Document /\ [EmptyDoc EXCEPT !.envelope = TRUE] \in Document
<1>1. <<>> \in Seq(Override) /\ Unset \in Optional /\ Unset \in Toggle
  BY DEF Optional, Toggle
<1>2. EmptyDoc \in Document
  BY <1>1 DEF EmptyDoc, Document
<1>3. [EmptyDoc EXCEPT !.envelope = TRUE] \in Document
  <2> HIDE DEF Document
  <2>1. \A d \in Document : [d EXCEPT !.envelope = TRUE] \in Document
    BY DEF Document
  <2> QED
    BY <1>2, <2>1
<1> QED
  BY <1>2, <1>3

LEMMA DownHeld == Held(Down) /\ Held([Down EXCEPT !.state = "fatal"])
BY EmptyIsDocument DEF Held, Down, Process

LEMMA StartedHeld ==
    ASSUME NEW u \in Document, NEW r \in Document \cup {NoDoc}, NEW p, NEW org \in Document \cup {NoDoc},
           NEW origin \in {"none", "fetched", "cached"},
           org # NoDoc => r # NoDoc /\ Covers(r, org),
           Resolve(CatalogOrder, u, r, p).blame = "none"
    PROVE  Held(Started(Resolve(CatalogOrder, u, r, p), u, org, origin))
<1> DEFINE eff == Merge(CatalogOrder, u, r, p)
           res == Resolve(CatalogOrder, u, r, p)
<1>1. res.eff = eff /\ Clean(u, r, p)
  BY ResolveIsClean
<1>2. eff \in Config /\ SoundIn(eff) /\ KeptIn(eff, u)
  BY <1>1, MergeTyped, CleanIsSound, CleanIsKept
<1>3. org # NoDoc => ExcludedIn(eff, org)
  BY <1>1, CleanIsExcluded
<1>4. Started(res, u, org, origin) =
        [state |-> "up", eff |-> eff, user |-> u, org |-> org, origin |-> origin]
  BY <1>1 DEF Started
<1> HIDE DEF eff, res
<1>5. eff # NoDoc
  BY <1>2, NoDocIsNoConfig
<1>6. Held([state |-> "up", eff |-> eff, user |-> u, org |-> org, origin |-> origin])
  BY <1>2, <1>3, <1>5 DEF Held, Process
<1> QED
  BY <1>4, <1>6 DEF res

(* The cached copies hold the organization's exclusions, the compatible one by pausing. *)
Covered(c) ==
    \/ c = NoCache
    \/ /\ c.config \in Document /\ c.full \in Document \cup {NoDoc} /\ c.org \in Document
       /\ NoAdds(c.config) /\ Covers(c.config, c.org)
       /\ c.full # NoDoc => Covers(c.full, c.org)

LEMMA SavedIsCovered ==
    ASSUME NEW d \in Document, NEW org \in Document, Covers(d, org), NEW oversize \in BOOLEAN
    PROVE  LET c == SaveCache(d, org, oversize)
           IN  Covered(c) /\ c.config # NoDoc /\ c.org = org
<1> DEFINE c == SaveCache(d, org, oversize)
<1>1. CASE Paused(d.sources) = {}
  <2>1. c = [config |-> d, full |-> NoDoc, org |-> org]
    BY <1>1 DEF SaveCache
  <2>2. NoAdds(d)
    BY <1>1 DEF NoAdds, Paused
  <2> QED
    BY <2>1, <2>2, NoDocIsNone DEF Covered
<1>2. CASE Paused(d.sources) # {}
  <2>1. c = [config |-> Reduced(d), full |-> IF oversize THEN NoDoc ELSE d, org |-> org]
    BY <1>2 DEF SaveCache
  <2>2. Reduced(d) \in Document /\ NoAdds(Reduced(d)) /\ Covers(Reduced(d), org)
    BY ReducedDocument
  <2> QED
    BY <2>1, <2>2, NoDocIsNone DEF Covered
<1> QED
  BY <1>1, <1>2

LEMMA LocalOnlyHeld ==
    ASSUME NEW u \in Document
    PROVE  Held(LocalOnly(u))
<1> DEFINE res == Resolve(CatalogOrder, u, NoDoc, present)
<1>1. CASE res.blame = "none"
  <2>1. Held(Started(res, u, NoDoc, "none"))
    BY <1>1, StartedHeld
  <2> QED
    BY <1>1, <2>1 DEF LocalOnly, LocalOutcome
<1>2. CASE res.blame # "none"
  BY <1>2, DownHeld DEF LocalOnly, LocalOutcome
<1> QED
  BY <1>1, <1>2

(* What the build makes of either copy of the cache. *)
LEMMA CopiesCover ==
    ASSUME build \in {"new", "old"}, Covered(cache), cache # NoCache
    PROVE  \A d \in {CachedDocument(cache), cache.config} :
              ParseServed(build, d) \in Document /\ Covers(ParseServed(build, d), cache.org)
<1>1. /\ cache.config \in Document /\ NoAdds(cache.config) /\ Covers(cache.config, cache.org)
      /\ cache.full \in Document \cup {NoDoc} /\ (cache.full # NoDoc => Covers(cache.full, cache.org))
  BY DEF Covered
<1>2. ParseServed(build, cache.config) = cache.config
  BY <1>1, ParsedDocument
<1>3. CASE CachedDocument(cache) = cache.config
  BY <1>1, <1>2, <1>3
<1>4. CASE CachedDocument(cache) # cache.config
  <2>1. CachedDocument(cache) = cache.full /\ cache.full # NoDoc /\ build = "new"
    BY <1>4 DEF CachedDocument, EnforcesExclusions
  <2>2. ParseServed(build, cache.full) = cache.full
    BY <1>1, <2>1, ParsedDocument
  <2> QED
    BY <1>1, <1>2, <2>1, <2>2
<1> QED
  BY <1>3, <1>4

LEMMA FromCacheHeld ==
    ASSUME user \in Document, build \in {"new", "old"}, Covered(cache)
    PROVE  Held(FromCache)
<1>1. CASE cache = NoCache
  BY <1>1, LocalOnlyHeld DEF FromCache
<1>2. CASE cache # NoCache
  <2> DEFINE res == Retried(Validate(CachedDocument(cache)))
  <2>1. PICK d \in {CachedDocument(cache), cache.config} : res = Validate(d)
    BY DEF Retried
  <2>2. ParseServed(build, d) \in Document /\ Covers(ParseServed(build, d), cache.org)
    BY <1>2, <2>1, CopiesCover
  <2>3. cache.org \in Document
    BY <1>2 DEF Covered
  <2>4. res = Resolve(CatalogOrder, user, ParseServed(build, d), present)
    BY <2>1 DEF Validate
  <2> HIDE DEF res
  <2>5. FromCache = CachedOutcome(res)
    BY <1>2 DEF FromCache, res
  <2>6. CASE res.blame = "none"
    <3>1. Held(Started(res, user, cache.org, "cached"))
      BY <2>2, <2>3, <2>4, <2>6, StartedHeld, NoDocIsNone
    <3> QED
      BY <2>5, <2>6, <3>1 DEF CachedOutcome
  <2>7. CASE res.blame # "none"
    BY <2>5, <2>7, DownHeld, LocalOnlyHeld DEF CachedOutcome
  <2> QED
    BY <2>6, <2>7
<1> QED
  BY <1>1, <1>2

-----------------------------------------------------------------------------
(* The inductive invariant. *)

(* The cache is that of a document the machine's present inputs accepted. *)
Accepted(c, u, b, p) ==
    LET sent == CollectionForBuild(b, c.org)
    IN  /\ u # Unreadable /\ c # NoCache
        /\ Clean(u, sent, p)
        /\ \E oversize \in BOOLEAN : c = SaveCache(sent, c.org, oversize)

IndInv ==
    /\ TypeOK
    /\ user \in Document \cup {Unreadable} /\ served \in Document
    /\ edits \in [user : Nat, served : Nat]
    /\ Covered(cache) /\ Held(proc)
    /\ since => Accepted(cache, user, build, present) /\ ~Unparseable(build, user)

LEMMA UnreadableIsNoDocument == \A d \in Document : d # Unreadable
<1>1. DOMAIN Unreadable = {"unreadable"} /\ "unreadable" # "envelope"
  BY DEF Unreadable
<1>2. \A d \in Document : "envelope" \in DOMAIN d
  BY DEF Document
<1> QED
  BY <1>1, <1>2

(* An edited document is one. *)
LEMMA EditedDocument ==
    ASSUME NEW d \in Document, NEW e \in Document
    PROVE  Edited(d, e) \in Document
<1> DEFINE g == Edited(d, e)
<1>1. DOMAIN g = DOMAIN d
  BY DEF Edited
<1>2. g = [f \in DOMAIN d |-> g[f]]
  BY DEF Edited
<1>3. \A f \in DOMAIN d : f # "sources" => g[f] = d[f] \/ g[f] = e[f]
  BY DEF Edited
<1>4. g["sources"] = d.sources \o e.sources
  BY DEF Edited, Document
<1>5. g["sources"] \in Seq(Override)
  <2>1. d.sources \in Seq(Override) /\ e.sources \in Seq(Override)
    BY DEF Document
  <2> QED
    BY <1>4, <2>1, ConcatProperties
<1> HIDE DEF g
<1>6. DOMAIN d = {"envelope", "version", "deadline", "autoupdate", "telemetry", "stateDir", "targets",
                  "packs", "recipients", "install", "sources"}
  BY DEF Document
<1>7. /\ g.envelope \in BOOLEAN /\ g.version \in {Unset, "accepted", "refused"}
      /\ g.deadline \in Optional /\ g.autoupdate \in Toggle /\ g.telemetry \in Optional
      /\ g.stateDir \in Optional /\ g.targets \in Optional
  BY <1>3, <1>6 DEF Document
<1>8. g.packs \in SUBSET STRING /\ g.recipients \in SUBSET STRING /\ g.install \in Toggle
  BY <1>3, <1>6 DEF Document
<1>9. g \in Document
  BY <1>2, <1>5, <1>6, <1>7, <1>8 DEF Document
<1> QED
  BY <1>9 DEF g

LEMMA InitHolds == Init => IndInv
<1> SUFFICES ASSUME Init PROVE IndInv
  OBVIOUS
<1>1. TypeOK
  <2>1. Down.state = "down" /\ Down.eff = NoDoc /\ Down.origin = "none"
    BY DEF Down
  <2>2. edits.user = 0 /\ edits.served = 0 /\ moves = 0
    BY DEF Init
  <2>3. 0 \in 0..MaxUserEdits /\ 0 \in 0..MaxServedEdits /\ 0 \in 0..MaxMoves
    BY EditAssumption
  <2>4. present \subseteq Places
    BY EditAssumption DEF Init
  <2>5. proc = Down /\ cache = NoCache /\ build = "new" /\ since = FALSE
    BY DEF Init
  <2> QED
    BY <2>1, <2>2, <2>3, <2>4, <2>5 DEF TypeOK
<1>2. user \in Document \cup {Unreadable} /\ served \in Document
  BY EmptyIsDocument DEF Init
<1>3. edits \in [user : Nat, served : Nat]
  BY DEF Init
<1>4. Covered(cache) /\ Held(proc)
  BY DownHeld DEF Init, Covered
<1> QED
  BY <1>1, <1>2, <1>3, <1>4 DEF Init, IndInv

(* A process that starts, or does not, changes nothing but itself and, after a fetch, the cache. *)
LEMMA StartKeeps == IndInv /\ Start => IndInv'
<1> SUFFICES ASSUME IndInv, Start PROVE IndInv'
  OBVIOUS
<1> USE DEF IndInv
<1>1. build \in {"new", "old"}
  BY DEF TypeOK
<1>2. Readable => user \in Document
  BY DEF Readable, UserReadable
<1>3. \A q : Held(q) => q.state \in {"down", "up", "fatal"} /\ q.origin \in {"none", "fetched", "cached"}
                        /\ (q.state = "up" <=> q.eff # NoDoc)
  BY DEF Held, Process
<1>4. CASE UNCHANGED <<user, served, cache, build, present, since, edits, moves>> /\ Held(proc')
  BY <1>3, <1>4 DEF TypeOK
<1>5. CASE StartRefused
  BY <1>4, <1>5, DownHeld DEF StartRefused
<1>6. CASE StartLocalRejected
  BY <1>4, <1>6, DownHeld DEF StartLocalRejected
<1>7. CASE StartFallback
  <2>1. Held(FromCache)
    BY <1>1, <1>2, <1>7, FromCacheHeld DEF StartFallback
  <2> QED
    BY <1>4, <1>7, <2>1 DEF StartFallback
<1>8. CASE StartFetched
  <2> DEFINE res == Validate(Fetched)
  <2>1. /\ Readable /\ res.blame = "none" /\ since' = TRUE
        /\ proc' = Started(res, user, served, "fetched")
        /\ UNCHANGED <<user, served, build, present, edits, moves>>
        /\ \E oversize \in BOOLEAN : cache' = SaveCache(ParseServed(build, Fetched), served, oversize)
    BY <1>8 DEF StartFetched, StartFetchedWith
  <2>2. user \in Document
    BY <1>2, <2>1
  <2>3. /\ Fetched \in Document /\ Covers(Fetched, served) /\ ParseServed(build, Fetched) = Fetched
    BY <1>1, SentCovers DEF Fetched
  <2>4. PICK oversize \in BOOLEAN : cache' = SaveCache(Fetched, served, oversize)
    BY <2>1, <2>3
  <2>5. Covered(cache') /\ cache'.config # NoDoc /\ cache'.org = served
    BY <2>3, <2>4, SavedIsCovered
  <2>6. res = Resolve(CatalogOrder, user, Fetched, present)
    BY <2>3 DEF Validate
  <2> HIDE DEF res
  <2>7. Held(proc')
    BY <2>1, <2>2, <2>3, <2>6, StartedHeld, NoDocIsNone
  <2>8. TypeOK'
    BY <1>3, <2>1, <2>5, <2>7 DEF TypeOK
  <2>9. Accepted(cache', user, build, present)
    <3>1. Clean(user, Fetched, present)
      BY <2>1, <2>2, <2>3, <2>6, ResolveIsClean
    <3>2. user # Unreadable
      BY <2>2, UnreadableIsNoDocument
    <3>3. cache' # NoCache
      BY <2>5 DEF NoCache
    <3>4. Fetched = CollectionForBuild(build, cache'.org)
      BY <2>5 DEF Fetched
    <3> QED
      BY <2>4, <2>5, <3>1, <3>2, <3>3, <3>4 DEF Accepted
  <2>10. ~Unparseable(build, user)
    BY <2>1 DEF Readable
  <2> QED
    BY <2>1, <2>5, <2>7, <2>8, <2>9, <2>10
<1> QED
  BY <1>5, <1>6, <1>7, <1>8 DEF Start

(* A tick's process holds the configuration it held, but for roots that had not resolved. *)
LEMMA TickHeld ==
    ASSUME Held(proc), Tick
    PROVE  Held(proc')
<1> DEFINE new == RefreshAbsentRoots(proc.eff, present)
<1>1. proc.state = "up" /\ proc' = [proc EXCEPT !.eff = new]
  BY DEF Tick
<1>2. proc \in Process /\ proc.eff \in Config /\ SoundIn(proc.eff) /\ KeptIn(proc.eff, proc.user)
      /\ (proc.org # NoDoc => ExcludedIn(proc.eff, proc.org))
  BY <1>1 DEF Held, Process
<1> HIDE DEF new
<1>3. /\ new \in Config /\ SoundIn(new) /\ KeptIn(new, proc.user)
      /\ proc.org # NoDoc => ExcludedIn(new, proc.org)
  BY <1>2, RefreshKeeps DEF new
<1>4. /\ proc' \in Process /\ proc'.eff = new /\ proc'.state = "up" /\ proc'.user = proc.user
      /\ proc'.org = proc.org
  BY <1>1, <1>2, <1>3 DEF Process
<1>5. Held(proc')
  BY <1>3, <1>4, NoDocIsNoConfig DEF Held
<1> QED
  BY <1>3, <1>4, <1>5

LEMMA TickKeeps == IndInv /\ Tick => IndInv'
<1> SUFFICES ASSUME IndInv, Tick PROVE IndInv'
  OBVIOUS
<1>1. Held(proc')
  BY TickHeld DEF IndInv
<1>2. /\ proc'.state \in {"down", "up", "fatal"} /\ proc'.origin \in {"none", "fetched", "cached"}
      /\ (proc'.state = "up" <=> proc'.eff # NoDoc)
  BY <1>1 DEF Held, Process
<1> QED
  BY <1>1, <1>2 DEF IndInv, Tick, TypeOK

(* What happens around the process. *)
LEMMA WorldKeeps == IndInv /\ (EditUser \/ RepairUser \/ EditServed \/ ChangeBuild \/ MoveRoot) => IndInv'
<1> SUFFICES ASSUME IndInv, EditUser \/ RepairUser \/ EditServed \/ ChangeBuild \/ MoveRoot PROVE IndInv'
  OBVIOUS
<1> USE DEF IndInv
<1>1. CASE EditUser
  <2>1. user' \in Document \cup {Unreadable}
    BY <1>1, EditedDocument, EditAssumption DEF EditUser
  <2>2. edits' \in [user : Nat, served : Nat] /\ edits'.user \in 0..MaxUserEdits
        /\ edits'.served = edits.served
    BY <1>1, EditAssumption DEF EditUser, TypeOK
  <2> QED
    BY <1>1, <2>1, <2>2 DEF EditUser, TypeOK
<1>2. CASE RepairUser
  BY <1>2, EmptyIsDocument DEF RepairUser, TypeOK
<1>3. CASE EditServed
  <2>1. served' \in Document
    BY <1>3, EditedDocument, EditAssumption DEF EditServed
  <2>2. edits' \in [user : Nat, served : Nat] /\ edits'.served \in 0..MaxServedEdits
        /\ edits'.user = edits.user
    BY <1>3, EditAssumption DEF EditServed, TypeOK
  <2> QED
    BY <1>3, <2>1, <2>2 DEF EditServed, TypeOK
<1>4. CASE ChangeBuild
  <2>1. Down.state = "down" /\ Down.eff = NoDoc /\ Down.origin = "none"
    BY DEF Down
  <2>2. moves' \in 0..MaxMoves
    BY <1>4, EditAssumption DEF ChangeBuild, TypeOK
  <2> QED
    BY <1>4, <2>1, <2>2, DownHeld DEF ChangeBuild, TypeOK
<1>5. CASE MoveRoot
  <2>1. moves' \in 0..MaxMoves
    BY <1>5, EditAssumption DEF MoveRoot, TypeOK
  <2>2. present' \subseteq Places
    BY <1>5 DEF MoveRoot, TypeOK
  <2> QED
    BY <1>5, <2>1, <2>2 DEF MoveRoot, TypeOK
<1> QED
  BY <1>1, <1>2, <1>3, <1>4, <1>5

(* Every reachable state satisfies the inductive invariant. *)
THEOREM ConfigInductive == Spec => []IndInv
<1>1. IndInv /\ [Next]_vars => IndInv'
  <2> SUFFICES ASSUME IndInv, [Next]_vars PROVE IndInv'
    OBVIOUS
  <2>1. CASE Next
    BY <2>1, StartKeeps, TickKeeps, WorldKeeps DEF Next
  <2>2. CASE UNCHANGED vars
    BY <2>2 DEF vars, IndInv, TypeOK
  <2> QED
    BY <2>1, <2>2
<1> QED
  BY InitHolds, <1>1, PTL DEF Spec

(* Whatever is in force was accepted by every check, keeps the owner's reservations and the
   organization's exclusions (config/resolve.go, controlplane/cache.go, fleet-manager catalog.go). *)
THEOREM InForceAlwaysLawful == Spec => []InForceIsLawful
<1>1. IndInv => InForceIsLawful
  <2> SUFFICES ASSUME IndInv PROVE InForceIsLawful
    OBVIOUS
  <2>1. proc.state = "up" =>
          /\ SoundIn(proc.eff) /\ KeptIn(proc.eff, proc.user)
          /\ proc.org # NoDoc => ExcludedIn(proc.eff, proc.org)
    BY DEF IndInv, Held
  <2>2. InForceIsSound
    BY <2>1 DEF InForceIsSound, Running, SoundIn
  <2>3. OwnerKeepsControl
    BY <2>1 DEF OwnerKeepsControl, Running, KeptIn, SourcesKept, FieldsKept, Own
  <2>4. ExclusionsHold
    BY <2>1 DEF ExclusionsHold, Running, ExcludedIn
  <2> QED
    BY <2>2, <2>3, <2>4 DEF InForceIsLawful, IndInv
<1> QED
  BY ConfigInductive, <1>1, PTL

(* A start that cannot use the service runs under the cached document, or its reduced copy, as long
   as nothing the resolution reads has changed since it was cached (controlplane/cache.go, app/resolve.go). *)
THEOREM WorkingLayerAlwaysKept == Spec => []WorkingLayerKept
<1>1. IndInv => WorkingLayerKept
  <2> SUFFICES ASSUME IndInv, since, ~ReducedIsStricter PROVE CachedLayerKept
    BY DEF WorkingLayerKept
  <2> DEFINE sent == CollectionForBuild(build, cache.org)
  <2>1. /\ user # Unreadable /\ cache # NoCache /\ Clean(user, sent, present)
        /\ build \in {"new", "old"} /\ user \in Document /\ Covered(cache)
    BY DEF IndInv, Accepted, TypeOK
  <2>2. cache.org \in Document
    BY <2>1 DEF Covered
  <2>3. PICK oversize \in BOOLEAN : cache = SaveCache(sent, cache.org, oversize)
    BY DEF IndInv, Accepted
  <2>4. /\ sent \in Document /\ ParseServed(build, sent) = sent /\ (build = "old" => NoAdds(sent))
        /\ build = "new" => \A j \in DOMAIN sent.sources :
                              \E i \in DOMAIN cache.org.sources : sent.sources[j] = cache.org.sources[i]
    BY <2>1, <2>2, SentCovers
  <2> HIDE DEF sent
  <2>5. ASSUME NEW d \in Document, CachedDocument(cache) = d, ParseServed(build, d) = d, Clean(user, d, present)
        PROVE  CachedLayerKept
    <3>1. Validate(CachedDocument(cache)).blame = "none"
      BY <2>1, <2>5, ResolveIsClean DEF Validate
    <3>2. FromCache = Started(Validate(CachedDocument(cache)), user, cache.org, "cached")
      BY <2>1, <3>1 DEF FromCache, Retried, RemoteRejection, CachedOutcome
    <3> QED
      BY <3>2 DEF CachedLayerKept, Started
  <2>6. CASE Paused(sent.sources) = {}
    <3>1. cache.config = sent /\ cache.full = NoDoc
      BY <2>3, <2>6 DEF SaveCache
    <3>2. CachedDocument(cache) = sent
      BY <3>1 DEF CachedDocument
    <3> QED
      BY <2>1, <2>4, <2>5, <3>2
  <2>7. CASE Paused(sent.sources) # {}
    <3>1. build = "new"
      BY <2>1, <2>4, <2>7 DEF NoAdds, Paused
    <3>2. cache.config = Reduced(sent) /\ cache.full = IF oversize THEN NoDoc ELSE sent
      BY <2>3, <2>7 DEF SaveCache
    <3>3. CASE cache.full # NoDoc
      <4>1. CachedDocument(cache) = sent
        BY <3>1, <3>2, <3>3 DEF CachedDocument, EnforcesExclusions
      <4> QED
        BY <2>1, <2>4, <2>5, <4>1
    <3>4. CASE cache.full = NoDoc
      <4>1. CachedDocument(cache) = Reduced(sent)
        BY <3>2, <3>4 DEF CachedDocument
      <4>2. \A i \in DOMAIN sent.sources :
               sent.sources[i].id \in Paused(sent.sources) => ~sent.sources[i].foreign
        <5>1. Paused(sent.sources) \subseteq Paused(cache.org.sources)
          BY <2>4, <3>1 DEF Paused
        <5>2. \A i \in DOMAIN cache.org.sources :
                ~(cache.org.sources[i].foreign /\ cache.org.sources[i].id \in Paused(cache.org.sources))
          BY <3>1, <3>4 DEF ReducedIsStricter, EnforcesExclusions
        <5> QED
          BY <2>4, <3>1, <5>1, <5>2
      <4>3. Clean(user, Reduced(sent), present)
        BY <2>1, <2>4, <4>2, ReducedIsClean
      <4>4. Reduced(sent) \in Document /\ ParseServed(build, Reduced(sent)) = Reduced(sent)
        BY <2>1, <2>4, ReducedDocument, ParsedDocument
      <4> QED
        BY <2>5, <4>1, <4>3, <4>4
    <3> QED
      BY <3>3, <3>4
  <2> QED
    BY <2>6, <2>7
<1> QED
  BY ConfigInductive, <1>1, PTL
=============================================================================
