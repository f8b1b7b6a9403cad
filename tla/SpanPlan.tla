------------------------------ MODULE SpanPlan ------------------------------
(***************************************************************************)
(* What redaction does to one string (transforms/scrub.go, matcher.go,     *)
(* heuristic.go): the spans of pattern rules on the value and on its       *)
(* escape shadow, the entropy runs, and the plan they are resolved into.   *)
(* A byte is one of four letters: "bs" the backslash, "n" a letter that is *)
(* also an escape, "d" another letter, "-" a byte of the entropy alphabet  *)
(* that is no letter.  What the rules of a pack match is not computed: it  *)
(* is any span.  A run's entropy is reduced to its distinct letters, the   *)
(* code's own floor.  Positions count from 0 and a span ends before its    *)
(* end.                                                                    *)
(***************************************************************************)
EXTENDS Naturals, Sequences, FiniteSets, SequencesExt

CONSTANTS ValueLength,    \* bytes of a value, the most
          Floors          \* entropy floors: distinct letters a run needs

VARIABLES stage,          \* of this value: "given" or "planned"
          value,          \* the decoded string
          found,          \* what the rules matched: direct and shadow spans, the floor, a base64 hit
          plan            \* the valuePlan

planVars == <<stage, value, found, plan>>

Bytes == {"bs", "n", "d", "-"}
IsAlnumByte(b) == b \in {"n", "d"}
IsCandidateByte(b) == b \in {"n", "d", "-"}
Username == <<"n", "d">>
MinRun == 2
Base64MinLength == 2
NoEntropy == 5            \* no floor: the field is exempt or the text is raw

Values == UNION {[1..k -> Bytes] : k \in 0..ValueLength}
Span(start, end, rule) == [start |-> start, end |-> end, rule |-> rule]
SpansOf(rule) == {Span(s, e, rule) : s \in 0..Len(value), e \in 1..Len(value)}
AnySpan(rule) == {sp \in SpansOf(rule) : sp.start < sp.end}
NoPlan == [spans |-> <<>>, redacted |-> 0, hits |-> <<>>]
Nothing == [direct |-> <<>>, shadow |-> <<>>, floor |-> NoEntropy, base64 |-> FALSE]
Part(s, start, end) == SubSeq(s, start + 1, end)

-----------------------------------------------------------------------------
(* entropyMatcher *)

Clears(s, floor) == Cardinality(Range(s)) >= floor

(* containsDelimited, for the username. *)
SkipsCandidate(s) ==
    \E i \in 0..Len(s) - 2 :
        /\ Part(s, i, i + 2) = Username
        /\ i = 0 \/ ~IsAlnumByte(s[i])
        /\ i + 2 = Len(s) \/ ~IsAlnumByte(s[i + 3])

(* The words of a skipped run that clear by themselves. *)
ClearingWords(s, start, end, floor) ==
    {w \in (start..end - 1) \X (start + 1..end) :
        /\ w[1] + MinRun <= w[2]
        /\ \A k \in w[1]..w[2] - 1 : IsAlnumByte(s[k + 1])
        /\ w[1] = start \/ ~IsAlnumByte(s[w[1]])
        /\ w[2] = end \/ ~IsAlnumByte(s[w[2] + 1])
        /\ Clears(Part(s, w[1], w[2]), floor)}

RECURSIVE ProbedFrom(_, _, _)

(* Mutant: a run starts where the grid meets it. *)
RunStartAtGrid(s, p, scanned) == p

(* Where the run over grid point p starts, no earlier than what was scanned. *)
RunStart(s, p, scanned) ==
    CHOOSE k \in scanned..p :
        /\ \A j \in k..p : IsCandidateByte(s[j + 1])
        /\ k = scanned \/ ~IsCandidateByte(s[k])

RunEnd(s, p) ==
    CHOOSE e \in p + 1..Len(s) :
        /\ \A j \in p..e - 1 : IsCandidateByte(s[j + 1])
        /\ e = Len(s) \/ ~IsCandidateByte(s[e + 1])

(* The runs the grid finds from probe p on: every MinRun-th byte is looked at. *)
ProbedFrom(s, p, scanned) ==
    IF p >= Len(s) THEN {}
    ELSE IF p < scanned \/ ~IsCandidateByte(s[p + 1]) THEN ProbedFrom(s, p + MinRun, scanned)
    ELSE LET run == <<RunStart(s, p, scanned), RunEnd(s, p)>>
         IN  {r \in {run} : r[2] - r[1] >= MinRun} \cup ProbedFrom(s, p + MinRun, run[2])

Runs(s) == ProbedFrom(s, MinRun - 1, 0)

(* Match: the spans of the heuristic, in order. *)
Match(s, floor) ==
    LET hits == UNION {IF SkipsCandidate(Part(s, r[1], r[2])) THEN ClearingWords(s, r[1], r[2], floor) ELSE {r} :
                       r \in {q \in Runs(s) : Clears(Part(s, q[1], q[2]), floor)}}
        ordered == SetToSortSeq(hits, LAMBDA a, b : a[1] < b[1])
    IN  [k \in DOMAIN ordered |-> Span(ordered[k][1], ordered[k][2], "entropy")]

-----------------------------------------------------------------------------
(* The escape shadow *)

EscapeAt(s, i) == i + 1 < Len(s) /\ s[i + 1] = "bs" /\ s[i + 2] \in {"bs", "n"}

(* The escapes one pass finds, left to right. *)
EscapesOf(s) ==
    LET opens[i \in 0..Len(s)] == EscapeAt(s, i) /\ (i = 0 \/ ~opens[i - 1])
    IN  {i \in 0..Len(s) : opens[i]}

Blanked(s, opens) ==
    [k \in DOMAIN s |-> IF k - 1 \in opens THEN "blank"
                        ELSE IF k - 2 \in opens /\ k > 1 THEN (IF s[k] = "bs" THEN "bs" ELSE "blank") ELSE s[k]]

RECURSIVE Passes(_)

(* All the escapes, one encoding level per pass: a pass that kept a backslash is followed by another. *)
Passes(s) ==
    LET opens == EscapesOf(s)
    IN  opens \cup (IF \E i \in opens : s[i + 2] = "bs" THEN Passes(Blanked(s, opens)) ELSE {})

(* Mutant: a single pass, which sees the outermost encoding only. *)
SplitsOnePass(s) ==
    LET opens == EscapesOf(s) IN {i + 1 : i \in opens} \cup (opens \cap {i + 2 : i \in opens})

(* escapeShadow: the boundaries a cut may not use, inside an escape or between touching ones. *)
Splits(s) ==
    LET opens == Passes(s) IN {i + 1 : i \in opens} \cup (opens \cap {i + 2 : i \in opens})

HasEscapes(s) == EscapesOf(s) # {}

(* snap: neither edge splits an escape. *)
Snapped(s, sp) ==
    LET splits == Splits(s)
        starts == {k \in 0..sp.start : k = 0 \/ k \notin splits}
        ends == {k \in sp.end..Len(s) : k \notin splits}
    IN  [sp EXCEPT !.start = Max(starts), !.end = Min(ends)]

SnapAll(s, spans) == [k \in DOMAIN spans |-> Snapped(s, spans[k])]

Overlap(a, b) == a.start < b.end /\ b.start < a.end
Least(a, b) == IF a < b THEN a ELSE b
Most(a, b) == IF a < b THEN b ELSE a

RECURSIVE Folded(_, _)

(* The loop of unionSpan: the first span sp overlaps is folded into it, under the earlier rule. *)
Folded(spans, sp) ==
    LET hit == {k \in DOMAIN spans : Overlap(spans[k], sp)}
    IN  IF hit = {} THEN Append(spans, sp)
        ELSE LET o == spans[Min(hit)]
                 rule == IF o.start <= sp.start THEN o.rule ELSE sp.rule
             IN  Folded(RemoveAt(spans, Min(hit)), Span(Least(sp.start, o.start), Most(sp.end, o.end), rule))

UnionSpan(spans, sp) ==
    IF \E k \in DOMAIN spans : spans[k].start <= sp.start /\ sp.end <= spans[k].end
    THEN spans ELSE Folded(spans, sp)

BackslashesOnly(s, sp) == \A k \in sp.start + 1..sp.end : s[k] = "bs"

(* unionEscapeShadow *)
WithShadow(s, direct, shadow) ==
    LET kept == SelectSeq(direct, LAMBDA sp : ~BackslashesOnly(s, sp))
    IN  FoldLeft(UnionSpan, SnapAll(s, kept), SnapAll(s, shadow))

-----------------------------------------------------------------------------
(* From matches to a plan *)

(* The head a cut releases is scored again on its own. *)
Heads(s, run, first, floor) ==
    LET heads == Match(Part(s, run.start, first), floor)
    IN  [k \in DOMAIN heads |->
            Snapped(s, Span(run.start + heads[k].start, run.start + heads[k].end, "entropy"))]

(* trimAtPatterns: each run is cut back to the first pattern span it overlaps. *)
TrimAtPatterns(s, runs, patterns, floor) ==
    LET sorted == SortSeq(patterns, LAMBDA a, b : a.start < b.start)
        Cut(run) ==
            LET open == {k \in DOMAIN sorted : sorted[k].end > run.start}
                first == IF open = {} THEN run.end ELSE sorted[Min(open)].start
            IN  IF run.start < first /\ first < run.end THEN {first} ELSE {}
        cut == [k \in DOMAIN runs |->
                    IF Cut(runs[k]) = {} THEN runs[k] ELSE [runs[k] EXCEPT !.start = Min(Cut(runs[k]))]]
        heads == [k \in DOMAIN runs |->
                    IF Cut(runs[k]) = {} THEN <<>> ELSE Heads(s, runs[k], Min(Cut(runs[k])), floor)]
    IN  cut \o FlattenSeq(heads)

(* Patterns before heuristics at one start, then the longer one, then the rule's name. *)
Before(a, b) ==
    LET weight(sp) == IF sp.rule = "entropy" THEN 1 ELSE 0
        rank(sp) == CHOOSE k \in 1..4 : <<"p1", "p2", "p3", "entropy">>[k] = sp.rule
    IN  \/ a.start < b.start
        \/ a.start = b.start /\ weight(a) < weight(b)
        \/ a.start = b.start /\ weight(a) = weight(b) /\ a.end > b.end
        \/ a.start = b.start /\ weight(a) = weight(b) /\ a.end = b.end /\ rank(a) < rank(b)

(* Mutant: of two spans that overlap the second is dropped. *)
MergeKeepsFirst(p, sp) ==
    LET n == Len(p.spans)
    IN  IF n > 0 /\ sp.start < p.spans[n].end THEN p
        ELSE [spans |-> Append(p.spans, sp), redacted |-> p.redacted + sp.end - sp.start,
              hits |-> Append(p.hits, sp.rule)]

(* Mutant: what two spans share is counted twice. *)
MergeCountsTwice(p, sp) ==
    LET n == Len(p.spans)
    IN  IF n > 0 /\ sp.start < p.spans[n].end
        THEN [p EXCEPT !.spans[n].end = Most(@, sp.end), !.redacted = @ + sp.end - sp.start]
        ELSE [spans |-> Append(p.spans, sp), redacted |-> p.redacted + sp.end - sp.start,
              hits |-> Append(p.hits, sp.rule)]

(* One step of resolveSpans: a span that overlaps the last region extends it. *)
Merged(p, sp) ==
    LET n == Len(p.spans)
    IN  IF n > 0 /\ sp.start < p.spans[n].end
        THEN [p EXCEPT !.spans[n].end = Most(@, sp.end),
                       !.redacted = @ + (Most(p.spans[n].end, sp.end) - p.spans[n].end)]
        ELSE [spans |-> Append(p.spans, sp), redacted |-> p.redacted + sp.end - sp.start,
              hits |-> Append(p.hits, sp.rule)]

ResolveSpans(patterns, runs) == FoldLeft(Merged, NoPlan, SortSeq(patterns \o runs, Before))

(* Occurrences of the username strings.Index finds one after the other. *)
Occurrences(s) ==
    LET at[i \in 0..Len(s)] ==
            /\ i + 2 <= Len(s) /\ Part(s, i, i + 2) = Username
            /\ i = 0 \/ ~at[i - 1]
    IN  {i \in 0..Len(s) : at[i]}

(* Mutant: the neighbours are the value's own, redacted or not. *)
DelimitedInValue(s, i, blocked) ==
    /\ i = 0 \/ ~IsAlnumByte(s[i])
    /\ i + 2 = Len(s) \/ ~IsAlnumByte(s[i + 3])

(* Delimited in the rewritten value: a sentinel touching the name is a boundary. *)
Delimited(s, i, blocked) ==
    /\ i = 0 \/ ~IsAlnumByte(s[i]) \/ \E k \in DOMAIN blocked : blocked[k].end = i
    /\ i + 2 = Len(s) \/ ~IsAlnumByte(s[i + 3]) \/ \E k \in DOMAIN blocked : blocked[k].start = i + 2

(* pathUserReplacementSpans *)
UserSpans(s, blocked) ==
    {Span(i, i + 2, "user") : i \in
        {i \in Occurrences(s) :
            /\ ~\E k \in DOMAIN blocked : Overlap(blocked[k], Span(i, i + 2, "user"))
            /\ Delimited(s, i, blocked)}}

WithUser(s, p) ==
    LET users == UserSpans(s, p.spans)
    IN  IF users = {} THEN p
        ELSE [spans |-> SortSeq(p.spans \o SetToSeq(users), LAMBDA a, b : a.start < b.start),
              redacted |-> p.redacted + 2 * Cardinality(users), hits |-> Append(p.hits, "user")]

Whole(s, rule) == [spans |-> <<Span(0, Len(s), rule)>>, redacted |-> Len(s), hits |-> <<rule>>]

PatternSpans(s, f) == IF HasEscapes(s) THEN WithShadow(s, f.direct, f.shadow) ELSE f.direct
EntropySpans(s, f) ==
    LET runs == Match(s, f.floor) IN IF HasEscapes(s) THEN SnapAll(s, runs) ELSE runs

(* planValueWith *)
Planned(s, f) ==
    LET patterns == PatternSpans(s, f)
        runs == EntropySpans(s, f)
    IN  IF patterns = <<>> /\ runs = <<>> /\ f.base64 THEN Whole(s, "p1")
        ELSE LET kept == IF patterns # <<>> /\ runs # <<>> THEN TrimAtPatterns(s, runs, patterns, f.floor)
                         ELSE runs
             IN  WithUser(s, ResolveSpans(patterns, kept))

-----------------------------------------------------------------------------
PlanInit == stage = "given" /\ value \in Values /\ found = Nothing /\ plan = NoPlan

(* planValue: whatever the rules of the packs match; the shadow is scanned only when there is one. *)
PlanValue ==
    /\ stage = "given"
    /\ \E direct \in {<<>>} \cup {<<a>> : a \in AnySpan("p1")}
                          \cup {<<a, b>> : a \in AnySpan("p1"), b \in AnySpan("p2")},
          shadow \in {<<>>} \cup (IF HasEscapes(value) THEN {<<a>> : a \in AnySpan("p3")} ELSE {}),
          floor \in Floors, base64 \in BOOLEAN :
        /\ base64 => /\ direct = <<>> /\ shadow = <<>> /\ Len(value) >= Base64MinLength
                     /\ "bs" \notin Range(value)
        /\ found' = [direct |-> direct, shadow |-> shadow, floor |-> floor, base64 |-> base64]
        /\ plan' = Planned(value, found')
    /\ stage' = "planned"
    /\ UNCHANGED value

(* A key that names a secret takes the whole value. *)
PlanSecret ==
    /\ stage = "given" /\ value # <<>>
    /\ plan' = Whole(value, "key-name") /\ stage' = "planned"
    /\ UNCHANGED <<value, found>>

PlanNext == PlanValue \/ PlanSecret
-----------------------------------------------------------------------------
(* Properties *)

BytesOf(sp) == sp.start..sp.end - 1
CoveredBytes == UNION {BytesOf(plan.spans[k]) : k \in DOMAIN plan.spans}

(* Everything a rule matched is replaced, whichever other match it overlaps, touches or is merged with: a
   pattern's match in full (a match of backslashes alone, which only splits an escape, excepted), an
   entropy run in full or from the first pattern match it overlaps.  The comment on resolveSpans names
   the failure: keeping one of two overlapping spans "shipped the dropped one's tail". *)
MatchedIsCovered ==
    stage = "planned" =>
        /\ \A k \in DOMAIN found.direct :
              \/ HasEscapes(value) /\ BackslashesOnly(value, found.direct[k])
              \/ BytesOf(found.direct[k]) \subseteq CoveredBytes
        /\ \A k \in DOMAIN found.shadow : BytesOf(found.shadow[k]) \subseteq CoveredBytes
        /\ LET runs == Match(value, found.floor)
               patterns == PatternSpans(value, found)
           IN  \A k \in DOMAIN runs :
                   LET inside == {n \in DOMAIN patterns : Overlap(patterns[n], runs[k])}
                       from == IF inside = {} THEN runs[k].start
                               ELSE Most(runs[k].start, Min({patterns[n].start : n \in inside}))
                   IN  from..runs[k].end - 1 \subseteq CoveredBytes

(* The ledger tells the truth and the plan can be applied left to right: the spans are in order and do
   not overlap, and the bytes counted as redacted are the bytes they cover, each once. *)
LedgerIsExact ==
    /\ \A k \in 1..Len(plan.spans) - 1 : plan.spans[k].end <= plan.spans[k + 1].start
    /\ plan.redacted = Cardinality(CoveredBytes)

(* An edge that separates a backslash from what it escapes, or two escapes that touch. *)
Cuts(s, k) ==
    LET pair(i) == i >= 1 /\ i < Len(s) /\ s[i] = "bs" /\ s[i + 1] \in {"bs", "n"}
    IN  pair(k) \/ (pair(k - 1) /\ pair(k + 1))

(* No detector's redaction splits an escape, at any level of encoding: in a value that is itself encoded
   JSON, a backslash left without its letter changes what the text around it means. *)
EscapesStayWhole ==
    (stage = "planned" /\ plan.hits # <<"key-name">>) =>
        \A k \in DOMAIN plan.spans :
            plan.spans[k].rule # "user" =>
                ~Cuts(value, plan.spans[k].start) /\ ~Cuts(value, plan.spans[k].end)

(* The rewritten value: bytes that stay, and one mark for each replacement. *)
Rewritten ==
    LET marks == [i \in 0..Len(value) - 1 |->
            IF i \notin CoveredBytes THEN <<value[i + 1]>>
            ELSE IF \E k \in DOMAIN plan.spans : plan.spans[k].start = i THEN <<"mark">> ELSE <<>>]
    IN  FlattenSeq([k \in 1..Len(value) |-> marks[k - 1]])

(* The username never survives between boundaries, whatever the detectors did next to it: a sentinel they
   put beside it is a boundary too. *)
UsernameIsGone ==
    stage = "planned" => ~SkipsCandidate(Rewritten)

(* The grid scan of the entropy matcher, which looks at every MinRun-th byte, finds exactly the runs a
   byte-by-byte scan would. *)
GridFindsEveryRun ==
    Runs(value) = {r \in (0..Len(value)) \X (0..Len(value)) :
        /\ r[1] + MinRun <= r[2]
        /\ \A k \in r[1]..r[2] - 1 : IsCandidateByte(value[k + 1])
        /\ r[1] = 0 \/ ~IsCandidateByte(value[r[1]])
        /\ r[2] = Len(value) \/ ~IsCandidateByte(value[r[2] + 1])}


(* The plan of a string (planValueWith, resolveSpans): what was matched is covered and counted
   once, no escape is cut, the username is gone, and no run is missed. *)
PlanIsSound ==
    MatchedIsCovered /\ LedgerIsExact /\ EscapesStayWhole /\ UsernameIsGone /\ GridFindsEveryRun
=============================================================================
