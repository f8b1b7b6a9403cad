----------------------------- MODULE Redaction ------------------------------
(***************************************************************************)
(* The redaction of one payload (transforms/scrub.go, jsonwalk.go,         *)
(* drops.go, keyname.go, matcher.go): line by line, a line that parses is  *)
(* walked and its strings are planned one by one, a line that does not is  *)
(* scanned as text.  A string may hold a JSON document, which is walked in *)
(* its place.  What a string holds is one of a few words; what the plan of *)
(* one string does in detail is SpanPlan's subject.                        *)
(***************************************************************************)
EXTENDS Naturals, Sequences, FiniteSets, SequencesExt

CONSTANTS Payloads,       \* sequences of lines
          Exempt,         \* exempt field paths; one that ends in "*" exempts an object's keys
          DropSpec,       \* field paths whose long strings are dropped
          MaxDepth        \* levels the walk descends

VARIABLES jsonl,          \* the hint: the payload is lines of JSON
          rest,           \* lines not yet scrubbed
          seen,           \* history: the lines that were
          copied,         \* the output has left the input: out is no longer a prefix of the payload
          out,            \* the output's lines, once copied
          ledger,         \* BytesRedacted
          parsed, raw,    \* LinesParsed, LinesRawScanned
          verdict         \* "open", "done" or "error"

scrubVars == <<jsonl, rest, seen, copied, out, ledger, parsed, raw, verdict>>

(* Values.  A text holds nothing, a match of a pattern rule, a run only the heuristic finds, a pattern
   match whose rewriting cannot be quoted again (an engine fault), or a long opaque body; a document is a
   string of encoded JSON, torn or not, with or without a key and value only read together as a secret. *)
Text(w) == [kind |-> "text", what |-> w]
Number(w) == [kind |-> "number", what |-> w]
Object(k, v) == [kind |-> "object", key |-> k, val |-> v]
Array(v) == [kind |-> "array", val |-> v]
Doc(d, torn, pair) == [kind |-> "doc", doc |-> d, torn |-> torn, pair |-> pair]
Line(v, torn) == [kind |-> "line", val |-> v, torn |-> torn]
Blank == [kind |-> "blank"]
Opaque == [kind |-> "opaque"]     \* the header of a compressed file or a database

Sentinel == Text("sentinel")
Matches(w) == w \in {"pattern", "fault"}

RECURSIVE Size(_)

(* What a value counts in the ledger when it is taken whole: one for each text, number and key. *)
Size(v) ==
    CASE v.kind \in {"text", "number"} -> 1
      [] v.kind = "object" -> 1 + Size(v.val)
      [] v.kind = "array" -> Size(v.val)
      [] v.kind = "doc" -> Size(v.doc)
      [] OTHER -> 0

(* New: a configured exemption outranks a drop; a drop never reaches into an embedded document. *)
Drops == {p \in DropSpec : p \notin Exempt /\ "#json" \notin Range(p)}

IsExempt(path) == path \in Exempt
ExemptKeys(path) == Append(path, "*") \in Exempt
NamesSecret(key) == key = "secret"
KeyNamesSecret(key, v) == NamesSecret(key) /\ v # Sentinel

(* A value after a step: what it became, what the ledger gains, whether an edit cannot be written back,
   and the error that stops the walk. *)
Result(v, n, bad, err) == [out |-> v, n |-> n, bad |-> bad, err |-> err]
Unchanged(v) == Result(v, 0, FALSE, "none")
Stopped(v, err) == Result(v, 0, FALSE, err)

-----------------------------------------------------------------------------
(* Scans *)

RECURSIVE NumberMatched(_), Scan(_, _)

(* A number replaced in the text of a document leaves a document that does not parse. *)
NumberMatched(v) ==
    \/ v.kind = "number" /\ Matches(v.what)
    \/ v.kind \in {"object", "array"} /\ NumberMatched(v.val)

(* planValueWith over a text that holds other values: every match in it, however deep, and the heuristic's
   too where it is consulted. *)
Scan(v, heuristics) ==
    CASE v.kind = "text" /\ (Matches(v.what) \/ (heuristics /\ v.what = "heuristic")) ->
            Result(Sentinel, 1, v.what = "fault", "none")
      [] v.kind = "number" /\ Matches(v.what) -> Result(Sentinel, 1, FALSE, "none")
      [] v.kind = "object" ->
            LET r == Scan(v.val, heuristics)
                hit == v.key = "keypattern" \/ (heuristics /\ v.key = "keyhash")
            IN  Result(Object(IF hit THEN "sentinel" ELSE v.key, r.out), r.n + (IF hit THEN 1 ELSE 0), r.bad, "none")
      [] v.kind = "array" -> LET r == Scan(v.val, heuristics) IN Result(Array(r.out), r.n, r.bad, "none")
      [] v.kind = "doc" ->
            LET r == Scan(IF v.pair THEN [v.doc EXCEPT !.val = Text("pattern")] ELSE v.doc, heuristics)
            IN  Result([v EXCEPT !.doc = r.out, !.pair = FALSE, !.torn = @ \/ NumberMatched(v.doc)],
                       r.n, r.bad, "none")
      [] OTHER -> Unchanged(v)

(* scrubRawText: a line as text, without the heuristic. *)
ScrubRawText(line) == LET r == Scan(line.val, FALSE) IN [line EXCEPT !.val = r.out]

(* Taken whole under a key that names a secret, or scanned with the heuristic where the field is not exempt. *)
PlanString(v, secret, path) ==
    IF secret THEN Result(Sentinel, Size(v), FALSE, "none") ELSE Scan(v, ~IsExempt(path))

PlanKey(key, path) ==
    IF \/ key = "keypattern"
       \/ key = "keyhash" /\ ~IsExempt(Append(path, key)) /\ ~ExemptKeys(path)
    THEN "sentinel" ELSE key

-----------------------------------------------------------------------------
(* The walk *)

RECURSIVE Walk(_, _, _, _, _)

(* Mutant: an embedded document's fields keep the path of the string that holds it. *)
EmbeddedPathSame(path) == path

(* An exemption for the outer field does not reach the fields encoded inside it. *)
EmbeddedPath(path) == Append(path, "#json")

(* Mutant: what an unfinished walk redacted is counted before the value is scanned again. *)
EmbeddedEndEarly(v, r) ==
    IF r.err = "edit" \/ (r.err = "none" /\ ~v.torn /\ r.bad) THEN Stopped(v, "edit")
    ELSE IF r.err # "none" \/ v.torn THEN Result(v, r.n, FALSE, "parse")
    ELSE Result([v EXCEPT !.doc = r.out], r.n, FALSE, "none")

(* The end of walkEmbedded: an edit that cannot be written back stops everything, a document that does not
   parse comes back as it was and its walk counts for nothing. *)
EmbeddedEnd(v, r) ==
    IF r.err = "edit" \/ (r.err = "none" /\ ~v.torn /\ r.bad) THEN Stopped(v, "edit")
    ELSE IF r.err # "none" \/ v.torn THEN Stopped(v, "parse")
    ELSE Result([v EXCEPT !.doc = r.out], r.n, FALSE, "none")

WalkEmbedded(v, depth, path) == EmbeddedEnd(v, Walk(v.doc, depth + 1, "", EmbeddedPath(path), TRUE))

(* The second half of walkString: the whole value is planned, and a document that is left is walked. *)
PlannedWhole(v, depth, key, path) ==
    LET p == PlanString(v, KeyNamesSecret(key, v), path)
        e == IF p.out.kind = "doc" THEN WalkEmbedded(p.out, depth, path) ELSE Stopped(p.out, "parse")
    IN  IF p.n = 0 THEN Unchanged(v)
        ELSE IF e.err = "edit" THEN Stopped(v, "edit")
        ELSE Result(e.out, p.n + e.n, p.bad, "none")

WalkString(v, depth, key, path, embedded) ==
    LET e == WalkEmbedded(v, depth, path)
    IN  IF v = Text("long") /\ ~embedded /\ path \in Drops THEN Result(Text("dropped"), 1, FALSE, "none")
        ELSE IF v.kind = "doc" /\ ~KeyNamesSecret(key, v) /\ ~v.pair
             THEN IF e.err = "parse"
                  THEN LET r == PlannedWhole(v, depth, key, path) IN [r EXCEPT !.n = @ + e.n]
                  ELSE e
             ELSE PlannedWhole(v, depth, key, path)

WalkObject(v, depth, path, embedded) ==
    LET key == PlanKey(v.key, path)
        r == Walk(v.val, depth + 1, v.key, Append(path, key), embedded)
    IN  [r EXCEPT !.out = Object(key, @), !.n = @ + (IF key # v.key THEN 1 ELSE 0)]

(* Mutant: numbers of an embedded document are left to the whole-value scan that did not happen. *)
WalkNumberNever(v, key, path, embedded) == Unchanged(v)

(* A number of the line itself is not scanned; one inside a document gets the ladder of a string. *)
WalkNumber(v, key, path, embedded) ==
    IF embedded THEN PlanString(v, KeyNamesSecret(key, v), path) ELSE Unchanged(v)

Walk(v, depth, key, path, embedded) ==
    IF depth > MaxDepth THEN Stopped(v, "parse")
    ELSE CASE v.kind = "object" -> WalkObject(v, depth, path, embedded)
           [] v.kind = "array" ->
                LET r == Walk(v.val, depth + 1, "", Append(path, "[]"), embedded) IN [r EXCEPT !.out = Array(@)]
           [] v.kind \in {"text", "doc"} -> WalkString(v, depth, key, path, embedded)
           [] v.kind = "number" -> WalkNumber(v, key, path, embedded)

WalkLine(line) ==
    LET r == Walk(line.val, 0, "", <<>>, FALSE)
    IN  IF line.torn /\ r.err = "none" THEN Stopped(line.val, "parse") ELSE r

-----------------------------------------------------------------------------
(* Scrub *)

RedactionInit ==
    /\ jsonl \in BOOLEAN /\ rest \in Payloads /\ seen = <<>> /\ copied = FALSE /\ out = <<>>
    /\ ledger = 0 /\ parsed = 0 /\ raw = 0 /\ verdict = "open"

(* The output is a copy from the first line that changes; before it, the input itself. *)
Emit(line, new) ==
    IF copied THEN copied' = TRUE /\ out' = Append(out, new)
    ELSE IF new # line THEN copied' = TRUE /\ out' = Append(seen, new)
    ELSE UNCHANGED <<copied, out>>

Consumed == rest' = Tail(rest) /\ seen' = Append(seen, Head(rest))

(* opaqueKind: bytes no scanner can read are refused, not reported clean. *)
ScrubRefused ==
    /\ verdict = "open" /\ seen = <<>> /\ rest # <<>> /\ Head(rest) = Opaque
    /\ verdict' = "error"
    /\ UNCHANGED <<jsonl, rest, seen, copied, out, ledger, parsed, raw>>

(* What is not lines of JSON is one text. *)
ScrubText ==
    /\ verdict = "open" /\ ~jsonl /\ rest # <<>> /\ Head(rest) # Opaque
    /\ out' = [k \in DOMAIN rest |-> IF rest[k] = Blank THEN Blank ELSE ScrubRawText(rest[k])]
    /\ ledger' = FoldLeft(LAMBDA n, l : n + (IF l = Blank THEN 0 ELSE Scan(l.val, FALSE).n), 0, rest)
    /\ seen' = rest /\ rest' = <<>> /\ copied' = TRUE /\ raw' = 1 /\ verdict' = "done"
    /\ UNCHANGED <<jsonl, parsed>>

(* The next line to scrub. *)
Scrubbing == verdict = "open" /\ jsonl /\ rest # <<>> /\ Head(rest) # Opaque

ScrubBlank ==
    /\ Scrubbing /\ Head(rest) = Blank
    /\ Consumed /\ Emit(Blank, Blank)
    /\ UNCHANGED <<jsonl, ledger, parsed, raw, verdict>>

ScrubParsed ==
    /\ Scrubbing /\ Head(rest) # Blank
    /\ LET r == WalkLine(Head(rest))
       IN  /\ r.err = "none" /\ ~r.bad
           /\ Emit(Head(rest), [Head(rest) EXCEPT !.val = r.out])
           /\ ledger' = ledger + r.n
    /\ Consumed /\ parsed' = parsed + 1 /\ UNCHANGED <<jsonl, raw, verdict>>

ScrubUnparsed ==
    /\ Scrubbing /\ Head(rest) # Blank
    /\ WalkLine(Head(rest)).err = "parse"
    /\ Emit(Head(rest), ScrubRawText(Head(rest)))
    /\ ledger' = ledger + Scan(Head(rest).val, FALSE).n
    /\ Consumed /\ raw' = raw + 1 /\ UNCHANGED <<jsonl, parsed, verdict>>

(* An engine fault fails closed: no output. *)
ScrubFails ==
    /\ Scrubbing /\ Head(rest) # Blank
    /\ LET r == WalkLine(Head(rest)) IN r.err = "edit" \/ (r.err = "none" /\ r.bad)
    /\ verdict' = "error" /\ out' = <<>> /\ copied' = TRUE
    /\ Consumed /\ UNCHANGED <<jsonl, ledger, parsed, raw>>

ScrubDone ==
    /\ verdict = "open" /\ rest = <<>>
    /\ verdict' = "done" /\ out' = IF copied THEN out ELSE seen
    /\ UNCHANGED <<jsonl, rest, seen, copied, ledger, parsed, raw>>

RedactionNext == ScrubRefused \/ ScrubText \/ ScrubBlank \/ ScrubParsed \/ ScrubUnparsed \/ ScrubFails \/ ScrubDone

-----------------------------------------------------------------------------
(* Properties *)

RECURSIVE Height(_), Ships(_, _, _), Bare(_, _, _), Changed(_, _)

Height(v) == IF v.kind \in {"object", "array"} THEN 1 + Height(v.val) ELSE 0

(* The depth a document of a string at this depth is walked at, or Unwalked when it is torn or too deep. *)
Unwalked == MaxDepth + 1
DepthIn(v, depth) == IF v.torn \/ depth + 1 + Height(v.doc) > MaxDepth THEN Unwalked ELSE depth + 1
Below(depth) == IF depth = Unwalked THEN Unwalked ELSE depth + 1
LineDepth(line) == IF ~jsonl \/ line.torn \/ Height(line.val) > MaxDepth THEN Unwalked ELSE 0

(* Some secret is left in v that no exemption excuses: a match of a pattern, a key and value that are one
   together, a string under a key that names a secret where the text could be walked. *)
Ships(v, embedded, depth) ==
    CASE v.kind = "text" -> Matches(v.what)
      [] v.kind = "number" -> embedded /\ Matches(v.what)
      [] v.kind = "array" -> Ships(v.val, embedded, Below(depth))
      [] v.kind = "object" ->
            \/ v.key = "keypattern" \/ Ships(v.val, embedded, Below(depth))
            \/ depth # Unwalked /\ NamesSecret(v.key) /\ v.val.kind \in {"text", "doc"} /\ v.val # Sentinel
      [] v.kind = "doc" -> v.pair \/ Ships(v.doc, TRUE, DepthIn(v, depth))
      [] OTHER -> FALSE

(* A finished scrub ships no match of a pattern rule: not in a field exempt from heuristics, not in a key,
   not in a document inside a string however deep, torn or too deep to walk, not in a number inside one,
   not in a line that does not parse.  Nor, where a line or document can be walked, a string whose key
   names a secret. *)
SecretsNeverShip ==
    verdict = "done" =>
        \A k \in DOMAIN out : out[k] # Blank => ~Ships(out[k].val, FALSE, LineDepth(seen[k]))

(* The places in v where a run of the heuristic is left, as field paths; a document that cannot be walked
   is a text at its own path. *)
Bare(v, path, depth) ==
    LET at(step) == IF depth = Unwalked THEN path ELSE Append(path, step)
    IN  CASE v.kind = "text" -> IF v.what = "heuristic" THEN {path} ELSE {}
          [] v.kind = "array" -> Bare(v.val, at("[]"), Below(depth))
          [] v.kind = "object" ->
                Bare(v.val, at(v.key), Below(depth)) \cup {at(k) : k \in {v.key} \cap {"keyhash"}}
          [] v.kind = "doc" ->
                Bare(v.doc, IF DepthIn(v, depth) = Unwalked THEN path ELSE at("#json"), DepthIn(v, depth))
          [] OTHER -> {}

(* In a line that was walked the heuristic stands down where an exact field path is exempt and nowhere
   else: an exemption does not reach the documents inside the field it names, and one for an object's
   keys does not reach their values. *)
ExemptionIsExact ==
    verdict = "done" =>
        \A k \in DOMAIN out :
            (out[k] # Blank /\ LineDepth(seen[k]) # Unwalked) =>
                \A path \in Bare(out[k].val, <<>>, 0) :
                    IsExempt(path) \/ (Last(path) = "keyhash" /\ ExemptKeys(Front(path)))

(* What of a value the output lost, counted as the ledger counts. *)
Changed(v, w) ==
    IF v = w THEN 0
    ELSE IF w.kind = "text" /\ w.what \in {"sentinel", "dropped"} THEN Size(v)
    ELSE CASE v.kind = "object" -> Changed(v.val, w.val) + (IF v.key = w.key THEN 0 ELSE 1)
           [] v.kind = "array" -> Changed(v.val, w.val)
           [] v.kind = "doc" -> Changed(v.doc, w.doc)

(* The ledger counts every redaction once, also in a document that is scanned as text and walked after,
   or walked in part and then scanned as text; and the output has the input's lines, in order. *)
LedgerCountsOnce ==
    verdict = "done" =>
        /\ Len(out) = Len(seen)
        /\ ledger = FoldLeft(LAMBDA n, k : n + (IF seen[k] = Blank THEN 0 ELSE Changed(seen[k].val, out[k].val)),
                             0, [k \in DOMAIN seen |-> k])


(* A scrubbed payload (Scrub, jsonWalker) ships no secret, gives up the heuristic only where a field
   is exempt, and its ledger is what was replaced. *)
RedactionIsSound == SecretsNeverShip /\ ExemptionIsExact /\ LedgerCountsOnce
=============================================================================
