-------------------------- MODULE SourcePassProofs --------------------------
(***************************************************************************)
(* Proofs about SourcePass, for any number of files, any sizes, limits and *)
(* budgets, any answers of the upload port and any number of faults.       *)
(***************************************************************************)
EXTENDS SourcePass, FiniteSetTheorems, SequenceTheorems, TLAPS

-----------------------------------------------------------------------------
(* The inductive invariant. *)

(* Files are admitted in order; a file with a decision has been settled,   *)
(* and only the second file of a stop is settled without one.              *)
AdmissionInv ==
    \A f \in Files :
       /\ pc[f] = "queued" <=> f >= next
       /\ out[f] # "none" => pc[f] = "settled"
       /\ pc[f] = "settled" /\ out[f] = "none" => fatal \/ halted

(* What the loop is handed: a worker's result or the port's answer. *)
VerdictInv ==
    \A f \in Files :
       /\ pc[f] = "result" => verdict[f] \in Prepared \cup {"failed"}
       /\ pc[f] = "answered" => verdict[f] \in Answers

(* The files of the accumulator and of the group being settled. *)
QueueInv ==
    /\ IsInjective(staged) /\ IsInjective(todo)
    /\ \A f \in Files : pc[f] = "staged" <=> f \in ToSet(staged)
    /\ \A f \in ToSet(todo) : pc[f] = "answered"
    /\ todo # << >> => loop = "settling"

Grouped == {"grouped", "sending", "answered"}

(* A group's files are together, in one group, and in no other place.      *)
GroupInv ==
    /\ \A g \in groups :
          /\ g # << >> /\ IsInjective(g)
          /\ ToSet(g) \cap ToSet(todo) = {}
          /\ \E p \in Grouped : \A f \in ToSet(g) : pc[f] = p
    /\ \A g, h \in groups : g # h => ToSet(g) \cap ToSet(h) = {}
    /\ \A f \in Files : pc[f] \in {"grouped", "sending"} =>
          \E g \in groups : f \in ToSet(g)
    /\ \A f \in Files : pc[f] = "answered" =>
          f \in ToSet(todo) \/ \E g \in groups : f \in ToSet(g)

(* A group may be sent; the accumulator has room for one more object.      *)
SizeInv ==
    /\ \A g \in groups : /\ Len(g) <= MaxObjects
                         /\ GroupBytes(g) <= MaxBatchBytes \/ Len(g) = 1
    /\ Len(staged) < MaxObjects
    /\ staged # << >> => GroupBytes(staged) < MaxBatchBytes

(* A latch is closed by the one file counted for it, while its group is    *)
(* being settled; the accumulator is drained before anything else happens. *)
LatchInv ==
    /\ \A f \in Files : /\ out[f] = "refused" => fatal
                        /\ out[f] = "unavailable" => halted
    /\ \A f, g \in Files : out[f] = out[g] /\ out[f] \in {"refused", "unavailable"}
                              => f = g
    /\ (fatal \/ halted) /\ staged # << >> => loop = "settling"

EndInv ==
    /\ loop = "ended" <=> end # "running"
    /\ loop = "ended" => InFlight = {}
    /\ end \in {"complete", "truncated"} => ~fatal /\ ~halted
    /\ end = "complete" => next = N + 1
    /\ end = "truncated" => next <= N /\ budget = 0

IInv ==
    /\ TypeOK /\ AdmissionInv /\ VerdictInv /\ QueueInv /\ GroupInv
    /\ SizeInv /\ LatchInv /\ EndInv /\ BudgetIsExact /\ GateHolds

-----------------------------------------------------------------------------
(* Totals. *)

(* A finite set's bytes are finitely many. *)
LEMMA TotalFinite ==
    ASSUME NEW S, IsFiniteSet(S), NEW w, \A x \in S : w[x] \in Nat
    PROVE  /\ IsFiniteSet(UNION {{x} \X (1..w[x]) : x \in S})
           /\ Total(w, S) \in Nat
<1> DEFINE T == {{x} \X (1..w[x]) : x \in S}
           h == [x \in S |-> {x} \X (1..w[x])]
<1>1. h \in Surjection(S, T)
  BY DEF Surjection
<1>2. IsFiniteSet(T)
  BY <1>1, FS_Surjection
<1>3. \A t \in T : IsFiniteSet(t)
  <2> SUFFICES ASSUME NEW x \in S PROVE IsFiniteSet({x} \X (1..w[x]))
    OBVIOUS
  <2>1. w[x] \in Int /\ 1 \in Int
    OBVIOUS
  <2>2. IsFiniteSet(1..w[x])
    BY <2>1, FS_Interval
  <2>3. IsFiniteSet({x})
    BY FS_Singleton
  <2> QED
    BY <2>2, <2>3, FS_Product
<1>4. IsFiniteSet(UNION T)
  BY <1>2, <1>3, FS_UNION
<1> QED
  BY <1>4, FS_CardinalityType DEF Total

(* One more member adds its own bytes. *)
LEMMA TotalAdd ==
    ASSUME NEW S, IsFiniteSet(S), NEW x, x \notin S, NEW w,
           \A y \in S \cup {x} : w[y] \in Nat
    PROVE  Total(w, S \cup {x}) = Total(w, S) + w[x]
<1> DEFINE A == UNION {{y} \X (1..w[y]) : y \in S}
           B == {x} \X (1..w[x])
<1>1. IsFiniteSet(A) /\ Cardinality(A) = Total(w, S)
  BY TotalFinite DEF Total
<1>2. IsFiniteSet({x}) /\ Cardinality({x}) = 1
  BY FS_Singleton
<1>3. IsFiniteSet(1..w[x]) /\ Cardinality(1..w[x]) = w[x]
  BY FS_Interval
<1>4. IsFiniteSet(B) /\ Cardinality(B) = w[x]
  BY <1>2, <1>3, FS_Product
<1>5. A \cap B = {}
  OBVIOUS
<1>6. UNION {{y} \X (1..w[y]) : y \in S \cup {x}} = A \cup B
  OBVIOUS
<1>7. Cardinality(A \cap B) = 0
  BY <1>5, FS_EmptySet
<1>8. Cardinality(A) \in Nat
  BY <1>1, FS_CardinalityType
<1> HIDE DEF A, B
<1>9. Cardinality(A \cup B) = Cardinality(A) + Cardinality(B) - Cardinality(A \cap B)
  BY <1>1, <1>4, FS_Union
<1>10. Total(w, S \cup {x}) = Cardinality(A \cup B)
  BY <1>6 DEF Total
<1>11. w[x] \in Nat
  OBVIOUS
<1> QED
  BY <1>1, <1>4, <1>7, <1>8, <1>9, <1>10, <1>11

(* Nothing has no bytes. *)
LEMMA TotalEmpty == ASSUME NEW w PROVE Total(w, {}) = 0
<1>1. UNION {{y} \X (1..w[y]) : y \in {}} = {}
  OBVIOUS
<1> QED
  BY <1>1, FS_EmptySet DEF Total

(* Only the members' own bytes count. *)
LEMMA TotalSame ==
    ASSUME NEW S, NEW v, NEW w, \A x \in S : v[x] = w[x]
    PROVE  Total(v, S) = Total(w, S)
<1>1. {{x} \X (1..v[x]) : x \in S} = {{x} \X (1..w[x]) : x \in S}
  OBVIOUS
<1> QED
  BY <1>1 DEF Total

-----------------------------------------------------------------------------
(* Sequences of files. *)

(* The settled head leaves the rest. *)
LEMMA TailFacts ==
    ASSUME NEW s \in Seq(Files), s # << >>, IsInjective(s)
    PROVE  /\ Head(s) \in Files /\ Head(s) \in ToSet(s)
           /\ Tail(s) \in Seq(Files) /\ IsInjective(Tail(s))
           /\ ToSet(Tail(s)) = ToSet(s) \ {Head(s)}
<1>1. Len(s) \in Nat /\ Len(s) > 0 /\ DOMAIN s = 1..Len(s)
  OBVIOUS
<1>2. /\ Head(s) = s[1] /\ Tail(s) \in Seq(Files) /\ Len(Tail(s)) = Len(s) - 1
      /\ \A i \in 1..(Len(s) - 1) : Tail(s)[i] = s[i + 1]
  BY <1>1
<1>3. DOMAIN Tail(s) = 1..(Len(s) - 1)
  BY <1>2
<1>4. IsInjective(Tail(s))
  BY <1>1, <1>2, <1>3 DEF IsInjective
<1>5. ASSUME NEW f \in ToSet(Tail(s)) PROVE f \in ToSet(s) \ {Head(s)}
  <2>1. PICK i \in 1..(Len(s) - 1) : f = Tail(s)[i]
    BY <1>3 DEF ToSet
  <2>2. f = s[i + 1] /\ i + 1 \in DOMAIN s /\ i + 1 # 1 /\ 1 \in DOMAIN s
    BY <1>1, <1>2, <2>1
  <2> QED
    BY <1>2, <2>2 DEF IsInjective, ToSet
<1>6. ASSUME NEW f \in ToSet(s), f # Head(s) PROVE f \in ToSet(Tail(s))
  <2>1. PICK i \in 1..Len(s) : f = s[i]
    BY <1>1 DEF ToSet
  <2>2. i # 1
    BY <1>2, <1>6, <2>1
  <2>3. i - 1 \in 1..(Len(s) - 1) /\ (i - 1) + 1 = i
    BY <1>1, <2>2
  <2>4. Tail(s)[i - 1] = f
    BY <1>2, <2>1, <2>3
  <2> QED
    BY <1>3, <2>3, <2>4 DEF ToSet
<1>7. Head(s) \in Files /\ Head(s) \in ToSet(s)
  BY <1>1, <1>2 DEF ToSet
<1> QED
  BY <1>2, <1>4, <1>5, <1>6, <1>7

(* A sealed file joins the accumulator. *)
LEMMA AppendFacts ==
    ASSUME NEW s \in Seq(Files), NEW f \in Files, f \notin ToSet(s), IsInjective(s)
    PROVE  /\ Append(s, f) \in Seq(Files) /\ Append(s, f) # << >>
           /\ Len(Append(s, f)) = Len(s) + 1
           /\ IsInjective(Append(s, f))
           /\ ToSet(Append(s, f)) = ToSet(s) \cup {f}
<1> DEFINE t == Append(s, f)
<1>1. /\ t \in Seq(Files) /\ t # << >> /\ Len(t) = Len(s) + 1
      /\ DOMAIN t = 1..(Len(s) + 1) /\ DOMAIN s = 1..Len(s) /\ Len(s) \in Nat
      /\ t[Len(s) + 1] = f /\ \A i \in 1..Len(s) : t[i] = s[i]
  OBVIOUS
<1> HIDE DEF t
<1>2. \A i \in 1..Len(s) : s[i] \in ToSet(s)
  BY <1>1 DEF ToSet
<1>3. IsInjective(t)
  <2> SUFFICES ASSUME NEW i \in DOMAIN t, NEW j \in DOMAIN t, t[i] = t[j]
               PROVE  i = j
    BY DEF IsInjective
  <2>1. (i \in 1..Len(s) \/ i = Len(s) + 1) /\ (j \in 1..Len(s) \/ j = Len(s) + 1)
    BY <1>1
  <2> QED
    BY <1>1, <1>2, <2>1 DEF IsInjective
<1>4. ASSUME NEW g \in ToSet(t) PROVE g \in ToSet(s) \cup {f}
  <2>1. PICK i \in DOMAIN t : g = t[i]
    BY DEF ToSet
  <2>2. i \in 1..Len(s) \/ i = Len(s) + 1
    BY <1>1
  <2> QED
    BY <1>1, <1>2, <2>1, <2>2
<1>5. ASSUME NEW g \in ToSet(s) PROVE g \in ToSet(t)
  <2>1. PICK i \in 1..Len(s) : g = s[i]
    BY <1>1 DEF ToSet
  <2>2. i \in DOMAIN t /\ t[i] = g
    BY <1>1, <2>1
  <2> QED
    BY <2>2 DEF ToSet
<1>6. f \in ToSet(t)
  <2>1. Len(s) + 1 \in DOMAIN t
    BY <1>1
  <2> QED
    BY <1>1, <2>1 DEF ToSet
<1>7. ToSet(t) = ToSet(s) \cup {f}
  BY <1>4, <1>5, <1>6
<1> QED
  BY <1>1, <1>3, <1>7 DEF t

(* A sequence of one file. *)
LEMMA SingleFacts ==
    ASSUME NEW f \in Files
    PROVE  /\ <<f>> \in Seq(Files) /\ <<f>> # << >> /\ Len(<<f>>) = 1
           /\ IsInjective(<<f>>) /\ ToSet(<<f>>) = {f}
<1>1. <<f>> \in Seq(Files) /\ Len(<<f>>) = 1 /\ DOMAIN <<f>> = 1..1 /\ <<f>>[1] = f
  OBVIOUS
<1>2. ToSet(<<f>>) = {f}
  BY <1>1 DEF ToSet
<1> QED
  BY <1>1, <1>2 DEF IsInjective

(* A sequence of files lists files, and a non-empty one lists some.        *)
LEMMA SeqFacts ==
    ASSUME NEW s \in Seq(Files)
    PROVE  /\ ToSet(s) \subseteq Files
           /\ s # << >> => ToSet(s) # {}
           /\ s = << >> => ToSet(s) = {}
           /\ Len(s) \in Nat
<1>1. s # << >> => 1 \in DOMAIN s
  OBVIOUS
<1> QED
  BY <1>1 DEF ToSet

(* A group's bytes grow by what joins it. *)
LEMMA GroupBytesFacts ==
    ASSUME NEW s \in Seq(Files), NEW f \in Files
    PROVE  /\ GroupBytes(s) \in Nat
           /\ GroupBytes(Append(s, f)) = GroupBytes(s) + Sealed[f]
<1> DEFINE t == Append(s, f)
           v == [i \in DOMAIN s |-> Sealed[s[i]]]
           w == [i \in DOMAIN t |-> Sealed[t[i]]]
           n == Len(s) + 1
<1>1. /\ t \in Seq(Files) /\ DOMAIN t = 1..n
      /\ DOMAIN s = 1..Len(s) /\ Len(s) \in Nat /\ n \in Nat
      /\ t[n] = f /\ \A i \in 1..Len(s) : t[i] = s[i]
  OBVIOUS
<1>2. Sealed \in [Files -> Nat]
  BY PassAssumption
<1>3. \A i \in DOMAIN s : v[i] \in Nat
  BY <1>2
<1>4. \A i \in DOMAIN t : w[i] \in Nat
  BY <1>1, <1>2
<1>5. IsFiniteSet(DOMAIN s)
  BY <1>1, FS_Interval
<1>6. \A i \in DOMAIN s : v[i] = w[i]
  BY <1>1
<1>7. DOMAIN t = DOMAIN s \cup {n} /\ n \notin DOMAIN s
  BY <1>1
<1>8. w[n] = Sealed[f]
  BY <1>1
<1>9. GroupBytes(s) = Total(v, DOMAIN s) /\ GroupBytes(t) = Total(w, DOMAIN t)
  BY DEF GroupBytes
<1> HIDE DEF t, v, w, n
<1>10. Total(v, DOMAIN s) \in Nat
  BY <1>3, <1>5, TotalFinite
<1>11. Total(v, DOMAIN s) = Total(w, DOMAIN s)
  BY <1>6, TotalSame
<1>12. Total(w, DOMAIN s \cup {n}) = Total(w, DOMAIN s) + w[n]
  BY <1>4, <1>5, <1>7, TotalAdd
<1> QED
  BY <1>7, <1>8, <1>9, <1>10, <1>11, <1>12 DEF t

(* An object on its own. *)
LEMMA SingleBytes ==
    ASSUME NEW f \in Files
    PROVE  GroupBytes(<<f>>) = Sealed[f]
<1>1. << >> \in Seq(Files) /\ Append(<< >>, f) = <<f>>
  OBVIOUS
<1>2. GroupBytes(<< >>) = 0
  <2>1. DOMAIN << >> = {}
    OBVIOUS
  <2> QED
    BY <2>1, TotalEmpty DEF GroupBytes
<1>3. GroupBytes(<<f>>) = GroupBytes(<< >>) + Sealed[f]
  BY <1>1, GroupBytesFacts
<1> QED
  BY <1>2, <1>3, PassAssumption

(* The bound on a group is positive and within the plane's. *)
LEMMA MaxObjectsBound ==
    MaxObjects \in Nat /\ MaxObjects >= 1 /\ MaxObjects <= MaxBatchObjects
<1> DEFINE a == MaxBatchObjects
           b == UploadLimit \div 2
           m == Min({a, b})
<1>1. a \in Nat \ {0} /\ b \in Nat
  BY PassAssumption
<1>2. MaxObjects = Max({1, m})
  BY DEF MaxObjects
<1> HIDE DEF a, b
<1>3. \E x \in {a, b} : \A y \in {a, b} : x <= y
  BY <1>1
<1>4. m \in {a, b} /\ m <= a /\ m <= b
  BY <1>3 DEF Min
<1>5. m \in Nat
  BY <1>1, <1>4
<1> HIDE DEF m
<1>6. \E x \in {1, m} : \A y \in {1, m} : x >= y
  BY <1>5
<1>7. Max({1, m}) \in {1, m} /\ Max({1, m}) >= 1
  BY <1>6 DEF Max
<1>8. MaxObjects \in Nat /\ MaxObjects >= 1 /\ MaxObjects <= a
  BY <1>1, <1>2, <1>4, <1>5, <1>7
<1> QED
  BY <1>8 DEF a

(* The port answers each file of a group. *)
LEMMA AnswerFacts ==
    ASSUME NEW s, NEW a \in AnswersFor(s), NEW f \in s
    PROVE  a[f] \in Answers
<1> DEFINE Again(first) == {o \in s : first[o] = "expired"}
           Result(first, second) ==
              [o \in s |-> CASE o \notin Again(first) -> first[o]
                             [] o \in Again(first) /\ second[o] = "expired" -> "failed"
                             [] OTHER -> second[o]]
<1>1. PICK first \in AuthorizeAndUpload(s) :
         \E second \in AuthorizeAndUpload(Again(first)) : a = Result(first, second)
  BY DEF AnswersFor, GroupAnswers
<1>2. PICK second \in AuthorizeAndUpload(Again(first)) : a = Result(first, second)
  BY <1>1
<1>3. first[f] \in Answers \cup {"expired"}
  BY DEF AuthorizeAndUpload, Answers
<1>4. f \in Again(first) => second[f] \in Answers \cup {"expired"}
  BY DEF AuthorizeAndUpload, Answers
<1>5. CASE f \notin Again(first)
  BY <1>2, <1>3, <1>5 DEF Answers
<1>6. CASE f \in Again(first) /\ second[f] = "expired"
  BY <1>2, <1>6 DEF Answers
<1>7. CASE f \in Again(first) /\ second[f] # "expired"
  BY <1>2, <1>4, <1>7 DEF Answers
<1> QED
  BY <1>5, <1>6, <1>7

-----------------------------------------------------------------------------
(* What a step may do to the accounts. *)

(* A step that neither admits nor settles a file. *)
Quiet ==
    /\ UNCHANGED <<report, start, next, fatal, halted>>
    /\ \A f \in Files : /\ pc'[f] = "queued" <=> pc[f] = "queued"
                        /\ pc'[f] = "settled" <=> pc[f] = "settled"

(* A step that settles f with what it was handed. *)
Settling(f, v) ==
    /\ Settle(f, v)
    /\ pc[f] \in {"result", "answered"}
    /\ pc' = [pc EXCEPT ![f] = "settled"]
    /\ v \in Decisions
    /\ pc[f] = "result" => (v = "refused" => fatal) /\ (v = "unavailable" => halted)
    /\ UNCHANGED <<start, next>>

(* A result the loop settles is a decision; a sealed one is abandoned. *)
LEMMA ReceiveSettles ==
    ASSUME IInv, NEW f \in Files, Receive(f), ~(verdict[f] = "sealed" /\ ~fatal /\ ~halted)
    PROVE  \E v \in Decisions : Settling(f, v)
<1> DEFINE v == IF verdict[f] = "sealed" THEN Abandoned ELSE verdict[f]
<1>1. verdict[f] \in Prepared \cup {"failed"} /\ pc[f] = "result"
  BY DEF Receive, IInv, VerdictInv
<1>2. v \in Decisions
  BY <1>1 DEF Prepared, Decisions, Answers, Abandoned
<1>3. (v = "refused" => fatal) /\ (v = "unavailable" => halted)
  BY <1>1 DEF Prepared, Abandoned
<1>4. Settle(f, v) /\ pc' = [pc EXCEPT ![f] = "settled"] /\ UNCHANGED <<start, next>>
  BY DEF Receive
<1> HIDE DEF v
<1> QED
  BY <1>1, <1>2, <1>3, <1>4 DEF Settling

(* The head of the answered group is settled with its answer. *)
LEMMA NextSettles ==
    ASSUME IInv, SettleNext
    PROVE  /\ Head(todo) \in Files
           /\ \E v \in Decisions : Settling(Head(todo), v)
<1> DEFINE f == Head(todo)
<1>1. f \in Files /\ f \in ToSet(todo)
  BY TailFacts DEF SettleNext, IInv, TypeOK, QueueInv
<1>2. pc[f] = "answered"
  BY <1>1 DEF IInv, QueueInv
<1>3. verdict[f] \in Answers
  BY <1>1, <1>2 DEF IInv, VerdictInv
<1>4. verdict[f] \in Decisions
  BY <1>3 DEF Decisions
<1>5. /\ Settle(f, verdict[f]) /\ pc' = [pc EXCEPT ![f] = "settled"]
      /\ UNCHANGED <<start, next>>
  BY DEF SettleNext
<1> HIDE DEF f
<1> QED
  BY <1>1, <1>2, <1>4, <1>5 DEF Settling, f

(* Files on their way into a group were staged or are just sealed. *)
LEMMA AddQuiet ==
    ASSUME IInv, NEW f \in Files, pc[f] = "result", Add(f)
    PROVE  \A q \in Files : /\ pc'[q] = "queued" <=> pc[q] = "queued"
                            /\ pc'[q] = "settled" <=> pc[q] = "settled"
<1> DEFINE before == staged # << >> /\ GroupBytes(staged) + Sealed[f] > MaxBatchBytes
           s == IF before THEN <<f>> ELSE Append(staged, f)
           full == Len(s) >= MaxObjects \/ GroupBytes(s) >= MaxBatchBytes
           sent == (IF before THEN {staged} ELSE {}) \cup (IF full THEN {s} ELSE {})
           handed == UNION {ToSet(g) : g \in sent}
<1>1. f \notin ToSet(staged) /\ staged \in Seq(Files) /\ IsInjective(staged)
  BY DEF IInv, QueueInv, TypeOK
<1>2. ToSet(<<f>>) = {f} /\ ToSet(Append(staged, f)) = ToSet(staged) \cup {f}
  BY <1>1, SingleFacts, AppendFacts
<1>3. ToSet(s) \subseteq ToSet(staged) \cup {f}
  BY <1>2
<1>4. pc' = [g \in Files |-> CASE g \in handed -> "grouped"
                               [] g = f /\ g \notin handed -> "staged"
                               [] OTHER -> pc[g]]
  BY DEF Add
<1> HIDE DEF full, s
<1>5. handed \subseteq ToSet(staged) \cup {f}
  BY <1>3
<1> HIDE DEF handed
<1> SUFFICES ASSUME NEW q \in Files
             PROVE  /\ pc'[q] = "queued" <=> pc[q] = "queued"
                    /\ pc'[q] = "settled" <=> pc[q] = "settled"
  OBVIOUS
<1>6. CASE q \in handed
  <2>1. pc[q] \in {"staged", "result"}
    BY <1>5, <1>6 DEF IInv, QueueInv
  <2> QED
    BY <1>4, <1>6, <2>1
<1>7. CASE q \notin handed
  BY <1>4, <1>7
<1> QED
  BY <1>6, <1>7

(* Every step admits a file, settles one, begins the next run, or leaves   *)
(* the accounts alone.                                                     *)
LEMMA StepKinds ==
    ASSUME IInv, [Next]_vars
    PROVE  \/ Quiet \/ Admit \/ NextRun
           \/ \E f \in Files : \E v \in Decisions : Settling(f, v)
<1> USE DEF report, latches, queues
<1>0. /\ \A f \in ToSet(staged) : f \in Files /\ pc[f] = "staged"
      /\ \A g \in groups : ToSet(g) \subseteq Files
      /\ pc \in [Files -> {"queued", "waiting", "reading", "result", "staged",
                           "grouped", "sending", "answered", "settled"}]
  BY SeqFacts DEF IInv, TypeOK, QueueInv
<1>1. CASE UNCHANGED vars
  BY <1>1 DEF vars, Quiet
<1>2. CASE Cancel
  BY <1>2 DEF Cancel, Quiet
<1>3. CASE StopAdmitting
  BY <1>0, <1>3 DEF StopAdmitting, Handed, Quiet
<1>4. CASE SettleNext
  BY <1>4, NextSettles
<1>5. CASE DrainStaged
  BY <1>0, <1>5 DEF DrainStaged, Quiet
<1>6. ASSUME NEW f \in Files, Start(f) \/ Prepare(f)
      PROVE  Quiet
  BY <1>0, <1>6 DEF Start, Prepare, Quiet
<1>7. ASSUME NEW f \in Files, Receive(f)
      PROVE  Quiet \/ \E v \in Decisions : Settling(f, v)
  <2>1. CASE verdict[f] = "sealed" /\ ~fatal /\ ~halted
    <3>1. Add(f) /\ pc[f] = "result" /\ UNCHANGED <<report, start, next, fatal, halted>>
      BY <1>7, <2>1 DEF Receive
    <3> QED
      BY <3>1, AddQuiet DEF Quiet
  <2>2. CASE ~(verdict[f] = "sealed" /\ ~fatal /\ ~halted)
    BY <1>7, <2>2, ReceiveSettles
  <2> QED
    BY <2>1, <2>2
<1>8. ASSUME NEW g \in groups, SendGroup(g)
      PROVE  Quiet
  BY <1>0, <1>8 DEF SendGroup, Quiet
<1>9. ASSUME NEW g \in groups, AnswerGroup(g)
      PROVE  Quiet
  BY <1>0, <1>9 DEF AnswerGroup, Quiet
<1>10. ASSUME NEW g \in groups, ReceiveGroup(g)
       PROVE  Quiet
  BY <1>10 DEF ReceiveGroup, Quiet
<1> QED
  BY <1>1, <1>2, <1>3, <1>4, <1>5, <1>6, <1>7, <1>8, <1>9, <1>10, NextSettles DEF Next

(* What settling a file does to its slot of the report. *)
LEMMA SettleFacts ==
    ASSUME IInv, NEW f \in Files, NEW v \in Decisions, Settling(f, v)
    PROVE  /\ record' \in [Files -> {"none", "parked", "shipped"}]
           /\ out' \in [Files -> Decisions \cup {"none"}]
           /\ faults' \in 0..MaxFaults
           /\ \A g \in Files : g # f => out'[g] = out[g] /\ record'[g] = record[g]
                                        /\ pc'[g] = pc[g]
           /\ pc'[f] = "settled" /\ out[f] = "none"
           /\ out'[f] = "none" => fatal \/ halted
           /\ budget' = IF out'[f] \in Refunded THEN budget + 1 ELSE budget
           /\ out'[f] = "refused" => ~fatal
           /\ out'[f] = "unavailable" => ~halted
           /\ (out'[f] = "refused" => fatal') /\ (out'[f] = "unavailable" => halted')
           /\ (fatal => fatal') /\ (halted => halted')
           /\ bytes' = bytes - Charge(f)
<1>0. TypeOK /\ pc[f] \in {"result", "answered"}
  BY DEF IInv, Settling
<1>1. out[f] = "none"
  BY <1>0 DEF IInv, AdmissionInv
<1>2. PICK ok \in BOOLEAN :
          /\ IF ok THEN UNCHANGED faults
                   ELSE v \in {"shipped", "refreshed", "parked"} /\ Fault
          /\ record' = [record EXCEPT ![f] = Durable(f, v, ok)]
          /\ out' = IF Duplicate(v) THEN out
                    ELSE [out EXCEPT ![f] = Applied(v, ok)]
          /\ budget' = IF ~Duplicate(v) /\ Applied(v, ok) \in Refunded
                       THEN budget + 1 ELSE budget
  BY DEF Settling, Settle
<1>3. Durable(f, v, ok) \in {"none", "parked", "shipped"}
  BY <1>0 DEF Durable, TypeOK
<1>4. Applied(v, ok) \in Decisions
  BY DEF Applied, Decisions, Answers
<1>5. /\ Applied(v, ok) = "refused" => v = "refused"
      /\ Applied(v, ok) = "unavailable" => v = "unavailable"
  BY DEF Applied
<1>6. record' \in [Files -> {"none", "parked", "shipped"}]
  BY <1>0, <1>2, <1>3 DEF TypeOK
<1>7. out' \in [Files -> Decisions \cup {"none"}]
  BY <1>0, <1>2, <1>4 DEF TypeOK
<1>8. faults' \in 0..MaxFaults
  BY <1>0, <1>2, PassAssumption DEF TypeOK, Fault
<1>9. \A g \in Files : g # f => out'[g] = out[g] /\ record'[g] = record[g]
                                /\ pc'[g] = pc[g]
  BY <1>0, <1>2 DEF TypeOK, Settling
<1>10. pc'[f] = "settled"
  BY <1>0 DEF TypeOK, Settling
<1>11. out'[f] = IF Duplicate(v) THEN "none" ELSE Applied(v, ok)
  BY <1>0, <1>1, <1>2 DEF TypeOK
<1>12. out'[f] = "none" => fatal \/ halted
  BY <1>4, <1>11 DEF Duplicate, Decisions, Answers
<1>13. budget' = IF out'[f] \in Refunded THEN budget + 1 ELSE budget
  BY <1>2, <1>11 DEF Refunded
<1>14. (out'[f] = "refused" => ~fatal) /\ (out'[f] = "unavailable" => ~halted)
  BY <1>5, <1>11 DEF Duplicate
<1>15. (fatal' <=> (fatal \/ v = "refused")) /\ (halted' <=> (halted \/ v = "unavailable"))
  BY DEF Settling, Settle
<1>16. bytes' = bytes - Charge(f)
  BY DEF Settling, Settle
<1> QED
  BY <1>1, <1>5, <1>6, <1>7, <1>8, <1>9, <1>10, <1>11, <1>12, <1>13, <1>14, <1>15, <1>16

-----------------------------------------------------------------------------
(* The accounts. *)

(* What admitting a file does. *)
LEMMA AdmitFacts ==
    ASSUME IInv, Admit
    PROVE  /\ next \in Files /\ pc[next] = "queued" /\ out[next] = "none"
           /\ pc'[next] = "waiting" /\ next' = next + 1 /\ next' \in 1..(N + 1)
           /\ \A f \in Files : f # next => pc'[f] = pc[f]
           /\ pc' \in [Files -> {"queued", "waiting", "reading", "result", "staged",
                                 "grouped", "sending", "answered", "settled"}]
           /\ budget > 0 /\ budget' = budget - 1
           /\ bytes' = bytes + Charge(next)
           /\ FitsGate(next)
           /\ UNCHANGED <<record, start, out, fatal, halted>>
<1>1. N \in Nat /\ next \in 1..(N + 1) /\ next <= N
  BY PassAssumption DEF IInv, TypeOK, Admit, CanAdmit
<1>2. next \in Files /\ next' = next + 1 /\ next' \in 1..(N + 1)
  BY <1>1 DEF Files, Admit
<1>3. pc[next] = "queued"
  BY <1>1, <1>2 DEF IInv, AdmissionInv
<1>4. out[next] = "none"
  BY <1>2, <1>3 DEF IInv, AdmissionInv
<1> QED
  BY <1>2, <1>3, <1>4 DEF Admit, CanAdmit, IInv, TypeOK, latches

(* Candidates are admitted in order, and settled with a decision or after  *)
(* a stop.                                                                 *)
LEMMA AdmissionStep == IInv /\ [Next]_vars => AdmissionInv'
<1> SUFFICES ASSUME IInv, [Next]_vars PROVE AdmissionInv'
  OBVIOUS
<1>0. TypeOK /\ AdmissionInv /\ N \in Nat
  BY PassAssumption DEF IInv
<1>1. CASE Quiet
  <2> SUFFICES ASSUME NEW f \in Files
               PROVE  /\ pc'[f] = "queued" <=> f >= next
                      /\ out[f] # "none" => pc'[f] = "settled"
                      /\ pc'[f] = "settled" /\ out[f] = "none" => fatal \/ halted
    BY <1>1 DEF AdmissionInv, Quiet, report
  <2> QED
    BY <1>0, <1>1 DEF AdmissionInv, Quiet
<1>2. CASE Admit
  <2> SUFFICES ASSUME NEW f \in Files
               PROVE  /\ pc'[f] = "queued" <=> f >= next'
                      /\ out[f] # "none" => pc'[f] = "settled"
                      /\ pc'[f] = "settled" /\ out[f] = "none" => fatal \/ halted
    BY <1>2, AdmitFacts DEF AdmissionInv
  <2>1. next \in Files /\ next' = next + 1
    BY <1>2, AdmitFacts
  <2>2. CASE f = next
    <3>1. ~(f >= next')
      BY <1>0, <2>1, <2>2 DEF Files
    <3> QED
      BY <1>2, <2>2, <3>1, AdmitFacts
  <2>3. CASE f # next
    <3>1. f >= next' <=> f >= next
      BY <1>0, <2>1, <2>3 DEF Files
    <3>2. pc'[f] = pc[f]
      BY <1>2, <2>3, AdmitFacts
    <3> QED
      BY <1>0, <3>1, <3>2 DEF AdmissionInv
  <2> QED
    BY <2>2, <2>3
<1>3. CASE NextRun
  <2>1. \A f \in Files : f >= 1
    BY <1>0 DEF Files
  <2> QED
    BY <1>3, <2>1 DEF NextRun, AdmissionInv
<1>4. ASSUME NEW f \in Files, NEW v \in Decisions, Settling(f, v)
      PROVE  AdmissionInv'
  <2> SUFFICES ASSUME NEW g \in Files
               PROVE  /\ pc'[g] = "queued" <=> g >= next
                      /\ out'[g] # "none" => pc'[g] = "settled"
                      /\ pc'[g] = "settled" /\ out'[g] = "none" => fatal' \/ halted'
    BY <1>4 DEF AdmissionInv, Settling
  <2>1. CASE g = f
    <3>1. ~(f >= next)
      BY <1>0, <1>4 DEF Settling, AdmissionInv
    <3> QED
      BY <1>4, <2>1, <3>1, SettleFacts
  <2>2. CASE g # f
    BY <1>0, <1>4, <2>2, SettleFacts DEF AdmissionInv
  <2> QED
    BY <2>1, <2>2
<1> QED
  BY <1>1, <1>2, <1>3, <1>4, StepKinds

Spent == {f \in Files : pc[f] # "queued" /\ out[f] \notin Refunded}

(* The budget taken is what the files in flight and the files settled at a *)
(* cost took.                                                              *)
LEMMA BudgetStep == IInv /\ [Next]_vars => BudgetIsExact' /\ budget' \in 0..Budget
<1> SUFFICES ASSUME IInv, [Next]_vars PROVE BudgetIsExact' /\ budget' \in 0..Budget
  OBVIOUS
<1>0. /\ TypeOK /\ budget + Cardinality(Spent) = start
      /\ budget \in 0..Budget /\ start \in 0..Budget /\ Budget \in Nat
  BY PassAssumption DEF IInv, BudgetIsExact, Spent, TypeOK
<1>f. IsFiniteSet(Files)
  BY PassAssumption, FS_Interval DEF Files
<1>c. IsFiniteSet(Spent) /\ Cardinality(Spent) \in Nat
  <2>1. Spent \in SUBSET Files
    BY DEF Spent
  <2>2. IsFiniteSet(Spent)
    BY <1>f, <2>1, FS_Subset
  <2> QED
    BY <2>2, FS_CardinalityType
<1>1. CASE Quiet
  <2>1. Spent' = Spent /\ budget' = budget /\ start' = start
    BY <1>1 DEF Quiet, Spent, report
  <2> QED
    BY <1>0, <2>1 DEF BudgetIsExact, Spent
<1>2. CASE Admit
  <2>1. next \in Files /\ next \notin Spent /\ budget > 0 /\ budget' = budget - 1
        /\ start' = start
    BY <1>2, AdmitFacts DEF Spent
  <2>2. Spent' = Spent \cup {next}
    BY <1>2, AdmitFacts DEF Spent, Refunded
  <2>3. Cardinality(Spent') = Cardinality(Spent) + 1
    BY <1>c, <2>1, <2>2, FS_AddElement
  <2>4. budget' + Cardinality(Spent') = start' /\ budget' \in 0..Budget
    BY <1>0, <1>c, <2>1, <2>3
  <2> QED
    BY <2>4 DEF BudgetIsExact, Spent
<1>3. CASE NextRun
  <2>1. Spent' = {}
    BY <1>3 DEF NextRun, Spent
  <2>2. budget' = Budget /\ start' = Budget /\ Cardinality(Spent') = 0
    BY <1>3, <2>1, FS_EmptySet DEF NextRun
  <2>3. budget' + Cardinality(Spent') = start' /\ budget' \in 0..Budget
    BY <1>0, <2>2
  <2> QED
    BY <2>3 DEF BudgetIsExact, Spent
<1>4. ASSUME NEW f \in Files, NEW v \in Decisions, Settling(f, v)
      PROVE  BudgetIsExact' /\ budget' \in 0..Budget
  <2>1. f \in Spent /\ start' = start
    BY <1>4, SettleFacts DEF Spent, Settling, Refunded
  <2>2. CASE out'[f] \in Refunded
    <3>1. Spent' = Spent \ {f}
      BY <1>4, <2>2, SettleFacts DEF Spent
    <3>2. Cardinality(Spent') = Cardinality(Spent) - 1 /\ Cardinality(Spent') \in Nat
      <4>1. IsFiniteSet(Spent \ {f}) /\ Cardinality(Spent \ {f}) = Cardinality(Spent) - 1
        BY <1>c, <2>1, FS_RemoveElement
      <4> QED
        BY <3>1, <4>1, FS_CardinalityType
    <3>3. budget' = budget + 1
      BY <1>4, <2>2, SettleFacts
    <3>4. budget' + Cardinality(Spent') = start' /\ budget' \in 0..Budget
      BY <1>0, <1>c, <2>1, <3>2, <3>3
    <3> QED
      BY <3>4 DEF BudgetIsExact, Spent
  <2>3. CASE out'[f] \notin Refunded
    <3>1. Spent' = Spent
      BY <1>4, <2>1, <2>3, SettleFacts DEF Spent
    <3>2. budget' = budget
      BY <1>4, <2>3, SettleFacts
    <3> QED
      BY <1>0, <2>1, <3>1, <3>2 DEF BudgetIsExact, Spent
  <2> QED
    BY <2>2, <2>3
<1> QED
  BY <1>1, <1>2, <1>3, <1>4, StepKinds

(* What a file is charged is a number. *)
LEMMA ChargeType ==
    ASSUME TypeOK
    PROVE  \A f \in Files : Charge(f) \in Nat
BY PassAssumption DEF TypeOK, Charge

(* The gate's count is the charges of the files in flight, and they fit or *)
(* one of them is alone.                                                   *)
LEMMA GateStep == IInv /\ [Next]_vars => GateHolds' /\ bytes' \in Nat
<1> SUFFICES ASSUME IInv, [Next]_vars PROVE GateHolds' /\ bytes' \in Nat
  OBVIOUS
<1> DEFINE w == [f \in Files |-> Charge(f)]
<1>0. TypeOK /\ bytes = Total(w, InFlight) /\ Gate \in Nat /\ bytes \in Nat
      /\ (bytes <= Gate \/ Cardinality(InFlight) <= 1)
  BY PassAssumption DEF IInv, GateHolds, TypeOK
<1>f. IsFiniteSet(Files)
  BY PassAssumption, FS_Interval DEF Files
<1>c. IsFiniteSet(InFlight) /\ Cardinality(InFlight) \in Nat
  <2>1. InFlight \in SUBSET Files
    BY DEF InFlight
  <2>2. IsFiniteSet(InFlight)
    BY <1>f, <2>1, FS_Subset
  <2> QED
    BY <2>2, FS_CardinalityType
<1>w. \A f \in Files : w[f] \in Nat /\ w[f] = Charge(f)
  BY <1>0, ChargeType
<1>s. InFlight \subseteq Files
  BY DEF InFlight
<1>1. CASE Quiet
  <2>1. InFlight' = InFlight /\ bytes' = bytes /\ record' = record
    BY <1>1 DEF Quiet, InFlight, report
  <2>2. w' = w
    BY <2>1 DEF Charge
  <2> QED
    BY <1>0, <2>1, <2>2 DEF GateHolds
<1>2. CASE Admit
  <2>1. /\ next \in Files /\ next \notin InFlight /\ record' = record
        /\ bytes' = bytes + Charge(next) /\ FitsGate(next)
    BY <1>2, AdmitFacts DEF InFlight
  <2>2. InFlight' = InFlight \cup {next}
    BY <1>2, AdmitFacts DEF InFlight
  <2>3. w' = w
    BY <2>1 DEF Charge
  <2> HIDE DEF w
  <2>4. Total(w, InFlight \cup {next}) = Total(w, InFlight) + w[next]
    BY <1>c, <1>w, <1>s, <2>1, TotalAdd
  <2>5. bytes' = Total(w', InFlight') /\ bytes' \in Nat
    BY <1>0, <1>w, <2>1, <2>2, <2>3, <2>4
  <2>6. bytes' <= Gate \/ Cardinality(InFlight') <= 1
    <3>1. CASE InFlight = {}
      <4>1. InFlight' = {next}
        BY <2>2, <3>1
      <4> QED
        BY <4>1, FS_Singleton
    <3>2. CASE bytes + Charge(next) <= Gate
      BY <2>1, <3>2
    <3> QED
      BY <2>1, <3>1, <3>2 DEF FitsGate
  <2> QED
    BY <2>5, <2>6 DEF GateHolds, w
<1>3. CASE NextRun
  <2>1. InFlight = {} /\ InFlight' = {} /\ bytes' = bytes
    BY <1>3 DEF NextRun, InFlight, IInv, EndInv
  <2>2. bytes = 0 /\ Total(w', {}) = 0
    BY <1>0, <2>1, TotalEmpty
  <2>3. bytes' = Total(w', InFlight') /\ bytes' <= Gate /\ bytes' \in Nat
    BY <1>0, <2>1, <2>2
  <2> QED
    BY <2>3 DEF GateHolds
<1>4. ASSUME NEW f \in Files, NEW v \in Decisions, Settling(f, v)
      PROVE  GateHolds' /\ bytes' \in Nat
  <2> DEFINE S == InFlight \ {f}
  <2>1. f \in InFlight /\ bytes' = bytes - Charge(f)
    BY <1>4, SettleFacts DEF InFlight, Settling
  <2>2. InFlight' = S
    BY <1>4, SettleFacts DEF InFlight
  <2>3. IsFiniteSet(S) /\ Cardinality(S) = Cardinality(InFlight) - 1
    BY <1>c, <2>1, FS_RemoveElement
  <2>4. f \notin S /\ S \cup {f} = InFlight /\ S \subseteq Files
    BY <1>s, <2>1
  <2>5. \A g \in S : w'[g] = w[g]
    BY <1>4, <2>4, SettleFacts DEF Charge
  <2> HIDE DEF S, w
  <2>6. Total(w, InFlight) = Total(w, S) + w[f]
    BY <1>w, <2>3, <2>4, TotalAdd
  <2>7. Total(w', S) = Total(w, S)
    BY <2>5, TotalSame
  <2>8. Total(w, S) \in Nat
    BY <1>w, <2>3, <2>4, TotalFinite
  <2>9. bytes' = Total(w', InFlight') /\ bytes' \in Nat
    BY <1>0, <1>w, <2>1, <2>2, <2>6, <2>7, <2>8
  <2>10. bytes' <= bytes
    BY <1>0, <1>w, <2>1
  <2>11. bytes' <= Gate \/ Cardinality(InFlight') <= 1
    BY <1>0, <1>c, <2>2, <2>3, <2>9, <2>10
  <2> QED
    BY <2>9, <2>11 DEF GateHolds, w
<1> QED
  BY <1>1, <1>2, <1>3, <1>4, StepKinds

-----------------------------------------------------------------------------
(* The accumulator and the groups. *)

(* The files of X, those of the accumulator among them, are divided into   *)
(* new groups and the accumulator that is left.                            *)
Handing(X, G) ==
    /\ groups' = groups \cup G
    /\ \A g \in G : /\ g \in Seq(Files) /\ g # << >> /\ IsInjective(g)
                    /\ Len(g) <= MaxObjects
                    /\ GroupBytes(g) <= MaxBatchBytes \/ Len(g) = 1
                    /\ ToSet(g) \cap ToSet(staged') = {}
    /\ \A g, h \in G : g # h => ToSet(g) \cap ToSet(h) = {}
    /\ staged' \in Seq(Files) /\ IsInjective(staged')
    /\ Len(staged') < MaxObjects
    /\ staged' # << >> => GroupBytes(staged') < MaxBatchBytes
    /\ \A q \in Files :
          /\ q \in X <=> q \in ToSet(staged') \/ \E g \in G : q \in ToSet(g)
          /\ (\E g \in G : q \in ToSet(g)) => pc'[q] = "grouped"
          /\ q \in ToSet(staged') => pc'[q] = "staged"
          /\ q \notin X => pc'[q] = pc[q]

(* Sending the accumulator hands it over. *)
LEMMA FlushHands ==
    ASSUME IInv, groups' = Flushed(staged), pc' = Handed(staged), staged' = << >>
    PROVE  \E G \in SUBSET Seq(Files) : Handing(ToSet(staged), G)
<1> DEFINE G == IF staged = << >> THEN {} ELSE {staged}
<1>0. /\ staged \in Seq(Files) /\ IsInjective(staged)
      /\ Len(staged) < MaxObjects /\ Len(staged) \in Nat
      /\ staged # << >> => GroupBytes(staged) < MaxBatchBytes
      /\ pc \in [Files -> {"queued", "waiting", "reading", "result", "staged",
                           "grouped", "sending", "answered", "settled"}]
  BY SeqFacts DEF IInv, TypeOK, QueueInv, SizeInv
<1>1. GroupBytes(staged) \in Nat \/ Files = {}
  BY <1>0, GroupBytesFacts
<1>2. staged # << >> => GroupBytes(staged) <= MaxBatchBytes
  <2>1. staged # << >> => Files # {}
    BY <1>0, SeqFacts
  <2> QED
    BY <1>0, <1>1, <2>1, PassAssumption
<1>3. ToSet(staged') = {} /\ Len(staged') = 0 /\ staged' \in Seq(Files)
      /\ IsInjective(staged')
  BY DEF ToSet, IsInjective
<1>4. MaxObjects \in Nat /\ MaxObjects >= 1
  BY MaxObjectsBound
<1>5. Len(staged) <= MaxObjects /\ Len(staged') < MaxObjects
  BY <1>0, <1>3, <1>4
<1>6. groups' = groups \cup G
  BY DEF Flushed
<1>7. \A q \in Files : q \in ToSet(staged) <=> \E g \in G : q \in ToSet(g)
  BY <1>0, SeqFacts
<1>8. \A q \in Files : pc'[q] = IF q \in ToSet(staged) THEN "grouped" ELSE pc[q]
  BY DEF Handed
<1>9. \A g \in G : g = staged /\ staged # << >>
  OBVIOUS
<1>10. G \in SUBSET Seq(Files)
  BY <1>0
<1> HIDE DEF G
<1>11. Handing(ToSet(staged), G)
  BY <1>0, <1>2, <1>3, <1>5, <1>6, <1>7, <1>8, <1>9 DEF Handing
<1> QED
  BY <1>10, <1>11

(* Adding a sealed file hands over what it fills or would overfill. *)
LEMMA AddHands ==
    ASSUME IInv, NEW f \in Files, pc[f] = "result", Add(f)
    PROVE  \E G \in SUBSET Seq(Files) : Handing(ToSet(staged) \cup {f}, G)
<1> DEFINE before == staged # << >> /\ GroupBytes(staged) + Sealed[f] > MaxBatchBytes
           s == IF before THEN <<f>> ELSE Append(staged, f)
           full == Len(s) >= MaxObjects \/ GroupBytes(s) >= MaxBatchBytes
           G == (IF before THEN {staged} ELSE {}) \cup (IF full THEN {s} ELSE {})
           handed == UNION {ToSet(g) : g \in G}
<1>0. /\ staged \in Seq(Files) /\ IsInjective(staged) /\ f \notin ToSet(staged)
      /\ Len(staged) < MaxObjects /\ Len(staged) \in Nat
      /\ staged # << >> => GroupBytes(staged) < MaxBatchBytes
      /\ pc \in [Files -> {"queued", "waiting", "reading", "result", "staged",
                           "grouped", "sending", "answered", "settled"}]
      /\ \A q \in Files : q \in ToSet(staged) => pc[q] = "staged"
      /\ ToSet(staged) \subseteq Files
      /\ staged = << >> => ToSet(staged) = {}
  BY SeqFacts DEF IInv, TypeOK, QueueInv, SizeInv
<1>1. /\ GroupBytes(staged) \in Nat /\ Sealed[f] \in Nat /\ MaxBatchBytes \in Nat
      /\ GroupBytes(Append(staged, f)) = GroupBytes(staged) + Sealed[f]
      /\ GroupBytes(<<f>>) = Sealed[f]
  BY <1>0, GroupBytesFacts, SingleBytes, PassAssumption
<1>2. MaxObjects \in Nat /\ MaxObjects >= 1
  BY MaxObjectsBound
<1>3. /\ groups' = groups \cup G
      /\ staged' = IF full THEN << >> ELSE s
      /\ pc' = [g \in Files |-> CASE g \in handed -> "grouped"
                                  [] g = f /\ g \notin handed -> "staged"
                                  [] OTHER -> pc[g]]
  BY DEF Add
<1>4. /\ s \in Seq(Files) /\ s # << >> /\ IsInjective(s)
      /\ ToSet(s) = IF before THEN {f} ELSE ToSet(staged) \cup {f}
      /\ Len(s) = IF before THEN 1 ELSE Len(staged) + 1
      /\ GroupBytes(s) = IF before THEN Sealed[f] ELSE GroupBytes(staged) + Sealed[f]
  BY <1>0, <1>1, SingleFacts, AppendFacts
<1>5. before => staged # << >> /\ GroupBytes(staged) <= MaxBatchBytes
                /\ Len(staged) <= MaxObjects
  BY <1>0, <1>1, <1>2
<1>6. Len(s) <= MaxObjects /\ (GroupBytes(s) <= MaxBatchBytes \/ Len(s) = 1)
  <2>1. CASE before
    BY <1>2, <1>4, <2>1
  <2>2. CASE ~before
    <3>1. Len(staged) + 1 <= MaxObjects
      BY <1>0, <1>2
    <3>2. CASE staged = << >>
      BY <1>4, <2>2, <3>1, <3>2
    <3>3. CASE staged # << >>
      <4>1. GroupBytes(staged) + Sealed[f] <= MaxBatchBytes
        BY <1>1, <2>2, <3>3
      <4> QED
        BY <1>4, <2>2, <3>1, <4>1
    <3> QED
      BY <3>2, <3>3
  <2> QED
    BY <2>1, <2>2
<1>7. ~full => Len(s) < MaxObjects /\ GroupBytes(s) < MaxBatchBytes
  BY <1>0, <1>1, <1>2, <1>4
<1>8. << >> \in Seq(Files) /\ IsInjective(<< >>) /\ ToSet(<< >>) = {} /\ Len(<< >>) = 0
  BY DEF ToSet, IsInjective
<1>9. \A g \in G : (g = staged /\ before) \/ (g = s /\ full)
  OBVIOUS
<1>10. (before => staged \in G) /\ (full => s \in G)
  OBVIOUS
<1>11. \A q \in Files : q \in handed <=> \E g \in G : q \in ToSet(g)
  OBVIOUS
<1> HIDE DEF G, handed, full, s, before
<1>12. G \in SUBSET Seq(Files)
  BY <1>0, <1>4, <1>9
<1>13. \A g \in G : /\ g \in Seq(Files) /\ g # << >> /\ IsInjective(g)
                    /\ Len(g) <= MaxObjects
                    /\ GroupBytes(g) <= MaxBatchBytes \/ Len(g) = 1
  BY <1>0, <1>4, <1>5, <1>6, <1>9
<1>14. /\ staged' \in Seq(Files) /\ IsInjective(staged')
       /\ Len(staged') < MaxObjects
       /\ staged' # << >> => GroupBytes(staged') < MaxBatchBytes
       /\ ToSet(staged') = IF full THEN {} ELSE ToSet(s)
  <2>1. CASE full
    <3>1. staged' = << >> /\ 0 < MaxObjects
      BY <1>2, <1>3, <2>1
    <3> QED
      BY <1>8, <2>1, <3>1
  <2>2. CASE ~full
    <3>1. staged' = s
      BY <1>3, <2>2
    <3> QED
      BY <1>4, <1>7, <2>2, <3>1
  <2> QED
    BY <2>1, <2>2
<1>15. \A g \in G : ToSet(g) \cap ToSet(staged') = {}
  BY <1>0, <1>4, <1>9, <1>14
<1>16. \A g, h \in G : g # h => ToSet(g) \cap ToSet(h) = {}
  BY <1>0, <1>4, <1>9
<1>17. \A q \in Files : q \in ToSet(staged) \cup {f}
                           <=> q \in ToSet(staged') \/ \E g \in G : q \in ToSet(g)
  <2> SUFFICES ASSUME NEW q \in Files
               PROVE  q \in ToSet(staged) \cup {f}
                         <=> q \in ToSet(staged') \/ \E g \in G : q \in ToSet(g)
    OBVIOUS
  <2>1. q \in ToSet(staged) \cup {f} => q \in ToSet(s) \/ (before /\ q \in ToSet(staged))
    BY <1>4
  <2>2. q \in ToSet(s) => q \in ToSet(staged') \/ \E g \in G : q \in ToSet(g)
    BY <1>10, <1>14
  <2>3. before /\ q \in ToSet(staged) => \E g \in G : q \in ToSet(g)
    BY <1>10
  <2>4. ASSUME NEW g \in G, q \in ToSet(g) PROVE q \in ToSet(staged) \cup {f}
    BY <1>4, <1>9, <2>4
  <2>5. q \in ToSet(staged') => q \in ToSet(staged) \cup {f}
    BY <1>4, <1>14
  <2> QED
    BY <2>1, <2>2, <2>3, <2>4, <2>5
<1>18. \A q \in Files :
          /\ (\E g \in G : q \in ToSet(g)) => pc'[q] = "grouped"
          /\ q \in ToSet(staged') => pc'[q] = "staged"
          /\ q \notin ToSet(staged) \cup {f} => pc'[q] = pc[q]
  <2> SUFFICES ASSUME NEW q \in Files
               PROVE  /\ q \in handed => pc'[q] = "grouped"
                      /\ q \in ToSet(staged') => pc'[q] = "staged"
                      /\ q \notin ToSet(staged) \cup {f} => pc'[q] = pc[q]
    BY <1>11
  <2>1. q \in ToSet(staged') => q \notin handed
    BY <1>11, <1>15
  <2>2. q \in handed \/ q \in ToSet(staged') => q \in ToSet(staged) \cup {f}
    BY <1>11, <1>17
  <2>3. q \in ToSet(staged) => pc[q] = "staged"
    BY <1>0
  <2> QED
    BY <1>3, <2>1, <2>2, <2>3
<1>19. Handing(ToSet(staged) \cup {f}, G)
  BY <1>3, <1>13, <1>14, <1>15, <1>16, <1>17, <1>18 DEF Handing
<1> QED
  BY <1>12, <1>19

(* Whatever is handed over, each file stays in one place. *)
LEMMA HandingKeeps ==
    ASSUME IInv, NEW X \in SUBSET Files, NEW G \in SUBSET Seq(Files),
           ToSet(staged) \subseteq X,
           \A q \in X : pc[q] \in {"staged", "result"},
           Handing(X, G), UNCHANGED <<todo, verdict>>, todo = << >>
    PROVE  VerdictInv' /\ QueueInv' /\ GroupInv' /\ SizeInv'
<1>0. VerdictInv /\ QueueInv /\ GroupInv /\ SizeInv /\ TypeOK
  BY DEF IInv
<1>1. \A q \in Files :
         /\ q \in X <=> q \in ToSet(staged') \/ \E g \in G : q \in ToSet(g)
         /\ (\E g \in G : q \in ToSet(g)) => pc'[q] = "grouped"
         /\ q \in ToSet(staged') => pc'[q] = "staged"
         /\ q \notin X => pc'[q] = pc[q]
  BY DEF Handing
<1>2. groups' = groups \cup G /\ ToSet(todo) = {}
  BY DEF Handing, ToSet
<1>3. \A g \in groups : ToSet(g) \subseteq Files /\ ToSet(g) \cap X = {}
  <2> SUFFICES ASSUME NEW g \in groups, NEW q \in ToSet(g)
               PROVE  q \in Files /\ q \notin X
    OBVIOUS
  <2>1. q \in Files
    BY <1>0, SeqFacts DEF TypeOK
  <2>2. pc[q] \in Grouped
    BY <1>0 DEF GroupInv
  <2> QED
    BY <2>1, <2>2 DEF Grouped
<1>4. \A g \in G : ToSet(g) \subseteq X
  <2>1. \A g \in G : ToSet(g) \subseteq Files
    BY SeqFacts
  <2> QED
    BY <1>1, <2>1
<1>5. VerdictInv'
  <2> SUFFICES ASSUME NEW q \in Files
               PROVE  /\ pc'[q] = "result" => verdict[q] \in Prepared \cup {"failed"}
                      /\ pc'[q] = "answered" => verdict[q] \in Answers
    BY DEF VerdictInv
  <2>1. CASE q \in X
    BY <1>1, <2>1
  <2>2. CASE q \notin X
    BY <1>0, <1>1, <2>2 DEF VerdictInv
  <2> QED
    BY <2>1, <2>2
<1>6. QueueInv'
  <2>1. IsInjective(staged') /\ IsInjective(todo') /\ todo' = << >> /\ ToSet(todo') = {}
    BY <1>0, <1>2 DEF Handing, QueueInv
  <2>2. \A q \in Files : pc'[q] = "staged" <=> q \in ToSet(staged')
    <3> SUFFICES ASSUME NEW q \in Files PROVE pc'[q] = "staged" <=> q \in ToSet(staged')
      OBVIOUS
    <3>1. CASE q \in X
      BY <1>1, <3>1
    <3>2. CASE q \notin X
      BY <1>0, <1>1, <3>2 DEF QueueInv
    <3> QED
      BY <3>1, <3>2
  <2> QED
    BY <2>1, <2>2 DEF QueueInv
<1>7. GroupInv'
  <2>1. ASSUME NEW g \in groups'
        PROVE  /\ g # << >> /\ IsInjective(g)
               /\ ToSet(g) \cap ToSet(todo') = {}
               /\ \E p \in Grouped : \A q \in ToSet(g) : pc'[q] = p
    <3>1. CASE g \in groups
      <4>1. PICK p \in Grouped : \A q \in ToSet(g) : pc[q] = p
        BY <1>0, <3>1 DEF GroupInv
      <4>2. \A q \in ToSet(g) : pc'[q] = p
        BY <1>1, <1>3, <3>1, <4>1
      <4> QED
        BY <1>0, <1>2, <3>1, <4>2 DEF GroupInv
    <3>2. CASE g \in G
      <4>1. \A q \in ToSet(g) : pc'[q] = "grouped"
        BY <1>1, <1>4, <3>2
      <4> QED
        BY <1>2, <3>2, <4>1 DEF Grouped, Handing
    <3> QED
      BY <1>2, <2>1, <3>1, <3>2
  <2>2. \A g, h \in groups' : g # h => ToSet(g) \cap ToSet(h) = {}
    <3> SUFFICES ASSUME NEW g \in groups', NEW h \in groups', g # h
                 PROVE  ToSet(g) \cap ToSet(h) = {}
      OBVIOUS
    <3>1. CASE g \in groups /\ h \in groups
      BY <1>0, <3>1 DEF GroupInv
    <3>2. CASE g \in G /\ h \in G
      BY <3>2 DEF Handing
    <3>3. CASE (g \in groups /\ h \in G) \/ (g \in G /\ h \in groups)
      BY <1>3, <1>4, <3>3
    <3> QED
      BY <1>2, <3>1, <3>2, <3>3
  <2>3. ASSUME NEW q \in Files, pc'[q] \in Grouped
        PROVE  \E g \in groups' : q \in ToSet(g)
    <3>1. CASE q \in X
      BY <1>1, <1>2, <2>3, <3>1 DEF Grouped
    <3>2. CASE q \notin X
      BY <1>0, <1>1, <1>2, <2>3, <3>2 DEF GroupInv, Grouped
    <3> QED
      BY <3>1, <3>2
  <2> QED
    BY <2>1, <2>2, <2>3 DEF GroupInv, Grouped
<1>8. SizeInv'
  <2>1. \A g \in G : Len(g) <= MaxObjects /\ (GroupBytes(g) <= MaxBatchBytes \/ Len(g) = 1)
    BY DEF Handing
  <2>2. Len(staged') < MaxObjects /\ (staged' # << >> => GroupBytes(staged') < MaxBatchBytes)
    BY DEF Handing
  <2> QED
    BY <1>0, <1>2, <2>1, <2>2 DEF SizeInv, GroupBytes
<1> QED
  BY <1>5, <1>6, <1>7, <1>8

Places == VerdictInv /\ QueueInv /\ GroupInv /\ SizeInv

(* With nothing in flight the queues are empty. *)
LEMMA NothingQueued ==
    ASSUME IInv, InFlight = {}
    PROVE  staged = << >> /\ groups = {} /\ todo = << >>
<1>0. TypeOK /\ QueueInv /\ GroupInv
  BY DEF IInv
<1>1. \A f \in Files : pc[f] \in {"queued", "settled"}
  BY DEF InFlight
<1>2. staged = << >>
  BY <1>0, <1>1, SeqFacts DEF QueueInv, TypeOK
<1>3. todo = << >>
  BY <1>0, <1>1, SeqFacts DEF QueueInv, TypeOK
<1>4. ASSUME NEW g \in groups PROVE FALSE
  <2>1. g \in Seq(Files) /\ g # << >>
    BY <1>0 DEF GroupInv, TypeOK
  <2>2. PICK f \in ToSet(g) : f \in Files
    BY <2>1, SeqFacts
  <2>3. pc[f] \in Grouped
    BY <1>0 DEF GroupInv
  <2> QED
    BY <1>1, <2>2, <2>3 DEF Grouped
<1> QED
  BY <1>2, <1>3, <1>4

(* A file that is in no queue may move without disturbing any. *)
LEMMA LoneFileKeeps ==
    ASSUME IInv, NEW f \in Files,
           pc[f] \in {"queued", "waiting", "reading", "result"},
           pc'[f] \in {"waiting", "reading", "result", "settled"},
           pc'[f] = "result" => verdict'[f] \in Prepared \cup {"failed"},
           \A q \in Files : q # f => pc'[q] = pc[q] /\ verdict'[q] = verdict[q],
           UNCHANGED queues, loop' = loop \/ todo = << >>
    PROVE  Places'
<1>0. TypeOK /\ VerdictInv /\ QueueInv /\ GroupInv /\ SizeInv
  BY DEF IInv
<1>1. UNCHANGED <<staged, groups, todo>>
  BY DEF queues
<1>2. f \notin ToSet(staged) /\ f \notin ToSet(todo)
  BY <1>0 DEF QueueInv
<1>3. \A g \in groups : f \notin ToSet(g) /\ ToSet(g) \subseteq Files
  <2>1. \A g \in groups : ToSet(g) \subseteq Files
    BY <1>0, SeqFacts DEF TypeOK
  <2>2. \A g \in groups : \A q \in ToSet(g) : pc[q] \in Grouped
    BY <1>0 DEF GroupInv
  <2> QED
    BY <2>1, <2>2 DEF Grouped
<1>4. ToSet(todo) \subseteq Files
  BY <1>0, SeqFacts DEF TypeOK
<1>5. VerdictInv'
  BY <1>0 DEF VerdictInv
<1>6. QueueInv'
  BY <1>0, <1>1, <1>2, <1>4 DEF QueueInv
<1>7. GroupInv'
  <2>1. \A g \in groups : \E p \in Grouped : \A q \in ToSet(g) : pc'[q] = p
    <3> SUFFICES ASSUME NEW g \in groups
                 PROVE  \E p \in Grouped : \A q \in ToSet(g) : pc'[q] = p
      OBVIOUS
    <3>1. PICK p \in Grouped : \A q \in ToSet(g) : pc[q] = p
      BY <1>0 DEF GroupInv
    <3> QED
      BY <1>3, <3>1
  <2>2. \A q \in Files : pc'[q] \in Grouped => pc[q] = pc'[q]
    BY DEF Grouped
  <2> QED
    BY <1>0, <1>1, <2>1, <2>2 DEF GroupInv, Grouped
<1>8. SizeInv'
  BY <1>0, <1>1 DEF SizeInv, GroupBytes
<1> QED
  BY <1>5, <1>6, <1>7, <1>8 DEF Places

(* A group moves as one. *)
LEMMA GroupMoves ==
    ASSUME IInv, NEW g \in groups, NEW p \in {"sending", "answered"},
           pc' = [f \in Files |-> IF f \in ToSet(g) THEN p ELSE pc[f]],
           p = "answered" => \A f \in ToSet(g) : verdict'[f] \in Answers,
           \A f \in Files : f \notin ToSet(g) => verdict'[f] = verdict[f],
           UNCHANGED <<queues, loop>>
    PROVE  Places'
<1>0. TypeOK /\ VerdictInv /\ QueueInv /\ GroupInv /\ SizeInv
  BY DEF IInv
<1>1. UNCHANGED <<staged, groups, todo, loop>>
  BY DEF queues
<1>2. ToSet(g) \subseteq Files /\ ToSet(todo) \subseteq Files
  BY <1>0, SeqFacts DEF TypeOK
<1>3. /\ \A f \in ToSet(g) : pc'[f] = p /\ pc[f] \in Grouped
      /\ \A f \in Files \ ToSet(g) : pc'[f] = pc[f]
  BY <1>0, <1>2 DEF GroupInv
<1>4. VerdictInv'
  BY <1>0, <1>2, <1>3 DEF VerdictInv
<1>5. QueueInv'
  <2>1. \A f \in Files : pc'[f] = "staged" <=> f \in ToSet(staged)
    BY <1>0, <1>2, <1>3 DEF QueueInv, Grouped
  <2>2. \A f \in ToSet(todo) : pc'[f] = "answered"
    BY <1>0, <1>2, <1>3 DEF QueueInv, GroupInv
  <2> QED
    BY <1>0, <1>1, <2>1, <2>2 DEF QueueInv
<1>6. GroupInv'
  <2>1. \A h \in groups : \E r \in Grouped : \A f \in ToSet(h) : pc'[f] = r
    <3> SUFFICES ASSUME NEW h \in groups
                 PROVE  \E r \in Grouped : \A f \in ToSet(h) : pc'[f] = r
      OBVIOUS
    <3>1. CASE h = g
      BY <1>3, <3>1 DEF Grouped
    <3>2. CASE h # g
      <4>1. ToSet(h) \cap ToSet(g) = {} /\ ToSet(h) \subseteq Files
        BY <1>0, <3>2, SeqFacts DEF GroupInv, TypeOK
      <4>2. PICK r \in Grouped : \A f \in ToSet(h) : pc[f] = r
        BY <1>0 DEF GroupInv
      <4> QED
        BY <1>3, <4>1, <4>2
    <3> QED
      BY <3>1, <3>2
  <2>2. \A f \in Files : pc'[f] = pc[f] \/ f \in ToSet(g)
    BY <1>3
  <2> QED
    BY <1>0, <1>1, <2>1, <2>2 DEF GroupInv, Grouped
<1>7. SizeInv'
  BY <1>0, <1>1 DEF SizeInv, GroupBytes
<1> QED
  BY <1>4, <1>5, <1>6, <1>7 DEF Places

(* Every file is in one place, and every group can be sent. *)
LEMMA PlacesStep == IInv /\ [Next]_vars => Places'
<1> SUFFICES ASSUME IInv, [Next]_vars PROVE Places'
  OBVIOUS
<1>0. TypeOK /\ VerdictInv /\ QueueInv /\ GroupInv /\ SizeInv
  BY DEF IInv
<1>s. /\ ToSet(staged) \subseteq Files /\ ToSet(todo) \subseteq Files
      /\ \A g \in groups : ToSet(g) \subseteq Files
  BY <1>0, SeqFacts DEF TypeOK
<1> USE DEF report, latches, queues
<1>a. ASSUME UNCHANGED <<pc, verdict, queues>>, loop' = loop \/ todo = << >>
      PROVE  Places'
  <2>1. VerdictInv' /\ QueueInv'
    BY <1>0, <1>a DEF VerdictInv, QueueInv
  <2>2. GroupInv' /\ SizeInv'
    BY <1>0, <1>a DEF GroupInv, SizeInv, GroupBytes
  <2> QED
    BY <2>1, <2>2 DEF Places
<1>1. CASE UNCHANGED vars
  BY <1>1, <1>a DEF vars
<1>2. CASE Cancel
  BY <1>2, <1>a DEF Cancel
<1>3. CASE Admit
  <2>1. /\ next \in Files /\ pc[next] = "queued" /\ pc'[next] = "waiting"
        /\ \A f \in Files : f # next => pc'[f] = pc[f]
    BY <1>3, AdmitFacts
  <2>2. UNCHANGED <<verdict, queues, loop>>
    BY <1>3 DEF Admit
  <2> QED
    BY <2>1, <2>2, LoneFileKeeps
<1>4. CASE StopAdmitting
  <2>1. todo = << >> /\ UNCHANGED <<todo, verdict>>
    BY <1>0, <1>4 DEF StopAdmitting, QueueInv
  <2>2. CASE Computing = {}
    <3>1. groups' = Flushed(staged) /\ pc' = Handed(staged) /\ staged' = << >>
      BY <1>4, <2>2 DEF StopAdmitting
    <3>2. PICK G \in SUBSET Seq(Files) : Handing(ToSet(staged), G)
      BY <3>1, FlushHands
    <3>3. \A q \in ToSet(staged) : pc[q] \in {"staged", "result"}
      BY <1>0, <1>s DEF QueueInv
    <3> QED
      BY <1>s, <2>1, <3>2, <3>3, HandingKeeps DEF Places
  <2>3. CASE Computing # {}
    BY <1>4, <1>a, <2>1, <2>3 DEF StopAdmitting
  <2> QED
    BY <2>2, <2>3
<1>5. ASSUME NEW f \in Files, Start(f)
      PROVE  Places'
  BY <1>0, <1>5, LoneFileKeeps DEF Start, TypeOK
<1>6. ASSUME NEW f \in Files, Prepare(f)
      PROVE  Places'
  <2>1. pc[f] = "reading" /\ pc'[f] = "result" /\ UNCHANGED <<queues, loop>>
    BY <1>0, <1>6 DEF Prepare, TypeOK
  <2>2. PICK v \in Prepared \cup {"failed"} : verdict' = [verdict EXCEPT ![f] = v]
    BY <1>6 DEF Prepare, Prepared
  <2>3. verdict'[f] \in Prepared \cup {"failed"}
    BY <1>0, <2>2 DEF TypeOK
  <2>4. \A q \in Files : q # f => pc'[q] = pc[q] /\ verdict'[q] = verdict[q]
    BY <1>0, <1>6, <2>2 DEF TypeOK, Prepare
  <2> QED
    BY <2>1, <2>3, <2>4, LoneFileKeeps
<1>7. ASSUME NEW f \in Files, Receive(f)
      PROVE  Places'
  <2>1. todo = << >> /\ UNCHANGED <<todo, verdict>> /\ pc[f] = "result"
    BY <1>0, <1>7 DEF Receive, QueueInv
  <2>2. CASE verdict[f] = "sealed" /\ ~fatal /\ ~halted
    <3>1. Add(f)
      BY <1>7, <2>2 DEF Receive
    <3>2. PICK G \in SUBSET Seq(Files) : Handing(ToSet(staged) \cup {f}, G)
      BY <2>1, <3>1, AddHands
    <3>3. \A q \in ToSet(staged) \cup {f} : pc[q] \in {"staged", "result"}
      BY <1>0, <1>s, <2>1 DEF QueueInv
    <3>4. ToSet(staged) \cup {f} \in SUBSET Files
      BY <1>s
    <3> QED
      BY <2>1, <3>2, <3>3, <3>4, HandingKeeps DEF Places
  <2>3. CASE ~(verdict[f] = "sealed" /\ ~fatal /\ ~halted)
    <3>1. pc' = [pc EXCEPT ![f] = "settled"] /\ UNCHANGED <<staged, groups>>
      BY <1>7, <2>3 DEF Receive
    <3>2. pc'[f] = "settled" /\ \A q \in Files : q # f => pc'[q] = pc[q]
      BY <1>0, <3>1 DEF TypeOK
    <3> QED
      BY <2>1, <3>1, <3>2, LoneFileKeeps
  <2> QED
    BY <2>2, <2>3
<1>8. ASSUME NEW g \in groups, SendGroup(g)
      PROVE  Places'
  BY <1>8, GroupMoves DEF SendGroup
<1>9. ASSUME NEW g \in groups, AnswerGroup(g)
      PROVE  Places'
  <2>1. PICK a \in AnswersFor(ToSet(g)) :
           verdict' = [f \in Files |-> IF f \in ToSet(g) THEN a[f] ELSE verdict[f]]
    BY <1>9 DEF AnswerGroup
  <2>2. \A f \in ToSet(g) : verdict'[f] \in Answers
    BY <1>s, <2>1, AnswerFacts
  <2>3. \A f \in Files : f \notin ToSet(g) => verdict'[f] = verdict[f]
    BY <2>1
  <2>4. /\ pc' = [f \in Files |-> IF f \in ToSet(g) THEN "answered" ELSE pc[f]]
        /\ UNCHANGED <<queues, loop>>
    BY <1>9 DEF AnswerGroup
  <2> QED
    BY <2>2, <2>3, <2>4, GroupMoves
<1>10. ASSUME NEW g \in groups, ReceiveGroup(g)
       PROVE  Places'
  <2>1. /\ groups' = groups \ {g} /\ todo' = g /\ loop' = "settling"
        /\ UNCHANGED <<pc, verdict, staged>> /\ \A f \in ToSet(g) : pc[f] = "answered"
    BY <1>10 DEF ReceiveGroup
  <2>2. todo = << >> /\ ToSet(todo) = {}
    BY <1>0, <1>10 DEF ReceiveGroup, QueueInv, ToSet
  <2>3. VerdictInv'
    BY <1>0, <2>1 DEF VerdictInv
  <2>4. QueueInv'
    BY <1>0, <2>1 DEF QueueInv, GroupInv
  <2>5. GroupInv'
    <3>1. \A h \in groups' : ToSet(h) \cap ToSet(g) = {}
      BY <1>0, <2>1 DEF GroupInv
    <3>2. \A f \in Files : \A h \in groups : f \in ToSet(h) => f \in ToSet(g) \/ h \in groups'
      BY <2>1
    <3>3. \A f \in Files : pc[f] \in {"grouped", "sending"} => f \notin ToSet(g)
      BY <2>1
    <3>4. \A h \in groups' : /\ h # << >> /\ IsInjective(h)
                             /\ \E p \in Grouped : \A f \in ToSet(h) : pc'[f] = p
      BY <1>0, <2>1 DEF GroupInv
    <3>5. \A h, k \in groups' : h # k => ToSet(h) \cap ToSet(k) = {}
      BY <1>0, <2>1 DEF GroupInv
    <3>6. \A f \in Files : pc'[f] \in {"grouped", "sending"} =>
             \E h \in groups' : f \in ToSet(h)
      BY <1>0, <2>1, <3>2, <3>3 DEF GroupInv
    <3>7. \A f \in Files : pc'[f] = "answered" =>
             f \in ToSet(todo') \/ \E h \in groups' : f \in ToSet(h)
      BY <1>0, <2>1, <2>2, <3>2 DEF GroupInv
    <3> QED
      BY <2>1, <3>1, <3>4, <3>5, <3>6, <3>7 DEF GroupInv
  <2>6. SizeInv'
    BY <1>0, <2>1 DEF SizeInv, GroupBytes
  <2> QED
    BY <2>3, <2>4, <2>5, <2>6 DEF Places
<1>11. CASE SettleNext
  <2> DEFINE f == Head(todo)
  <2>1. /\ f \in Files /\ f \in ToSet(todo) /\ todo' = Tail(todo)
        /\ IsInjective(todo') /\ ToSet(todo') = ToSet(todo) \ {f}
    BY <1>0, <1>11, TailFacts DEF SettleNext, QueueInv, TypeOK
  <2>2. /\ pc' = [pc EXCEPT ![f] = "settled"] /\ UNCHANGED <<verdict, staged, groups>>
        /\ loop' = "settling"
    BY <1>11 DEF SettleNext
  <2> HIDE DEF f
  <2>3. /\ pc'[f] = "settled" /\ pc[f] = "answered"
        /\ \A q \in Files : q # f => pc'[q] = pc[q]
    BY <1>0, <2>1, <2>2 DEF TypeOK, QueueInv
  <2>4. \A g \in groups : f \notin ToSet(g)
    BY <1>0, <2>1 DEF GroupInv
  <2>5. VerdictInv'
    BY <1>0, <2>2, <2>3 DEF VerdictInv
  <2>6. QueueInv'
    <3>1. \A q \in Files : pc'[q] = "staged" <=> q \in ToSet(staged')
      BY <1>0, <2>2, <2>3 DEF QueueInv
    <3>2. \A q \in ToSet(todo') : pc'[q] = "answered"
      BY <1>0, <1>s, <2>1, <2>3 DEF QueueInv
    <3> QED
      BY <1>0, <2>1, <2>2, <3>1, <3>2 DEF QueueInv
  <2>7. GroupInv'
    <3>1. \A g \in groups : \E p \in Grouped : \A q \in ToSet(g) : pc'[q] = p
      <4> SUFFICES ASSUME NEW g \in groups
                   PROVE  \E p \in Grouped : \A q \in ToSet(g) : pc'[q] = p
        OBVIOUS
      <4>1. PICK p \in Grouped : \A q \in ToSet(g) : pc[q] = p
        BY <1>0 DEF GroupInv
      <4> QED
        BY <1>s, <2>3, <2>4, <4>1
    <3>2. \A g \in groups : ToSet(g) \cap ToSet(todo') = {}
      BY <1>0, <2>1 DEF GroupInv
    <3>3. \A q \in Files : pc'[q] \in {"grouped", "sending"} =>
             \E g \in groups : q \in ToSet(g)
      BY <1>0, <2>3 DEF GroupInv
    <3>4. \A q \in Files : pc'[q] = "answered" =>
             q \in ToSet(todo') \/ \E g \in groups : q \in ToSet(g)
      BY <1>0, <2>1, <2>3 DEF GroupInv
    <3> QED
      BY <1>0, <2>2, <3>1, <3>2, <3>3, <3>4 DEF GroupInv
  <2>8. SizeInv'
    BY <1>0, <2>2 DEF SizeInv, GroupBytes
  <2> QED
    BY <2>5, <2>6, <2>7, <2>8 DEF Places
<1>12. CASE DrainStaged
  <2>1. todo = << >> /\ ToSet(todo) = {}
    BY <1>12 DEF DrainStaged, ToSet
  <2>2. CASE staged # << >> /\ (fatal \/ halted)
    <3>1. /\ todo' = staged /\ staged' = << >> /\ loop' = "settling"
          /\ verdict' = [f \in Files |-> IF f \in ToSet(staged)
                                         THEN Abandoned ELSE verdict[f]]
          /\ pc' = [f \in Files |-> IF f \in ToSet(staged) THEN "answered" ELSE pc[f]]
          /\ UNCHANGED groups
      BY <1>12, <2>2 DEF DrainStaged
    <3>2. ToSet(staged') = {} /\ IsInjective(staged') /\ Len(staged') = 0
      BY <3>1 DEF ToSet, IsInjective
    <3>3. Abandoned \in Answers
      BY DEF Abandoned, Answers
    <3>4. \A f \in ToSet(staged) : pc[f] = "staged"
      BY <1>0, <1>s DEF QueueInv
    <3>5. \A g \in groups : ToSet(g) \cap ToSet(staged) = {}
      BY <1>0, <1>s, <3>4 DEF GroupInv, Grouped
    <3>6. VerdictInv'
      BY <1>0, <3>1, <3>3 DEF VerdictInv
    <3>7. QueueInv'
      <4>1. \A f \in Files : pc'[f] # "staged"
        BY <1>0, <3>1 DEF QueueInv
      <4>2. \A f \in ToSet(todo') : pc'[f] = "answered"
        BY <1>s, <3>1
      <4> QED
        BY <1>0, <3>1, <3>2, <4>1, <4>2 DEF QueueInv
    <3>8. GroupInv'
      <4>1. \A g \in groups : \E p \in Grouped : \A f \in ToSet(g) : pc'[f] = p
        <5> SUFFICES ASSUME NEW g \in groups
                     PROVE  \E p \in Grouped : \A f \in ToSet(g) : pc'[f] = p
          OBVIOUS
        <5>1. PICK p \in Grouped : \A f \in ToSet(g) : pc[f] = p
          BY <1>0 DEF GroupInv
        <5> QED
          BY <1>s, <3>1, <3>5, <5>1
      <4>2. \A f \in Files : pc'[f] \in {"grouped", "sending"} =>
               \E g \in groups : f \in ToSet(g)
        BY <1>0, <3>1 DEF GroupInv
      <4>3. \A f \in Files : pc'[f] = "answered" =>
               f \in ToSet(todo') \/ \E g \in groups : f \in ToSet(g)
        BY <1>0, <2>1, <3>1 DEF GroupInv
      <4> QED
        BY <1>0, <3>1, <3>5, <4>1, <4>2, <4>3 DEF GroupInv
    <3>9. SizeInv'
      <4>1. 0 < MaxObjects
        BY MaxObjectsBound
      <4> QED
        BY <1>0, <3>1, <3>2, <4>1 DEF SizeInv, GroupBytes
    <3> QED
      BY <3>6, <3>7, <3>8, <3>9 DEF Places
  <2>3. CASE ~(staged # << >> /\ (fatal \/ halted))
    BY <1>12, <1>a, <2>1, <2>3 DEF DrainStaged
  <2> QED
    BY <2>2, <2>3
<1>13. CASE NextRun
  <2>1. InFlight = {}
    BY <1>13 DEF NextRun, IInv, EndInv
  <2>2. staged' = << >> /\ groups' = {} /\ todo' = << >> /\ staged = << >>
    BY <1>13, <2>1, NothingQueued DEF NextRun
  <2>3. \A f \in Files : pc'[f] = "queued"
    BY <1>13 DEF NextRun
  <2>4. ToSet(<< >>) = {} /\ IsInjective(<< >>)
    BY DEF ToSet, IsInjective
  <2>5. VerdictInv' /\ QueueInv'
    BY <2>2, <2>3, <2>4 DEF VerdictInv, QueueInv
  <2>6. GroupInv' /\ SizeInv'
    BY <1>0, <2>2, <2>3 DEF GroupInv, SizeInv, GroupBytes
  <2> QED
    BY <2>5, <2>6 DEF Places
<1> QED
  BY <1>1, <1>2, <1>3, <1>4, <1>5, <1>6, <1>7, <1>8, <1>9, <1>10, <1>11, <1>12, <1>13
     DEF Next

-----------------------------------------------------------------------------
(* The latches and the end of a pass. *)

(* One file is counted for a stop, and a stop leaves nothing accumulated.  *)
LEMMA LatchStep == IInv /\ [Next]_vars => LatchInv'
<1> SUFFICES ASSUME IInv, [Next]_vars PROVE LatchInv'
  OBVIOUS
<1>0. TypeOK /\ LatchInv
  BY DEF IInv
<1> DEFINE Counted == /\ \A f \in Files : /\ out[f] = "refused" => fatal
                                          /\ out[f] = "unavailable" => halted
                      /\ \A f, g \in Files :
                            out[f] = out[g] /\ out[f] \in {"refused", "unavailable"}
                               => f = g
<1>1. Counted'
  <2>1. CASE Quiet
    BY <1>0, <2>1 DEF Quiet, report, LatchInv
  <2>2. CASE Admit
    BY <1>0, <2>2, AdmitFacts DEF LatchInv
  <2>3. CASE NextRun
    BY <2>3 DEF NextRun
  <2>4. ASSUME NEW f \in Files, NEW v \in Decisions, Settling(f, v)
        PROVE  Counted'
    <3>1. /\ \A g \in Files : g # f => out'[g] = out[g]
          /\ out'[f] = "refused" => ~fatal
          /\ out'[f] = "unavailable" => ~halted
          /\ (out'[f] = "refused" => fatal') /\ (out'[f] = "unavailable" => halted')
          /\ (fatal => fatal') /\ (halted => halted')
      BY <2>4, SettleFacts
    <3>2. \A g \in Files : /\ out'[g] = "refused" => fatal'
                           /\ out'[g] = "unavailable" => halted'
      BY <1>0, <3>1 DEF LatchInv
    <3>3. \A g \in Files : g # f /\ out'[f] \in {"refused", "unavailable"} =>
             out'[g] # out'[f]
      BY <1>0, <3>1 DEF LatchInv
    <3>4. ASSUME NEW g \in Files, NEW h \in Files, out'[g] = out'[h],
                 out'[g] \in {"refused", "unavailable"}
          PROVE  g = h
      BY <1>0, <3>1, <3>3, <3>4 DEF LatchInv
    <3> QED
      BY <3>2, <3>4
  <2> QED
    BY <2>1, <2>2, <2>3, <2>4, StepKinds
<1>2. (fatal' \/ halted') /\ staged' # << >> => loop' = "settling"
  <2> USE DEF report, latches, queues
  <2>1. CASE UNCHANGED vars
    BY <1>0, <2>1 DEF vars, LatchInv
  <2>2. CASE Cancel \/ Admit
    BY <1>0, <2>2 DEF Cancel, Admit, LatchInv
  <2>3. CASE StopAdmitting
    BY <1>0, <2>3 DEF StopAdmitting, LatchInv
  <2>4. CASE SettleNext
    BY <2>4 DEF SettleNext
  <2>5. CASE DrainStaged
    BY <1>0, <2>5 DEF DrainStaged, LatchInv
  <2>6. ASSUME NEW f \in Files, Start(f) \/ Prepare(f)
        PROVE  (fatal' \/ halted') /\ staged' # << >> => loop' = "settling"
    BY <1>0, <2>6 DEF Start, Prepare, LatchInv
  <2>7. ASSUME NEW f \in Files, Receive(f)
        PROVE  (fatal' \/ halted') /\ staged' # << >> => loop' = "settling"
    <3>1. CASE verdict[f] = "sealed" /\ ~fatal /\ ~halted
      BY <2>7, <3>1 DEF Receive
    <3>2. CASE ~(verdict[f] = "sealed" /\ ~fatal /\ ~halted)
      <4>1. PICK v \in Decisions : Settling(f, v)
        BY <2>7, <3>2, ReceiveSettles
      <4>2. (fatal' <=> (fatal \/ v = "refused")) /\ (halted' <=> (halted \/ v = "unavailable"))
        BY <4>1 DEF Settling, Settle
      <4>3. pc[f] = "result" /\ loop = "waiting" /\ staged' = staged
        BY <2>7, <3>2 DEF Receive
      <4>4. fatal' \/ halted' => fatal \/ halted
        BY <4>1, <4>2, <4>3 DEF Settling
      <4> QED
        BY <1>0, <4>3, <4>4 DEF LatchInv
    <3> QED
      BY <3>1, <3>2
  <2>8. ASSUME NEW g \in groups, SendGroup(g) \/ AnswerGroup(g) \/ ReceiveGroup(g)
        PROVE  (fatal' \/ halted') /\ staged' # << >> => loop' = "settling"
    BY <1>0, <2>8 DEF SendGroup, AnswerGroup, ReceiveGroup, LatchInv
  <2>9. CASE NextRun
    BY <2>9 DEF NextRun
  <2> QED
    BY <2>1, <2>2, <2>3, <2>4, <2>5, <2>6, <2>7, <2>8, <2>9 DEF Next
<1> QED
  BY <1>1, <1>2 DEF LatchInv

(* A pass ends with nothing in flight; short of a stop it leaves files     *)
(* over only when the budget is spent.                                     *)
LEMMA EndStep == IInv /\ [Next]_vars => EndInv'
<1> SUFFICES ASSUME IInv, [Next]_vars PROVE EndInv'
  OBVIOUS
<1>0. TypeOK /\ EndInv
  BY DEF IInv
<1> USE DEF report, latches, queues
<1>a. ASSUME loop # "ended", loop' # "ended", UNCHANGED end
      PROVE  EndInv'
  BY <1>0, <1>a DEF EndInv
<1>b. ASSUME UNCHANGED <<loop, end>>, Quiet
      PROVE  EndInv'
  <2>1. InFlight' = InFlight
    BY <1>b DEF Quiet, InFlight
  <2> QED
    BY <1>0, <1>b, <2>1 DEF EndInv, Quiet
<1>c. ASSUME UNCHANGED <<pc, next, budget, fatal, halted, loop, end>>
      PROVE  EndInv'
  BY <1>0, <1>c DEF EndInv, InFlight
<1>1. CASE UNCHANGED vars
  BY <1>1, <1>c DEF vars
<1>2. CASE Cancel
  BY <1>2, <1>c DEF Cancel
<1>3. CASE Admit
  BY <1>3, <1>a DEF Admit
<1>4. CASE StopAdmitting
  <2>1. CASE InFlight # {}
    <3>1. loop = "admitting" /\ loop' = "waiting" /\ end' = end
      BY <1>4, <2>1 DEF StopAdmitting
    <3> QED
      BY <1>a, <3>1
  <2>2. CASE InFlight = {}
    <3>1. /\ loop' = "ended" /\ end' = Verdict(stopped')
          /\ UNCHANGED <<next, budget, fatal, halted>> /\ ~CanAdmit
      BY <1>4, <2>2 DEF StopAdmitting
    <3>2. staged = << >>
      BY <2>2, NothingQueued
    <3>3. \A f \in Files : pc'[f] = pc[f]
      BY <1>4, <3>2 DEF StopAdmitting, Handed, ToSet
    <3>4. InFlight' = {}
      BY <2>2, <3>3 DEF InFlight
    <3>5. /\ next \in 1..(N + 1) /\ N \in Nat /\ budget \in Nat
          /\ Limit \in Nat /\ Limit > 0
      BY <1>0, PassAssumption DEF TypeOK, Limit
    <3>6. Cardinality(InFlight) = 0
      BY <2>2, FS_EmptySet
    <3>7. end' \in {"refused", "halted", "cancelled", "truncated", "complete"}
      BY <3>1 DEF Verdict
    <3>8. end' \in {"complete", "truncated"} => ~fatal /\ ~halted /\ ~stopped'
      <4>1. CASE fatal
        BY <3>1, <4>1 DEF Verdict
      <4>2. CASE ~fatal /\ halted
        BY <3>1, <4>2 DEF Verdict
      <4>3. CASE ~fatal /\ ~halted /\ stopped'
        BY <3>1, <4>3 DEF Verdict
      <4> QED
        BY <4>1, <4>2, <4>3
    <3>9. end' = "complete" => next = N + 1
      <4>1. CASE next <= N /\ ~fatal /\ ~halted /\ ~stopped'
        BY <3>1, <4>1 DEF Verdict
      <4>2. ~(next <= N) => next = N + 1
        BY <3>5
      <4> QED
        BY <3>8, <4>1, <4>2
    <3>10. end' = "truncated" => next <= N
      <4>1. CASE ~(next <= N)
        BY <3>1, <4>1 DEF Verdict
      <4> QED
        BY <4>1
    <3>11. end' = "truncated" => budget = 0
      <4> SUFFICES ASSUME end' = "truncated" PROVE budget = 0
        OBVIOUS
      <4>1. ~fatal /\ ~halted /\ ~stopped' /\ next <= N
        BY <3>8, <3>10
      <4>2. Cardinality(InFlight) < Limit
        BY <3>5, <3>6
      <4>3. ~stopped /\ ~cancelled
        BY <1>4, <4>1, <4>2 DEF StopAdmitting
      <4>4. ~(budget > 0)
        BY <2>2, <3>1, <4>1, <4>2, <4>3 DEF CanAdmit, FitsGate
      <4> QED
        BY <3>5, <4>4
    <3> QED
      BY <3>1, <3>4, <3>7, <3>8, <3>9, <3>10, <3>11 DEF EndInv
  <2> QED
    BY <2>1, <2>2
<1>5. CASE SettleNext
  BY <1>5, <1>a DEF SettleNext
<1>6. CASE DrainStaged
  <2>1. loop = "settling" /\ loop' \in {"settling", "admitting"} /\ end' = end
    BY <1>6 DEF DrainStaged
  <2> QED
    BY <1>a, <2>1
<1>d. \A g \in groups : ToSet(g) \subseteq Files
  BY <1>0, SeqFacts DEF TypeOK
<1>7. ASSUME NEW f \in Files, Start(f) \/ Prepare(f)
      PROVE  EndInv'
  <2>1. Quiet
    BY <1>0, <1>7 DEF Start, Prepare, Quiet, TypeOK
  <2> QED
    BY <1>7, <1>b, <2>1 DEF Start, Prepare
<1>8. ASSUME NEW f \in Files, Receive(f)
      PROVE  EndInv'
  BY <1>8, <1>a DEF Receive
<1>9. ASSUME NEW g \in groups, SendGroup(g) \/ AnswerGroup(g)
      PROVE  EndInv'
  <2>1. Quiet
    BY <1>0, <1>9, <1>d DEF SendGroup, AnswerGroup, Quiet, TypeOK
  <2> QED
    BY <1>9, <1>b, <2>1 DEF SendGroup, AnswerGroup
<1>10. ASSUME NEW g \in groups, ReceiveGroup(g)
       PROVE  EndInv'
  BY <1>10, <1>a DEF ReceiveGroup
<1>11. CASE NextRun
  BY <1>11 DEF NextRun, EndInv
<1> QED
  BY <1>1, <1>2, <1>3, <1>4, <1>5, <1>6, <1>7, <1>8, <1>9, <1>10, <1>11 DEF Next

-----------------------------------------------------------------------------
(* Type correctness, given the two counts. *)
LEMMA TypeStep == IInv /\ [Next]_vars => TypeOK'
<1> SUFFICES ASSUME IInv, [Next]_vars PROVE TypeOK'
  OBVIOUS
<1>0. TypeOK
  BY DEF IInv
<1>b. budget' \in 0..Budget /\ bytes' \in Nat
  BY BudgetStep, GateStep
<1>s. /\ ToSet(staged) \subseteq Files
      /\ \A g \in groups : ToSet(g) \subseteq Files /\ g \in Seq(Files)
  BY <1>0, SeqFacts DEF TypeOK
<1> USE DEF report, latches, queues
<1>f. Fault => faults' \in 0..MaxFaults
  BY <1>0, PassAssumption DEF TypeOK, Fault
<1>1. CASE UNCHANGED vars
  BY <1>0, <1>1 DEF vars, TypeOK
<1>2. CASE Cancel
  <2>1. cancelled' \in BOOLEAN
    BY <1>2, Zenon DEF Cancel
  <2> QED
    BY <1>0, <1>2, <1>f, <2>1 DEF Cancel, TypeOK
<1>3. CASE Admit
  <2>1. /\ next' \in 1..(N + 1)
        /\ pc' \in [Files -> {"queued", "waiting", "reading", "result", "staged",
                              "grouped", "sending", "answered", "settled"}]
    BY <1>3, AdmitFacts
  <2>2. UNCHANGED <<record, start, verdict, out, queues, loop, latches,
                    cancelled, end, faults>>
    BY <1>3 DEF Admit
  <2> QED
    BY <1>0, <1>b, <2>1, <2>2 DEF TypeOK
<1>h. ASSUME NEW G \in SUBSET Seq(Files), NEW X, Handing(X, G)
      PROVE  staged' \in Seq(Files) /\ groups' \subseteq Seq(Files)
  BY <1>0, <1>h DEF Handing, TypeOK
<1>4. CASE StopAdmitting
  <2>1. staged' \in Seq(Files) /\ groups' \subseteq Seq(Files)
    <3>1. CASE Computing = {}
      <4>1. groups' = Flushed(staged) /\ pc' = Handed(staged) /\ staged' = << >>
        BY <1>4, <3>1 DEF StopAdmitting
      <4> QED
        BY <1>h, <4>1, FlushHands
    <3>2. CASE Computing # {}
      BY <1>0, <1>4, <3>2 DEF StopAdmitting, TypeOK
    <3> QED
      BY <3>1, <3>2
  <2>2. pc' \in [Files -> {"queued", "waiting", "reading", "result", "staged",
                           "grouped", "sending", "answered", "settled"}]
    BY <1>0, <1>4 DEF StopAdmitting, TypeOK, Handed
  <2>3. stopped' \in BOOLEAN
    BY <1>4 DEF StopAdmitting
  <2>4. loop' \in {"ended", "waiting"}
    BY <1>4 DEF StopAdmitting
  <2>5. end' \in {"running", "refused", "halted", "cancelled", "truncated", "complete"}
    BY <1>0, <1>4 DEF StopAdmitting, TypeOK, Verdict
  <2>6. UNCHANGED <<report, start, next, verdict, todo, fatal, halted, cancelled, faults>>
    BY <1>4 DEF StopAdmitting
  <2> QED
    BY <1>0, <2>1, <2>2, <2>3, <2>4, <2>5, <2>6 DEF TypeOK
<1>t. ASSUME NEW f \in Files, NEW v \in Decisions, Settling(f, v)
      PROVE  /\ record' \in [Files -> {"none", "parked", "shipped"}]
             /\ out' \in [Files -> Decisions \cup {"none"}]
             /\ faults' \in 0..MaxFaults
             /\ pc' \in [Files -> {"queued", "waiting", "reading", "result", "staged",
                                   "grouped", "sending", "answered", "settled"}]
             /\ fatal' \in BOOLEAN /\ halted' \in BOOLEAN
  <2>1. pc' \in [Files -> {"queued", "waiting", "reading", "result", "staged",
                           "grouped", "sending", "answered", "settled"}]
    BY <1>0, <1>t DEF Settling, TypeOK
  <2>2. fatal' \in BOOLEAN /\ halted' \in BOOLEAN
    BY <1>t DEF Settling, Settle
  <2> QED
    BY <1>t, <2>1, <2>2, SettleFacts
<1>5. CASE SettleNext
  <2>1. todo' \in Seq(Files)
    BY <1>0, <1>5 DEF SettleNext, TypeOK
  <2>2. UNCHANGED <<start, next, verdict, staged, groups, loop, stopped, cancelled, end>>
    BY <1>5 DEF SettleNext
  <2>3. PICK f \in Files : \E v \in Decisions : Settling(f, v)
    BY <1>5, NextSettles
  <2> QED
    BY <1>0, <1>b, <1>t, <2>1, <2>2, <2>3 DEF TypeOK
<1>6. CASE DrainStaged
  <2>1. Abandoned \in Answers
    BY DEF Abandoned, Answers
  <2>2. verdict' \in [Files -> Prepared \cup Answers \cup {"none"}]
    BY <1>0, <1>6, <2>1 DEF DrainStaged, TypeOK
  <2>3. pc' \in [Files -> {"queued", "waiting", "reading", "result", "staged",
                           "grouped", "sending", "answered", "settled"}]
    BY <1>0, <1>6 DEF DrainStaged, TypeOK
  <2>4. todo' \in Seq(Files) /\ staged' \in Seq(Files)
        /\ loop' \in {"settling", "admitting"}
    BY <1>0, <1>6 DEF DrainStaged, TypeOK
  <2>5. UNCHANGED <<report, start, next, groups, latches, cancelled, end, faults>>
    BY <1>6 DEF DrainStaged
  <2> QED
    BY <1>0, <2>2, <2>3, <2>4, <2>5 DEF TypeOK
<1>7. ASSUME NEW f \in Files, Start(f)
      PROVE  TypeOK'
  BY <1>0, <1>7 DEF Start, TypeOK
<1>8. ASSUME NEW f \in Files, Prepare(f)
      PROVE  TypeOK'
  <2>1. faults' \in 0..MaxFaults
    BY <1>0, <1>8, <1>f DEF Prepare, TypeOK
  <2>2. PICK v \in Prepared \cup {"failed"} : verdict' = [verdict EXCEPT ![f] = v]
    BY <1>8 DEF Prepare, Prepared
  <2>3. verdict' \in [Files -> Prepared \cup Answers \cup {"none"}]
    BY <1>0, <2>2 DEF TypeOK, Answers
  <2>4. pc' \in [Files -> {"queued", "waiting", "reading", "result", "staged",
                           "grouped", "sending", "answered", "settled"}]
    BY <1>0, <1>8 DEF Prepare, TypeOK
  <2>5. UNCHANGED <<report, start, next, queues, loop, latches, cancelled, end>>
    BY <1>8 DEF Prepare
  <2> QED
    BY <1>0, <2>1, <2>3, <2>4, <2>5 DEF TypeOK
<1>9. ASSUME NEW f \in Files, Receive(f)
      PROVE  TypeOK'
  <2>1. /\ UNCHANGED <<start, next, verdict, todo, stopped, cancelled, end>>
        /\ loop' = "admitting" /\ pc[f] = "result"
    BY <1>9 DEF Receive
  <2>2. CASE verdict[f] = "sealed" /\ ~fatal /\ ~halted
    <3>1. Add(f) /\ UNCHANGED <<report, fatal, halted, faults>>
      BY <1>9, <2>2 DEF Receive
    <3>2. staged' \in Seq(Files) /\ groups' \subseteq Seq(Files)
      BY <1>h, <2>1, <3>1, AddHands
    <3>3. pc' \in [Files -> {"queued", "waiting", "reading", "result", "staged",
                             "grouped", "sending", "answered", "settled"}]
      BY <1>0, <3>1 DEF Add, TypeOK
    <3> QED
      BY <1>0, <2>1, <3>1, <3>2, <3>3 DEF TypeOK
  <2>3. CASE ~(verdict[f] = "sealed" /\ ~fatal /\ ~halted)
    <3>1. \E v \in Decisions : Settling(f, v)
      BY <1>9, <2>3, ReceiveSettles
    <3>2. UNCHANGED <<staged, groups>>
      BY <1>9, <2>3 DEF Receive
    <3> QED
      BY <1>0, <1>b, <1>t, <2>1, <3>1, <3>2 DEF TypeOK
  <2> QED
    BY <2>2, <2>3
<1>10. ASSUME NEW g \in groups, SendGroup(g)
       PROVE  TypeOK'
  BY <1>0, <1>10 DEF SendGroup, TypeOK
<1>11. ASSUME NEW g \in groups, AnswerGroup(g)
       PROVE  TypeOK'
  <2>1. PICK a \in AnswersFor(ToSet(g)) :
           /\ verdict' = [f \in Files |-> IF f \in ToSet(g) THEN a[f] ELSE verdict[f]]
           /\ IF a = Good(ToSet(g)) THEN UNCHANGED faults ELSE Fault
    BY <1>11 DEF AnswerGroup
  <2>2. faults' \in 0..MaxFaults
    BY <1>0, <1>f, <2>1 DEF TypeOK
  <2>3. verdict' \in [Files -> Prepared \cup Answers \cup {"none"}]
    BY <1>0, <2>1, AnswerFacts DEF TypeOK
  <2>4. /\ pc' = [f \in Files |-> IF f \in ToSet(g) THEN "answered" ELSE pc[f]]
        /\ UNCHANGED <<report, start, next, queues, loop, latches, cancelled, end>>
    BY <1>11 DEF AnswerGroup
  <2> QED
    BY <1>0, <2>2, <2>3, <2>4 DEF TypeOK
<1>12. ASSUME NEW g \in groups, ReceiveGroup(g)
       PROVE  TypeOK'
  BY <1>0, <1>12, <1>s DEF ReceiveGroup, TypeOK
<1>13. CASE NextRun
  <2>1. /\ fatal' \in BOOLEAN /\ halted' \in BOOLEAN
        /\ cancelled' \in BOOLEAN /\ stopped' \in BOOLEAN
    BY <1>13, Zenon DEF NextRun
  <2>2. next' \in 1..(N + 1) /\ start' \in 0..Budget
    BY <1>13, PassAssumption DEF NextRun
  <2>3. /\ pc' = [f \in Files |-> "queued"] /\ verdict' = [f \in Files |-> "none"]
        /\ out' = [f \in Files |-> "none"] /\ loop' = "admitting" /\ end' = "running"
        /\ UNCHANGED <<record, bytes, queues, faults>>
    BY <1>13 DEF NextRun
  <2> QED
    BY <1>0, <1>b, <2>1, <2>2, <2>3 DEF TypeOK
<1> QED
  BY <1>1, <1>2, <1>3, <1>4, <1>5, <1>6, <1>7, <1>8, <1>9, <1>10, <1>11, <1>12, <1>13
     DEF Next

-----------------------------------------------------------------------------
(* The theorems. *)

(* The invariant holds when the first pass begins ... *)
LEMMA InitInv == Init => IInv
<1> SUFFICES ASSUME Init PROVE IInv
  OBVIOUS
<1>c. N \in Nat /\ Budget \in Nat /\ MaxFaults \in Nat /\ Gate \in Nat
  BY PassAssumption
<1>1. TypeOK
  <2>1. /\ fatal \in BOOLEAN /\ halted \in BOOLEAN
        /\ cancelled \in BOOLEAN /\ stopped \in BOOLEAN
    BY Zenon DEF Init
  <2>2. budget \in 0..Budget /\ start \in 0..Budget /\ next \in 1..(N + 1)
        /\ bytes \in Nat /\ faults \in 0..MaxFaults
    BY <1>c DEF Init
  <2>3. record \in [Files -> {"none", "parked", "shipped"}]
    BY DEF Init
  <2>4. staged \in Seq(Files) /\ todo \in Seq(Files) /\ groups = {}
    BY DEF Init
  <2> QED
    BY <2>1, <2>2, <2>3, <2>4 DEF Init, TypeOK
<1>2. /\ \A f \in Files : pc[f] = "queued" /\ out[f] = "none" /\ f >= next
      /\ ToSet(staged) = {} /\ IsInjective(staged) /\ Len(staged) = 0 /\ staged = << >>
      /\ todo = << >> /\ ToSet(todo) = {} /\ IsInjective(todo) /\ groups = {}
      /\ ~fatal /\ ~halted /\ loop = "admitting" /\ end = "running"
  <2>1. \A f \in Files : f >= 1
    BY <1>c DEF Files
  <2> QED
    BY <2>1 DEF Init, ToSet, IsInjective
<1>3. AdmissionInv /\ VerdictInv
  BY <1>2 DEF AdmissionInv, VerdictInv
<1>4. QueueInv /\ GroupInv
  BY <1>2 DEF QueueInv, GroupInv
<1>5. SizeInv
  BY <1>2, MaxObjectsBound DEF SizeInv
<1>6. LatchInv /\ EndInv
  BY <1>2 DEF LatchInv, EndInv
<1>7. BudgetIsExact
  <2>1. {f \in Files : pc[f] # "queued" /\ out[f] \notin Refunded} = {}
    BY <1>2
  <2>2. budget \in Nat /\ start = budget
    BY <1>c DEF Init
  <2> QED
    BY <2>1, <2>2, FS_EmptySet DEF BudgetIsExact
<1>8. GateHolds
  <2>1. InFlight = {} /\ bytes = 0
    BY <1>2 DEF InFlight, Init
  <2>2. Total([f \in Files |-> Charge(f)], {}) = 0
    BY TotalEmpty
  <2> QED
    BY <1>c, <2>1, <2>2 DEF GateHolds
<1> QED
  BY <1>1, <1>3, <1>4, <1>5, <1>6, <1>7, <1>8 DEF IInv

(* ... and every step of the loop, the workers and the groups keeps it. *)
LEMMA IInvStep == IInv /\ [Next]_vars => IInv'
BY TypeStep, AdmissionStep, PlacesStep, LatchStep, EndStep, BudgetStep, GateStep
   DEF IInv, Places

(* The inductive invariant holds of every state of a pass. *)
THEOREM PassInductive == Spec => []IInv
<1>1. Init => IInv
  BY InitInv
<1>2. IInv /\ [Next]_vars => IInv'
  BY IInvStep
<1> QED
  BY <1>1, <1>2, PTL DEF Spec

(* The budget, the one verdict of a stop and the report a pass ends with   *)
(* are exact, in whatever order results come back, are demoted by a failed *)
(* commit or are duplicated by a refusal.                                  *)
THEOREM AccountsAlwaysExact == Spec => []AccountsAreExact
<1>1. ASSUME IInv PROVE OneStopIsCounted
  <2> SUFFICES ASSUME NEW v \in {"refused", "unavailable"}
               PROVE  Cardinality({f \in Files : out[f] = v}) <= 1
    BY DEF OneStopIsCounted
  <2> DEFINE S == {f \in Files : out[f] = v}
  <2>1. CASE S = {}
    BY <2>1, FS_EmptySet
  <2>2. ASSUME NEW f \in S PROVE Cardinality(S) <= 1
    <3>1. S = {f}
      BY <1>1 DEF IInv, LatchInv
    <3> HIDE DEF S
    <3>2. Cardinality(S) = 1
      BY <3>1, FS_Singleton
    <3> QED
      BY <3>2
  <2> QED
    BY <2>1, <2>2
<1>2. ASSUME IInv PROVE EndIsExact
  <2>1. loop = "ended" => InFlight = {} /\ staged = << >> /\ groups = {}
    BY <1>2, NothingQueued DEF IInv, EndInv
  <2>2. loop = "ended" => bytes = 0
    <3>1. bytes = Total([f \in Files |-> Charge(f)], InFlight)
      BY <1>2 DEF IInv, GateHolds
    <3> QED
      BY <2>1, <3>1, TotalEmpty
  <2>3. ASSUME end \in {"complete", "truncated"}, NEW f \in Files
        PROVE  (out[f] # "none") <=> f < next
    <3>1. pc[f] \in {"queued", "settled"} /\ ~fatal /\ ~halted
      BY <1>2, <2>3 DEF IInv, EndInv, InFlight
    <3>2. f < next <=> ~(f >= next)
      BY <1>2, PassAssumption DEF IInv, TypeOK, Files
    <3> QED
      BY <1>2, <3>1, <3>2 DEF IInv, AdmissionInv
  <2> QED
    BY <1>2, <2>1, <2>2, <2>3 DEF EndIsExact, IInv, EndInv
<1>3. IInv => AccountsAreExact
  BY <1>1, <1>2 DEF AccountsAreExact, IInv
<1> QED
  BY <1>3, PassInductive, PTL

(* The bytes in flight are what the gate thinks and within it, unless one  *)
(* file is alone, and every group is one the control plane accepts, with   *)
(* each of its files in no other.                                          *)
THEOREM LimitsAlwaysHold == Spec => []LimitsHold
<1>1. ASSUME IInv PROVE GroupsAreSendable
  <2>1. ASSUME NEW g \in groups
        PROVE  /\ Len(g) <= MaxBatchObjects
               /\ GroupBytes(g) <= MaxBatchBytes \/ Len(g) = 1
    <3>1. Len(g) \in Nat /\ Len(g) <= MaxObjects
          /\ (GroupBytes(g) <= MaxBatchBytes \/ Len(g) = 1)
      BY <1>1, SeqFacts DEF IInv, SizeInv, TypeOK
    <3>2. Len(g) <= MaxBatchObjects
      BY <3>1, MaxObjectsBound, PassAssumption
    <3> QED
      BY <3>1, <3>2
  <2>2. ASSUME NEW f \in Files, pc[f] \in {"grouped", "sending"}
        PROVE  Cardinality({g \in groups : f \in ToSet(g)}) = 1
    <3>1. PICK g \in groups : f \in ToSet(g)
      BY <1>1, <2>2 DEF IInv, GroupInv
    <3>2. {h \in groups : f \in ToSet(h)} = {g}
      BY <1>1, <3>1 DEF IInv, GroupInv
    <3> QED
      BY <3>2, FS_Singleton
  <2> QED
    BY <2>1, <2>2 DEF GroupsAreSendable
<1>2. IInv => LimitsHold
  BY <1>1 DEF LimitsHold, IInv
<1> QED
  BY <1>2, PassInductive, PTL

(* Once a refusal or an outage has latched the pass, nothing is admitted,  *)
(* nothing joins what was already handed to the network, and only that is  *)
(* committed: the accumulator is drained before any turn of the loop could *)
(* flush it, and a drained object's answer is not "shipped".               *)
THEOREM StopAlwaysHoldsBack == Spec => StopHoldsBack
<1> DEFINE Kept == /\ next' = next
                   /\ OnItsWay' \subseteq OnItsWay
                   /\ NewlyShipped \subseteq OnItsWay
<1>1. ASSUME IInv, Next, Latched PROVE Kept
  <2> USE DEF report, latches, queues
  <2>0. TypeOK /\ VerdictInv /\ QueueInv /\ LatchInv /\ EndInv
    BY <1>1 DEF IInv
  <2>1. CASE Cancel
    BY <2>1 DEF Cancel, OnItsWay, NewlyShipped
  <2>2. CASE Admit \/ NextRun
    BY <1>1, <2>0, <2>2 DEF Admit, CanAdmit, NextRun, EndInv, Latched
  <2>3. CASE StopAdmitting
    <3>1. loop # "settling"
      BY <2>3 DEF StopAdmitting
    <3>2. staged = << >>
      BY <1>1, <2>0, <3>1 DEF LatchInv, Latched
    <3>3. Handed(staged) = pc
      BY <2>0, <3>2 DEF Handed, ToSet, TypeOK
    <3> QED
      BY <2>3, <3>3 DEF StopAdmitting, OnItsWay, NewlyShipped
  <2>4. CASE SettleNext
    <3> DEFINE h == Head(todo)
    <3>1. h \in Files /\ h \in ToSet(todo)
      BY <2>0, <2>4 DEF SettleNext, TypeOK, ToSet
    <3>2. pc[h] = "answered"
      BY <2>0, <3>1 DEF QueueInv
    <3>3. pc' = [pc EXCEPT ![h] = "settled"] /\ verdict' = verdict /\ next' = next
      BY <2>4 DEF SettleNext
    <3>4. PICK ok \in BOOLEAN :
             record' = [record EXCEPT ![h] = Durable(h, verdict[h], ok)]
      BY <2>4 DEF SettleNext, Settle
    <3>5. NewlyShipped \subseteq OnItsWay
      BY <2>0, <3>1, <3>2, <3>4 DEF NewlyShipped, OnItsWay, Durable, TypeOK
    <3> QED
      BY <2>0, <3>1, <3>3, <3>5 DEF OnItsWay, TypeOK
  <2>5. CASE DrainStaged
    <3>1. Abandoned # "shipped"
      BY DEF Abandoned
    <3>2. CASE staged # << >> /\ (fatal \/ halted)
      BY <2>0, <2>5, <3>1, <3>2 DEF DrainStaged, OnItsWay, NewlyShipped, TypeOK
    <3>3. CASE ~(staged # << >> /\ (fatal \/ halted))
      BY <2>5, <3>3 DEF DrainStaged, OnItsWay, NewlyShipped
    <3> QED
      BY <3>2, <3>3
  <2>6. ASSUME NEW f \in Files, Start(f) \/ Prepare(f)
        PROVE  Kept
    BY <2>0, <2>6 DEF Start, Prepare, OnItsWay, NewlyShipped, TypeOK
  <2>7. ASSUME NEW f \in Files, Receive(f)
        PROVE  Kept
    <3> DEFINE v == IF verdict[f] = "sealed" THEN Abandoned ELSE verdict[f]
    <3>1. v # "shipped"
      BY <2>0, <2>7 DEF Receive, VerdictInv, Abandoned, Prepared
    <3>2. pc' = [pc EXCEPT ![f] = "settled"] /\ verdict' = verdict /\ next' = next
          /\ Settle(f, v)
      BY <1>1, <2>7 DEF Receive, Latched
    <3>3. PICK ok \in BOOLEAN :
             record' = [record EXCEPT ![f] = Durable(f, v, ok)]
      BY <3>2 DEF Settle
    <3>4. NewlyShipped = {}
      BY <2>0, <3>1, <3>3 DEF NewlyShipped, Durable, TypeOK
    <3> QED
      BY <2>0, <3>2, <3>4 DEF OnItsWay, TypeOK
  <2>8. ASSUME NEW g \in groups, SendGroup(g) \/ AnswerGroup(g) \/ ReceiveGroup(g)
        PROVE  Kept
    BY <2>0, <2>8 DEF SendGroup, AnswerGroup, ReceiveGroup, OnItsWay, NewlyShipped,
                      TypeOK
  <2> QED
    BY <1>1, <2>1, <2>2, <2>3, <2>4, <2>5, <2>6, <2>7, <2>8 DEF Next
<1>2. IInv /\ [Next]_vars => [Latched => Kept]_vars
  BY <1>1
<1> QED
  BY <1>2, PassInductive, PTL DEF Spec, StopHoldsBack
=============================================================================
