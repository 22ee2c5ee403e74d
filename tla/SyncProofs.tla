----------------------------- MODULE SyncProofs -----------------------------
(***************************************************************************)
(* Proofs about SyncPass and the service of SyncService, for any replicas, *)
(* documents, page size and bounds. First what the folds of the service    *)
(* compute, with FoldFacts; then the inductive invariant; then what the    *)
(* runs check of it.                                                       *)
(***************************************************************************)
EXTENDS SyncPass, FiniteSetTheorems, SequenceTheorems, TLAPS

-----------------------------------------------------------------------------
(* What the folds of the service compute.                                  *)

KeepStep(S, some, op) == IF op \in S THEN Append(some, op) ELSE some
PageStep(asked, all, d) == all \o UnknownOf(asked[1], asked[2], d)
ReplayStep(e, a, op) == ReplayOne(a, op)
TakeStep(e, a, op) == TakeOne(a, op)

Keeps == INSTANCE FoldFacts WITH Step <- KeepStep
Pages == INSTANCE FoldFacts WITH Step <- PageStep
Replays == INSTANCE FoldFacts WITH Step <- ReplayStep
Takes == INSTANCE FoldFacts WITH Step <- TakeStep

-----------------------------------------------------------------------------
(* What is in sequences: the facts of FoldFacts, with this module's Range. *)

LEMMA RangeIsPart ==
    ASSUME NEW T, NEW q \in Seq(T)
    PROVE  /\ Range(q) \subseteq T
           /\ \A i \in 1..Len(q) : q[i] \in Range(q)
           /\ q = <<>> => Range(q) = {}
BY Keeps!RangeIsPart DEF Range, Keeps!Range

LEMMA AppendRange ==
    ASSUME NEW T, NEW q \in Seq(T), NEW e \in T
    PROVE  Append(q, e) \in Seq(T) /\ Range(Append(q, e)) = Range(q) \cup {e}
BY Keeps!AppendRange DEF Range, Keeps!Range

LEMMA ConcatRange ==
    ASSUME NEW T, NEW p \in Seq(T), NEW q \in Seq(T)
    PROVE  p \o q \in Seq(T) /\ Range(p \o q) = Range(p) \cup Range(q)
<1>1. \A r : Keeps!Range(r) = Range(r)
  BY DEF Range, Keeps!Range
<1> QED
  BY <1>1, Keeps!ConcatRange

LEMMA HeadAndTail ==
    ASSUME NEW T, NEW q \in Seq(T), q # <<>>
    PROVE  /\ Head(q) \in Range(q) /\ Head(q) \in T
           /\ Tail(q) \in Seq(T) /\ Range(Tail(q)) \subseteq Range(q)
BY Keeps!HeadAndTail DEF Range, Keeps!Range

LEMMA PartOfRange ==
    ASSUME NEW T, NEW q \in Seq(T), NEW m \in Nat, NEW n \in Nat, n <= Len(q)
    PROVE  /\ SubSeq(q, m + 1, n) \in Seq(T)
           /\ Range(SubSeq(q, m + 1, n)) \subseteq Range(q)
BY Keeps!PartOfRange DEF Range, Keeps!Range

\* A finite set in some order.
LEMMA InSomeOrder ==
    ASSUME NEW S, IsFiniteSet(S)
    PROVE  /\ SetToSeq(S) \in Seq(S) /\ DOMAIN SetToSeq(S) = 1..Len(SetToSeq(S))
           /\ Range(SetToSeq(S)) \subseteq S
<1>1. Cardinality(S) \in Nat /\ ExistsBijection(1..Cardinality(S), S)
  BY FS_CardinalityType
<1>2. \E f \in [1..Cardinality(S) -> S] : IsInjective(f)
  BY <1>1 DEF ExistsBijection, Bijection, Injection
<1>3. SetToSeq(S) \in [1..Cardinality(S) -> S]
  BY <1>2 DEF SetToSeq
<1>4. SetToSeq(S) \in Seq(S)
  BY <1>1, <1>3, SeqDef
<1> QED
  BY <1>4, LenProperties, RangeIsPart

-----------------------------------------------------------------------------
\* The operations that are kept are those of the sequence that are in the set.
LEMMA KeepingFacts ==
    ASSUME NEW T, NEW q \in Seq(T), NEW S
    PROVE  Keeping(S, q) \in Seq(T) /\ Range(Keeping(S, q)) = Range(q) \cap S
<1> DEFINE n == Len(q)
<1> DEFINE Part(k) == {q[i] : i \in 1..k}
<1> DEFINE G == {p \in (0..n) \X Seq(T) : Range(p[2]) = Part(p[1]) \cap S}
<1>1. n \in Nat /\ DOMAIN q = 1..n /\ \A i \in 1..n : q[i] \in T
  BY LenProperties, ElementOfSeq
<1>2. Keeping(S, q) = Keeps!FoldOf(S, <<>>, q)
  BY DEF Keeping, KeepStep, FoldLeft, MapThenFoldSet, Keeps!FoldOf, Max
<1>3. <<0, <<>>>> \in G
  <2>1. <<>> \in Seq(T) /\ Range(<<>>) = {}
    BY EmptySeq, RangeIsPart
  <2>2. Part(0) = {} /\ 0 \in 0..n
    BY <1>1
  <2> QED
    BY <2>1, <2>2
<1>4. ASSUME NEW k \in 1..n, NEW a, <<k - 1, a>> \in G
      PROVE  <<k, KeepStep(S, a, q[k])>> \in G
  <2>1. a \in Seq(T) /\ Range(a) = Part(k - 1) \cap S /\ k \in 0..n
    BY <1>1, <1>4
  <2>2. Part(k) = Part(k - 1) \cup {q[k]}
    <3>1. \A i \in 1..k : i \in 1..(k - 1) \/ i = k
      OBVIOUS
    <3>2. \A i \in 1..(k - 1) : i \in 1..k
      OBVIOUS
    <3>3. k \in 1..k
      OBVIOUS
    <3> QED
      BY <3>1, <3>2, <3>3
  <2>3. CASE q[k] \in S
    <3>1. Append(a, q[k]) \in Seq(T) /\ Range(Append(a, q[k])) = Range(a) \cup {q[k]}
      BY <1>1, <2>1, AppendRange
    <3> QED
      BY <2>1, <2>2, <2>3, <3>1 DEF KeepStep
  <2>4. CASE q[k] \notin S
    BY <2>1, <2>2, <2>4 DEF KeepStep
  <2> QED
    BY <2>3, <2>4
<1>5. <<n, Keeps!FoldOf(S, <<>>, q)>> \in G
  <2> HIDE DEF G
  <2> QED
    BY <1>1, <1>3, <1>4, Keeps!FoldKeeps
<1>6. Range(q) = Part(n)
  BY <1>1 DEF Range
<1> QED
  BY <1>2, <1>5, <1>6


LEMMA MergeFacts ==
    ASSUME NEW a \in Vectors, NEW b \in Vectors
    PROVE  Merge(a, b) \in Vectors /\ Below(a, Merge(a, b))
BY DEF Merge, Vectors, Below

\* What is not known is in the chains.
LEMMA UnknownFacts ==
    ASSUME NEW s \in States, NEW since
    PROVE  Unknown(s, since) \in Seq(Ops) /\ Range(Unknown(s, since)) \subseteq Stored(s)
<1> DEFINE q == SetToSeq(Docs)
<1> DEFINE n == Len(q)
<1> DEFINE G == {p \in (0..n) \X Seq(Ops) : Range(p[2]) \subseteq Stored(s)}
<1>1. q \in Seq(Docs) /\ n \in Nat /\ DOMAIN q = 1..n /\ \A i \in 1..n : q[i] \in Docs
  <2>1. q \in Seq(Docs) /\ DOMAIN q = 1..n
    BY InSomeOrder, DocsAssumption
  <2> QED
    BY <2>1, LenProperties, ElementOfSeq
<1>2. Unknown(s, since) = Pages!FoldOf(<<s, since>>, <<>>, q)
  BY DEF Unknown, PageStep, FoldLeft, MapThenFoldSet, Pages!FoldOf, Max
<1>3. <<0, <<>>>> \in G
  <2>1. <<>> \in Seq(Ops) /\ Range(<<>>) = {}
    BY EmptySeq, RangeIsPart
  <2>2. 0 \in 0..n
    BY <1>1
  <2> QED
    BY <2>1, <2>2
<1>4. ASSUME NEW k \in 1..n, NEW a, <<k - 1, a>> \in G
      PROVE  <<k, PageStep(<<s, since>>, a, q[k])>> \in G
  <2> DEFINE d == q[k]
  <2>1. a \in Seq(Ops) /\ Range(a) \subseteq Stored(s) /\ k \in 0..n /\ d \in Docs
    BY <1>1, <1>4
  <2>2. s.chain[d] \in Seq(Ops) /\ Range(s.chain[d]) \subseteq Stored(s)
    BY <2>1 DEF States, Stored
  <2>3. UnknownOf(s, since, d) \in Seq(Ops) /\ Range(UnknownOf(s, since, d)) \subseteq Stored(s)
    BY <2>2, KeepingFacts DEF UnknownOf
  <2>4. /\ a \o UnknownOf(s, since, d) \in Seq(Ops)
        /\ Range(a \o UnknownOf(s, since, d)) = Range(a) \cup Range(UnknownOf(s, since, d))
    BY <2>1, <2>3, ConcatRange
  <2>5. PageStep(<<s, since>>, a, d) = a \o UnknownOf(s, since, d)
    BY DEF PageStep
  <2> QED
    BY <2>1, <2>3, <2>4, <2>5
<1>5. <<n, Pages!FoldOf(<<s, since>>, <<>>, q)>> \in G
  <2> HIDE DEF G
  <2> QED
    BY <1>1, <1>3, <1>4, Pages!FoldKeeps
<1> QED
  BY <1>2, <1>5

\* A page has versions of the chains.
LEMMA PageFacts ==
    ASSUME NEW s \in States, NEW since, NEW m \in Nat
    PROVE  LET page == Page(s, since, m, PageSize) IN
               /\ page.ops \in Seq(Ops) /\ Range(page.ops) \subseteq Stored(s)
               /\ page.more \in BOOLEAN /\ page.vv = s.vv /\ s.vv \in Vectors
               /\ Len(page.ops) \in Nat
<1> DEFINE all == Unknown(s, since)
<1> DEFINE z == IF m + PageSize < Len(all) THEN m + PageSize ELSE Len(all)
<1>1. all \in Seq(Ops) /\ Range(all) \subseteq Stored(s) /\ Len(all) \in Nat
  BY UnknownFacts, LenProperties
<1>2. z \in Nat /\ z <= Len(all)
  BY <1>1, NumbersAssumption
<1>3. SubSeq(all, m + 1, z) \in Seq(Ops) /\ Range(SubSeq(all, m + 1, z)) \subseteq Range(all)
  <2> HIDE DEF all, z
  <2> QED
    BY <1>1, <1>2, PartOfRange
<1>4. Page(s, since, m, PageSize) = [ops |-> SubSeq(all, m + 1, z), more |-> z < Len(all), vv |-> s.vv]
  BY DEF Page
<1>5. Len(SubSeq(all, m + 1, z)) \in Nat
  BY <1>3, LenProperties
<1>6. s.vv \in Vectors
  BY DEF States
<1> HIDE DEF all, z
<1> QED
  BY <1>1, <1>3, <1>4, <1>5, <1>6

-----------------------------------------------------------------------------
(* The answer to a push.                                                   *)

Answers == [state : States, ack : SUBSET Ids, conflicts : SUBSET Docs, log : Seq(Ops),
            held : BOOLEAN]

\* What is in a chain counts as folded.
Sound(s) == \A op \in Stored(s) : op.id \in s.seen

\* Every chain of t goes on where that of s ended.
Longer(s, t) == \A d \in Docs : Range(s.chain[d]) \subseteq Range(t.chain[d])

\* The operation is in a chain, or a version that knows it is.
Covered(s, op) ==
    \/ op \in Stored(s)
    \/ \E later \in Range(s.chain[op.doc]) : Below(op.vv, later.vv)

\* What may come of s when operations of L are replayed and pushed.
After(s, L) ==
    {a \in Answers : /\ Sound(a.state) /\ Longer(s, a.state)
                     /\ \A i \in a.state.seen \ s.seen :
                            \E op \in L : op.id = i /\ Covered(a.state, op)
                     /\ Stored(s) \subseteq Stored(a.state)
                     /\ Stored(a.state) \subseteq Stored(s) \cup L
                     /\ s.seen \subseteq a.state.seen
                     /\ a.ack \subseteq a.state.seen
                     /\ Range(a.log) \subseteq L}

LEMMA CoveredStays ==
    ASSUME NEW s, NEW t, Longer(s, t), NEW op \in Ops, Covered(s, op)
    PROVE  Covered(t, op)
<1>1. op.doc \in Docs
  BY DEF Ops
<1>2. CASE op \in Stored(s)
  <2>1. PICK d \in Docs : op \in Range(s.chain[d])
    BY <1>2 DEF Stored
  <2>2. op \in Range(t.chain[d])
    BY <2>1 DEF Longer
  <2> QED
    BY <2>1, <2>2 DEF Covered, Stored
<1>3. CASE op \notin Stored(s)
  <2>1. PICK later \in Range(s.chain[op.doc]) : Below(op.vv, later.vv)
    BY <1>3 DEF Covered
  <2>2. later \in Range(t.chain[op.doc])
    BY <1>1, <2>1 DEF Longer
  <2> QED
    BY <2>1, <2>2 DEF Covered
<1> QED
  BY <1>2, <1>3

\* One more operation folded into what came of s: what counts as folded by it
\* is covered.
LEMMA MoreCovered ==
    ASSUME NEW s, NEW L \in SUBSET Ops, NEW u, NEW t, NEW op \in L,
           Longer(s, u), Longer(u, t), Covered(t, op), t.seen = u.seen \cup {op.id},
           \A i \in u.seen \ s.seen : \E x \in L : x.id = i /\ Covered(u, x)
    PROVE  /\ Longer(s, t)
           /\ \A i \in t.seen \ s.seen : \E x \in L : x.id = i /\ Covered(t, x)
<1>1. Longer(s, t)
  BY DEF Longer
<1>2. ASSUME NEW i \in t.seen \ s.seen PROVE \E x \in L : x.id = i /\ Covered(t, x)
  <2>1. CASE i = op.id
    BY <2>1
  <2>2. CASE i # op.id
    <3>1. PICK x \in L : x.id = i /\ Covered(u, x)
      BY <1>2, <2>2
    <3>2. Covered(t, x)
      BY <3>1, CoveredStays
    <3> QED
      BY <3>1, <3>2
  <2> QED
    BY <2>1, <2>2
<1> QED
  BY <1>1, <1>2

LEMMA FoldOne ==
    ASSUME NEW s \in States, NEW op \in Ops, Sound(s)
    PROVE  /\ Fold(s, op) \in States /\ Sound(Fold(s, op))
           /\ Longer(s, Fold(s, op)) /\ Covered(Fold(s, op), op)
           /\ Stored(s) \subseteq Stored(Fold(s, op))
           /\ Stored(Fold(s, op)) \subseteq Stored(s) \cup {op}
           /\ Fold(s, op).seen = s.seen \cup {op.id}
<1>1. CASE Skipped(s, op)
  <2>1. Fold(s, op) = [s EXCEPT !.seen = @ \cup {op.id}]
    BY <1>1 DEF Fold
  <2>2. Fold(s, op) \in States /\ Fold(s, op).chain = s.chain /\ Fold(s, op).seen = s.seen \cup {op.id}
    BY <2>1 DEF States, Ops
  <2>3. /\ s.chain[op.doc] \in Seq(Ops) /\ s.chain[op.doc] # <<>>
        /\ Below(op.vv, Latest(s, op.doc).vv)
    BY <1>1 DEF Skipped, Stale, States, Ops
  <2>4. Latest(s, op.doc) \in Range(s.chain[op.doc])
    <3>1. /\ Len(s.chain[op.doc]) \in Nat /\ Len(s.chain[op.doc]) > 0
          /\ DOMAIN s.chain[op.doc] = 1..Len(s.chain[op.doc])
      BY <2>3, LenProperties, EmptySeq
    <3> QED
      BY <3>1 DEF Latest, Last, Range
  <2>5. Covered(Fold(s, op), op)
    BY <2>2, <2>3, <2>4 DEF Covered
  <2> QED
    BY <2>2, <2>5 DEF Stored, Sound, Longer
<1>2. CASE ~Skipped(s, op)
  <2> DEFINE t == Store(s, op)
  <2>1. Fold(s, op) = t
    BY <1>2 DEF Fold
  <2>2. /\ s.chain \in [Docs -> Seq(Ops)] /\ s.tomb \in [Docs -> Vectors \cup {NoVector}]
        /\ s.seen \in SUBSET Ids /\ s.vv \in Vectors
        /\ op.doc \in Docs /\ op.vv \in Vectors /\ op.id \in Ids
    BY DEF States, Ops
  <2>3. /\ t.chain = [s.chain EXCEPT ![op.doc] = Append(@, op)]
        /\ t.seen = s.seen \cup {op.id}
    BY DEF Store
  <2>4. /\ Append(s.chain[op.doc], op) \in Seq(Ops)
        /\ Range(Append(s.chain[op.doc], op)) = Range(s.chain[op.doc]) \cup {op}
    BY <2>2, AppendRange
  <2>5. t \in States
    BY <2>2, <2>4, MergeFacts DEF Store, States
  <2>6. \A d \in Docs : Range(t.chain[d]) = Range(s.chain[d]) \cup (IF d = op.doc THEN {op} ELSE {})
    BY <2>2, <2>3, <2>4
  <2>7. Stored(t) = Stored(s) \cup {op}
    <3> HIDE DEF t
    <3>1. ASSUME NEW x \in Stored(t) PROVE x \in Stored(s) \cup {op}
      <4>1. PICK d \in Docs : x \in Range(t.chain[d])
        BY DEF Stored
      <4> QED
        BY <2>6, <4>1 DEF Stored
    <3>2. ASSUME NEW x \in Stored(s) PROVE x \in Stored(t)
      <4>1. PICK d \in Docs : x \in Range(s.chain[d])
        BY DEF Stored
      <4> QED
        BY <2>6, <4>1 DEF Stored
    <3>3. op \in Range(t.chain[op.doc])
      BY <2>2, <2>6
    <3>4. op \in Stored(t)
      BY <2>2, <3>3 DEF Stored
    <3> QED
      BY <3>1, <3>2, <3>4
  <2>8. Longer(s, t) /\ Covered(t, op)
    <3> HIDE DEF t
    <3> QED
      BY <2>6, <2>7 DEF Longer, Covered
  <2> HIDE DEF t
  <2> QED
    BY <2>1, <2>3, <2>5, <2>7, <2>8 DEF Sound
<1> QED
  BY <1>1, <1>2

LEMMA ReplayKeeps ==
    ASSUME NEW s, NEW L \in SUBSET Ops, NEW a \in After(s, L), NEW op \in Ops, op \in L
    PROVE  ReplayOne(a, op) \in After(s, L)
<1>1. CASE a.held \/ Folded(a.state, op)
  BY <1>1 DEF ReplayOne
<1>2. CASE ~(a.held \/ Folded(a.state, op)) /\ Held(a.state, op)
  <2>1. ReplayOne(a, op) = [a EXCEPT !.held = TRUE]
    BY <1>2 DEF ReplayOne
  <2> QED
    BY <2>1 DEF After, Answers
<1>3. CASE ~(a.held \/ Folded(a.state, op)) /\ ~Held(a.state, op)
  <2>1. ReplayOne(a, op) = [a EXCEPT !.state = Fold(a.state, op)]
    BY <1>3 DEF ReplayOne
  <2>2. a \in Answers /\ a.state \in States /\ Sound(a.state)
    BY DEF After, Answers
  <2>3. /\ Fold(a.state, op) \in States /\ Sound(Fold(a.state, op))
        /\ Stored(a.state) \subseteq Stored(Fold(a.state, op))
        /\ Stored(Fold(a.state, op)) \subseteq Stored(a.state) \cup {op}
        /\ Fold(a.state, op).seen = a.state.seen \cup {op.id}
    BY <2>2, FoldOne
  <2> DEFINE t == Fold(a.state, op)
  <2>4. /\ Longer(s, t)
        /\ \A i \in t.seen \ s.seen : \E x \in L : x.id = i /\ Covered(t, x)
    <3>1. Longer(a.state, t) /\ Covered(t, op)
      BY <2>2, FoldOne
    <3>2. /\ Longer(s, a.state)
          /\ \A i \in a.state.seen \ s.seen : \E x \in L : x.id = i /\ Covered(a.state, x)
      BY DEF After
    <3>3. t.seen = a.state.seen \cup {op.id}
      BY <2>3
    <3> HIDE DEF t
    <3> QED
      BY <3>1, <3>2, <3>3, MoreCovered
  <2>5. /\ ReplayOne(a, op) = [a EXCEPT !.state = t]
        /\ t \in States /\ Sound(t) /\ Stored(a.state) \subseteq Stored(t)
        /\ Stored(t) \subseteq Stored(a.state) \cup {op} /\ t.seen = a.state.seen \cup {op.id}
        /\ Longer(s, t) /\ \A i \in t.seen \ s.seen : \E x \in L : x.id = i /\ Covered(t, x)
    BY <2>1, <2>3, <2>4
  <2> HIDE DEF t
  <2> QED
    BY <2>2, <2>5 DEF After, Answers
<1> QED
  BY <1>1, <1>2, <1>3


LEMMA TakeKeeps ==
    ASSUME NEW s, NEW L \in SUBSET Ops, NEW a \in After(s, L), NEW op \in Ops, op \in L
    PROVE  TakeOne(a, op) \in After(s, L)
<1>1. /\ a \in Answers /\ a.state \in States /\ Sound(a.state)
      /\ op.id \in Ids /\ op.doc \in Docs
  BY DEF After, Answers, Ops
<1>2. CASE Folded(a.state, op)
  <2>1. TakeOne(a, op) = [a EXCEPT !.ack = a.ack \cup {op.id}]
    BY <1>2 DEF TakeOne
  <2>2. op.id \in a.state.seen
    BY <1>1, <1>2 DEF Folded, Sound, Stored
  <2> QED
    BY <1>1, <2>1, <2>2 DEF After, Answers
<1>3. CASE ~Folded(a.state, op) /\ Held(a.state, op)
  <2>1. TakeOne(a, op) = [a EXCEPT !.conflicts = a.conflicts \cup {op.doc}]
    BY <1>3 DEF TakeOne
  <2> QED
    BY <1>1, <2>1 DEF After, Answers
<1>4. CASE ~Folded(a.state, op) /\ ~Held(a.state, op)
  <2> DEFINE t == Fold(a.state, op)
  <2>1. /\ t \in States /\ Sound(t)
        /\ Stored(a.state) \subseteq Stored(t)
        /\ Stored(t) \subseteq Stored(a.state) \cup {op}
        /\ t.seen = a.state.seen \cup {op.id}
    BY <1>1, FoldOne
  <2>5. /\ Longer(s, t)
        /\ \A i \in t.seen \ s.seen : \E x \in L : x.id = i /\ Covered(t, x)
    <3>1. Longer(a.state, t) /\ Covered(t, op)
      BY <1>1, FoldOne
    <3>2. /\ Longer(s, a.state)
          /\ \A i \in a.state.seen \ s.seen : \E x \in L : x.id = i /\ Covered(a.state, x)
      BY DEF After
    <3>3. t.seen = a.state.seen \cup {op.id}
      BY <2>1
    <3> HIDE DEF t
    <3> QED
      BY <3>1, <3>2, <3>3, MoreCovered
  <2>2. Append(a.log, op) \in Seq(Ops) /\ Range(Append(a.log, op)) = Range(a.log) \cup {op}
    <3>1. a.log \in Seq(Ops)
      BY <1>1 DEF Answers
    <3> QED
      BY <3>1, AppendRange
  <2>3. CASE Skipped(a.state, op)
    <3>1. TakeOne(a, op) = [a EXCEPT !.ack = a.ack \cup {op.id}, !.state = t]
      BY <1>4, <2>3 DEF TakeOne
    <3> HIDE DEF t
    <3>2. TakeOne(a, op) \in Answers
      <4>1. TakeOne(a, op) = [state |-> t, ack |-> a.ack \cup {op.id}, conflicts |-> a.conflicts,
                              log |-> a.log, held |-> a.held]
        BY <1>1, <3>1 DEF Answers
      <4>2. /\ a.ack \cup {op.id} \in SUBSET Ids /\ a.held \in BOOLEAN
            /\ a.conflicts \in SUBSET Docs /\ a.log \in Seq(Ops)
        BY <1>1 DEF Answers
      <4> QED
        BY <2>1, <4>1, <4>2 DEF Answers
    <3>3. /\ TakeOne(a, op).state = t /\ TakeOne(a, op).ack = a.ack \cup {op.id}
          /\ TakeOne(a, op).log = a.log
      BY <1>1, <3>1 DEF Answers
    <3> QED
      BY <2>1, <2>5, <3>2, <3>3 DEF After
  <2>4. CASE ~Skipped(a.state, op)
    <3> DEFINE c == IF Races(a.state, op) THEN a.conflicts \cup {op.doc} ELSE a.conflicts
    <3>1. TakeOne(a, op) = [a EXCEPT !.ack = a.ack \cup {op.id}, !.state = t,
                                     !.log = Append(a.log, op), !.conflicts = c]
      BY <1>4, <2>4 DEF TakeOne
    <3>2. c \in SUBSET Docs
      BY <1>1 DEF Answers
    <3> HIDE DEF t, c
    <3>3. TakeOne(a, op) \in Answers
      <4>1. TakeOne(a, op) = [state |-> t, ack |-> a.ack \cup {op.id}, conflicts |-> c,
                              log |-> Append(a.log, op), held |-> a.held]
        BY <1>1, <3>1 DEF Answers
      <4>2. a.ack \cup {op.id} \in SUBSET Ids /\ a.held \in BOOLEAN
        BY <1>1 DEF Answers
      <4> QED
        BY <2>1, <2>2, <3>2, <4>1, <4>2 DEF Answers
    <3>4. /\ TakeOne(a, op).state = t /\ TakeOne(a, op).ack = a.ack \cup {op.id}
          /\ TakeOne(a, op).log = Append(a.log, op)
      BY <1>1, <3>1 DEF Answers
    <3>5. /\ Stored(s) \subseteq Stored(t) /\ Stored(t) \subseteq Stored(s) \cup L
          /\ s.seen \subseteq t.seen /\ a.ack \cup {op.id} \subseteq t.seen
          /\ Range(Append(a.log, op)) \subseteq L
      BY <2>1, <2>2 DEF After
    <3> QED
      BY <2>1, <2>5, <3>3, <3>4, <3>5 DEF After
  <2> QED
    BY <2>3, <2>4
<1> QED
  BY <1>2, <1>3, <1>4

\* A push loses nothing that was stored or folded, stores nothing it was not
\* sent, and acknowledges only what counts as folded.
LEMMA PushFacts ==
    ASSUME NEW s \in States, Sound(s), NEW logged \in Seq(Ops), NEW batch \in Seq(Ops)
    PROVE  Push(s, logged, batch) \in After(s, Range(logged) \cup Range(batch))
<1> DEFINE L == Range(logged) \cup Range(batch)
<1>0. L \in SUBSET Ops
  BY RangeIsPart
<1>1. Answer(s) \in After(s, L)
  <2>1. <<>> \in Seq(Ops) /\ Range(<<>>) = {}
    BY EmptySeq, RangeIsPart
  <2> QED
    BY <2>1 DEF Answer, After, Answers, Longer
<1>2. Replay(s, logged) \in After(s, L)
  <2> DEFINE n == Len(logged)
  <2> DEFINE G == (0..n) \X After(s, L)
  <2>1. n \in Nat /\ DOMAIN logged = 1..n /\ \A i \in 1..n : logged[i] \in Ops /\ logged[i] \in L
    BY LenProperties, ElementOfSeq, RangeIsPart
  <2>2. Replay(s, logged) = Replays!FoldOf(0, Answer(s), logged)
    BY DEF Replay, ReplayStep, FoldLeft, MapThenFoldSet, Replays!FoldOf, Max
  <2> HIDE DEF L
  <2>3. <<0, Answer(s)>> \in G
    BY <1>1, <2>1
  <2>4. ASSUME NEW k \in 1..n, NEW a, <<k - 1, a>> \in G
        PROVE  <<k, ReplayStep(0, a, logged[k])>> \in G
    <3>1. a \in After(s, L) /\ logged[k] \in Ops /\ logged[k] \in L /\ k \in 0..n
      BY <2>1, <2>4
    <3>2. ReplayOne(a, logged[k]) \in After(s, L)
      BY <1>0, <3>1, ReplayKeeps
    <3> QED
      BY <3>1, <3>2 DEF ReplayStep
  <2>5. <<n, Replays!FoldOf(0, Answer(s), logged)>> \in G
    <3> HIDE DEF G
    <3> QED
      BY <2>1, <2>3, <2>4, Replays!FoldKeeps
  <2> QED
    BY <2>2, <2>5
<1>3. CASE Replay(s, logged).held
  BY <1>2, <1>3 DEF Push
<1>4. CASE ~Replay(s, logged).held
  <2> DEFINE r == Replay(s, logged)
  <2> DEFINE n == Len(batch)
  <2> DEFINE G == (0..n) \X After(s, L)
  <2>1. n \in Nat /\ DOMAIN batch = 1..n /\ \A i \in 1..n : batch[i] \in Ops /\ batch[i] \in L
    BY LenProperties, ElementOfSeq, RangeIsPart
  <2>2. Push(s, logged, batch) = Takes!FoldOf(0, r, batch)
    <3>1. Push(s, logged, batch) = FoldLeft(TakeOne, r, batch)
      BY <1>4 DEF Push
    <3> HIDE DEF r
    <3>2. FoldLeft(TakeOne, r, batch) = Takes!FoldOf(0, r, batch)
      BY DEF TakeStep, FoldLeft, MapThenFoldSet, Takes!FoldOf, Max
    <3> QED
      BY <3>1, <3>2
  <2> HIDE DEF L, r
  <2>3. <<0, r>> \in G
    BY <1>2, <2>1 DEF r
  <2>4. ASSUME NEW k \in 1..n, NEW a, <<k - 1, a>> \in G
        PROVE  <<k, TakeStep(0, a, batch[k])>> \in G
    <3>1. a \in After(s, L) /\ batch[k] \in Ops /\ batch[k] \in L /\ k \in 0..n
      BY <2>1, <2>4
    <3>2. TakeOne(a, batch[k]) \in After(s, L)
      BY <1>0, <3>1, TakeKeeps
    <3> QED
      BY <3>1, <3>2 DEF TakeStep
  <2>5. <<n, Takes!FoldOf(0, r, batch)>> \in G
    <3> HIDE DEF G
    <3> QED
      BY <2>1, <2>3, <2>4, Takes!FoldKeeps
  <2> QED
    BY <2>2, <2>5 DEF L
<1> QED
  BY <1>3, <1>4

-----------------------------------------------------------------------------
(* The inductive invariant.                                                *)

Budgets == [docs : SUBSET Docs, changes : Nat, retries : Nat, pulls : Nat,
            breaks : Nat, faults : Nat]

Jobs == [at : Steps, acked : SUBSET Ids, told : SUBSET Docs, page : Seq(Ops), more : BOOLEAN,
         snap : Vectors \cup {NoVector}, offset : Nat, restarts : 0..MaxRestarts,
         looked : Texts \cup {Gone}, held : BOOLEAN]

Cursors == [vv : Vectors, applied : SUBSET Ids, synced : [Docs -> Texts \cup {Gone}]]

\* A pass that applies has a page, and the vector its pages belong to. What it
\* has pulled is stored, what was acknowledged to it counts as folded.
PassOK(j, v) ==
    /\ j.at \in {"act", "settle", "applied"} => j.page # <<>>
    /\ j.at \in {"apply", "act", "settle", "applied", "advance"} => j.snap \in Vectors
    /\ Range(j.page) \subseteq Stored(v)
    /\ j.acked \subseteq v.seen

ServiceOK ==
    /\ left \in Budgets
    /\ Sound(vault)
    /\ \A r \in Replicas : PassOK(job[r], vault)

\* An outbox has the replica's own operations. An operation that is about and
\* not in the outbox any more has its counter in the durable cursor; so has one
\* that is about to leave.
CountersOK ==
    /\ \A r \in Replicas : \A op \in Range(outbox[r]) : op.by = r
    /\ \A x \in Travelling :
        x \in Range(outbox[x.by]) \/ x.vv[x.by] <= cursor[x.by].vv[x.by]
    /\ \A r \in Replicas : job[r].at \in {"ack", "drain"} =>
        \A op \in Acked(r) : op.vv[r] <= cursor[r].vv[r]

\* A text that is taken for synced is on its way or in the chains, unless it
\* lapsed.
Sent ==
    {op.text : op \in Stored(vault)}
        \cup UNION {{op.text : op \in Range(outbox[r])} : r \in Replicas}

SyncedOK ==
    \A r \in Replicas : \A d \in Docs : cursor[r].synced[d] \in {Gone} \cup lapsed \cup Sent

\* No two operations that are about have one id, and none has an id that its
\* replica has not given. One that counts as folded is covered.
IdsOK ==
    /\ \A x \in Travelling : x.id[2] <= minted[x.id[1]]
    /\ \A i \in vault.seen : i[2] <= minted[i[1]]
    /\ \A x, y \in Travelling : x.id = y.id => x = y
    /\ \A x \in Travelling : x.id \in vault.seen => Covered(vault, x)

TInv == TypeOK /\ ServiceOK

IInv ==
    /\ TInv
    /\ CountersOK /\ OneCounterEach
    /\ SyncedOK /\ IdsOK /\ NoTextLost

-----------------------------------------------------------------------------
(* Types, and what a pass and the service have in common.                  *)

LEMMA TypesOf ==
    ASSUME TypeOK, NEW r \in Replicas
    PROVE  /\ job \in [Replicas -> Jobs] /\ job[r] \in Jobs
           /\ cursor \in [Replicas -> Cursors] /\ cursor[r] \in Cursors
           /\ outbox[r] \in Seq(Ops) /\ Range(outbox[r]) \subseteq Ops
           /\ log[r] \in Seq(Ops) /\ Range(log[r]) \subseteq Ops
           /\ job[r].page \in Seq(Ops)
           /\ note[r] \in [Docs -> Nat]
           /\ Stored(vault) \subseteq Ops
<1>1. /\ job \in [Replicas -> Jobs] /\ job[r] \in Jobs
  BY DEF TypeOK, Jobs
<1>2. cursor \in [Replicas -> Cursors] /\ cursor[r] \in Cursors
  BY DEF TypeOK, Cursors
<1>3. outbox[r] \in Seq(Ops) /\ log[r] \in Seq(Ops)
  BY DEF TypeOK
<1>4. job[r].page \in Seq(Ops)
  BY <1>1 DEF Jobs
<1>5. note[r] \in [Docs -> Nat]
  BY DEF TypeOK, Texts, Gone
<1>6. ASSUME NEW d \in Docs PROVE Range(vault.chain[d]) \subseteq Ops
  <2>1. vault.chain[d] \in Seq(Ops)
    BY DEF TypeOK, States
  <2> QED
    BY <2>1, RangeIsPart
<1> QED
  BY <1>1, <1>2, <1>3, <1>4, <1>5, <1>6, RangeIsPart DEF Stored

\* The largest of finitely many numbers.
LEMMA HasMax ==
    ASSUME NEW n \in Nat, NEW m \in Nat, NEW f \in [1..m -> Nat]
    PROVE  \E x \in {n} \cup {f[i] : i \in 1..m} :
               \A y \in {n} \cup {f[i] : i \in 1..m} : x >= y
<1> DEFINE U(k) == {n} \cup {f[i] : i \in 1..k}
<1> DEFINE S == {k \in Nat : k <= m => \E x \in U(k) : \A y \in U(k) : x >= y}
<1>1. 0 \in S
  OBVIOUS
<1>2. ASSUME NEW k \in Nat, k \in S PROVE k + 1 \in S
  <2>1. SUFFICES ASSUME k + 1 <= m PROVE \E x \in U(k + 1) : \A y \in U(k + 1) : x >= y
    OBVIOUS
  <2>2. PICK x \in U(k) : \A y \in U(k) : x >= y
    BY <1>2, <2>1
  <2>3. U(k + 1) = U(k) \cup {f[k + 1]}
    <3>1. \A i \in 1..(k + 1) : i \in 1..k \/ i = k + 1
      OBVIOUS
    <3>2. 1..k \subseteq 1..(k + 1) /\ k + 1 \in 1..(k + 1)
      OBVIOUS
    <3> QED
      BY <3>1, <3>2
  <2>4. x \in Nat /\ f[k + 1] \in Nat /\ U(k) \subseteq Nat
    BY <2>1, <2>2
  <2> HIDE DEF U
  <2>5. CASE x >= f[k + 1]
    BY <2>2, <2>3, <2>5
  <2>6. CASE ~(x >= f[k + 1])
    BY <2>2, <2>3, <2>4, <2>6
  <2> QED
    BY <2>5, <2>6
<1>3. Nat \subseteq S
  <2> HIDE DEF S
  <2> QED
    BY <1>1, <1>2, Keeps!Induction
<1>4. \E x \in U(m) : \A y \in U(m) : x >= y
  <2> HIDE DEF U
  <2> QED
    BY <1>3
<1> QED
  BY <1>4, Zenon

\* The largest counter of s among a number and some operations of a sequence.
LEMMA HasMaxCounter ==
    ASSUME NEW s \in Replicas, NEW n \in Nat, NEW q \in Seq(Ops), NEW S, S \subseteq Range(q)
    PROVE  \E x \in {n} \cup {op.vv[s] : op \in S} :
               /\ x \in Nat
               /\ \A y \in {n} \cup {op.vv[s] : op \in S} : x >= y
<1> DEFINE f == [i \in 1..Len(q) |-> IF q[i] \in S THEN q[i].vv[s] ELSE n]
<1>1. /\ Len(q) \in Nat /\ DOMAIN q = 1..Len(q)
      /\ \A i \in 1..Len(q) : q[i] \in Ops
  BY LenProperties, ElementOfSeq
<1>2. f \in [1..Len(q) -> Nat]
  BY <1>1 DEF Ops, Vectors
<1>3. {n} \cup {f[i] : i \in 1..Len(q)} = {n} \cup {op.vv[s] : op \in S}
  <2>1. ASSUME NEW i \in 1..Len(q) PROVE f[i] \in {n} \cup {op.vv[s] : op \in S}
    OBVIOUS
  <2>2. ASSUME NEW op \in S PROVE \E i \in 1..Len(q) : f[i] = op.vv[s]
    BY <1>1 DEF Range
  <2> HIDE DEF f
  <2> QED
    BY <2>1, <2>2
<1>4. \E x \in {n} \cup {f[i] : i \in 1..Len(q)} :
          \A y \in {n} \cup {f[i] : i \in 1..Len(q)} : x >= y
  <2> HIDE DEF f
  <2> QED
    BY <1>1, <1>2, HasMax
<1>5. {n} \cup {f[i] : i \in 1..Len(q)} \subseteq Nat
  <2> HIDE DEF f
  <2> QED
    BY <1>2
<1> HIDE DEF f
<1> QED
  BY <1>3, <1>4, <1>5


LEMMA KnowsFacts ==
    ASSUME TypeOK, NEW r \in Replicas
    PROVE  /\ Knows(r) \in Vectors
           /\ Knows(r)[r] >= cursor[r].vv[r]
           /\ \A op \in Range(outbox[r]) : Knows(r)[r] >= op.vv[r]
<1> DEFINE U(s) == {cursor[r].vv[s]} \cup {op.vv[s] : op \in Range(outbox[r])}
<1>1. ASSUME NEW s \in Replicas
      PROVE  /\ Knows(r)[s] = Max(U(s)) /\ Max(U(s)) \in Nat
             /\ \A y \in U(s) : Max(U(s)) >= y
  <2>1. cursor[r].vv[s] \in Nat /\ outbox[r] \in Seq(Ops)
    BY TypesOf DEF Cursors, Vectors
  <2>2. \E x \in U(s) : x \in Nat /\ \A y \in U(s) : x >= y
    BY <2>1, HasMaxCounter
  <2>3. Knows(r)[s] = Max(U(s))
    BY DEF Knows
  <2> HIDE DEF U
  <2>4. Max(U(s)) \in U(s) /\ \A y \in U(s) : Max(U(s)) >= y
    BY <2>2, Zenon DEF Max
  <2>5. U(s) \subseteq Nat
    <3>1. \A op \in Range(outbox[r]) : op.vv[s] \in Nat
      BY TypesOf DEF Ops, Vectors
    <3> QED
      BY <2>1, <3>1 DEF U
  <2> QED
    BY <2>3, <2>4, <2>5
<1>2. Knows(r) = [s \in Replicas |-> Max(U(s))]
  BY DEF Knows
<1>3. cursor[r].vv[r] \in U(r) /\ \A op \in Range(outbox[r]) : op.vv[r] \in U(r)
  OBVIOUS
<1> HIDE DEF U
<1> QED
  BY <1>1, <1>2, <1>3 DEF Vectors

LEMMA ToSendFacts ==
    ASSUME TypeOK, NEW r \in Replicas
    PROVE  ToSend(r) \in Seq(Docs) /\ Len(ToSend(r)) \in Nat
<1> DEFINE changed == {d \in Docs : /\ note[r][d] # cursor[r].synced[d]
                                    /\ d \notin blocked[r]
                                    /\ \A op \in Range(outbox[r]) : op.doc # d}
<1> DEFINE A == {d \in changed : note[r][d] # Gone}
<1> DEFINE B == {d \in changed : note[r][d] = Gone}
<1>1. A \subseteq Docs /\ B \subseteq Docs
  OBVIOUS
<1>2. ToSend(r) = SetToSeq(A) \o SetToSeq(B)
  BY DEF ToSend
<1> HIDE DEF A, B
<1>3. IsFiniteSet(A) /\ IsFiniteSet(B)
  BY <1>1, DocsAssumption, FS_Subset
<1>4. SetToSeq(A) \in Seq(A) /\ SetToSeq(B) \in Seq(B)
  BY <1>3, InSomeOrder
<1>5. SetToSeq(A) \in Seq(Docs) /\ SetToSeq(B) \in Seq(Docs)
  BY <1>1, <1>4, SeqMonotonic
<1> QED
  BY <1>2, <1>5, ConcatProperties, LenProperties

\* The pass of r changes, and nothing is lost at the service.
LEMMA OnePass ==
    ASSUME TypeOK, \A q \in Replicas : PassOK(job[q], vault), NEW r \in Replicas,
           NEW j \in Jobs, job' = [job EXCEPT ![r] = j], PassOK(j, vault'),
           Stored(vault) \subseteq Stored(vault'), vault.seen \subseteq vault'.seen
    PROVE  /\ job' \in [Replicas -> Jobs]
           /\ \A q \in Replicas : PassOK(job'[q], vault')
<1>1. job' \in [Replicas -> Jobs] /\ job'[r] = j /\ \A q \in Replicas \ {r} : job'[q] = job[q]
  BY TypesOf
<1>2. ASSUME NEW q \in Replicas PROVE PassOK(job[q], vault) => PassOK(job[q], vault')
  BY DEF PassOK
<1> QED
  BY <1>1, <1>2

\* A pass that goes on with what it has.
LEMMA GoingOn ==
    ASSUME TypeOK, \A q \in Replicas : PassOK(job[q], vault), NEW r \in Replicas,
           NEW w \in Steps, Goto(r, w),
           w \in {"act", "settle", "applied"} => job[r].page # <<>>,
           w \in {"apply", "act", "settle", "applied", "advance"} => job[r].snap \in Vectors,
           Stored(vault) \subseteq Stored(vault'), vault.seen \subseteq vault'.seen
    PROVE  /\ job' \in [Replicas -> Jobs]
           /\ \A q \in Replicas : PassOK(job'[q], vault')
<1> DEFINE j == [job[r] EXCEPT !.at = w]
<1>1. j \in Jobs /\ j.at = w /\ j.page = job[r].page /\ j.snap = job[r].snap /\ j.acked = job[r].acked
  BY TypesOf DEF Jobs
<1>2. job' = [job EXCEPT ![r] = j]
  BY DEF Goto
<1>3. PassOK(j, vault')
  <2> HIDE DEF j
  <2> QED
    BY <1>1 DEF PassOK
<1> HIDE DEF j
<1> QED
  BY <1>1, <1>2, <1>3, OnePass

LEMMA Ending ==
    ASSUME TypeOK, \A q \in Replicas : PassOK(job[q], vault), NEW r \in Replicas,
           EndPass(r), Stored(vault) \subseteq Stored(vault'), vault.seen \subseteq vault'.seen
    PROVE  /\ job' \in [Replicas -> Jobs]
           /\ \A q \in Replicas : PassOK(job'[q], vault')
<1>1. <<>> \in Seq(Ops) /\ Range(<<>>) = {}
  BY EmptySeq, RangeIsPart
<1>2. NoPass \in Jobs
  BY <1>1, NumbersAssumption DEF NoPass, Jobs, Steps
<1>3. PassOK(NoPass, vault')
  BY <1>1 DEF NoPass, PassOK
<1>4. job' = [job EXCEPT ![r] = NoPass]
  BY DEF EndPass
<1> QED
  BY <1>2, <1>3, <1>4, OnePass

LEMMA FaultIsTyped ==
    ASSUME left \in Budgets, Fault
    PROVE  left' \in Budgets
BY DEF Fault, Budgets


-----------------------------------------------------------------------------
(* Every step keeps the types.                                             *)

\* Where a behaviour starts: nothing under way, and the chain of a document of S
\* the operation its notes were synced with.
LEMMA Starts ==
    ASSUME NEW b \in Bounds, NEW S \in SUBSET b.docs, NEW o \in Replicas, Start(b, S, o)
    PROVE  /\ TInv
           /\ \A d \in Docs : Range(vault.chain[d]) = IF d \in S THEN {FirstOp(o, d)} ELSE {}
           /\ Stored(vault) = {FirstOp(o, d) : d \in S}
           /\ \A r \in Replicas : /\ Range(log[r]) = {} /\ Range(outbox[r]) = {}
                                  /\ Range(job[r].page) = {}
<1>1. b \in Budgets /\ S \subseteq Docs
  BY BoundsAssumption DEF Budgets
<1>2. <<>> \in Seq(Ops) /\ Range(<<>>) = {}
  BY EmptySeq, RangeIsPart
<1>3. ASSUME NEW d \in Docs
      PROVE  /\ FirstOp(o, d) \in Ops
             /\ <<FirstOp(o, d)>> \in Seq(Ops) /\ Range(<<FirstOp(o, d)>>) = {FirstOp(o, d)}
  <2>1. FirstOp(o, d) \in Ops
    BY DEF FirstOp, Ops, Ids, Nowhere, Vectors
  <2>2. <<FirstOp(o, d)>> \in Seq(Ops)
    BY <2>1
  <2>3. Range(<<FirstOp(o, d)>>) = {FirstOp(o, d)}
    BY DEF Range
  <2> QED
    BY <2>1, <2>2, <2>3
<1> DEFINE first == IF S = {} THEN Nowhere ELSE [Nowhere EXCEPT ![o] = 1]
<1> DEFINE text == [d \in Docs |-> IF d \in S THEN 1 ELSE Gone]
<1>4. first \in Vectors /\ text \in [Docs -> Texts \cup {Gone}]
  BY DEF Nowhere, Vectors, Texts, Gone
<1>5. /\ vault = [chain |-> [d \in Docs |-> IF d \in S THEN <<FirstOp(o, d)>> ELSE <<>>],
                  tomb |-> [d \in Docs |-> NoVector],
                  seen |-> IF S = {} THEN {} ELSE {<<o, 1>>},
                  vv |-> first]
      /\ \A d \in Docs : vault.chain[d] = IF d \in S THEN <<FirstOp(o, d)>> ELSE <<>>
  BY DEF Start
<1>6. \A d \in Docs : Range(vault.chain[d]) = IF d \in S THEN {FirstOp(o, d)} ELSE {}
  BY <1>2, <1>3, <1>5
<1>7. Stored(vault) = {FirstOp(o, d) : d \in S}
  <2> HIDE DEF first
  <2>1. ASSUME NEW x \in Stored(vault) PROVE \E d \in S : x = FirstOp(o, d)
    <3>1. PICK d \in Docs : x \in Range(vault.chain[d])
      BY DEF Stored
    <3>2. d \in S /\ x = FirstOp(o, d)
      BY <1>6, <3>1
    <3> QED
      BY <3>2
  <2>2. ASSUME NEW d \in S PROVE FirstOp(o, d) \in Stored(vault)
    BY <1>1, <1>6 DEF Stored
  <2> QED
    BY <2>1, <2>2
<1>8. \A r \in Replicas : /\ log[r] = <<>> /\ outbox[r] = <<>> /\ job[r] = NoPass
  BY DEF Start
<1>9. TypeOK
  <2>1. vault \in States
    <3>1. <<o, 1>> \in Ids
      BY DEF Ids
    <3> HIDE DEF first
    <3> QED
      BY <1>2, <1>3, <1>4, <1>5, <3>1 DEF States
  <2>2. NoPass \in Jobs
    BY <1>2, NumbersAssumption DEF NoPass, Jobs, Steps
  <2>3. job \in [Replicas -> Jobs]
    BY <2>2 DEF Start
  <2>4. cursor \in [Replicas -> Cursors]
    <3>1. cursor = [r \in Replicas |-> [vv |-> first, applied |-> {}, synced |-> text]]
      BY DEF Start
    <3> HIDE DEF first, text
    <3> QED
      BY <1>4, <3>1 DEF Cursors
  <2>5. /\ note \in [Replicas -> [Docs -> Texts \cup {Gone}]] /\ minted \in [Replicas -> Nat]
    <3>1. note = [r \in Replicas |-> text] /\ minted = first
      BY DEF Start
    <3> HIDE DEF first, text
    <3> QED
      BY <1>4, <3>1 DEF Vectors
  <2>6. /\ log \in [Replicas -> Seq(Ops)] /\ outbox \in [Replicas -> Seq(Ops)]
        /\ kept \in [Replicas -> SUBSET Texts] /\ blocked \in [Replicas -> SUBSET Docs]
        /\ owed \subseteq Texts /\ lapsed \subseteq Texts \cup {Gone} /\ amiss \subseteq Docs
    BY <1>2 DEF Start, Texts, Gone
  <2> QED
    BY <2>1, <2>3, <2>4, <2>5, <2>6 DEF TypeOK, Jobs, Cursors
<1>10. ServiceOK
  <2>1. Sound(vault)
    <3>1. ASSUME NEW d \in S PROVE FirstOp(o, d).id \in vault.seen
      BY <1>5 DEF FirstOp
    <3> QED
      BY <1>7, <3>1 DEF Sound
  <2>2. left \in Budgets
    BY <1>1 DEF Start
  <2>3. PassOK(NoPass, vault)
    BY <1>2 DEF NoPass, PassOK
  <2>4. \A r \in Replicas : PassOK(job[r], vault)
    BY <1>8, <2>3
  <2> QED
    BY <2>1, <2>2, <2>4 DEF ServiceOK
<1>11. \A r \in Replicas : /\ Range(log[r]) = {} /\ Range(outbox[r]) = {}
                           /\ Range(job[r].page) = {}
  <2>1. NoPass.page = <<>>
    BY DEF NoPass
  <2> QED
    BY <1>2, <1>8, <2>1
<1> QED
  BY <1>6, <1>7, <1>9, <1>10, <1>11 DEF TInv


LEMMA ChangeTypes ==
    ASSUME TInv, NEW r \in Replicas, NEW d \in Docs, NEW text \in Nat, Change(r, d, text),
           amiss' \subseteq Docs
    PROVE  TInv'
<1>1. /\ left' = [left EXCEPT !.changes = @ - 1] /\ left.changes > 0
      /\ note' = [note EXCEPT ![r][d] = text]
      /\ owed' = (owed \ {note[r][d]}) \cup ({text} \ {Gone})
      /\ UNCHANGED <<vault, log, kept, outbox, cursor, blocked, minted, job, lapsed>>
  BY DEF Change, service
<1>2. left' \in Budgets
  BY <1>1 DEF TInv, ServiceOK, Budgets
<1>3. /\ note' \in [Replicas -> [Docs -> Texts \cup {Gone}]] /\ owed' \subseteq Texts
  BY <1>1 DEF TInv, TypeOK, Texts, Gone
<1>4. TypeOK'
  BY <1>1, <1>3 DEF TInv, TypeOK
<1>5. ServiceOK'
  BY <1>1, <1>2 DEF TInv, ServiceOK
<1> QED
  BY <1>4, <1>5 DEF TInv

\* A conflict that is settled, and one that is released.
LEMMA SettlingTypes ==
    ASSUME TInv, NEW r \in Replicas, NEW d \in Docs, Restore(r, d) \/ Retry(r, d)
    PROVE  TInv'
<1>1. CASE Restore(r, d)
  <2> DEFINE text == cursor[r].synced[d]
  <2>1. /\ note' = [note EXCEPT ![r][d] = text]
        /\ owed' = (owed \ {note[r][d]}) \cup {text} /\ text # Gone
        /\ UNCHANGED <<vault, log, kept, outbox, cursor, blocked, minted, job, left, lapsed, amiss>>
    BY <1>1 DEF Restore, service
  <2>2. text \in Texts
    BY <2>1, TypesOf DEF TInv, Cursors
  <2> HIDE DEF text
  <2>3. TypeOK'
    BY <2>1, <2>2 DEF TInv, TypeOK
  <2>4. ServiceOK'
    BY <2>1 DEF TInv, ServiceOK
  <2> QED
    BY <2>3, <2>4 DEF TInv
<1>2. CASE Retry(r, d)
  <2> DEFINE j == [job[r] EXCEPT !.at = "forget", !.told = {d}]
  <2>1. /\ left' = [left EXCEPT !.retries = @ - 1] /\ left.retries > 0
        /\ blocked' = [blocked EXCEPT ![r] = @ \ {d}] /\ amiss' \subseteq Docs
        /\ job' = job \/ job' = [job EXCEPT ![r] = j]
        /\ UNCHANGED <<vault, log, note, kept, outbox, cursor, minted, owed, lapsed>>
    <3>1. /\ left' = [left EXCEPT !.retries = @ - 1] /\ left.retries > 0
          /\ blocked' = [blocked EXCEPT ![r] = @ \ {d}]
          /\ amiss' = amiss \/ amiss' = amiss \cup {d}
          /\ UNCHANGED <<vault, log, note, kept, outbox, cursor, minted, owed, lapsed>>
      BY <1>2 DEF Retry, service
    <3>2. \/ job' = job
          \/ job' = [job EXCEPT ![r].at = "forget", ![r].told = {d}]
      BY <1>2 DEF Retry
    <3>3. [job EXCEPT ![r].at = "forget", ![r].told = {d}] = [job EXCEPT ![r] = j]
      BY TypesOf DEF TInv
    <3> QED
      BY <3>1, <3>2, <3>3 DEF TInv, TypeOK
  <2>2. left' \in Budgets
    BY <2>1 DEF TInv, ServiceOK, Budgets
  <2>3. j \in Jobs /\ PassOK(j, vault')
    <3>1. /\ j \in Jobs /\ j.at = "forget" /\ j.page = job[r].page /\ j.acked = job[r].acked
      <4>1. job[r] \in Jobs
        BY TypesOf DEF TInv
      <4>2. \A i \in Jobs : LET k == [i EXCEPT !.at = "forget", !.told = {d}] IN
                k \in Jobs /\ k.at = "forget" /\ k.page = i.page /\ k.acked = i.acked
        BY DEF Jobs, Steps
      <4> HIDE DEF Jobs
      <4> QED
        BY <4>1, <4>2
    <3> HIDE DEF j
    <3> QED
      BY <2>1, <3>1 DEF PassOK, TInv, ServiceOK
  <2> HIDE DEF j
  <2>4. job' \in [Replicas -> Jobs] /\ \A q \in Replicas : PassOK(job'[q], vault')
    <3>1. CASE job' = job
      BY <2>1, <3>1, TypesOf DEF TInv, ServiceOK
    <3>2. CASE job' # job
      BY <2>1, <2>3, <3>2, OnePass DEF TInv, ServiceOK
    <3> QED
      BY <3>1, <3>2
  <2>5. TypeOK'
    BY <2>1, <2>4 DEF TInv, TypeOK, Jobs
  <2>6. ServiceOK'
    BY <2>1, <2>2, <2>4 DEF TInv, ServiceOK
  <2> QED
    BY <2>5, <2>6 DEF TInv
<1> QED
  BY <1>1, <1>2

LEMMA UserTypes ==
    ASSUME TInv, NEW r \in Replicas, NEW d \in Docs,
           Edit(r, d) \/ Delete(r, d) \/ Restore(r, d) \/ Retry(r, d)
    PROVE  TInv'
<1>1. CASE Edit(r, d)
  <2>1. left.changes + 1 \in Nat
    BY DEF TInv, ServiceOK, Budgets
  <2>2. amiss' \subseteq Docs
    BY <1>1 DEF Edit, TInv, TypeOK
  <2> QED
    BY <1>1, <2>1, <2>2, ChangeTypes DEF Edit
<1>2. CASE Delete(r, d)
  <2>1. amiss' \subseteq Docs
    BY <1>2 DEF Delete, TInv, TypeOK
  <2>2. Change(r, d, Gone) /\ Gone \in Nat
    BY <1>2 DEF Delete, Gone
  <2> QED
    BY <2>1, <2>2, ChangeTypes
<1> QED
  BY <1>1, <1>2, SettlingTypes

\* What is pushed is written down for each operation with a counter of its own.
LEMMA CollectFacts ==
    ASSUME TypeOK, NEW r \in Replicas, Collect(r)
    PROVE  \E made \in Seq(Ops) :
             /\ outbox' = [outbox EXCEPT ![r] = @ \o made]
             /\ minted' = [minted EXCEPT ![r] = @ + Len(made)]
             /\ \A i \in 1..Len(made) :
                  /\ made[i].id = <<r, minted[r] + i>> /\ made[i].by = r
                  /\ made[i].vv[r] = Knows(r)[r] + i
<1> DEFINE q == ToSend(r)
<1> DEFINE Made(i) == [id |-> <<r, minted[r] + i>>, by |-> r, doc |-> q[i],
                       vv |-> [Knows(r) EXCEPT ![r] = @ + i], text |-> note[r][q[i]]]
<1> DEFINE made == [i \in 1..Len(q) |-> Made(i)]
<1>1. q \in Seq(Docs) /\ Len(q) \in Nat /\ \A i \in 1..Len(q) : q[i] \in Docs
  BY ToSendFacts, ElementOfSeq
<1>2. Knows(r) \in Vectors
  BY KnowsFacts
<1>3. /\ outbox' = [outbox EXCEPT ![r] = @ \o made]
      /\ minted' = [minted EXCEPT ![r] = @ + Len(q)]
  BY DEF Collect
<1> HIDE DEF q
<1>4. ASSUME NEW i \in 1..Len(q)
      PROVE  /\ Made(i) \in Ops
             /\ Made(i).id = <<r, minted[r] + i>> /\ Made(i).by = r
             /\ Made(i).vv[r] = Knows(r)[r] + i
  <2>1. q[i] \in Docs /\ i \in Nat /\ minted[r] \in Nat /\ note[r] \in [Docs -> Nat]
    BY SMTT(30), <1>1, TypesOf DEF TypeOK
  <2>2. [Knows(r) EXCEPT ![r] = @ + i] \in Vectors /\ [Knows(r) EXCEPT ![r] = @ + i][r] = Knows(r)[r] + i
    BY <1>2, <2>1 DEF Vectors
  <2>3. <<r, minted[r] + i>> \in Ids
    BY <2>1 DEF Ids
  <2> QED
    BY <2>1, <2>2, <2>3 DEF Ops
<1> HIDE DEF Made
<1>5. made \in Seq(Ops) /\ Len(made) = Len(q)
  <2>1. made \in [1..Len(q) -> Ops]
    BY <1>4
  <2>2. made \in Seq(Ops)
    BY <1>1, <2>1, SeqDef
  <2> QED
    BY <1>1, <2>1, <2>2, LenProperties
<1>6. \A i \in 1..Len(made) : made[i] = Made(i)
  BY <1>5
<1> HIDE DEF made
<1> QED
  BY <1>3, <1>4, <1>5, <1>6

LEMMA CollectTypes ==
    ASSUME TInv, NEW r \in Replicas, Collect(r)
    PROVE  TInv'
<1>1. PICK made \in Seq(Ops) : /\ outbox' = [outbox EXCEPT ![r] = @ \o made]
                               /\ minted' = [minted EXCEPT ![r] = @ + Len(made)]
  BY CollectFacts DEF TInv
<1>2. outbox' \in [Replicas -> Seq(Ops)] /\ minted' \in [Replicas -> Nat]
  <2>1. outbox[r] \o made \in Seq(Ops) /\ Len(made) \in Nat
    BY ConcatProperties, LenProperties DEF TInv, TypeOK
  <2> QED
    BY <1>1, <2>1 DEF TInv, TypeOK
<1>3. /\ UNCHANGED <<vault, log, note, kept, cursor, blocked, left, owed, lapsed, amiss>>
      /\ Goto(r, "pull") \/ Goto(r, "push")
  BY DEF Collect, service, history
<1>4. job' \in [Replicas -> Jobs] /\ \A q \in Replicas : PassOK(job'[q], vault')
  <2>1. Stored(vault) \subseteq Stored(vault') /\ vault.seen \subseteq vault'.seen
    BY <1>3
  <2>2. "pull" \in Steps /\ "push" \in Steps
    BY DEF Steps
  <2> QED
    BY <1>3, <2>1, <2>2, GoingOn DEF TInv, ServiceOK
<1>5. TypeOK'
  BY <1>2, <1>3, <1>4 DEF TInv, TypeOK, Jobs
<1>6. ServiceOK'
  BY <1>3, <1>4 DEF TInv, ServiceOK
<1> QED
  BY <1>5, <1>6 DEF TInv


\* What the service does with a push of r.
LEMMA PushTypes ==
    ASSUME TInv, NEW r \in Replicas
    PROVE  /\ ToPush(r) \in After(vault, Range(log[r]) \cup Range(outbox[r]))
           /\ ToPush(r).state \in States /\ Sound(ToPush(r).state)
           /\ Stored(vault) \subseteq Stored(ToPush(r).state)
           /\ Stored(ToPush(r).state) \subseteq Stored(vault) \cup Range(log[r]) \cup Range(outbox[r])
           /\ vault.seen \subseteq ToPush(r).state.seen
           /\ Longer(vault, ToPush(r).state)
           /\ \A i \in ToPush(r).state.seen \ vault.seen :
                \E op \in Range(log[r]) \cup Range(outbox[r]) :
                    op.id = i /\ Covered(ToPush(r).state, op)
           /\ ToPush(r).ack \subseteq ToPush(r).state.seen /\ ToPush(r).ack \in SUBSET Ids
           /\ ToPush(r).conflicts \in SUBSET Docs
           /\ Logged(r) \in [Replicas -> Seq(Ops)]
           /\ Range(Logged(r)[r]) \subseteq Range(log[r]) \cup Range(outbox[r])
           /\ \A q \in Replicas \ {r} : Logged(r)[q] = log[q]
<1>1. vault \in States /\ Sound(vault) /\ log[r] \in Seq(Ops) /\ outbox[r] \in Seq(Ops)
  BY DEF TInv, TypeOK, ServiceOK
<1>2. ToPush(r) \in After(vault, Range(log[r]) \cup Range(outbox[r]))
  BY <1>1, PushFacts DEF ToPush
<1>3. ToPush(r).log \in Seq(Ops) /\ Range(ToPush(r).log) \subseteq Range(log[r]) \cup Range(outbox[r])
  BY <1>2 DEF After, Answers
<1>4. /\ log[r] \o ToPush(r).log \in Seq(Ops)
      /\ Range(log[r] \o ToPush(r).log) = Range(log[r]) \cup Range(ToPush(r).log)
  BY <1>1, <1>3, ConcatRange
<1>5. /\ Logged(r) \in [Replicas -> Seq(Ops)]
      /\ Logged(r)[r] = log[r] \o ToPush(r).log
      /\ \A q \in Replicas \ {r} : Logged(r)[q] = log[q]
  BY <1>4 DEF Logged, TInv, TypeOK
<1>6. Range(Logged(r)[r]) \subseteq Range(log[r]) \cup Range(outbox[r])
  BY <1>3, <1>4, <1>5
<1>7. /\ ToPush(r).state \in States /\ Sound(ToPush(r).state)
      /\ Stored(vault) \subseteq Stored(ToPush(r).state)
      /\ Stored(ToPush(r).state) \subseteq Stored(vault) \cup Range(log[r]) \cup Range(outbox[r])
      /\ vault.seen \subseteq ToPush(r).state.seen
      /\ Longer(vault, ToPush(r).state)
      /\ \A i \in ToPush(r).state.seen \ vault.seen :
            \E op \in Range(log[r]) \cup Range(outbox[r]) :
                op.id = i /\ Covered(ToPush(r).state, op)
      /\ ToPush(r).ack \subseteq ToPush(r).state.seen /\ ToPush(r).ack \in SUBSET Ids
      /\ ToPush(r).conflicts \in SUBSET Docs
  BY <1>2 DEF After, Answers
<1> QED
  BY <1>2, <1>5, <1>6, <1>7

\* The part of a log or an outbox that stays.
LEMMA WithoutFacts ==
    ASSUME NEW q \in Seq(Ops), NEW ids
    PROVE  /\ Without(q, ids) \in Seq(Ops)
           /\ Range(Without(q, ids)) = {op \in Range(q) : op.id \notin ids}
<1>1. /\ Without(q, ids) \in Seq(Ops)
      /\ Range(Without(q, ids)) = Range(q) \cap {op \in Range(q) : op.id \notin ids}
  BY KeepingFacts DEF Without
<1> QED
  BY <1>1

LEMMA PushStepTypes ==
    ASSUME TInv, NEW r \in Replicas,
           PushAnswered(r) \/ PushRefused(r) \/ PushAnswerLost(r) \/ PushUnsaved(r)
    PROVE  TInv'
<1>1. /\ left \in Budgets /\ TypeOK /\ \A q \in Replicas : PassOK(job[q], vault)
      /\ Sound(vault) /\ vault \in States
  BY DEF TInv, ServiceOK, TypeOK
<1>2. CASE PushAnswered(r)
  <2> DEFINE w == IF ToPush(r).ack = {} THEN "pull" ELSE "mark"
  <2> DEFINE j == [job[r] EXCEPT !.acked = ToPush(r).ack, !.told = ToPush(r).conflicts, !.at = w]
  <2>1. /\ vault' = ToPush(r).state /\ log' = Logged(r)
        /\ blocked' = [blocked EXCEPT ![r] = @ \cup ToPush(r).conflicts]
        /\ job' = [job EXCEPT ![r] = j]
        /\ UNCHANGED <<note, kept, outbox, cursor, minted, left, owed, lapsed, amiss>>
    BY <1>2 DEF PushAnswered, history
  <2>2. w \in {"pull", "mark"} /\ w \in Steps
    BY DEF Steps
  <2> HIDE DEF w
  <2>3. /\ j \in Jobs /\ j.at = w /\ j.page = job[r].page /\ j.acked = ToPush(r).ack
    BY <1>1, <2>2, TypesOf, PushTypes DEF Jobs
  <2> HIDE DEF j
  <2>4. PassOK(j, vault')
    <3>1. Range(job[r].page) \subseteq Stored(vault)
      BY <1>1 DEF PassOK
    <3> QED
      BY <2>1, <2>2, <2>3, <3>1, PushTypes DEF PassOK
  <2>5. job' \in [Replicas -> Jobs] /\ \A q \in Replicas : PassOK(job'[q], vault')
    BY <1>1, <2>1, <2>3, <2>4, OnePass, PushTypes
  <2>6. blocked' \in [Replicas -> SUBSET Docs]
    BY <2>1, PushTypes DEF TInv, TypeOK
  <2>7. TypeOK'
    BY <2>1, <2>5, <2>6, PushTypes DEF TInv, TypeOK, Jobs
  <2>8. ServiceOK'
    BY <1>1, <2>1, <2>5, PushTypes DEF ServiceOK
  <2> QED
    BY <2>7, <2>8 DEF TInv
<1>3. CASE PushRefused(r)
  <2>1. EndPass(r) /\ UNCHANGED <<vault, log, note, kept, outbox, cursor, blocked, minted,
                                 left, owed, lapsed, amiss>>
    BY <1>3 DEF PushRefused, service, replica, history
  <2>2. job' \in [Replicas -> Jobs] /\ \A q \in Replicas : PassOK(job'[q], vault')
    BY <1>1, <2>1, Ending
  <2>3. TypeOK'
    BY <2>1, <2>2 DEF TInv, TypeOK, Jobs
  <2>4. ServiceOK'
    BY <1>1, <2>1, <2>2 DEF ServiceOK
  <2> QED
    BY <2>3, <2>4 DEF TInv
<1>4. CASE PushAnswerLost(r) \/ PushUnsaved(r)
  <2>1. /\ Fault /\ EndPass(r) /\ log' = Logged(r)
        /\ vault' = ToPush(r).state \/ vault' = vault
        /\ UNCHANGED <<note, kept, outbox, cursor, blocked, minted, owed, lapsed, amiss>>
    BY <1>4 DEF PushAnswerLost, PushUnsaved, replica
  <2>2. /\ Stored(vault) \subseteq Stored(vault') /\ vault.seen \subseteq vault'.seen
        /\ Sound(vault') /\ vault' \in States
    BY <1>1, <2>1, PushTypes
  <2>3. job' \in [Replicas -> Jobs] /\ \A q \in Replicas : PassOK(job'[q], vault')
    BY <1>1, <2>1, <2>2, Ending
  <2>4. TypeOK'
    BY <2>1, <2>2, <2>3, PushTypes DEF TInv, TypeOK, Jobs
  <2>5. ServiceOK'
    BY <1>1, <2>1, <2>2, <2>3, FaultIsTyped DEF ServiceOK
  <2> QED
    BY <2>4, <2>5 DEF TInv
<1> QED
  BY <1>2, <1>3, <1>4


\* The cursor of r changes.
LEMMA OneCursor ==
    ASSUME TypeOK, NEW r \in Replicas, NEW c \in Cursors, cursor' = [cursor EXCEPT ![r] = c]
    PROVE  /\ cursor' \in [Replicas -> Cursors] /\ cursor'[r] = c
           /\ \A q \in Replicas \ {r} : cursor'[q] = cursor[q]
BY TypesOf

LEMMA MarkFacts ==
    ASSUME TypeOK, NEW r \in Replicas, Mark(r)
    PROVE  /\ cursor' \in [Replicas -> Cursors]
           /\ \A q \in Replicas : cursor'[q].vv = cursor[q].vv
           /\ \A q \in Replicas : \A d \in Docs :
                \/ cursor'[q].synced[d] = cursor[q].synced[d]
                \/ \E op \in Range(outbox[r]) : cursor'[q].synced[d] = op.text
<1> DEFINE Sets(d) == \E op \in Acked(r) : /\ op.doc = d /\ d \notin job[r].told
                                           /\ op.text = Gone => note[r][d] = Gone
<1> DEFINE f == [d \in Docs |-> IF Sets(d) THEN (CHOOSE op \in Acked(r) : op.doc = d).text
                                ELSE cursor[r].synced[d]]
<1> DEFINE c == [cursor[r] EXCEPT !.synced = f]
<1>1. cursor' = [cursor EXCEPT ![r] = c]
  BY DEF Mark
<1>2. /\ cursor[r] \in Cursors /\ cursor[r].synced \in [Docs -> Texts \cup {Gone}]
      /\ Range(outbox[r]) \subseteq Ops
  BY TypesOf DEF Cursors
<1>3. ASSUME NEW d \in Docs
      PROVE  /\ f[d] \in Texts \cup {Gone}
             /\ f[d] = cursor[r].synced[d] \/ \E op \in Range(outbox[r]) : f[d] = op.text
  <2>1. CASE Sets(d)
    <3>1. \E op \in Acked(r) : op.doc = d
      BY <2>1
    <3>2. PICK op \in Acked(r) : op = CHOOSE x \in Acked(r) : x.doc = d
      BY <3>1
    <3>3. f[d] = op.text
      <4> HIDE DEF Sets
      <4> QED
        BY <2>1, <3>2
    <3>4. op \in Range(outbox[r]) /\ op \in Ops
      BY <1>2, <3>2 DEF Acked
    <3> HIDE DEF f
    <3> QED
      BY <3>3, <3>4 DEF Ops, Texts, Gone
  <2>2. CASE ~Sets(d)
    <3>1. f[d] = cursor[r].synced[d]
      <4> HIDE DEF Sets
      <4> QED
        BY <2>2
    <3> HIDE DEF f
    <3> QED
      BY <1>2, <3>1
  <2> QED
    BY <2>1, <2>2
<1>4. f \in [Docs -> Texts \cup {Gone}]
  <2>1. f = [d \in Docs |-> f[d]]
    OBVIOUS
  <2> HIDE DEF f
  <2> QED
    BY <1>3, <2>1
<1> HIDE DEF f
<1>5. c \in Cursors /\ c.vv = cursor[r].vv /\ c.synced = f
  BY <1>2, <1>4 DEF Cursors
<1> HIDE DEF c
<1>6. /\ cursor' \in [Replicas -> Cursors] /\ cursor'[r] = c
      /\ \A q \in Replicas \ {r} : cursor'[q] = cursor[q]
  BY <1>1, <1>5, OneCursor
<1> QED
  BY <1>3, <1>5, <1>6

LEMMA ForgetFacts ==
    ASSUME TypeOK, NEW r \in Replicas, Forget(r)
    PROVE  /\ cursor' \in [Replicas -> Cursors]
           /\ \A q \in Replicas : cursor'[q].vv = cursor[q].vv
           /\ \A q \in Replicas : \A d \in Docs :
                cursor'[q].synced[d] \in {cursor[q].synced[d], Gone}
<1> DEFINE f == [d \in Docs |-> IF d \in job[r].told THEN Gone ELSE cursor[r].synced[d]]
<1> DEFINE c == [cursor[r] EXCEPT !.synced = f]
<1>1. cursor' = [cursor EXCEPT ![r] = c]
  BY DEF Forget
<1>2. cursor[r] \in Cursors /\ cursor[r].synced \in [Docs -> Texts \cup {Gone}]
  BY TypesOf DEF Cursors
<1>3. /\ f \in [Docs -> Texts \cup {Gone}]
      /\ \A d \in Docs : f[d] \in {cursor[r].synced[d], Gone}
  BY <1>2
<1> HIDE DEF f
<1>4. c \in Cursors /\ c.vv = cursor[r].vv /\ c.synced = f
  BY <1>2, <1>3 DEF Cursors
<1> HIDE DEF c
<1>5. /\ cursor' \in [Replicas -> Cursors] /\ cursor'[r] = c
      /\ \A q \in Replicas \ {r} : cursor'[q] = cursor[q]
  BY <1>1, <1>4, OneCursor
<1> QED
  BY <1>3, <1>4, <1>5

LEMMA CountFacts ==
    ASSUME TypeOK, NEW r \in Replicas, Count(r)
    PROVE  /\ cursor' \in [Replicas -> Cursors]
           /\ \A q, s \in Replicas : cursor'[q].vv[s] >= cursor[q].vv[s]
           /\ \A op \in Acked(r) : cursor'[r].vv[r] >= op.vv[r]
           /\ \A q \in Replicas : cursor'[q].synced = cursor[q].synced
<1> DEFINE old == cursor[r].vv[r]
<1> DEFINE U == {old} \cup {op.vv[r] : op \in Acked(r)}
<1> DEFINE top == CHOOSE n \in U : \A op \in Acked(r) : n >= op.vv[r] /\ n >= old
<1>1. /\ cursor[r] \in Cursors /\ cursor[r].vv \in Vectors /\ old \in Nat
      /\ outbox[r] \in Seq(Ops) /\ Acked(r) \subseteq Range(outbox[r])
  BY TypesOf DEF Cursors, Vectors, Acked
<1>2. \E n \in U : n \in Nat /\ \A y \in U : n >= y
  BY <1>1, HasMaxCounter
<1>3. \A op \in Acked(r) : op.vv[r] \in U
  OBVIOUS
<1>4. old \in U
  OBVIOUS
<1>5. U \subseteq Nat
  <2>1. \A op \in Acked(r) : op.vv[r] \in Nat
    BY <1>1, TypesOf DEF Ops, Vectors
  <2> QED
    BY <1>1, <2>1
<1>6. cursor' = [cursor EXCEPT ![r].vv[r] = top]
  BY DEF Count
<1>7. top \in Nat /\ (\A op \in Acked(r) : top >= op.vv[r]) /\ top >= old
  <2> HIDE DEF U, old
  <2>1. \E n \in U : \A op \in Acked(r) : n >= op.vv[r] /\ n >= old
    BY <1>2, <1>3, <1>4
  <2>2. top \in U /\ \A op \in Acked(r) : top >= op.vv[r] /\ top >= old
    BY <2>1, Zenon
  <2>3. CASE Acked(r) = {}
    <3>1. U = {old}
      BY <2>3 DEF U
    <3> HIDE DEF top
    <3> QED
      BY <1>1, <2>2, <2>3, <3>1
  <2>4. CASE Acked(r) # {}
    <3> HIDE DEF top
    <3> QED
      BY <1>5, <2>2, <2>4
  <2> QED
    BY <2>3, <2>4
<1> HIDE DEF top
<1> DEFINE c == [cursor[r] EXCEPT !.vv = [cursor[r].vv EXCEPT ![r] = top]]
<1>8. cursor' = [cursor EXCEPT ![r] = c]
  BY <1>6
<1>9. /\ c \in Cursors /\ c.synced = cursor[r].synced
      /\ \A s \in Replicas : c.vv[s] = IF s = r THEN top ELSE cursor[r].vv[s]
  BY <1>1, <1>7 DEF Cursors, Vectors
<1> HIDE DEF c
<1>10. /\ cursor' \in [Replicas -> Cursors] /\ cursor'[r] = c
       /\ \A q \in Replicas \ {r} : cursor'[q] = cursor[q]
  BY <1>8, <1>9, OneCursor
<1>11. \A q, s \in Replicas : cursor[q].vv[s] \in Nat
  BY TypesOf DEF Cursors, Vectors
<1> QED
  BY <1>7, <1>9, <1>10, <1>11

LEMMA AdvanceFacts ==
    ASSUME TInv, NEW r \in Replicas, Advance(r)
    PROVE  /\ cursor' \in [Replicas -> Cursors]
           /\ \A q, s \in Replicas : cursor'[q].vv[s] >= cursor[q].vv[s]
           /\ \A q \in Replicas : cursor'[q].synced = cursor[q].synced
<1>1. /\ TypeOK /\ cursor \in [Replicas -> Cursors] /\ cursor[r] \in Cursors
      /\ cursor[r].vv \in Vectors
      /\ \A q, s \in Replicas : cursor[q].vv[s] \in Nat
  BY TypesOf DEF TInv, Cursors, Vectors
<1>2. job[r].snap \in Vectors
  BY DEF Advance, TInv, ServiceOK, PassOK
<1> DEFINE c == [cursor[r] EXCEPT !.vv = Merge(cursor[r].vv, job[r].snap), !.applied = {}]
<1>3. c \in Cursors /\ c.synced = cursor[r].synced /\ \A s \in Replicas : c.vv[s] >= cursor[r].vv[s]
  <2>1. /\ Merge(cursor[r].vv, job[r].snap) \in Vectors
        /\ \A s \in Replicas : cursor[r].vv[s] <= Merge(cursor[r].vv, job[r].snap)[s]
    BY <1>1, <1>2, MergeFacts DEF Below
  <2>2. /\ c \in Cursors /\ c.synced = cursor[r].synced
        /\ c.vv = Merge(cursor[r].vv, job[r].snap)
    BY <1>1, <2>1 DEF Cursors
  <2> HIDE DEF c
  <2> QED
    BY <1>1, <2>1, <2>2 DEF Vectors
<1>4. cursor' = cursor \/ cursor' = [cursor EXCEPT ![r] = c]
  BY DEF Advance
<1> HIDE DEF c
<1>5. CASE cursor' = cursor
  BY <1>1, <1>5
<1>6. CASE cursor' = [cursor EXCEPT ![r] = c]
  <2>1. /\ cursor' \in [Replicas -> Cursors] /\ cursor'[r] = c
        /\ \A q \in Replicas \ {r} : cursor'[q] = cursor[q]
    BY <1>1, <1>3, <1>6, OneCursor
  <2> QED
    BY <1>1, <1>3, <2>1
<1> QED
  BY <1>4, <1>5, <1>6


\* The operation a pass is at.
LEMMA OpFacts ==
    ASSUME TInv, NEW r \in Replicas, job[r].page # <<>>
    PROVE  /\ Op(r) \in Stored(vault) /\ Op(r) \in Ops /\ Doc(r) \in Docs /\ Op(r).text \in Nat
           /\ Tail(job[r].page) \in Seq(Ops)
           /\ Range(Tail(job[r].page)) \subseteq Range(job[r].page)
<1>1. job[r].page \in Seq(Ops) /\ Range(job[r].page) \subseteq Stored(vault)
  BY TypesOf DEF TInv, ServiceOK, PassOK
<1>2. /\ Op(r) \in Range(job[r].page) /\ Op(r) \in Ops /\ Tail(job[r].page) \in Seq(Ops)
      /\ Range(Tail(job[r].page)) \subseteq Range(job[r].page)
  BY <1>1, HeadAndTail DEF Op
<1> QED
  BY <1>1, <1>2 DEF Doc, Ops

LEMMA SettleFacts ==
    ASSUME TInv, NEW r \in Replicas, Settle(r)
    PROVE  /\ cursor' \in [Replicas -> Cursors]
           /\ \A q \in Replicas : cursor'[q].vv = cursor[q].vv
           /\ \A q \in Replicas : \A d \in Docs :
                \/ cursor'[q].synced[d] = cursor[q].synced[d]
                \/ \E op \in Stored(vault) : cursor'[q].synced[d] = op.text
<1>1. /\ job[r].page # <<>>
      /\ cursor' = [cursor EXCEPT ![r].synced[Doc(r)] = Op(r).text]
  BY DEF Settle, TInv, ServiceOK, PassOK
<1>2. /\ Op(r) \in Stored(vault) /\ Doc(r) \in Docs /\ Op(r).text \in Texts \cup {Gone}
      /\ cursor[r] \in Cursors /\ cursor[r].synced \in [Docs -> Texts \cup {Gone}]
      /\ TypeOK
  BY <1>1, OpFacts, TypesOf DEF TInv, Texts, Gone, Cursors
<1> DEFINE c == [cursor[r] EXCEPT !.synced = [cursor[r].synced EXCEPT ![Doc(r)] = Op(r).text]]
<1>3. cursor' = [cursor EXCEPT ![r] = c]
  BY <1>1
<1>4. /\ c \in Cursors /\ c.vv = cursor[r].vv
      /\ \A d \in Docs : c.synced[d] = IF d = Doc(r) THEN Op(r).text ELSE cursor[r].synced[d]
  BY <1>2 DEF Cursors
<1> HIDE DEF c
<1>5. /\ cursor' \in [Replicas -> Cursors] /\ cursor'[r] = c
      /\ \A q \in Replicas \ {r} : cursor'[q] = cursor[q]
  BY <1>2, <1>3, <1>4, OneCursor
<1> QED
  BY <1>2, <1>4, <1>5

LEMMA MarkAppliedFacts ==
    ASSUME TInv, NEW r \in Replicas, MarkApplied(r)
    PROVE  /\ cursor' \in [Replicas -> Cursors]
           /\ \A q \in Replicas : cursor'[q].vv = cursor[q].vv
           /\ \A q \in Replicas : cursor'[q].synced = cursor[q].synced
<1>1. /\ job[r].page # <<>>
      /\ cursor' = [cursor EXCEPT ![r].applied = @ \cup {Op(r).id}]
  BY DEF MarkApplied, TInv, ServiceOK, PassOK
<1>2. Op(r).id \in Ids /\ cursor[r] \in Cursors /\ TypeOK
  BY <1>1, OpFacts, TypesOf DEF TInv, Ops
<1> DEFINE c == [cursor[r] EXCEPT !.applied = @ \cup {Op(r).id}]
<1>3. cursor' = [cursor EXCEPT ![r] = c]
  BY <1>1
<1>4. c \in Cursors /\ c.vv = cursor[r].vv /\ c.synced = cursor[r].synced
  BY <1>2 DEF Cursors
<1> HIDE DEF c
<1> QED
  BY <1>2, <1>3, <1>4, OneCursor

LEMMA SendingTypes ==
    ASSUME TInv, NEW r \in Replicas,
           \/ PullNow(r) \/ Mark(r) \/ Count(r) \/ AckPush(r) \/ Drain(r) \/ AckPull(r)
           \/ Forget(r) \/ BreakOff(r) \/ Fail(r)
    PROVE  TInv'
<1>1. /\ left \in Budgets /\ TypeOK /\ \A q \in Replicas : PassOK(job[q], vault)
      /\ Sound(vault) /\ vault \in States
  BY DEF TInv, ServiceOK, TypeOK
<1>2. {"pull", "count", "ack", "drain", "advance"} \subseteq Steps
  BY DEF Steps
<1>3. ASSUME vault' = vault, left' \in Budgets,
             \/ EndPass(r)
             \/ \E w \in {"pull", "count", "ack", "drain"} : Goto(r, w)
             \/ Goto(r, "advance") /\ job[r].at = "apply"
      PROVE  job' \in [Replicas -> Jobs] /\ ServiceOK'
  <2>1. job' \in [Replicas -> Jobs] /\ \A q \in Replicas : PassOK(job'[q], vault')
    <3>1. CASE EndPass(r)
      BY <1>1, <1>3, <3>1, Ending
    <3>2. CASE \E w \in {"pull", "count", "ack", "drain"} : Goto(r, w)
      BY <1>1, <1>2, <1>3, <3>2, GoingOn
    <3>3. CASE Goto(r, "advance") /\ job[r].at = "apply"
      <4>1. job[r].snap \in Vectors
        BY <1>1, <3>3 DEF PassOK
      <4> QED
        BY <1>1, <1>2, <1>3, <3>3, <4>1, GoingOn
    <3> QED
      BY <1>3, <3>1, <3>2, <3>3
  <2> QED
    BY <1>1, <1>3, <2>1 DEF ServiceOK
<1>4. CASE PullNow(r)
  <2>1. /\ UNCHANGED <<vault, log, note, kept, outbox, cursor, blocked, minted, owed, lapsed, amiss>>
        /\ Goto(r, "pull") /\ left' = [left EXCEPT !.pulls = @ - 1] /\ left.pulls > 0
    BY <1>4 DEF PullNow, service, replica
  <2>2. left' \in Budgets
    BY <1>1, <2>1 DEF Budgets
  <2>3. job' \in [Replicas -> Jobs] /\ ServiceOK'
    BY <1>3, <2>1, <2>2
  <2> QED
    BY <2>1, <2>3 DEF TInv, TypeOK, Jobs
<1>5. CASE Mark(r)
  <2>1. /\ UNCHANGED <<vault, log, note, kept, outbox, blocked, minted, left, owed, lapsed>>
        /\ Goto(r, "count") /\ amiss' \subseteq Docs
    BY <1>1, <1>5 DEF Mark, service, TypeOK
  <2>2. cursor' \in [Replicas -> Cursors]
    BY <1>1, <1>5, MarkFacts
  <2>3. job' \in [Replicas -> Jobs] /\ ServiceOK'
    BY <1>1, <1>3, <2>1
  <2> QED
    BY <2>1, <2>2, <2>3 DEF TInv, TypeOK, Jobs, Cursors
<1>6. CASE Count(r)
  <2>1. /\ UNCHANGED <<vault, log, note, kept, outbox, blocked, minted, left, owed, lapsed, amiss>>
        /\ Goto(r, "ack")
    BY <1>6 DEF Count, service, history
  <2>2. cursor' \in [Replicas -> Cursors]
    BY <1>1, <1>6, CountFacts
  <2>3. job' \in [Replicas -> Jobs] /\ ServiceOK'
    BY <1>1, <1>3, <2>1
  <2> QED
    BY <2>1, <2>2, <2>3 DEF TInv, TypeOK, Jobs, Cursors
<1>7. CASE AckPush(r) \/ AckPull(r)
  <2>1. /\ \E ids : log' = [log EXCEPT ![r] = Without(@, ids)]
        /\ UNCHANGED <<vault, note, kept, outbox, cursor, blocked, minted, owed, lapsed, amiss>>
        /\ left' = left \/ Fault
        /\ \/ Goto(r, "drain")
           \/ Goto(r, "advance") /\ job[r].at = "apply"
           \/ EndPass(r)
    BY <1>7 DEF AckPush, AckPull, replica
  <2>2. log' \in [Replicas -> Seq(Ops)]
    <3>1. log[r] \in Seq(Ops)
      BY <1>1, TypesOf
    <3> QED
      BY <1>1, <2>1, <3>1, WithoutFacts DEF TypeOK
  <2>3. left' \in Budgets
    BY <1>1, <2>1, FaultIsTyped
  <2>4. job' \in [Replicas -> Jobs] /\ ServiceOK'
    BY <1>3, <2>1, <2>3
  <2> QED
    BY <2>1, <2>2, <2>4 DEF TInv, TypeOK, Jobs
<1>8. CASE Drain(r)
  <2>1. /\ outbox' = [outbox EXCEPT ![r] = Without(@, job[r].acked)]
        /\ lapsed' = lapsed \cup {op.text : op \in Acked(r) \ Stored(vault)}
        /\ UNCHANGED <<vault, log, note, kept, cursor, blocked, minted, left, owed, amiss>>
        /\ Goto(r, "pull")
    BY <1>8 DEF Drain, service
  <2>2. outbox' \in [Replicas -> Seq(Ops)] /\ lapsed' \subseteq Texts \cup {Gone}
    <3>1. outbox[r] \in Seq(Ops) /\ \A op \in Acked(r) : op.text \in Texts \cup {Gone}
      BY <1>1, TypesOf DEF Acked, Ops, Texts, Gone
    <3> QED
      BY <1>1, <2>1, <3>1, WithoutFacts DEF TypeOK
  <2>3. job' \in [Replicas -> Jobs] /\ ServiceOK'
    BY <1>1, <1>3, <2>1
  <2> QED
    BY <2>1, <2>2, <2>3 DEF TInv, TypeOK, Jobs
<1>9. CASE Fail(r)
  <2>1. /\ Fault /\ EndPass(r)
        /\ UNCHANGED <<vault, log, note, kept, outbox, cursor, blocked, minted, owed, lapsed, amiss>>
    BY <1>9 DEF Fail, service, replica
  <2>2. job' \in [Replicas -> Jobs] /\ ServiceOK'
    BY <1>1, <1>3, <2>1, FaultIsTyped
  <2> QED
    BY <2>1, <2>2 DEF TInv, TypeOK, Jobs
<1>10. CASE Forget(r)
  <2>1. /\ UNCHANGED <<vault, log, note, kept, outbox, blocked, minted, left, owed, lapsed>>
        /\ EndPass(r)
        /\ amiss' = amiss \cup {d \in job[r].told : note[r][d] = Gone /\ Pulled(r, d)}
    BY <1>10 DEF Forget, service
  <2>4. amiss' \subseteq Docs
    <3>1. job[r].told \subseteq Docs /\ amiss \subseteq Docs
      BY <1>1, TypesOf DEF Jobs, TypeOK
    <3> QED
      BY <2>1, <3>1
  <2>2. cursor' \in [Replicas -> Cursors]
    BY <1>1, <1>10, ForgetFacts
  <2>3. job' \in [Replicas -> Jobs] /\ ServiceOK'
    BY <1>1, <1>3, <2>1
  <2> QED
    BY <2>1, <2>2, <2>3, <2>4 DEF TInv, TypeOK, Jobs, Cursors
<1>11. CASE BreakOff(r)
  <2>1. /\ left' = [left EXCEPT !.breaks = @ - 1] /\ left.breaks > 0 /\ EndPass(r)
        /\ UNCHANGED <<vault, log, note, kept, outbox, cursor, blocked, minted, owed, lapsed>>
        /\ amiss' = amiss \cup {d \in job[r].told : note[r][d] = cursor[r].synced[d]}
    BY <1>11 DEF BreakOff, service, replica
  <2>2. amiss' \subseteq Docs
    <3>1. job[r].told \subseteq Docs /\ amiss \subseteq Docs
      BY <1>1, TypesOf DEF Jobs, TypeOK
    <3> QED
      BY <2>1, <3>1
  <2>3. left' \in Budgets
    BY <1>1, <2>1 DEF Budgets
  <2>4. job' \in [Replicas -> Jobs] /\ ServiceOK'
    BY <1>3, <2>1, <2>3
  <2> QED
    BY <2>1, <2>2, <2>4 DEF TInv, TypeOK, Jobs
<1> QED
  BY <1>4, <1>5, <1>6, <1>7, <1>8, <1>9, <1>10, <1>11


\* What an operation that was pulled does to the notes: one that is replaced was
\* as it had been synced, or goes to the trash.
LEMMA ActFacts ==
    ASSUME TInv, NEW r \in Replicas, Act(r)
    PROVE  /\ note' \in [Replicas -> [Docs -> Texts \cup {Gone}]]
           /\ kept' \in [Replicas -> SUBSET Texts]
           /\ blocked' \in [Replicas -> SUBSET Docs]
           /\ job' \in [Replicas -> Jobs]
           /\ \A q \in Replicas : PassOK(job'[q], vault')
           /\ \A q \in Replicas : kept[q] \subseteq kept'[q]
           /\ \A q \in Replicas : \A d \in Docs :
                \/ note'[q][d] = note[q][d]
                \/ note[q][d] \in {Gone, cursor[q].synced[d]} \cup kept'[q]
<1>1. /\ TypeOK /\ (\A q \in Replicas : PassOK(job[q], vault)) /\ vault' = vault
      /\ job[r].at = "act" /\ job[r] \in Jobs
  BY TypesOf DEF TInv, ServiceOK, Act, service
<1>2. job[r].page # <<>> /\ job[r].snap \in Vectors
  BY <1>1 DEF PassOK
<1>3. /\ Doc(r) \in Docs /\ Op(r).text \in Nat /\ Current(r) \in Nat
      /\ Tail(job[r].page) \in Seq(Ops)
      /\ Range(Tail(job[r].page)) \subseteq Range(job[r].page)
  BY <1>1, <1>2, OpFacts DEF Jobs, Current, Texts, Gone
<1>4. /\ note \in [Replicas -> [Docs -> Texts \cup {Gone}]]
      /\ kept \in [Replicas -> SUBSET Texts] /\ blocked \in [Replicas -> SUBSET Docs]
      /\ Texts \cup {Gone} = Nat /\ Texts = Nat \ {Gone}
  BY <1>1 DEF TypeOK, Texts, Gone
<1>5. ASSUME Hold(r)
      PROVE  job' \in [Replicas -> Jobs] /\ \A q \in Replicas : PassOK(job'[q], vault')
  <2> DEFINE j == [job[r] EXCEPT !.at = "apply", !.page = Tail(@), !.looked = Gone, !.held = TRUE]
  <2>1. job' = [job EXCEPT ![r] = j]
    BY <1>5 DEF Hold
  <2>2. /\ j \in Jobs /\ j.at = "apply" /\ j.page = Tail(job[r].page)
        /\ j.snap = job[r].snap /\ j.acked = job[r].acked
    BY <1>1, <1>3 DEF Jobs, Steps
  <2> HIDE DEF j
  <2>3. PassOK(j, vault')
    BY <1>1, <1>2, <1>3, <2>2 DEF PassOK
  <2> QED
    BY <1>1, <2>1, <2>2, <2>3, OnePass
<1>6. ASSUME \/ Hold(r) \/ EndPass(r) \/ Goto(r, "applied") \/ Goto(r, "settle")
      PROVE  job' \in [Replicas -> Jobs] /\ \A q \in Replicas : PassOK(job'[q], vault')
  <2>1. CASE Hold(r)
    BY <1>5, <2>1
  <2>2. CASE EndPass(r)
    BY <1>1, <2>2, Ending
  <2>3. CASE Goto(r, "applied") \/ Goto(r, "settle")
    <3>1. "applied" \in Steps /\ "settle" \in Steps
      BY DEF Steps
    <3> QED
      BY <1>1, <1>2, <2>3, <3>1, GoingOn
  <2> QED
    BY <1>6, <2>1, <2>2, <2>3
<1>7. CASE ActOwn(r)
  <2>1. UNCHANGED <<note, kept, blocked>> /\ (Hold(r) \/ Goto(r, "applied"))
    BY <1>7 DEF ActOwn, Hold
  <2>2. job' \in [Replicas -> Jobs] /\ \A q \in Replicas : PassOK(job'[q], vault')
    BY <1>6, <2>1
  <2> QED
    BY <1>4, <2>1, <2>2
<1>8. CASE ActRemoval(r)
  <2>1. CASE UNCHANGED <<note, kept, blocked>> /\ (Hold(r) \/ Goto(r, "applied"))
    <3>1. job' \in [Replicas -> Jobs] /\ \A q \in Replicas : PassOK(job'[q], vault')
      BY <1>6, <2>1
    <3> QED
      BY <1>4, <2>1, <3>1
  <2>2. CASE /\ note' = [note EXCEPT ![r][Doc(r)] = Gone]
             /\ kept' = [kept EXCEPT ![r] = @ \cup {Current(r)}]
             /\ Current(r) # Gone /\ note[r][Doc(r)] = Current(r)
             /\ Goto(r, "settle") /\ UNCHANGED blocked
    <3>1. job' \in [Replicas -> Jobs] /\ \A q \in Replicas : PassOK(job'[q], vault')
      BY <1>6, <2>2
    <3>2. Current(r) \in Texts
      BY <1>3, <1>4, <2>2
    <3>3. /\ kept' \in [Replicas -> SUBSET Texts] /\ Current(r) \in kept'[r]
          /\ \A q \in Replicas : kept[q] \subseteq kept'[q]
      BY <1>4, <2>2, <3>2
    <3>4. /\ note' \in [Replicas -> [Docs -> Texts \cup {Gone}]]
          /\ \A q \in Replicas : \A d \in Docs :
               note'[q][d] = note[q][d] \/ (q = r /\ d = Doc(r))
      BY <1>3, <1>4, <2>2
    <3> QED
      BY <1>4, <2>2, <3>1, <3>3, <3>4
  <2>3. \/ UNCHANGED <<note, kept, blocked>> /\ (Hold(r) \/ Goto(r, "applied"))
        \/ /\ note' = [note EXCEPT ![r][Doc(r)] = Gone]
           /\ kept' = [kept EXCEPT ![r] = @ \cup {Current(r)}]
           /\ Current(r) # Gone /\ note[r][Doc(r)] = Current(r)
           /\ Goto(r, "settle") /\ UNCHANGED blocked
    BY <1>8 DEF ActRemoval, Hold
  <2> QED
    BY <2>1, <2>2, <2>3
<1>9. CASE ActWrite(r)
  <2>1. CASE /\ UNCHANGED <<note, kept, blocked>>
             /\ Hold(r) \/ EndPass(r) \/ Goto(r, "settle")
    <3>1. job' \in [Replicas -> Jobs] /\ \A q \in Replicas : PassOK(job'[q], vault')
      BY <1>6, <2>1
    <3> QED
      BY <1>4, <2>1, <3>1
  <2>2. CASE /\ Op(r).text # Gone
             /\ kept' = [kept EXCEPT ![r] = @ \cup {Op(r).text}]
             /\ blocked' = [blocked EXCEPT ![r] = @ \cup {Doc(r)}]
             /\ Goto(r, "applied") /\ UNCHANGED note
    <3>1. job' \in [Replicas -> Jobs] /\ \A q \in Replicas : PassOK(job'[q], vault')
      BY <1>6, <2>2
    <3>2. Op(r).text \in Texts
      BY <1>3, <1>4, <2>2
    <3>3. /\ kept' \in [Replicas -> SUBSET Texts]
          /\ \A q \in Replicas : kept[q] \subseteq kept'[q]
          /\ blocked' \in [Replicas -> SUBSET Docs]
      BY <1>3, <1>4, <2>2, <3>2
    <3> QED
      BY <1>4, <2>2, <3>1, <3>3
  <2>3. CASE /\ note[r][Doc(r)] \in {Gone, cursor[r].synced[Doc(r)]}
             /\ note' = [note EXCEPT ![r][Doc(r)] = Op(r).text]
             /\ Goto(r, "settle") /\ UNCHANGED <<kept, blocked>>
    <3>1. job' \in [Replicas -> Jobs] /\ \A q \in Replicas : PassOK(job'[q], vault')
      BY <1>6, <2>3
    <3>2. /\ note' \in [Replicas -> [Docs -> Texts \cup {Gone}]]
          /\ \A q \in Replicas : \A d \in Docs :
               note'[q][d] = note[q][d] \/ (q = r /\ d = Doc(r))
      BY <1>3, <1>4, <2>3
    <3> QED
      BY <1>4, <2>3, <3>1, <3>2
  <2>4. \/ /\ UNCHANGED <<note, kept, blocked>>
           /\ Hold(r) \/ EndPass(r) \/ Goto(r, "settle")
        \/ /\ Op(r).text # Gone
           /\ kept' = [kept EXCEPT ![r] = @ \cup {Op(r).text}]
           /\ blocked' = [blocked EXCEPT ![r] = @ \cup {Doc(r)}]
           /\ Goto(r, "applied") /\ UNCHANGED note
        \/ /\ note[r][Doc(r)] \in {Gone, cursor[r].synced[Doc(r)]}
           /\ note' = [note EXCEPT ![r][Doc(r)] = Op(r).text]
           /\ Goto(r, "settle") /\ UNCHANGED <<kept, blocked>>
    <3>1. CASE note[r][Doc(r)] # Current(r)
      BY <1>9, <3>1 DEF ActWrite, Hold
    <3>2. CASE note[r][Doc(r)] = Current(r)
      BY <1>9, <3>2 DEF ActWrite, Prior
    <3> QED
      BY <3>1, <3>2
  <2> QED
    BY <2>1, <2>2, <2>3, <2>4
<1> QED
  BY <1>7, <1>8, <1>9 DEF Act

LEMMA PassStarts ==
    ASSUME NEW j \in Jobs, NEW n \in 0..MaxRestarts
    PROVE  LET k == [j EXCEPT !.at = "pull", !.offset = 0, !.snap = NoVector, !.restarts = n] IN
               k \in Jobs /\ k.at = "pull" /\ k.page = j.page /\ k.acked = j.acked
<1>1. "pull" \in Steps
  BY DEF Steps
<1> QED
  BY <1>1 DEF Jobs

\* A pass with a page.
Paged(j, ops, more, snap, n) ==
    [j EXCEPT !.at = "apply", !.page = ops, !.more = more, !.snap = snap, !.offset = n]

LEMMA PagedFacts ==
    ASSUME NEW j \in Jobs, NEW ops \in Seq(Ops), NEW more \in BOOLEAN, NEW snap \in Vectors,
           NEW n \in Nat
    PROVE  /\ Paged(j, ops, more, snap, n) \in Jobs
           /\ Paged(j, ops, more, snap, n).at = "apply"
           /\ Paged(j, ops, more, snap, n).page = ops
           /\ Paged(j, ops, more, snap, n).snap = snap
           /\ Paged(j, ops, more, snap, n).acked = j.acked
<1>1. "apply" \in Steps
  BY DEF Steps
<1> QED
  BY <1>1 DEF Jobs, Paged

LEMMA ReceivingTypes ==
    ASSUME TInv, NEW r \in Replicas,
           \/ PullPage(r) \/ PullAgain(r) \/ Look(r) \/ Act(r)
           \/ Settle(r) \/ MarkApplied(r) \/ Advance(r)
    PROVE  TInv'
<1>1. /\ left \in Budgets /\ TypeOK /\ (\A q \in Replicas : PassOK(job[q], vault))
      /\ Sound(vault) /\ vault \in States /\ job[r] \in Jobs /\ left' = left
  BY TypesOf DEF TInv, ServiceOK, TypeOK, PullPage, PullAgain, Look, Act, Settle, MarkApplied,
                 Advance, history
<1>2. ASSUME NEW j \in Jobs, job' = [job EXCEPT ![r] = j], PassOK(j, vault), vault' = vault
      PROVE  job' \in [Replicas -> Jobs] /\ ServiceOK'
  <2>1. job' \in [Replicas -> Jobs] /\ \A q \in Replicas : PassOK(job'[q], vault')
    BY <1>1, <1>2, OnePass
  <2> QED
    BY <1>1, <1>2, <2>1 DEF ServiceOK
<1>3. CASE PullPage(r)
  <2> DEFINE j == Paged(job[r], Asked(r).ops, Asked(r).more, Asked(r).vv,
                        job[r].offset + Len(Asked(r).ops))
  <2>1. /\ UNCHANGED <<vault, log, note, kept, outbox, cursor, blocked, minted, owed, lapsed, amiss>>
        /\ job' = [job EXCEPT ![r] = j]
    BY <1>3 DEF PullPage, Paged, service, replica, history
  <2>2. /\ Asked(r).ops \in Seq(Ops) /\ Range(Asked(r).ops) \subseteq Stored(vault)
        /\ Asked(r).more \in BOOLEAN /\ Asked(r).vv \in Vectors /\ Len(Asked(r).ops) \in Nat
    <3>1. job[r].offset \in Nat
      BY <1>1 DEF Jobs
    <3> QED
      BY <1>1, <3>1, PageFacts DEF Asked
  <2>3. /\ j \in Jobs /\ j.at = "apply" /\ j.page = Asked(r).ops /\ j.snap = Asked(r).vv
        /\ j.acked = job[r].acked
    <3>1. job[r].offset + Len(Asked(r).ops) \in Nat /\ job[r] \in Jobs
      BY <1>1, <2>2 DEF Jobs
    <3>2. /\ Asked(r).ops \in Seq(Ops) /\ Asked(r).more \in BOOLEAN /\ Asked(r).vv \in Vectors
      BY <2>2
    <3> QED
      BY <3>1, <3>2, PagedFacts
  <2> HIDE DEF j
  <2>4. PassOK(j, vault)
    BY <1>1, <2>2, <2>3 DEF PassOK
  <2>5. job' \in [Replicas -> Jobs] /\ ServiceOK'
    BY <1>2, <2>1, <2>3, <2>4
  <2> QED
    BY <1>1, <2>1, <2>5 DEF TInv, TypeOK, Jobs
<1>4. CASE PullAgain(r)
  <2>1. UNCHANGED <<vault, log, note, kept, outbox, cursor, blocked, minted, owed, lapsed, amiss>>
    BY <1>4 DEF PullAgain, service, replica, history
  <2>2. job' \in [Replicas -> Jobs] /\ ServiceOK'
    <3>1. CASE EndPass(r)
      <4>1. job' \in [Replicas -> Jobs] /\ \A q \in Replicas : PassOK(job'[q], vault')
        BY <1>1, <2>1, <3>1, Ending
      <4> QED
        BY <1>1, <2>1, <4>1 DEF ServiceOK
    <3>2. CASE ~EndPass(r)
      <4> DEFINE j == [job[r] EXCEPT !.at = "pull", !.offset = 0, !.snap = NoVector, !.restarts = @ + 1]
      <4>1. job' = [job EXCEPT ![r] = j] /\ job[r].restarts < MaxRestarts
        BY <1>4, <3>2 DEF PullAgain
      <4>2. /\ j \in Jobs /\ j.at = "pull" /\ j.page = job[r].page /\ j.acked = job[r].acked
        <5>1. job[r].restarts + 1 \in 0..MaxRestarts /\ job[r] \in Jobs
          BY <1>1, <4>1, NumbersAssumption DEF Jobs
        <5> QED
          BY <5>1, PassStarts
      <4> HIDE DEF j
      <4>3. PassOK(j, vault)
        BY <1>1, <4>2 DEF PassOK
      <4> QED
        BY <1>2, <2>1, <4>1, <4>2, <4>3
    <3> QED
      BY <3>1, <3>2
  <2> QED
    BY <1>1, <2>1, <2>2 DEF TInv, TypeOK, Jobs
<1>5. CASE Look(r)
  <2>1. /\ UNCHANGED <<vault, log, note, kept, outbox, cursor, blocked, minted, owed, lapsed, amiss>>
        /\ job[r].at = "apply" /\ job[r].page # <<>>
    BY <1>5 DEF Look, service, replica, history
  <2>2. /\ Tail(job[r].page) \in Seq(Ops) /\ Range(Tail(job[r].page)) \subseteq Range(job[r].page)
        /\ note[r][Doc(r)] \in Texts \cup {Gone} /\ job[r].snap \in Vectors
    <3>1. /\ Doc(r) \in Docs /\ Tail(job[r].page) \in Seq(Ops)
          /\ Range(Tail(job[r].page)) \subseteq Range(job[r].page)
      BY <2>1, OpFacts
    <3>2. note[r][Doc(r)] \in Texts \cup {Gone}
      BY <1>1, <3>1 DEF TypeOK
    <3>3. job[r].snap \in Vectors
      BY <1>1, <2>1 DEF PassOK
    <3> QED
      BY <3>1, <3>2, <3>3
  <2> DEFINE j == IF Op(r).id \in cursor[r].applied
                  THEN [job[r] EXCEPT !.page = Tail(@)]
                  ELSE [job[r] EXCEPT !.at = "act", !.looked = note[r][Doc(r)]]
  <2>3. job' = [job EXCEPT ![r] = j]
    BY <1>5 DEF Look
  <2>4. /\ j \in Jobs /\ j.acked = job[r].acked /\ j.snap = job[r].snap
        /\ \/ j.at = "apply" /\ j.page = Tail(job[r].page)
           \/ j.at = "act" /\ j.page = job[r].page
    BY <1>1, <2>1, <2>2 DEF Jobs, Steps
  <2> HIDE DEF j
  <2>5. PassOK(j, vault)
    BY <1>1, <2>1, <2>2, <2>4 DEF PassOK
  <2>6. job' \in [Replicas -> Jobs] /\ ServiceOK'
    BY <1>2, <2>1, <2>3, <2>4, <2>5
  <2> QED
    BY <1>1, <2>1, <2>6 DEF TInv, TypeOK, Jobs
<1>6. CASE Act(r)
  <2>1. UNCHANGED <<vault, log, outbox, cursor, minted, owed, lapsed>>
    BY <1>6 DEF Act, service
  <2>2. amiss' \subseteq Docs
    <3>1. Doc(r) \in Docs
      BY <1>1, <1>6, OpFacts DEF Act, PassOK
    <3> QED
      BY <1>1, <1>6, <3>1 DEF Act, TypeOK
  <2>3. /\ note' \in [Replicas -> [Docs -> Texts \cup {Gone}]] /\ kept' \in [Replicas -> SUBSET Texts]
        /\ blocked' \in [Replicas -> SUBSET Docs] /\ job' \in [Replicas -> Jobs]
        /\ \A q \in Replicas : PassOK(job'[q], vault')
    BY <1>6, ActFacts
  <2>4. TypeOK'
    BY <1>1, <2>1, <2>2, <2>3 DEF TypeOK, Jobs
  <2>5. ServiceOK'
    BY <1>1, <2>1, <2>3 DEF ServiceOK
  <2> QED
    BY <2>4, <2>5 DEF TInv
<1>7. CASE Settle(r)
  <2>1. /\ UNCHANGED <<vault, log, note, kept, outbox, blocked, minted, owed, lapsed, amiss>>
        /\ Goto(r, "applied") /\ job[r].at = "settle"
    BY <1>7 DEF Settle, service, history
  <2>2. cursor' \in [Replicas -> Cursors]
    BY <1>7, SettleFacts
  <2>3. job' \in [Replicas -> Jobs] /\ \A q \in Replicas : PassOK(job'[q], vault')
    <3>1. job[r].page # <<>> /\ job[r].snap \in Vectors /\ "applied" \in Steps
      BY <1>1, <2>1 DEF PassOK, Steps
    <3> QED
      BY <1>1, <2>1, <3>1, GoingOn
  <2>4. ServiceOK'
    BY <1>1, <2>1, <2>3 DEF ServiceOK
  <2> QED
    BY <1>1, <2>1, <2>2, <2>3, <2>4 DEF TInv, TypeOK, Jobs, Cursors
<1>8. CASE MarkApplied(r)
  <2> DEFINE j == [job[r] EXCEPT !.at = "apply", !.page = Tail(@), !.looked = Gone]
  <2>1. /\ UNCHANGED <<vault, log, note, kept, outbox, blocked, minted, owed, lapsed, amiss>>
        /\ job' = [job EXCEPT ![r] = j] /\ job[r].at = "applied"
    BY <1>8 DEF MarkApplied, service, history
  <2>2. cursor' \in [Replicas -> Cursors]
    BY <1>8, MarkAppliedFacts
  <2>3. /\ job[r].page # <<>> /\ job[r].snap \in Vectors
        /\ Tail(job[r].page) \in Seq(Ops) /\ Range(Tail(job[r].page)) \subseteq Range(job[r].page)
    BY <1>1, <2>1, OpFacts DEF PassOK
  <2>4. /\ j \in Jobs /\ j.acked = job[r].acked /\ j.snap = job[r].snap
        /\ j.at = "apply" /\ j.page = Tail(job[r].page)
    BY <1>1, <2>3 DEF Jobs, Steps, Gone
  <2> HIDE DEF j
  <2>5. PassOK(j, vault)
    BY <1>1, <2>3, <2>4 DEF PassOK
  <2>6. job' \in [Replicas -> Jobs] /\ ServiceOK'
    BY <1>2, <2>1, <2>4, <2>5
  <2> QED
    BY <1>1, <2>1, <2>2, <2>6 DEF TInv, TypeOK, Jobs, Cursors
<1>9. CASE Advance(r)
  <2>1. /\ UNCHANGED <<vault, log, note, kept, outbox, blocked, minted, owed, lapsed, amiss>>
        /\ EndPass(r)
    BY <1>9 DEF Advance, service, history
  <2>2. cursor' \in [Replicas -> Cursors]
    BY <1>9, AdvanceFacts
  <2>3. job' \in [Replicas -> Jobs] /\ \A q \in Replicas : PassOK(job'[q], vault')
    BY <1>1, <2>1, Ending
  <2>4. ServiceOK'
    BY <1>1, <2>1, <2>3 DEF ServiceOK
  <2> QED
    BY <1>1, <2>1, <2>2, <2>3, <2>4 DEF TInv, TypeOK, Jobs, Cursors
<1> QED
  BY <1>3, <1>4, <1>5, <1>6, <1>7, <1>8, <1>9


\* The steps of a replica and of its user.
StepOf(r) ==
    \/ PassStep(r)
    \/ PushAnswerLost(r) \/ PushUnsaved(r) \/ Fail(r) \/ BreakOff(r)
    \/ \E d \in Docs : Edit(r, d) \/ Delete(r, d) \/ Restore(r, d) \/ Retry(r, d)

LEMMA NextTypes ==
    ASSUME TInv, NEW r \in Replicas, StepOf(r)
    PROVE  TInv'
BY UserTypes, CollectTypes, PushStepTypes, SendingTypes, ReceivingTypes DEF StepOf, PassStep

-----------------------------------------------------------------------------
(* What a step may do to the chains, the logs, the outboxes, the cursors   *)
(* and the notes.                                                          *)

LEMMA ServiceEffects ==
    ASSUME TInv, NEW r \in Replicas, StepOf(r)
    PROVE  /\ Stored(vault) \subseteq Stored(vault')
           /\ Stored(vault') \subseteq Stored(vault) \cup Range(log[r]) \cup Range(outbox[r])
           /\ vault.seen \subseteq vault'.seen
           /\ \A q \in Replicas : Range(log'[q]) \subseteq Range(log[q]) \cup Range(outbox[q])
           /\ Longer(vault, vault')
           /\ \A i \in vault'.seen \ vault.seen :
                \E op \in Range(log[r]) \cup Range(outbox[r]) :
                    op.id = i /\ Covered(vault', op)
<1>1. CASE vault' = vault /\ log' = log
  BY <1>1 DEF Longer
<1>2. CASE PushAnswered(r) \/ PushAnswerLost(r) \/ PushUnsaved(r)
  <2>1. log' = Logged(r) /\ (vault' = vault \/ vault' = ToPush(r).state)
    BY <1>2 DEF PushAnswered, PushAnswerLost, PushUnsaved
  <2>2. CASE vault' = vault
    BY <2>1, <2>2, PushTypes DEF Longer
  <2>3. CASE vault' = ToPush(r).state
    BY <2>1, <2>3, PushTypes
  <2> QED
    BY <2>1, <2>2, <2>3
<1>3. CASE AckPush(r) \/ AckPull(r)
  <2>1. PICK ids : log' = [log EXCEPT ![r] = Without(@, ids)]
    BY <1>3 DEF AckPush, AckPull
  <2>2. vault' = vault
    BY <1>3 DEF AckPush, AckPull
  <2>3. log[r] \in Seq(Ops) /\ log \in [Replicas -> Seq(Ops)]
    BY DEF TInv, TypeOK
  <2>4. Range(Without(log[r], ids)) \subseteq Range(log[r])
    BY <2>3, WithoutFacts
  <2>5. /\ log'[r] = Without(log[r], ids)
        /\ \A q \in Replicas \ {r} : log'[q] = log[q]
    BY <2>1, <2>3
  <2> QED
    BY <2>2, <2>4, <2>5 DEF Longer
<1>4. \/ vault' = vault /\ log' = log
      \/ PushAnswered(r) \/ PushAnswerLost(r) \/ PushUnsaved(r)
      \/ AckPush(r) \/ AckPull(r)
  <2>1. CASE \E d \in Docs : Edit(r, d) \/ Delete(r, d) \/ Restore(r, d) \/ Retry(r, d)
    BY <2>1 DEF Edit, Delete, Restore, Retry, Change, service
  <2>2. CASE Fail(r) \/ BreakOff(r)
    BY <2>2 DEF Fail, BreakOff, service
  <2>3. CASE PassStep(r)
    BY <2>3 DEF PassStep, Collect, PullNow, Forget, PushRefused, Mark, Count, Drain, PullPage,
                PullAgain, Look, Act, Settle, MarkApplied, Advance, service
  <2> QED
    BY <2>1, <2>2, <2>3 DEF StepOf
<1> QED
  BY <1>1, <1>2, <1>3, <1>4

LEMMA CursorEffects ==
    ASSUME TInv, NEW r \in Replicas, StepOf(r)
    PROVE  /\ \A q, s \in Replicas : cursor'[q].vv[s] >= cursor[q].vv[s]
           /\ \A q \in Replicas : \A d \in Docs :
                cursor'[q].synced[d] \in {cursor[q].synced[d], Gone} \cup Sent
<1>1. TypeOK /\ \A q, s \in Replicas : cursor[q].vv[s] \in Nat
  BY TypesOf DEF TInv, Cursors, Vectors
<1>2. CASE cursor' = cursor
  BY <1>1, <1>2
<1>3. CASE Mark(r)
  <2>1. \A op \in Range(outbox[r]) : op.text \in Sent
    BY DEF Sent
  <2> QED
    BY <1>1, <1>3, <2>1, MarkFacts
<1>4. CASE Count(r)
  BY <1>1, <1>4, CountFacts
<1>5. CASE Settle(r)
  <2>1. \A op \in Stored(vault) : op.text \in Sent
    BY DEF Sent
  <2> QED
    BY <1>1, <1>5, <2>1, SettleFacts
<1>6. CASE MarkApplied(r)
  BY <1>1, <1>6, MarkAppliedFacts
<1>7. CASE Advance(r)
  BY <1>7, AdvanceFacts
<1>8. CASE Forget(r)
  BY <1>1, <1>8, ForgetFacts
<1>9. \/ cursor' = cursor
      \/ Mark(r) \/ Count(r) \/ Settle(r) \/ MarkApplied(r) \/ Advance(r)
      \/ Forget(r)
  <2>1. CASE \E d \in Docs : Edit(r, d) \/ Delete(r, d) \/ Restore(r, d) \/ Retry(r, d)
    BY <2>1 DEF Edit, Delete, Restore, Retry, Change
  <2>2. CASE Fail(r) \/ BreakOff(r) \/ PushAnswerLost(r) \/ PushUnsaved(r)
    BY <2>2 DEF Fail, BreakOff, PushAnswerLost, PushUnsaved, replica
  <2>3. CASE PassStep(r)
    BY <2>3 DEF PassStep, Collect, PullNow, PushAnswered, PushRefused, AckPush, Drain, PullPage,
                PullAgain, Look, Act, AckPull, replica
  <2> QED
    BY <2>1, <2>2, <2>3 DEF StepOf
<1> QED
  BY <1>2, <1>3, <1>4, <1>5, <1>6, <1>7, <1>8, <1>9

\* What leaves an outbox is taken out by Drain, what comes is made by Collect.
LEMMA OutboxEffects ==
    ASSUME TInv, NEW r \in Replicas, StepOf(r)
    PROVE  \/ outbox' = outbox /\ minted' = minted /\ lapsed' = lapsed
           \/ Collect(r)
           \/ Drain(r)
<1>1. CASE \E d \in Docs : Edit(r, d) \/ Delete(r, d) \/ Restore(r, d) \/ Retry(r, d)
  BY <1>1 DEF Edit, Delete, Restore, Change, Retry
<1>2. CASE Fail(r) \/ BreakOff(r) \/ PushAnswerLost(r) \/ PushUnsaved(r)
  BY <1>2 DEF Fail, BreakOff, PushAnswerLost, PushUnsaved, replica
<1>3. CASE PassStep(r)
  BY <1>3 DEF PassStep, PullNow, PushAnswered, PushRefused, Mark, Count, AckPush, PullPage,
              PullAgain, Look, Act, Settle, MarkApplied, AckPull, Advance, Forget, replica, history
<1> QED
  BY <1>1, <1>2, <1>3 DEF StepOf

\* Where a pass stands that may retire what was acknowledged.
LEMMA RetiringEffects ==
    ASSUME TInv, NEW r \in Replicas, StepOf(r), NEW q \in Replicas,
           job'[q].at \in {"ack", "drain"}
    PROVE  /\ job'[q].acked = job[q].acked
           /\ outbox'[q] = outbox[q]
           /\ job[q].at \in {"ack", "drain"} \/ (q = r /\ Count(r))
<1>1. job \in [Replicas -> Jobs] /\ job[r] \in Jobs /\ TypeOK
  BY TypesOf DEF TInv
<1>2. ASSUME EndPass(r) \/ \E w \in {"push", "pull", "applied", "settle", "advance", "count"} : Goto(r, w)
      PROVE  q # r /\ job'[q] = job[q]
  BY <1>1, <1>2 DEF EndPass, Goto, NoPass, Jobs
<1>3. CASE \E d \in Docs : Edit(r, d) \/ Delete(r, d) \/ Restore(r, d) \/ Retry(r, d)
  <2>1. CASE \E d \in Docs : Edit(r, d) \/ Delete(r, d) \/ Restore(r, d)
    BY <2>1 DEF Edit, Delete, Restore, Change
  <2>2. ASSUME NEW d \in Docs, Retry(r, d)
        PROVE  outbox' = outbox /\ job'[q] = job[q]
    <3>1. /\ outbox' = outbox
          /\ job' = job \/ job' = [job EXCEPT ![r].at = "forget", ![r].told = {d}]
      BY <2>2 DEF Retry
    <3>2. CASE job' = job
      BY <3>1, <3>2
    <3>3. CASE job' = [job EXCEPT ![r].at = "forget", ![r].told = {d}]
      <4>1. job'[r].at = "forget"
        BY <1>1, <3>3 DEF Jobs
      <4>2. q # r
        BY <4>1
      <4> QED
        BY <1>1, <3>1, <3>3, <4>2
    <3> QED
      BY <3>1, <3>2, <3>3
  <2> QED
    BY <1>3, <2>1, <2>2
<1>4. CASE Fail(r) \/ BreakOff(r) \/ PushAnswerLost(r) \/ PushUnsaved(r)
  <2>1. EndPass(r) /\ outbox' = outbox
    BY <1>4 DEF Fail, BreakOff, PushAnswerLost, PushUnsaved, replica
  <2> QED
    BY <1>2, <2>1
<1>5. CASE Collect(r)
  <2>1. Goto(r, "pull") \/ Goto(r, "push")
    BY <1>5 DEF Collect
  <2>2. q # r /\ job'[q] = job[q]
    BY <1>2, <2>1
  <2>3. outbox'[q] = outbox[q]
    BY <1>1, <1>5, <2>2 DEF Collect, TypeOK
  <2> QED
    BY <2>2, <2>3
<1>6. CASE Drain(r)
  <2>1. q # r /\ job'[q] = job[q]
    BY <1>2, <1>6 DEF Drain
  <2>2. outbox'[q] = outbox[q]
    BY <1>1, <1>6, <2>1 DEF Drain, TypeOK
  <2> QED
    BY <2>1, <2>2
<1>7. CASE Count(r)
  <2>1. /\ outbox' = outbox /\ Goto(r, "ack")
    BY <1>7 DEF Count
  <2> QED
    BY <1>1, <1>7, <2>1 DEF Goto, Jobs
<1>8. CASE AckPush(r)
  <2>1. /\ outbox' = outbox /\ job[r].at = "ack" /\ (EndPass(r) \/ Goto(r, "drain"))
    BY <1>8 DEF AckPush, replica
  <2> QED
    BY <1>1, <1>2, <2>1 DEF Goto, Jobs
<1>9. CASE \/ PullNow(r) \/ PushRefused(r) \/ Mark(r) \/ Advance(r) \/ Settle(r) \/ AckPull(r)
           \/ Forget(r)
  <2>1. /\ outbox' = outbox
        /\ EndPass(r) \/ \E w \in {"push", "pull", "applied", "settle", "advance", "count"} : Goto(r, w)
    BY <1>9 DEF PullNow, PushRefused, Mark, Advance, Settle, AckPull, Forget, replica
  <2> QED
    BY <1>2, <2>1
<1>10. CASE PushAnswered(r)
  <2>1. /\ outbox' = outbox
        /\ job' = [job EXCEPT ![r].acked = ToPush(r).ack, ![r].told = ToPush(r).conflicts,
                              ![r].at = IF ToPush(r).ack = {} THEN "pull" ELSE "mark"]
    BY <1>10 DEF PushAnswered
  <2> QED
    BY <1>1, <2>1 DEF Jobs
<1>11. CASE PullPage(r) \/ MarkApplied(r)
  <2>1. outbox' = outbox
    BY <1>11 DEF PullPage, MarkApplied, replica
  <2>2. q # r => job'[q] = job[q]
    BY <1>1, <1>11 DEF PullPage, MarkApplied
  <2>3. job'[r].at = "apply"
    BY <1>1, <1>11 DEF PullPage, MarkApplied, Jobs
  <2> QED
    BY <2>1, <2>2, <2>3
<1>12. CASE PullAgain(r)
  <2>1. outbox' = outbox
    BY <1>12 DEF PullAgain, replica
  <2>2. CASE EndPass(r)
    BY <1>2, <2>1, <2>2
  <2>3. CASE ~EndPass(r)
    <3>1. job' = [job EXCEPT ![r].at = "pull", ![r].offset = 0, ![r].snap = NoVector,
                             ![r].restarts = @ + 1]
      BY <1>12, <2>3 DEF PullAgain
    <3> QED
      BY <1>1, <2>1, <3>1 DEF Jobs
  <2> QED
    BY <2>2, <2>3
<1>13. CASE Look(r)
  <2>1. /\ outbox' = outbox /\ job[r].at = "apply"
        /\ \/ job' = [job EXCEPT ![r].page = Tail(@)]
           \/ job' = [job EXCEPT ![r].at = "act", ![r].looked = note[r][Doc(r)]]
    BY <1>13 DEF Look, replica
  <2> QED
    BY <1>1, <2>1 DEF Jobs
<1>14. CASE Act(r)
  <2>1. outbox' = outbox
    BY <1>14 DEF Act
  <2>2. \/ EndPass(r) \/ Goto(r, "applied") \/ Goto(r, "settle") \/ Hold(r)
    BY <1>14 DEF Act, ActOwn, ActRemoval, ActWrite
  <2>3. CASE Hold(r)
    <3>1. job' = [job EXCEPT ![r].at = "apply", ![r].page = Tail(@), ![r].looked = Gone,
                             ![r].held = TRUE]
      BY <2>3 DEF Hold
    <3> QED
      BY <1>1, <2>1, <3>1 DEF Jobs
  <2> QED
    BY <1>2, <2>1, <2>2, <2>3
<1> QED
  BY <1>3, <1>4, <1>5, <1>6, <1>7, <1>8, <1>9, <1>10, <1>11, <1>12, <1>13, <1>14
     DEF StepOf, PassStep


\* The notes and the copies of r after a step of its pass: a text that is not
\* in them any more had been synced.
LEMMA NoteEffects ==
    ASSUME TInv, NEW r \in Replicas,
           PassStep(r) \/ PushAnswerLost(r) \/ PushUnsaved(r) \/ Fail(r) \/ BreakOff(r)
    PROVE  /\ owed' = owed
           /\ \A q \in Replicas : kept[q] \subseteq kept'[q]
           /\ \A q \in Replicas : \A d \in Docs :
                \/ note'[q][d] = note[q][d]
                \/ note[q][d] \in {Gone, cursor[q].synced[d]} \cup kept'[q]
<1>1. CASE note' = note /\ kept' = kept /\ owed' = owed
  BY <1>1
<1>2. CASE Act(r)
  <2>1. owed' = owed
    BY <1>2 DEF Act
  <2> QED
    BY <1>2, <2>1, ActFacts
<1>3. \/ note' = note /\ kept' = kept /\ owed' = owed
      \/ Act(r)
  <2>1. CASE Fail(r) \/ BreakOff(r) \/ PushAnswerLost(r) \/ PushUnsaved(r)
    BY <2>1 DEF Fail, BreakOff, PushAnswerLost, PushUnsaved, replica
  <2>2. CASE PassStep(r)
    BY <2>2 DEF PassStep, Collect, PullNow, PushAnswered, PushRefused, Mark, Count, AckPush,
                Drain, PullPage, PullAgain, Look, Settle, MarkApplied, AckPull, Advance, Forget,
                replica, history
  <2> QED
    BY <2>1, <2>2
<1> QED
  BY <1>1, <1>2, <1>3

\* What a drain takes out was acknowledged.
LEMMA DrainFacts ==
    ASSUME TInv, NEW r \in Replicas, Drain(r)
    PROVE  /\ \A q \in Replicas \ {r} : outbox'[q] = outbox[q]
           /\ Range(outbox'[r]) \subseteq Range(outbox[r])
           /\ Range(outbox[r]) \ Range(outbox'[r]) \subseteq Acked(r)
           /\ minted' = minted /\ cursor' = cursor /\ vault' = vault
           /\ lapsed' = lapsed \cup {op.text : op \in Acked(r) \ Stored(vault)}
<1>1. outbox[r] \in Seq(Ops) /\ outbox \in [Replicas -> Seq(Ops)]
  BY DEF TInv, TypeOK
<1>2. outbox'[r] = Without(outbox[r], job[r].acked) /\ \A q \in Replicas \ {r} : outbox'[q] = outbox[q]
  BY <1>1 DEF Drain
<1>3. Range(outbox'[r]) = {op \in Range(outbox[r]) : op.id \notin job[r].acked}
  BY <1>1, <1>2, WithoutFacts
<1>4. Range(outbox[r]) \ Range(outbox'[r]) \subseteq Acked(r)
  BY <1>3 DEF Acked
<1>5. /\ minted' = minted /\ cursor' = cursor /\ vault' = vault
      /\ lapsed' = lapsed \cup {op.text : op \in Acked(r) \ Stored(vault)}
  BY DEF Drain, service
<1> QED
  BY <1>2, <1>3, <1>4, <1>5

\* What a collection brings.
LEMMA CollectEffects ==
    ASSUME TInv, NEW r \in Replicas, Collect(r)
    PROVE  \E made \in Seq(Ops) :
             /\ Len(made) \in Nat
             /\ Range(outbox'[r]) = Range(outbox[r]) \cup Range(made)
             /\ \A q \in Replicas \ {r} : outbox'[q] = outbox[q]
             /\ minted'[r] = minted[r] + Len(made)
             /\ \A q \in Replicas \ {r} : minted'[q] = minted[q]
             /\ \A i \in 1..Len(made) :
                  /\ made[i] \in Range(made)
                  /\ made[i].id = <<r, minted[r] + i>> /\ made[i].by = r
                  /\ made[i].vv[r] = Knows(r)[r] + i
             /\ \A op \in Range(made) : \E i \in 1..Len(made) : op = made[i]
<1>1. PICK made \in Seq(Ops) :
             /\ outbox' = [outbox EXCEPT ![r] = @ \o made]
             /\ minted' = [minted EXCEPT ![r] = @ + Len(made)]
             /\ \A i \in 1..Len(made) :
                  /\ made[i].id = <<r, minted[r] + i>> /\ made[i].by = r
                  /\ made[i].vv[r] = Knows(r)[r] + i
  BY CollectFacts DEF TInv
<1>2. /\ outbox \in [Replicas -> Seq(Ops)] /\ outbox[r] \in Seq(Ops) /\ minted \in [Replicas -> Nat]
  BY DEF TInv, TypeOK
<1>3. Range(outbox[r] \o made) = Range(outbox[r]) \cup Range(made)
  BY <1>2, ConcatRange
<1>4. /\ Len(made) \in Nat /\ DOMAIN made = 1..Len(made)
      /\ \A i \in 1..Len(made) : made[i] \in Range(made)
  BY LenProperties, RangeIsPart
<1>5. \A op \in Range(made) : \E i \in 1..Len(made) : op = made[i]
  BY <1>4 DEF Range
<1>6. /\ outbox'[r] = outbox[r] \o made /\ \A q \in Replicas \ {r} : outbox'[q] = outbox[q]
      /\ minted'[r] = minted[r] + Len(made) /\ \A q \in Replicas \ {r} : minted'[q] = minted[q]
  BY <1>1, <1>2
<1> QED
  BY <1>1, <1>3, <1>4, <1>5, <1>6

\* Where an operation that is about is, before a step and after it.
LEMMA WhereTravelling ==
    /\ Stored(vault) \subseteq Travelling
    /\ \A r \in Replicas : Range(log[r]) \subseteq Travelling /\ Range(outbox[r]) \subseteq Travelling
    /\ \A x \in Travelling : \/ x \in Stored(vault)
                             \/ \E r \in Replicas : \/ x \in Range(log[r]) \/ x \in Range(outbox[r])
                                                    \/ x \in Range(job[r].page)
    /\ \A x \in Travelling' : \/ x \in Stored(vault')
                              \/ \E r \in Replicas :
                                    \/ x \in Range(log'[r]) \/ x \in Range(outbox'[r])
                                    \/ x \in Range(job'[r].page)
<1> DEFINE At(r) == Range(log[r]) \cup Range(outbox[r]) \cup Range(job[r].page)
<1> DEFINE Then(r) == Range(log'[r]) \cup Range(outbox'[r]) \cup Range(job'[r].page)
<1> DEFINE All == UNION {At(r) : r \in Replicas}
<1> DEFINE AllThen == UNION {Then(r) : r \in Replicas}
<1>1. Travelling = All \cup Stored(vault) /\ Travelling' = AllThen \cup Stored(vault')
  BY DEF Travelling
<1>2. /\ \A r \in Replicas : At(r) \subseteq All
      /\ \A x \in All : \E r \in Replicas : x \in At(r)
      /\ \A x \in AllThen : \E r \in Replicas : x \in Then(r)
  <2> HIDE DEF At, Then
  <2> QED
    OBVIOUS
<1>3. \A r \in Replicas : Range(log[r]) \subseteq All /\ Range(outbox[r]) \subseteq All
  <2> HIDE DEF All
  <2> QED
    BY <1>2
<1>4. \A x \in All : \E r \in Replicas : \/ x \in Range(log[r]) \/ x \in Range(outbox[r])
                                         \/ x \in Range(job[r].page)
  <2> HIDE DEF All
  <2> QED
    BY <1>2
<1>5. \A x \in AllThen : \E r \in Replicas : \/ x \in Range(log'[r]) \/ x \in Range(outbox'[r])
                                             \/ x \in Range(job'[r].page)
  <2> HIDE DEF AllThen
  <2> QED
    BY <1>2
<1> HIDE DEF All, AllThen
<1> QED
  BY <1>1, <1>3, <1>4, <1>5, Zenon

LEMMA TravellingTypes ==
    ASSUME TInv
    PROVE  \A x \in Travelling :
             /\ x \in Ops /\ x.by \in Replicas /\ x.vv[x.by] \in Nat
             /\ cursor[x.by].vv[x.by] \in Nat
<1>1. ASSUME NEW x \in Travelling PROVE x \in Ops
  <2>1. CASE x \in Stored(vault)
    <3>1. PICK d \in Docs : x \in Range(vault.chain[d])
      BY <2>1 DEF Stored
    <3>2. vault.chain[d] \in Seq(Ops)
      BY DEF TInv, TypeOK, States
    <3> QED
      BY <3>1, <3>2, RangeIsPart
  <2>2. CASE x \notin Stored(vault)
    <3>1. PICK r \in Replicas : x \in Range(log[r]) \cup Range(outbox[r]) \cup Range(job[r].page)
      BY <2>2, WhereTravelling
    <3>2. Range(job[r].page) \subseteq Stored(vault)
      BY DEF TInv, ServiceOK, PassOK
    <3> QED
      BY <2>2, <3>1, <3>2, TypesOf DEF TInv
  <2> QED
    BY <2>1, <2>2
<1>2. ASSUME NEW x \in Travelling
      PROVE x.by \in Replicas /\ x.vv[x.by] \in Nat /\ cursor[x.by].vv[x.by] \in Nat
  <2>1. x.by \in Replicas /\ x.vv \in Vectors
    BY <1>1 DEF Ops
  <2> QED
    BY <2>1, TypesOf DEF TInv, Cursors, Vectors
<1> QED
  BY <1>1, <1>2

\* Only a collection brings an operation that was not about.
LEMMA TravellingEffects ==
    ASSUME TInv, NEW r \in Replicas, StepOf(r)
    PROVE  \A x \in Travelling' :
             \/ x \in Travelling
             \/ Collect(r) /\ x \in Range(outbox'[r])
<1>1. /\ Stored(vault') \subseteq Stored(vault) \cup Range(log[r]) \cup Range(outbox[r])
      /\ \A q \in Replicas : Range(log'[q]) \subseteq Range(log[q]) \cup Range(outbox[q])
  BY ServiceEffects
<1>2. ASSUME NEW q \in Replicas
      PROVE  \/ Range(outbox'[q]) \subseteq Range(outbox[q])
             \/ Collect(r) /\ q = r
  <2>1. CASE outbox' = outbox
    BY <2>1
  <2>2. CASE Collect(r)
    BY <2>2, CollectEffects
  <2>3. CASE Drain(r)
    BY <2>3, DrainFacts
  <2> QED
    BY <2>1, <2>2, <2>3, OutboxEffects
<1>3. ASSUME NEW q \in Replicas PROVE Range(job'[q].page) \subseteq Stored(vault')
  BY NextTypes DEF TInv, ServiceOK, PassOK
<1>4. Stored(vault') \subseteq Travelling
  BY <1>1, WhereTravelling
<1>5. SUFFICES ASSUME NEW x \in Travelling' 
               PROVE x \in Travelling \/ (Collect(r) /\ x \in Range(outbox'[r]))
  OBVIOUS
<1>6. CASE x \in Stored(vault')
  BY <1>4, <1>6
<1>7. CASE x \notin Stored(vault')
  <2>1. PICK q \in Replicas : x \in Range(log'[q]) \cup Range(outbox'[q]) \cup Range(job'[q].page)
    BY <1>5, <1>7, WhereTravelling
  <2>2. Range(log[q]) \cup Range(outbox[q]) \subseteq Travelling
    BY WhereTravelling
  <2> QED
    BY <1>1, <1>2, <1>3, <1>7, <2>1, <2>2
<1> QED
  BY <1>6, <1>7

-----------------------------------------------------------------------------
(* The counters.                                                           *)

LEMMA CountersKept ==
    ASSUME TInv, CountersOK, NEW r \in Replicas, StepOf(r)
    PROVE  CountersOK'
<1>1. \A q, s \in Replicas : /\ cursor'[q].vv[s] >= cursor[q].vv[s]
                             /\ cursor[q].vv[s] \in Nat /\ cursor'[q].vv[s] \in Nat
  <2>1. TInv'
    BY NextTypes
  <2>2. \A q, s \in Replicas : cursor[q].vv[s] \in Nat
    BY TypesOf DEF TInv, Cursors, Vectors
  <2>3. \A q, s \in Replicas : cursor'[q].vv[s] \in Nat
    BY <2>1 DEF TInv, TypeOK, Vectors
  <2> QED
    BY <2>2, <2>3, CursorEffects
<1>2. ASSUME NEW q \in Replicas, NEW op \in Range(outbox'[q]) PROVE op.by = q
  <2>1. CASE op \in Range(outbox[q])
    BY <2>1 DEF CountersOK
  <2>2. CASE op \notin Range(outbox[q])
    <3>1. Collect(r)
      BY <1>2, <2>2, OutboxEffects, DrainFacts
    <3>2. q = r
      BY <1>2, <2>2, <3>1, CollectEffects
    <3>3. PICK made \in Seq(Ops) :
             /\ Range(outbox'[r]) = Range(outbox[r]) \cup Range(made)
             /\ \A i \in 1..Len(made) : made[i].by = r
             /\ \A x \in Range(made) : \E i \in 1..Len(made) : x = made[i]
      BY <3>1, CollectEffects
    <3>4. op \in Range(made)
      BY <1>2, <2>2, <3>2, <3>3
    <3> QED
      BY <3>2, <3>3, <3>4
  <2> QED
    BY <2>1, <2>2
<1>3. ASSUME NEW x \in Travelling'
      PROVE  x \in Range(outbox'[x.by]) \/ x.vv[x.by] <= cursor'[x.by].vv[x.by]
  <2>1. CASE x \in Travelling
    <3>1. x.by \in Replicas /\ x.vv[x.by] \in Nat /\ cursor[x.by].vv[x.by] \in Nat
      BY <2>1, TravellingTypes
    <3>2. CASE x.vv[x.by] <= cursor[x.by].vv[x.by]
      BY <1>1, <3>1, <3>2
    <3>3. CASE x \in Range(outbox[x.by])
      <4>1. CASE outbox' = outbox
        BY <3>3, <4>1
      <4>2. CASE Collect(r)
        BY <3>1, <3>3, <4>2, CollectEffects
      <4>3. CASE Drain(r)
        <5>1. CASE x.by = r /\ x \notin Range(outbox'[r])
          <6>1. x \in Acked(r) /\ cursor' = cursor /\ job[r].at = "drain"
            BY <3>3, <4>3, <5>1, DrainFacts DEF Drain
          <6>2. x.vv[r] <= cursor[r].vv[r]
            BY <6>1 DEF CountersOK
          <6> QED
            BY <5>1, <6>1, <6>2
        <5>2. CASE ~(x.by = r /\ x \notin Range(outbox'[r]))
          BY <3>1, <3>3, <4>3, <5>2, DrainFacts
        <5> QED
          BY <5>1, <5>2
      <4> QED
        BY <4>1, <4>2, <4>3, OutboxEffects
    <3> QED
      BY <2>1, <3>2, <3>3 DEF CountersOK
  <2>2. CASE Collect(r) /\ x \in Range(outbox'[r])
    BY <1>2, <2>2
  <2> QED
    BY <1>3, <2>1, <2>2, TravellingEffects
<1>4. ASSUME NEW q \in Replicas, job'[q].at \in {"ack", "drain"},
             NEW op \in Acked(q)'
      PROVE  op.vv[q] <= cursor'[q].vv[q]
  <2>1. /\ job'[q].acked = job[q].acked /\ outbox'[q] = outbox[q]
        /\ job[q].at \in {"ack", "drain"} \/ (q = r /\ Count(r))
    BY <1>4, RetiringEffects
  <2>2. op \in Acked(q)
    BY <1>4, <2>1 DEF Acked
  <2>3. op.vv[q] \in Nat
    BY <2>2, TypesOf DEF TInv, Acked, Ops, Vectors
  <2>4. CASE job[q].at \in {"ack", "drain"}
    <3>1. op.vv[q] <= cursor[q].vv[q]
      BY <2>2, <2>4 DEF CountersOK
    <3> QED
      BY <1>1, <2>3, <3>1
  <2>5. CASE q = r /\ Count(r)
    <3>1. cursor'[r].vv[r] >= op.vv[r]
      BY <2>2, <2>5, CountFacts DEF TInv
    <3> QED
      BY <1>1, <2>3, <2>5, <3>1
  <2> QED
    BY <2>1, <2>4, <2>5
<1> QED
  BY <1>2, <1>3, <1>4 DEF CountersOK

LEMMA OneCounterKept ==
    ASSUME TInv, CountersOK, OneCounterEach, NEW r \in Replicas, StepOf(r)
    PROVE  OneCounterEach'
<1>1. CASE ~Collect(r)
  <2>1. \A x \in Travelling' : x \in Travelling
    BY <1>1, TravellingEffects
  <2> QED
    BY <2>1 DEF OneCounterEach
<1>2. CASE Collect(r)
  <2>1. PICK made \in Seq(Ops) :
             /\ Len(made) \in Nat
             /\ Range(outbox'[r]) = Range(outbox[r]) \cup Range(made)
             /\ \A q \in Replicas \ {r} : outbox'[q] = outbox[q]
             /\ minted'[r] = minted[r] + Len(made)
             /\ \A q \in Replicas \ {r} : minted'[q] = minted[q]
             /\ \A i \in 1..Len(made) :
                  /\ made[i] \in Range(made)
                  /\ made[i].id = <<r, minted[r] + i>> /\ made[i].by = r
                  /\ made[i].vv[r] = Knows(r)[r] + i
             /\ \A op \in Range(made) : \E i \in 1..Len(made) : op = made[i]
    BY <1>2, CollectEffects
  <2>2. /\ Knows(r)[r] \in Nat /\ Knows(r)[r] >= cursor[r].vv[r]
        /\ \A op \in Range(outbox[r]) : Knows(r)[r] >= op.vv[r]
    BY KnowsFacts DEF TInv, Vectors
  <2>3. ASSUME NEW x \in Travelling' PROVE x \in Travelling \/ x \in Range(made)
    <3>1. Range(outbox[r]) \subseteq Travelling
      BY WhereTravelling
    <3> QED
      BY <2>1, <2>3, <3>1, TravellingEffects
  <2>4. ASSUME NEW x \in Travelling, x.by = r PROVE x.vv[r] \in Nat /\ x.vv[r] <= Knows(r)[r]
    <3>1. x.vv[r] \in Nat /\ cursor[r].vv[r] \in Nat
      BY <2>4, TravellingTypes
    <3>2. x \in Range(outbox[r]) \/ x.vv[r] <= cursor[r].vv[r]
      BY <2>4 DEF CountersOK
    <3> QED
      BY <2>2, <3>1, <3>2
  <2>5. ASSUME NEW x \in Travelling, NEW y \in Range(made)
        PROVE  ~(x.by = y.by /\ x.vv[x.by] = y.vv[y.by])
    <3>1. PICK i \in 1..Len(made) : y = made[i]
      BY <2>1
    <3>2. y.by = r /\ y.vv[r] = Knows(r)[r] + i
      BY <2>1, <3>1
    <3> QED
      BY <2>2, <2>4, <3>2
  <2>6. ASSUME NEW x \in Range(made), NEW y \in Range(made), x.vv[x.by] = y.vv[y.by]
        PROVE  x = y
    <3>1. PICK i \in 1..Len(made) : x = made[i]
      BY <2>1
    <3>2. PICK k \in 1..Len(made) : y = made[k]
      BY <2>1
    <3>3. Knows(r)[r] + i = Knows(r)[r] + k
      BY <2>1, <2>6, <3>1, <3>2
    <3>4. i = k
      BY <2>2, <3>3
    <3> QED
      BY <3>1, <3>2, <3>4
  <2>7. ASSUME NEW x \in Travelling', NEW y \in Travelling', x.by = y.by, x.vv[x.by] = y.vv[x.by]
        PROVE  x = y
    <3>1. CASE x \in Travelling /\ y \in Travelling
      BY <2>7, <3>1 DEF OneCounterEach
    <3>2. CASE x \in Range(made) /\ y \in Range(made)
      BY <2>6, <2>7, <3>2
    <3> QED
      BY <2>3, <2>5, <2>7, <3>1, <3>2
  <2> QED
    BY <2>7 DEF OneCounterEach
<1> QED
  BY <1>1, <1>2


-----------------------------------------------------------------------------
(* The texts.                                                              *)

LEMMA WhatIsSent ==
    /\ \A t \in Sent : \/ \E op \in Stored(vault) : t = op.text
                       \/ \E r \in Replicas : \E op \in Range(outbox[r]) : t = op.text
    /\ \A op \in Stored(vault') : op.text \in Sent'
    /\ \A r \in Replicas : \A op \in Range(outbox'[r]) : op.text \in Sent'
<1> DEFINE Of(r) == {op.text : op \in Range(outbox[r])}
<1> DEFINE OfThen(r) == {op.text : op \in Range(outbox'[r])}
<1>1. /\ Sent = {op.text : op \in Stored(vault)} \cup UNION {Of(r) : r \in Replicas}
      /\ Sent' = {op.text : op \in Stored(vault')} \cup UNION {OfThen(r) : r \in Replicas}
  BY DEF Sent
<1>2. /\ \A x \in UNION {Of(r) : r \in Replicas} : \E r \in Replicas : x \in Of(r)
      /\ \A r \in Replicas : OfThen(r) \subseteq UNION {OfThen(r1) : r1 \in Replicas}
  <2> HIDE DEF Of, OfThen
  <2> QED
    OBVIOUS
<1>3. \A x \in UNION {Of(r) : r \in Replicas} :
          \E r \in Replicas : \E op \in Range(outbox[r]) : x = op.text
  BY <1>2
<1>4. \A r \in Replicas : \A op \in Range(outbox'[r]) :
          op.text \in UNION {OfThen(r1) : r1 \in Replicas}
  BY <1>2
<1> HIDE DEF Of, OfThen
<1> QED
  BY <1>1, <1>3, <1>4

LEMMA WhatIsKept ==
    /\ \A t \in Everywhere : \/ t \in Sent
                             \/ \E r \in Replicas : t \in kept[r] \/ \E d \in Docs : t = note[r][d]
    /\ Sent' \subseteq Everywhere'
    /\ \A r \in Replicas : kept'[r] \subseteq Everywhere'
    /\ \A r \in Replicas : \A d \in Docs : note'[r][d] \in Everywhere'
<1> DEFINE Of(r) == {op.text : op \in Range(outbox[r])}
<1> DEFINE OfThen(r) == {op.text : op \in Range(outbox'[r])}
<1> DEFINE At(r) == {note[r][d] : d \in Docs} \cup kept[r] \cup Of(r)
<1> DEFINE Then(r) == {note'[r][d] : d \in Docs} \cup kept'[r] \cup OfThen(r)
<1> DEFINE All == UNION {At(r) : r \in Replicas}
<1> DEFINE AllThen == UNION {Then(r) : r \in Replicas}
<1>1. /\ Everywhere = All \cup {op.text : op \in Stored(vault)}
      /\ Everywhere' = AllThen \cup {op.text : op \in Stored(vault')}
  BY DEF Everywhere
<1>2. /\ Sent = {op.text : op \in Stored(vault)} \cup UNION {Of(r) : r \in Replicas}
      /\ Sent' = {op.text : op \in Stored(vault')} \cup UNION {OfThen(r) : r \in Replicas}
  BY DEF Sent
<1>3. /\ \A x \in All : \E r \in Replicas : x \in At(r)
      /\ \A r \in Replicas : Then(r) \subseteq AllThen
  <2> HIDE DEF At, Then
  <2> QED
    OBVIOUS
<1>4. /\ \A r \in Replicas : Of(r) \subseteq UNION {Of(r1) : r1 \in Replicas}
      /\ \A x \in UNION {OfThen(r) : r \in Replicas} : \E r \in Replicas : x \in OfThen(r)
  <2> HIDE DEF Of, OfThen
  <2> QED
    OBVIOUS
<1>5. ASSUME NEW t \in Everywhere
      PROVE  t \in Sent \/ \E r \in Replicas : t \in kept[r] \/ \E d \in Docs : t = note[r][d]
  <2>1. CASE t \in All
    <3>1. PICK r \in Replicas : t \in At(r)
      <4> HIDE DEF At, All
      <4> QED
        BY <1>3, <2>1
    <3>2. CASE t \in Of(r)
      <4> HIDE DEF Of
      <4> QED
        BY <1>2, <1>4, <3>2
    <3>3. CASE t \notin Of(r)
      <4> HIDE DEF Of
      <4> QED
        BY <3>1, <3>3
    <3> QED
      BY <3>2, <3>3
  <2>2. CASE t \in {op.text : op \in Stored(vault)}
    <3> HIDE DEF Of
    <3> QED
      BY <1>2, <2>2
  <2> QED
    <3> HIDE DEF All
    <3> QED
      BY <1>1, <1>5, <2>1, <2>2
<1>6. ASSUME NEW r \in Replicas
      PROVE  /\ kept'[r] \subseteq Everywhere' /\ \A d \in Docs : note'[r][d] \in Everywhere'
             /\ OfThen(r) \subseteq Everywhere'
  <2>1. Then(r) \subseteq Everywhere'
    <3> HIDE DEF AllThen, Then
    <3> QED
      BY <1>1, <1>3
  <2> HIDE DEF AllThen, OfThen
  <2> QED
    BY <2>1
<1>7. Sent' \subseteq Everywhere'
  <2> HIDE DEF AllThen, OfThen
  <2> QED
    BY <1>1, <1>2, <1>4, <1>6
<1> QED
  BY <1>5, <1>6, <1>7

\* A text that is on its way or in the chains stays there, or lapses.
LEMMA SentKept ==
    ASSUME TInv, NEW r \in Replicas, StepOf(r)
    PROVE  lapsed \subseteq lapsed' /\ Sent \subseteq Sent' \cup lapsed'
<1>1. Stored(vault) \subseteq Stored(vault')
  BY ServiceEffects
<1>2. ASSUME NEW t \in Sent PROVE t \in Sent' \cup lapsed'
  <2>1. CASE \E op \in Stored(vault) : t = op.text
    BY <1>1, <2>1, WhatIsSent
  <2>2. ASSUME NEW q \in Replicas, NEW op \in Range(outbox[q]), t = op.text
        PROVE  t \in Sent' \cup lapsed'
    <3>1. CASE op \in Range(outbox'[q])
      BY <2>2, <3>1, WhatIsSent
    <3>2. CASE op \notin Range(outbox'[q])
      <4>1. ~Collect(r)
        BY <2>2, <3>2, CollectEffects
      <4>2. Drain(r)
        BY <2>2, <3>2, <4>1, OutboxEffects
      <4>3. q = r /\ op \in Acked(r)
        BY <2>2, <3>2, <4>2, DrainFacts
      <4>4. CASE op \in Stored(vault)
        BY <2>2, <2>1, <4>4
      <4>5. CASE op \notin Stored(vault)
        BY <2>2, <4>2, <4>3, <4>5, DrainFacts
      <4> QED
        BY <4>4, <4>5
    <3> QED
      BY <3>1, <3>2
  <2> QED
    BY <1>2, <2>1, <2>2, WhatIsSent
<1>3. lapsed \subseteq lapsed'
  <2>1. CASE Collect(r)
    BY <2>1 DEF Collect, history
  <2>2. CASE Drain(r)
    BY <2>2, DrainFacts
  <2> QED
    BY <2>1, <2>2, OutboxEffects
<1> QED
  BY <1>2, <1>3

LEMMA SyncedKept ==
    ASSUME TInv, SyncedOK, NEW r \in Replicas, StepOf(r)
    PROVE  SyncedOK'
<1>1. lapsed \subseteq lapsed' /\ Sent \subseteq Sent' \cup lapsed'
  BY SentKept
<1>2. ASSUME NEW q \in Replicas, NEW d \in Docs
      PROVE  cursor'[q].synced[d] \in {Gone} \cup lapsed' \cup Sent'
  <2>1. cursor[q].synced[d] \in {Gone} \cup lapsed \cup Sent
    BY DEF SyncedOK
  <2>2. cursor'[q].synced[d] \in {cursor[q].synced[d], Gone} \cup Sent
    BY CursorEffects
  <2> QED
    BY <1>1, <2>1, <2>2
<1> QED
  BY <1>2 DEF SyncedOK

LEMMA TextsKept ==
    ASSUME TInv, SyncedOK, NoTextLost, NEW r \in Replicas, StepOf(r)
    PROVE  NoTextLost'
<1>1. lapsed \subseteq lapsed' /\ Sent \subseteq Sent' \cup lapsed' /\ Sent' \subseteq Everywhere'
  BY SentKept, WhatIsKept
<1>2. /\ note \in [Replicas -> [Docs -> Texts \cup {Gone}]] /\ owed \subseteq Texts /\ Gone \notin Texts
  BY DEF TInv, TypeOK, Texts
<1>3. ASSUME NEW d \in Docs, NEW text \in Nat,
             note' = [note EXCEPT ![r][d] = text], kept' = kept,
             owed' = (owed \ {note[r][d]}) \cup ({text} \ {Gone})
      PROVE  NoTextLost'
  <2>1. /\ note' = [note EXCEPT ![r][d] = text] /\ kept' = kept
        /\ owed' = (owed \ {note[r][d]}) \cup ({text} \ {Gone})
    BY <1>3
  <2>2. /\ note'[r][d] = text
        /\ \A q \in Replicas : \A e \in Docs : note'[q][e] = note[q][e] \/ (q = r /\ e = d)
    BY <1>2, <2>1
  <2>3. ASSUME NEW t \in owed' \ lapsed' PROVE t \in Everywhere'
    <3>1. CASE t = text
      BY <2>2, <3>1, WhatIsKept
    <3>2. CASE t # text
      <4>1. t \in owed /\ t # note[r][d] /\ t \notin lapsed
        BY <1>1, <2>1, <2>3, <3>2
      <4>2. t \in Everywhere
        BY <4>1 DEF NoTextLost
      <4>3. CASE t \in Sent
        BY <1>1, <2>3, <4>3
      <4>4. CASE \E q \in Replicas : t \in kept[q]
        BY <2>1, <4>4, WhatIsKept
      <4>5. CASE \E q \in Replicas : \E e \in Docs : t = note[q][e]
        <5>1. PICK q \in Replicas : \E e \in Docs : t = note[q][e]
          BY <4>5
        <5>2. PICK e \in Docs : t = note[q][e]
          BY <5>1
        <5>3. t = note'[q][e]
          BY <2>2, <4>1, <5>2
        <5> QED
          BY <5>3, WhatIsKept
      <4> QED
        BY <4>2, <4>3, <4>4, <4>5, WhatIsKept
    <3> QED
      BY <3>1, <3>2
  <2> QED
    BY <2>3 DEF NoTextLost
<1>4. CASE \E d \in Docs : Edit(r, d) \/ Delete(r, d)
  <2>1. left.changes + 1 \in Nat /\ Gone \in Nat
    BY DEF TInv, ServiceOK, Budgets, Gone
  <2> QED
    BY <1>3, <1>4, <2>1 DEF Edit, Delete, Change
<1>5. ASSUME owed' = owed,
             \A q \in Replicas : kept[q] \subseteq kept'[q],
             \A q \in Replicas : \A d \in Docs :
                \/ note'[q][d] = note[q][d]
                \/ note[q][d] \in {Gone, cursor[q].synced[d]} \cup kept'[q]
      PROVE  NoTextLost'
  <2>1. ASSUME NEW t \in owed' \ lapsed' PROVE t \in Everywhere'
    <3>1. t \in owed /\ t # Gone /\ t \notin lapsed /\ t \in Everywhere
      BY <1>1, <1>2, <1>5, <2>1 DEF NoTextLost
    <3>2. CASE t \in Sent
      BY <1>1, <2>1, <3>2
    <3>3. CASE \E q \in Replicas : t \in kept[q]
      BY <1>5, <3>3, WhatIsKept
    <3>4. CASE \E q \in Replicas : \E d \in Docs : t = note[q][d]
      <4>1. PICK q \in Replicas : \E d \in Docs : t = note[q][d]
        BY <3>4
      <4>2. PICK d \in Docs : t = note[q][d]
        BY <4>1
      <4>3. CASE note'[q][d] = note[q][d]
        BY <4>2, <4>3, WhatIsKept
      <4>4. CASE note[q][d] \in kept'[q]
        BY <4>2, <4>4, WhatIsKept
      <4>5. CASE note[q][d] = cursor[q].synced[d]
        <5>1. t \in Sent
          BY <3>1, <4>2, <4>5 DEF SyncedOK
        <5> QED
          BY <3>2, <5>1
      <4> QED
        BY <1>5, <3>1, <4>2, <4>3, <4>4, <4>5
    <3> QED
      BY <3>1, <3>2, <3>3, <3>4, WhatIsKept
  <2> QED
    BY <2>1 DEF NoTextLost
<1>6. CASE PassStep(r) \/ PushAnswerLost(r) \/ PushUnsaved(r) \/ Fail(r) \/ BreakOff(r)
  BY <1>5, <1>6, NoteEffects
<1>7. CASE \E d \in Docs : Retry(r, d)
  <2>1. owed' = owed /\ kept' = kept /\ note' = note
    BY <1>7 DEF Retry
  <2> QED
    BY <1>5, <2>1
<1>8. ASSUME NEW d \in Docs, Restore(r, d)
      PROVE  NoTextLost'
  <2> DEFINE text == cursor[r].synced[d]
  <2>1. /\ note' = [note EXCEPT ![r][d] = text] /\ kept' = kept
        /\ owed' = (owed \ {note[r][d]}) \cup {text} /\ text # Gone
    BY <1>8 DEF Restore
  <2>2. text \in Nat
    BY TypesOf DEF TInv, Cursors, Texts, Gone
  <2> HIDE DEF text
  <2> QED
    BY <1>3, <2>1, <2>2
<1> QED
  BY <1>4, <1>6, <1>7, <1>8 DEF StepOf

\* Ids stay apart, and what counts as folded stays covered.
LEMMA IdsKept ==
    ASSUME TInv, IdsOK, NEW r \in Replicas, StepOf(r)
    PROVE  IdsOK'
<1>1. /\ Longer(vault, vault') /\ vault.seen \subseteq vault'.seen
      /\ \A i \in vault'.seen \ vault.seen :
            \E op \in Range(log[r]) \cup Range(outbox[r]) : op.id = i /\ Covered(vault', op)
  BY ServiceEffects
<1>2. Range(log[r]) \cup Range(outbox[r]) \subseteq Travelling
  BY WhereTravelling
<1>3. ASSUME NEW x \in Travelling, x.id \in vault'.seen PROVE Covered(vault', x)
  <2>1. CASE x.id \in vault.seen
    <3>1. Covered(vault, x) /\ x \in Ops
      BY <2>1, TravellingTypes DEF IdsOK
    <3> QED
      BY <1>1, <3>1, CoveredStays
  <2>2. CASE x.id \notin vault.seen
    <3>1. PICK op \in Range(log[r]) \cup Range(outbox[r]) : op.id = x.id /\ Covered(vault', op)
      BY <1>1, <1>3, <2>2
    <3>2. op = x
      BY <1>2, <3>1 DEF IdsOK
    <3> QED
      BY <3>1, <3>2
  <2> QED
    BY <2>1, <2>2
<1>4. ASSUME NEW i \in vault'.seen PROVE i[2] <= minted[i[1]]
  <2>1. CASE i \in vault.seen
    BY <2>1 DEF IdsOK
  <2>2. CASE i \notin vault.seen
    <3>1. PICK op \in Range(log[r]) \cup Range(outbox[r]) : op.id = i
      BY <1>1, <1>4, <2>2
    <3> QED
      BY <1>2, <3>1 DEF IdsOK
  <2> QED
    BY <2>1, <2>2
<1>5. CASE ~Collect(r)
  <2>1. \A x \in Travelling' : x \in Travelling
    BY <1>5, TravellingEffects
  <2>2. minted' = minted
    BY <1>5, OutboxEffects, DrainFacts
  <2>3. \A x \in Travelling' : x.id[2] <= minted'[x.id[1]]
    BY <2>1, <2>2 DEF IdsOK
  <2>4. \A x, y \in Travelling' : x.id = y.id => x = y
    BY <2>1 DEF IdsOK
  <2>5. \A i \in vault'.seen : i[2] <= minted'[i[1]]
    BY <1>4, <2>2
  <2>6. \A x \in Travelling' : x.id \in vault'.seen => Covered(vault', x)
    BY <1>3, <2>1
  <2> QED
    BY <2>3, <2>4, <2>5, <2>6 DEF IdsOK
<1>6. CASE Collect(r)
  <2>1. PICK made \in Seq(Ops) :
             /\ Len(made) \in Nat
             /\ Range(outbox'[r]) = Range(outbox[r]) \cup Range(made)
             /\ minted'[r] = minted[r] + Len(made)
             /\ \A q \in Replicas \ {r} : minted'[q] = minted[q]
             /\ \A i \in 1..Len(made) : made[i].id = <<r, minted[r] + i>>
             /\ \A op \in Range(made) : \E i \in 1..Len(made) : op = made[i]
    BY <1>6, CollectEffects
  <2>2. vault' = vault /\ \A q \in Replicas : minted[q] \in Nat
    BY <1>6 DEF Collect, service, TInv, TypeOK
  <2>3. ASSUME NEW x \in Travelling' PROVE x \in Travelling \/ x \in Range(made)
    <3>1. Range(outbox[r]) \subseteq Travelling
      BY WhereTravelling
    <3> QED
      BY <2>1, <2>3, <3>1, TravellingEffects
  <2>4. ASSUME NEW id \in Ids, id[2] <= minted[id[1]]
        PROVE  id[2] <= minted'[id[1]]
    <3>1. id[1] \in Replicas /\ id[2] \in Nat
      BY DEF Ids
    <3>2. CASE id[1] = r
      BY <2>1, <2>2, <2>4, <3>1, <3>2
    <3>3. CASE id[1] # r
      BY <2>1, <2>4, <3>1, <3>3
    <3> QED
      BY <3>2, <3>3
  <2>5. ASSUME NEW x \in Range(made)
        PROVE  /\ x.id[2] <= minted'[x.id[1]]
               /\ \A id \in Ids : id[2] <= minted[id[1]] => id # x.id
    <3>1. PICK i \in 1..Len(made) : x = made[i]
      BY <2>1
    <3>2. x.id[1] = r /\ x.id[2] = minted[r] + i
      BY <2>1, <3>1
    <3>3. i \in Nat /\ i > 0 /\ i <= Len(made)
      BY <2>1
    <3>4. x.id[2] <= minted'[x.id[1]]
      BY <2>1, <2>2, <3>2, <3>3
    <3>5. ~(x.id[2] <= minted[x.id[1]])
      BY <2>2, <3>2, <3>3
    <3> QED
      BY <3>4, <3>5
  <2>6. ASSUME NEW x \in Range(made), NEW y \in Range(made), x.id = y.id PROVE x = y
    <3>1. PICK i \in 1..Len(made) : x = made[i]
      BY <2>1
    <3>2. PICK k \in 1..Len(made) : y = made[k]
      BY <2>1
    <3>3. x.id[2] = minted[r] + i /\ y.id[2] = minted[r] + k
      BY <2>1, <3>1, <3>2
    <3>4. i = k
      BY <2>2, <2>6, <3>3
    <3> QED
      BY <3>1, <3>2, <3>4
  <2>7. /\ \A x \in Travelling : x.id \in Ids /\ x.id[2] <= minted[x.id[1]]
        /\ \A i \in vault.seen : i \in Ids /\ i[2] <= minted[i[1]]
    <3>1. \A x \in Travelling : x.id \in Ids
      BY TravellingTypes DEF Ops
    <3>2. vault.seen \subseteq Ids
      BY DEF TInv, TypeOK, States
    <3> QED
      BY <3>1, <3>2 DEF IdsOK
  <2>8. \A x \in Travelling' : x.id[2] <= minted'[x.id[1]]
    BY <2>3, <2>4, <2>5, <2>7
  <2>9. \A i \in vault'.seen : i[2] <= minted'[i[1]]
    BY <2>2, <2>4, <2>7
  <2>10. ASSUME NEW x \in Travelling', NEW y \in Travelling', x.id = y.id PROVE x = y
    <3>1. CASE x \in Travelling /\ y \in Travelling
      BY <2>10, <3>1 DEF IdsOK
    <3>2. CASE x \in Range(made) /\ y \in Range(made)
      BY <2>6, <2>10, <3>2
    <3> QED
      BY <2>3, <2>5, <2>7, <2>10, <3>1, <3>2
  <2>11. ASSUME NEW x \in Travelling', x.id \in vault'.seen PROVE Covered(vault', x)
    BY <1>3, <2>2, <2>3, <2>5, <2>7, <2>11
  <2> QED
    BY <2>8, <2>9, <2>10, <2>11 DEF IdsOK
<1> QED
  BY <1>5, <1>6

\* What leaves an outbox is covered.
LEMMA RetiredCovered ==
    ASSUME TInv, IdsOK, NEW r \in Replicas, StepOf(r),
           NEW q \in Replicas, NEW op \in Range(outbox[q]) \ Range(outbox'[q])
    PROVE  Covered(vault, op)
<1>1. Drain(r)
  BY OutboxEffects, CollectEffects
<1>2. q = r /\ op \in Acked(r)
  BY <1>1, DrainFacts
<1>3. op.id \in vault.seen /\ op \in Travelling
  BY <1>2, WhereTravelling DEF Acked, TInv, ServiceOK, PassOK
<1> QED
  BY <1>3 DEF IdsOK


-----------------------------------------------------------------------------
(* The invariant.                                                          *)

LEMMA InitInv ==
    ASSUME Init
    PROVE  IInv
<1>1. \E b \in Bounds : \E S \in {{}} \cup {{d} : d \in b.docs}, o \in Replicas : Start(b, S, o)
  BY DEF Init
<1>2. PICK b \in Bounds : \E S \in {{}} \cup {{d} : d \in b.docs} : \E o \in Replicas : Start(b, S, o)
  BY <1>1
<1>3. PICK S \in {{}} \cup {{d} : d \in b.docs} : \E o \in Replicas : Start(b, S, o)
  BY <1>2
<1>4. PICK o \in Replicas : Start(b, S, o)
  BY <1>3
<1>5. S = {} \/ \E d \in b.docs : S = {d}
  BY <1>3
<1>6. /\ TInv
      /\ Stored(vault) = {FirstOp(o, d) : d \in S}
      /\ \A r \in Replicas : /\ Range(log[r]) = {} /\ Range(outbox[r]) = {}
                             /\ Range(job[r].page) = {}
  <2>1. S \in SUBSET b.docs
    BY <1>5
  <2>2. TInv
    BY <1>4, <2>1, Starts
  <2>3. Stored(vault) = {FirstOp(o, d) : d \in S}
    BY <1>4, <2>1, Starts
  <2>4. \A r \in Replicas : Range(log[r]) = {} /\ Range(outbox[r]) = {} /\ Range(job[r].page) = {}
    BY <1>4, <2>1, Starts
  <2> QED
    BY <2>2, <2>3, <2>4
<1> DEFINE text == [d \in Docs |-> IF d \in S THEN 1 ELSE Gone]
<1> DEFINE first == IF S = {} THEN Nowhere ELSE [Nowhere EXCEPT ![o] = 1]
<1>7. /\ cursor = [r \in Replicas |-> [vv |-> first, applied |-> {}, synced |-> text]]
      /\ note = [r \in Replicas |-> text] /\ minted = first
      /\ vault.seen = IF S = {} THEN {} ELSE {<<o, 1>>}
      /\ job = [r \in Replicas |-> NoPass]
      /\ owed = IF S = {} THEN {} ELSE {1}
  BY <1>4 DEF Start
<1>8. ASSUME NEW x \in Travelling
      PROVE  /\ \E d \in S : x = FirstOp(o, d)
             /\ x.by = o /\ x.vv[o] = 1 /\ cursor[o].vv[o] = 1
  <2>1. x \in Stored(vault)
    BY <1>6, WhereTravelling
  <2>2. PICK d \in S : x = FirstOp(o, d)
    BY <1>6, <2>1
  <2>3. S # {} /\ first[o] = 1
    BY <2>2 DEF Nowhere
  <2>4. x.by = o /\ x.vv[o] = 1
    BY <2>2 DEF FirstOp, Nowhere
  <2> HIDE DEF first, text
  <2> QED
    BY <1>7, <2>2, <2>3, <2>4
<1>9. CountersOK
  <2>1. \A r \in Replicas : job[r].at = "idle"
    BY <1>7 DEF NoPass
  <2>2. \A x \in Travelling : x.vv[x.by] <= cursor[x.by].vv[x.by]
    <3>1. 1 <= 1
      OBVIOUS
    <3> QED
      BY <1>8, <3>1
  <2> QED
    BY <1>6, <2>1, <2>2 DEF CountersOK
<1>10. OneCounterEach
  <2>1. ASSUME NEW x \in Travelling, NEW y \in Travelling PROVE x = y
    BY <1>5, <1>8
  <2> QED
    BY <2>1 DEF OneCounterEach
<1>11. SyncedOK
  <2>1. ASSUME NEW r \in Replicas, NEW d \in Docs
        PROVE  cursor[r].synced[d] \in {Gone} \cup lapsed \cup Sent
    <3>1. cursor[r].synced[d] = text[d]
      <4> HIDE DEF first, text
      <4> QED
        BY <1>7
    <3>2. CASE d \in S
      <4>1. FirstOp(o, d) \in Stored(vault) /\ FirstOp(o, d).text = 1
        BY <1>6, <3>2 DEF FirstOp
      <4>2. 1 \in Sent
        BY <4>1 DEF Sent
      <4> QED
        BY <3>1, <3>2, <4>2
    <3>3. CASE d \notin S
      BY <3>1, <3>3
    <3> QED
      BY <3>2, <3>3
  <2> QED
    BY <2>1 DEF SyncedOK
<1>12. IdsOK
  <2>1. ASSUME S # {} PROVE minted[o] = 1
    <3>1. first[o] = 1
      BY <2>1 DEF Nowhere
    <3> HIDE DEF first, text
    <3> QED
      BY <1>7, <3>1
  <2>2. ASSUME NEW x \in Travelling
        PROVE  x.id[2] <= minted[x.id[1]] /\ x \in Stored(vault)
    <3>1. S # {} /\ x.id = <<o, 1>>
      BY <1>8 DEF FirstOp
    <3>2. x.id[1] = o /\ x.id[2] = 1
      BY <3>1
    <3>3. x \in Stored(vault)
      BY <1>6, WhereTravelling
    <3> QED
      BY <2>1, <3>1, <3>2, <3>3
  <2>3. ASSUME NEW i \in vault.seen PROVE i[2] <= minted[i[1]]
    <3>1. S # {} /\ i = <<o, 1>>
      <4> HIDE DEF first, text
      <4> QED
        BY <1>7, <2>3
    <3>2. i[1] = o /\ i[2] = 1
      BY <3>1
    <3> QED
      BY <2>1, <3>1, <3>2
  <2>4. ASSUME NEW x \in Travelling, NEW y \in Travelling PROVE x = y
    BY <1>5, <1>8
  <2> QED
    BY <2>2, <2>3, <2>4 DEF IdsOK, Covered
<1>13. NoTextLost
  <2>1. CASE S = {}
    BY <1>7, <2>1 DEF NoTextLost
  <2>2. CASE S # {}
    <3>1. PICK d \in S : TRUE
      BY <2>2
    <3>2. FirstOp(o, d) \in Stored(vault) /\ FirstOp(o, d).text = 1
      BY <1>6, <3>1 DEF FirstOp
    <3>3. 1 \in Everywhere
      BY <3>2 DEF Everywhere
    <3>4. owed = {1}
      BY <1>7, <2>2
    <3> QED
      BY <3>3, <3>4 DEF NoTextLost
  <2> QED
    BY <2>1, <2>2
<1> QED
  BY <1>6, <1>9, <1>10, <1>11, <1>12, <1>13 DEF IInv

LEMMA StepInv ==
    ASSUME IInv, [Next]_vars
    PROVE  IInv'
<1>1. CASE Next
  <2>1. PICK r \in Replicas : StepOf(r)
    BY <1>1 DEF Next, StepOf
  <2> QED
    BY <2>1, NextTypes, CountersKept, OneCounterKept, SyncedKept, IdsKept, TextsKept DEF IInv
<1>2. CASE UNCHANGED vars
  <2>1. UNCHANGED <<vault, log, note, kept, outbox, cursor, blocked, job, minted, left, owed,
                    lapsed, amiss>>
    BY <1>2 DEF vars, service, replica, history
  <2>2. TInv'
    BY <2>1 DEF IInv, TInv, TypeOK, ServiceOK
  <2>3. CountersOK' /\ OneCounterEach'
    BY <2>1 DEF IInv, CountersOK, OneCounterEach, Travelling, Acked
  <2>4. SyncedOK'
    BY <2>1 DEF IInv, SyncedOK, Sent
  <2>5. IdsOK' /\ NoTextLost'
    BY <2>1 DEF IInv, IdsOK, Covered, Stored, Travelling, NoTextLost, Everywhere
  <2> QED
    BY <2>2, <2>3, <2>4, <2>5 DEF IInv
<1> QED
  BY <1>1, <1>2

\* What the proofs rest on, in every reachable state: the types, what the state
\* of the service and each pass are made of, whose counters are where, and that
\* no text is lost (run_pass_on, apply_push, apply_remote_op).
THEOREM Invariant == Spec => []IInv
BY InitInv, StepInv, PTL DEF Spec

\* Every reachable state of the passes and of the service has its type
\* (SyncState of fub-services, Cursor and outbox of remote/bundle.rs).
THEOREM TypeCorrect == Spec => []TypeOK
<1>1. IInv => TypeOK
  BY DEF IInv, TInv
<1> QED
  BY <1>1, Invariant, PTL

\* No replica gives one counter to two operations, whatever stops between the
\* push, the durable counter and the emptying of the outbox (run_pass_on).
THEOREM CountersAreUnique == Spec => []OneCounterEach
<1>1. IInv => OneCounterEach
  BY DEF IInv
<1> QED
  BY <1>1, Invariant, PTL

\* What leaves an outbox is in the chains of the service or has a version that
\* knows it in its place, whatever answer is lost and wherever the service
\* stops (run_pass_on, apply_push).
THEOREM RetiredAreStored == Spec => RetiredIsStored
<1> DEFINE Retired ==
        \A r \in Replicas : \A op \in Range(outbox[r]) \ Range(outbox'[r]) :
            \/ op \in Stored(vault)
            \/ \E later \in Range(vault.chain[op.doc]) : Below(op.vv, later.vv)
<1>1. ASSUME IInv, [Next]_vars PROVE Retired \/ UNCHANGED vars
  <2>1. CASE Next
    <3>1. PICK p \in Replicas : StepOf(p)
      BY <2>1 DEF Next, StepOf
    <3>2. ASSUME NEW r \in Replicas, NEW op \in Range(outbox[r]) \ Range(outbox'[r])
          PROVE  Covered(vault, op)
      BY <1>1, <3>1, <3>2, RetiredCovered DEF IInv
    <3> QED
      BY <3>2 DEF Covered
  <2> QED
    BY <1>1, <2>1
<1> QED
  BY <1>1, Invariant, PTL DEF Spec, RetiredIsStored

\* A text its user has neither replaced nor removed is somewhere, but for one
\* the service acknowledged and did not store (apply_remote_op, fold_op).
THEOREM NoTextIsLost == Spec => []NoTextLost
<1>1. IInv => NoTextLost
  BY DEF IInv
<1> QED
  BY <1>1, Invariant, PTL

=============================================================================
