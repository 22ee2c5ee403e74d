----------------------------- MODULE LiveProofs ------------------------------
(***************************************************************************)
(* Proofs about LiveSession, for any numbers of commits, connections and   *)
(* changes and any bounds of the host. First what the folds of the model   *)
(* compute, with FoldFacts; then the inductive invariant, part by part;    *)
(* then what the runs check of it.                                         *)
(***************************************************************************)
EXTENDS LiveSession, FiniteSetTheorems, SequenceTheorems, WellFoundedInduction, TLAPS

-----------------------------------------------------------------------------
(* The folds of the model.                                                 *)

KeepStep(e, kept, m) == IF m.t \in {"snapshot", "ops"} THEN kept ELSE Append(kept, m)
PushStep(e, b, m) == Push(b, m)
TakeStep(how, d, c) == Take(d, c, how.o[c], how.answer)

Keeps == INSTANCE FoldFacts WITH Step <- KeepStep
Pushes == INSTANCE FoldFacts WITH Step <- PushStep
Takes == INSTANCE FoldFacts WITH Step <- TakeStep

-----------------------------------------------------------------------------
(* What is in sequences: the facts of FoldFacts, with this module's Range. *)

LEMMA RangeIsPart ==
    ASSUME NEW T, NEW q \in Seq(T)
    PROVE  /\ Range(q) \subseteq T
           /\ \A i \in 1..Len(q) : q[i] \in Range(q)
           /\ q = <<>> => Range(q) = {}
BY Keeps!RangeIsPart DEF Range, Keeps!Range

LEMMA AppendRange ==
    ASSUME NEW T, NEW q \in Seq(T), NEW e \in T
    PROVE  Append(q, e) \in Seq(T) /\ Range(Append(q, e)) = Range(q) \cup {e}
BY Keeps!AppendRange DEF Range, Keeps!Range

LEMMA ConcatRange ==
    ASSUME NEW T, NEW p \in Seq(T), NEW q \in Seq(T)
    PROVE  p \o q \in Seq(T) /\ Range(p \o q) = Range(p) \cup Range(q)
<1>1. \A r : Keeps!Range(r) = Range(r)
  BY DEF Range, Keeps!Range
<1> QED
  BY <1>1, Keeps!ConcatRange

LEMMA HeadAndTail ==
    ASSUME NEW T, NEW q \in Seq(T), q # <<>>
    PROVE  /\ Head(q) \in Range(q) /\ Head(q) \in T
           /\ Tail(q) \in Seq(T) /\ Range(Tail(q)) \subseteq Range(q)
BY Keeps!HeadAndTail DEF Range, Keeps!Range

LEMMA PartOfRange ==
    ASSUME NEW T, NEW q \in Seq(T), NEW m \in Nat, NEW n \in Nat, n <= Len(q)
    PROVE  /\ SubSeq(q, m + 1, n) \in Seq(T)
           /\ Range(SubSeq(q, m + 1, n)) \subseteq Range(q)
BY Keeps!PartOfRange DEF Range, Keeps!Range

\* A finite set in some order.
LEMMA InSomeOrder ==
    ASSUME NEW S, IsFiniteSet(S)
    PROVE  /\ SetToSeq(S) \in Seq(S) /\ DOMAIN SetToSeq(S) = 1..Len(SetToSeq(S))
           /\ Range(SetToSeq(S)) \subseteq S
<1>1. Cardinality(S) \in Nat /\ ExistsBijection(1..Cardinality(S), S)
  BY FS_CardinalityType
<1>2. \E f \in [1..Cardinality(S) -> S] : IsInjective(f)
  BY <1>1 DEF ExistsBijection, Bijection, Injection
<1>3. SetToSeq(S) \in [1..Cardinality(S) -> S]
  BY <1>2 DEF SetToSeq
<1>4. SetToSeq(S) \in Seq(S)
  BY <1>1, <1>3, SeqDef
<1> QED
  BY <1>4, LenProperties, RangeIsPart

-----------------------------------------------------------------------------
(* The queue of a connection.                                              *)

\* A welcome is the first of what is queued.
WelcomeFirst(q) == \A i \in 2..Len(q) : q[i].t # "welcome"

LEMMA WelcomeStaysFirst ==
    ASSUME NEW q \in Seq(Messages), NEW m \in Messages, WelcomeFirst(q),
           m.t # "welcome" \/ q = <<>>
    PROVE  WelcomeFirst(Append(q, m))
<1>1. /\ Len(q) \in Nat /\ Len(Append(q, m)) = Len(q) + 1
      /\ \A i \in 1..Len(q) : Append(q, m)[i] = q[i]
      /\ Append(q, m)[Len(q) + 1] = m
      /\ q = <<>> => Len(q) = 0
  BY AppendProperties, LenProperties, EmptySeq
<1> QED
  BY <1>1 DEF WelcomeFirst

LEMMA LastingFacts ==
    ASSUME NEW q \in Seq(Messages)
    PROVE  /\ Lasting(q) \in Seq(Messages) /\ Range(Lasting(q)) \subseteq Range(q)
           /\ WelcomeFirst(q) => WelcomeFirst(Lasting(q))
<1> DEFINE n == Len(q)
<1> DEFINE Good(k, r) ==
        /\ Range(r) \subseteq Range(q)
        /\ WelcomeFirst(q) => WelcomeFirst(r)
        /\ k = 0 => r = <<>>
<1> DEFINE G == {x \in (0..n) \X Seq(Messages) : Good(x[1], x[2])}
<1>1. n \in Nat /\ DOMAIN q = 1..n /\ \A i \in 1..n : q[i] \in Messages /\ q[i] \in Range(q)
  BY LenProperties, ElementOfSeq, RangeIsPart
<1>2. Lasting(q) = Keeps!FoldOf(0, <<>>, q)
  BY DEF Lasting, KeepStep, FoldLeft, MapThenFoldSet, Keeps!FoldOf, Max
<1>3. <<0, <<>>>> \in G
  <2>1. <<>> \in Seq(Messages) /\ Range(<<>>) = {} /\ Len(<<>>) = 0
    BY EmptySeq, RangeIsPart
  <2>2. Good(0, <<>>) /\ 0 \in 0..n
    BY <1>1, <2>1 DEF WelcomeFirst
  <2>3. \A k \in 0..n, r \in Seq(Messages) : Good(k, r) => <<k, r>> \in G
    <3> HIDE DEF Good
    <3> QED
      OBVIOUS
  <2> HIDE DEF Good, G
  <2> QED
    BY <2>1, <2>2, <2>3
<1>4. ASSUME NEW k \in 1..n, NEW r, <<k - 1, r>> \in G PROVE <<k, KeepStep(0, r, q[k])>> \in G
  <2>1. r \in Seq(Messages) /\ Good(k - 1, r) /\ k \in 0..n
    <3> HIDE DEF Good
    <3> QED
      BY <1>1, <1>4
  <2>2. /\ Append(r, q[k]) \in Seq(Messages)
        /\ Range(Append(r, q[k])) = Range(r) \cup {q[k]}
    BY <1>1, <2>1, AppendRange
  <2>3. WelcomeFirst(q) => WelcomeFirst(Append(r, q[k]))
    <3>1. WelcomeFirst(q) => q[k].t # "welcome" \/ r = <<>>
      BY <1>1, <2>1 DEF WelcomeFirst
    <3>2. WelcomeFirst(q) => WelcomeFirst(r)
      BY <2>1
    <3>3. q[k] \in Messages
      BY <1>1
    <3> QED
      BY <2>1, <3>1, <3>2, <3>3, WelcomeStaysFirst
  <2>4. Good(k, Append(r, q[k])) /\ Good(k, r)
    BY <1>1, <2>1, <2>2, <2>3
  <2> HIDE DEF Good
  <2> QED
    BY <2>1, <2>2, <2>4 DEF KeepStep
<1>5. <<n, Keeps!FoldOf(0, <<>>, q)>> \in G
  <2> HIDE DEF G
  <2> QED
    BY <1>1, <1>3, <1>4, Keeps!FoldKeeps
<1> QED
  BY <1>2, <1>5

Fitting == {b \in Boxes : Len(b.items) <= OutboxItems}

LEMMA PushFacts ==
    ASSUME NEW b \in Fitting, NEW m \in Messages
    PROVE  /\ Push(b, m) \in Fitting /\ Range(Push(b, m).items) \subseteq Range(b.items) \cup {m}
           /\ Push(b, m).close \in {b.close, "congested"}
           /\ Push(b, m).close = "open" => b.close = "open"
           /\ WelcomeFirst(b.items) /\ (m.t # "welcome" \/ b.items = <<>>)
                 => WelcomeFirst(Push(b, m).items)
<1> DEFINE kept == IF m.t = "snapshot" THEN Lasting(b.items) ELSE b.items
<1> USE HostAssumption
<1>1. b.items \in Seq(Messages) /\ b \in Boxes /\ Len(b.items) <= OutboxItems
  BY DEF Fitting, Boxes
<1>2. /\ kept \in Seq(Messages) /\ Range(kept) \subseteq Range(b.items)
      /\ WelcomeFirst(b.items) => WelcomeFirst(kept)
      /\ m.t = "welcome" => kept = b.items
  BY <1>1, LastingFacts
<1> HIDE DEF kept
<1>3. CASE b.close # "open"
  BY <1>1, <1>3 DEF Push, Fitting
<1>4. CASE b.close = "open" /\ Len(kept) >= OutboxItems
  <2>1. Push(b, m) = [items |-> <<>>, close |-> "congested"]
    BY <1>4 DEF Push, kept
  <2>2. <<>> \in Seq(Messages) /\ Len(<<>>) = 0 /\ Range(<<>>) = {}
    BY EmptySeq, RangeIsPart
  <2> QED
    BY <1>4, <2>1, <2>2 DEF Fitting, Boxes, WelcomeFirst
<1>5. CASE b.close = "open" /\ ~(Len(kept) >= OutboxItems)
  <2>1. Push(b, m) = [b EXCEPT !.items = Append(kept, m)]
    BY <1>5 DEF Push, kept
  <2>2. /\ Append(kept, m) \in Seq(Messages) /\ Range(Append(kept, m)) = Range(kept) \cup {m}
        /\ Len(Append(kept, m)) = Len(kept) + 1 /\ Len(kept) \in Nat
    BY <1>2, AppendRange, AppendProperties, LenProperties
  <2>3. /\ Push(b, m).items = Append(kept, m) /\ Push(b, m).close = b.close
        /\ Push(b, m) \in Boxes
    BY <1>1, <2>1, <2>2 DEF Boxes
  <2>4. Len(Push(b, m).items) <= OutboxItems
    BY <1>5, <2>2, <2>3
  <2>5. WelcomeFirst(b.items) /\ (m.t # "welcome" \/ b.items = <<>>)
           => WelcomeFirst(Append(kept, m))
    BY <1>2, WelcomeStaysFirst
  <2> QED
    BY <1>2, <2>2, <2>3, <2>4, <2>5 DEF Fitting
<1> QED
  BY <1>3, <1>4, <1>5

LEMMA PushAllFacts ==
    ASSUME NEW b \in Fitting, NEW ms \in Seq(Messages)
    PROVE  /\ PushAll(b, ms) \in Fitting
           /\ Range(PushAll(b, ms).items) \subseteq Range(b.items) \cup Range(ms)
           /\ PushAll(b, ms).close \in {b.close, "congested"}
           /\ PushAll(b, ms).close = "open" => b.close = "open"
           /\ /\ WelcomeFirst(b.items)
              /\ \A i \in 1..Len(ms) : ms[i].t = "welcome" => i = 1 /\ b.items = <<>>
              => WelcomeFirst(PushAll(b, ms).items)
<1> DEFINE n == Len(ms)
<1> DEFINE Behind == /\ WelcomeFirst(b.items)
                     /\ \A i \in 1..Len(ms) : ms[i].t = "welcome" => i = 1 /\ b.items = <<>>
<1> DEFINE Good(k, r) ==
        /\ Range(r.items) \subseteq Range(b.items) \cup Range(ms)
        /\ r.close \in {b.close, "congested"}
        /\ r.close = "open" => b.close = "open"
        /\ Behind => WelcomeFirst(r.items)
        /\ k = 0 => r = b
<1> DEFINE G == {x \in (0..n) \X Fitting : Good(x[1], x[2])}
<1>1. n \in Nat /\ DOMAIN ms = 1..n /\ \A i \in 1..n : ms[i] \in Messages /\ ms[i] \in Range(ms)
  BY LenProperties, ElementOfSeq, RangeIsPart
<1>2. PushAll(b, ms) = Pushes!FoldOf(0, b, ms)
  BY DEF PushAll, PushStep, FoldLeft, MapThenFoldSet, Pushes!FoldOf, Max
<1>3. <<0, b>> \in G
  <2>1. Good(0, b) /\ 0 \in 0..n
    BY <1>1
  <2> HIDE DEF Good
  <2> QED
    BY <2>1
<1>4. ASSUME NEW k \in 1..n, NEW r, <<k - 1, r>> \in G PROVE <<k, PushStep(0, r, ms[k])>> \in G
  <2>1. Good(k - 1, r) /\ k \in 0..n /\ r \in Fitting
    <3> HIDE DEF Good
    <3> QED
      BY <1>1, <1>4
  <2>2. ms[k] \in Messages /\ ms[k] \in Range(ms)
    BY <1>1
  <2> DEFINE g == Push(r, ms[k])
  <2>3. /\ g \in Fitting /\ Range(g.items) \subseteq Range(r.items) \cup {ms[k]}
        /\ g.close \in {r.close, "congested"}
        /\ g.close = "open" => r.close = "open"
        /\ WelcomeFirst(r.items) /\ (ms[k].t # "welcome" \/ r.items = <<>>) => WelcomeFirst(g.items)
    BY <2>1, <2>2, PushFacts
  <2> HIDE DEF g
  <2>4. Behind => ms[k].t # "welcome" \/ r.items = <<>>
    BY <1>1, <2>1
  <2>5. Good(k, g)
    <3> HIDE DEF Behind
    <3> QED
      BY <1>1, <2>1, <2>2, <2>3, <2>4
  <2> HIDE DEF Good
  <2> QED
    BY <2>1, <2>3, <2>5 DEF PushStep, g
<1>5. <<n, Pushes!FoldOf(0, b, ms)>> \in G
  <2> HIDE DEF G
  <2> QED
    BY <1>1, <1>3, <1>4, Pushes!FoldKeeps
<1> QED
  BY <1>2, <1>5

\* A set of commits in their order has each of them.
LEMMA InOrderFacts ==
    ASSUME NEW S \in SUBSET Commits
    PROVE  InOrder(S) \in Seq(S) /\ Range(InOrder(S)) = S
<1> DEFINE n == Cardinality(S)
<1> DEFINE To(x) == {y \in S : y <= x}
<1> DEFINE rank == [x \in S |-> Cardinality(To(x))]
<1> DEFINE Rising(q) == \A i, j \in DOMAIN q : i < j => q[i] < q[j]
<1>1. IsFiniteSet(S) /\ n \in Nat /\ \A x \in S : x \in Int
  <2>1. IsFiniteSet(Commits) /\ Commits \subseteq Int
    BY HostAssumption, FS_Interval DEF Commits
  <2>2. IsFiniteSet(S)
    BY <2>1, FS_Subset
  <2> QED
    BY <2>1, <2>2, FS_CardinalityType
<1>2. IsFiniteSet(1..n) /\ Cardinality(1..n) = n
  BY <1>1, FS_Interval
<1>3. ASSUME NEW x \in S
      PROVE  IsFiniteSet(To(x)) /\ Cardinality(To(x)) \in 1..n
  <2>1. To(x) \in SUBSET S /\ x \in To(x)
    BY <1>1
  <2>2. IsFiniteSet(To(x)) /\ Cardinality(To(x)) <= n
    BY <1>1, <2>1, FS_Subset
  <2>3. Cardinality(To(x)) \in Nat /\ Cardinality(To(x)) # 0
    BY <2>1, <2>2, FS_CardinalityType, FS_EmptySet
  <2> QED
    BY <1>1, <2>2, <2>3
<1>4. ASSUME NEW x \in S, NEW y \in S, x < y PROVE rank[x] < rank[y]
  <2>1. To(x) \in SUBSET To(y) /\ y \in To(y) /\ y \notin To(x)
    BY <1>1, <1>4
  <2>2. Cardinality(To(x)) <= Cardinality(To(y)) /\ Cardinality(To(x)) # Cardinality(To(y))
    <3> HIDE DEF To
    <3> QED
      BY <1>3, <2>1, FS_Subset
  <2> QED
    BY <1>3, <2>2
<1>5. rank \in Injection(S, 1..n)
  <2>1. rank \in [S -> 1..n]
    BY <1>3
  <2>2. ASSUME NEW x \in S, NEW y \in S, rank[x] = rank[y] PROVE x = y
    <3>1. rank[x] \in 1..n
      BY <2>1
    <3>2. ~(x < y) /\ ~(y < x)
      <4> HIDE DEF rank
      <4> QED
        BY <1>1, <1>4, <2>2, <3>1
    <3> QED
      BY <1>1, <3>2
  <2> HIDE DEF rank
  <2> QED
    BY <2>1, <2>2 DEF Injection, IsInjective
<1>6. rank \in Surjection(S, 1..n)
  <2> HIDE DEF rank
  <2> QED
    BY <1>1, <1>2, <1>5, FS_Injection
<1>7. \E q \in [1..n -> S] : Rising(q)
  <2> DEFINE q == [i \in 1..n |-> CHOOSE x \in S : rank[x] = i]
  <2>1. \A i \in 1..n : q[i] \in S /\ rank[q[i]] = i
    <3> HIDE DEF rank
    <3>1. \A i \in 1..n : \E x \in S : rank[x] = i
      BY <1>6 DEF Surjection
    <3> QED
      BY <3>1
  <2>2. ASSUME NEW i \in 1..n, NEW j \in 1..n, i < j PROVE q[i] < q[j]
    <3> HIDE DEF rank, q
    <3>1. q[i] \in S /\ q[j] \in S /\ rank[q[i]] = i /\ rank[q[j]] = j
      BY <2>1
    <3>2. q[i] # q[j] /\ ~(q[j] < q[i])
      BY <1>4, <2>2, <3>1
    <3> QED
      BY <1>1, <3>1, <3>2
  <2>3. q \in [1..n -> S] /\ DOMAIN q = 1..n
    BY <2>1
  <2> HIDE DEF q
  <2> QED
    BY <2>2, <2>3
<1> DEFINE p == InOrder(S)
<1>8. p \in [1..n -> S] /\ Rising(p)
  <2> HIDE DEF Rising
  <2>1. p = CHOOSE q \in [1..n -> S] : Rising(q)
    BY DEF InOrder, Rising
  <2> HIDE DEF p
  <2> QED
    BY <1>7, <2>1
<1> HIDE DEF rank, To
<1>9. p \in Injection(1..n, S)
  <2> HIDE DEF p
  <2>1. ASSUME NEW i \in 1..n, NEW j \in 1..n, p[i] = p[j] PROVE i = j
    <3>1. p[i] \in Int /\ p[j] \in Int /\ ~(i < j) /\ ~(j < i)
      BY <1>1, <1>8, <2>1
    <3> QED
      BY <1>1, <3>1
  <2> QED
    BY <1>8, <2>1 DEF Injection, IsInjective
<1>10. p \in Surjection(1..n, S)
  <2> HIDE DEF p
  <2> QED
    BY <1>1, <1>2, <1>9, FS_Injection
<1>11. p \in Seq(S) /\ DOMAIN p = 1..n
  <2> HIDE DEF p
  <2> QED
    BY <1>1, <1>8, SeqDef
<1>12. Range(p) = S
  <2> HIDE DEF p
  <2> QED
    BY <1>8, <1>10, <1>11 DEF Surjection, Range
<1> QED
  BY <1>11, <1>12

\* Who enters is sent a welcome, the document, and answers that are kept.
LEMMA EntranceFacts ==
    ASSUME NEW h \in Sessions
    PROVE  /\ Entrance(h) \in Seq(Messages)
           /\ Range(Entrance(h)) \subseteq {Msg("welcome", h.last, h.token)} \cup Changes \cup h.answers
           /\ \A i \in 1..Len(Entrance(h)) : Entrance(h)[i].t = "welcome" => i = 1
<1> DEFINE low == {a \in h.answers : a.t = "nack" /\ a.c <= h.last}
<1> DEFINE order == InOrder({a.c : a \in low})
<1> DEFINE hello == <<Msg("welcome", h.last, h.token)>>
<1> DEFINE log == [i \in 1..Len(h.log) |-> Msg("ops", 0, h.log[i])]
<1> DEFINE text == IF h.logState = "stale" THEN <<>> ELSE <<Msg("snapshot", 0, h.snap)>> \o log
<1> DEFINE nacks == [i \in 1..Len(order) |-> CHOOSE a \in low : a.c = order[i]]
<1> DEFINE Rest == Changes \cup h.answers
<1> DEFINE All == {Msg("welcome", h.last, h.token)} \cup Changes \cup h.answers
<1>1. Entrance(h) = hello \o text \o nacks
  BY DEF Entrance
<1>2. /\ h.answers \subseteq Answers /\ h.log \in Seq(Nat) /\ h.snap \in Nat
      /\ h.last \in 0..MaxCommits /\ h.token \in Nat
  BY DEF Sessions
<1>3. hello \in Seq(All)
  <2>1. Msg("welcome", h.last, h.token) \in All
    OBVIOUS
  <2> HIDE DEF All
  <2> QED
    BY <2>1
<1>4. text \in Seq(Rest)
  <2>1. Len(h.log) \in Nat /\ \A i \in 1..Len(h.log) : h.log[i] \in Nat
    BY <1>2, LenProperties, ElementOfSeq
  <2>2. log \in Seq(Rest)
    <3>1. \A i \in 1..Len(h.log) : Msg("ops", 0, h.log[i]) \in Rest
      BY <2>1 DEF Msg, Changes
    <3> HIDE DEF Rest
    <3>2. log \in [1..Len(h.log) -> Rest]
      BY <3>1
    <3> HIDE DEF log
    <3> QED
      BY <2>1, <3>2, SeqDef
  <2>3. Msg("snapshot", 0, h.snap) \in Rest
    BY <1>2 DEF Msg, Changes
  <2> HIDE DEF Rest, log
  <2>4. <<Msg("snapshot", 0, h.snap)>> \in Seq(Rest) /\ <<>> \in Seq(Rest)
    BY <2>3, EmptySeq
  <2>5. <<Msg("snapshot", 0, h.snap)>> \o log \in Seq(Rest)
    BY <2>2, <2>4, ConcatProperties
  <2> QED
    BY <2>4, <2>5
<1>5. nacks \in Seq(Rest)
  <2>1. {a.c : a \in low} \in SUBSET Commits
    BY <1>2 DEF Answers
  <2> HIDE DEF low
  <2>2. order \in Seq({a.c : a \in low})
    BY <2>1, InOrderFacts
  <2> HIDE DEF order
  <2>3. Len(order) \in Nat /\ \A i \in 1..Len(order) : order[i] \in {a.c : a \in low}
    BY <2>2, LenProperties, ElementOfSeq
  <2>4. \A i \in 1..Len(order) : (CHOOSE a \in low : a.c = order[i]) \in low
    BY <2>3
  <2>5. nacks \in [1..Len(order) -> Rest]
    BY <2>4 DEF low
  <2> HIDE DEF nacks, Rest
  <2> QED
    BY <2>3, <2>5, SeqDef
<1>6. Entrance(h) \in Seq(All)
  <2>1. Rest \subseteq All
    OBVIOUS
  <2> HIDE DEF hello, text, nacks, All, Rest
  <2>2. text \in Seq(All) /\ nacks \in Seq(All)
    BY <1>4, <1>5, <2>1, SeqMonotonic
  <2> QED
    BY <1>1, <1>3, <2>2, ConcatProperties
<1>7. All \subseteq Messages
  BY <1>2 DEF Messages, Words, Changes, Msg
<1> HIDE DEF All
<1>8. Entrance(h) \in Seq(Messages)
  BY <1>6, <1>7, SeqMonotonic
<1>9. Range(Entrance(h)) \subseteq All
  BY <1>6, RangeIsPart
<1>10. ASSUME NEW i \in 1..Len(Entrance(h)), i # 1 PROVE Entrance(h)[i] \in Rest
  <2> HIDE DEF text, nacks, Rest
  <2>1. /\ Len(hello) = 1 /\ Len(text) \in Nat /\ Len(nacks) \in Nat
        /\ \A j \in 1..Len(text) : text[j] \in Rest
        /\ \A j \in 1..Len(nacks) : nacks[j] \in Rest
    BY <1>4, <1>5, LenProperties, ElementOfSeq
  <2> HIDE DEF hello, All
  <2> DEFINE T == Rest \cup All
  <2>2. text \in Seq(T) /\ nacks \in Seq(T) /\ hello \in Seq(T)
    BY <1>3, <1>4, <1>5, SeqMonotonic
  <2> HIDE DEF T
  <2> DEFINE q == hello \o text
  <2>a. /\ q \in Seq(T) /\ Len(q) = Len(hello) + Len(text)
        /\ \A j \in 1..(Len(hello) + Len(text)) :
              q[j] = IF j <= Len(hello) THEN hello[j] ELSE text[j - Len(hello)]
    BY <2>2, ConcatProperties
  <2> HIDE DEF q
  <2>3. Len(q) = Len(text) + 1 /\ \A j \in 2..Len(q) : q[j] = text[j - 1]
    BY <2>1, <2>a
  <2>b. /\ Len(q \o nacks) = Len(q) + Len(nacks)
        /\ \A j \in 1..(Len(q) + Len(nacks)) :
              (q \o nacks)[j] = IF j <= Len(q) THEN q[j] ELSE nacks[j - Len(q)]
    BY <2>2, <2>a, ConcatProperties
  <2>4. /\ Len(q \o nacks) = Len(q) + Len(nacks)
        /\ \A j \in 1..Len(q) : (q \o nacks)[j] = q[j]
        /\ \A j \in Len(q) + 1..Len(q) + Len(nacks) : (q \o nacks)[j] = nacks[j - Len(q)]
    BY <2>1, <2>3, <2>b
  <2>5. Entrance(h) = q \o nacks
    BY <1>1 DEF q
  <2>6. CASE i <= Len(q)
    BY <1>10, <2>1, <2>3, <2>4, <2>5, <2>6
  <2>7. CASE i > Len(q)
    BY <1>10, <2>1, <2>3, <2>4, <2>5, <2>7
  <2> QED
    BY <1>10, <2>1, <2>3, <2>6, <2>7
<1>11. \A m \in Rest : m.t # "welcome"
  BY <1>2 DEF Changes, Answers
<1> HIDE DEF Rest
<1> QED
  BY <1>8, <1>9, <1>10, <1>11 DEF All, Rest


-----------------------------------------------------------------------------
(* The operators on the session of the host.                               *)

\* What an operator leaves alone: the connection in force and the counters,
\* the answers, the document.
SameLink(g, h) ==
    /\ g.paired = h.paired /\ g.token = h.token /\ g.previous = h.previous
    /\ g.admitted = h.admitted /\ g.conn = h.conn /\ g.confirmed = h.confirmed
    /\ g.connLast = h.connLast /\ g.max = h.max /\ g.last = h.last /\ g.ended = h.ended
SameBooks(g, h) == g.pending = h.pending /\ g.answers = h.answers /\ g.forgot = h.forgot
SameText(g, h) ==
    g.seq = h.seq /\ g.snap = h.snap /\ g.log = h.log /\ g.logState = h.logState

\* A set of numbers that is not empty has a first one.
LEMMA First ==
    ASSUME NEW S, S \subseteq Nat, S # {}
    PROVE  Min(S) \in S /\ \A x \in S : Min(S) <= x
<1>1. IsWellFoundedOn(OpToRel(<, Nat), Nat)
  BY NatLessThanWellFounded, Zenon
<1>2. PICK x \in S : \A y \in S : ~(<<y, x>> \in OpToRel(<, Nat))
  BY <1>1, WFMin, Zenon
<1>3. ASSUME NEW y \in S PROVE x <= y
  <2>1. y < x => <<y, x>> \in OpToRel(<, Nat)
    BY Zenon DEF OpToRel
  <2>2. ~(y < x)
    BY <1>2, <2>1, Zenon
  <2> QED
    BY <2>2
<1> QED
  BY <1>3 DEF Min

\* lastC does not go back, and what is at or below it waits no more, if what
\* waits is above the lastC of the last admission.
LEMMA LastCFacts ==
    ASSUME NEW h \in Sessions, h.pending \subseteq (h.last + 1)..h.max, h.last <= h.max
    PROVE  /\ LastC(h) \in h.last..h.max
           /\ \A c \in h.pending : c > LastC(h)
<1> USE HostAssumption
<1>1. h.pending \subseteq Nat /\ h.last \in 0..MaxCommits /\ h.max \in 0..MaxCommits
  BY DEF Sessions, Commits
<1>2. Treated(h) \in Int /\ Treated(h) <= h.max /\ \A c \in h.pending : c > Treated(h)
  <2>1. CASE h.pending = {}
    BY <1>1, <2>1 DEF Treated
  <2>2. CASE h.pending # {}
    <3>1. Min(h.pending) \in h.pending /\ \A x \in h.pending : Min(h.pending) <= x
      BY <1>1, <2>2, First
    <3>2. Treated(h) = Min(h.pending) - 1
      BY <2>2 DEF Treated
    <3> HIDE DEF Treated
    <3> QED
      BY <1>1, <3>1, <3>2
  <2> QED
    BY <2>1, <2>2
<1>3. LastC(h) \in {h.last, Treated(h)} /\ LastC(h) >= h.last /\ LastC(h) >= Treated(h)
  <2> HIDE DEF Treated
  <2> QED
    BY <1>1, <1>2 DEF LastC, Max
<1> QED
  BY <1>1, <1>2, <1>3

LEMMA PruneFacts ==
    ASSUME NEW h \in Sessions, IsFiniteSet(h.answers),
           \A a, b \in h.answers : a.c = b.c => a = b
    PROVE  /\ Prune(h) \in Sessions
           /\ SameLink(Prune(h), h) /\ SameText(Prune(h), h) /\ Prune(h).pending = h.pending
           /\ Prune(h).answers \subseteq h.answers /\ h.forgot \subseteq Prune(h).forgot
           /\ IsFiniteSet(Prune(h).answers)
           /\ \A a \in h.answers : a.t = "nack" =>
                 a \in Prune(h).answers \/ a.c \in Prune(h).forgot
<1> DEFINE low == LastC(h)
<1> DEFINE kept == {a \in h.answers : a.t = "nack" \/ a.c > low}
<1> DEFINE old == {a \in kept : a.c <= low}
<1> DEFINE gone == {a \in old : Cardinality({b \in old : b.c > a.c}) >= RetainedNacks}
<1>1. Prune(h) = [h EXCEPT !.answers = kept \ gone, !.forgot = @ \cup {a.c : a \in gone}]
  BY DEF Prune
<1>2. h.answers \subseteq Answers /\ h.forgot \subseteq Commits
  BY DEF Sessions
<1>3. kept \subseteq h.answers /\ gone \subseteq h.answers /\ {a.c : a \in gone} \subseteq Commits
  BY <1>2 DEF Answers
<1>4. \A a \in h.answers : a.t = "nack" => a \in kept
  OBVIOUS
<1> HIDE DEF kept, gone
<1>5. /\ Prune(h) \in Sessions
      /\ Prune(h).answers = kept \ gone /\ Prune(h).forgot = h.forgot \cup {a.c : a \in gone}
  <2> DEFINE A == kept \ gone
  <2> DEFINE F == h.forgot \cup {a.c : a \in gone}
  <2>1. Prune(h) = [h EXCEPT !.answers = A, !.forgot = F]
    BY <1>1
  <2>2. A \in SUBSET Answers /\ F \in SUBSET Commits
    BY <1>2, <1>3
  <2> HIDE DEF A, F
  <2>3. Prune(h) \in Sessions /\ Prune(h).answers = A /\ Prune(h).forgot = F
    BY <2>1, <2>2 DEF Sessions
  <2> QED
    BY <2>3 DEF A, F
<1>6. IsFiniteSet(Prune(h).answers)
  BY <1>3, <1>5, FS_Subset
<1>7. SameLink(Prune(h), h) /\ SameText(Prune(h), h) /\ Prune(h).pending = h.pending
  BY <1>1 DEF SameLink, SameText, Sessions
<1> QED
  BY <1>3, <1>4, <1>5, <1>6, <1>7

Keeper(h) == IsFiniteSet(h.answers) /\ \A a, b \in h.answers : a.c = b.c => a = b

LEMMA AppendLogFacts ==
    ASSUME NEW h \in Sessions, NEW n \in Nat, Len(h.log) <= LogHard
    PROVE  LET g == AppendLog(h, n)
           IN  /\ g \in Sessions /\ Len(g.log) <= LogHard
               /\ SameLink(g, h) /\ SameBooks(g, h) /\ g.seq = h.seq /\ g.snap = h.snap
<1> USE HostAssumption
<1>1. h.log \in Seq(Nat) /\ Len(h.log) \in Nat
  BY LenProperties DEF Sessions
<1>2. CASE h.logState = "stale"
  BY <1>2 DEF AppendLog, SameLink, SameBooks
<1>3. CASE h.logState # "stale" /\ Len(h.log) >= LogHard
  <2>1. AppendLog(h, n) = [h EXCEPT !.log = <<>>, !.logState = "stale"]
    BY <1>3 DEF AppendLog
  <2> DEFINE l == <<>>
  <2>2. l \in Seq(Nat) /\ Len(l) = 0
    BY EmptySeq
  <2> HIDE DEF l
  <2>3. /\ AppendLog(h, n) \in Sessions /\ AppendLog(h, n).log = l
        /\ AppendLog(h, n).logState = "stale"
    BY <2>1, <2>2 DEF Sessions, l
  <2>4. LET g == AppendLog(h, n)
        IN  SameLink(g, h) /\ SameBooks(g, h) /\ g.seq = h.seq /\ g.snap = h.snap
    BY <2>1 DEF Sessions, SameLink, SameBooks
  <2> QED
    BY <2>1, <2>2, <2>3, <2>4 DEF l
<1>4. CASE h.logState # "stale" /\ ~(Len(h.log) >= LogHard)
  <2> DEFINE l == Append(h.log, n)
  <2> DEFINE st == IF Len(h.log) >= LogSoft THEN "wanted" ELSE h.logState
  <2>1. AppendLog(h, n) = [h EXCEPT !.log = l, !.logState = st]
    BY <1>4 DEF AppendLog
  <2>2. l \in Seq(Nat) /\ Len(l) = Len(h.log) + 1 /\ st \in {"fresh", "wanted", "stale"}
    BY <1>1, AppendProperties DEF Sessions
  <2> HIDE DEF l, st
  <2>3. /\ AppendLog(h, n) \in Sessions /\ AppendLog(h, n).log = l
        /\ AppendLog(h, n).logState = st
    BY <2>1, <2>2 DEF Sessions
  <2>4. LET g == AppendLog(h, n)
        IN  SameLink(g, h) /\ SameBooks(g, h) /\ g.seq = h.seq /\ g.snap = h.snap
    BY <2>1 DEF Sessions, SameLink, SameBooks
  <2> QED
    BY <1>1, <1>4, <2>1, <2>2, <2>3, <2>4
<1> QED
  BY <1>2, <1>3, <1>4

LEMMA RememberFacts ==
    ASSUME NEW h \in Sessions, Keeper(h), NEW m \in Answers
    PROVE  LET g == Remember(h, m)
           IN  /\ g \in Sessions /\ Keeper(g)
               /\ SameLink(g, h) /\ SameText(g, h)
               /\ g.pending = h.pending /\ g.forgot = h.forgot
               /\ g.answers = {b \in h.answers : b.c # m.c} \cup {m}
<1> DEFINE A == {b \in h.answers : b.c # m.c} \cup {m}
<1>1. A \in SUBSET Answers
  BY DEF Sessions
<1>2. IsFiniteSet(A)
  <2>1. IsFiniteSet({b \in h.answers : b.c # m.c})
    BY FS_Subset DEF Keeper
  <2> QED
    BY <2>1, FS_Singleton, FS_Union
<1>3. \A a, b \in A : a.c = b.c => a = b
  BY DEF Keeper
<1> HIDE DEF A
<1>4. Remember(h, m) = [h EXCEPT !.answers = A]
  BY DEF Remember, A
<1>5. Remember(h, m) \in Sessions /\ Remember(h, m).answers = A
  BY <1>1, <1>4 DEF Sessions
<1>6. LET g == Remember(h, m)
      IN  /\ SameLink(g, h) /\ SameText(g, h)
          /\ g.pending = h.pending /\ g.forgot = h.forgot
  BY <1>4 DEF Sessions, SameLink, SameText
<1> QED
  BY <1>2, <1>3, <1>5, <1>6 DEF Keeper, A

\* What an answer of the shell does to the session.
LEMMA AnswerFacts ==
    ASSUME NEW h \in Sessions, Keeper(h), NEW m \in Answers
    PROVE  LET g == Answer(h, m)
           IN  /\ g \in Sessions /\ Keeper(g)
               /\ SameLink(g, h) /\ SameText(g, h)
               /\ g.pending = h.pending \ {m.c}
               /\ g.answers \subseteq h.answers \cup {m} /\ h.forgot \subseteq g.forgot
               /\ h.paired => /\ m.t = "nack" => m \in g.answers \/ m.c \in g.forgot
                              /\ \A a \in h.answers : a.t = "nack" =>
                                    a \in g.answers \/ a.c \in g.forgot \cup {m.c}
<1> DEFINE done == [h EXCEPT !.pending = @ \ {m.c}]
<1>1. /\ done \in Sessions /\ Keeper(done) /\ done.answers = h.answers /\ done.forgot = h.forgot
      /\ done.pending = h.pending \ {m.c} /\ SameLink(done, h) /\ SameText(done, h)
  BY DEF Sessions, Keeper, SameLink, SameText
<1>2. CASE ~h.paired
  <2>1. Answer(h, m) = done
    BY <1>2 DEF Answer
  <2> QED
    BY <1>1, <1>2, <2>1
<1>3. CASE h.paired
  <2> DEFINE r == Remember(done, m)
  <2> DEFINE g == Prune(r)
  <2>1. Answer(h, m) = g
    BY <1>3 DEF Answer
  <2>2. /\ r \in Sessions /\ Keeper(r) /\ r.answers = {b \in h.answers : b.c # m.c} \cup {m}
        /\ SameLink(r, done) /\ SameText(r, done)
        /\ r.pending = done.pending /\ r.forgot = done.forgot
    <3> HIDE DEF done
    <3> QED
      BY <1>1, RememberFacts
  <2>3. /\ g \in Sessions /\ SameLink(g, r) /\ SameText(g, r) /\ g.pending = r.pending
        /\ g.answers \subseteq r.answers /\ r.forgot \subseteq g.forgot
        /\ IsFiniteSet(g.answers)
        /\ \A a \in r.answers : a.t = "nack" => a \in g.answers \/ a.c \in g.forgot
    <3> HIDE DEF r, done
    <3> QED
      BY <2>2, PruneFacts DEF Keeper
  <2>4. Keeper(g)
    <3> HIDE DEF r, g
    <3> QED
      BY <2>2, <2>3 DEF Keeper
  <2> HIDE DEF g, r, done
  <2>5. SameLink(g, h) /\ SameText(g, h)
    BY <1>1, <2>2, <2>3 DEF SameLink, SameText
  <2> QED
    BY <1>1, <2>1, <2>2, <2>3, <2>4, <2>5
<1> QED
  BY <1>2, <1>3

Fate == {"ack", "same", "nack"}

\* A message of the shell that is not an error.
LEMMA SendFacts ==
    ASSUME NEW h \in Sessions, Keeper(h), Len(h.log) <= LogHard, NEW m \in Messages
    PROVE  LET g == Send(h, m)
           IN  /\ g \in Sessions /\ Keeper(g) /\ Len(g.log) <= LogHard /\ SameLink(g, h)
               /\ g.pending = IF m.t \in Fate THEN h.pending \ {m.c} ELSE h.pending
               /\ \A a \in g.answers : a \in h.answers \/ (m.t \in Fate /\ a = m)
               /\ h.forgot \subseteq g.forgot
               /\ h.paired => /\ m.t = "nack" => m \in g.answers \/ m.c \in g.forgot
                              /\ \A a \in h.answers : a.t = "nack" =>
                                    a \in g.answers \/ a.c \in g.forgot \/ (m.t \in Fate /\ a.c = m.c)
<1> USE HostAssumption
<1> DEFINE noted ==
            IF m.t \in {"ack", "ops"} THEN AppendLog([h EXCEPT !.seq = m.n], m.n)
            ELSE IF m.t = "snapshot"
                 THEN [h EXCEPT !.seq = m.n, !.snap = m.n, !.log = <<>>, !.logState = "fresh"]
                 ELSE h
<1>1. m.t \in Fate => m \in Answers /\ m.c \in Commits
  BY DEF Messages, Words, Changes, Answers, Fate
<1>2. m.n \in Nat
  BY DEF Messages, Words, Changes, Answers
<1>3. /\ noted \in Sessions /\ Len(noted.log) <= LogHard
      /\ SameLink(noted, h) /\ SameBooks(noted, h)
  <2>1. CASE m.t \in {"ack", "ops"}
    <3> DEFINE at == [h EXCEPT !.seq = m.n]
    <3> DEFINE g == AppendLog(at, m.n)
    <3>1. at \in Sessions /\ at.log = h.log /\ SameLink(at, h) /\ SameBooks(at, h)
      BY <1>2 DEF Sessions, SameLink, SameBooks
    <3>2. noted = g
      BY <2>1
    <3> HIDE DEF at, noted
    <3>3. g \in Sessions /\ Len(g.log) <= LogHard /\ SameLink(g, at) /\ SameBooks(g, at)
      BY <1>2, <3>1, AppendLogFacts
    <3> QED
      BY <3>1, <3>2, <3>3 DEF SameLink, SameBooks
  <2>2. CASE m.t = "snapshot"
    <3> DEFINE l == <<>>
    <3>1. l \in Seq(Nat) /\ Len(l) = 0
      BY EmptySeq
    <3>2. noted = [h EXCEPT !.seq = m.n, !.snap = m.n, !.log = l, !.logState = "fresh"]
      BY <2>2
    <3> HIDE DEF l, noted
    <3>3. noted \in Sessions /\ noted.log = l
      BY <1>2, <3>1, <3>2 DEF Sessions
    <3>4. SameLink(noted, h) /\ SameBooks(noted, h)
      BY <3>2 DEF Sessions, SameLink, SameBooks
    <3> QED
      BY <3>1, <3>3, <3>4
  <2>3. CASE m.t \notin {"ack", "ops", "snapshot"}
    BY <2>3 DEF SameLink, SameBooks
  <2> QED
    BY <2>1, <2>2, <2>3
<1>4. Send(h, m) = IF m.t \in Fate THEN Answer(noted, m) ELSE noted
  BY DEF Send, Fate
<1> HIDE DEF noted
<1>5. noted.answers = h.answers /\ Keeper(noted) /\ noted.paired = h.paired
  BY <1>3 DEF SameBooks, SameLink, Keeper
<1>6. CASE m.t \in Fate
  <2> DEFINE g == Answer(noted, m)
  <2>1. /\ g \in Sessions /\ Keeper(g) /\ SameLink(g, noted) /\ SameText(g, noted)
        /\ g.pending = noted.pending \ {m.c}
        /\ g.answers \subseteq noted.answers \cup {m} /\ noted.forgot \subseteq g.forgot
        /\ noted.paired => /\ m.t = "nack" => m \in g.answers \/ m.c \in g.forgot
                           /\ \A a \in noted.answers : a.t = "nack" =>
                                 a \in g.answers \/ a.c \in g.forgot \cup {m.c}
    BY <1>1, <1>3, <1>5, <1>6, AnswerFacts
  <2>2. Send(h, m) = g
    BY <1>4, <1>6
  <2> HIDE DEF g
  <2>3. SameLink(g, h) /\ Len(g.log) <= LogHard
    BY <1>3, <2>1 DEF SameLink, SameText
  <2> QED
    BY <1>3, <1>5, <1>6, <2>1, <2>2, <2>3 DEF SameBooks
<1>7. CASE m.t \notin Fate
  <2>1. Send(h, m) = noted /\ m.t # "nack"
    BY <1>4, <1>7 DEF Fate
  <2> QED
    BY <1>3, <1>5, <1>7, <2>1 DEF SameBooks
<1> QED
  BY <1>6, <1>7

-----------------------------------------------------------------------------
(* The shell: what it has answered stays answered, and rightly.            *)

DoneIn(s) == Range(s.doc) \ {0}

\* What m says of its commit is what has happened to it.
RightIn(s, m) ==
    m.t \in Fate => /\ m.c \in s.answered
                    /\ m.t = "ack" <=> m.c \in DoneIn(s)
                    /\ m.t = "nack" <=> m.c \in s.refused
AllRight(s, q) == \A m \in Range(q) : RightIn(s, m)

\* Each commit is in the document at most once, and not if it was refused.
Sound(s) ==
    /\ DoneIn(s) \subseteq s.answered /\ s.refused \subseteq s.answered
    /\ DoneIn(s) \cap s.refused = {}
    /\ \A i, j \in 1..Len(s.doc) : s.doc[i] = s.doc[j] => i = j \/ s.doc[i] = 0

\* t comes after s: what was answered in s is as it was.
Later(s, t) ==
    /\ s.answered \subseteq t.answered
    /\ \A c \in s.answered : /\ c \in DoneIn(t) <=> c \in DoneIn(s)
                             /\ c \in t.refused <=> c \in s.refused
SameDuties(s, t) == s.asks = t.asks /\ s.edits = t.edits /\ s.stop = t.stop /\ s.await = t.await

LEMMA StaysRight ==
    ASSUME NEW s, NEW t, Later(s, t)
    PROVE  \A m : RightIn(s, m) => RightIn(t, m)
BY DEF Later, RightIn

LEMMA LaterStill ==
    ASSUME NEW r, NEW s, NEW t, Later(r, s), Later(s, t)
    PROVE  Later(r, t)
BY DEF Later

\* The document grows by a change of the PC, or by a commit it has not yet.
LEMMA Grows ==
    ASSUME NEW s \in Shells, Sound(s), NEW c \in 0..MaxCommits, c = 0 \/ c \notin s.answered
    PROVE  LET doc == Append(s.doc, c)
           IN  /\ doc \in Seq(0..MaxCommits) /\ Len(doc) = Len(s.doc) + 1 /\ Len(s.doc) \in Nat
               /\ Range(doc) = Range(s.doc) \cup {c}
               /\ \A i, j \in 1..Len(doc) : doc[i] = doc[j] => i = j \/ doc[i] = 0
<1> DEFINE doc == Append(s.doc, c)
<1>1. s.doc \in Seq(0..MaxCommits)
  BY DEF Shells
<1>2. /\ doc \in Seq(0..MaxCommits) /\ Len(doc) = Len(s.doc) + 1 /\ Len(s.doc) \in Nat
      /\ \A i \in 1..Len(s.doc) : doc[i] = s.doc[i]
      /\ doc[Len(s.doc) + 1] = c
  BY <1>1, AppendProperties, LenProperties
<1>3. Range(doc) = Range(s.doc) \cup {c}
  <2> DEFINE T == 0..MaxCommits
  <2>1. s.doc \in Seq(T) /\ c \in T
    BY <1>1
  <2> HIDE DEF T
  <2> QED
    BY <2>1, AppendRange
<1>4. \A i \in 1..Len(s.doc) : s.doc[i] \in Range(s.doc)
  BY <1>1, RangeIsPart
<1> HIDE DEF doc
<1>5. ASSUME NEW i \in 1..Len(doc), NEW j \in 1..Len(doc), doc[i] = doc[j], doc[i] # 0
      PROVE  i = j
  <2>1. \A k \in 1..Len(s.doc) : doc[k] = c => c = 0
    BY <1>2, <1>4 DEF Sound, DoneIn
  <2>2. CASE i \in 1..Len(s.doc) /\ j \in 1..Len(s.doc)
    BY <1>2, <1>5, <2>2 DEF Sound
  <2>3. CASE i = Len(s.doc) + 1 \/ j = Len(s.doc) + 1
    BY <1>2, <1>5, <2>1, <2>3
  <2> QED
    BY <1>2, <2>2, <2>3
<1> QED
  BY <1>2, <1>3, <1>5 DEF doc

LEMMA FlushedFacts ==
    ASSUME NEW s \in Shells, Sound(s), NEW q \in Seq(Words)
    PROVE  LET f == Flushed(s, q)
           IN  /\ f.s \in Shells /\ Sound(f.s) /\ SameDuties(f.s, s)
               /\ f.s.answered = s.answered /\ f.s.refused = s.refused
               /\ DoneIn(f.s) = DoneIn(s)
               /\ f.q \in Seq(Words) /\ Range(f.q) \subseteq Range(q) \cup Changes
<1>1. CASE ~s.dirty
  <2>1. Flushed(s, q) = [s |-> s, q |-> q]
    BY <1>1 DEF Flushed
  <2> QED
    BY <2>1 DEF SameDuties
<1>2. CASE s.dirty
  <2> DEFINE doc == Append(s.doc, 0)
  <2> DEFINE t == [s EXCEPT !.doc = doc, !.dirty = FALSE]
  <2> DEFINE m == Msg("snapshot", 0, Len(s.doc) + 1)
  <2>1. 0 \in 0..MaxCommits
    BY HostAssumption
  <2>2. /\ doc \in Seq(0..MaxCommits) /\ Len(s.doc) \in Nat /\ Range(doc) = Range(s.doc) \cup {0}
        /\ \A i, j \in 1..Len(doc) : doc[i] = doc[j] => i = j \/ doc[i] = 0
    BY <2>1, Grows
  <2>3. m \in Words /\ m \in Changes
    BY <2>2 DEF Msg, Words, Changes
  <2>4. Append(q, m) \in Seq(Words) /\ Range(Append(q, m)) = Range(q) \cup {m}
    <3> HIDE DEF m
    <3> QED
      BY <2>3, AppendRange
  <2>5. Flushed(s, q) = [s |-> t, q |-> Append(q, m)]
    BY <1>2 DEF Flushed
  <2> HIDE DEF doc, m
  <2>6. /\ t \in Shells /\ SameDuties(t, s) /\ t.doc = doc
        /\ t.answered = s.answered /\ t.refused = s.refused
    BY <2>2 DEF Shells, SameDuties
  <2> HIDE DEF t
  <2>7. DoneIn(t) = DoneIn(s)
    BY <2>2, <2>6 DEF DoneIn
  <2>8. Sound(t)
    BY <2>2, <2>6, <2>7 DEF Sound
  <2> QED
    BY <2>3, <2>4, <2>5, <2>6, <2>7, <2>8
<1>3. s.dirty \in BOOLEAN
  BY DEF Shells
<1> QED
  BY <1>1, <1>2, <1>3

\* A commit is dealt with once: what it gets is a fate of its own.
LEMMA TakeFacts ==
    ASSUME NEW d \in [s : Shells, q : Seq(Words)], Sound(d.s), AllRight(d.s, d.q),
           NEW c \in Commits, NEW o \in Fate, NEW answer
    PROVE  LET g == Take(d, c, o, answer)
           IN  /\ g \in [s : Shells, q : Seq(Words)]
               /\ Sound(g.s) /\ AllRight(g.s, g.q) /\ Later(d.s, g.s) /\ SameDuties(g.s, d.s)
               /\ g.s.answered = d.s.answered \cup {c}
               /\ g.s.refused \subseteq d.s.refused \cup ({c} \ d.s.answered)
<1> USE HostAssumption
<1>1. CASE c \in d.s.answered
  BY <1>1 DEF Take, Later, SameDuties
<1>2. CASE c \notin d.s.answered
  <2> DEFINE f == Flushed(d.s, d.q)
  <2> DEFINE doc == IF o = "ack" THEN Append(f.s.doc, c) ELSE f.s.doc
  <2> DEFINE t == [f.s EXCEPT !.doc = doc, !.answered = @ \cup {c},
                              !.refused = IF o = "nack" THEN @ \cup {c} ELSE @]
  <2> DEFINE m == Msg(o, c, IF o = "nack" THEN 0 ELSE Len(doc))
  <2> DEFINE q == IF answer THEN Append(f.q, m) ELSE f.q
  <2>1. Take(d, c, o, answer) = [s |-> t, q |-> q]
    BY <1>2 DEF Take
  <2>2. d.s \in Shells /\ d.q \in Seq(Words) /\ c \in 0..MaxCommits /\ c # 0
    BY DEF Commits
  <2>3. /\ f.s \in Shells /\ Sound(f.s) /\ SameDuties(f.s, d.s)
        /\ f.s.answered = d.s.answered /\ f.s.refused = d.s.refused
        /\ DoneIn(f.s) = DoneIn(d.s)
        /\ f.q \in Seq(Words) /\ Range(f.q) \subseteq Range(d.q) \cup Changes
    BY <2>2, FlushedFacts
  <2> HIDE DEF f
  <2>4. /\ doc \in Seq(0..MaxCommits) /\ Len(doc) \in Nat
        /\ Range(doc) = IF o = "ack" THEN Range(f.s.doc) \cup {c} ELSE Range(f.s.doc)
        /\ \A i, j \in 1..Len(doc) : doc[i] = doc[j] => i = j \/ doc[i] = 0
    <3>1. CASE o = "ack"
      <4>1. doc = Append(f.s.doc, c)
        BY <3>1
      <4>2. f.s \in Shells /\ Sound(f.s) /\ c \notin f.s.answered
        BY <1>2, <2>3
      <4> HIDE DEF doc
      <4>3. /\ doc \in Seq(0..MaxCommits) /\ Len(doc) = Len(f.s.doc) + 1 /\ Len(f.s.doc) \in Nat
            /\ Range(doc) = Range(f.s.doc) \cup {c}
            /\ \A i, j \in 1..Len(doc) : doc[i] = doc[j] => i = j \/ doc[i] = 0
        <5>1. c \in 0..MaxCommits /\ (c = 0 \/ c \notin f.s.answered)
          BY <2>2, <4>2
        <5> QED
          BY <4>1, <4>2, <5>1, Grows, Zenon
      <4> QED
        BY <3>1, <4>3
    <3>2. CASE o # "ack"
      <4>1. doc = f.s.doc
        BY <3>2
      <4>2. f.s.doc \in Seq(0..MaxCommits) /\ Len(f.s.doc) \in Nat
        BY <2>3, LenProperties DEF Shells
      <4> HIDE DEF doc
      <4> QED
        BY <2>3, <3>2, <4>1, <4>2 DEF Sound
    <3> QED
      BY <3>1, <3>2
  <2> HIDE DEF doc
  <2>5. /\ t \in Shells /\ SameDuties(t, d.s) /\ t.doc = doc
        /\ t.answered = d.s.answered \cup {c}
        /\ t.refused = IF o = "nack" THEN d.s.refused \cup {c} ELSE d.s.refused
    BY <2>3, <2>4 DEF Shells, SameDuties
  <2> HIDE DEF t
  <2>6. DoneIn(t) = IF o = "ack" THEN DoneIn(d.s) \cup {c} ELSE DoneIn(d.s)
    BY <2>2, <2>3, <2>4, <2>5 DEF DoneIn
  <2>7. Sound(t)
    BY <1>2, <2>3, <2>4, <2>5, <2>6 DEF Sound
  <2>8. Later(d.s, t)
    BY <1>2, <2>5, <2>6 DEF Later
  <2>9. m \in Words /\ RightIn(t, m)
    <3>1. m.t = o /\ m.c = c /\ m.n \in Nat /\ m = [t |-> m.t, c |-> m.c, n |-> m.n]
      BY <2>4 DEF Msg
    <3>2. m \in Words
      <4> HIDE DEF m
      <4> QED
        BY <3>1 DEF Words, Answers, Fate
    <3>3. (o = "ack" <=> c \in DoneIn(t)) /\ (o = "nack" <=> c \in t.refused) /\ c \in t.answered
      BY <1>2, <2>3, <2>5, <2>6 DEF Sound, Fate
    <3> HIDE DEF m
    <3> QED
      BY <3>1, <3>2, <3>3 DEF RightIn
  <2> HIDE DEF m
  <2>10. AllRight(t, f.q)
    <3>1. \A x \in Changes : RightIn(t, x)
      BY DEF Changes, RightIn, Fate
    <3> QED
      BY <2>3, <2>8, <3>1, StaysRight DEF AllRight
  <2>11. q \in Seq(Words) /\ AllRight(t, q)
    <3>1. Append(f.q, m) \in Seq(Words) /\ Range(Append(f.q, m)) = Range(f.q) \cup {m}
      BY <2>3, <2>9, AppendRange
    <3> QED
      BY <2>3, <2>9, <2>10, <3>1 DEF AllRight
  <2> HIDE DEF q
  <2> QED
    BY <1>2, <2>1, <2>5, <2>7, <2>8, <2>11
<1> QED
  BY <1>1, <1>2

\* The same for a set of commits, one after the other.
LEMMA TakenFacts ==
    ASSUME NEW s \in Shells, Sound(s), sending \in Seq(Words), AllRight(s, sending),
           NEW C \in SUBSET Commits, NEW o \in [C -> Fate], NEW answer
    PROVE  LET d == Taken(o, answer, s)
           IN  /\ d.s \in Shells /\ d.q \in Seq(Words)
               /\ Sound(d.s) /\ AllRight(d.s, d.q) /\ Later(s, d.s) /\ SameDuties(d.s, s)
               /\ d.s.answered = s.answered \cup C
               /\ d.s.refused \subseteq s.refused \cup (C \ s.answered)
<1> DEFINE how == [o |-> o, answer |-> answer]
<1> DEFINE seq == InOrder(C)
<1> DEFINE n == Len(seq)
<1> DEFINE base == [s |-> s, q |-> sending]
<1> DEFINE So(k) == {seq[i] : i \in 1..k}
<1> DEFINE Good(k, d) ==
        /\ Sound(d.s) /\ AllRight(d.s, d.q) /\ Later(s, d.s) /\ SameDuties(d.s, s)
        /\ d.s.answered = s.answered \cup So(k)
        /\ d.s.refused \subseteq s.refused \cup (C \ s.answered)
<1> DEFINE G == {x \in (0..n) \X [s : Shells, q : Seq(Words)] : Good(x[1], x[2])}
<1>1. /\ seq \in Seq(C) /\ Range(seq) = C /\ n \in Nat /\ DOMAIN seq = 1..n
      /\ \A i \in 1..n : seq[i] \in C
  <2>1. seq \in Seq(C) /\ Range(seq) = C
    BY InOrderFacts
  <2> HIDE DEF seq
  <2> QED
    BY <2>1, LenProperties, ElementOfSeq
<1>2. Taken(o, answer, s) = Takes!FoldOf(how, base, seq)
  BY DEF Taken, TakeStep, FoldLeft, MapThenFoldSet, Takes!FoldOf, Max
<1> HIDE DEF seq
<1>3. <<0, base>> \in G
  <2>1. base \in [s : Shells, q : Seq(Words)] /\ base.s = s /\ base.q = sending
    OBVIOUS
  <2>2. So(0) = {} /\ 0 \in 0..n
    BY <1>1
  <2> HIDE DEF So, base
  <2>3. Good(0, base)
    BY <2>1, <2>2 DEF Later, SameDuties
  <2> HIDE DEF Good
  <2> QED
    BY <2>1, <2>2, <2>3
<1>4. ASSUME NEW k \in 1..n, NEW d, <<k - 1, d>> \in G
      PROVE  <<k, TakeStep(how, d, seq[k])>> \in G
  <2> DEFINE g == Take(d, seq[k], o[seq[k]], answer)
  <2>1. d \in [s : Shells, q : Seq(Words)] /\ Good(k - 1, d) /\ k \in 0..n
    <3> HIDE DEF Good
    <3> QED
      BY <1>1, <1>4
  <2>2. seq[k] \in C /\ seq[k] \in Commits /\ o[seq[k]] \in Fate
    BY <1>1
  <2>3. TakeStep(how, d, seq[k]) = g
    BY DEF TakeStep
  <2> HIDE DEF So, how
  <2>4. /\ g \in [s : Shells, q : Seq(Words)]
        /\ Sound(g.s) /\ AllRight(g.s, g.q) /\ Later(d.s, g.s) /\ SameDuties(g.s, d.s)
        /\ g.s.answered = d.s.answered \cup {seq[k]}
        /\ g.s.refused \subseteq d.s.refused \cup ({seq[k]} \ d.s.answered)
    <3>1. Sound(d.s) /\ AllRight(d.s, d.q) /\ d \in [s : Shells, q : Seq(Words)]
      BY <2>1
    <3> DEFINE c == seq[k]
    <3>2. c \in Commits /\ o[c] \in Fate
      BY <2>2
    <3> HIDE DEF c
    <3>3. LET e == Take(d, c, o[c], answer)
          IN  /\ e \in [s : Shells, q : Seq(Words)]
              /\ Sound(e.s) /\ AllRight(e.s, e.q) /\ Later(d.s, e.s) /\ SameDuties(e.s, d.s)
              /\ e.s.answered = d.s.answered \cup {c}
              /\ e.s.refused \subseteq d.s.refused \cup ({c} \ d.s.answered)
      BY <3>1, <3>2, TakeFacts
    <3> QED
      BY <3>3, Zenon DEF c
  <2>5. So(k) = So(k - 1) \cup {seq[k]}
    <3>1. 1..k = 1..(k - 1) \cup {k}
      BY <1>1
    <3> QED
      BY <3>1 DEF So
  <2> HIDE DEF g
  <2>6. Later(s, g.s)
    BY <2>1, <2>4, LaterStill
  <2>7. SameDuties(g.s, s)
    BY <2>1, <2>4 DEF SameDuties
  <2>8. Good(k, g)
    BY <2>1, <2>2, <2>4, <2>5, <2>6, <2>7
  <2> HIDE DEF Good
  <2> QED
    BY <2>1, <2>3, <2>4, <2>8
<1>5. <<n, Takes!FoldOf(how, base, seq)>> \in G
  <2> HIDE DEF G, how, base
  <2> QED
    BY <1>1, <1>3, <1>4, Takes!FoldKeeps
<1>6. So(n) = C
  BY <1>1 DEF Range
<1> HIDE DEF So
<1> QED
  BY <1>1, <1>2, <1>5, <1>6

-----------------------------------------------------------------------------
(* A hello, a message, an end: what they do to the session.                *)

LEMMA AdmitFacts ==
    ASSUME NEW h \in Sessions, Keeper(h), Len(h.log) <= LogHard,
           h.pending \subseteq (h.last + 1)..h.max, h.last <= h.max,
           NEW k \in Conns, NEW token \in Nat
    PROVE  LET g == Admit(h, k, token)
           IN  /\ g \in Sessions /\ Keeper(g) /\ Len(g.log) <= LogHard
               /\ g.paired = h.paired /\ g.token = h.admitted + 1 /\ g.previous = token
               /\ g.conn = k /\ g.connLast = 0 /\ g.ended = h.ended
               /\ g.max = h.max /\ g.last \in h.last..h.max /\ g.pending = h.pending
               /\ \A c \in h.pending : c > g.last
               /\ g.answers \subseteq h.answers /\ h.forgot \subseteq g.forgot
               /\ \A a \in h.answers : a.t = "nack" => a \in g.answers \/ a.c \in g.forgot
<1> DEFINE b == [h EXCEPT !.previous = token, !.token = h.admitted + 1,
                          !.admitted = @ + 1, !.last = LastC(h)]
<1> DEFINE p == Prune(b)
<1> DEFINE g == [p EXCEPT !.conn = k, !.confirmed = FALSE, !.connLast = 0]
<1>1. LastC(h) \in h.last..h.max /\ \A c \in h.pending : c > LastC(h)
  BY LastCFacts
<1>2. LastC(h) \in 0..MaxCommits /\ h.admitted + 1 \in Nat
  BY <1>1, HostAssumption DEF Sessions
<1>3. /\ b \in Sessions /\ b.paired = h.paired /\ b.token = h.admitted + 1 /\ b.previous = token
      /\ b.ended = h.ended /\ b.max = h.max /\ b.last = LastC(h) /\ b.pending = h.pending
      /\ b.answers = h.answers /\ b.forgot = h.forgot /\ b.log = h.log
  BY <1>2 DEF Sessions
<1> HIDE DEF b
<1>4. /\ p \in Sessions /\ SameLink(p, b) /\ SameText(p, b) /\ p.pending = b.pending
      /\ p.answers \subseteq b.answers /\ b.forgot \subseteq p.forgot
      /\ IsFiniteSet(p.answers)
      /\ \A a \in b.answers : a.t = "nack" => a \in p.answers \/ a.c \in p.forgot
  BY <1>3, PruneFacts DEF Keeper
<1>5. Admit(h, k, token) = g
  BY DEF Admit, b
<1> HIDE DEF p
<1>6. /\ g \in Sessions /\ g.paired = p.paired /\ g.token = p.token /\ g.previous = p.previous
      /\ g.conn = k /\ g.connLast = 0 /\ g.ended = p.ended
      /\ g.max = p.max /\ g.last = p.last /\ g.pending = p.pending
      /\ g.answers = p.answers /\ g.forgot = p.forgot /\ g.log = p.log
  <2>1. 0 \in 0..MaxCommits /\ k \in Conns \cup {NoConn}
    BY HostAssumption
  <2>2. g \in Sessions
    BY <1>4, <2>1, Zenon DEF Sessions
  <2>3. /\ g.paired = p.paired /\ g.token = p.token /\ g.previous = p.previous
        /\ g.conn = k /\ g.connLast = 0 /\ g.ended = p.ended
        /\ g.max = p.max /\ g.last = p.last /\ g.pending = p.pending
        /\ g.answers = p.answers /\ g.forgot = p.forgot /\ g.log = p.log
    BY <1>4 DEF Sessions
  <2> QED
    BY <2>2, <2>3
<1> HIDE DEF g
<1>7. Keeper(g)
  BY <1>3, <1>4, <1>6 DEF Keeper
<1> QED
  BY <1>1, <1>3, <1>4, <1>5, <1>6, <1>7 DEF SameLink, SameText

LEMMA ConfirmFacts ==
    ASSUME NEW h \in Sessions
    PROVE  LET g == Confirm(h)
           IN  /\ g \in Sessions /\ SameBooks(g, h) /\ SameText(g, h)
               /\ g.paired = h.paired /\ g.token = h.token /\ g.conn = h.conn
               /\ g.connLast = h.connLast /\ g.max = h.max /\ g.last = h.last
               /\ g.ended = h.ended
<1>1. CASE h.confirmed
  BY <1>1 DEF Confirm, SameBooks, SameText
<1>2. CASE ~h.confirmed
  <2>1. Confirm(h) = [h EXCEPT !.confirmed = TRUE, !.previous = NoToken]
    BY <1>2 DEF Confirm
  <2>2. Confirm(h) \in Sessions
    <3>1. NoToken \in Nat
      BY DEF NoToken
    <3> QED
      BY <2>1, <3>1, Zenon DEF Sessions
  <2>3. SameBooks(Confirm(h), h) /\ SameText(Confirm(h), h)
    BY <2>1 DEF Sessions, SameBooks, SameText
  <2>4. LET g == Confirm(h)
        IN  /\ g.paired = h.paired /\ g.token = h.token /\ g.conn = h.conn
            /\ g.connLast = h.connLast /\ g.max = h.max /\ g.last = h.last
            /\ g.ended = h.ended
    BY <2>1 DEF Sessions
  <2> QED
    BY <2>2, <2>3, <2>4
<1> QED
  BY <1>1, <1>2

\* A commit that is not turned down.
LEMMA ReceiveFacts ==
    ASSUME NEW h \in Sessions, NEW c \in Commits
    PROVE  LET g == Receive(h, c)
           IN  /\ g \in Sessions /\ SameText(g, h)
               /\ g.paired = h.paired /\ g.token = h.token /\ g.previous = h.previous
               /\ g.conn = h.conn /\ g.last = h.last /\ g.ended = h.ended
               /\ g.answers = h.answers /\ g.forgot = h.forgot
               /\ g.connLast = c
               /\ g.pending = IF IsNew(h, c) THEN h.pending \cup {c} ELSE h.pending
               /\ g.max = IF IsNew(h, c) /\ c > h.max THEN c ELSE h.max
<1> USE HostAssumption
<1>1. c \in 0..MaxCommits /\ h.max \in 0..MaxCommits /\ h.pending \cup {c} \subseteq Commits
  BY DEF Commits, Sessions
<1>2. Max({h.max, c}) = IF c > h.max THEN c ELSE h.max
  BY <1>1 DEF Max
<1> DEFINE m == IF c > h.max THEN c ELSE h.max
<1>3. m \in 0..MaxCommits
  BY <1>1
<1>4. CASE IsNew(h, c)
  <2>1. Receive(h, c) = [h EXCEPT !.connLast = c, !.max = m, !.pending = @ \cup {c}]
    BY <1>2, <1>4 DEF Receive
  <2> HIDE DEF m
  <2>2. /\ Receive(h, c) \in Sessions /\ SameText(Receive(h, c), h)
        /\ Receive(h, c).pending = h.pending \cup {c} /\ Receive(h, c).max = m
        /\ Receive(h, c).connLast = c
    BY <1>1, <1>3, <2>1 DEF Sessions, SameText
  <2>3. LET g == Receive(h, c)
        IN  /\ g.paired = h.paired /\ g.token = h.token /\ g.previous = h.previous
            /\ g.conn = h.conn /\ g.last = h.last /\ g.ended = h.ended
            /\ g.answers = h.answers /\ g.forgot = h.forgot
    BY <2>1 DEF Sessions
  <2> QED
    BY <1>4, <2>2, <2>3 DEF m
<1>5. CASE ~IsNew(h, c)
  BY <1>1, <1>5 DEF Receive, Sessions, SameText
<1> QED
  BY <1>4, <1>5

LEMMA UnbindFacts ==
    ASSUME NEW h \in Sessions
    PROVE  LET g == Unbind(h)
           IN  /\ g \in Sessions /\ SameText(g, h) /\ g.ended = h.ended
               /\ g.max = h.max /\ g.last = h.last
               /\ g.pending = h.pending /\ g.forgot = h.forgot
               /\ g.conn = NoConn /\ g.connLast = 0 /\ ~g.paired /\ g.answers = {}
<1> USE HostAssumption
<1>1. Unbind(h) =
        [h EXCEPT !.paired = FALSE, !.conn = NoConn, !.token = NoToken,
                  !.previous = NoToken, !.answers = {}, !.confirmed = FALSE,
                  !.connLast = 0]
  BY DEF Unbind
<1>2. Unbind(h) \in Sessions
  <2>1. /\ NoConn \in Conns \cup {NoConn} /\ 0 \in 0..MaxCommits
        /\ NoToken \in Nat /\ {} \in SUBSET Answers
    BY DEF NoToken
  <2> QED
    BY <1>1, <2>1, Zenon DEF Sessions
<1>3. LET g == Unbind(h)
      IN  /\ SameText(g, h) /\ g.ended = h.ended
          /\ g.max = h.max /\ g.last = h.last
          /\ g.pending = h.pending /\ g.forgot = h.forgot
          /\ g.conn = NoConn /\ g.connLast = 0 /\ ~g.paired /\ g.answers = {}
  BY <1>1 DEF Sessions, SameText
<1> QED
  BY <1>2, <1>3

LEMMA ClosedFacts ==
    ASSUME NEW h \in Sessions, NEW k \in Conns, NEW resumable \in BOOLEAN
    PROVE  LET g == Closed(h, k, resumable)
           IN  /\ g \in Sessions /\ SameText(g, h) /\ g.ended = h.ended
               /\ g.max = h.max /\ g.last = h.last
               /\ g.pending = h.pending /\ g.forgot = h.forgot
               /\ g.conn = IF h.conn = k THEN NoConn ELSE h.conn
               /\ g.paired => /\ h.paired /\ g.token = h.token /\ g.previous = h.previous
                              /\ g.answers = h.answers
               /\ g.answers = h.answers \/ g.answers = {}
               /\ g.connLast = IF h.conn = k THEN 0 ELSE h.connLast
               /\ h.conn # k => g = h
<1> USE HostAssumption
<1>1. CASE h.conn # k
  <2>1. Closed(h, k, resumable) = h
    BY <1>1 DEF Closed
  <2> QED
    BY <1>1, <2>1 DEF SameText
<1>2. CASE h.conn = k /\ resumable /\ ~h.ended
  <2>1. Closed(h, k, resumable) = [h EXCEPT !.conn = NoConn, !.connLast = 0, !.confirmed = FALSE]
    BY <1>2 DEF Closed
  <2>2. Closed(h, k, resumable) \in Sessions
    <3>1. NoConn \in Conns \cup {NoConn} /\ 0 \in 0..MaxCommits
      OBVIOUS
    <3> QED
      BY <2>1, <3>1, Zenon DEF Sessions
  <2>3. LET g == Closed(h, k, resumable)
        IN  /\ SameText(g, h) /\ g.ended = h.ended
            /\ g.max = h.max /\ g.last = h.last
            /\ g.pending = h.pending /\ g.forgot = h.forgot
            /\ g.conn = NoConn /\ g.connLast = 0
            /\ g.paired = h.paired /\ g.token = h.token /\ g.previous = h.previous
            /\ g.answers = h.answers
    BY <2>1 DEF Sessions, SameText
  <2> QED
    BY <1>2, <2>2, <2>3
<1>3. CASE h.conn = k /\ ~(resumable /\ ~h.ended)
  <2>1. Closed(h, k, resumable) = Unbind(h)
    BY <1>3 DEF Closed
  <2> QED
    BY <1>3, <2>1, UnbindFacts
<1> QED
  BY <1>1, <1>2, <1>3
-----------------------------------------------------------------------------
(* The invariant.                                                          *)

\* The commits sent on a connection that the host has not read: they rise,
\* and the ones before each of them are in R or before it.
CommitsOf(q) == {m.c : m \in {x \in Range(q) : x.t = "commit"}}
Rising(q) ==
    \A i, j \in 1..Len(q) :
        i < j /\ q[i].t = "commit" /\ q[j].t = "commit" => q[i].c < q[j].c
Following(q, R) ==
    \A i \in 1..Len(q) : q[i].t = "commit" =>
        \A d \in 1..(q[i].c - 1) :
            d \in R \/ \E j \in 1..(i - 1) : q[j].t = "commit" /\ q[j].c = d

Unread(k) == CommitsOf(up[k])
Welcomes(k) == {m \in Range(box[k].items) : m.t = "welcome"}

\* A connection exists from its hello on, and the one in force is open.
Wired ==
    /\ \A k \in Conns :
          /\ serving[k] = "none" <=> k > client.conn
          /\ serving[k] = "none" => up[k] = <<>> /\ box[k] = EmptyBox
          /\ serving[k] = "hello" => /\ box[k] = EmptyBox /\ Len(up[k]) <= 1
                                     /\ \A m \in Range(up[k]) : m.t = "hello"
          /\ WelcomeFirst(box[k].items)
    /\ host.conn # NoConn => serving[host.conn] = "open" /\ host.paired
    /\ client.at = "live" => serving[client.conn] \in {"open", "done"} /\ Welcomes(client.conn) = {}
    /\ client.at = "trying" => /\ serving[client.conn] # "hello" => up[client.conn] = <<>>
                               /\ host.conn = client.conn => host.connLast = 0

\* The counters of commits.
Counted ==
    /\ host.pending \subseteq (host.last + 1)..host.max
    /\ host.last <= host.max /\ host.connLast < client.next /\ host.max < client.next
    /\ client.pending \cup client.out \subseteq 1..(client.next - 1)
    /\ \A k \in Conns : Unread(k) \subseteq 1..(client.next - 1)
    /\ client.lastC <= host.last
    /\ \A k \in Conns : \A m \in Welcomes(k) : m.c <= host.last
    /\ \A m \in Welcomes(client.conn) : client.lastC <= m.c
    /\ client.at = "live" => \A c \in client.pending : c > client.lastC

\* What is on the connection in force follows what was dealt with before.
InOrderOn(k) ==
    /\ \A m \in Welcomes(k) : m.c = host.last
    /\ \A c \in Unread(k) : c > host.last /\ c > host.connLast
    /\ Rising(up[k])
    /\ client.conn = k /\ client.at = "live" =>
          /\ client.lastC = host.last
          /\ \A c \in client.out \cap client.pending :
                c > host.connLast /\ \A d \in Unread(k) : c > d
Ordered ==
    /\ host.conn # NoConn => InOrderOn(host.conn)
    /\ \A k \in Conns : box[k].close # "violation"

\* The tokens, as long as the hellos were read in their order.
Tokens ==
    host.paired /\ ~late =>
        /\ Accepts(host, client.token)
        /\ client.at = "live" => client.token = host.token
        /\ host.conn # NoConn /\ up[host.conn] # <<>> => client.token = host.token
        /\ \A m \in Welcomes(client.conn) : m.n = host.token
        /\ \A k \in Conns :
              serving[k] = "hello" /\ (\A j \in Conns : j > k => serving[j] \notin {"open", "done"})
                  => \A m \in Range(up[k]) : m.c = client.token

\* What is said of a commit is what has happened.
Decided ==
    /\ Sound(shell) /\ AllRight(shell, sending)
    /\ \A m \in host.answers : RightIn(shell, m)
    /\ \A k \in Conns : AllRight(shell, box[k].items)
    /\ \A c \in Commits : RightIn(shell, [t |-> told[c], c |-> c])

\* The events and the end.
Heard ==
    /\ \A e \in Range(events) : e.t = "commit" => e.c \in host.pending \cup shell.answered
    /\ shell.stop \in {"closing", "done"} => host.ended
    /\ shell.stop = "done" =>
          /\ host.pending \subseteq shell.answered
          /\ \A k \in Conns : serving[k] \notin {"hello", "open"}

\* The commits the host has or the shell has answered.
Reached == host.pending \cup shell.answered
Followed ==
    /\ 1..host.last \subseteq shell.answered
    /\ 1..host.max \subseteq Reached
    /\ 1..(client.next - 1) \ client.pending \subseteq shell.answered
    /\ host.conn # NoConn =>
          /\ Following(up[host.conn], Reached)
          /\ client.conn = host.conn /\ client.at = "live" =>
                client.pending \subseteq client.out \cup Reached \cup Unread(host.conn)
Refusals ==
    /\ \A c \in 1..(client.next - 1) \ client.pending :
          /\ c \in host.pending => told[c] # "nothing"
          /\ told[c] = "nothing" => c <= client.lastC
    /\ host.paired =>
          \A c \in shell.refused :
             \/ c \in host.pending \/ c \in host.forgot
             \/ \E a \in host.answers : a.t = "nack" /\ a.c = c

IInv == /\ TypeOK /\ Keeper(host) /\ Wired /\ Counted /\ Ordered /\ Tokens
        /\ Decided /\ Heard /\ Followed /\ Refusals

-----------------------------------------------------------------------------
(* What was sent and not yet read: it gets longer, and is read or lost.    *)

LEMMA CommitIsIn ==
    ASSUME NEW q \in Seq(Uplink)
    PROVE  /\ \A i \in 1..Len(q) : q[i].t = "commit" => q[i].c \in CommitsOf(q)
           /\ \A c \in CommitsOf(q) : c \in Commits /\ \E i \in 1..Len(q) : q[i].t = "commit" /\ q[i].c = c
           /\ \A i \in 1..Len(q) : q[i] \in Uplink /\ (q[i].t = "commit" => q[i].c \in Commits)
           /\ Len(q) \in Nat
           /\ q = <<>> => CommitsOf(q) = {}
<1>1. DOMAIN q = 1..Len(q) /\ Len(q) \in Nat /\ \A i \in 1..Len(q) : q[i] \in Uplink
  BY LenProperties, ElementOfSeq
<1>2. \A m \in Uplink : m.t = "commit" => m.c \in Commits
  BY DEF Uplink
<1>3. q = <<>> => CommitsOf(q) = {}
  <2>1. q = <<>> => Range(q) = {}
    BY RangeIsPart
  <2> QED
    BY <2>1 DEF CommitsOf
<1>4. \A i \in 1..Len(q) : q[i].t = "commit" => q[i].c \in CommitsOf(q)
  BY <1>1 DEF CommitsOf, Range
<1>5. \A c \in CommitsOf(q) : c \in Commits /\ \E i \in 1..Len(q) : q[i].t = "commit" /\ q[i].c = c
  BY <1>1, <1>2 DEF CommitsOf, Range
<1> QED
  BY <1>1, <1>2, <1>3, <1>4, <1>5

LEMMA StillFollowing ==
    ASSUME NEW q, NEW R, NEW S, R \subseteq S, Following(q, R)
    PROVE  Following(q, S)
BY DEF Following

LEMMA SentMore ==
    ASSUME NEW q \in Seq(Uplink), NEW m \in Uplink
    PROVE  LET p == Append(q, m)
           IN  /\ p \in Seq(Uplink) /\ p # <<>> /\ Range(p) = Range(q) \cup {m}
               /\ m.t # "commit" =>
                     /\ CommitsOf(p) = CommitsOf(q) /\ (Rising(q) => Rising(p))
                     /\ \A R : Following(q, R) => Following(p, R)
               /\ m.t = "commit" =>
                     /\ CommitsOf(p) = CommitsOf(q) \cup {m.c}
                     /\ Rising(q) /\ (\A d \in CommitsOf(q) : d < m.c) => Rising(p)
                     /\ \A R : Following(q, R) /\ 1..(m.c - 1) \subseteq R \cup CommitsOf(q)
                                  => Following(p, R)
<1> DEFINE p == Append(q, m)
<1>1. /\ p \in Seq(Uplink) /\ Len(q) \in Nat /\ Len(p) = Len(q) + 1
      /\ \A i \in 1..Len(q) : p[i] = q[i]
      /\ p[Len(q) + 1] = m /\ p # <<>>
  BY AppendProperties, LenProperties
<1>2. Range(p) = Range(q) \cup {m}
  BY AppendRange
<1> HIDE DEF p
<1>3. m.t # "commit" => CommitsOf(p) = CommitsOf(q)
  BY <1>2 DEF CommitsOf
<1>4. m.t = "commit" => CommitsOf(p) = CommitsOf(q) \cup {m.c}
  BY <1>2 DEF CommitsOf
<1>5. ASSUME Rising(q), m.t = "commit" => \A d \in CommitsOf(q) : d < m.c
      PROVE  Rising(p)
  <2> SUFFICES ASSUME NEW i \in 1..Len(p), NEW j \in 1..Len(p), i < j,
                      p[i].t = "commit", p[j].t = "commit"
               PROVE  p[i].c < p[j].c
    BY DEF Rising
  <2>1. i \in 1..Len(q) /\ p[i] = q[i] /\ q[i].c \in CommitsOf(q)
    BY <1>1, CommitIsIn
  <2>2. CASE j \in 1..Len(q)
    BY <1>1, <1>5, <2>1, <2>2 DEF Rising
  <2>3. CASE j \notin 1..Len(q)
    <3>1. j = Len(q) + 1
      BY <1>1, <2>3
    <3> QED
      BY <1>1, <1>5, <2>1, <3>1
  <2> QED
    BY <2>2, <2>3
<1>6. ASSUME NEW R, Following(q, R), m.t = "commit" => 1..(m.c - 1) \subseteq R \cup CommitsOf(q)
      PROVE  Following(p, R)
  <2> SUFFICES ASSUME NEW i \in 1..Len(p), p[i].t = "commit", NEW d \in 1..(p[i].c - 1), d \notin R
               PROVE  \E j \in 1..(i - 1) : p[j].t = "commit" /\ p[j].c = d
    BY DEF Following
  <2>1. CASE i \in 1..Len(q)
    <3>1. q[i].t = "commit" /\ d \in 1..(q[i].c - 1)
      BY <1>1, <2>1
    <3>2. PICK j \in 1..(i - 1) : q[j].t = "commit" /\ q[j].c = d
      BY <1>6, <2>1, <3>1 DEF Following
    <3>3. p[j] = q[j]
      BY <1>1, <2>1
    <3> QED
      BY <3>2, <3>3
  <2>2. CASE i \notin 1..Len(q)
    <3>1. i = Len(q) + 1
      BY <1>1, <2>2
    <3>2. m.t = "commit" /\ d \in 1..(m.c - 1)
      BY <1>1, <3>1
    <3>3. d \in CommitsOf(q)
      BY <1>6, <3>2
    <3>4. PICK j \in 1..Len(q) : q[j].t = "commit" /\ q[j].c = d
      BY <3>3, CommitIsIn
    <3>5. j \in 1..(i - 1) /\ p[j] = q[j]
      BY <1>1, <3>1
    <3> QED
      BY <3>4, <3>5
  <2> QED
    BY <2>1, <2>2
<1> QED
  BY <1>1, <1>2, <1>3, <1>4, <1>5, <1>6 DEF p

LEMMA ReadOne ==
    ASSUME NEW q \in Seq(Uplink), q # <<>>
    PROVE  LET p == Tail(q)
               m == Head(q)
           IN  /\ p \in Seq(Uplink) /\ m \in Uplink /\ m \in Range(q)
               /\ Range(p) \subseteq Range(q) /\ Len(p) = Len(q) - 1 /\ Len(q) \in Nat
               /\ CommitsOf(p) \subseteq CommitsOf(q) /\ CommitsOf(q) \subseteq CommitsOf(p) \cup {m.c}
               /\ m.t # "commit" => CommitsOf(q) \subseteq CommitsOf(p)
               /\ m.t = "commit" => m.c \in CommitsOf(q) /\ m.c \in Commits
               /\ Rising(q) => /\ Rising(p)
                               /\ m.t = "commit" => \A c \in CommitsOf(p) : c > m.c
               /\ \A R : Following(q, R) =>
                     /\ m.t = "commit" => 1..(m.c - 1) \subseteq R
                     /\ Following(p, R \cup {m.c})
                     /\ m.t # "commit" => Following(p, R)
<1> DEFINE p == Tail(q)
<1> DEFINE m == Head(q)
<1>1. /\ p \in Seq(Uplink) /\ Len(q) \in Nat /\ Len(p) = Len(q) - 1 /\ Len(q) >= 1
      /\ \A i \in 1..Len(p) : p[i] = q[i + 1]
      /\ m = q[1]
  BY HeadTailProperties, EmptySeq, LenProperties
<1>2. Range(p) \subseteq Range(q) /\ m \in Uplink /\ m \in Range(q)
  BY HeadAndTail
<1> HIDE DEF p, m
<1>3. CommitsOf(p) \subseteq CommitsOf(q)
  BY <1>2 DEF CommitsOf
<1>4. m.t = "commit" => m.c \in CommitsOf(q) /\ m.c \in Commits
  BY <1>1, CommitIsIn
<1>9. ASSUME NEW c \in CommitsOf(q), c \notin CommitsOf(p)
      PROVE  m.t = "commit" /\ m.c = c
  <2>1. PICK i \in 1..Len(q) : q[i].t = "commit" /\ q[i].c = c
    BY <1>9, CommitIsIn
  <2>2. i # 1 => i - 1 \in 1..Len(p) /\ p[i - 1] = q[i]
    BY <1>1
  <2>3. i = 1
    BY <1>1, <1>9, <2>1, <2>2, CommitIsIn
  <2> QED
    BY <1>1, <2>1, <2>3
<1>5. ASSUME Rising(q)
      PROVE  Rising(p) /\ (m.t = "commit" => \A c \in CommitsOf(p) : c > m.c)
  <2>1. ASSUME NEW i \in 1..Len(p), NEW j \in 1..Len(p), i < j,
               p[i].t = "commit", p[j].t = "commit"
        PROVE  p[i].c < p[j].c
    <3>1. i + 1 \in 1..Len(q) /\ j + 1 \in 1..Len(q) /\ i + 1 < j + 1
      BY <1>1, <2>1
    <3>2. p[i] = q[i + 1] /\ p[j] = q[j + 1]
      BY <1>1
    <3> QED
      BY <1>5, <2>1, <3>1, <3>2 DEF Rising
  <2>2. ASSUME m.t = "commit", NEW c \in CommitsOf(p) PROVE c > m.c
    <3>1. PICK i \in 1..Len(p) : p[i].t = "commit" /\ p[i].c = c
      BY <1>1, CommitIsIn
    <3>2. i + 1 \in 1..Len(q) /\ 1 \in 1..Len(q) /\ 1 < i + 1
      BY <1>1
    <3>3. q[i + 1].t = "commit" /\ q[i + 1].c = c /\ q[1].t = "commit" /\ q[1].c = m.c
      BY <1>1, <2>2, <3>1
    <3>4. q[1].c < q[i + 1].c
      BY <1>5, <3>2, <3>3 DEF Rising
    <3>5. m.c \in Commits /\ c \in Commits /\ Commits \subseteq Int
      BY <1>1, <1>4, <2>2, CommitIsIn DEF Commits
    <3> QED
      BY <3>3, <3>4, <3>5
  <2> QED
    BY <2>1, <2>2 DEF Rising
<1>6. ASSUME NEW R, Following(q, R), m.t = "commit" PROVE 1..(m.c - 1) \subseteq R
  <2> SUFFICES ASSUME NEW d \in 1..(m.c - 1), d \notin R PROVE FALSE
    OBVIOUS
  <2>1. 1 \in 1..Len(q) /\ q[1].t = "commit" /\ d \in 1..(q[1].c - 1)
    BY <1>1, <1>6
  <2>2. \E j \in 1..(1 - 1) : q[j].t = "commit" /\ q[j].c = d
    BY <1>6, <2>1 DEF Following
  <2> QED
    BY <2>2
<1>7. ASSUME NEW R, NEW S, R \subseteq S, m.t = "commit" => m.c \in S, Following(q, R)
      PROVE  Following(p, S)
  <2> SUFFICES ASSUME NEW i \in 1..Len(p), p[i].t = "commit", NEW d \in 1..(p[i].c - 1), d \notin S
               PROVE  \E j \in 1..(i - 1) : p[j].t = "commit" /\ p[j].c = d
    BY DEF Following
  <2>1. i + 1 \in 1..Len(q) /\ q[i + 1].t = "commit" /\ d \in 1..(q[i + 1].c - 1) /\ d \notin R
    BY <1>1, <1>7
  <2>2. PICK j \in 1..(i + 1 - 1) : q[j].t = "commit" /\ q[j].c = d
    BY <1>7, <2>1 DEF Following
  <2>3. j # 1
    BY <1>1, <1>7, <2>2
  <2>4. j - 1 \in 1..Len(p) /\ j - 1 \in 1..(i - 1) /\ p[j - 1] = q[j]
    BY <1>1, <2>3
  <2> QED
    BY <2>2, <2>4
<1>8. ASSUME NEW R, Following(q, R)
      PROVE  Following(p, R \cup {m.c}) /\ (m.t # "commit" => Following(p, R))
  BY <1>7, <1>8
<1> QED
  BY <1>1, <1>2, <1>3, <1>4, <1>5, <1>6, <1>8, <1>9 DEF p, m

LEMMA LostAnEnd ==
    ASSUME NEW q \in Seq(Uplink), NEW n \in 0..Len(q)
    PROVE  LET p == SubSeq(q, 1, n)
           IN  /\ p \in Seq(Uplink) /\ Range(p) \subseteq Range(q)
               /\ Len(p) \in Nat /\ Len(p) <= Len(q) /\ (q = <<>> => p = <<>>)
               /\ CommitsOf(p) \subseteq CommitsOf(q)
               /\ Rising(q) => Rising(p)
               /\ \A R : Following(q, R) => Following(p, R)
<1> DEFINE p == SubSeq(q, 1, n)
<1>1. Len(q) \in Nat /\ n \in Nat /\ n <= Len(q)
  BY LenProperties
<1>2. p \in Seq(Uplink) /\ Range(p) \subseteq Range(q)
  <2>1. 0 \in Nat /\ 0 + 1 = 1
    OBVIOUS
  <2> QED
    BY <1>1, <2>1, PartOfRange
<1>3. Len(p) = n /\ \A i \in 1..n : p[i] = q[i]
  BY <1>1, SubSeqProperties
<1>4. q = <<>> => p = <<>>
  BY <1>1, <1>2, <1>3, EmptySeq
<1> HIDE DEF p
<1>5. CommitsOf(p) \subseteq CommitsOf(q)
  BY <1>2 DEF CommitsOf
<1>6. Rising(q) => Rising(p)
  BY <1>1, <1>3 DEF Rising
<1>7. ASSUME NEW R, Following(q, R) PROVE Following(p, R)
  <2> SUFFICES ASSUME NEW i \in 1..Len(p), p[i].t = "commit", NEW d \in 1..(p[i].c - 1), d \notin R
               PROVE  \E j \in 1..(i - 1) : p[j].t = "commit" /\ p[j].c = d
    BY DEF Following
  <2>1. i \in 1..Len(q) /\ q[i].t = "commit" /\ d \in 1..(q[i].c - 1)
    BY <1>1, <1>3
  <2>2. PICK j \in 1..(i - 1) : q[j].t = "commit" /\ q[j].c = d
    BY <1>7, <2>1 DEF Following
  <2>3. p[j] = q[j]
    BY <1>1, <1>3
  <2> QED
    BY <2>2, <2>3
<1> QED
  BY <1>1, <1>2, <1>3, <1>4, <1>5, <1>6, <1>7 DEF p

-----------------------------------------------------------------------------
(* The steps of the client.                                                *)

LEMMA Fields ==
    ASSUME TypeOK
    PROVE  /\ client.at \in {"live", "trying", "out", "ended"} /\ client.conn \in Conns
           /\ client.token \in Nat /\ client.next \in 1..(MaxCommits + 1)
           /\ client.pending \subseteq Commits /\ client.out \subseteq Commits
           /\ client.lastC \in 0..MaxCommits
           /\ host.conn \in Conns \cup {NoConn} /\ host.token \in Nat /\ host.previous \in Nat
           /\ host.connLast \in 0..MaxCommits /\ host.max \in 0..MaxCommits
           /\ host.last \in 0..MaxCommits /\ host.answers \subseteq Answers
           /\ host.pending \subseteq Commits /\ host.forgot \subseteq Commits
           /\ shell.answered \subseteq Commits /\ shell.refused \subseteq Commits
           /\ Conns \subseteq Nat \ {0} /\ Commits \subseteq Nat \ {0} /\ NoConn \notin Conns
           /\ MaxCommits \in Nat
<1>1. client \in Clients /\ host \in Sessions /\ shell \in Shells
  BY DEF TypeOK
<1>2. /\ client.at \in {"live", "trying", "out", "ended"} /\ client.conn \in Conns
      /\ client.token \in Nat /\ client.next \in 1..(MaxCommits + 1)
      /\ client.pending \subseteq Commits /\ client.out \subseteq Commits
      /\ client.lastC \in 0..MaxCommits
  BY <1>1 DEF Clients
<1>3. /\ host.conn \in Conns \cup {NoConn} /\ host.token \in Nat /\ host.previous \in Nat
      /\ host.connLast \in 0..MaxCommits /\ host.max \in 0..MaxCommits
      /\ host.last \in 0..MaxCommits /\ host.answers \subseteq Answers
      /\ host.pending \subseteq Commits /\ host.forgot \subseteq Commits
  BY <1>1 DEF Sessions
<1>4. shell.answered \subseteq Commits /\ shell.refused \subseteq Commits
  BY <1>1 DEF Shells
<1>5. /\ Conns \subseteq Nat \ {0} /\ Commits \subseteq Nat \ {0} /\ NoConn \notin Conns
      /\ MaxCommits \in Nat
  BY HostAssumption DEF Conns, Commits, NoConn
<1> QED
  BY <1>2, <1>3, <1>4, <1>5

LEMMA CommitKeeps ==
    ASSUME IInv, Commit
    PROVE  IInv'
<1> USE DEF IInv
<1> DEFINE n == client.next
<1>1. /\ n <= bound.commits /\ client.at # "ended"
      /\ client' = [client EXCEPT !.next = n + 1, !.pending = @ \cup {n},
                                  !.out = IF client.at = "live" THEN @ \cup {n} ELSE @]
      /\ UNCHANGED <<up, serving, box, host, events, shell, sending, told, late, bound>>
  BY DEF Commit, wire, desk, history
<1>2. bound.commits \in 0..MaxCommits
  BY BoundsAssumption DEF TypeOK
<1>3. n \in Commits /\ n + 1 \in 1..(MaxCommits + 1)
  BY <1>1, <1>2, Fields DEF Commits
<1>4. client' \in Clients
  <2>1. client.pending \cup {n} \in SUBSET Commits /\ client.out \cup {n} \in SUBSET Commits
    BY <1>3, Fields
  <2> QED
    BY <1>1, <1>3, <2>1, Zenon DEF TypeOK, Clients
<1>5. /\ client'.next = n + 1 /\ client'.pending = client.pending \cup {n}
      /\ client'.out = IF client.at = "live" THEN client.out \cup {n} ELSE client.out
      /\ client'.at = client.at /\ client'.conn = client.conn /\ client'.token = client.token
      /\ client'.lastC = client.lastC
  BY <1>1 DEF TypeOK, Clients
<1>6. TypeOK'
  BY <1>1, <1>4 DEF TypeOK
<1>7. Wired'
  BY <1>1, <1>5 DEF Wired, Welcomes
<1>8. Counted'
  BY <1>1, <1>3, <1>5, Fields DEF Counted, Unread, Welcomes
<1>9. Ordered'
  <2>1. ASSUME host.conn # NoConn, client'.conn = host.conn, client'.at = "live",
               NEW c \in client'.out \cap client'.pending
        PROVE  c > host.connLast /\ \A d \in Unread(host.conn) : c > d
    <3>1. CASE c = n
      <4>1. host.conn \in Conns /\ Unread(host.conn) \subseteq 1..(n - 1) /\ host.connLast < n
        BY <2>1, Fields DEF Counted
      <4> QED
        BY <1>3, <3>1, <4>1, Fields
    <3>2. CASE c # n
      BY <1>5, <2>1, <3>2 DEF Ordered, InOrderOn
    <3> QED
      BY <3>1, <3>2
  <2> QED
    BY <1>1, <1>5, <2>1 DEF Ordered, InOrderOn, Unread, Welcomes
<1>10. Tokens'
  BY <1>1, <1>5 DEF Tokens, Welcomes, Accepts
<1>11. Decided' /\ Heard' /\ Keeper(host)'
  BY <1>1 DEF Decided, Heard, Keeper, AllRight, RightIn
<1>12. (1..(client.next - 1) \ client.pending)' = 1..(client.next - 1) \ client.pending
  BY <1>3, <1>5, Fields DEF Counted
<1>13. Followed'
  BY <1>1, <1>5, <1>12, Fields DEF Followed, Reached, Unread
<1>14. Refusals'
  BY <1>1, <1>5, <1>12 DEF Refusals
<1> QED
  BY <1>6, <1>7, <1>8, <1>9, <1>10, <1>11, <1>13, <1>14

\* What a live client sends follows what it has sent, or goes nowhere.
LEMMA SentFacts ==
    ASSUME TypeOK, Wired, client.at = "live", NEW m \in Uplink, up' = Sent(m)
    PROVE  LET k == client.conn
           IN  /\ up' \in [Conns -> Seq(Uplink)] /\ up[k] \in Seq(Uplink)
               /\ \A j \in Conns : j # k => up'[j] = up[j]
               /\ \/ serving[k] = "done" /\ up' = up
                  \/ serving[k] = "open" /\ up'[k] = Append(up[k], m)
<1> DEFINE k == client.conn
<1>1. k \in Conns /\ up \in [Conns -> Seq(Uplink)] /\ serving[k] \in {"open", "done"}
  BY Fields DEF TypeOK, Wired
<1>2. CASE serving[k] = "done"
  BY <1>1, <1>2 DEF Sent
<1>3. CASE serving[k] # "done"
  <2> DEFINE q == Append(up[k], m)
  <2>1. up' = [up EXCEPT ![k] = q]
    BY <1>3 DEF Sent
  <2>2. q \in Seq(Uplink)
    BY <1>1, AppendProperties
  <2> HIDE DEF q
  <2>3. up' \in [Conns -> Seq(Uplink)] /\ up'[k] = q /\ \A j \in Conns : j # k => up'[j] = up[j]
    BY <1>1, <2>1, <2>2
  <2> QED
    BY <1>1, <1>3, <2>3 DEF q
<1> QED
  BY <1>2, <1>3

\* Any other message than a commit.
LEMMA ChatterKeeps ==
    ASSUME IInv, client.at = "live", NEW m \in Uplink, m.t \in {"quiet", "bye"}, up' = Sent(m),
           client' \in Clients, client'.conn = client.conn, client'.token = client.token,
           client'.next = client.next, client'.pending = client.pending,
           client'.lastC = client.lastC,
           \/ client'.at = client.at /\ client'.out = client.out
           \/ client'.at = "ended" /\ client'.out = {},
           UNCHANGED <<serving, box, host, events, shell, sending, told, late, bound>>
    PROVE  IInv'
<1> USE DEF IInv
<1> DEFINE k == client.conn
<1>1. /\ up' \in [Conns -> Seq(Uplink)] /\ up[k] \in Seq(Uplink)
      /\ \A j \in Conns : j # k => up'[j] = up[j]
      /\ \/ serving[k] = "done" /\ up' = up
         \/ serving[k] = "open" /\ up'[k] = Append(up[k], m)
  BY SentFacts
<1>2. k \in Conns
  BY Fields
<1>3. LET p == Append(up[k], m)
      IN  /\ p # <<>> /\ Range(p) = Range(up[k]) \cup {m} /\ CommitsOf(p) = CommitsOf(up[k])
          /\ Rising(up[k]) => Rising(p)
          /\ \A R : Following(up[k], R) => Following(p, R)
  BY <1>1, SentMore
<1>4. \A j \in Conns :
          /\ Unread(j)' = Unread(j)
          /\ Rising(up[j]) => Rising(up'[j])
          /\ \A R : Following(up[j], R) => Following(up'[j], R)
  BY <1>1, <1>3 DEF Unread
<1>5. TypeOK'
  BY <1>1 DEF TypeOK
<1>6. Wired'
  BY <1>1, <1>3 DEF Wired, Welcomes
<1>7. Counted'
  BY <1>4 DEF Counted, Welcomes
<1>8. host.conn # NoConn => host.conn \in Conns
  BY Fields
<1>9. Ordered'
  BY <1>4, <1>8 DEF Ordered, InOrderOn, Welcomes
<1>10. Tokens'
  BY <1>1, <1>2 DEF Tokens, Welcomes, Accepts, Wired
<1>11. Decided' /\ Heard' /\ Keeper(host)'
  BY DEF Decided, Heard, Keeper, AllRight, RightIn
<1>12. Followed'
  BY <1>4, <1>8 DEF Followed, Reached
<1>13. Refusals'
  BY DEF Refusals
<1> QED
  BY <1>5, <1>6, <1>7, <1>9, <1>10, <1>11, <1>12, <1>13

LEMMA SendOtherKeeps ==
    ASSUME IInv, SendOther
    PROVE  IInv'
<1>1. Quiet \in Uplink /\ Quiet.t = "quiet"
  BY DEF Quiet, Uplink
<1>2. /\ client.at = "live" /\ up' = Sent(Quiet) /\ client' = [client EXCEPT !.spoke = TRUE]
      /\ UNCHANGED <<serving, box, host, events, shell, sending, told, late, bound>>
  BY DEF SendOther, desk, history
<1>3. client' \in Clients
  BY <1>2, Zenon DEF IInv, TypeOK, Clients
<1>4. /\ client'.conn = client.conn /\ client'.token = client.token
      /\ client'.next = client.next /\ client'.pending = client.pending
      /\ client'.lastC = client.lastC /\ client'.at = client.at /\ client'.out = client.out
  BY <1>2 DEF IInv, TypeOK, Clients
<1> QED
  BY <1>1, <1>2, <1>3, <1>4, ChatterKeeps

LEMMA LeaveKeeps ==
    ASSUME IInv, Leave
    PROVE  IInv'
<1> DEFINE m == [t |-> "bye", c |-> 0]
<1>1. m \in Uplink /\ m.t = "bye"
  BY DEF Uplink
<1>2. /\ client.at = "live" /\ up' = Sent(m)
      /\ client' = [client EXCEPT !.at = "ended", !.out = {}, !.spoke = FALSE]
      /\ UNCHANGED <<serving, box, host, events, shell, sending, told, late, bound>>
  BY DEF Leave, desk, history
<1>3. client' \in Clients
  BY <1>2, Zenon DEF IInv, TypeOK, Clients
<1>4. /\ client'.conn = client.conn /\ client'.token = client.token
      /\ client'.next = client.next /\ client'.pending = client.pending
      /\ client'.lastC = client.lastC /\ client'.at = "ended" /\ client'.out = {}
  BY <1>2 DEF IInv, TypeOK, Clients
<1> HIDE DEF m
<1> QED
  BY <1>1, <1>2, <1>3, <1>4, ChatterKeeps

\* A commit goes behind the ones before it: those that are sent, and those
\* that were answered.
LEMMA SendCommitKeeps ==
    ASSUME IInv, SendCommit
    PROVE  IInv'
<1> USE DEF IInv
<1>0. PICK k \in Conns : k = client.conn
  BY Fields
<1> DEFINE c == Min(client.out \cap client.pending)
<1> DEFINE m == [t |-> "commit", c |-> c]
<1>1. /\ client.at = "live" /\ client.out \cap client.pending # {}
      /\ client' = [client EXCEPT !.out = @ \ {c}, !.spoke = TRUE] /\ up' = Sent(m)
      /\ UNCHANGED <<serving, box, host, events, shell, sending, told, late, bound>>
  BY DEF SendCommit, desk, history
<1>2. /\ c \in client.out \cap client.pending /\ c \in Commits
      /\ \A d \in client.out \cap client.pending : c <= d
  <2>1. client.out \cap client.pending \subseteq Nat
    BY Fields
  <2> QED
    BY <1>1, <2>1, First, Fields
<1> HIDE DEF c
<1>3. client' \in Clients
  <2>1. client.out \ {c} \in SUBSET Commits
    BY Fields
  <2> QED
    BY <1>1, <2>1, Zenon DEF TypeOK, Clients
<1>4. /\ client'.conn = k /\ client'.token = client.token /\ client'.at = "live"
      /\ client'.next = client.next /\ client'.pending = client.pending
      /\ client'.lastC = client.lastC /\ client'.out = client.out \ {c}
  BY <1>0, <1>1 DEF TypeOK, Clients
<1>5. m \in Uplink /\ m.t = "commit" /\ m.c = c
  BY <1>2 DEF Uplink
<1> HIDE DEF m
<1>6. /\ up' \in [Conns -> Seq(Uplink)] /\ up[k] \in Seq(Uplink)
      /\ \A j \in Conns : j # k => up'[j] = up[j]
      /\ \/ serving[k] = "done" /\ up' = up
         \/ serving[k] = "open" /\ up'[k] = Append(up[k], m)
  BY <1>0, <1>1, <1>5, SentFacts
<1>8. LET p == Append(up[k], m)
      IN  /\ p # <<>> /\ Range(p) = Range(up[k]) \cup {m} /\ CommitsOf(p) = CommitsOf(up[k]) \cup {c}
          /\ Rising(up[k]) /\ (\A d \in CommitsOf(up[k]) : d < c) => Rising(p)
          /\ \A R : Following(up[k], R) /\ 1..(c - 1) \subseteq R \cup CommitsOf(up[k])
                       => Following(p, R)
  BY <1>5, <1>6, SentMore
<1>9. \A j \in Conns : Unread(j) \subseteq Unread(j)' /\ Unread(j)' \subseteq Unread(j) \cup {c}
  BY <1>6, <1>8 DEF Unread
<1>10. TypeOK'
  BY <1>1, <1>3, <1>6 DEF TypeOK
<1>11. Wired'
  BY <1>0, <1>1, <1>4, <1>6, <1>8 DEF Wired, Welcomes
<1>12. Counted'
  BY <1>0, <1>1, <1>2, <1>4, <1>9 DEF Counted, Welcomes
<1>13. ASSUME host.conn # NoConn
       PROVE  InOrderOn(host.conn)' /\ Following(up'[host.conn], Reached)
  <2>1. host.conn \in Conns /\ serving[host.conn] = "open"
    BY <1>13, Fields DEF Wired
  <2>2. InOrderOn(host.conn) /\ Following(up[host.conn], Reached)
    BY <1>13 DEF Ordered, Followed
  <2>3. CASE host.conn # k
    <3>1. up'[host.conn] = up[host.conn]
      BY <1>6, <2>1, <2>3
    <3> QED
      BY <1>0, <1>1, <1>4, <2>2, <2>3, <3>1 DEF InOrderOn, Unread, Welcomes
  <2>4. CASE host.conn = k
    <3>1. up'[k] = Append(up[k], m) /\ Unread(k)' = Unread(k) \cup {c}
      BY <1>6, <1>8, <2>1, <2>4 DEF Unread
    <3>2. c > host.connLast /\ c > host.last /\ \A d \in Unread(k) : c > d
      BY <1>0, <1>1, <1>2, <2>2, <2>4 DEF InOrderOn, Counted
    <3>3. Unread(k) \subseteq Commits /\ Commits \subseteq Int
      BY <1>6, CommitIsIn DEF Unread, Commits
    <3>4. Rising(up'[k])
      <4>1. \A d \in CommitsOf(up[k]) : d < c
        BY <1>2, <3>2, <3>3 DEF Unread
      <4> QED
        BY <1>8, <2>2, <2>4, <3>1, <4>1 DEF InOrderOn
    <3>5. \A d \in client'.out \cap client'.pending : d > c /\ d > host.connLast
                                                     /\ \A e \in Unread(k) : d > e
      <4>1. client.out \subseteq Int /\ c \in Int
        BY <1>2, Fields
      <4> QED
        BY <1>0, <1>1, <1>2, <1>4, <2>2, <2>4, <4>1 DEF InOrderOn
    <3>6. InOrderOn(k)'
      BY <1>0, <1>1, <1>4, <2>2, <2>4, <3>1, <3>2, <3>4, <3>5 DEF InOrderOn, Welcomes
    <3>7. 1..(c - 1) \subseteq Reached \cup CommitsOf(up[k])
      <4> SUFFICES ASSUME NEW d \in 1..(c - 1), d \notin Reached PROVE d \in Unread(k)
        BY DEF Unread
      <4>1. d \in 1..(client.next - 1)
        BY <1>2, Fields DEF Counted
      <4>2. d \in client.pending
        BY <4>1 DEF Followed, Reached
      <4>3. d \notin client.out
        BY <1>2, <4>2, Fields
      <4> QED
        BY <1>0, <1>1, <1>13, <2>4, <4>2, <4>3 DEF Followed
    <3>8. Following(up'[k], Reached)
      BY <1>8, <2>2, <2>4, <3>1, <3>7
    <3> QED
      BY <1>1, <2>4, <3>6, <3>8
  <2> QED
    BY <2>3, <2>4
<1>14. Ordered'
  BY <1>1, <1>13 DEF Ordered
<1>15. Tokens'
  BY <1>0, <1>1, <1>4, <1>6 DEF Tokens, Welcomes, Accepts, Wired
<1>16. Decided' /\ Heard' /\ Keeper(host)'
  BY <1>1 DEF Decided, Heard, Keeper, AllRight, RightIn
<1>17. Followed'
  <2>1. ASSUME host.conn # NoConn, client.conn = host.conn
        PROVE  client.pending \subseteq client'.out \cup Reached \cup Unread(host.conn)'
    <3>1. serving[k] = "open"
      BY <1>0, <2>1 DEF Wired
    <3>2. Unread(k)' = Unread(k) \cup {c}
      BY <1>6, <1>8, <3>1 DEF Unread
    <3> QED
      BY <1>0, <1>1, <1>4, <2>1, <3>2 DEF Followed
  <2> QED
    BY <1>1, <1>4, <1>13, <2>1 DEF Followed, Reached
<1>18. Refusals'
  BY <1>1, <1>4 DEF Refusals
<1> QED
  BY <1>10, <1>11, <1>12, <1>14, <1>15, <1>16, <1>17, <1>18

\* What is left of a connection when its end is lost.
LessSent(p, q) ==
    /\ p \in Seq(Uplink) /\ Range(p) \subseteq Range(q) /\ Len(p) <= Len(q) /\ Len(p) \in Nat
    /\ q = <<>> => p = <<>>
    /\ CommitsOf(p) \subseteq CommitsOf(q) /\ (Rising(q) => Rising(p))
    /\ \A R : Following(q, R) => Following(p, R)
LessQueued(a, b) ==
    /\ a \in Boxes /\ Range(a.items) \subseteq Range(b.items) /\ Len(a.items) <= OutboxItems
    /\ b = EmptyBox => a = EmptyBox
    /\ WelcomeFirst(b.items) => WelcomeFirst(a.items)
    /\ a.close = b.close

LEMMA NothingLess ==
    ASSUME TypeOK
    PROVE  \A k \in Conns : LessSent(up[k], up[k]) /\ LessQueued(box[k], box[k])
<1> SUFFICES ASSUME NEW k \in Conns PROVE LessSent(up[k], up[k]) /\ LessQueued(box[k], box[k])
  OBVIOUS
<1>1. up[k] \in Seq(Uplink) /\ Len(up[k]) \in Nat
  BY LenProperties DEF TypeOK
<1>2. LessSent(up[k], up[k])
  BY <1>1 DEF LessSent
<1>3. box[k] \in Boxes /\ Len(box[k].items) <= OutboxItems
  BY DEF TypeOK
<1>4. LessQueued(box[k], box[k])
  BY <1>3 DEF LessQueued
<1> QED
  BY <1>2, <1>4

\* The client is out, or has ended.
LEMMA AwayKeeps ==
    ASSUME IInv, client' \in Clients, client'.at \in {"out", "ended"},
           client'.conn = client.conn, client'.token = client.token,
           client'.next = client.next, client'.pending = client.pending,
           client'.lastC = client.lastC, client'.out \subseteq client.out,
           up' \in [Conns -> Seq(Uplink)], \A k \in Conns : LessSent(up'[k], up[k]),
           box' \in [Conns -> Boxes], \A k \in Conns : LessQueued(box'[k], box[k]),
           UNCHANGED <<serving, host, events, shell, sending, told, late, bound>>
    PROVE  IInv'
<1> USE DEF IInv
<1>1. \A k \in Conns : Unread(k)' \subseteq Unread(k) /\ Welcomes(k)' \subseteq Welcomes(k)
  BY DEF LessSent, LessQueued, Unread, Welcomes
<1>2. TypeOK'
  BY DEF TypeOK, LessQueued
<1>3. Wired'
  <2>1. \A k \in Conns : up[k] \in Seq(Uplink) /\ Len(up[k]) \in Nat
    BY LenProperties DEF TypeOK
  <2> QED
    BY <1>1, <2>1 DEF Wired, LessSent, LessQueued
<1>4. host.conn # NoConn => host.conn \in Conns
  BY Fields
<1>5. client.conn \in Conns
  BY Fields
<1>6. Counted'
  BY <1>1, <1>5 DEF Counted
<1>7. Ordered'
  BY <1>1, <1>4 DEF Ordered, InOrderOn, LessSent, LessQueued
<1>8. Tokens'
  <2>1. host.conn # NoConn /\ up'[host.conn] # <<>> => up[host.conn] # <<>>
    BY <1>4 DEF LessSent
  <2> QED
    BY <1>1, <1>5, <2>1 DEF Tokens, Accepts, LessSent
<1>9. Decided'
  BY DEF Decided, AllRight, LessQueued
<1>10. Heard' /\ Keeper(host)'
  BY DEF Heard, Keeper
<1>11. Followed'
  BY <1>4 DEF Followed, Reached, LessSent
<1>12. Refusals'
  BY DEF Refusals
<1> QED
  BY <1>2, <1>3, <1>6, <1>7, <1>8, <1>9, <1>10, <1>11, <1>12

LEMMA LoseKeeps ==
    ASSUME IInv, Lose
    PROVE  IInv'
<1>0. PICK k \in Conns : k = client.conn
  BY Fields DEF IInv
<1>1. PICK n \in 0..Len(up[k]) : up' = [up EXCEPT ![k] = SubSeq(@, 1, n)]
  BY <1>0 DEF Lose
<1>2. /\ client' = [client EXCEPT !.at = "out", !.out = {}, !.spoke = FALSE]
      /\ box' = [box EXCEPT ![k].items = <<>>]
      /\ UNCHANGED <<serving, host, events, shell, sending, told, late, bound>>
  BY <1>0 DEF Lose, desk, history
<1>3. client' \in Clients
  BY <1>2, Zenon DEF IInv, TypeOK, Clients
<1>4. /\ client'.at = "out" /\ client'.conn = client.conn /\ client'.token = client.token
      /\ client'.next = client.next /\ client'.pending = client.pending
      /\ client'.lastC = client.lastC /\ client'.out \subseteq client.out
  BY <1>2 DEF IInv, TypeOK, Clients
<1>5. \A j \in Conns : LessSent(up[j], up[j]) /\ LessQueued(box[j], box[j])
  BY NothingLess DEF IInv
<1>6. up \in [Conns -> Seq(Uplink)] /\ box \in [Conns -> Boxes]
  BY DEF IInv, TypeOK
<1>7. LessSent(SubSeq(up[k], 1, n), up[k])
  BY <1>6, LostAnEnd DEF LessSent
<1>8. up' \in [Conns -> Seq(Uplink)] /\ \A j \in Conns : LessSent(up'[j], up[j])
  <2> DEFINE p == SubSeq(up[k], 1, n)
  <2>1. up' = [up EXCEPT ![k] = p] /\ LessSent(p, up[k]) /\ p \in Seq(Uplink)
    BY <1>1, <1>7 DEF LessSent
  <2> HIDE DEF p
  <2> QED
    BY <1>5, <1>6, <2>1
<1>9. box' \in [Conns -> Boxes] /\ \A j \in Conns : LessQueued(box'[j], box[j])
  <2> DEFINE b == [box[k] EXCEPT !.items = <<>>]
  <2>1. <<>> \in Seq(Messages) /\ Range(<<>>) = {} /\ Len(<<>>) = 0
    BY EmptySeq, RangeIsPart
  <2>2. b \in Boxes /\ b.items = <<>> /\ b.close = box[k].close
    BY <1>6, <2>1 DEF Boxes
  <2>3. box[k] = EmptyBox => b = EmptyBox
    BY DEF EmptyBox
  <2>4. box' = [box EXCEPT ![k] = b]
    BY <1>2, <1>6
  <2> HIDE DEF b
  <2>5. LessQueued(b, box[k])
    BY <2>1, <2>2, <2>3, HostAssumption DEF LessQueued, WelcomeFirst
  <2>6. box'[k] = b /\ \A j \in Conns : j # k => box'[j] = box[j]
    BY <1>6, <2>4
  <2> QED
    BY <1>5, <1>6, <2>2, <2>4, <2>5, <2>6
<1> QED
  BY <1>2, <1>3, <1>4, <1>8, <1>9, AwayKeeps

LEMMA ReadCloseKeeps ==
    ASSUME IInv, ReadClose
    PROVE  IInv'
<1> DEFINE at == IF box[client.conn].close \in {"lost", "congested", "closing"}
                 THEN "out" ELSE "ended"
<1>1. /\ client' = [client EXCEPT !.at = at, !.out = {}, !.spoke = FALSE]
      /\ UNCHANGED <<up, serving, box, host, events, shell, sending, told, late, bound>>
  BY DEF ReadClose, wire, desk, history
<1>2. at \in {"out", "ended"}
  OBVIOUS
<1> HIDE DEF at
<1>3. client' \in Clients
  <2>1. at \in {"live", "trying", "out", "ended"}
    BY <1>2
  <2> QED
    BY <1>1, <2>1, Zenon DEF IInv, TypeOK, Clients
<1>4. /\ client'.at = at /\ client'.conn = client.conn /\ client'.token = client.token
      /\ client'.next = client.next /\ client'.pending = client.pending
      /\ client'.lastC = client.lastC /\ client'.out \subseteq client.out
  BY <1>1 DEF IInv, TypeOK, Clients
<1>5. up' \in [Conns -> Seq(Uplink)] /\ box' \in [Conns -> Boxes]
  BY <1>1 DEF IInv, TypeOK
<1>6. \A k \in Conns : LessSent(up'[k], up[k]) /\ LessQueued(box'[k], box[k])
  BY <1>1, NothingLess DEF IInv
<1> QED
  BY <1>1, <1>2, <1>3, <1>4, <1>5, <1>6, AwayKeeps

LEMMA ResumeExpiresKeeps ==
    ASSUME IInv, ResumeExpires
    PROVE  IInv'
<1>1. /\ client' = [client EXCEPT !.at = "ended"]
      /\ UNCHANGED <<up, serving, box, host, events, shell, sending, told, late, bound>>
  BY DEF ResumeExpires, wire, desk, history
<1>2. client' \in Clients
  BY <1>1, Zenon DEF IInv, TypeOK, Clients
<1>3. /\ client'.at = "ended" /\ client'.conn = client.conn /\ client'.token = client.token
      /\ client'.next = client.next /\ client'.pending = client.pending
      /\ client'.lastC = client.lastC /\ client'.out \subseteq client.out
  BY <1>1 DEF IInv, TypeOK, Clients
<1>4. up' \in [Conns -> Seq(Uplink)] /\ box' \in [Conns -> Boxes]
  BY <1>1 DEF IInv, TypeOK
<1>5. \A k \in Conns : LessSent(up'[k], up[k]) /\ LessQueued(box'[k], box[k])
  BY <1>1, NothingLess DEF IInv
<1> QED
  BY <1>1, <1>2, <1>3, <1>4, <1>5, AwayKeeps

LEMMA DialKeeps ==
    ASSUME IInv, Dial
    PROVE  IInv'
<1> USE DEF IInv
<1> DEFINE hello == [t |-> "hello", c |-> client.token]
<1>0. PICK k \in Conns : k = client.conn + 1
  <2>1. bound.conns \in Conns
    BY BoundsAssumption DEF TypeOK
  <2>2. client.conn + 1 \in 1..MaxConns
    BY <2>1, Fields, HostAssumption DEF Dial, Conns
  <2> QED
    BY <2>2 DEF Conns
<1>1. /\ client.at = "out"
      /\ client' = [client EXCEPT !.at = "trying", !.conn = k]
      /\ up' = [up EXCEPT ![k] = <<hello>>]
      /\ serving' = [serving EXCEPT ![k] = "hello"]
      /\ UNCHANGED <<box, host, events, shell, sending, told, late, bound>>
  BY <1>0 DEF Dial, desk, history
<1>2. client' \in Clients
  BY <1>1, Zenon DEF TypeOK, Clients
<1>3. /\ client'.at = "trying" /\ client'.conn = k /\ client'.token = client.token
      /\ client'.next = client.next /\ client'.pending = client.pending
      /\ client'.lastC = client.lastC /\ client'.out = client.out
  BY <1>1 DEF TypeOK, Clients
<1>4. serving[k] = "none" /\ up[k] = <<>> /\ box[k] = EmptyBox
  <2>1. k > client.conn
    <3>1. client.conn \in Nat
      BY Fields
    <3> QED
      BY <1>0, <3>1
  <2>2. serving[k] = "none"
    BY <2>1 DEF Wired
  <2> QED
    BY <2>2 DEF Wired
<1>5. hello \in Uplink /\ hello.t = "hello" /\ hello.c = client.token
  BY Fields DEF Uplink
<1>6. <<hello>> \in Seq(Uplink) /\ Len(<<hello>>) = 1 /\ <<hello>> # <<>> /\ Range(<<hello>>) = {hello}
  <2> HIDE DEF hello
  <2> DEFINE q == <<hello>>
  <2>1. q \in Seq(Uplink) /\ Len(q) = 1 /\ q # <<>> /\ DOMAIN q = 1..1 /\ q[1] = hello
    BY <1>5
  <2> HIDE DEF q
  <2>2. Range(q) = {hello}
    BY <2>1 DEF Range
  <2> QED
    BY <2>1, <2>2 DEF q
<1>7. /\ up' \in [Conns -> Seq(Uplink)] /\ up'[k] = <<hello>>
      /\ \A j \in Conns : j # k => up'[j] = up[j]
  BY <1>1, <1>6 DEF TypeOK
<1>8. /\ serving' \in [Conns -> {"none", "hello", "open", "done"}] /\ serving'[k] = "hello"
      /\ \A j \in Conns : j # k => serving'[j] = serving[j]
  BY <1>1 DEF TypeOK
<1> HIDE DEF hello
<1>9. \A j \in Conns : Unread(j)' \subseteq Unread(j) /\ Welcomes(j)' = Welcomes(j)
  <2>1. CommitsOf(<<hello>>) = {}
    BY <1>5, <1>6 DEF CommitsOf
  <2> QED
    BY <1>1, <1>7, <2>1 DEF Unread, Welcomes
<1>10. Welcomes(k) = {}
  <2>1. Range(<<>>) = {}
    BY EmptySeq, RangeIsPart
  <2> QED
    BY <1>4, <2>1 DEF Welcomes, EmptyBox
<1>11. TypeOK'
  BY <1>1, <1>2, <1>7, <1>8 DEF TypeOK
<1>12. Wired'
  <2>1. ASSUME NEW j \in Conns PROVE serving'[j] = "none" <=> j > k
    <3>1. client.conn \in Nat /\ j \in Nat /\ (serving[j] = "none" <=> j > client.conn)
      BY Fields DEF Wired
    <3> QED
      BY <1>0, <1>8, <3>1
  <2>2. \A j \in Conns : j # k => /\ serving'[j] = serving[j] /\ up'[j] = up[j] /\ box'[j] = box[j]
    BY <1>1, <1>7, <1>8
  <2>3. WelcomeFirst(box[k].items)
    BY DEF Wired
  <2>4. host.conn # NoConn => host.conn \in Conns /\ host.conn # k
    BY <1>4, Fields DEF Wired
  <2>5. ASSUME NEW j \in Conns
        PROVE  /\ serving'[j] = "none" => up'[j] = <<>> /\ box'[j] = EmptyBox
               /\ serving'[j] = "hello" => /\ box'[j] = EmptyBox /\ Len(up'[j]) <= 1
                                           /\ \A m \in Range(up'[j]) : m.t = "hello"
               /\ WelcomeFirst(box'[j].items)
    <3>1. CASE j = k
      BY <1>1, <1>4, <1>5, <1>6, <1>7, <1>8, <2>3, <3>1
    <3>2. CASE j # k
      BY <2>2, <3>2 DEF Wired
    <3> QED
      BY <3>1, <3>2
  <2>6. host.conn # NoConn => serving'[host.conn] = "open" /\ host.paired
    BY <2>2, <2>4 DEF Wired
  <2>7. NoConn # k
    BY Fields
  <2> QED
    BY <2>7, <1>1, <1>3, <1>8, <2>1, <2>4, <2>5, <2>6 DEF Wired
<1>13. Counted'
  BY <1>1, <1>3, <1>9, <1>10 DEF Counted
<1>14. host.conn # NoConn => host.conn \in Conns /\ host.conn # k
  BY <1>4, Fields DEF Wired
<1>15. Ordered'
  BY <1>1, <1>3, <1>7, <1>9, <1>14 DEF Ordered, InOrderOn
<1>16. Tokens'
  <2> SUFFICES ASSUME host.paired, ~late PROVE Tokens'
    BY <1>1 DEF Tokens
  <2>1. Accepts(host, client.token)'
    BY <1>1, <1>3 DEF Tokens, Accepts
  <2>2. host.conn # NoConn /\ up'[host.conn] # <<>> => client.token = host.token
    BY <1>7, <1>14 DEF Tokens
  <2>3. \A m \in Range(up'[k]) : m.c = client.token
    BY <1>5, <1>6, <1>7
  <2>4. ASSUME NEW j \in Conns, j # k, serving'[j] = "hello",
               \A i \in Conns : i > j => serving'[i] \notin {"open", "done"}
        PROVE  \A m \in Range(up'[j]) : m.c = client.token
    <3>1. \A i \in Conns : i > j => serving[i] \notin {"open", "done"}
      BY <1>4, <1>8, <2>4
    <3> QED
      BY <1>7, <1>8, <2>4, <3>1 DEF Tokens
  <2> QED
    BY <1>1, <1>3, <1>9, <1>10, <2>1, <2>2, <2>3, <2>4 DEF Tokens
<1>17. Decided' /\ Keeper(host)'
  BY <1>1 DEF Decided, Keeper
<1>18. Heard'
  <2>1. shell.stop # "done"
    BY HostAssumption DEF Heard, Dial
  <2> QED
    BY <1>1, <2>1 DEF Heard
<1>19. Followed'
  BY <1>1, <1>3, <1>7, <1>14 DEF Followed, Reached
<1>20. Refusals'
  BY <1>1, <1>3 DEF Refusals
<1> QED
  BY <1>11, <1>12, <1>13, <1>15, <1>16, <1>17, <1>18, <1>19, <1>20

LEMMA PopFacts ==
    ASSUME NEW q \in Seq(Messages), q # <<>>, WelcomeFirst(q)
    PROVE  /\ Head(q) \in Messages /\ Head(q) \in Range(q)
           /\ Tail(q) \in Seq(Messages) /\ Range(Tail(q)) \subseteq Range(q)
           /\ Len(Tail(q)) <= Len(q) /\ WelcomeFirst(Tail(q))
           /\ \A m \in Range(Tail(q)) : m.t # "welcome"
<1> DEFINE p == Tail(q)
<1>1. Head(q) \in Messages /\ Head(q) \in Range(q) /\ p \in Seq(Messages) /\ Range(p) \subseteq Range(q)
  BY HeadAndTail
<1>2. /\ Len(q) \in Nat /\ Len(p) = Len(q) - 1 /\ \A i \in 1..Len(p) : p[i] = q[i + 1]
      /\ DOMAIN p = 1..Len(p)
  BY <1>1, HeadTailProperties, LenProperties
<1> HIDE DEF p
<1>3. \A i \in 1..Len(p) : p[i].t # "welcome"
  <2> SUFFICES ASSUME NEW i \in 1..Len(p) PROVE p[i].t # "welcome"
    OBVIOUS
  <2>1. i + 1 \in 2..Len(q)
    BY <1>2
  <2> QED
    BY <1>2, <2>1 DEF WelcomeFirst
<1>4. WelcomeFirst(p) /\ \A m \in Range(p) : m.t # "welcome"
  BY <1>2, <1>3 DEF WelcomeFirst, Range
<1> QED
  BY <1>1, <1>2, <1>4 DEF p

\* A message of the host: a welcome puts aside what lastC covers, which the
\* shell has answered; an answer what it answers.
LEMMA ReadKeeps ==
    ASSUME IInv, Read
    PROVE  IInv'
<1> USE DEF IInv
<1>0. PICK k \in Conns : k = client.conn
  BY Fields
<1> DEFINE q == box[k].items
<1> DEFINE m == Head(q)
<1>1. /\ client.at \in {"live", "trying"} /\ q # <<>>
      /\ client' = IF m.t = "welcome" THEN Welcomed(m)
                   ELSE [client EXCEPT !.seen = Applied(@, m), !.pending = @ \ {m.c}]
      /\ told' = IF Tells(m) THEN [told EXCEPT ![m.c] = m.t] ELSE told
      /\ box' = [box EXCEPT ![k].items = Tail(@)]
      /\ UNCHANGED <<up, serving, host, events, shell, sending, late, bound>>
  BY <1>0 DEF Read, desk
<1>2. box \in [Conns -> Boxes] /\ box[k] \in Boxes /\ q \in Seq(Messages) /\ WelcomeFirst(q)
  BY DEF TypeOK, Boxes, Wired
<1>3. /\ m \in Messages /\ m \in Range(q)
      /\ Tail(q) \in Seq(Messages) /\ Range(Tail(q)) \subseteq Range(q)
      /\ Len(Tail(q)) <= Len(q) /\ WelcomeFirst(Tail(q))
      /\ \A x \in Range(Tail(q)) : x.t # "welcome"
  BY <1>1, <1>2, PopFacts
<1>4. /\ box' \in [Conns -> Boxes] /\ box'[k].items = Tail(q) /\ box'[k].close = box[k].close
      /\ \A j \in Conns : j # k => box'[j] = box[j]
  <2> DEFINE b == [box[k] EXCEPT !.items = Tail(q)]
  <2>1. b \in Boxes /\ b.items = Tail(q) /\ b.close = box[k].close
    BY <1>2, <1>3 DEF Boxes
  <2>2. box' = [box EXCEPT ![k] = b]
    BY <1>1, <1>2
  <2> HIDE DEF b
  <2> QED
    BY <1>2, <2>1, <2>2
<1> HIDE DEF m
<1>5. /\ \A j \in Conns : Range(box'[j].items) \subseteq Range(box[j].items)
      /\ \A j \in Conns : Len(box'[j].items) <= OutboxItems
      /\ \A j \in Conns : WelcomeFirst(box'[j].items) /\ box'[j].close = box[j].close
      /\ Welcomes(k)' = {} /\ \A j \in Conns : Welcomes(j)' \subseteq Welcomes(j)
  <2>1. Len(q) <= OutboxItems /\ Len(q) \in Nat /\ Len(Tail(q)) \in Nat /\ OutboxItems \in Nat
    BY <1>2, <1>3, LenProperties, HostAssumption DEF TypeOK
  <2>2. Len(Tail(q)) <= OutboxItems
    BY <1>3, <2>1
  <2> HIDE DEF q
  <2>3. Welcomes(k)' = {}
    BY <1>3, <1>4 DEF Welcomes
  <2>4. \A j \in Conns : Range(box'[j].items) \subseteq Range(box[j].items)
    BY <1>3, <1>4 DEF q
  <2>5. \A j \in Conns : Welcomes(j)' \subseteq Welcomes(j)
    BY <2>4 DEF Welcomes
  <2>6. ASSUME NEW j \in Conns
        PROVE  /\ Len(box'[j].items) <= OutboxItems
               /\ WelcomeFirst(box'[j].items) /\ box'[j].close = box[j].close
    <3>1. CASE j = k
      BY <1>3, <1>4, <2>2, <3>1 DEF q
    <3>2. CASE j # k
      BY <1>4, <3>2 DEF TypeOK, Wired
    <3> QED
      BY <3>1, <3>2
  <2> QED
    BY <2>3, <2>4, <2>5, <2>6
<1> HIDE DEF q
<1>6. RightIn(shell, m)
  BY <1>3 DEF Decided, AllRight, q
<1>7. serving[k] \in {"open", "done"} /\ (client.at = "trying" => up[k] = <<>>)
  <2>1. box[k] # EmptyBox
    BY <1>1 DEF EmptyBox, q
  <2> QED
    BY <1>0, <2>1 DEF Wired, TypeOK
<1>8. /\ m.t = "welcome" => m.c \in 0..MaxCommits /\ m.n \in Nat /\ m \in Welcomes(k)
      /\ m.t \in Fate => m.c \in Commits
      /\ m.t \in Fate \cup {"welcome"} \/ m.c = 0
      /\ m.t \in Fate \cup {"welcome", "snapshot", "ops"} /\ m.n \in Nat
  BY <1>3 DEF Messages, Words, Changes, Answers, Fate, Welcomes, q
<1> DEFINE left == {c \in client.pending : c > m.c}
<1>9. ASSUME m.t = "welcome"
      PROVE  /\ client' \in Clients
             /\ client'.at = "live" /\ client'.conn = k /\ client'.token = m.n
             /\ client'.next = client.next /\ client'.lastC = m.c
             /\ client'.pending = left /\ client'.out = left
             /\ told' = told /\ client.at = "trying"
  <2>1. client' = [client EXCEPT !.at = "live", !.token = m.n, !.lastC = m.c, !.pending = left,
                                 !.out = left, !.spoke = FALSE, !.seen = -1]
    BY <1>1, <1>9 DEF Welcomed
  <2>2. left \in SUBSET Commits /\ -1 \in Nat \cup {-1}
    BY Fields
  <2> HIDE DEF left
  <2>3. client' \in Clients
    <3>1. m.c \in 0..MaxCommits /\ m.n \in Nat
      BY <1>8, <1>9
    <3> QED
      BY <2>1, <2>2, <3>1, Zenon DEF TypeOK, Clients
  <2>4. /\ client'.at = "live" /\ client'.conn = client.conn /\ client'.token = m.n
        /\ client'.next = client.next /\ client'.lastC = m.c
        /\ client'.pending = left /\ client'.out = left
    BY <2>1 DEF TypeOK, Clients
  <2>5. told' = told /\ client.at = "trying"
    <3>1. client.at # "live"
      BY <1>0, <1>8, <1>9 DEF Wired
    <3> QED
      BY <1>1, <1>9, <3>1 DEF Tells
  <2> QED
    BY <1>0, <2>3, <2>4, <2>5
<1>10. ASSUME m.t # "welcome"
       PROVE  /\ client' \in Clients
              /\ client'.at = client.at /\ client'.conn = k /\ client'.token = client.token
              /\ client'.next = client.next /\ client'.lastC = client.lastC
              /\ client'.pending = client.pending \ {m.c} /\ client'.out = client.out
  <2> DEFINE seen == Applied(client.seen, m)
  <2>1. client' = [client EXCEPT !.seen = seen, !.pending = @ \ {m.c}]
    BY <1>1, <1>10
  <2>2. client.seen \in Nat \cup {-1}
    BY DEF TypeOK, Clients
  <2>3. seen \in Nat \cup {-1}
    BY <1>8, <2>2 DEF Applied
  <2>4. client.pending \ {m.c} \in SUBSET Commits
    BY Fields
  <2> HIDE DEF seen
  <2>5. client' \in Clients
    BY <2>1, <2>3, <2>4, Zenon DEF TypeOK, Clients
  <2>6. /\ client'.at = client.at /\ client'.conn = client.conn /\ client'.token = client.token
        /\ client'.next = client.next /\ client'.lastC = client.lastC
        /\ client'.pending = client.pending \ {m.c} /\ client'.out = client.out
    BY <2>1 DEF TypeOK, Clients
  <2> QED
    BY <1>0, <2>5, <2>6
<1>11. /\ told' \in [Commits -> {"nothing", "ack", "same", "nack"}]
       /\ \A c \in Commits : told'[c] # told[c] => told'[c] = m.t /\ c = m.c /\ m.t \in Fate
       /\ m.t \in Fate /\ m.c \in client.pending => told'[m.c] = m.t
  <2>1. told \in [Commits -> {"nothing", "ack", "same", "nack"}]
    BY DEF TypeOK
  <2>2. CASE Tells(m)
    <3>1. told' = [told EXCEPT ![m.c] = m.t] /\ m.t \in Fate
      BY <1>1, <2>2 DEF Tells, Fate
    <3> QED
      BY <1>8, <2>1, <3>1 DEF Fate
  <2>3. CASE ~Tells(m)
    BY <1>1, <2>1, <2>3 DEF Tells, Fate
  <2> QED
    BY <2>2, <2>3
<1>12. TypeOK'
  BY <1>1, <1>4, <1>5, <1>9, <1>10, <1>11 DEF TypeOK
<1>13. Wired'
  BY <1>0, <1>1, <1>4, <1>5, <1>7, <1>9, <1>10 DEF Wired
<1>14. Counted'
  <2>1. CASE m.t = "welcome"
    BY <1>0, <1>1, <1>5, <1>8, <1>9, <2>1 DEF Counted, Unread
  <2>2. CASE m.t # "welcome"
    BY <1>0, <1>1, <1>5, <1>10, <2>2 DEF Counted, Unread
  <2> QED
    BY <2>1, <2>2
<1>15. Ordered'
  <2>1. ASSUME host.conn # NoConn PROVE InOrderOn(host.conn)'
    <3>1. InOrderOn(host.conn) /\ host.conn \in Conns
      BY <2>1, Fields DEF Ordered
    <3>2. CASE host.conn = k /\ m.t = "welcome"
      <4>1. up[k] = <<>> /\ host.connLast = 0 /\ m.c = host.last
        BY <1>0, <1>7, <1>8, <1>9, <3>1, <3>2 DEF Wired, InOrderOn
      <4>2. Unread(k)' = {} /\ Unread(k) = {}
        <5>1. up[k] \in Seq(Uplink)
          BY DEF TypeOK
        <5> QED
          BY <1>1, <4>1, <5>1, CommitIsIn DEF Unread
      <4>3. \A c \in client'.out \cap client'.pending : c > 0
        BY <1>9, <3>2, Fields
      <4> QED
        BY <1>1, <1>5, <1>9, <3>1, <3>2, <4>1, <4>2, <4>3 DEF InOrderOn
    <3>3. CASE host.conn = k /\ m.t # "welcome"
      BY <1>0, <1>1, <1>5, <1>10, <3>1, <3>3 DEF InOrderOn, Unread
    <3>4. CASE host.conn # k
      BY <1>0, <1>1, <1>5, <1>9, <1>10, <3>1, <3>4 DEF InOrderOn, Unread
    <3> QED
      BY <3>2, <3>3, <3>4
  <2> QED
    BY <1>1, <1>5, <2>1 DEF Ordered
<1>16. Tokens'
  <2> SUFFICES ASSUME host.paired, ~late PROVE Tokens'
    BY <1>1 DEF Tokens
  <2>1. CASE m.t # "welcome"
    BY <1>0, <1>1, <1>5, <1>10, <2>1 DEF Tokens, Accepts
  <2>2. CASE m.t = "welcome"
    <3>1. m.n = host.token
      BY <1>0, <1>8, <2>2 DEF Tokens
    <3>2. ASSUME NEW j \in Conns, serving[j] = "hello" PROVE j < k
      BY <1>0, <1>7, <3>2, Fields DEF Wired
    <3> QED
      BY <1>0, <1>1, <1>5, <1>7, <1>9, <2>2, <3>1, <3>2 DEF Tokens, Accepts
  <2> QED
    BY <2>1, <2>2
<1>17. Decided'
  <2>1. ASSUME NEW c \in Commits PROVE RightIn(shell, [t |-> told'[c], c |-> c])
    BY <1>6, <1>11 DEF Decided, RightIn
  <2> QED
    BY <1>1, <1>5, <2>1 DEF Decided, AllRight
<1>18. Heard' /\ Keeper(host)'
  BY <1>1 DEF Heard, Keeper
<1>19. ASSUME NEW c \in 1..(client.next - 1) \ client'.pending
       PROVE  /\ c \in shell.answered
              /\ c \in host.pending => told'[c] # "nothing"
              /\ told'[c] = "nothing" => c <= client'.lastC
  <2>1. c \in Commits /\ c \in Nat
    BY Fields, HostAssumption DEF Commits
  <2>2. CASE c \notin client.pending
    <3>1. /\ c \in shell.answered
          /\ c \in host.pending => told[c] # "nothing"
          /\ told[c] = "nothing" => c <= client.lastC
      BY <1>19, <2>2 DEF Followed, Refusals
    <3>2. client.lastC <= client'.lastC
      BY <1>0, <1>8, <1>9, <1>10, Fields DEF Counted
    <3>3. told'[c] = "nothing" => told[c] = "nothing"
      BY <1>11, <2>1 DEF Fate
    <3> QED
      BY <1>9, <1>10, <1>8, <2>1, <3>1, <3>2, <3>3, Fields
  <2>3. CASE c \in client.pending /\ m.t = "welcome"
    <3>1. c <= m.c /\ m.c <= host.last /\ client'.lastC = m.c
      BY <1>8, <1>9, <1>19, <2>1, <2>3 DEF Counted
    <3>2. c \in 1..host.last
      BY <1>8, <2>1, <2>3, <3>1, Fields DEF Commits
    <3>3. c \notin host.pending
      BY <3>2, Fields DEF Counted
    <3> QED
      BY <3>1, <3>2, <3>3 DEF Followed
  <2>4. CASE c \in client.pending /\ m.t # "welcome"
    <3>1. c = m.c /\ m.t \in Fate
      BY <1>8, <1>10, <1>19, <2>1, <2>4, Fields
    <3> QED
      BY <1>6, <1>11, <2>4, <3>1 DEF RightIn, Fate
  <2> QED
    BY <2>2, <2>3, <2>4
<1>20. client'.next = client.next
  BY <1>9, <1>10
<1>21. Followed'
  <2>1. ASSUME host.conn # NoConn, k = host.conn, client'.at = "live"
        PROVE  client'.pending \subseteq client'.out \cup Reached \cup Unread(k)
    <3>1. CASE m.t = "welcome"
      BY <1>9, <3>1
    <3>2. CASE m.t # "welcome"
      BY <1>0, <1>10, <2>1, <3>2 DEF Followed
    <3> QED
      BY <3>1, <3>2
  <2>2. client'.conn = k
    BY <1>9, <1>10
  <2> QED
    BY <1>1, <1>19, <1>20, <2>1, <2>2 DEF Followed, Reached, Unread
<1>22. Refusals'
  BY <1>1, <1>19, <1>20 DEF Refusals
<1> QED
  BY <1>12, <1>13, <1>14, <1>15, <1>16, <1>17, <1>18, <1>21, <1>22

-----------------------------------------------------------------------------
(* The steps of the host.                                                  *)

\* What becomes of a connection when a task ends.
SameOrOver(j) ==
    \/ serving'[j] = serving[j] /\ up'[j] = up[j] /\ box'[j] = box[j]
    \/ /\ serving[j] \in {"hello", "open"} /\ serving'[j] = "done"
       /\ up'[j] = <<>> /\ box'[j].items = <<>> /\ box'[j].close # "violation"
       /\ host'.conn # j

\* A task ends, or the session lets the writer go.
LEMMA EndsKeeps ==
    ASSUME IInv, \A j \in Conns : SameOrOver(j),
           serving' \in [Conns -> {"none", "hello", "open", "done"}],
           up' \in [Conns -> Seq(Uplink)], box' \in [Conns -> Boxes],
           host' \in Sessions, SameText(host', host), host'.ended = host.ended,
           host'.max = host.max, host'.last = host.last, host'.pending = host.pending,
           host'.forgot = host.forgot,
           host'.conn # NoConn => host' = host,
           host'.paired => /\ host.paired /\ host'.token = host.token
                           /\ host'.previous = host.previous /\ host'.answers = host.answers,
           host'.answers = host.answers \/ host'.answers = {},
           host'.connLast \in {0, host.connLast},
           events' \in {events, Append(events, [t |-> "gone", c |-> 0])},
           UNCHANGED <<client, shell, sending, told, late, bound>>
    PROVE  IInv'
<1> USE DEF IInv
<1>1. <<>> \in Seq(Messages) /\ Range(<<>>) = {} /\ Len(<<>>) = 0 /\ CommitsOf(<<>>) = {}
  <2>1. <<>> \in Seq(Messages) /\ <<>> \in Seq(Uplink) /\ Len(<<>>) = 0
    BY EmptySeq
  <2>2. Range(<<>>) = {} /\ CommitsOf(<<>>) = {}
    BY <2>1, RangeIsPart, CommitIsIn
  <2> QED
    BY <2>1, <2>2
<1>2. \A j \in Conns : /\ Range(up'[j]) \subseteq Range(up[j])
                       /\ Range(box'[j].items) \subseteq Range(box[j].items)
                       /\ Len(box'[j].items) <= OutboxItems
                       /\ WelcomeFirst(box'[j].items)
  BY <1>1, HostAssumption DEF SameOrOver, TypeOK, Wired, WelcomeFirst
<1>3. \A j \in Conns : Unread(j)' \subseteq Unread(j) /\ Welcomes(j)' \subseteq Welcomes(j)
  BY <1>2 DEF Unread, Welcomes, CommitsOf
<1>4. events' \in Seq(Events) /\ \A e \in Range(events') : e.t = "commit" => e \in Range(events)
  <2> DEFINE e == [t |-> "gone", c |-> 0]
  <2>1. e \in Events /\ e.t # "commit"
    BY DEF Events
  <2>2. events \in Seq(Events) /\ events' \in {events, Append(events, e)}
    BY DEF TypeOK
  <2> HIDE DEF e
  <2>3. Append(events, e) \in Seq(Events) /\ Range(Append(events, e)) = Range(events) \cup {e}
    BY <2>1, <2>2, AppendRange
  <2>4. CASE events' = events
    BY <2>2, <2>4
  <2>5. CASE events' = Append(events, e)
    BY <2>1, <2>3, <2>5
  <2> QED
    BY <2>2, <2>4, <2>5
<1>5. TypeOK'
  BY <1>2, <1>4 DEF TypeOK, SameText
<1>6. Keeper(host')
  BY FS_EmptySet DEF Keeper
<1>7. host'.conn # NoConn =>
         /\ host' = host /\ host.conn \in Conns
         /\ serving'[host.conn] = serving[host.conn] /\ up'[host.conn] = up[host.conn]
         /\ box'[host.conn] = box[host.conn]
  BY Fields DEF SameOrOver
<1>8. client.conn \in Conns /\ Conns \subseteq Nat
  BY Fields
<1>9. Wired'
  <2>1. ASSUME NEW j \in Conns
        PROVE  /\ serving'[j] = "none" <=> j > client.conn
               /\ serving'[j] = "none" => up'[j] = <<>> /\ box'[j] = EmptyBox
               /\ serving'[j] = "hello" => /\ box'[j] = EmptyBox /\ Len(up'[j]) <= 1
                                           /\ \A m \in Range(up'[j]) : m.t = "hello"
    BY DEF Wired, SameOrOver
  <2>2. client.at = "live" => serving'[client.conn] \in {"open", "done"} /\ Welcomes(client.conn)' = {}
    <3>1. client.at = "live" => serving[client.conn] \in {"open", "done"} /\ Welcomes(client.conn) = {}
      BY DEF Wired
    <3>2. Welcomes(client.conn)' \subseteq Welcomes(client.conn)
      <4>1. PICK k \in Conns : k = client.conn
        BY <1>8
      <4>2. k = client'.conn
        BY <4>1
      <4> QED
        BY <1>3, <4>1, <4>2
    <3> QED
      BY <1>8, <3>1, <3>2 DEF SameOrOver
  <2>3. client.at = "trying" => /\ serving'[client.conn] # "hello" => up'[client.conn] = <<>>
                                /\ host'.conn = client.conn => host'.connLast = 0
    <3> SUFFICES ASSUME client.at = "trying"
                 PROVE  /\ serving'[client.conn] # "hello" => up'[client.conn] = <<>>
                        /\ host'.conn = client.conn => host'.connLast = 0
      OBVIOUS
    <3>1. /\ serving[client.conn] # "hello" => up[client.conn] = <<>>
          /\ host.conn = client.conn => host.connLast = 0
      BY DEF Wired
    <3>2. serving'[client.conn] # "hello" => up'[client.conn] = <<>>
      BY <1>8, <3>1 DEF SameOrOver
    <3>3. client.conn # NoConn
      BY Fields
    <3> QED
      BY <1>7, <3>1, <3>2, <3>3
  <2>4. host'.conn # NoConn => serving'[host'.conn] = "open" /\ host'.paired
    BY <1>7 DEF Wired
  <2> QED
    BY <1>2, <2>1, <2>2, <2>3, <2>4 DEF Wired
<1>10. Counted'
  <2>1. \A m \in Welcomes(client.conn)' : client.lastC <= m.c
    <3>1. PICK k \in Conns : k = client.conn
      BY <1>8
    <3>2. k = client'.conn
      BY <3>1
    <3> QED
      BY <1>3, <3>1, <3>2 DEF Counted
  <2>2. host'.connLast < client.next
    BY Fields DEF Counted
  <2> QED
    BY <1>3, <2>1, <2>2 DEF Counted
<1>11. Ordered'
  <2>1. \A j \in Conns : box'[j].close # "violation"
    <3>1. \A j \in Conns : box[j].close # "violation"
      BY DEF Ordered
    <3> QED
      BY <3>1 DEF SameOrOver
  <2>2. ASSUME host'.conn # NoConn PROVE InOrderOn(host.conn)'
    <3>1. PICK k \in Conns : k = host.conn
      BY <1>7, <2>2
    <3>2. InOrderOn(k) /\ host' = host /\ up'[k] = up[k] /\ box'[k] = box[k]
      BY <1>7, <2>2, <3>1 DEF Ordered
    <3>3. InOrderOn(k)'
      BY <3>2 DEF InOrderOn, Unread, Welcomes
    <3>4. k = host'.conn
      BY <3>1, <3>2
    <3> QED
      BY <3>1, <3>3, <3>4
  <2>3. host'.conn # NoConn => InOrderOn(host.conn)'
    BY <2>2
  <2> QED
    BY <2>1, <2>3 DEF Ordered
<1>12. Tokens'
  <2> SUFFICES ASSUME host'.paired, ~late PROVE Tokens'
    BY DEF Tokens
  <2>1. /\ Accepts(host, client.token)
        /\ client.at = "live" => client.token = host.token
        /\ host.conn # NoConn /\ up[host.conn] # <<>> => client.token = host.token
    BY DEF Tokens
  <2>2. \A m \in Welcomes(client.conn)' : m.n = host.token
    <3>1. PICK k \in Conns : k = client.conn
      BY <1>8
    <3>2. k = client'.conn
      BY <3>1
    <3> QED
      BY <1>3, <3>1, <3>2 DEF Tokens
  <2>3. ASSUME NEW k \in Conns, serving'[k] = "hello",
               \A j \in Conns : j > k => serving'[j] \notin {"open", "done"}
        PROVE  \A m \in Range(up'[k]) : m.c = client.token
    BY <1>2, <2>3 DEF Tokens, SameOrOver
  <2> QED
    BY <1>7, <2>1, <2>2, <2>3 DEF Tokens, Accepts
<1>13. Decided'
  BY <1>2 DEF Decided, AllRight
<1>14. Heard'
  BY <1>4 DEF Heard, SameOrOver
<1>15. Followed'
  <2>1. ASSUME host'.conn # NoConn
        PROVE  /\ Following(up'[host'.conn], Reached')
               /\ client.conn = host'.conn /\ client.at = "live" =>
                     client.pending \subseteq client.out \cup Reached' \cup Unread(host.conn)'
    <3>1. PICK k \in Conns : k = host.conn
      BY <1>7, <2>1
    <3>2. host' = host /\ up'[k] = up[k]
      BY <1>7, <2>1, <3>1
    <3>3. Unread(k)' = Unread(k) /\ k = host'.conn
      BY <3>1, <3>2 DEF Unread
    <3> QED
      BY <2>1, <3>1, <3>2, <3>3 DEF Followed, Reached
  <2> QED
    BY <2>1 DEF Followed, Reached
<1>16. Refusals'
  BY DEF Refusals
<1> QED
  BY <1>5, <1>6, <1>9, <1>10, <1>11, <1>12, <1>13, <1>14, <1>15, <1>16

Over == {"lost", "replaced", "congested", "rejected", "closing", "bye", "over"}

LEMMA EndTaskKeeps ==
    ASSUME IInv, NEW k \in Conns, serving[k] = "open", NEW code \in Over,
           NEW resumable \in BOOLEAN, EndTask(k, code, resumable, host),
           UNCHANGED <<client, shell, sending, told, late, bound>>
    PROVE  IInv'
<1>1. host \in Sessions
  BY DEF IInv, TypeOK
<1>2. /\ host' \in Sessions /\ SameText(host', host) /\ host'.ended = host.ended
      /\ host'.max = host.max /\ host'.last = host.last
      /\ host'.pending = host.pending /\ host'.forgot = host.forgot
      /\ host'.conn = IF host.conn = k THEN NoConn ELSE host.conn
      /\ host'.paired => /\ host.paired /\ host'.token = host.token
                         /\ host'.previous = host.previous /\ host'.answers = host.answers
      /\ host'.answers = host.answers \/ host'.answers = {}
      /\ host'.connLast = IF host.conn = k THEN 0 ELSE host.connLast
      /\ host.conn # k => host' = host
  BY <1>1, ClosedFacts DEF EndTask
<1> DEFINE b == [items |-> <<>>, close |-> code]
<1>3. b \in Boxes /\ b.items = <<>> /\ b.close # "violation"
  <2>1. <<>> \in Seq(Messages)
    BY EmptySeq
  <2> QED
    BY <2>1 DEF Boxes, Over
<1>4. /\ serving \in [Conns -> {"none", "hello", "open", "done"}]
      /\ up \in [Conns -> Seq(Uplink)] /\ box \in [Conns -> Boxes]
  BY DEF IInv, TypeOK
<1>5. /\ serving' = [serving EXCEPT ![k] = "done"] /\ up' = [up EXCEPT ![k] = <<>>]
      /\ box' = [box EXCEPT ![k] = b]
      /\ events' \in {events, Append(events, [t |-> "gone", c |-> 0])}
  BY DEF EndTask
<1> HIDE DEF b
<1>6. /\ serving' \in [Conns -> {"none", "hello", "open", "done"}]
      /\ up' \in [Conns -> Seq(Uplink)] /\ box' \in [Conns -> Boxes]
  <2>1. <<>> \in Seq(Uplink)
    BY EmptySeq
  <2> QED
    BY <1>3, <1>4, <1>5, <2>1
<1>7. k # NoConn
  BY Fields DEF IInv
<1>8. \A j \in Conns : SameOrOver(j)
  BY <1>2, <1>3, <1>4, <1>5, <1>7 DEF SameOrOver
<1>9. host'.conn # NoConn => host' = host
  BY <1>2
<1>10. host'.connLast \in {0, host.connLast}
  BY <1>2
<1> QED
  BY <1>2, <1>5, <1>6, <1>8, <1>9, <1>10, EndsKeeps

LEMMA HostKicksKeeps ==
    ASSUME IInv, NEW k \in Conns, HostKicks(k)
    PROVE  IInv'
<1>1. box[k].close \in Over
  <2>1. box[k] \in Boxes /\ box[k].close # "violation" /\ box[k].close # "open"
    BY DEF HostKicks, IInv, TypeOK, Ordered
  <2> QED
    BY <2>1 DEF Boxes, Over
<1>2. (box[k].close # "over") \in BOOLEAN
  OBVIOUS
<1>3. /\ serving[k] = "open" /\ EndTask(k, box[k].close, box[k].close # "over", host)
      /\ UNCHANGED <<client, shell, sending, told, late, bound>>
  BY DEF HostKicks, desk, history
<1> QED
  BY <1>1, <1>2, <1>3, EndTaskKeeps

LEMMA HostLosesKeeps ==
    ASSUME IInv, NEW k \in Conns, HostLoses(k)
    PROVE  IInv'
<1>1. /\ serving[k] = "open" /\ EndTask(k, "lost", TRUE, host)
      /\ UNCHANGED <<client, shell, sending, told, late, bound>>
  BY DEF HostLoses, desk, history
<1>2. "lost" \in Over
  BY DEF Over
<1> QED
  BY <1>1, <1>2, EndTaskKeeps

LEMMA HostReleasesKeeps ==
    ASSUME IInv, HostReleases
    PROVE  IInv'
<1>1. /\ host' = Unbind(host) /\ host \in Sessions
      /\ UNCHANGED <<client, up, serving, box, events, shell, sending, told, late, bound>>
  BY DEF HostReleases, wire, desk, history, IInv, TypeOK
<1>2. /\ host' \in Sessions /\ SameText(host', host) /\ host'.ended = host.ended
      /\ host'.max = host.max /\ host'.last = host.last
      /\ host'.pending = host.pending /\ host'.forgot = host.forgot
      /\ host'.conn = NoConn /\ host'.connLast = 0 /\ ~host'.paired /\ host'.answers = {}
  BY <1>1, UnbindFacts
<1>3. /\ serving' \in [Conns -> {"none", "hello", "open", "done"}]
      /\ up' \in [Conns -> Seq(Uplink)] /\ box' \in [Conns -> Boxes]
  BY <1>1 DEF IInv, TypeOK
<1>4. \A j \in Conns : SameOrOver(j)
  BY <1>1 DEF SameOrOver
<1> QED
  BY <1>1, <1>2, <1>3, <1>4, EndsKeeps

\* A task that ends before its connection was admitted.
LEMMA HelloEndsKeeps ==
    ASSUME IInv, NEW k \in Conns, serving[k] = "hello",
           serving' = [serving EXCEPT ![k] = "done"],
           up' = [up EXCEPT ![k] = <<>>],
           NEW b \in Boxes, b.items = <<>>, b.close # "violation", box' = [box EXCEPT ![k] = b],
           UNCHANGED <<client, host, events, shell, sending, told, late, bound>>
    PROVE  IInv'
<1>1. /\ serving \in [Conns -> {"none", "hello", "open", "done"}] /\ host \in Sessions
      /\ up \in [Conns -> Seq(Uplink)] /\ box \in [Conns -> Boxes]
  BY DEF IInv, TypeOK
<1>2. /\ serving' \in [Conns -> {"none", "hello", "open", "done"}]
      /\ up' \in [Conns -> Seq(Uplink)] /\ box' \in [Conns -> Boxes]
  <2>1. <<>> \in Seq(Uplink)
    BY EmptySeq
  <2> QED
    BY <1>1, <2>1
<1>3. host.conn # k
  BY Fields DEF IInv, Wired
<1>4. \A j \in Conns : SameOrOver(j)
  BY <1>1, <1>3 DEF SameOrOver
<1>5. SameText(host', host)
  BY DEF SameText
<1> QED
  BY <1>1, <1>2, <1>4, <1>5, EndsKeeps

LEMMA HostRefusesKeeps ==
    ASSUME IInv, NEW k \in Conns, HostRefuses(k)
    PROVE  IInv'
<1>1. /\ serving[k] = "hello" /\ up[k] # <<>>
      /\ serving' = [serving EXCEPT ![k] = "done"] /\ up' = [up EXCEPT ![k] = Tail(@)]
      /\ box' = [box EXCEPT ![k].close = IF host.ended THEN "closing" ELSE "rejected"]
      /\ UNCHANGED <<client, host, events, shell, sending, told, late, bound>>
  BY DEF HostRefuses, desk, history
<1>2. up[k] \in Seq(Uplink) /\ Len(up[k]) <= 1 /\ box[k] \in Boxes /\ box[k] = EmptyBox
  BY <1>1 DEF IInv, TypeOK, Wired
<1>3. Tail(up[k]) = <<>>
  <2>1. Tail(up[k]) \in Seq(Uplink) /\ Len(Tail(up[k])) = Len(up[k]) - 1 /\ Len(up[k]) \in Nat
    BY <1>1, <1>2, ReadOne
  <2>2. Len(Tail(up[k])) \in Nat
    BY <2>1, LenProperties
  <2> QED
    BY <1>2, <2>1, <2>2, EmptySeq
<1> DEFINE b == [box[k] EXCEPT !.close = IF host.ended THEN "closing" ELSE "rejected"]
<1>4. b \in Boxes /\ b.items = <<>> /\ b.close # "violation"
  <2> DEFINE code == IF host.ended THEN "closing" ELSE "rejected"
  <2>1. code \in {"closing", "rejected"}
    OBVIOUS
  <2> HIDE DEF code
  <2>2. [box[k] EXCEPT !.close = code] = [items |-> <<>>, close |-> code]
    BY <1>2 DEF EmptyBox
  <2>3. <<>> \in Seq(Messages)
    BY EmptySeq
  <2>4. [items |-> <<>>, close |-> code] \in Boxes
    BY <2>1, <2>3 DEF Boxes
  <2> QED
    BY <2>1, <2>2, <2>4 DEF code
<1>5. box' = [box EXCEPT ![k] = b] /\ up' = [up EXCEPT ![k] = <<>>]
  BY <1>1, <1>3
<1> HIDE DEF b
<1> QED
  BY <1>1, <1>4, <1>5, HelloEndsKeeps

LEMMA HostGivesUpKeeps ==
    ASSUME IInv, NEW k \in Conns, HostGivesUp(k)
    PROVE  IInv'
<1>1. /\ serving[k] = "hello" /\ up[k] = <<>>
      /\ serving' = [serving EXCEPT ![k] = "done"]
      /\ UNCHANGED <<client, up, box, host, events, shell, sending, told, late, bound>>
  BY DEF HostGivesUp, desk, history
<1>2. box[k] = EmptyBox /\ box \in [Conns -> Boxes] /\ up \in [Conns -> Seq(Uplink)]
  BY <1>1 DEF IInv, TypeOK, Wired
<1>3. box[k] \in Boxes /\ box[k].items = <<>> /\ box[k].close # "violation"
  BY <1>2 DEF EmptyBox
<1>4. up' = [up EXCEPT ![k] = <<>>] /\ box' = [box EXCEPT ![k] = box[k]]
  BY <1>1, <1>2
<1> QED
  BY <1>1, <1>3, <1>4, HelloEndsKeeps

\* The host has read a message that tells it no more than that the writer has
\* spoken, or that counts no more.
LEMMA IdleReadKeeps ==
    ASSUME IInv, NEW k \in Conns, serving[k] = "open", up[k] # <<>>,
           up' = [up EXCEPT ![k] = Tail(@)],
           \/ host' = host /\ host.conn # k
           \/ host' = Confirm(host) /\ host.conn = k /\ Head(up[k]).t # "commit",
           UNCHANGED <<client, serving, box, events, shell, sending, told, late, bound>>
    PROVE  IInv'
<1> USE DEF IInv
<1>1. host \in Sessions /\ up \in [Conns -> Seq(Uplink)]
  BY DEF TypeOK
<1>2. /\ host' \in Sessions /\ SameBooks(host', host) /\ SameText(host', host)
      /\ host'.paired = host.paired /\ host'.token = host.token /\ host'.conn = host.conn
      /\ host'.connLast = host.connLast /\ host'.max = host.max /\ host'.last = host.last
      /\ host'.ended = host.ended
      /\ host'.previous = host.previous \/ host.conn = k
  <2>1. CASE host' = host
    BY <1>1, <2>1 DEF SameBooks, SameText
  <2>2. CASE host' = Confirm(host) /\ host.conn = k
    BY <1>1, <2>2, ConfirmFacts
  <2> QED
    BY <2>1, <2>2
<1>3. /\ up' \in [Conns -> Seq(Uplink)] /\ up'[k] = Tail(up[k])
      /\ \A j \in Conns : j # k => up'[j] = up[j]
      /\ Range(up'[k]) \subseteq Range(up[k])
      /\ CommitsOf(up'[k]) \subseteq CommitsOf(up[k])
      /\ Rising(up[k]) => Rising(up'[k])
      /\ host.conn = k => /\ CommitsOf(up[k]) \subseteq CommitsOf(up'[k])
                          /\ \A R : Following(up[k], R) => Following(up'[k], R)
  <2> DEFINE p == Tail(up[k])
  <2>1. /\ p \in Seq(Uplink) /\ Range(p) \subseteq Range(up[k])
        /\ CommitsOf(p) \subseteq CommitsOf(up[k]) /\ (Rising(up[k]) => Rising(p))
        /\ host.conn = k => /\ CommitsOf(up[k]) \subseteq CommitsOf(p)
                            /\ \A R : Following(up[k], R) => Following(p, R)
    <3>1. up[k] \in Seq(Uplink) /\ up[k] # <<>>
      BY <1>1
    <3>2. host.conn = k => Head(up[k]).t # "commit"
      OBVIOUS
    <3> QED
      BY <3>1, <3>2, ReadOne
  <2>2. up' = [up EXCEPT ![k] = p]
    OBVIOUS
  <2> HIDE DEF p
  <2> QED
    BY <1>1, <2>1, <2>2
<1>4. \A j \in Conns : Range(up'[j]) \subseteq Range(up[j]) /\ Unread(j)' \subseteq Unread(j)
  BY <1>3 DEF Unread
<1>5. TypeOK' /\ Keeper(host')
  BY <1>2, <1>3 DEF TypeOK, SameText, Keeper, SameBooks
<1>6. client.conn \in Conns /\ Conns \subseteq Nat /\ (host.conn # NoConn => host.conn \in Conns)
  BY Fields
<1>7. Wired'
  BY <1>2, <1>3, <1>6 DEF Wired, Welcomes
<1>8. Counted'
  BY <1>2, <1>4 DEF Counted, SameBooks, Welcomes
<1>9. Ordered'
  <2>1. ASSUME host.conn # NoConn PROVE InOrderOn(host.conn)'
    <3>1. PICK n \in Conns : n = host.conn
      BY <1>6, <2>1
    <3>2. InOrderOn(n) /\ n = host'.conn
      BY <1>2, <2>1, <3>1 DEF Ordered
    <3>3. Rising(up'[n]) /\ Unread(n)' \subseteq Unread(n) /\ Welcomes(n)' = Welcomes(n)
      BY <1>3, <1>4, <3>2 DEF InOrderOn, Welcomes
    <3>4. InOrderOn(n)'
      BY <1>2, <3>2, <3>3 DEF InOrderOn
    <3> QED
      BY <3>2, <3>4
  <2>2. \A j \in Conns : box[j].close # "violation"
    BY DEF Ordered
  <2>3. host'.conn # NoConn => InOrderOn(host.conn)'
    BY <1>2, <2>1
  <2> QED
    BY <2>2, <2>3 DEF Ordered
<1>10. Tokens'
  <2> SUFFICES ASSUME host.paired, ~late PROVE Tokens'
    BY <1>2 DEF Tokens
  <2>1. Accepts(host', client.token)
    <3>1. k # NoConn
      BY Fields
    <3>2. host.conn = k => client.token = host.token
      BY <3>1 DEF Tokens
    <3>3. Accepts(host, client.token)
      BY DEF Tokens
    <3> QED
      BY <1>2, <3>2, <3>3 DEF Accepts
  <2>2. host.conn # NoConn /\ up'[host.conn] # <<>> => client.token = host.token
    BY <1>3, <1>6 DEF Tokens
  <2> QED
    BY <1>2, <1>4, <2>1, <2>2 DEF Tokens, Welcomes
<1>11. Decided' /\ Heard'
  BY <1>2 DEF Decided, Heard, SameBooks
<1>12. Followed'
  <2>1. ASSUME host.conn # NoConn
        PROVE  /\ Following(up'[host.conn], Reached)
               /\ client.conn = host.conn /\ client.at = "live" =>
                     client.pending \subseteq client.out \cup Reached \cup CommitsOf(up'[host.conn])
    <3>1. PICK n \in Conns : n = host.conn
      BY <1>6, <2>1
    <3>2. /\ Following(up[n], Reached)
          /\ client.conn = n /\ client.at = "live" =>
                client.pending \subseteq client.out \cup Reached \cup CommitsOf(up[n])
      BY <2>1, <3>1 DEF Followed, Unread
    <3>3. Following(up'[n], Reached) /\ CommitsOf(up[n]) \subseteq CommitsOf(up'[n])
      BY <1>3, <3>1, <3>2
    <3> QED
      BY <3>1, <3>2, <3>3
  <2>2. Reached' = Reached
    BY <1>2 DEF Reached, SameBooks
  <2> QED
    BY <1>2, <2>1, <2>2 DEF Followed, Unread
<1>13. Refusals'
  BY <1>2 DEF Refusals, SameBooks
<1> QED
  BY <1>5, <1>7, <1>8, <1>9, <1>10, <1>11, <1>12, <1>13

\* A commit arrives on the connection in force. It is never one the host must
\* turn down.
LEMMA CommitArrivesKeeps ==
    ASSUME IInv, NEW k \in Conns, serving[k] = "open", up[k] # <<>>,
           Head(up[k]).t = "commit", host.conn = k, NEW c, c = Head(up[k]).c,
           up' = [up EXCEPT ![k] = Tail(@)],
           host' = Receive(Confirm(host), c),
           box' = Queue(box, k, SetToSeq(AnswersTo(Confirm(host), c))),
           events' = IF IsNew(Confirm(host), c)
                     THEN Append(events, [t |-> "commit", c |-> c]) ELSE events,
           UNCHANGED <<client, serving, shell, sending, told, late, bound>>
    PROVE  IInv'
<1> USE DEF IInv
<1> DEFINE h == Confirm(host)
<1>1. /\ host \in Sessions /\ up \in [Conns -> Seq(Uplink)] /\ box \in [Conns -> Boxes]
      /\ events \in Seq(Events)
  BY DEF TypeOK
<1>2. /\ h \in Sessions /\ SameBooks(h, host) /\ SameText(h, host)
      /\ h.paired = host.paired /\ h.token = host.token /\ h.conn = host.conn
      /\ h.connLast = host.connLast /\ h.max = host.max /\ h.last = host.last
      /\ h.ended = host.ended
  BY <1>1, ConfirmFacts
<1> HIDE DEF h
<1>3. /\ c \in Unread(k) /\ c \in Commits
      /\ Tail(up[k]) \in Seq(Uplink) /\ Range(Tail(up[k])) \subseteq Range(up[k])
      /\ CommitsOf(Tail(up[k])) \subseteq Unread(k)
      /\ Unread(k) \subseteq CommitsOf(Tail(up[k])) \cup {c}
      /\ Rising(up[k]) => Rising(Tail(up[k])) /\ \A d \in CommitsOf(Tail(up[k])) : d > c
      /\ \A R : Following(up[k], R) => /\ 1..(c - 1) \subseteq R
                                       /\ Following(Tail(up[k]), R \cup {c})
  <2>1. up[k] \in Seq(Uplink) /\ up[k] # <<>> /\ Head(up[k]).t = "commit"
    BY <1>1
  <2> QED
    BY <2>1, ReadOne DEF Unread
<1>4. /\ up' \in [Conns -> Seq(Uplink)] /\ up'[k] = Tail(up[k])
      /\ \A j \in Conns : j # k => up'[j] = up[j]
  <2> DEFINE p == Tail(up[k])
  <2>1. up' = [up EXCEPT ![k] = p] /\ p \in Seq(Uplink)
    BY <1>3
  <2> HIDE DEF p
  <2>2. /\ up' \in [Conns -> Seq(Uplink)] /\ up'[k] = p
        /\ \A j \in Conns : j # k => up'[j] = up[j]
    BY <1>1, <2>1
  <2> QED
    BY <2>2 DEF p
<1>5. \A j \in Conns : Range(up'[j]) \subseteq Range(up[j]) /\ Unread(j)' \subseteq Unread(j)
  BY <1>3, <1>4 DEF Unread
<1>6. /\ k # NoConn /\ client.conn \in Conns /\ Conns \subseteq Nat /\ Commits \subseteq Nat \ {0}
      /\ client.lastC \in 0..MaxCommits /\ MaxCommits \in Nat
      /\ client.next \in 1..(MaxCommits + 1)
      /\ host.max \in 0..MaxCommits /\ host.last \in 0..MaxCommits
      /\ client.pending \subseteq Commits /\ host.pending \subseteq Commits
      /\ host.connLast \in 0..MaxCommits /\ client.out \subseteq Commits
  BY Fields
<1>7. InOrderOn(k) /\ Following(up[k], Reached)
  BY <1>6 DEF Ordered, Followed
<1>8. c > host.last /\ c > host.connLast /\ c < client.next
  BY <1>3, <1>6, <1>7 DEF InOrderOn, Counted
<1> DEFINE Fresh == IsNew(h, c)
<1>9. /\ host' \in Sessions /\ SameText(host', h)
      /\ host'.paired = h.paired /\ host'.token = h.token /\ host'.previous = h.previous
      /\ host'.conn = h.conn /\ host'.last = h.last /\ host'.ended = h.ended
      /\ host'.answers = h.answers /\ host'.forgot = h.forgot
      /\ host'.connLast = c
      /\ host'.pending = IF Fresh THEN h.pending \cup {c} ELSE h.pending
      /\ host'.max = IF Fresh /\ c > h.max THEN c ELSE h.max
  <2>1. host' = Receive(h, c)
    BY DEF h
  <2>2. h \in Sessions /\ c \in Commits
    BY <1>2, <1>3
  <2> HIDE DEF Fresh
  <2>3. LET g == Receive(h, c)
        IN  /\ g \in Sessions /\ SameText(g, h)
            /\ g.paired = h.paired /\ g.token = h.token /\ g.previous = h.previous
            /\ g.conn = h.conn /\ g.last = h.last /\ g.ended = h.ended
            /\ g.answers = h.answers /\ g.forgot = h.forgot
            /\ g.connLast = c
            /\ g.pending = IF IsNew(h, c) THEN h.pending \cup {c} ELSE h.pending
            /\ g.max = IF IsNew(h, c) /\ c > h.max THEN c ELSE h.max
    BY <2>2, ReceiveFacts
  <2> QED
    BY <2>1, <2>3, Zenon DEF Fresh
<1>10. Fresh <=> c \notin host.pending /\ AnswersTo(host, c) = {}
  BY <1>2 DEF IsNew, AnswersTo, SameBooks
<1>11. ~Fresh => c \in Reached
  <2> SUFFICES ASSUME ~Fresh, c \notin host.pending PROVE c \in shell.answered
    BY DEF Reached
  <2>1. PICK a \in host.answers : a.c = c
    BY <1>10 DEF AnswersTo
  <2>2. RightIn(shell, a) /\ a \in Answers
    BY <1>1, <2>1 DEF Decided, Sessions
  <2> QED
    BY <2>1, <2>2 DEF RightIn, Fate, Answers
<1>12. /\ host.pending \subseteq host'.pending /\ host'.pending \subseteq host.pending \cup {c}
       /\ c \in host'.pending => c \in host.pending \/ Fresh
       /\ Reached \subseteq Reached' /\ c \in Reached'
  BY <1>2, <1>9, <1>11 DEF Reached, SameBooks
<1> DEFINE q == SetToSeq(AnswersTo(h, c))
<1>13. q \in Seq(Messages) /\ \A m \in Range(q) : m \in host.answers /\ m \in Answers
  <2>1. AnswersTo(h, c) \subseteq host.answers /\ host.answers \subseteq Answers
    BY <1>1, <1>2 DEF AnswersTo, SameBooks, Sessions
  <2>2. IsFiniteSet(AnswersTo(h, c))
    BY <2>1, FS_Subset DEF Keeper
  <2>3. q \in Seq(AnswersTo(h, c)) /\ Range(q) \subseteq AnswersTo(h, c)
    BY <2>2, InSomeOrder
  <2>4. AnswersTo(h, c) \subseteq Messages
    BY <2>1 DEF Messages, Words
  <2> HIDE DEF q
  <2> QED
    BY <2>1, <2>3, <2>4, SeqMonotonic
<1>14. box' = [box EXCEPT ![k] = IF LetGo(k) THEN @ ELSE PushAll(@, q)]
  BY DEF Queue, h
<1> HIDE DEF q, Fresh
<1>15. /\ box' \in [Conns -> Boxes] /\ \A j \in Conns : j # k => box'[j] = box[j]
       /\ Len(box'[k].items) <= OutboxItems
       /\ Range(box'[k].items) \subseteq Range(box[k].items) \cup Range(q)
       /\ box'[k].close \in {box[k].close, "congested"}
       /\ WelcomeFirst(box'[k].items)
  <2>1. box[k] \in Fitting /\ WelcomeFirst(box[k].items)
    BY <1>1 DEF TypeOK, Fitting, Wired
  <2> DEFINE b == PushAll(box[k], q)
  <2>2. /\ b \in Fitting /\ Range(b.items) \subseteq Range(box[k].items) \cup Range(q)
        /\ b.close \in {box[k].close, "congested"}
        /\ /\ WelcomeFirst(box[k].items)
           /\ \A i \in 1..Len(q) : q[i].t = "welcome" => i = 1 /\ box[k].items = <<>>
           => WelcomeFirst(b.items)
    BY <1>13, <2>1, PushAllFacts
  <2>3. \A i \in 1..Len(q) : q[i].t # "welcome"
    BY <1>13, RangeIsPart DEF Answers
  <2>4. WelcomeFirst(b.items)
    BY <2>1, <2>2, <2>3
  <2> HIDE DEF b
  <2>5. CASE LetGo(k)
    BY <1>1, <1>14, <2>1, <2>5 DEF Fitting
  <2>6. CASE ~LetGo(k)
    <3>1. box' = [box EXCEPT ![k] = b]
      BY <1>14, <2>6 DEF b
    <3> QED
      BY <1>1, <2>2, <2>4, <3>1 DEF Fitting
  <2> QED
    BY <2>5, <2>6
<1>16. \A j \in Conns : Welcomes(j)' \subseteq Welcomes(j)
  <2>1. \A m \in Range(q) : m.t # "welcome"
    BY <1>13 DEF Answers
  <2> QED
    BY <1>15, <2>1 DEF Welcomes
<1>17. /\ events' \in Seq(Events)
       /\ \A e \in Range(events') : e \in Range(events) \/ (Fresh /\ e.c = c)
  <2> DEFINE e == [t |-> "commit", c |-> c]
  <2>1. e \in Events /\ e.c = c /\ events' = IF Fresh THEN Append(events, e) ELSE events
    BY <1>3 DEF Events, Fresh, h
  <2> HIDE DEF e
  <2>2. Append(events, e) \in Seq(Events) /\ Range(Append(events, e)) = Range(events) \cup {e}
    BY <1>1, <2>1, AppendRange
  <2>3. CASE Fresh
    BY <2>1, <2>2, <2>3
  <2>4. CASE ~Fresh
    BY <1>1, <2>1, <2>4
  <2> QED
    BY <2>3, <2>4
<1>18. TypeOK'
  BY <1>2, <1>4, <1>9, <1>15, <1>17 DEF TypeOK, SameText
<1>19. Keeper(host')
  BY <1>2, <1>9 DEF Keeper, SameBooks
<1>20. Wired'
  <2>1. client.conn = k => client.at # "trying"
    BY DEF Wired
  <2>2. \A j \in Conns : serving[j] # "open" => up'[j] = up[j] /\ box'[j] = box[j]
    BY <1>4, <1>15
  <2>3. \A j \in Conns : WelcomeFirst(box'[j].items)
    BY <1>15 DEF Wired
  <2>4. client.at = "live" => Welcomes(client.conn)' = {}
    <3>1. PICK n \in Conns : n = client.conn
      BY <1>6
    <3>2. n = client'.conn
      BY <3>1
    <3> QED
      BY <1>16, <3>1, <3>2 DEF Wired
  <2>5. host'.conn = host.conn /\ host'.paired = host.paired
    BY <1>2, <1>9
  <2>6. client.at = "trying" => /\ serving[client.conn] # "hello" => up'[client.conn] = <<>>
                                /\ host'.conn = client.conn => host'.connLast = 0
    BY <1>4, <1>6, <2>1, <2>5 DEF Wired
  <2> QED
    BY <2>2, <2>3, <2>4, <2>5, <2>6 DEF Wired
<1>21. Counted'
  <2>1. \A m \in Welcomes(client.conn)' : client.lastC <= m.c
    <3>1. PICK n \in Conns : n = client.conn
      BY <1>6
    <3>2. n = client'.conn
      BY <3>1
    <3> QED
      BY <1>16, <3>1, <3>2 DEF Counted
  <2>2. host'.last = host.last /\ host'.max >= host.max /\ host'.max < client.next
    BY <1>2, <1>3, <1>6, <1>8, <1>9 DEF Counted
  <2>3. host'.pending \subseteq (host.last + 1)..host'.max
    <3> SUFFICES ASSUME NEW d \in host'.pending PROVE d \in (host.last + 1)..host'.max
      OBVIOUS
    <3>1. CASE d \in host.pending
      <4>1. host'.max \in Int
        BY <1>2, <1>6, <1>9, <1>3 DEF Commits
      <4> QED
        BY <1>6, <2>2, <3>1, <4>1 DEF Counted
    <3>2. CASE d = c /\ Fresh
      BY <1>2, <1>3, <1>6, <1>8, <1>9, <3>2
    <3> QED
      BY <1>12, <3>1, <3>2
  <2> QED
    <3>1. /\ host'.last <= host'.max /\ host'.connLast < client.next
          /\ client.lastC <= host'.last
      BY <1>2, <1>3, <1>6, <1>8, <1>9, <2>2 DEF Counted
    <3>2. \A j \in Conns : \A m \in Welcomes(j)' : m.c <= host'.last
      BY <1>16, <2>2 DEF Counted
    <3>3. \A j \in Conns : Unread(j)' \subseteq 1..(client.next - 1)
      BY <1>5 DEF Counted
    <3> QED
      BY <2>1, <2>2, <2>3, <3>1, <3>2, <3>3 DEF Counted
<1>22. Ordered'
  <2>1. \A j \in Conns : box'[j].close # "violation"
    <3>1. \A j \in Conns : box[j].close # "violation"
      BY DEF Ordered
    <3> QED
      BY <1>15, <3>1
  <2>2. host'.conn = k /\ host'.last = host.last
    BY <1>2, <1>9
  <2>3. InOrderOn(k)'
    <3>1. \A m \in Welcomes(k)' : m.c = host'.last
      BY <1>7, <1>16, <2>2 DEF InOrderOn
    <3>2. Rising(up'[k]) /\ \A d \in Unread(k)' : d > host'.last /\ d > host'.connLast
      BY <1>3, <1>4, <1>5, <1>7, <1>9, <2>2 DEF InOrderOn, Unread
    <3>3. ASSUME client.conn = k, client.at = "live"
          PROVE  /\ client.lastC = host'.last
                 /\ \A d \in client.out \cap client.pending :
                       d > host'.connLast /\ \A e \in Unread(k)' : d > e
      BY <1>3, <1>5, <1>7, <1>9, <2>2, <3>3 DEF InOrderOn
    <3> QED
      BY <3>1, <3>2, <3>3 DEF InOrderOn
  <2> QED
    BY <2>1, <2>2, <2>3 DEF Ordered
<1>23. Tokens'
  <2> SUFFICES ASSUME host.paired, ~late PROVE Tokens'
    BY <1>2, <1>9 DEF Tokens
  <2>1. client.token = host.token
    BY <1>6 DEF Tokens
  <2>2. \A m \in Welcomes(client.conn)' : m.n = host.token
    <3>1. PICK n \in Conns : n = client.conn
      BY <1>6
    <3>2. n = client'.conn
      BY <3>1
    <3> QED
      BY <1>16, <3>1, <3>2 DEF Tokens
  <2>3. host'.token = host.token /\ host'.paired
    BY <1>2, <1>9
  <2> QED
    BY <1>5, <2>1, <2>2, <2>3 DEF Tokens, Accepts
<1>24. Decided'
  <2>1. \A m \in host'.answers : RightIn(shell, m)
    BY <1>2, <1>9 DEF Decided, SameBooks
  <2>2. \A m \in Range(q) : RightIn(shell, m)
    BY <1>13 DEF Decided
  <2>3. \A j \in Conns : AllRight(shell, box'[j].items)
    BY <1>15, <2>2 DEF Decided, AllRight
  <2> QED
    BY <2>1, <2>3 DEF Decided
<1>25. Heard'
  <2>1. ~(shell.stop = "done")
    BY DEF Heard
  <2>2. \A e \in Range(events') : e.t = "commit" => e.c \in host'.pending \cup shell.answered
    BY <1>2, <1>9, <1>12, <1>17 DEF Heard
  <2> QED
    BY <1>2, <1>9, <2>1, <2>2 DEF Heard
<1>26. Followed'
  <2>1. 1..host'.max \subseteq Reached'
    <3> SUFFICES ASSUME NEW d \in 1..host'.max, d \notin Reached' PROVE FALSE
      OBVIOUS
    <3>1. 1..(c - 1) \subseteq Reached /\ 1..host.max \subseteq Reached
      BY <1>3, <1>7 DEF Followed
    <3>2. d # c /\ d \notin 1..(c - 1) /\ d \notin 1..host.max
      BY <1>12, <3>1
    <3> QED
      BY <1>2, <1>3, <1>6, <1>9, <3>2
  <2>2. host'.conn = k /\ host'.last = host.last
    BY <1>2, <1>9
  <2>3. Following(up'[k], Reached')
    <3>1. Following(Tail(up[k]), Reached \cup {c}) /\ Reached \cup {c} \subseteq Reached'
      BY <1>3, <1>7, <1>12
    <3>2. Following(Tail(up[k]), Reached')
      BY <3>1, StillFollowing
    <3> QED
      BY <1>4, <3>2
  <2>4. client.conn = k /\ client.at = "live" =>
           client.pending \subseteq client.out \cup Reached' \cup Unread(k)'
    <3>1. client.conn = k /\ client.at = "live" =>
             client.pending \subseteq client.out \cup Reached \cup Unread(k)
      BY <1>6 DEF Followed
    <3>2. Unread(k) \subseteq Unread(k)' \cup {c}
      BY <1>3, <1>4 DEF Unread
    <3> QED
      BY <1>12, <3>1, <3>2
  <2> QED
    BY <2>1, <2>2, <2>3, <2>4 DEF Followed
<1>27. Refusals'
  <2>1. \A d \in 1..(client.next - 1) \ client.pending : d \in host'.pending => told[d] # "nothing"
    <3> SUFFICES ASSUME NEW d \in 1..(client.next - 1) \ client.pending, d \in host'.pending,
                        told[d] = "nothing"
                 PROVE  FALSE
      OBVIOUS
    <3>1. d = c /\ d <= client.lastC
      BY <1>12 DEF Refusals
    <3> QED
      BY <1>6, <1>8, <3>1 DEF Counted
  <2>2. /\ host'.paired = host.paired /\ host'.answers = host.answers
        /\ host'.forgot = host.forgot
    BY <1>2, <1>9 DEF SameBooks
  <2> QED
    BY <1>12, <2>1, <2>2 DEF Refusals
<1> QED
  BY <1>18, <1>19, <1>20, <1>21, <1>22, <1>23, <1>24, <1>25, <1>26, <1>27

LEMMA HostReadsKeeps ==
    ASSUME IInv, NEW k \in Conns, HostReads(k)
    PROVE  IInv'
<1> DEFINE m == Head(up[k])
<1>1. /\ serving[k] = "open" /\ up[k] # <<>>
      /\ UNCHANGED <<client, shell, sending, told, late, bound>>
  BY DEF HostReads, desk, history
<1>2. m \in Uplink /\ (m.t = "commit" => m.c \in Unread(k) /\ m.c \in Commits)
  <2>1. up[k] \in Seq(Uplink) /\ up[k] # <<>>
    BY <1>1 DEF IInv, TypeOK
  <2> QED
    BY <2>1, ReadOne DEF Unread
<1>3. CASE m.t = "bye" /\ EndTask(k, "bye", FALSE, host)
  <2>1. "bye" \in Over
    BY DEF Over
  <2> QED
    BY <1>1, <1>3, <2>1, EndTaskKeeps
<1>4. CASE /\ host.conn # k /\ up' = [up EXCEPT ![k] = Tail(@)]
           /\ UNCHANGED <<serving, box, host, events>>
  BY <1>1, <1>4, IdleReadKeeps
<1>5. CASE /\ m.t = "quiet" /\ host.conn = k /\ up' = [up EXCEPT ![k] = Tail(@)]
           /\ host' = Confirm(host)
           /\ UNCHANGED <<serving, box, events>>
  BY <1>1, <1>5, IdleReadKeeps
<1>6. CASE /\ m.t = "commit" /\ host.conn = k
           /\ IF BreaksOrder(Confirm(host), m.c)
              THEN EndTask(k, "violation", FALSE, Confirm(host))
              ELSE /\ up' = [up EXCEPT ![k] = Tail(@)]
                   /\ host' = Receive(Confirm(host), m.c)
                   /\ box' = Queue(box, k, SetToSeq(AnswersTo(Confirm(host), m.c)))
                   /\ events' = IF IsNew(Confirm(host), m.c)
                                THEN Append(events, [t |-> "commit", c |-> m.c]) ELSE events
                   /\ UNCHANGED serving
  <2>1. ~BreaksOrder(Confirm(host), m.c)
    <3>1. host \in Sessions /\ k # NoConn
      BY Fields DEF IInv, TypeOK
    <3>2. Confirm(host).last = host.last /\ Confirm(host).connLast = host.connLast
      BY <3>1, ConfirmFacts
    <3>3. m.c > host.last /\ m.c > host.connLast
      BY <1>2, <1>6, <3>1 DEF IInv, Ordered, InOrderOn
    <3>4. m.c \in Nat /\ host.last \in Nat /\ host.connLast \in Nat
      BY <1>2, <1>6, Fields DEF IInv
    <3> QED
      BY <3>2, <3>3, <3>4 DEF BreaksOrder
  <2> HIDE DEF m
  <2>2. PICK c : c = m.c
    OBVIOUS
  <2>3. /\ up' = [up EXCEPT ![k] = Tail(@)]
        /\ host' = Receive(Confirm(host), c)
        /\ box' = Queue(box, k, SetToSeq(AnswersTo(Confirm(host), c)))
        /\ events' = IF IsNew(Confirm(host), c)
                     THEN Append(events, [t |-> "commit", c |-> c]) ELSE events
        /\ UNCHANGED serving
    BY <1>6, <2>1, <2>2
  <2>4. Head(up[k]).t = "commit" /\ c = Head(up[k]).c /\ host.conn = k
    BY <1>6, <2>2 DEF m
  <2> QED
    BY <1>1, <2>3, <2>4, CommitArrivesKeeps
<1> QED
  BY <1>1, <1>3, <1>4, <1>5, <1>6 DEF HostReads

\* A hello is accepted. Its token is that of the client, unless the hello of
\* a later attempt has been read before it.
LEMMA HostAdmitsKeeps ==
    ASSUME IInv, NEW k \in Conns, HostAdmits(k)
    PROVE  IInv'
<1> USE DEF IInv
<1> DEFINE token == Head(up[k]).c
<1> DEFINE new == Admit(host, k, token)
<1> DEFINE old == IF host.conn = NoConn THEN box
                  ELSE [box EXCEPT ![host.conn] = CloseBox(@, "replaced", FALSE)]
<1> DEFINE gone == IF host.conn = NoConn THEN <<>> ELSE <<[t |-> "gone", c |-> 0]>>
<1> DEFINE wanted == IF host.logState = "stale" THEN <<[t |-> "wanted", c |-> 0]>> ELSE <<>>
<1>1. /\ serving[k] = "hello" /\ up[k] # <<>> /\ ~host.ended /\ Accepts(host, token)
      /\ host' = new /\ box' = Queue(old, k, Entrance(new))
      /\ events' = events \o gone \o wanted
      /\ serving' = [serving EXCEPT ![k] = "open"]
      /\ up' = [up EXCEPT ![k] = Tail(@)]
      /\ late' = (late \/ \E j \in Conns : j > k /\ serving[j] \in {"open", "done"})
      /\ UNCHANGED <<client, shell, sending, told, bound>>
  BY DEF HostAdmits, desk
<1>2. /\ host \in Sessions /\ up \in [Conns -> Seq(Uplink)] /\ box \in [Conns -> Boxes]
      /\ events \in Seq(Events) /\ serving \in [Conns -> {"none", "hello", "open", "done"}]
  BY DEF TypeOK
<1>3. /\ k # NoConn /\ client.conn \in Conns /\ Conns \subseteq Nat
      /\ host.conn # NoConn => host.conn \in Conns
      /\ client.lastC \in 0..MaxCommits /\ MaxCommits \in Nat
      /\ client.next \in 1..(MaxCommits + 1)
      /\ host.max \in 0..MaxCommits /\ host.last \in 0..MaxCommits
      /\ host.token \in Nat /\ client.token \in Nat
  BY Fields
<1>4. token \in Nat /\ Tail(up[k]) = <<>> /\ Head(up[k]) \in Range(up[k])
  <2>1. up[k] \in Seq(Uplink) /\ up[k] # <<>>
    BY <1>1, <1>2
  <2>2. /\ Tail(up[k]) \in Seq(Uplink) /\ Len(Tail(up[k])) = Len(up[k]) - 1
        /\ Len(up[k]) \in Nat /\ Head(up[k]) \in Uplink /\ Head(up[k]) \in Range(up[k])
    BY <2>1, ReadOne
  <2>3. Len(up[k]) <= 1 /\ Len(Tail(up[k])) \in Nat
    BY <1>1, <2>2, LenProperties DEF Wired
  <2>4. Head(up[k]).t = "hello"
    BY <1>1, <2>2 DEF Wired
  <2>5. token \in Nat
    BY <2>2, <2>4 DEF Uplink
  <2> QED
    BY <2>2, <2>3, <2>5, EmptySeq
<1> HIDE DEF token
<1>5. /\ new \in Sessions /\ Keeper(new) /\ Len(new.log) <= LogHard
      /\ new.paired = host.paired /\ new.token = host.admitted + 1 /\ new.previous = token
      /\ new.conn = k /\ new.connLast = 0 /\ new.ended = host.ended
      /\ new.max = host.max /\ new.last \in host.last..host.max /\ new.pending = host.pending
      /\ \A c \in host.pending : c > new.last
      /\ new.answers \subseteq host.answers /\ host.forgot \subseteq new.forgot
      /\ \A a \in host.answers : a.t = "nack" => a \in new.answers \/ a.c \in new.forgot
  <2>1. Len(host.log) <= LogHard /\ Keeper(host)
    BY DEF TypeOK
  <2>2. host.pending \subseteq (host.last + 1)..host.max /\ host.last <= host.max
    BY DEF Counted
  <2> QED
    BY <1>2, <1>4, <2>1, <2>2, AdmitFacts
<1> HIDE DEF new
<1>6. \A j \in Conns : /\ old[j] \in Boxes /\ Len(old[j].items) <= OutboxItems
                       /\ old[j] = box[j] \/ (j = host.conn /\ old[j].items = <<>>)
                       /\ old[j].close \in {box[j].close, "replaced"}
      /\ old \in [Conns -> Boxes]
  <2>1. \A j \in Conns : box[j] \in Boxes /\ Len(box[j].items) <= OutboxItems
    BY DEF TypeOK
  <2>2. CASE host.conn = NoConn
    BY <1>2, <2>1, <2>2
  <2>3. CASE host.conn # NoConn
    <3> DEFINE b == CloseBox(box[host.conn], "replaced", FALSE)
    <3>1. old = [box EXCEPT ![host.conn] = b]
      BY <2>3
    <3>2. /\ b \in Boxes /\ Len(b.items) <= OutboxItems
          /\ b = box[host.conn] \/ b.items = <<>>
          /\ b.close \in {box[host.conn].close, "replaced"}
      <4>1. box[host.conn] \in Boxes /\ Len(box[host.conn].items) <= OutboxItems
        BY <1>3, <2>1, <2>3
      <4>2. <<>> \in Seq(Messages) /\ Len(<<>>) = 0 /\ OutboxItems \in Nat
        BY EmptySeq, HostAssumption
      <4>3. [items |-> <<>>, close |-> "replaced"] \in Boxes
        BY <4>2 DEF Boxes
      <4> QED
        BY <4>1, <4>2, <4>3 DEF CloseBox
    <3> HIDE DEF b, old
    <3>3. host.conn \in Conns
      BY <1>3, <2>3
    <3> QED
      BY <1>2, <2>1, <3>1, <3>2, <3>3
  <2> QED
    BY <2>2, <2>3
<1>7. host.conn # k
  BY <1>1, <1>3 DEF Wired
<1>8. old[k] = EmptyBox
  BY <1>1, <1>6, <1>7 DEF Wired
<1> HIDE DEF old
<1> DEFINE b == PushAll(EmptyBox, Entrance(new))
<1> DEFINE Queued == {Msg("welcome", new.last, new.token)} \cup Changes \cup new.answers
<1>9. /\ b \in Fitting /\ WelcomeFirst(b.items) /\ b.close # "violation"
      /\ Range(b.items) \subseteq Queued
  <2>1. /\ Entrance(new) \in Seq(Messages) /\ Range(Entrance(new)) \subseteq Queued
        /\ \A i \in 1..Len(Entrance(new)) : Entrance(new)[i].t = "welcome" => i = 1
    BY <1>5, EntranceFacts
  <2>2. /\ EmptyBox \in Fitting /\ EmptyBox.items = <<>> /\ Range(EmptyBox.items) = {}
        /\ WelcomeFirst(EmptyBox.items) /\ EmptyBox.close = "open"
    <3>1. <<>> \in Seq(Messages) /\ Len(<<>>) = 0
      BY EmptySeq
    <3>2. EmptyBox.items = <<>> /\ EmptyBox.close = "open" /\ Range(<<>>) = {}
      BY <3>1, RangeIsPart DEF EmptyBox
    <3>3. EmptyBox \in Fitting
      BY <3>1, HostAssumption DEF EmptyBox, Fitting, Boxes
    <3> QED
      BY <3>1, <3>2, <3>3 DEF WelcomeFirst
  <2> DEFINE e == Entrance(new)
  <2>3. e \in Seq(Messages)
    BY <2>1
  <2>4. \A i \in 1..Len(e) : e[i].t = "welcome" => i = 1
    BY <2>1
  <2> HIDE DEF e
  <2>5. /\ PushAll(EmptyBox, e) \in Fitting
        /\ Range(PushAll(EmptyBox, e).items) \subseteq Range(EmptyBox.items) \cup Range(e)
        /\ PushAll(EmptyBox, e).close \in {EmptyBox.close, "congested"}
        /\ WelcomeFirst(PushAll(EmptyBox, e).items)
    BY <2>2, <2>3, <2>4, PushAllFacts
  <2> HIDE DEF Queued
  <2> QED
    BY <2>1, <2>2, <2>5 DEF e
<1>10. box' = [old EXCEPT ![k] = IF LetGo(k) THEN @ ELSE PushAll(@, Entrance(new))]
  BY <1>1 DEF Queue
<1>11. /\ box' \in [Conns -> Boxes] /\ \A j \in Conns : j # k => box'[j] = old[j]
       /\ box'[k] \in {EmptyBox, b}
  <2>1. box' = [old EXCEPT ![k] = IF LetGo(k) THEN EmptyBox ELSE b]
    BY <1>8, <1>10
  <2>2. EmptyBox \in Boxes /\ b \in Boxes
    BY <1>6, <1>8, <1>9 DEF Fitting
  <2> HIDE DEF b
  <2> QED
    BY <1>6, <2>1, <2>2
<1> HIDE DEF b
<1>12. /\ WelcomeFirst(box'[k].items) /\ box'[k].close # "violation"
       /\ Len(box'[k].items) <= OutboxItems /\ Range(box'[k].items) \subseteq Queued
  <2>1. <<>> \in Seq(Messages) /\ Len(<<>>) = 0
    BY EmptySeq
  <2>2. Range(EmptyBox.items) = {} /\ Len(EmptyBox.items) = 0 /\ EmptyBox.close = "open"
    BY <2>1, RangeIsPart DEF EmptyBox
  <2> HIDE DEF Queued
  <2> QED
    BY <1>9, <1>11, <2>2, HostAssumption DEF Fitting, WelcomeFirst
<1>13. /\ serving' \in [Conns -> {"none", "hello", "open", "done"}] /\ serving'[k] = "open"
       /\ \A j \in Conns : j # k => serving'[j] = serving[j]
       /\ up' \in [Conns -> Seq(Uplink)] /\ up'[k] = <<>>
       /\ \A j \in Conns : j # k => up'[j] = up[j]
  <2>1. up' = [up EXCEPT ![k] = <<>>] /\ <<>> \in Seq(Uplink)
    BY <1>1, <1>4, EmptySeq
  <2> QED
    BY <1>1, <1>2, <2>1
<1>14. Unread(k)' = {} /\ \A j \in Conns : Unread(j)' \subseteq Unread(j)
  <2>1. <<>> \in Seq(Uplink) /\ CommitsOf(<<>>) = {}
    BY EmptySeq, CommitIsIn
  <2> QED
    BY <1>13, <2>1 DEF Unread
<1>15. \A j \in Conns : j # k => /\ Range(box'[j].items) \subseteq Range(box[j].items)
                                 /\ Len(box'[j].items) <= OutboxItems
                                 /\ WelcomeFirst(box'[j].items)
                                 /\ box'[j].close # "violation"
                                 /\ Welcomes(j)' \subseteq Welcomes(j)
  <2>1. <<>> \in Seq(Messages) /\ Len(<<>>) = 0 /\ OutboxItems \in Nat
    BY EmptySeq, HostAssumption
  <2>2. Range(<<>>) = {} /\ WelcomeFirst(<<>>)
    <3>1. Range(<<>>) = {}
      BY <2>1, RangeIsPart
    <3>2. \A q : Len(q) = 0 => WelcomeFirst(q)
      BY DEF WelcomeFirst
    <3> QED
      BY <2>1, <3>1, <3>2
  <2>3. \A j \in Conns : box[j].close # "violation" /\ WelcomeFirst(box[j].items)
    BY DEF Ordered, Wired
  <2>4. \A j \in Conns : j # k => Range(box'[j].items) \subseteq Range(box[j].items)
    BY <1>6, <1>11, <2>2
  <2> QED
    BY <1>6, <1>11, <2>2, <2>3, <2>4 DEF Welcomes
<1>16. \A m \in Welcomes(k)' : m.c = new.last /\ m.n = new.token
  <2>1. \A m \in new.answers \cup Changes : m.t # "welcome"
    BY <1>5 DEF Sessions, Answers, Changes
  <2> QED
    BY <1>12, <2>1 DEF Welcomes, Msg
<1>17. events' \in Seq(Events) /\ \A e \in Range(events') : e.t = "commit" => e \in Range(events)
  <2> DEFINE Other == [t : {"gone", "wanted"}, c : {0}]
  <2>1. gone \in Seq(Other) /\ wanted \in Seq(Other)
    <3>1. [t |-> "gone", c |-> 0] \in Other /\ [t |-> "wanted", c |-> 0] \in Other
      OBVIOUS
    <3> HIDE DEF Other
    <3> QED
      BY <3>1, EmptySeq
  <2>2. Other \subseteq Events /\ \A e \in Other : e.t # "commit"
    BY DEF Events
  <2>3. events' = events \o gone \o wanted
    BY <1>1
  <2> HIDE DEF Other, gone, wanted
  <2>4. gone \in Seq(Events) /\ wanted \in Seq(Events)
    BY <2>1, <2>2, SeqMonotonic
  <2>5. Range(gone) \subseteq Other /\ Range(wanted) \subseteq Other
    BY <2>1, RangeIsPart
  <2>6. events \o gone \in Seq(Events) /\ Range(events \o gone) = Range(events) \cup Range(gone)
    BY <1>2, <2>4, ConcatRange
  <2> DEFINE p == events \o gone
  <2>7. p \in Seq(Events) /\ Range(p) = Range(events) \cup Range(gone) /\ events' = p \o wanted
    BY <2>3, <2>6
  <2> HIDE DEF p
  <2>8. p \o wanted \in Seq(Events) /\ Range(p \o wanted) = Range(p) \cup Range(wanted)
    BY <2>4, <2>7, ConcatRange
  <2> QED
    BY <2>2, <2>5, <2>7, <2>8
<1> HIDE DEF gone, wanted
<1>18. TypeOK'
  <2>1. late' \in BOOLEAN
    BY <1>1 DEF TypeOK
  <2> QED
    BY <1>1, <1>5, <1>11, <1>12, <1>13, <1>15, <1>17, <2>1 DEF TypeOK
<1>19. client.at = "live" => client.conn # k
  BY <1>1 DEF Wired
<1>20. k <= client.conn
  <2>1. serving[k] = "none" <=> k > client.conn
    BY DEF Wired
  <2>2. ~(k > client.conn)
    BY <1>1, <2>1
  <2>3. k \in Nat /\ client.conn \in Nat
    BY <1>3
  <2> QED
    BY <2>2, <2>3
<1>21. Wired'
  <2>1. ASSUME NEW j \in Conns
        PROVE  /\ serving'[j] = "none" <=> j > client.conn
               /\ serving'[j] = "none" => up'[j] = <<>> /\ box'[j] = EmptyBox
               /\ serving'[j] = "hello" => /\ box'[j] = EmptyBox /\ Len(up'[j]) <= 1
                                           /\ \A m \in Range(up'[j]) : m.t = "hello"
               /\ WelcomeFirst(box'[j].items)
    <3>1. CASE j = k
      BY <1>1, <1>3, <1>12, <1>13, <1>20, <3>1
    <3>2. CASE j # k
      <4>1. serving'[j] = serving[j] /\ up'[j] = up[j] /\ WelcomeFirst(box'[j].items)
        BY <1>13, <1>15, <3>2
      <4>2. serving[j] \in {"none", "hello"} => box'[j] = box[j]
        <5>1. serving[j] \in {"none", "hello"} => j # host.conn
          BY Fields DEF Wired
        <5> QED
          BY <1>6, <1>11, <3>2, <5>1
      <4> QED
        BY <4>1, <4>2 DEF Wired
    <3> QED
      BY <3>1, <3>2
  <2>2. host'.conn = k /\ serving'[k] = "open" /\ host'.paired
    BY <1>1, <1>5, <1>13 DEF Accepts
  <2>3. client.at = "live" => /\ serving'[client.conn] \in {"open", "done"}
                              /\ Welcomes(client.conn)' = {}
    <3> SUFFICES ASSUME client.at = "live"
                 PROVE  /\ serving'[client.conn] \in {"open", "done"}
                        /\ Welcomes(client.conn)' = {}
      OBVIOUS
    <3>1. PICK n \in Conns : n = client.conn
      BY <1>3
    <3>2. n = client'.conn /\ n # k
      BY <1>1, <1>19, <3>1
    <3>3. serving[n] \in {"open", "done"} /\ Welcomes(n) = {}
      BY <3>1 DEF Wired
    <3>4. serving'[n] \in {"open", "done"} /\ Welcomes(n)' = {}
      BY <1>13, <1>15, <3>2, <3>3
    <3> QED
      BY <3>1, <3>2, <3>4
  <2>4. client.at = "trying" => /\ serving'[client.conn] # "hello" => up'[client.conn] = <<>>
                                /\ host'.conn = client.conn => host'.connLast = 0
    BY <1>1, <1>3, <1>5, <1>13 DEF Wired
  <2>5. client' = client
    BY <1>1
  <2> QED
    BY <1>3, <2>1, <2>2, <2>3, <2>4, <2>5 DEF Wired
<1>22. Counted'
  <2>1. new.last \in Int /\ new.last >= host.last /\ new.last <= host.max
    BY <1>3, <1>5
  <2>2. \A j \in Conns : \A m \in Welcomes(j)' : m.c <= new.last
    <3> SUFFICES ASSUME NEW j \in Conns, NEW m \in Welcomes(j)' PROVE m.c <= new.last
      OBVIOUS
    <3>1. CASE j = k
      BY <1>16, <2>1, <3>1
    <3>2. CASE j # k
      <4>1. m \in Welcomes(j) /\ m.c <= host.last
        BY <1>15, <3>2 DEF Counted
      <4>2. m.c \in 0..MaxCommits
        <5>1. box[j].items \in Seq(Messages) /\ m \in Range(box[j].items) /\ m.t = "welcome"
          BY <1>2, <4>1 DEF Welcomes, Boxes
        <5>2. m \in Messages
          BY <5>1, RangeIsPart
        <5> QED
          BY <5>1, <5>2 DEF Messages, Words, Changes, Answers
      <4> QED
        BY <1>3, <2>1, <4>1, <4>2
    <3> QED
      BY <3>1, <3>2
  <2>3. \A m \in Welcomes(client.conn)' : client.lastC <= m.c
    <3>1. PICK n \in Conns : n = client.conn
      BY <1>3
    <3>2. n = client'.conn /\ client.lastC <= host.last
      BY <1>1, <3>1 DEF Counted
    <3>3. CASE n = k
      BY <1>3, <1>16, <2>1, <3>1, <3>2, <3>3
    <3>4. CASE n # k
      BY <1>15, <3>1, <3>2, <3>4 DEF Counted
    <3> QED
      BY <3>3, <3>4
  <2>4. host'.pending \subseteq (new.last + 1)..host.max
    BY <1>1, <1>3, <1>5, <2>1 DEF Counted
  <2>5. client.lastC <= new.last
    BY <1>3, <2>1 DEF Counted
  <2> QED
    <3>1. /\ host'.last = new.last /\ host'.max = host.max /\ host'.connLast = 0
          /\ client' = client /\ host.max < client.next
      BY <1>1, <1>5 DEF Counted
    <3>2. host'.last <= host'.max /\ host'.connLast < client.next
      BY <1>3, <2>1, <3>1
    <3>3. \A j \in Conns : Unread(j)' \subseteq 1..(client.next - 1)
      BY <1>14 DEF Counted
    <3> QED
      BY <2>2, <2>3, <2>4, <2>5, <3>1, <3>2, <3>3 DEF Counted
<1>23. Ordered'
  <2>1. InOrderOn(k)'
    <3>1. Rising(up'[k])
      BY <1>13, EmptySeq DEF Rising
    <3> QED
      BY <1>1, <1>14, <1>16, <1>19, <3>1 DEF InOrderOn
  <2> QED
    BY <1>1, <1>5, <1>12, <1>15, <2>1 DEF Ordered
<1>24. Tokens'
  <2> SUFFICES ASSUME ~late, \A j \in Conns : j > k => serving[j] \notin {"open", "done"}
               PROVE  Tokens'
    BY <1>1 DEF Tokens
  <2>1. host.paired
    BY <1>1 DEF Accepts
  <2>2. token = client.token
    BY <1>1, <1>4, <2>1 DEF Tokens, token
  <2>3. Accepts(host', client.token)
    BY <1>1, <1>5, <2>1, <2>2 DEF Accepts
  <2>4. client.at # "live"
    BY <1>3, <1>19, <1>20 DEF Wired
  <2>5. \A m \in Welcomes(client.conn)' : m.n = host'.token
    <3>1. PICK n \in Conns : n = client.conn
      BY <1>3
    <3>2. n = client'.conn
      BY <1>1, <3>1
    <3>3. CASE n = k
      BY <1>1, <1>16, <3>1, <3>2, <3>3
    <3>4. CASE n # k
      <4>1. n > k
        BY <1>3, <1>20, <3>1, <3>4
      <4>2. serving[n] = "hello"
        BY <1>2, <1>3, <3>1, <4>1 DEF Wired
      <4>3. box[n] = EmptyBox /\ Range(<<>>) = {}
        BY <4>2, EmptySeq, RangeIsPart DEF Wired
      <4>4. Welcomes(n) = {}
        BY <4>3 DEF Welcomes, EmptyBox
      <4> QED
        BY <1>15, <3>1, <3>2, <3>4, <4>4
    <3> QED
      BY <3>3, <3>4
  <2>6. ASSUME NEW j \in Conns, serving'[j] = "hello",
               \A n \in Conns : n > j => serving'[n] \notin {"open", "done"}
        PROVE  \A m \in Range(up'[j]) : m.c = client.token
    <3>1. j # k /\ ~(k > j)
      BY <1>13, <2>6
    <3>2. serving[j] = "hello" /\ up'[j] = up[j]
      BY <1>13, <2>6, <3>1
    <3>3. \A n \in Conns : n > j => serving[n] \notin {"open", "done"}
      BY <1>13, <2>6, <3>1
    <3> QED
      BY <2>1, <3>2, <3>3 DEF Tokens
  <2> QED
    BY <1>1, <1>5, <1>13, <2>3, <2>4, <2>5, <2>6 DEF Tokens
<1>25. Decided'
  <2>1. \A m \in new.answers : RightIn(shell, m)
    BY <1>5 DEF Decided
  <2>2. \A m \in Queued : RightIn(shell, m)
    BY <2>1 DEF RightIn, Fate, Changes, Msg
  <2>3. \A j \in Conns : AllRight(shell, box'[j].items)
    BY <1>12, <1>15, <2>2 DEF Decided, AllRight
  <2> QED
    BY <1>1, <2>1, <2>3 DEF Decided
<1>26. Heard'
  <2>1. shell.stop # "done"
    BY <1>1 DEF Heard
  <2> QED
    BY <1>1, <1>5, <1>17, <2>1 DEF Heard
<1>27. Followed'
  <2>1. 1..new.last \subseteq shell.answered
    <3> SUFFICES ASSUME NEW d \in 1..new.last PROVE d \in shell.answered
      OBVIOUS
    <3>1. d \in 1..host.max /\ d \notin host.pending
      BY <1>3, <1>5
    <3> QED
      BY <3>1 DEF Followed, Reached
  <2>2. Following(up'[k], Reached')
    BY <1>13, EmptySeq DEF Following
  <2>3. host'.conn = k /\ Reached' = Reached /\ client' = client /\ shell' = shell
    BY <1>1, <1>5 DEF Reached
  <2> QED
    BY <1>1, <1>5, <1>19, <2>1, <2>2, <2>3 DEF Followed
<1>28. Refusals'
  BY <1>1, <1>5 DEF Refusals
<1>29. Keeper(host')
  BY <1>1, <1>5
<1> QED
  BY <1>18, <1>21, <1>22, <1>23, <1>24, <1>25, <1>26, <1>27, <1>28, <1>29

-----------------------------------------------------------------------------
(* The steps of the shell.                                                 *)

\* The shell has gone on: what was answered is as it was, and what it has
\* newly refused waits in the host.
LEMMA ShellKeeps ==
    ASSUME IInv, shell' \in Shells, Sound(shell'), Later(shell, shell'),
           shell'.refused \subseteq shell.refused \cup host.pending,
           sending' \in Seq(Words), AllRight(shell', sending'),
           events' \in Seq(Events), Range(events') \subseteq Range(events),
           shell'.stop \in {"closing", "done"} => host.ended,
           shell'.stop = "done" => /\ host.pending \subseteq shell'.answered
                                   /\ \A k \in Conns : serving[k] \notin {"hello", "open"},
           UNCHANGED <<client, up, serving, box, host, told, late, bound>>
    PROVE  IInv'
<1> USE DEF IInv
<1>1. TypeOK'
  BY DEF TypeOK
<1>2. /\ Wired' /\ Counted' /\ Keeper(host)'
  BY DEF Wired, Welcomes, Counted, Unread, Keeper
<1>3. Ordered' /\ Tokens'
  <2>1. \A k \in Conns : InOrderOn(k)' <=> InOrderOn(k)
    BY DEF InOrderOn, Welcomes, Unread
  <2>2. Ordered'
    BY Fields, <2>1 DEF Ordered
  <2> QED
    BY <2>2 DEF Tokens, Accepts, Welcomes
<1>4. Decided'
  <2>1. \A m : RightIn(shell, m) => RightIn(shell', m)
    BY StaysRight
  <2> QED
    BY <2>1 DEF Decided, AllRight
<1>5. shell.answered \subseteq shell'.answered /\ Reached \subseteq Reached'
  BY DEF Later, Reached
<1>6. Heard'
  BY <1>5 DEF Heard
<1>7. Followed'
  <2>1. host.conn # NoConn => Following(up[host.conn], Reached')
    BY <1>5, StillFollowing DEF Followed
  <2> QED
    BY <1>5, <2>1 DEF Followed, Unread
<1>8. Refusals'
  BY DEF Refusals
<1> QED
  BY <1>1, <1>2, <1>3, <1>4, <1>6, <1>7, <1>8

\* What the shell is, and what it has to say.
LEMMA ShellFields ==
    ASSUME IInv
    PROVE  /\ shell \in Shells /\ Sound(shell) /\ sending \in Seq(Words) /\ AllRight(shell, sending)
           /\ events \in Seq(Events) /\ host.pending \subseteq Commits
           /\ shell.stop \in {"closing", "done"} => host.ended
           /\ bound.outcomes \subseteq Fate /\ bound.edits \in Nat
BY BoundsAssumption DEF IInv, TypeOK, Decided, Heard, Sessions, Fate

\* A part of the record that is not about commits.
LEMMA SameFate ==
    ASSUME NEW s, Sound(s), NEW t, t.doc = s.doc, t.answered = s.answered, t.refused = s.refused
    PROVE  Sound(t) /\ Later(s, t) /\ \A q : AllRight(s, q) => AllRight(t, q)
BY DEF Sound, Later, DoneIn, AllRight, RightIn

LEMMA TakenKeeps ==
    ASSUME IInv, NEW s \in Shells, s.doc = shell.doc, s.answered = shell.answered,
           s.refused = shell.refused, NEW C, C \subseteq host.pending \cup shell.answered,
           C \subseteq Commits, NEW o \in [C -> bound.outcomes], NEW answer,
           NEW t \in Shells, LET d == Taken(o, answer, s)
                             IN  /\ t.doc = d.s.doc /\ t.answered = d.s.answered
                                 /\ t.refused = d.s.refused /\ sending' = d.q,
           shell' = t,
           t.stop \in {"closing", "done"} => host.ended,
           t.stop = "done" => /\ host.pending \subseteq C
                              /\ \A k \in Conns : serving[k] \notin {"hello", "open"},
           events' \in Seq(Events), Range(events') \subseteq Range(events),
           UNCHANGED <<client, up, serving, box, host, told, late, bound>>
    PROVE  IInv'
<1>1. /\ Sound(shell) /\ sending \in Seq(Words) /\ AllRight(shell, sending)
      /\ bound.outcomes \subseteq Fate
  BY ShellFields
<1>2. Sound(s) /\ Later(shell, s) /\ AllRight(s, sending)
  BY <1>1, SameFate
<1> DEFINE d == Taken(o, answer, s)
<1>3. /\ d.s \in Shells /\ d.q \in Seq(Words)
      /\ Sound(d.s) /\ AllRight(d.s, d.q) /\ Later(s, d.s)
      /\ d.s.answered = s.answered \cup C
      /\ d.s.refused \subseteq s.refused \cup (C \ s.answered)
  <2>1. o \in [C -> Fate] /\ C \in SUBSET Commits
    BY <1>1
  <2> QED
    BY <1>1, <1>2, <2>1, TakenFacts
<1>4. /\ t.doc = d.s.doc /\ t.answered = d.s.answered /\ t.refused = d.s.refused
      /\ sending' = d.q
  OBVIOUS
<1> HIDE DEF d
<1> DEFINE r == d.s
<1>5. Sound(t) /\ Later(r, t) /\ AllRight(t, sending')
  <2>1. Sound(r) /\ t.doc = r.doc /\ t.answered = r.answered /\ t.refused = r.refused
    BY <1>3, <1>4
  <2>2. AllRight(r, sending')
    BY <1>3, <1>4
  <2> HIDE DEF r
  <2> QED
    BY <2>1, <2>2, SameFate
<1>6. Later(shell, t)
  <2>1. Later(shell, r)
    BY <1>2, <1>3, LaterStill
  <2> HIDE DEF r
  <2> QED
    BY <1>5, <2>1, LaterStill
<1>7. t.refused \subseteq shell.refused \cup host.pending
  BY <1>3, <1>4
<1>8. t.stop = "done" => host.pending \subseteq t.answered
  BY <1>3, <1>4
<1>9. sending' \in Seq(Words)
  BY <1>3, <1>4
<1> QED
  BY <1>5, <1>6, <1>7, <1>8, <1>9, ShellKeeps

LEMMA ReconcileKeeps ==
    ASSUME IInv, Reconcile
    PROVE  IInv'
<1> DEFINE s == [shell EXCEPT !.asks = @ - 1]
<1>1. /\ shell.stop # "done" /\ shell.asks > 0 /\ TakeAll(host.pending, TRUE, s)
      /\ UNCHANGED <<client, up, serving, box, host, events, told, late, bound>>
  BY DEF Reconcile, wire, history
<1>2. shell \in Shells /\ host.pending \subseteq Commits /\ events \in Seq(Events)
  BY ShellFields
<1>3. shell.asks - 1 \in Nat
  BY <1>1, <1>2 DEF Shells
<1>4. /\ s \in Shells /\ s.doc = shell.doc /\ s.answered = shell.answered
      /\ s.refused = shell.refused /\ s.stop = shell.stop
  BY <1>2, <1>3 DEF Shells
<1> HIDE DEF s
<1> DEFINE C == host.pending
<1>5. PICK o \in [C -> bound.outcomes] :
         shell' = Taken(o, TRUE, s).s /\ sending' = Taken(o, TRUE, s).q
  BY <1>1 DEF TakeAll
<1>6. Taken(o, TRUE, s).s \in Shells /\ Taken(o, TRUE, s).s.stop = s.stop
  <2>1. /\ Sound(shell) /\ sending \in Seq(Words) /\ AllRight(shell, sending)
        /\ bound.outcomes \subseteq Fate
    BY ShellFields
  <2>2. Sound(s) /\ AllRight(s, sending) /\ o \in [C -> Fate] /\ C \in SUBSET Commits
    BY <1>2, <1>4, <2>1, SameFate
  <2> HIDE DEF C
  <2>3. Taken(o, TRUE, s).s \in Shells /\ SameDuties(Taken(o, TRUE, s).s, s)
    BY <1>4, <2>1, <2>2, TakenFacts
  <2> QED
    BY <2>3 DEF SameDuties
<1> QED
  <2> DEFINE t == Taken(o, TRUE, s).s
  <2>1. t \in Shells /\ shell' = t /\ t.stop = shell.stop /\ t.stop # "done"
    BY <1>1, <1>4, <1>5, <1>6
  <2>2. t.stop \in {"closing", "done"} => host.ended
    BY <2>1, ShellFields
  <2>3. Range(events') \subseteq Range(events) /\ events' \in Seq(Events)
    BY <1>1, <1>2
  <2>4. LET d == Taken(o, TRUE, s)
        IN  /\ t.doc = d.s.doc /\ t.answered = d.s.answered
            /\ t.refused = d.s.refused /\ sending' = d.q
    BY <1>5
  <2>5. C \subseteq host.pending \cup shell.answered /\ C \subseteq Commits
    BY <1>2
  <2> HIDE DEF t, C
  <2> QED
    BY <1>1, <1>4, <2>1, <2>2, <2>3, <2>4, <2>5, TakenKeeps

\* The commits that wait are answered, or those that come back are applied.
LEMMA StopAnswersKeeps ==
    ASSUME IInv, StopAnswers
    PROVE  IInv'
<1> DEFINE C == host.pending
<1>1. PICK o \in [C -> bound.outcomes] :
         LET d == Taken(o, TRUE, shell)
         IN  /\ shell' = [d.s EXCEPT !.stop = "sending", !.await = Len(d.q)]
             /\ sending' = d.q
  BY DEF StopAnswers
<1>2. UNCHANGED <<client, up, serving, box, host, events, told, late, bound>>
  BY DEF StopAnswers, wire, history
<1>3. /\ shell \in Shells /\ C \subseteq Commits /\ events \in Seq(Events)
      /\ Sound(shell) /\ sending \in Seq(Words) /\ AllRight(shell, sending)
      /\ bound.outcomes \subseteq Fate
  BY ShellFields
<1> HIDE DEF C
<1> DEFINE r == Taken(o, TRUE, shell).s
<1> DEFINE q == Taken(o, TRUE, shell).q
<1>4. r \in Shells /\ q \in Seq(Words)
  <2>1. o \in [C -> Fate] /\ C \in SUBSET Commits
    BY <1>3
  <2> QED
    BY <1>3, <2>1, TakenFacts
<1>5. shell' = [r EXCEPT !.stop = "sending", !.await = Len(q)] /\ sending' = q
  BY <1>1
<1> HIDE DEF r, q
<1>6. /\ shell' \in Shells /\ shell'.doc = r.doc /\ shell'.answered = r.answered
      /\ shell'.refused = r.refused /\ shell'.stop = "sending"
  <2>1. Len(q) \in Nat
    BY <1>4, LenProperties
  <2> QED
    BY <1>4, <1>5, <2>1 DEF Shells
<1> DEFINE t == shell'
<1>7. LET d == Taken(o, TRUE, shell)
      IN  /\ shell'.doc = d.s.doc /\ shell'.answered = d.s.answered
          /\ shell'.refused = d.s.refused /\ sending' = d.q
  BY <1>5, <1>6 DEF r, q
<1>8. PICK u \in Shells : u = shell'
  BY <1>6
<1>9. C \subseteq host.pending \cup shell.answered
  BY DEF C
<1>10. /\ u.stop = "sending" /\ Range(events') \subseteq Range(events) /\ events' \in Seq(Events)
  BY <1>2, <1>3, <1>6, <1>8
<1>11. LET d == Taken(o, TRUE, shell)
       IN  /\ u.doc = d.s.doc /\ u.answered = d.s.answered
           /\ u.refused = d.s.refused /\ sending' = d.q
  BY <1>7, <1>8
<1> QED
  BY <1>2, <1>3, <1>8, <1>9, <1>10, <1>11, TakenKeeps

LEMMA StopEndsKeeps ==
    ASSUME IInv, StopEnds
    PROVE  IInv'
<1> DEFINE C == host.pending
<1> DEFINE s == [shell EXCEPT !.stop = "done"]
<1>1. /\ shell.stop = "closing" /\ \A k \in Conns : serving[k] \notin {"hello", "open"}
      /\ TakeAll(C, FALSE, s)
      /\ UNCHANGED <<client, up, serving, box, host, events, told, late, bound>>
  BY DEF StopEnds, wire, history
<1>2. /\ shell \in Shells /\ C \subseteq Commits /\ events \in Seq(Events)
      /\ Sound(shell) /\ sending \in Seq(Words) /\ AllRight(shell, sending)
      /\ bound.outcomes \subseteq Fate /\ host.ended
  BY <1>1, ShellFields
<1>3. /\ s \in Shells /\ s.doc = shell.doc /\ s.answered = shell.answered
      /\ s.refused = shell.refused /\ s.stop = "done"
  BY <1>2 DEF Shells
<1> HIDE DEF s
<1>4. PICK o \in [C -> bound.outcomes] :
         shell' = Taken(o, FALSE, s).s /\ sending' = Taken(o, FALSE, s).q
  BY <1>1 DEF TakeAll
<1>5. C \subseteq host.pending \cup shell.answered /\ host.pending \subseteq C
  OBVIOUS
<1> HIDE DEF C
<1>6. Taken(o, FALSE, s).s \in Shells
  <2>1. Sound(s) /\ AllRight(s, sending) /\ o \in [C -> Fate] /\ C \in SUBSET Commits
    BY <1>2, <1>3, SameFate
  <2> QED
    BY <1>2, <1>3, <2>1, TakenFacts
<1>7. PICK u \in Shells : u = Taken(o, FALSE, s).s
  BY <1>6
<1>8. /\ shell' = u /\ Range(events') \subseteq Range(events) /\ events' \in Seq(Events)
  BY <1>1, <1>2, <1>4, <1>7
<1>9. LET d == Taken(o, FALSE, s)
      IN  /\ u.doc = d.s.doc /\ u.answered = d.s.answered
          /\ u.refused = d.s.refused /\ sending' = d.q
  BY <1>4, <1>7
<1> QED
  BY <1>1, <1>2, <1>3, <1>5, <1>8, <1>9, TakenKeeps

LEMMA ShellHearsKeeps ==
    ASSUME IInv, ShellHears
    PROVE  IInv'
<1> DEFINE e == Head(events)
<1>1. /\ shell.stop # "done" /\ events # <<>> /\ events' = Tail(events)
      /\ UNCHANGED <<client, up, serving, box, host, told, late, bound>>
  BY DEF ShellHears, wire, history
<1>2. /\ shell \in Shells /\ host.pending \subseteq Commits /\ events \in Seq(Events)
      /\ Sound(shell) /\ sending \in Seq(Words) /\ AllRight(shell, sending)
      /\ bound.outcomes \subseteq Fate /\ (shell.stop \in {"closing", "done"} => host.ended)
  BY ShellFields
<1>3. /\ events' \in Seq(Events) /\ Range(events') \subseteq Range(events)
      /\ e \in Range(events) /\ e \in Events
  BY <1>1, <1>2, HeadAndTail
<1> HIDE DEF e
<1>4. CASE e.t = "commit" /\ TakeAll({e.c}, TRUE, shell)
  <2> DEFINE C == {e.c}
  <2>1. C \subseteq host.pending \cup shell.answered /\ C \subseteq Commits
    BY <1>3, <1>4 DEF IInv, Heard, Events
  <2>2. TakeAll(C, TRUE, shell)
    BY <1>4
  <2> HIDE DEF C
  <2>3. PICK o \in [C -> bound.outcomes] :
           shell' = Taken(o, TRUE, shell).s /\ sending' = Taken(o, TRUE, shell).q
    BY <2>2 DEF TakeAll
  <2>4. Taken(o, TRUE, shell).s \in Shells /\ Taken(o, TRUE, shell).s.stop = shell.stop
    <3>1. o \in [C -> Fate] /\ C \in SUBSET Commits
      BY <1>2, <2>1
    <3>2. Taken(o, TRUE, shell).s \in Shells /\ SameDuties(Taken(o, TRUE, shell).s, shell)
      BY <1>2, <3>1, TakenFacts
    <3> QED
      BY <3>2 DEF SameDuties
  <2>5. PICK u \in Shells : u = Taken(o, TRUE, shell).s
    BY <2>4
  <2>6. shell' = u /\ u.stop = shell.stop
    BY <2>3, <2>4, <2>5
  <2>7. LET d == Taken(o, TRUE, shell)
        IN  /\ u.doc = d.s.doc /\ u.answered = d.s.answered
            /\ u.refused = d.s.refused /\ sending' = d.q
    BY <2>3, <2>5
  <2> QED
    BY <1>1, <1>2, <1>3, <2>1, <2>6, <2>7, TakenKeeps
<1>5. CASE shell' = [shell EXCEPT !.asks = @ + 1] /\ UNCHANGED sending
  <2>1. /\ shell' \in Shells /\ shell'.doc = shell.doc /\ shell'.answered = shell.answered
        /\ shell'.refused = shell.refused /\ shell'.stop = shell.stop
    <3> DEFINE n == shell.asks + 1
    <3>1. n \in Nat
      BY <1>2 DEF Shells
    <3>2. shell' = [shell EXCEPT !.asks = n]
      BY <1>5
    <3> HIDE DEF n
    <3> QED
      BY <1>2, <3>1, <3>2 DEF Shells
  <2>2. Sound(shell') /\ Later(shell, shell') /\ AllRight(shell', sending')
    BY <1>2, <1>5, <2>1, SameFate
  <2> QED
    BY <1>1, <1>2, <1>3, <1>5, <2>1, <2>2, ShellKeeps
<1>6. CASE LET f == Flushed(shell, sending)
           IN  /\ shell' = f.s /\ sending' = Append(f.q, Msg("snapshot", 0, Len(f.s.doc)))
  <2> DEFINE f == Flushed(shell, sending)
  <2>1. /\ f.s \in Shells /\ Sound(f.s) /\ SameDuties(f.s, shell)
        /\ f.s.answered = shell.answered /\ f.s.refused = shell.refused
        /\ DoneIn(f.s) = DoneIn(shell)
        /\ f.q \in Seq(Words) /\ Range(f.q) \subseteq Range(sending) \cup Changes
    BY <1>2, FlushedFacts
  <2> DEFINE m == Msg("snapshot", 0, Len(f.s.doc))
  <2>2. shell' = f.s /\ sending' = Append(f.q, m)
    BY <1>6
  <2>3. m \in Changes /\ m \in Words
    <3>1. Len(f.s.doc) \in Nat
      BY <2>1, LenProperties DEF Shells
    <3> HIDE DEF f
    <3> QED
      BY <3>1 DEF Msg, Changes, Words
  <2> HIDE DEF f, m
  <2>4. sending' \in Seq(Words) /\ Range(sending') \subseteq Range(sending) \cup Changes
    BY <2>1, <2>2, <2>3, AppendRange
  <2>5. Later(shell, shell') /\ Sound(shell') /\ shell' \in Shells /\ shell'.stop = shell.stop
    BY <2>1, <2>2 DEF Later, SameDuties
  <2>6. AllRight(shell', sending')
    <3>1. \A x \in Changes : RightIn(shell', x)
      BY DEF RightIn, Changes, Fate
    <3>2. \A x \in Range(sending) : RightIn(shell', x)
      BY <1>2, <2>5, StaysRight DEF AllRight
    <3> QED
      BY <2>4, <3>1, <3>2 DEF AllRight
  <2>7. shell'.refused = shell.refused
    BY <2>1, <2>2
  <2> QED
    BY <1>1, <1>2, <1>3, <2>4, <2>5, <2>6, <2>7, ShellKeeps
<1> QED
  BY <1>4, <1>5, <1>6 DEF ShellHears, e

LEMMA TerminateKeeps ==
    ASSUME IInv, Terminate
    PROVE  IInv'
<1>1. /\ shell' = [shell EXCEPT !.stop = "asking"]
      /\ UNCHANGED <<client, up, serving, box, host, events, sending, told, late, bound>>
  BY DEF Terminate, wire, history
<1>2. /\ shell \in Shells /\ events \in Seq(Events) /\ Sound(shell)
      /\ sending \in Seq(Words) /\ AllRight(shell, sending)
  BY ShellFields
<1>3. /\ shell' \in Shells /\ shell'.doc = shell.doc /\ shell'.answered = shell.answered
      /\ shell'.refused = shell.refused /\ shell'.stop = "asking"
  BY <1>1, <1>2 DEF Shells
<1>4. Sound(shell') /\ Later(shell, shell') /\ AllRight(shell', sending)
  BY <1>2, <1>3, SameFate
<1>5. /\ events' \in Seq(Events) /\ Range(events') \subseteq Range(events)
      /\ sending' \in Seq(Words) /\ AllRight(shell', sending')
  BY <1>1, <1>2, <1>4
<1> QED
  BY <1>1, <1>3, <1>4, <1>5, ShellKeeps

LEMMA EditTextKeeps ==
    ASSUME IInv, EditText
    PROVE  IInv'
<1> DEFINE n == shell.edits + 1
<1>1. /\ shell' = [shell EXCEPT !.dirty = TRUE, !.edits = n] /\ shell.stop # "done"
      /\ UNCHANGED <<client, up, serving, box, host, events, sending, told, late, bound>>
  BY DEF EditText, wire, history
<1>2. /\ shell \in Shells /\ events \in Seq(Events) /\ Sound(shell)
      /\ sending \in Seq(Words) /\ AllRight(shell, sending)
      /\ shell.stop \in {"closing", "done"} => host.ended
  BY ShellFields
<1>3. n \in Nat
  BY <1>2 DEF Shells
<1> HIDE DEF n
<1>4. /\ shell' \in Shells /\ shell'.doc = shell.doc /\ shell'.answered = shell.answered
      /\ shell'.refused = shell.refused /\ shell'.stop = shell.stop
  BY <1>1, <1>2, <1>3 DEF Shells
<1>5. Sound(shell') /\ Later(shell, shell') /\ AllRight(shell', sending)
  BY <1>2, <1>4, SameFate
<1>6. /\ events' \in Seq(Events) /\ Range(events') \subseteq Range(events)
      /\ sending' \in Seq(Words) /\ AllRight(shell', sending')
  BY <1>1, <1>2, <1>5
<1> QED
  BY <1>1, <1>2, <1>4, <1>5, <1>6, ShellKeeps

LEMMA TextSettlesKeeps ==
    ASSUME IInv, TextSettles
    PROVE  IInv'
<1> DEFINE f == Flushed(shell, sending)
<1>1. /\ shell' = f.s /\ sending' = f.q /\ shell.stop # "done"
      /\ UNCHANGED <<client, up, serving, box, host, events, told, late, bound>>
  BY DEF TextSettles, wire, history
<1>2. /\ shell \in Shells /\ events \in Seq(Events) /\ Sound(shell)
      /\ sending \in Seq(Words) /\ AllRight(shell, sending)
      /\ shell.stop \in {"closing", "done"} => host.ended
  BY ShellFields
<1>3. /\ f.s \in Shells /\ Sound(f.s) /\ SameDuties(f.s, shell)
      /\ f.s.answered = shell.answered /\ f.s.refused = shell.refused
      /\ DoneIn(f.s) = DoneIn(shell)
      /\ f.q \in Seq(Words) /\ Range(f.q) \subseteq Range(sending) \cup Changes
  BY <1>2, FlushedFacts
<1> HIDE DEF f
<1>4. /\ Later(shell, shell') /\ Sound(shell') /\ shell' \in Shells /\ shell'.stop = shell.stop
      /\ shell'.refused = shell.refused
  BY <1>1, <1>3 DEF Later, SameDuties
<1>5. AllRight(shell', sending')
  <2>1. \A x \in Changes : RightIn(shell', x)
    BY DEF RightIn, Changes, Fate
  <2>2. \A x \in Range(sending) : RightIn(shell', x)
    BY <1>2, <1>4, StaysRight DEF AllRight
  <2> QED
    BY <1>1, <1>3, <2>1, <2>2 DEF AllRight
<1>6. /\ events' \in Seq(Events) /\ Range(events') \subseteq Range(events) /\ sending' \in Seq(Words)
  BY <1>1, <1>2, <1>3
<1> QED
  BY <1>1, <1>2, <1>4, <1>5, <1>6, ShellKeeps

LEMMA EditOpsKeeps ==
    ASSUME IInv, EditOps
    PROVE  IInv'
<1> DEFINE n == shell.edits + 1
<1> DEFINE doc == Append(shell.doc, 0)
<1> DEFINE m == Msg("ops", 0, Len(shell.doc) + 1)
<1>1. /\ shell' = [shell EXCEPT !.doc = doc, !.edits = n] /\ shell.stop # "done"
      /\ sending' = Append(sending, m)
      /\ UNCHANGED <<client, up, serving, box, host, events, told, late, bound>>
  BY DEF EditOps, wire, history
<1>2. /\ shell \in Shells /\ events \in Seq(Events) /\ Sound(shell)
      /\ sending \in Seq(Words) /\ AllRight(shell, sending)
      /\ shell.stop \in {"closing", "done"} => host.ended
  BY ShellFields
<1>3. n \in Nat /\ 0 \in 0..MaxCommits
  BY <1>2, HostAssumption DEF Shells
<1>4. /\ doc \in Seq(0..MaxCommits) /\ Len(doc) = Len(shell.doc) + 1 /\ Len(shell.doc) \in Nat
      /\ Range(doc) = Range(shell.doc) \cup {0}
      /\ \A i, j \in 1..Len(doc) : doc[i] = doc[j] => i = j \/ doc[i] = 0
  BY <1>2, <1>3, Grows
<1>5. m \in Changes /\ m \in Words
  BY <1>4 DEF Msg, Changes, Words
<1> HIDE DEF n, doc, m
<1>6. sending' \in Seq(Words) /\ Range(sending') = Range(sending) \cup {m}
  BY <1>1, <1>2, <1>5, AppendRange
<1>7. /\ shell' \in Shells /\ shell'.doc = doc /\ shell'.answered = shell.answered
      /\ shell'.refused = shell.refused /\ shell'.stop = shell.stop
  BY <1>1, <1>2, <1>3, <1>4 DEF Shells
<1>8. DoneIn(shell') = DoneIn(shell)
  BY <1>4, <1>7 DEF DoneIn
<1>9. Sound(shell') /\ Later(shell, shell')
  BY <1>2, <1>4, <1>7, <1>8 DEF Sound, Later
<1>10. AllRight(shell', sending')
  <2>1. RightIn(shell', m)
    BY <1>5 DEF RightIn, Changes, Fate
  <2>2. \A x \in Range(sending) : RightIn(shell', x)
    BY <1>2, <1>9, StaysRight DEF AllRight
  <2> QED
    BY <1>6, <2>1, <2>2 DEF AllRight
<1>11. events' \in Seq(Events) /\ Range(events') \subseteq Range(events)
  BY <1>1, <1>2
<1> QED
  BY <1>1, <1>2, <1>6, <1>7, <1>9, <1>10, <1>11, ShellKeeps

\* What the shell says to the host, or its end.
LEMMA SessionKeeps ==
    ASSUME IInv, host' \in Sessions, Keeper(host'), Len(host'.log) <= LogHard,
           host'.paired = host.paired, host'.token = host.token,
           host'.previous = host.previous, host'.conn = host.conn,
           host'.connLast = host.connLast, host'.max = host.max, host'.last = host.last,
           host'.pending \subseteq host.pending,
           host.pending \subseteq host'.pending \cup shell.answered,
           \A a \in host'.answers : RightIn(shell, a),
           host.paired => \A c \in shell.refused :
                             \/ c \in host'.pending \/ c \in host'.forgot
                             \/ \E a \in host'.answers : a.t = "nack" /\ a.c = c,
           host.ended => host'.ended,
           shell' \in Shells, shell'.doc = shell.doc, shell'.answered = shell.answered,
           shell'.refused = shell.refused,
           shell'.stop = shell.stop \/ (shell'.stop = "closing" /\ host'.ended),
           sending' \in Seq(Words), Range(sending') \subseteq Range(sending),
           box' \in [Conns -> Boxes],
           \A j \in Conns : /\ Len(box'[j].items) <= OutboxItems
                            /\ WelcomeFirst(box'[j].items)
                            /\ box'[j].close # "violation"
                            /\ Range(box'[j].items) \subseteq Range(box[j].items) \cup Range(sending)
                            /\ serving[j] \in {"none", "hello"} => box'[j] = box[j],
           events' \in Seq(Events),
           \A e \in Range(events') : e \in Range(events) \/ e.t # "commit",
           UNCHANGED <<client, up, serving, told, late, bound>>
    PROVE  IInv'
<1> USE DEF IInv
<1>1. TypeOK'
  BY DEF TypeOK
<1>2. \A j \in Conns : Welcomes(j)' \subseteq Welcomes(j)
  <2>1. \A m \in Range(sending) : m.t # "welcome"
    <3>1. Range(sending) \subseteq Words
      BY RangeIsPart DEF TypeOK
    <3> QED
      BY <3>1 DEF Words, Changes, Answers
  <2> QED
    BY <2>1 DEF Welcomes
<1>3. \A j \in Conns : Unread(j)' = Unread(j)
  BY DEF Unread
<1>4. client.conn \in Conns /\ (host.conn # NoConn => host.conn \in Conns)
  BY Fields
<1>5. Welcomes(client.conn)' \subseteq Welcomes(client.conn)
  <2>1. PICK n \in Conns : n = client.conn
    BY <1>4
  <2>2. n = client'.conn
    BY <2>1
  <2> QED
    BY <1>2, <2>1, <2>2
<1>6. Wired'
  <2>1. client.at = "live" => Welcomes(client.conn)' = {}
    BY <1>5 DEF Wired
  <2> QED
    BY <2>1 DEF Wired
<1>7. Counted'
  <2>1. \A m \in Welcomes(client.conn)' : client.lastC <= m.c
    BY <1>5 DEF Counted
  <2> QED
    BY <1>2, <1>3, <2>1 DEF Counted
<1>8. Ordered'
  <2>1. ASSUME host.conn # NoConn PROVE InOrderOn(host.conn)'
    <3>1. PICK n \in Conns : n = host.conn
      BY <1>4, <2>1
    <3>2. n = host'.conn /\ InOrderOn(n)
      BY <2>1, <3>1 DEF Ordered
    <3>3. InOrderOn(n)'
      BY <1>2, <1>3, <3>2 DEF InOrderOn
    <3> QED
      BY <3>2, <3>3
  <2>2. host'.conn # NoConn => InOrderOn(host.conn)'
    BY <2>1
  <2> QED
    BY <2>2 DEF Ordered
<1>9. Tokens'
  <2>1. host.paired /\ ~late => \A m \in Welcomes(client.conn)' : m.n = host.token
    BY <1>5 DEF Tokens
  <2> QED
    BY <2>1 DEF Tokens, Accepts
<1>10. Decided'
  <2>1. Sound(shell') /\ \A q : AllRight(shell, q) => AllRight(shell', q)
    BY SameFate DEF Decided
  <2>2. \A m : RightIn(shell, m) => RightIn(shell', m)
    BY DEF RightIn, DoneIn
  <2>3. AllRight(shell', sending')
    BY <2>2 DEF Decided, AllRight
  <2>4. \A j \in Conns : AllRight(shell', box'[j].items)
    BY <2>2 DEF Decided, AllRight
  <2> QED
    BY <2>1, <2>2, <2>3, <2>4 DEF Decided
<1>11. Heard'
  BY DEF Heard
<1>12. Reached' = Reached
  BY DEF Reached
<1>13. Followed'
  <2>1. client.conn = host.conn /\ client.at = "live" /\ host.conn # NoConn =>
           client.pending \subseteq client.out \cup Reached' \cup Unread(host.conn)'
    <3>1. PICK n \in Conns : n = client.conn
      BY <1>4
    <3>2. client.conn = host.conn => Unread(host.conn)' = Unread(host.conn)
      BY <1>3, <3>1
    <3> QED
      BY <1>12, <3>2 DEF Followed
  <2> QED
    BY <1>12, <2>1 DEF Followed
<1>14. Refusals'
  BY DEF Refusals
<1> QED
  BY <1>1, <1>6, <1>7, <1>8, <1>9, <1>10, <1>11, <1>13, <1>14

LEMMA StopHostKeeps ==
    ASSUME IInv, StopHost
    PROVE  IInv'
<1>1. /\ shell' = [shell EXCEPT !.stop = "closing"] /\ host' = [host EXCEPT !.ended = TRUE]
      /\ box' = IF host.conn = NoConn THEN box
                ELSE [box EXCEPT ![host.conn] = CloseBox(@, "over", TRUE)]
      /\ UNCHANGED <<client, up, serving, events, sending, told, late, bound>>
  BY DEF StopHost, history
<1>2. /\ shell \in Shells /\ host \in Sessions /\ box \in [Conns -> Boxes] /\ Keeper(host)
      /\ Len(host.log) <= LogHard /\ events \in Seq(Events) /\ sending \in Seq(Words)
      /\ host.conn # NoConn => host.conn \in Conns
  BY Fields DEF IInv, TypeOK
<1>3. /\ host' \in Sessions /\ host'.ended /\ SameBooks(host', host) /\ host'.log = host.log
      /\ host'.paired = host.paired /\ host'.token = host.token
      /\ host'.previous = host.previous /\ host'.conn = host.conn
      /\ host'.connLast = host.connLast /\ host'.max = host.max /\ host'.last = host.last
  BY <1>1, <1>2 DEF Sessions, SameBooks
<1>4. /\ shell' \in Shells /\ shell'.doc = shell.doc /\ shell'.answered = shell.answered
      /\ shell'.refused = shell.refused /\ shell'.stop = "closing"
  BY <1>1, <1>2 DEF Shells
<1>5. /\ box' \in [Conns -> Boxes]
      /\ \A j \in Conns : /\ box'[j].items = box[j].items
                          /\ box'[j].close \in {box[j].close, "over"}
                          /\ j # host.conn => box'[j] = box[j]
  <2>1. CASE host.conn = NoConn
    BY <1>1, <1>2, <2>1
  <2>2. CASE host.conn # NoConn
    <3> DEFINE b == CloseBox(box[host.conn], "over", TRUE)
    <3>1. box[host.conn] \in Boxes
      BY <1>2, <2>2
    <3>2. b \in Boxes /\ b.items = box[host.conn].items /\ b.close \in {box[host.conn].close, "over"}
      BY <3>1 DEF CloseBox, Boxes
    <3>3. box' = [box EXCEPT ![host.conn] = b]
      BY <1>1, <2>2
    <3> HIDE DEF b
    <3> QED
      BY <1>2, <2>2, <3>2, <3>3
  <2> QED
    BY <2>1, <2>2
<1>6. \A j \in Conns : /\ Len(box'[j].items) <= OutboxItems
                       /\ WelcomeFirst(box'[j].items)
                       /\ box'[j].close # "violation"
                       /\ Range(box'[j].items) \subseteq Range(box[j].items) \cup Range(sending)
                       /\ serving[j] \in {"none", "hello"} => box'[j] = box[j]
  <2>1. \A j \in Conns : /\ Len(box[j].items) <= OutboxItems
                         /\ WelcomeFirst(box[j].items)
                         /\ box[j].close # "violation"
    BY DEF IInv, TypeOK, Wired, Ordered
  <2>2. \A j \in Conns : serving[j] \in {"none", "hello"} => j # host.conn
    BY Fields DEF IInv, Wired
  <2> QED
    BY <1>5, <2>1, <2>2
<1>7. Keeper(host')
  BY <1>2, <1>3 DEF Keeper, SameBooks
<1>8. \A a \in host'.answers : RightIn(shell, a)
  BY <1>3 DEF IInv, Decided, SameBooks
<1>9. host.paired => \A c \in shell.refused :
                       \/ c \in host'.pending \/ c \in host'.forgot
                       \/ \E a \in host'.answers : a.t = "nack" /\ a.c = c
  BY <1>3 DEF IInv, Refusals, SameBooks
<1>10. /\ sending' \in Seq(Words) /\ Range(sending') \subseteq Range(sending)
       /\ events' \in Seq(Events)
       /\ \A e \in Range(events') : e \in Range(events) \/ e.t # "commit"
       /\ Len(host'.log) <= LogHard
       /\ host'.pending \subseteq host.pending
       /\ host.pending \subseteq host'.pending \cup shell.answered
  BY <1>1, <1>2, <1>3 DEF SameBooks
<1> QED
  BY <1>1, <1>3, <1>4, <1>5, <1>6, <1>7, <1>8, <1>9, <1>10, SessionKeeps

LEMMA ShellSendsKeeps ==
    ASSUME IInv, ShellSends
    PROVE  IInv'
<1> DEFINE m == Head(sending)
<1> DEFINE n == Max({shell.await - 1, 0})
<1>1. /\ sending # <<>> /\ sending' = Tail(sending)
      /\ shell' = [shell EXCEPT !.await = n]
      /\ \/ SendFails(host, m) /\ UNCHANGED <<host, box, events>>
         \/ /\ ~SendFails(host, m) /\ host' = Send(host, m)
            /\ box' = IF host.conn = NoConn THEN box ELSE Queue(box, host.conn, <<m>>)
            /\ events' = IF host.logState = "fresh" /\ host'.logState = "wanted"
                         THEN Append(events, [t |-> "wanted", c |-> 0]) ELSE events
      /\ UNCHANGED <<client, up, serving, told, late, bound>>
  BY DEF ShellSends, history
<1>2. /\ shell \in Shells /\ host \in Sessions /\ box \in [Conns -> Boxes] /\ Keeper(host)
      /\ Len(host.log) <= LogHard /\ events \in Seq(Events) /\ sending \in Seq(Words)
      /\ host.conn # NoConn => host.conn \in Conns
  BY Fields DEF IInv, TypeOK
<1>3. /\ sending' \in Seq(Words) /\ Range(sending') \subseteq Range(sending)
      /\ m \in Range(sending) /\ m \in Words
  BY <1>1, <1>2, HeadAndTail
<1> HIDE DEF m
<1>4. /\ shell' \in Shells /\ shell'.doc = shell.doc /\ shell'.answered = shell.answered
      /\ shell'.refused = shell.refused /\ shell'.stop = shell.stop
  <2>1. n \in Nat
    <3>1. shell.await \in Nat
      BY <1>2 DEF Shells
    <3> QED
      BY <3>1 DEF Max
  <2> HIDE DEF n
  <2> QED
    BY <1>1, <1>2, <2>1 DEF Shells
<1>5. \A j \in Conns : /\ Len(box[j].items) <= OutboxItems
                       /\ WelcomeFirst(box[j].items)
                       /\ box[j].close # "violation"
  BY DEF IInv, TypeOK, Wired, Ordered
<1>6. CASE UNCHANGED <<host, box, events>>
  <2>1. /\ Keeper(host') /\ \A a \in host'.answers : RightIn(shell, a)
        /\ host.paired => \A c \in shell.refused :
                             \/ c \in host'.pending \/ c \in host'.forgot
                             \/ \E a \in host'.answers : a.t = "nack" /\ a.c = c
    BY <1>2, <1>6 DEF IInv, Decided, Refusals
  <2>2. /\ host' \in Sessions /\ box' \in [Conns -> Boxes] /\ events' \in Seq(Events)
        /\ Len(host'.log) <= LogHard
        /\ \A j \in Conns : /\ Len(box'[j].items) <= OutboxItems
                            /\ WelcomeFirst(box'[j].items)
                            /\ box'[j].close # "violation"
                            /\ Range(box'[j].items) \subseteq Range(box[j].items) \cup Range(sending)
                            /\ serving[j] \in {"none", "hello"} => box'[j] = box[j]
        /\ \A e \in Range(events') : e \in Range(events) \/ e.t # "commit"
    BY <1>2, <1>5, <1>6
  <2> QED
    BY <1>1, <1>3, <1>4, <1>6, <2>1, <2>2, SessionKeeps
<1>7. CASE /\ ~SendFails(host, m) /\ host' = Send(host, m)
           /\ box' = IF host.conn = NoConn THEN box ELSE Queue(box, host.conn, <<m>>)
           /\ events' = IF host.logState = "fresh" /\ host'.logState = "wanted"
                        THEN Append(events, [t |-> "wanted", c |-> 0]) ELSE events
  <2>1. m \in Messages /\ m.t # "welcome"
    BY <1>3 DEF Messages, Words, Changes, Answers
  <2>2. /\ host' \in Sessions /\ Keeper(host') /\ Len(host'.log) <= LogHard /\ SameLink(host', host)
        /\ host'.pending = IF m.t \in Fate THEN host.pending \ {m.c} ELSE host.pending
        /\ \A a \in host'.answers : a \in host.answers \/ (m.t \in Fate /\ a = m)
        /\ host.forgot \subseteq host'.forgot
        /\ host.paired => /\ m.t = "nack" => m \in host'.answers \/ m.c \in host'.forgot
                          /\ \A a \in host.answers : a.t = "nack" =>
                                a \in host'.answers \/ a.c \in host'.forgot \/ (m.t \in Fate /\ a.c = m.c)
    BY <1>2, <1>7, <2>1, SendFacts
  <2>3. RightIn(shell, m)
    BY <1>3 DEF IInv, Decided, AllRight
  <2>4. \A a \in host'.answers : RightIn(shell, a)
    BY <2>2, <2>3 DEF IInv, Decided
  <2>5. /\ host'.pending \subseteq host.pending
        /\ host.pending \subseteq host'.pending \cup shell.answered
    BY <2>2, <2>3 DEF RightIn
  <2>6. ASSUME host.paired, NEW c \in shell.refused
        PROVE  \/ c \in host'.pending \/ c \in host'.forgot
               \/ \E a \in host'.answers : a.t = "nack" /\ a.c = c
    <3>1. CASE m.t \in Fate /\ m.c = c
      <4>1. m.t = "nack"
        BY <2>3, <2>6, <3>1 DEF RightIn
      <4> QED
        BY <2>2, <2>6, <3>1, <4>1
    <3>2. CASE ~(m.t \in Fate /\ m.c = c)
      <4>1. \/ c \in host.pending \/ c \in host.forgot
            \/ \E a \in host.answers : a.t = "nack" /\ a.c = c
        BY <2>6 DEF IInv, Refusals
      <4>2. c \in host.pending => c \in host'.pending
        BY <2>2, <3>2
      <4> QED
        BY <2>2, <2>6, <3>2, <4>1, <4>2
    <3> QED
      BY <3>1, <3>2
  <2>7. /\ events' \in Seq(Events)
        /\ \A e \in Range(events') : e \in Range(events) \/ e.t # "commit"
    <3> DEFINE w == [t |-> "wanted", c |-> 0]
    <3>1. w \in Events /\ w.t # "commit" /\ events' \in {events, Append(events, w)}
      BY <1>7 DEF Events
    <3> HIDE DEF w
    <3>2. Append(events, w) \in Seq(Events) /\ Range(Append(events, w)) = Range(events) \cup {w}
      BY <1>2, <3>1, AppendRange
    <3>3. CASE events' = events
      BY <1>2, <3>3
    <3>4. CASE events' = Append(events, w)
      BY <3>1, <3>2, <3>4
    <3> QED
      BY <3>1, <3>3, <3>4
  <2>8. /\ box' \in [Conns -> Boxes]
        /\ \A j \in Conns : /\ Len(box'[j].items) <= OutboxItems
                            /\ WelcomeFirst(box'[j].items)
                            /\ box'[j].close # "violation"
                            /\ Range(box'[j].items) \subseteq Range(box[j].items) \cup Range(sending)
                            /\ j # host.conn => box'[j] = box[j]
    <3>1. CASE box' = box
      BY <1>2, <1>5, <3>1
    <3>2. CASE host.conn # NoConn /\ box' = [box EXCEPT ![host.conn] = PushAll(@, <<m>>)]
      <4>1. PICK k \in Conns : k = host.conn
        BY <1>2, <3>2
      <4> DEFINE q == <<m>>
      <4> DEFINE b == PushAll(box[k], q)
      <4>2. q \in Seq(Messages) /\ Range(q) \subseteq Range(sending) /\ \A i \in 1..Len(q) : q[i].t # "welcome"
        <5>1. q \in Seq({m}) /\ Len(q) = 1 /\ q[1] = m
          OBVIOUS
        <5> HIDE DEF q
        <5>2. q \in Seq(Messages)
          BY <2>1, <5>1, SeqMonotonic
        <5>3. Range(q) \subseteq {m}
          BY <5>1, RangeIsPart
        <5> QED
          BY <1>3, <2>1, <5>1, <5>2, <5>3
      <4> HIDE DEF q
      <4>3. box[k] \in Fitting /\ WelcomeFirst(box[k].items) /\ box[k].close # "violation"
        BY <1>2, <1>5 DEF Fitting
      <4>4. /\ b \in Fitting /\ Range(b.items) \subseteq Range(box[k].items) \cup Range(q)
            /\ b.close \in {box[k].close, "congested"} /\ WelcomeFirst(b.items)
        BY <4>2, <4>3, PushAllFacts
      <4>5. box' = [box EXCEPT ![k] = b]
        BY <3>2, <4>1 DEF q
      <4> HIDE DEF b
      <4> QED
        BY <1>2, <1>5, <4>1, <4>2, <4>3, <4>4, <4>5 DEF Fitting
    <3>3. CASE box' = [box EXCEPT ![host.conn] = @]
      BY <1>2, <1>5, <3>3
    <3> QED
      BY <1>7, <3>1, <3>2, <3>3 DEF Queue
  <2>9. \A j \in Conns : serving[j] \in {"none", "hello"} => j # host.conn
    BY Fields DEF IInv, Wired
  <2>10. \A j \in Conns : /\ Len(box'[j].items) <= OutboxItems
                          /\ WelcomeFirst(box'[j].items)
                          /\ box'[j].close # "violation"
                          /\ Range(box'[j].items) \subseteq Range(box[j].items) \cup Range(sending)
                          /\ serving[j] \in {"none", "hello"} => box'[j] = box[j]
    BY <2>8, <2>9
  <2>11. host.paired => \A c \in shell.refused :
                           \/ c \in host'.pending \/ c \in host'.forgot
                           \/ \E a \in host'.answers : a.t = "nack" /\ a.c = c
    BY <2>6
  <2> QED
    BY <1>1, <1>3, <1>4, <2>2, <2>4, <2>5, <2>7, <2>8, <2>10, <2>11, SessionKeeps DEF SameLink
<1> QED
  BY <1>1, <1>6, <1>7

LEMMA NothingKeeps ==
    ASSUME IInv, UNCHANGED <<client, up, serving, box, host, events, shell, sending, told,
                             late, bound>>
    PROVE  IInv'
<1>1. /\ shell \in Shells /\ Sound(shell) /\ sending \in Seq(Words) /\ AllRight(shell, sending)
      /\ events \in Seq(Events) /\ (shell.stop \in {"closing", "done"} => host.ended)
      /\ Later(shell, shell)
  BY ShellFields DEF Later
<1>2. shell.stop = "done" => /\ host.pending \subseteq shell.answered
                             /\ \A k \in Conns : serving[k] \notin {"hello", "open"}
  BY DEF IInv, Heard
<1> QED
  BY <1>1, <1>2, ShellKeeps

-----------------------------------------------------------------------------
(* The theorems.                                                           *)

LEMMA InitKeeps ==
    ASSUME Init
    PROVE  IInv
<1> USE HostAssumption
<1>1. /\ <<>> \in Seq(Messages) /\ <<>> \in Seq(Uplink) /\ <<>> \in Seq(Events)
      /\ <<>> \in Seq(Words) /\ <<>> \in Seq(Nat) /\ <<>> \in Seq(0..MaxCommits) /\ Len(<<>>) = 0
  BY EmptySeq
<1>2. Range(<<>>) = {} /\ CommitsOf(<<>>) = {}
  BY <1>1, RangeIsPart, CommitIsIn
<1> DEFINE m == Msg("snapshot", 0, 0)
<1> DEFINE b == Push(EmptyBox, m)
<1>3. EmptyBox \in Fitting /\ EmptyBox.items = <<>> /\ EmptyBox.close = "open"
  BY <1>1 DEF EmptyBox, Fitting, Boxes
<1>4. m \in Messages /\ m.t = "snapshot"
  BY DEF Msg, Messages, Words, Changes
<1>5. /\ b \in Fitting /\ Range(b.items) \subseteq {m} /\ b.close \in {"open", "congested"}
      /\ WelcomeFirst(b.items)
  <2>1. WelcomeFirst(EmptyBox.items)
    BY <1>1, <1>3 DEF WelcomeFirst
  <2> HIDE DEF m
  <2> QED
    BY <1>2, <1>3, <1>4, <2>1, PushFacts
<1>6. /\ box = [k \in Conns |-> IF k = 1 THEN b ELSE EmptyBox]
      /\ up = [k \in Conns |-> <<>>]
      /\ serving = [k \in Conns |-> IF k = 1 THEN "open" ELSE "none"]
  BY DEF Init
<1> HIDE DEF b
<1>7. \A k \in Conns : /\ box[k] \in Boxes /\ Len(box[k].items) <= OutboxItems
                       /\ WelcomeFirst(box[k].items) /\ box[k].close # "violation"
                       /\ Range(box[k].items) \subseteq {m} /\ Welcomes(k) = {}
                       /\ up[k] = <<>> /\ Unread(k) = {}
                       /\ k # 1 => box[k] = EmptyBox
  <2>1. WelcomeFirst(EmptyBox.items)
    BY <1>1, <1>3 DEF WelcomeFirst
  <2>2. \A k \in Conns : /\ box[k] \in Fitting /\ WelcomeFirst(box[k].items)
                         /\ box[k].close # "violation" /\ Range(box[k].items) \subseteq {m}
                         /\ k # 1 => box[k] = EmptyBox
    <3> HIDE DEF m
    <3> QED
      BY <1>2, <1>3, <1>5, <1>6, <2>1
  <2>3. \A k \in Conns : Welcomes(k) = {}
    BY <1>4, <2>2 DEF Welcomes
  <2>4. \A k \in Conns : up[k] = <<>> /\ Unread(k) = {}
    BY <1>2, <1>6 DEF Unread
  <2> HIDE DEF m
  <2> QED
    BY <2>2, <2>3, <2>4 DEF Fitting
<1> HIDE DEF m
<1>8. /\ 1 \in Conns /\ Conns \subseteq Nat \ {0} /\ NoConn \notin Conns /\ NoToken \in Nat
  BY DEF Conns, NoConn, NoToken
<1>9. /\ client.at = "live" /\ client.conn = 1 /\ client.token = 1 /\ client.next = 1
      /\ client.pending = {} /\ client.out = {} /\ client.lastC = 0 /\ client \in Clients
  <2>1. client = [at |-> "live", conn |-> 1, token |-> 1, next |-> 1, pending |-> {},
                  out |-> {}, lastC |-> 0, spoke |-> FALSE, seen |-> -1]
    BY DEF Init
  <2> QED
    BY <1>8, <2>1 DEF Clients
<1>10. /\ host.paired /\ host.token = 1 /\ host.conn = 1 /\ host.connLast = 0
       /\ host.max = 0 /\ host.last = 0 /\ host.answers = {} /\ host.pending = {}
       /\ host.log = <<>> /\ host \in Sessions
  <2>1. host = FirstSession
    BY DEF Init
  <2> QED
    BY <1>1, <1>8, <2>1 DEF FirstSession, Sessions
<1>11. /\ shell.doc = <<>> /\ shell.answered = {} /\ shell.refused = {} /\ shell.stop = "no"
       /\ shell \in Shells
  <2>1. shell = [doc |-> <<>>, dirty |-> FALSE, answered |-> {}, refused |-> {},
                 asks |-> 0, edits |-> 0, stop |-> "no", await |-> 0]
    BY DEF Init
  <2> QED
    BY <1>1, <2>1 DEF Shells
<1>12. /\ events = <<>> /\ sending = <<>> /\ told = [c \in Commits |-> "nothing"]
       /\ late = FALSE /\ bound \in Bounds
  BY DEF Init
<1>13. TypeOK
  <2>1. up \in [Conns -> Seq(Uplink)]
    BY <1>1, <1>6
  <2>2. box \in [Conns -> Boxes]
    BY <1>6, <1>7
  <2>3. serving \in [Conns -> {"none", "hello", "open", "done"}]
    BY <1>6
  <2>4. Len(host.log) <= LogHard
    BY <1>1, <1>10
  <2> QED
    BY <1>1, <1>7, <1>9, <1>10, <1>11, <1>12, <2>1, <2>2, <2>3, <2>4 DEF TypeOK
<1>14. Wired
  BY <1>6, <1>7, <1>8, <1>9, <1>10 DEF Wired
<1>15. Counted
  BY <1>7, <1>8, <1>9, <1>10 DEF Counted
<1>16. Ordered
  <2>1. Rising(up[1]) /\ Unread(1) = {} /\ Welcomes(1) = {}
    BY <1>1, <1>7, <1>8 DEF Rising
  <2> QED
    BY <1>7, <1>9, <1>10, <2>1 DEF Ordered, InOrderOn
<1>17. Tokens
  BY <1>7, <1>8, <1>9, <1>10, <1>6 DEF Tokens, Accepts
<1>18. Decided
  <2>1. Sound(shell)
    BY <1>1, <1>2, <1>11 DEF Sound, DoneIn
  <2>2. AllRight(shell, sending)
    BY <1>2, <1>12 DEF AllRight
  <2>3. \A k \in Conns : AllRight(shell, box[k].items)
    BY <1>4, <1>7 DEF AllRight, RightIn, Fate
  <2>4. \A c \in Commits : RightIn(shell, [t |-> told[c], c |-> c])
    BY <1>12 DEF RightIn, Fate
  <2> QED
    BY <1>10, <2>1, <2>2, <2>3, <2>4 DEF Decided
<1>19. Heard
  BY <1>2, <1>11, <1>12 DEF Heard
<1>20. Followed
  <2>1. \A R : Following(up[1], R)
    BY <1>1, <1>7, <1>8 DEF Following
  <2> QED
    BY <1>8, <1>9, <1>10, <2>1 DEF Followed
<1>21. Refusals
  BY <1>9, <1>11 DEF Refusals
<1>22. Keeper(host)
  BY <1>10, FS_EmptySet DEF Keeper
<1> QED
  BY <1>13, <1>14, <1>15, <1>16, <1>17, <1>18, <1>19, <1>20, <1>21, <1>22 DEF IInv

\* The invariant holds at the start and every step keeps it.
THEOREM Invariant == Spec => []IInv
<1>1. Init => IInv
  BY InitKeeps
<1>2. IInv /\ [Next]_vars => IInv'
  <2> SUFFICES ASSUME IInv, [Next]_vars PROVE IInv'
    OBVIOUS
  <2>1. CASE Commit
    BY <2>1, CommitKeeps
  <2>2. CASE SendCommit
    BY <2>2, SendCommitKeeps
  <2>3. CASE SendOther
    BY <2>3, SendOtherKeeps
  <2>4. CASE Dial
    BY <2>4, DialKeeps
  <2>5. CASE Lose
    BY <2>5, LoseKeeps
  <2>6. CASE Read
    BY <2>6, ReadKeeps
  <2>7. CASE ReadClose
    BY <2>7, ReadCloseKeeps
  <2>8. CASE ResumeExpires
    BY <2>8, ResumeExpiresKeeps
  <2>9. CASE Leave
    BY <2>9, LeaveKeeps
  <2>10. ASSUME NEW k \in Conns, HostAdmits(k) PROVE IInv'
    BY <2>10, HostAdmitsKeeps
  <2>11. ASSUME NEW k \in Conns, HostRefuses(k) PROVE IInv'
    BY <2>11, HostRefusesKeeps
  <2>12. ASSUME NEW k \in Conns, HostGivesUp(k) PROVE IInv'
    BY <2>12, HostGivesUpKeeps
  <2>13. ASSUME NEW k \in Conns, HostReads(k) PROVE IInv'
    BY <2>13, HostReadsKeeps
  <2>14. ASSUME NEW k \in Conns, HostKicks(k) PROVE IInv'
    BY <2>14, HostKicksKeeps
  <2>15. ASSUME NEW k \in Conns, HostLoses(k) PROVE IInv'
    BY <2>15, HostLosesKeeps
  <2>16. CASE HostReleases
    BY <2>16, HostReleasesKeeps
  <2>17. CASE ShellHears
    BY <2>17, ShellHearsKeeps
  <2>18. CASE Reconcile
    BY <2>18, ReconcileKeeps
  <2>19. CASE ShellSends
    BY <2>19, ShellSendsKeeps
  <2>20. CASE EditOps
    BY <2>20, EditOpsKeeps
  <2>21. CASE EditText
    BY <2>21, EditTextKeeps
  <2>22. CASE TextSettles
    BY <2>22, TextSettlesKeeps
  <2>23. CASE Terminate
    BY <2>23, TerminateKeeps
  <2>24. CASE StopAnswers
    BY <2>24, StopAnswersKeeps
  <2>25. CASE StopHost
    BY <2>25, StopHostKeeps
  <2>26. CASE StopEnds
    BY <2>26, StopEndsKeeps
  <2>27. CASE UNCHANGED vars
    BY <2>27, NothingKeeps DEF vars, wire, desk, history
  <2> QED
    BY <2>1, <2>2, <2>3, <2>4, <2>5, <2>6, <2>7, <2>8, <2>9, <2>10, <2>11, <2>12, <2>13,
       <2>14, <2>15, <2>16, <2>17, <2>18, <2>19, <2>20, <2>21, <2>22, <2>23, <2>24, <2>25,
       <2>26, <2>27 DEF Next, ClientStep, HostStep, ShellStep
<1> QED
  BY <1>1, <1>2, PTL DEF Spec

\* Every variable keeps its type: no queue is longer than OUTBOX_ITEMS, nor
\* the log than its second bound (outbox.rs push, session.rs append_log).
THEOREM TypeCorrect == Spec => []TypeOK
<1>1. IInv => TypeOK
  BY DEF IInv
<1> QED
  BY <1>1, Invariant, PTL

\* No commit is applied twice, and what a writer is told of a commit is what
\* happened to it (session.ts applyCommit, session.rs answer and admit).
THEOREM AnswersAreTrue == Spec => []Truthful
<1>1. IInv => Truthful
  <2> SUFFICES ASSUME IInv PROVE Truthful
    OBVIOUS
  <2>1. DOMAIN shell.doc = 1..Len(shell.doc) /\ Done = DoneIn(shell)
    BY LenProperties DEF IInv, TypeOK, Shells, Done, DoneIn, Range
  <2>2. \A i, j \in DOMAIN shell.doc : shell.doc[i] = shell.doc[j] => i = j \/ shell.doc[i] = 0
    BY <2>1 DEF IInv, Decided, Sound
  <2>3. ASSUME NEW c \in Commits
        PROVE  /\ told[c] = "ack" => c \in Done
               /\ told[c] = "nack" => c \in shell.refused
               /\ told[c] = "same" => c \notin Done \cup shell.refused
    <3>1. RightIn(shell, [t |-> told[c], c |-> c])
      BY DEF IInv, Decided
    <3> QED
      BY <2>1, <3>1 DEF RightIn, Fate
  <2> QED
    BY <2>2, <2>3 DEF Truthful
<1> QED
  BY <1>1, Invariant, PTL

\* A session that was ended on the PC has answered every commit the host
\* handed over, or has applied it when it came back (session.ts shutdown).
THEOREM TheEndCollects == Spec => []StopCollects
<1>1. IInv => StopCollects
  <2> SUFFICES ASSUME IInv, shell.stop = "done"
               PROVE  /\ host.pending \subseteq shell.answered
                      /\ \A i \in DOMAIN events :
                            events[i].t = "commit" => events[i].c \in shell.answered
    BY DEF StopCollects
  <2>1. \A i \in DOMAIN events : events[i] \in Range(events)
    BY DEF Range
  <2> QED
    BY <2>1 DEF IInv, Heard
<1> QED
  BY <1>1, Invariant, PTL

\* A client that follows the protocol is never turned away: its token opens
\* the session, unless a hello was read after that of a later attempt, and no
\* commit it sends again ends the session (session.rs admit and receive).
THEOREM ClientsAreLetIn == Spec => []NotTurnedAway
<1>1. IInv => NotTurnedAway
  BY DEF IInv, NotTurnedAway, Tokens, Ordered
<1> QED
  BY <1>1, Invariant, PTL

\* A commit the client has put aside was dealt with, and if it was refused the
\* writer knows, or will with the next welcome, unless the host had to forget
\* the refusal (client.rs welcomed, session.rs prune and admit).
THEOREM CommitsAreKept == Spec => []NothingLost
<1>1. IInv => NothingLost
  <2> SUFFICES ASSUME IInv, NEW c \in 1..(client.next - 1) \ client.pending
               PROVE  /\ c \in shell.answered
                      /\ c \in shell.refused =>
                            \/ told[c] = "nack"
                            \/ host.paired => (\E a \in host.answers : a.t = "nack" /\ a.c = c)
                            \/ c \in host.forgot
    BY DEF NothingLost
  <2>1. c \in shell.answered /\ c \in Commits
    BY Fields DEF IInv, Followed, Commits
  <2>2. RightIn(shell, [t |-> told[c], c |-> c]) /\ told[c] \in {"nothing", "ack", "same", "nack"}
    BY <2>1 DEF IInv, Decided, TypeOK
  <2>3. ASSUME c \in shell.refused, told[c] # "nack", host.paired, c \notin host.forgot
        PROVE  \E a \in host.answers : a.t = "nack" /\ a.c = c
    <3>1. told[c] = "nothing"
      BY <2>2, <2>3 DEF RightIn, Fate, IInv, Decided, Sound
    <3>2. c \notin host.pending
      BY <3>1 DEF IInv, Refusals
    <3> QED
      BY <2>3, <3>2 DEF IInv, Refusals
  <2> QED
    BY <2>1, <2>3
<1> QED
  BY <1>1, Invariant, PTL

-----------------------------------------------------------------------------
(* The writer's document.                                                  *)

\* From x by way of the messages of q, one by one, to y: each of the steps
\* is one of R.
Through(R, x, q, y) ==
    \E r \in [0..Len(q) -> Int] :
        /\ r[0] = x /\ r[Len(q)] = y
        /\ \A i \in 1..Len(q) : <<r[i - 1], q[i], r[i]>> \in R

LEMMA ThroughNothing ==
    ASSUME NEW R, NEW x \in Int, NEW y \in Int
    PROVE  Through(R, x, <<>>, y) <=> x = y
<1>1. Len(<<>>) = 0
  BY EmptySeq
<1>2. ASSUME x = y PROVE Through(R, x, <<>>, y)
  <2> DEFINE r == [i \in 0..0 |-> x]
  <2>1. r \in [0..0 -> Int] /\ r[0] = x /\ \A i \in 1..0 : <<r[i - 1], <<>>[i], r[i]>> \in R
    OBVIOUS
  <2> HIDE DEF r
  <2> QED
    BY <1>1, <1>2, <2>1 DEF Through
<1> QED
  BY <1>1, <1>2 DEF Through

LEMMA ThroughMore ==
    ASSUME NEW T, NEW q \in Seq(T), NEW m \in T, NEW R, NEW x \in Int, NEW y \in Int,
           NEW z \in Int, Through(R, x, q, y), <<y, m, z>> \in R
    PROVE  Through(R, x, Append(q, m), z)
<1> DEFINE n == Len(q)
<1>1. /\ n \in Nat /\ Len(Append(q, m)) = n + 1
      /\ \A i \in 1..n : Append(q, m)[i] = q[i]
      /\ Append(q, m)[n + 1] = m
  BY AppendProperties, LenProperties
<1>2. PICK r \in [0..n -> Int] : /\ r[0] = x /\ r[n] = y
                                 /\ \A i \in 1..n : <<r[i - 1], q[i], r[i]>> \in R
  BY DEF Through
<1> HIDE DEF n
<1> DEFINE s == [i \in 0..(n + 1) |-> IF i = n + 1 THEN z ELSE r[i]]
<1>3. s \in [0..(n + 1) -> Int] /\ s[0] = x /\ s[n + 1] = z
  BY <1>1, <1>2
<1>4. ASSUME NEW i \in 1..(n + 1) PROVE <<s[i - 1], Append(q, m)[i], s[i]>> \in R
  <2>1. CASE i = n + 1
    <3>1. i - 1 = n /\ n \in 0..(n + 1) /\ n # n + 1 /\ i \in 0..(n + 1)
      BY <1>1, <2>1
    <3>2. s[i - 1] = y /\ s[i] = z /\ Append(q, m)[i] = m
      BY <1>1, <1>2, <2>1, <3>1
    <3> QED
      BY <3>2
  <2>2. CASE i # n + 1
    <3>1. i \in 1..n /\ i \in 0..(n + 1) /\ i - 1 \in 0..(n + 1) /\ i - 1 # n + 1
      BY <1>1, <2>2
    <3>2. s[i - 1] = r[i - 1] /\ s[i] = r[i] /\ Append(q, m)[i] = q[i]
      BY <1>1, <2>2, <3>1
    <3> QED
      BY <1>2, <3>1, <3>2
  <2> QED
    BY <2>1, <2>2
<1> HIDE DEF s
<1> QED
  BY <1>1, <1>3, <1>4 DEF Through

LEMMA ThroughFirst ==
    ASSUME NEW T, NEW q \in Seq(T), q # <<>>, NEW R, NEW x \in Int, NEW y \in Int,
           Through(R, x, q, y)
    PROVE  \E z \in Int : <<x, Head(q), z>> \in R /\ Through(R, z, Tail(q), y)
<1> DEFINE n == Len(q)
<1>1. /\ n \in Nat \ {0} /\ Len(Tail(q)) = n - 1 /\ Head(q) = q[1]
      /\ \A i \in 1..(n - 1) : Tail(q)[i] = q[i + 1]
  BY HeadTailProperties, LenProperties, EmptySeq
<1>2. PICK r \in [0..n -> Int] : /\ r[0] = x /\ r[n] = y
                                 /\ \A i \in 1..n : <<r[i - 1], q[i], r[i]>> \in R
  BY DEF Through
<1> HIDE DEF n
<1> DEFINE s == [i \in 0..(n - 1) |-> r[i + 1]]
<1>3. s \in [0..(n - 1) -> Int] /\ s[0] = r[1] /\ s[n - 1] = y
  BY <1>1, <1>2
<1>4. ASSUME NEW i \in 1..(n - 1) PROVE <<s[i - 1], Tail(q)[i], s[i]>> \in R
  <2>1. i + 1 \in 1..n /\ i \in 0..(n - 1) /\ i - 1 \in 0..(n - 1) /\ (i - 1) + 1 = (i + 1) - 1
    BY <1>1
  <2>2. s[i - 1] = r[(i + 1) - 1] /\ s[i] = r[i + 1] /\ Tail(q)[i] = q[i + 1]
    BY <1>1, <2>1
  <2> QED
    BY <1>2, <2>1, <2>2
<1> HIDE DEF s
<1>5. Through(R, r[1], Tail(q), y)
  BY <1>1, <1>3, <1>4 DEF Through
<1>6. 1 \in 1..n /\ 1 - 1 = 0 /\ 1 \in 0..n
  BY <1>1
<1>7. <<x, Head(q), r[1]>> \in R /\ r[1] \in Int
  BY <1>1, <1>2, <1>6
<1> QED
  BY <1>5, <1>7

LEMMA ThroughBoth ==
    ASSUME NEW T, NEW p \in Seq(T), NEW q \in Seq(T), NEW R, NEW x \in Int, NEW y \in Int,
           NEW z \in Int, Through(R, x, p, y), Through(R, y, q, z)
    PROVE  Through(R, x, p \o q, z)
<1> DEFINE n == Len(p)
<1> DEFINE k == Len(q)
<1>1. /\ n \in Nat /\ k \in Nat /\ Len(p \o q) = n + k
      /\ \A i \in 1..(n + k) : (p \o q)[i] = IF i <= n THEN p[i] ELSE q[i - n]
  BY ConcatProperties, LenProperties
<1>2. PICK r \in [0..n -> Int] : /\ r[0] = x /\ r[n] = y
                                 /\ \A i \in 1..n : <<r[i - 1], p[i], r[i]>> \in R
  BY DEF Through
<1>3. PICK s \in [0..k -> Int] : /\ s[0] = y /\ s[k] = z
                                 /\ \A i \in 1..k : <<s[i - 1], q[i], s[i]>> \in R
  BY DEF Through
<1> HIDE DEF n, k
<1> DEFINE t == [i \in 0..(n + k) |-> IF i <= n THEN r[i] ELSE s[i - n]]
<1>4. \A i \in 0..(n + k) : t[i] \in Int
  BY <1>1, <1>2, <1>3
<1>5. t \in [0..(n + k) -> Int] /\ t[0] = x /\ t[n + k] = z
  <2>1. t[0] = x
    BY <1>1, <1>2
  <2>2. t[n + k] = z
    <3>1. CASE k = 0
      BY <1>1, <1>2, <1>3, <3>1
    <3>2. CASE k # 0
      <4>1. ~(n + k <= n) /\ (n + k) - n = k /\ n + k \in 0..(n + k)
        BY <1>1, <3>2
      <4> QED
        BY <1>3, <4>1
    <3> QED
      BY <3>1, <3>2
  <2> QED
    BY <1>4, <2>1, <2>2
<1>6. ASSUME NEW i \in 1..(n + k) PROVE <<t[i - 1], (p \o q)[i], t[i]>> \in R
  <2>0. i \in 0..(n + k) /\ i - 1 \in 0..(n + k)
    BY <1>1
  <2>1. CASE i <= n
    <3>1. i \in 1..n /\ i - 1 <= n
      BY <1>1, <2>1
    <3>2. t[i - 1] = r[i - 1] /\ t[i] = r[i] /\ (p \o q)[i] = p[i]
      BY <1>1, <2>0, <2>1, <3>1
    <3> QED
      BY <1>2, <3>1, <3>2
  <2>2. CASE ~(i <= n)
    <3>1. i - n \in 1..k /\ (i - n) - 1 = (i - 1) - n
      BY <1>1, <2>2
    <3>2. t[i] = s[i - n] /\ (p \o q)[i] = q[i - n]
      BY <1>1, <2>0, <2>2
    <3>3. t[i - 1] = s[(i - n) - 1]
      <4>1. CASE i - 1 = n
        <5>1. (i - n) - 1 = 0 /\ i - 1 <= n
          BY <1>1, <4>1
        <5> QED
          BY <1>2, <1>3, <2>0, <4>1, <5>1
      <4>2. CASE i - 1 # n
        <5>1. ~(i - 1 <= n)
          BY <1>1, <2>2, <4>2
        <5> QED
          BY <2>0, <3>1, <5>1
      <4> QED
        BY <4>1, <4>2
    <3> QED
      BY <1>3, <3>1, <3>2, <3>3
  <2> QED
    BY <2>1, <2>2
<1> HIDE DEF t
<1> QED
  BY <1>1, <1>5, <1>6 DEF Through

\* Messages none of which changes what there is.
LEMMA ThroughIdle ==
    ASSUME NEW T, NEW q \in Seq(T), NEW R, NEW x \in Int,
           \A i \in 1..Len(q) : <<x, q[i], x>> \in R
    PROVE  Through(R, x, q, x)
<1> DEFINE r == [i \in 0..Len(q) |-> x]
<1>1. Len(q) \in Nat
  BY LenProperties
<1>2. r \in [0..Len(q) -> Int] /\ r[0] = x /\ r[Len(q)] = x
  BY <1>1
<1>3. \A i \in 1..Len(q) : i \in 0..Len(q) /\ i - 1 \in 0..Len(q)
  BY <1>1
<1>4. \A i \in 1..Len(q) : r[i] = x /\ r[i - 1] = x
  BY <1>3
<1> HIDE DEF r
<1> QED
  BY <1>2, <1>4 DEF Through

\* What the writer has after m if it has x before: -1 is nothing it can put a
\* change on.
Reads(x, m) == IF m.t = "welcome" THEN -1 ELSE Applied(x, m)
Reading == {w \in Int \X Messages \X Int : w[3] = Reads(w[1], w[2])}

LEMMA ReadsOn ==
    ASSUME NEW x \in Int, NEW m \in Messages
    PROVE  Reads(x, m) \in Int /\ <<x, m, Reads(x, m)>> \in Reading
<1>1. m.n \in Int
  BY DEF Messages, Words, Changes, Answers
<1>2. Reads(x, m) \in Int
  BY <1>1 DEF Reads, Applied
<1> QED
  BY <1>2 DEF Reading

\* However much a snapshot has made useless, there is something it is read
\* after, and it does not matter what.
LEMMA LastingReads ==
    ASSUME NEW q \in Seq(Messages), NEW x \in Int
    PROVE  \E y \in Int : Through(Reading, x, Lasting(q), y)
<1> DEFINE n == Len(q)
<1> DEFINE Good(r) == \E y \in Int : Through(Reading, x, r, y)
<1> DEFINE G == {w \in (0..n) \X Seq(Messages) : Good(w[2])}
<1>1. n \in Nat /\ DOMAIN q = 1..n /\ \A i \in 1..n : q[i] \in Messages
  BY LenProperties, ElementOfSeq
<1>2. Lasting(q) = Keeps!FoldOf(0, <<>>, q)
  BY DEF Lasting, KeepStep, FoldLeft, MapThenFoldSet, Keeps!FoldOf, Max
<1>3. <<0, <<>>>> \in G
  <2>1. <<>> \in Seq(Messages) /\ 0 \in 0..n
    BY <1>1, EmptySeq
  <2>2. Good(<<>>)
    BY ThroughNothing
  <2> HIDE DEF Good
  <2> QED
    BY <2>1, <2>2
<1>4. ASSUME NEW k \in 1..n, NEW r, <<k - 1, r>> \in G PROVE <<k, KeepStep(0, r, q[k])>> \in G
  <2>1. r \in Seq(Messages) /\ Good(r) /\ k \in 0..n /\ q[k] \in Messages
    <3> HIDE DEF Good
    <3> QED
      BY <1>1, <1>4
  <2>2. Append(r, q[k]) \in Seq(Messages)
    BY <2>1, AppendProperties
  <2>3. Good(Append(r, q[k]))
    <3>1. PICK y \in Int : Through(Reading, x, r, y)
      BY <2>1
    <3>2. Through(Reading, x, Append(r, q[k]), Reads(y, q[k])) /\ Reads(y, q[k]) \in Int
      BY <2>1, <3>1, ReadsOn, ThroughMore
    <3> QED
      BY <3>2
  <2> HIDE DEF Good
  <2> QED
    BY <2>1, <2>2, <2>3 DEF KeepStep
<1>5. <<n, Keeps!FoldOf(0, <<>>, q)>> \in G
  <2> HIDE DEF G
  <2> QED
    BY <1>1, <1>3, <1>4, Keeps!FoldKeeps
<1> QED
  BY <1>2, <1>5

\* What is queued is read after what was queued before.
LEMMA PushReads ==
    ASSUME NEW b \in Fitting, NEW m \in Messages, NEW x \in Int, NEW y \in Int,
           Through(Reading, x, b.items, y), Push(b, m).close = "open"
    PROVE  Through(Reading, x, Push(b, m).items, Reads(y, m))
<1> DEFINE kept == IF m.t = "snapshot" THEN Lasting(b.items) ELSE b.items
<1>1. b.items \in Seq(Messages) /\ b \in Boxes
  BY DEF Fitting, Boxes
<1>2. b.close = "open" /\ ~(Len(kept) >= OutboxItems)
  BY DEF Push
<1>3. Push(b, m).items = Append(kept, m)
  <2>1. Push(b, m) = [b EXCEPT !.items = Append(kept, m)]
    BY <1>2 DEF Push
  <2> HIDE DEF kept
  <2> QED
    BY <1>1, <2>1 DEF Boxes
<1>4. kept \in Seq(Messages)
  BY <1>1, LastingFacts
<1>5. PICK z \in Int : Through(Reading, x, kept, z) /\ Reads(z, m) = Reads(y, m)
  <2>1. CASE m.t = "snapshot"
    <3>1. PICK z \in Int : Through(Reading, x, Lasting(b.items), z)
      BY <1>1, LastingReads
    <3>2. Reads(z, m) = Reads(y, m)
      BY <2>1 DEF Reads, Applied
    <3> QED
      BY <2>1, <3>1, <3>2
  <2>2. CASE m.t # "snapshot"
    BY <2>2
  <2> QED
    BY <2>1, <2>2
<1> HIDE DEF kept
<1> QED
  BY <1>3, <1>4, <1>5, ReadsOn, ThroughMore

LEMMA PushAllReads ==
    ASSUME NEW b \in Fitting, NEW ms \in Seq(Messages), NEW x \in Int, NEW y \in Int,
           NEW z \in Int, b.close = "open" => Through(Reading, x, b.items, y),
           Through(Reading, y, ms, z), PushAll(b, ms).close = "open"
    PROVE  Through(Reading, x, PushAll(b, ms).items, z)
<1> DEFINE n == Len(ms)
<1>0. PICK r \in [0..n -> Int] : /\ r[0] = y /\ r[n] = z
                                 /\ \A i \in 1..n : <<r[i - 1], ms[i], r[i]>> \in Reading
  BY DEF Through
<1> DEFINE Good(k, c) == c.close = "open" => Through(Reading, x, c.items, r[k])
<1> DEFINE G == {w \in (0..n) \X Fitting : Good(w[1], w[2])}
<1>1. n \in Nat /\ DOMAIN ms = 1..n /\ \A i \in 1..n : ms[i] \in Messages
  BY LenProperties, ElementOfSeq
<1>2. PushAll(b, ms) = Pushes!FoldOf(0, b, ms)
  BY DEF PushAll, PushStep, FoldLeft, MapThenFoldSet, Pushes!FoldOf, Max
<1>3. <<0, b>> \in G
  <2>1. Good(0, b) /\ 0 \in 0..n
    BY <1>0, <1>1
  <2> HIDE DEF Good
  <2> QED
    BY <2>1
<1>4. ASSUME NEW k \in 1..n, NEW c, <<k - 1, c>> \in G PROVE <<k, PushStep(0, c, ms[k])>> \in G
  <2>1. Good(k - 1, c) /\ k \in 0..n /\ k - 1 \in 0..n /\ c \in Fitting /\ ms[k] \in Messages
    <3> HIDE DEF Good
    <3> QED
      BY <1>1, <1>4
  <2> DEFINE g == Push(c, ms[k])
  <2>2. g \in Fitting /\ (g.close = "open" => c.close = "open")
    BY <2>1, PushFacts
  <2>3. r[k] = Reads(r[k - 1], ms[k]) /\ r[k - 1] \in Int /\ r[k] \in Int
    BY <1>0, <2>1 DEF Reading
  <2>4. Good(k, g)
    <3>1. SUFFICES ASSUME g.close = "open" PROVE Through(Reading, x, g.items, r[k])
      OBVIOUS
    <3>2. Through(Reading, x, c.items, r[k - 1])
      BY <2>1, <2>2, <3>1
    <3> QED
      BY <2>1, <2>3, <3>1, <3>2, PushReads
  <2> HIDE DEF Good, g
  <2> QED
    BY <2>1, <2>2, <2>4 DEF PushStep, g
<1>5. <<n, Pushes!FoldOf(0, b, ms)>> \in G
  <2> HIDE DEF G
  <2> QED
    BY <1>1, <1>3, <1>4, Pushes!FoldKeeps
<1> QED
  BY <1>0, <1>2, <1>5

\* The log of the host leads from its snapshot to where it is.
Logged(h) ==
    /\ h.logState # "stale" => /\ h.seq = h.snap + Len(h.log)
                               /\ \A i \in 1..Len(h.log) : h.log[i] = h.snap + i
    /\ \A a \in h.answers : a.t = "ack" => a.n <= h.seq

\* Who enters with a log that was not thrown away has the document.
LEMMA EntranceReads ==
    ASSUME NEW h \in Sessions, Logged(h), h.logState # "stale", NEW x \in Int
    PROVE  Through(Reading, x, Entrance(h), h.seq)
<1> DEFINE low == {a \in h.answers : a.t = "nack" /\ a.c <= h.last}
<1> DEFINE order == InOrder({a.c : a \in low})
<1> DEFINE welcome == Msg("welcome", h.last, h.token)
<1> DEFINE snapshot == Msg("snapshot", 0, h.snap)
<1> DEFINE log == [i \in 1..Len(h.log) |-> Msg("ops", 0, h.log[i])]
<1> DEFINE nacks == [i \in 1..Len(order) |-> CHOOSE a \in low : a.c = order[i]]
<1>1. Entrance(h) = <<welcome>> \o (<<snapshot>> \o log) \o nacks
  BY DEF Entrance
<1>2. /\ h.answers \subseteq Answers /\ h.log \in Seq(Nat) /\ h.snap \in Nat /\ h.seq \in Nat
      /\ h.last \in 0..MaxCommits /\ h.token \in Nat
      /\ Len(h.log) \in Nat /\ \A i \in 1..Len(h.log) : h.log[i] \in Nat
  <2>1. h.log \in Seq(Nat)
    BY DEF Sessions
  <2> QED
    BY <2>1, LenProperties, ElementOfSeq DEF Sessions
<1>3. welcome \in Messages /\ snapshot \in Messages
  BY <1>2 DEF Msg, Messages, Words, Changes
<1>4. Reads(x, welcome) = -1 /\ Reads(-1, snapshot) = h.snap
  BY DEF Reads, Applied, Msg
<1>5. \A m \in Messages : <<m>> \in Seq(Messages) /\ <<m>> = Append(<<>>, m)
  OBVIOUS
<1> HIDE DEF welcome, snapshot
<1>6. Through(Reading, x, <<welcome>>, -1) /\ Through(Reading, -1, <<snapshot>>, h.snap)
  <2>1. <<>> \in Seq(Messages)
    BY EmptySeq
  <2>2. Through(Reading, x, <<>>, x) /\ Through(Reading, -1, <<>>, -1)
    BY ThroughNothing
  <2>3. -1 \in Int /\ h.snap \in Int
    BY <1>2
  <2>4. <<x, welcome, -1>> \in Reading /\ <<-1, snapshot, h.snap>> \in Reading
    BY <1>3, <1>4, <2>3, ReadsOn
  <2>5. Through(Reading, x, Append(<<>>, welcome), -1)
    BY <1>3, <2>1, <2>2, <2>3, <2>4, ThroughMore
  <2>6. Through(Reading, -1, Append(<<>>, snapshot), h.snap)
    BY <1>3, <2>1, <2>2, <2>3, <2>4, ThroughMore
  <2> QED
    BY <1>3, <1>5, <2>5, <2>6
<1>7. log \in Seq(Messages) /\ Through(Reading, h.snap, log, h.seq)
  <2> DEFINE n == Len(h.log)
  <2>1. /\ \A i \in 1..n : log[i] = Msg("ops", 0, h.snap + i) /\ h.snap + i \in Nat
        /\ h.seq = h.snap + n
    BY <1>2 DEF Logged
  <2>2. \A i \in 1..n : log[i] \in Messages
    BY <2>1 DEF Msg, Messages, Words, Changes
  <2>3. log \in [1..n -> Messages]
    BY <2>2
  <2> HIDE DEF log
  <2>4. log \in Seq(Messages) /\ Len(log) = n
    <3> HIDE DEF n
    <3>1. n \in Nat
      BY <1>2 DEF n
    <3>2. log \in Seq(Messages)
      BY <2>3, <3>1, SeqDef
    <3>3. DOMAIN log = 1..n /\ DOMAIN log = 1..Len(log) /\ Len(log) \in Nat
      BY <2>3, <3>2, LenProperties
    <3>4. 1..n = 1..Len(log)
      BY <3>3
    <3>5. Len(log) = n
      BY <3>1, <3>3, <3>4
    <3> QED
      BY <3>2, <3>5
  <2> DEFINE r == [i \in 0..n |-> h.snap + i]
  <2>5. r \in [0..n -> Int] /\ r[0] = h.snap /\ r[n] = h.seq
    BY <1>2, <2>1
  <2>6. ASSUME NEW i \in 1..n PROVE <<r[i - 1], log[i], r[i]>> \in Reading
    <3>1. i \in 0..n /\ i - 1 \in 0..n
      BY <1>2
    <3>2. r[i - 1] = h.snap + i - 1 /\ r[i] = h.snap + i /\ r[i - 1] \in Nat
      BY <1>2, <3>1
    <3>3. Reads(r[i - 1], log[i]) = r[i]
      <4>1. log[i].t = "ops" /\ log[i].n = h.snap + i
        <5>1. log[i] = Msg("ops", 0, h.snap + i)
          BY <2>1
        <5> HIDE DEF log, r
        <5> QED
          BY <5>1 DEF Msg
      <4>2. /\ ~(log[i].n <= r[i - 1]) /\ r[i - 1] >= 0
            /\ log[i].n = r[i - 1] + 1 /\ log[i].n = r[i]
        BY <1>2, <3>2, <4>1
      <4> HIDE DEF r
      <4> QED
        BY <4>1, <4>2 DEF Reads, Applied
    <3> HIDE DEF r
    <3> QED
      BY <2>2, <3>2, <3>3, ReadsOn
  <2> HIDE DEF r
  <2> QED
    BY <2>4, <2>5, <2>6 DEF Through
<1>8. nacks \in Seq(Messages) /\ Through(Reading, h.seq, nacks, h.seq)
  <2>1. {a.c : a \in low} \in SUBSET Commits
    BY <1>2 DEF Answers
  <2>2. \A a \in low : a \in Messages /\ a.t = "nack"
    BY <1>2 DEF Messages, Words
  <2> HIDE DEF low
  <2>3. order \in Seq({a.c : a \in low})
    BY <2>1, InOrderFacts
  <2> HIDE DEF order
  <2>4. Len(order) \in Nat /\ \A i \in 1..Len(order) : order[i] \in {a.c : a \in low}
    BY <2>3, LenProperties, ElementOfSeq
  <2>5. \A i \in 1..Len(order) : (CHOOSE a \in low : a.c = order[i]) \in low
    BY <2>4
  <2>6. nacks \in [1..Len(order) -> Messages] /\ \A i \in 1..Len(order) : nacks[i].t = "nack"
    BY <2>2, <2>5
  <2> HIDE DEF nacks
  <2>7. nacks \in Seq(Messages) /\ Len(nacks) = Len(order)
    BY <2>4, <2>6, SeqDef, LenProperties
  <2>8. ASSUME NEW i \in 1..Len(nacks) PROVE <<h.seq, nacks[i], h.seq>> \in Reading
    <3>1. nacks[i] \in Messages /\ nacks[i].t = "nack" /\ h.seq \in Int
      BY <1>2, <2>6, <2>7
    <3>2. Reads(h.seq, nacks[i]) = h.seq
      BY <3>1 DEF Reads, Applied
    <3> QED
      BY <3>1, <3>2, ReadsOn
  <2>9. h.seq \in Int
    BY <1>2
  <2> QED
    BY <2>7, <2>8, <2>9, ThroughIdle
<1> HIDE DEF log, nacks
<1>9. -1 \in Int /\ h.snap \in Int /\ h.seq \in Int
  BY <1>2
<1>10. <<welcome>> \in Seq(Messages) /\ <<snapshot>> \in Seq(Messages)
  BY <1>3, <1>5
<1>11. <<snapshot>> \o log \in Seq(Messages) /\ Through(Reading, -1, <<snapshot>> \o log, h.seq)
  <2>1. <<snapshot>> \o log \in Seq(Messages)
    BY <1>7, <1>10, ConcatProperties
  <2> QED
    BY <1>6, <1>7, <1>9, <1>10, <2>1, ThroughBoth
<1>12. /\ <<welcome>> \o (<<snapshot>> \o log) \in Seq(Messages)
       /\ Through(Reading, x, <<welcome>> \o (<<snapshot>> \o log), h.seq)
  <2>1. <<welcome>> \o (<<snapshot>> \o log) \in Seq(Messages)
    BY <1>10, <1>11, ConcatProperties
  <2> QED
    BY <1>6, <1>9, <1>10, <1>11, <2>1, ThroughBoth
<1> QED
  BY <1>1, <1>8, <1>9, <1>12, ThroughBoth

\* What the shell has still to say follows from what the host has, and answers
\* each commit that waits once.
Leading == {w \in Int \X Words \X Int :
              /\ w[2].t \in {"ack", "ops"} => w[2].n = w[1] + 1 /\ w[3] = w[2].n
              /\ w[2].t = "snapshot" => w[2].n >= w[1] /\ w[3] = w[2].n
              /\ w[2].t \in {"same", "nack"} => w[3] = w[1]}
Once(q) == \A i, j \in 1..Len(q) :
               i < j /\ q[i].t \in Fate /\ q[j].t \in Fate => q[i].c # q[j].c
Owing(h, s, q) ==
    /\ \A m \in Range(q) : m.t \in Fate => m.c \in h.pending
    /\ Once(q)
    /\ ~h.ended => Through(Leading, h.seq, q, Len(s.doc))

LEMMA OnceMore ==
    ASSUME NEW q \in Seq(Words), NEW m \in Words, Once(q),
           m.t \in Fate => \A x \in Range(q) : x.t \in Fate => x.c # m.c
    PROVE  Once(Append(q, m))
<1>1. /\ Len(q) \in Nat /\ Len(Append(q, m)) = Len(q) + 1
      /\ \A i \in 1..Len(q) : Append(q, m)[i] = q[i] /\ q[i] \in Range(q)
      /\ Append(q, m)[Len(q) + 1] = m
  BY AppendProperties, LenProperties, RangeIsPart
<1>2. ASSUME NEW i \in 1..(Len(q) + 1), NEW j \in 1..(Len(q) + 1), i < j,
             Append(q, m)[i].t \in Fate, Append(q, m)[j].t \in Fate
      PROVE  Append(q, m)[i].c # Append(q, m)[j].c
  <2>1. i \in 1..Len(q)
    BY <1>1, <1>2
  <2>2. CASE j \in 1..Len(q)
    BY <1>1, <1>2, <2>1, <2>2 DEF Once
  <2>3. CASE j = Len(q) + 1
    BY <1>1, <1>2, <2>1, <2>3
  <2> QED
    BY <1>1, <2>2, <2>3
<1> QED
  BY <1>1, <1>2 DEF Once

\* A change or an answer that is queued at the end.
LEMMA OwingMore ==
    ASSUME NEW h \in Sessions, NEW s \in Shells, NEW t \in Shells, NEW q \in Seq(Words),
           NEW m \in Words, Owing(h, s, q),
           m.t \in Fate => m.c \in h.pending /\ \A x \in Range(q) : x.t \in Fate => x.c # m.c,
           <<Len(s.doc), m, Len(t.doc)>> \in Leading
    PROVE  Owing(h, t, Append(q, m))
<1>1. h.seq \in Int /\ Len(s.doc) \in Int /\ Len(t.doc) \in Int
  <2>1. s.doc \in Seq(0..MaxCommits) /\ t.doc \in Seq(0..MaxCommits)
    BY DEF Shells
  <2> QED
    BY <2>1, LenProperties DEF Sessions
<1>2. Range(Append(q, m)) = Range(q) \cup {m}
  BY AppendRange
<1>3. ~h.ended => Through(Leading, h.seq, Append(q, m), Len(t.doc))
  BY <1>1, ThroughMore DEF Owing
<1> QED
  BY <1>2, <1>3, OnceMore DEF Owing

LEMMA FlushedOwing ==
    ASSUME NEW h \in Sessions, NEW s \in Shells, Sound(s), NEW q \in Seq(Words), Owing(h, s, q)
    PROVE  Owing(h, Flushed(s, q).s, Flushed(s, q).q)
<1> DEFINE f == Flushed(s, q)
<1>1. f.s \in Shells
  BY FlushedFacts
<1>2. CASE ~s.dirty
  BY <1>2 DEF Flushed
<1>3. CASE s.dirty
  <2> DEFINE m == Msg("snapshot", 0, Len(s.doc) + 1)
  <2>1. s.doc \in Seq(0..MaxCommits) /\ 0 \in 0..MaxCommits
    BY HostAssumption DEF Shells
  <2>2. Len(s.doc) \in Nat /\ Len(Append(s.doc, 0)) = Len(s.doc) + 1
    BY <2>1, LenProperties, AppendProperties
  <2>3. f.q = Append(q, m) /\ f.s.doc = Append(s.doc, 0)
    <3> DEFINE doc == Append(s.doc, 0)
    <3> DEFINE t == [s EXCEPT !.doc = doc, !.dirty = FALSE]
    <3>1. f = [s |-> t, q |-> Append(q, m)]
      BY <1>3 DEF Flushed
    <3> HIDE DEF doc, m, f
    <3>2. t.doc = doc
      BY DEF Shells
    <3> QED
      BY <3>1, <3>2 DEF doc
  <2>4. m \in Words /\ m.t = "snapshot" /\ m.n = Len(s.doc) + 1
    BY <2>2 DEF Msg, Words, Changes
  <2> HIDE DEF m, f
  <2>5. <<Len(s.doc), m, Len(f.s.doc)>> \in Leading
    BY <2>2, <2>3, <2>4 DEF Leading
  <2> QED
    BY <1>1, <2>3, <2>4, <2>5, OwingMore DEF Fate, f
<1>4. s.dirty \in BOOLEAN
  BY DEF Shells
<1> QED
  BY <1>2, <1>3, <1>4

\* What the host waits for is answered once: who has answered looks no more.
LEMMA TakeOwing ==
    ASSUME NEW h \in Sessions,
           NEW d \in [s : Shells, q : Seq(Words)], Sound(d.s), AllRight(d.s, d.q),
           Owing(h, d.s, d.q),
           NEW c \in Commits, c \in h.pending \cup d.s.answered, NEW o \in Fate,
           NEW answer \in BOOLEAN, answer \/ h.ended
    PROVE  LET g == Take(d, c, o, answer) IN Owing(h, g.s, g.q)
<1> USE HostAssumption
<1>1. CASE c \in d.s.answered
  BY <1>1 DEF Take
<1>2. CASE c \notin d.s.answered
  <2> DEFINE f == Flushed(d.s, d.q)
  <2> DEFINE doc == IF o = "ack" THEN Append(f.s.doc, c) ELSE f.s.doc
  <2> DEFINE t == [f.s EXCEPT !.doc = doc, !.answered = @ \cup {c},
                              !.refused = IF o = "nack" THEN @ \cup {c} ELSE @]
  <2> DEFINE m == Msg(o, c, IF o = "nack" THEN 0 ELSE Len(doc))
  <2>1. Take(d, c, o, answer) = [s |-> t, q |-> IF answer THEN Append(f.q, m) ELSE f.q]
    BY <1>2 DEF Take
  <2>2. /\ f.s \in Shells /\ f.q \in Seq(Words) /\ Range(f.q) \subseteq Range(d.q) \cup Changes
        /\ Owing(h, f.s, f.q)
    BY FlushedFacts, FlushedOwing
  <2> HIDE DEF f
  <2>3. f.s.doc \in Seq(0..MaxCommits) /\ Len(f.s.doc) \in Nat /\ c \in 0..MaxCommits
    <3>1. f.s.doc \in Seq(0..MaxCommits)
      BY <2>2 DEF Shells
    <3>2. c \in 0..MaxCommits
      BY DEF Commits
    <3> QED
      BY <3>1, <3>2, LenProperties
  <2>4. /\ doc \in Seq(0..MaxCommits) /\ Len(doc) \in Nat
        /\ o = "ack" => Len(doc) = Len(f.s.doc) + 1
        /\ o # "ack" => Len(doc) = Len(f.s.doc)
    <3>1. Append(f.s.doc, c) \in Seq(0..MaxCommits) /\ Len(Append(f.s.doc, c)) = Len(f.s.doc) + 1
      BY <2>3, AppendProperties
    <3>2. CASE o = "ack"
      BY <2>3, <3>1, <3>2
    <3>3. CASE o # "ack"
      BY <2>3, <3>3
    <3> QED
      BY <3>2, <3>3
  <2> HIDE DEF doc
  <2>5. t \in Shells /\ t.doc = doc
    BY <2>2, <2>4 DEF Shells
  <2> HIDE DEF t
  <2>6. m \in Words /\ m.t = o /\ m.c = c /\ (o = "ack" => m.n = Len(doc))
    <3>1. m.t = o /\ m.c = c /\ m.n \in Nat /\ m = [t |-> m.t, c |-> m.c, n |-> m.n]
          /\ (o = "ack" => m.n = Len(doc))
      BY <2>4 DEF Msg
    <3> HIDE DEF m
    <3> QED
      BY <3>1 DEF Words, Answers, Fate
  <2> HIDE DEF m
  <2>7. CASE answer
    <3>1. <<Len(f.s.doc), m, Len(t.doc)>> \in Leading
      <4>1. Len(f.s.doc) \in Int /\ Len(t.doc) \in Int
        BY <2>3, <2>4, <2>5
      <4>2. o = "ack" => m.n = Len(f.s.doc) + 1 /\ Len(t.doc) = m.n
        BY <2>4, <2>5, <2>6
      <4>3. o # "ack" => Len(t.doc) = Len(f.s.doc)
        BY <2>4, <2>5
      <4>4. m.t \in {"ack", "same", "nack"} /\ m.t = o
        BY <2>6 DEF Fate
      <4> QED
        BY <2>6, <4>1, <4>2, <4>3, <4>4 DEF Leading
    <3>2. \A x \in Range(f.q) : x.t \in Fate => x.c # c
      <4>1. ASSUME NEW x \in Range(f.q), x.t \in Fate PROVE x.c # c
        <5>1. x \in Range(d.q)
          BY <2>2, <4>1 DEF Changes, Fate
        <5> QED
          BY <1>2, <4>1, <5>1 DEF AllRight, RightIn
      <4> QED
        BY <4>1
    <3>3. Owing(h, t, Append(f.q, m))
      BY <1>2, <2>2, <2>5, <2>6, <3>1, <3>2, OwingMore
    <3> QED
      BY <2>1, <2>7, <3>3
  <2>8. CASE ~answer
    <3>1. Owing(h, t, f.q)
      BY <2>2, <2>8 DEF Owing
    <3> QED
      BY <2>1, <2>8, <3>1
  <2> QED
    BY <2>7, <2>8
<1> QED
  BY <1>1, <1>2

LEMMA TakenOwing ==
    ASSUME NEW h \in Sessions, NEW s \in Shells, Sound(s), sending \in Seq(Words),
           AllRight(s, sending), Owing(h, s, sending),
           NEW C \in SUBSET Commits, C \subseteq h.pending \cup s.answered,
           NEW o \in [C -> Fate], NEW answer \in BOOLEAN, answer \/ h.ended
    PROVE  LET d == Taken(o, answer, s) IN Owing(h, d.s, d.q)
<1> DEFINE how == [o |-> o, answer |-> answer]
<1> DEFINE seq == InOrder(C)
<1> DEFINE n == Len(seq)
<1> DEFINE base == [s |-> s, q |-> sending]
<1> DEFINE Good(d) == /\ Sound(d.s) /\ AllRight(d.s, d.q) /\ Owing(h, d.s, d.q)
                      /\ s.answered \subseteq d.s.answered
<1> DEFINE G == {x \in (0..n) \X [s : Shells, q : Seq(Words)] : Good(x[2])}
<1>1. n \in Nat /\ DOMAIN seq = 1..n /\ \A i \in 1..n : seq[i] \in C
  <2>1. seq \in Seq(C)
    BY InOrderFacts
  <2> HIDE DEF seq
  <2> QED
    BY <2>1, LenProperties, ElementOfSeq
<1>2. Taken(o, answer, s) = Takes!FoldOf(how, base, seq)
  BY DEF Taken, TakeStep, FoldLeft, MapThenFoldSet, Takes!FoldOf, Max
<1> HIDE DEF seq
<1>3. <<0, base>> \in G
  <2>1. base \in [s : Shells, q : Seq(Words)] /\ base.s = s /\ base.q = sending /\ 0 \in 0..n
    BY <1>1
  <2> HIDE DEF base
  <2>2. Good(base)
    BY <2>1
  <2> HIDE DEF Good
  <2> QED
    BY <2>1, <2>2
<1>4. ASSUME NEW k \in 1..n, NEW d, <<k - 1, d>> \in G
      PROVE  <<k, TakeStep(how, d, seq[k])>> \in G
  <2> DEFINE g == Take(d, seq[k], o[seq[k]], answer)
  <2>1. d \in [s : Shells, q : Seq(Words)] /\ Good(d) /\ k \in 0..n
    <3> HIDE DEF Good
    <3> QED
      BY <1>1, <1>4
  <2>3. TakeStep(how, d, seq[k]) = g
    BY DEF TakeStep
  <2> HIDE DEF how
  <2>4. /\ g \in [s : Shells, q : Seq(Words)]
        /\ Sound(g.s) /\ AllRight(g.s, g.q) /\ d.s.answered \subseteq g.s.answered
        /\ Owing(h, g.s, g.q)
    <3>1. Sound(d.s) /\ AllRight(d.s, d.q) /\ Owing(h, d.s, d.q)
      BY <2>1
    <3> DEFINE c == seq[k]
    <3>2. c \in Commits /\ o[c] \in Fate /\ c \in h.pending \cup d.s.answered
      BY <1>1, <2>1
    <3> HIDE DEF c
    <3>3. LET e == Take(d, c, o[c], answer)
          IN  /\ e \in [s : Shells, q : Seq(Words)]
              /\ Sound(e.s) /\ AllRight(e.s, e.q)
              /\ e.s.answered = d.s.answered \cup {c}
      BY <2>1, <3>1, <3>2, TakeFacts
    <3>4. LET e == Take(d, c, o[c], answer) IN Owing(h, e.s, e.q)
      BY <2>1, <3>1, <3>2, TakeOwing
    <3>5. LET e == Take(d, c, o[c], answer)
          IN  /\ e \in [s : Shells, q : Seq(Words)]
              /\ Sound(e.s) /\ AllRight(e.s, e.q) /\ d.s.answered \subseteq e.s.answered
              /\ Owing(h, e.s, e.q)
      <4> DEFINE e == Take(d, c, o[c], answer)
      <4>1. /\ e \in [s : Shells, q : Seq(Words)]
            /\ Sound(e.s) /\ AllRight(e.s, e.q)
            /\ e.s.answered = d.s.answered \cup {c}
        BY <3>3
      <4>2. Owing(h, e.s, e.q)
        BY <3>4
      <4> HIDE DEF e
      <4>3. d.s.answered \subseteq e.s.answered
        BY <4>1
      <4> QED
        BY <4>1, <4>2, <4>3 DEF e
    <3> QED
      BY <3>5, Zenon DEF c
  <2> HIDE DEF g
  <2>8. Good(g)
    BY <2>1, <2>4
  <2> HIDE DEF Good
  <2> QED
    BY <2>1, <2>3, <2>4, <2>8
<1>5. <<n, Takes!FoldOf(how, base, seq)>> \in G
  <2> HIDE DEF G, how, base
  <2> QED
    BY <1>1, <1>3, <1>4, Takes!FoldKeeps
<1> QED
  BY <1>2, <1>5

LEMMA OnceLess ==
    ASSUME NEW q \in Seq(Words), q # <<>>, Once(q)
    PROVE  /\ Once(Tail(q))
           /\ Head(q).t \in Fate => \A x \in Range(Tail(q)) : x.t \in Fate => x.c # Head(q).c
<1>1. /\ Len(q) \in Nat \ {0} /\ Len(Tail(q)) = Len(q) - 1 /\ Head(q) = q[1]
      /\ \A i \in 1..Len(Tail(q)) : Tail(q)[i] = q[i + 1]
      /\ Tail(q) \in Seq(Words)
  BY HeadTailProperties, LenProperties, EmptySeq
<1>2. \A i \in 1..Len(Tail(q)) : i + 1 \in 1..Len(q) /\ 1 \in 1..Len(q) /\ 1 < i + 1
  BY <1>1
<1>3. Once(Tail(q))
  <2>1. ASSUME NEW i \in 1..Len(Tail(q)), NEW j \in 1..Len(Tail(q)), i < j,
               Tail(q)[i].t \in Fate, Tail(q)[j].t \in Fate
        PROVE  Tail(q)[i].c # Tail(q)[j].c
    <3>1. i + 1 \in 1..Len(q) /\ j + 1 \in 1..Len(q) /\ i + 1 < j + 1
      BY <1>1, <2>1
    <3>2. Tail(q)[i] = q[i + 1] /\ Tail(q)[j] = q[j + 1]
      BY <1>1
    <3> QED
      BY <2>1, <3>1, <3>2 DEF Once
  <2> QED
    BY <2>1 DEF Once
<1>4. ASSUME Head(q).t \in Fate, NEW x \in Range(Tail(q)), x.t \in Fate
      PROVE  x.c # Head(q).c
  <2>1. PICK i \in 1..Len(Tail(q)) : x = Tail(q)[i]
    BY <1>1, LenProperties DEF Range
  <2> QED
    BY <1>1, <1>2, <1>4, <2>1 DEF Once
<1> QED
  BY <1>3, <1>4

\* What a message does to the text and the log of the host.
LEMMA SendText ==
    ASSUME NEW h \in Sessions, Keeper(h), Len(h.log) <= LogHard, NEW m \in Words
    PROVE  LET g == Send(h, m)
           IN  /\ m.t \in {"ack", "ops"} =>
                     /\ g.seq = m.n /\ g.snap = h.snap
                     /\ g.logState # "stale" => /\ h.logState # "stale"
                                                /\ g.log = Append(h.log, m.n)
               /\ m.t = "snapshot" => g.seq = m.n /\ g.snap = m.n /\ g.log = <<>>
               /\ m.t \notin {"ack", "ops", "snapshot"} => SameText(g, h)
<1> USE HostAssumption
<1> DEFINE noted ==
            IF m.t \in {"ack", "ops"} THEN AppendLog([h EXCEPT !.seq = m.n], m.n)
            ELSE IF m.t = "snapshot"
                 THEN [h EXCEPT !.seq = m.n, !.snap = m.n, !.log = <<>>, !.logState = "fresh"]
                 ELSE h
<1> DEFINE Said(g) ==
        /\ m.t \in {"ack", "ops"} =>
              /\ g.seq = m.n /\ g.snap = h.snap
              /\ g.logState # "stale" => h.logState # "stale" /\ g.log = Append(h.log, m.n)
        /\ m.t = "snapshot" => g.seq = m.n /\ g.snap = m.n /\ g.log = <<>>
        /\ m.t \notin {"ack", "ops", "snapshot"} => SameText(g, h)
<1>1. m.n \in Nat /\ (m.t \in Fate => m \in Answers)
  BY DEF Words, Changes, Answers, Fate
<1>2. noted \in Sessions /\ SameBooks(noted, h) /\ Said(noted)
  <2>1. CASE m.t \in {"ack", "ops"}
    <3> DEFINE at == [h EXCEPT !.seq = m.n]
    <3> DEFINE g == AppendLog(at, m.n)
    <3>1. /\ at \in Sessions /\ at.log = h.log /\ at.seq = m.n /\ at.snap = h.snap
          /\ at.logState = h.logState /\ SameBooks(at, h)
      BY <1>1 DEF Sessions, SameBooks
    <3>2. noted = g
      BY <2>1
    <3> HIDE DEF at, noted
    <3>3. /\ g \in Sessions /\ SameBooks(g, at) /\ g.seq = at.seq /\ g.snap = at.snap
      BY <1>1, <3>1, AppendLogFacts
    <3>4. g.logState # "stale" => at.logState # "stale" /\ g.log = Append(at.log, m.n)
      <4>1. CASE at.logState = "stale"
        BY <4>1 DEF AppendLog
      <4>2. CASE at.logState # "stale" /\ Len(at.log) >= LogHard
        <5>1. g = [at EXCEPT !.log = <<>>, !.logState = "stale"]
          BY <4>2 DEF AppendLog
        <5> QED
          BY <3>1, <5>1 DEF Sessions
      <4>3. CASE at.logState # "stale" /\ ~(Len(at.log) >= LogHard)
        <5> DEFINE l == Append(at.log, m.n)
        <5> DEFINE w == IF Len(at.log) >= LogSoft THEN "wanted" ELSE at.logState
        <5>1. g = [at EXCEPT !.log = l, !.logState = w]
          BY <4>3 DEF AppendLog
        <5> HIDE DEF l, w
        <5>2. g.log = l
          BY <3>1, <5>1 DEF Sessions
        <5> QED
          BY <4>3, <5>2 DEF l
      <4> QED
        BY <4>1, <4>2, <4>3
    <3> HIDE DEF g
    <3>5. Said(noted)
      BY <2>1, <3>1, <3>2, <3>3, <3>4
    <3>6. SameBooks(noted, h)
      BY <3>1, <3>2, <3>3 DEF SameBooks
    <3> QED
      BY <3>2, <3>3, <3>5, <3>6
  <2>2. CASE m.t = "snapshot"
    <3> DEFINE l == <<>>
    <3>1. l \in Seq(Nat) /\ Len(l) = 0
      BY EmptySeq
    <3>2. noted = [h EXCEPT !.seq = m.n, !.snap = m.n, !.log = l, !.logState = "fresh"]
      BY <2>2
    <3> HIDE DEF l, noted
    <3>3. noted \in Sessions /\ noted.log = l /\ noted.seq = m.n /\ noted.snap = m.n
      BY <1>1, <3>1, <3>2 DEF Sessions
    <3>4. SameBooks(noted, h)
      BY <3>2 DEF Sessions, SameBooks
    <3> QED
      BY <2>2, <3>3, <3>4 DEF l
  <2>3. CASE m.t \notin {"ack", "ops", "snapshot"}
    BY <2>3 DEF SameBooks, SameText
  <2> QED
    BY <2>1, <2>2, <2>3
<1>3. Send(h, m) = IF m.t \in Fate THEN Answer(noted, m) ELSE noted
  BY DEF Send, Fate
<1> HIDE DEF noted
<1>4. Keeper(noted)
  BY <1>2 DEF SameBooks, Keeper
<1>5. Said(Send(h, m))
  <2>1. CASE m.t \in Fate
    <3> DEFINE g == Answer(noted, m)
    <3>1. SameText(g, noted)
      BY <1>1, <1>2, <1>4, <2>1, AnswerFacts
    <3>2. Send(h, m) = g
      BY <1>3, <2>1
    <3> HIDE DEF g
    <3> QED
      BY <1>2, <3>1, <3>2 DEF SameText
  <2>2. CASE m.t \notin Fate
    BY <1>2, <1>3, <2>2
  <2> QED
    BY <2>1, <2>2
<1> QED
  BY <1>5

\* The host takes what the shell says, and is where the shell was when it said it.
LEMMA SendAhead ==
    ASSUME NEW h \in Sessions, Keeper(h), Len(h.log) <= LogHard, Logged(h), ~h.ended,
           NEW s \in Shells, NEW q \in Seq(Words), q # <<>>, Owing(h, s, q)
    PROVE  LET g == Send(h, Head(q))
           IN  /\ ~SendFails(h, Head(q))
               /\ <<h.seq, Head(q), g.seq>> \in Leading
               /\ Logged(g) /\ Owing(g, s, Tail(q))
<1> DEFINE m == Head(q)
<1> DEFINE g == Send(h, m)
<1>1. m \in Words /\ m \in Range(q) /\ Tail(q) \in Seq(Words) /\ Range(Tail(q)) \subseteq Range(q)
  BY HeadAndTail
<1>2. /\ m.n \in Nat /\ h.seq \in Nat /\ h.seq \in Int /\ Len(s.doc) \in Int
      /\ m.t \in {"ack", "same", "nack", "ops", "snapshot"} /\ m \in Messages
      /\ h.snap \in Nat /\ h.log \in Seq(Nat) /\ Len(h.log) \in Nat
  <2>1. s.doc \in Seq(0..MaxCommits) /\ h.log \in Seq(Nat)
    BY DEF Shells, Sessions
  <2> QED
    BY <1>1, <2>1, LenProperties DEF Words, Changes, Answers, Sessions, Messages
<1>3. PICK z \in Int : <<h.seq, m, z>> \in Leading /\ Through(Leading, z, Tail(q), Len(s.doc))
  BY <1>2, ThroughFirst DEF Owing
<1>4. Once(Tail(q)) /\ (m.t \in Fate => \A x \in Range(Tail(q)) : x.t \in Fate => x.c # m.c)
  BY OnceLess DEF Owing
<1> HIDE DEF m
<1>5. ~SendFails(h, m)
  BY <1>1, <1>2, <1>3 DEF SendFails, Leading, Owing, Fate
<1>6. /\ g \in Sessions
      /\ g.pending = IF m.t \in Fate THEN h.pending \ {m.c} ELSE h.pending
      /\ \A a \in g.answers : a \in h.answers \/ (m.t \in Fate /\ a = m)
      /\ g.ended = h.ended
  BY <1>2, SendFacts DEF SameLink
<1>7. /\ m.t \in {"ack", "ops"} =>
            /\ g.seq = m.n /\ g.snap = h.snap
            /\ g.logState # "stale" => h.logState # "stale" /\ g.log = Append(h.log, m.n)
      /\ m.t = "snapshot" => g.seq = m.n /\ g.snap = m.n /\ g.log = <<>>
      /\ m.t \notin {"ack", "ops", "snapshot"} => SameText(g, h)
  BY <1>1, SendText
<1> HIDE DEF g
<1>8. g.seq = z /\ z >= h.seq
  BY <1>2, <1>3, <1>7 DEF Leading, SameText
<1>9. Logged(g)
  <2>1. \A a \in g.answers : a.t = "ack" => a.n <= g.seq
    <3>1. ASSUME NEW a \in g.answers, a.t = "ack" PROVE a.n <= g.seq
      <4>1. CASE a = m
        BY <1>2, <1>7, <3>1, <4>1
      <4>2. CASE a # m
        <5>1. a \in h.answers /\ a.n \in Nat
          BY <1>6, <4>2 DEF Sessions, Answers
        <5>2. a.n <= h.seq
          BY <3>1, <5>1 DEF Logged
        <5> QED
          BY <1>2, <1>8, <5>1, <5>2
      <4> QED
        BY <4>1, <4>2
    <3> QED
      BY <3>1
  <2>2. CASE m.t \in {"ack", "ops"} /\ g.logState # "stale"
    <3> DEFINE l == Append(h.log, m.n)
    <3>1. /\ g.log = l /\ g.snap = h.snap /\ g.seq = m.n /\ h.logState # "stale"
          /\ m.n = h.seq + 1
      BY <1>3, <1>7, <2>2 DEF Leading
    <3>2. /\ Len(l) = Len(h.log) + 1 /\ \A i \in 1..Len(h.log) : l[i] = h.log[i]
          /\ l[Len(h.log) + 1] = m.n
      BY <1>2, AppendProperties
    <3> HIDE DEF l
    <3>3. h.seq = h.snap + Len(h.log) /\ \A i \in 1..Len(h.log) : h.log[i] = h.snap + i
      BY <3>1 DEF Logged
    <3>4. \A i \in 1..(Len(h.log) + 1) : l[i] = h.snap + i
      <4>1. ASSUME NEW i \in 1..(Len(h.log) + 1) PROVE l[i] = h.snap + i
        <5>1. CASE i = Len(h.log) + 1
          <6>1. l[i] = m.n
            BY <3>2, <5>1
          <6>2. m.n = h.snap + i
            BY <1>2, <3>1, <3>3, <5>1
          <6> QED
            BY <6>1, <6>2
        <5>2. CASE i \in 1..Len(h.log)
          BY <3>2, <3>3, <5>2
        <5>3. i = Len(h.log) + 1 \/ i \in 1..Len(h.log)
          BY <1>2
        <5> QED
          BY <5>1, <5>2, <5>3
      <4> QED
        BY <4>1
    <3>5. h.snap + (Len(h.log) + 1) = m.n
      BY <1>2, <3>1, <3>3
    <3> QED
      BY <2>1, <3>1, <3>2, <3>4, <3>5 DEF Logged
  <2>3. CASE g.logState = "stale"
    BY <2>1, <2>3 DEF Logged
  <2>4. CASE m.t = "snapshot"
    <3>1. g.seq = m.n /\ g.snap = m.n /\ Len(g.log) = 0
      BY <1>7, <2>4, EmptySeq
    <3>2. g.seq = g.snap + Len(g.log) /\ \A i \in 1..Len(g.log) : g.log[i] = g.snap + i
      BY <1>2, <3>1
    <3> QED
      BY <2>1, <3>2 DEF Logged
  <2>5. CASE m.t \notin {"ack", "ops", "snapshot"}
    BY <1>7, <2>1, <2>5 DEF Logged, SameText
  <2> QED
    BY <2>2, <2>3, <2>4, <2>5
<1>10. Owing(g, s, Tail(q))
  <2>1. \A x \in Range(Tail(q)) : x.t \in Fate => x.c \in g.pending
    BY <1>1, <1>4, <1>6 DEF Owing
  <2> QED
    BY <1>3, <1>4, <1>8, <2>1 DEF Owing
<1>11. <<h.seq, m, g.seq>> \in Leading
  BY <1>3, <1>8
<1> QED
  BY <1>5, <1>9, <1>10, <1>11 DEF m, g

\* A change that was not put on the connection is still to come.
Excuse == \/ \E e \in Range(events) : e.t = "wanted"
          \/ \E m \in Range(sending) : m.t = "snapshot"
          \/ shell.stop = "done"

\* The connection in force, if the writer reads it.
Listening == /\ host.conn # NoConn /\ host.conn = client.conn
             /\ client.at \in {"live", "trying"} /\ box[host.conn].close = "open"

\* Who reads what is queued has what the host has.
Stepped ==
    Listening => /\ ~host.ended
                 /\ Excuse \/ Through(Reading, client.seen, box[host.conn].items, host.seq)

Tracked == Owing(host, shell, sending) /\ Logged(host) /\ Stepped

LEMMA OwingStays ==
    ASSUME NEW h, NEW g, NEW s, NEW t, NEW q, Owing(h, s, q), h.pending \subseteq g.pending,
           g.seq = h.seq, h.ended => g.ended, t.doc = s.doc
    PROVE  Owing(g, t, q)
BY DEF Owing

LEMMA LoggedStays ==
    ASSUME NEW h, NEW g, Logged(h), SameText(g, h), g.answers \subseteq h.answers
    PROVE  Logged(g)
BY DEF Logged, SameText

LEMMA SteppedStays ==
    ASSUME Stepped, host'.seq = host.seq, host'.ended = host.ended, Excuse => Excuse',
           Listening' => /\ Listening /\ client'.conn = client.conn /\ client'.seen = client.seen
                         /\ box'[client.conn] = box[client.conn]
    PROVE  Stepped'
<1>1. SUFFICES ASSUME Listening'
               PROVE  /\ ~host'.ended
                      /\ Excuse' \/ Through(Reading, client'.seen, box'[host'.conn].items, host'.seq)
  BY DEF Stepped
<1>2. /\ Listening /\ client'.conn = client.conn /\ client'.seen = client.seen
      /\ box'[client.conn] = box[client.conn]
  BY <1>1
<1>3. host'.conn = client'.conn /\ host.conn = client.conn
  BY <1>1, <1>2 DEF Listening
<1>4. box'[host'.conn] = box[host.conn]
  BY <1>2, <1>3
<1> QED
  BY <1>2, <1>4 DEF Stepped

\* What neither the text nor the queue of a writer that listens is changed by.
LEMMA Unmoved ==
    ASSUME Tracked, SameText(host', host), host'.ended = host.ended,
           host.pending \subseteq host'.pending, host'.answers \subseteq host.answers,
           shell'.doc = shell.doc, shell.stop = "done" => shell'.stop = "done",
           sending' = sending, Range(events) \subseteq Range(events'),
           Listening' => /\ Listening /\ client'.conn = client.conn /\ client'.seen = client.seen
                         /\ box'[client.conn] = box[client.conn]
    PROVE  Tracked'
<1>1. Owing(host', shell', sending')
  <2>1. Owing(host', shell', sending)
    BY OwingStays DEF Tracked, SameText
  <2> QED
    BY <2>1
<1>2. Logged(host')
  BY LoggedStays DEF Tracked
<1>3. Stepped'
  <2>1. Excuse => Excuse'
    BY DEF Excuse
  <2> QED
    BY <2>1, SteppedStays DEF Tracked, SameText
<1> QED
  BY <1>1, <1>2, <1>3 DEF Tracked

LEMMA StartsTracked ==
    ASSUME Init
    PROVE  Tracked
<1> USE HostAssumption
<1>1. <<>> \in Seq(Messages) /\ <<>> \in Seq(Words) /\ Len(<<>>) = 0 /\ Range(<<>>) = {}
  <2>1. <<>> \in Seq(Messages) /\ <<>> \in Seq(Words) /\ Len(<<>>) = 0
    BY EmptySeq
  <2> QED
    BY <2>1, RangeIsPart
<1>2. host = FirstSession /\ sending = <<>> /\ client.seen = -1 /\ shell.doc = <<>>
  BY DEF Init
<1>3. /\ host.pending = {} /\ host.seq = 0 /\ host.snap = 0 /\ host.log = <<>> /\ ~host.ended
      /\ host.answers = {} /\ host.conn = 1
  BY <1>2 DEF FirstSession
<1>4. Owing(host, shell, sending)
  <2>1. Through(Leading, 0, <<>>, 0)
    BY ThroughNothing
  <2>2. Once(<<>>)
    BY <1>1 DEF Once
  <2> QED
    BY <1>1, <1>2, <1>3, <2>1, <2>2 DEF Owing
<1>5. Logged(host)
  BY <1>1, <1>3 DEF Logged
<1>6. Stepped
  <2> DEFINE m == Msg("snapshot", 0, 0)
  <2> DEFINE b == Push(EmptyBox, m)
  <2>1. EmptyBox \in Fitting /\ EmptyBox.items = <<>>
    BY <1>1 DEF EmptyBox, Fitting, Boxes
  <2>2. m \in Messages /\ Reads(-1, m) = 0
    BY DEF Msg, Messages, Words, Changes, Reads, Applied
  <2>3. box[1] = b
    <3>1. box = [k \in Conns |-> IF k = 1 THEN b ELSE EmptyBox] /\ 1 \in Conns
      BY DEF Init, Conns
    <3> HIDE DEF b
    <3> QED
      BY <3>1
  <2> HIDE DEF m
  <2>4. Through(Reading, -1, EmptyBox.items, -1)
    BY <2>1, ThroughNothing
  <2>5. b.close = "open" => Through(Reading, -1, b.items, 0)
    BY <2>1, <2>2, <2>4, PushReads
  <2> QED
    BY <1>2, <1>3, <2>3, <2>5 DEF Stepped, Listening
<1> QED
  BY <1>4, <1>5, <1>6 DEF Tracked

\* The steps after which the writer has what it had, or reads no more.
LEMMA ClientQuietly ==
    ASSUME IInv, Tracked, Commit \/ SendCommit \/ SendOther \/ Leave \/ ReadClose \/ ResumeExpires
    PROVE  Tracked'
<1>1. client \in Clients
  BY DEF IInv, TypeOK
<1>2. /\ client'.conn = client.conn /\ client'.seen = client.seen
      /\ client'.at \in {"live", "trying"} => client.at \in {"live", "trying"}
  <2>1. CASE Commit
    BY <1>1, <2>1 DEF Commit, Clients
  <2>2. CASE SendCommit
    BY <1>1, <2>2 DEF SendCommit, Clients
  <2>3. CASE SendOther
    BY <1>1, <2>3 DEF SendOther, Clients
  <2>4. CASE Leave
    BY <1>1, <2>4 DEF Leave, Clients
  <2>5. CASE ReadClose
    BY <1>1, <2>5 DEF ReadClose, Clients
  <2>6. CASE ResumeExpires
    BY <1>1, <2>6 DEF ResumeExpires, Clients
  <2> QED
    BY <2>1, <2>2, <2>3, <2>4, <2>5, <2>6
<1>3. UNCHANGED <<box, host, events, shell, sending>>
  BY DEF Commit, SendCommit, SendOther, Leave, ReadClose, ResumeExpires, wire, desk
<1>4. SameText(host', host)
  BY <1>3 DEF SameText
<1>5. Listening' => Listening
  BY <1>2, <1>3 DEF Listening
<1> QED
  BY <1>2, <1>3, <1>4, <1>5, Unmoved

LEMMA LoseTracked ==
    ASSUME IInv, Tracked, Lose
    PROVE  Tracked'
<1>1. client'.at = "out"
  BY DEF Lose, IInv, TypeOK, Clients
<1>2. UNCHANGED <<host, events, shell, sending>>
  BY DEF Lose, desk
<1>3. ~Listening'
  BY <1>1 DEF Listening
<1>4. SameText(host', host)
  BY <1>2 DEF SameText
<1> QED
  BY <1>2, <1>3, <1>4, Unmoved

LEMMA DialTracked ==
    ASSUME IInv, Tracked, Dial
    PROVE  Tracked'
<1>1. client'.conn = client.conn + 1
  BY DEF Dial, IInv, TypeOK, Clients
<1>2. UNCHANGED <<box, host, events, shell, sending>>
  BY DEF Dial, desk
<1>3. ~Listening'
  <2>1. /\ host.conn # NoConn => host.conn \in Conns /\ host.conn \in Nat
        /\ client.conn \in Nat
    BY Fields DEF IInv
  <2>2. host.conn # NoConn => ~(host.conn > client.conn)
    BY <2>1 DEF IInv, Wired
  <2>3. host.conn # NoConn => host.conn # client.conn + 1
    BY <2>1, <2>2
  <2> QED
    BY <1>1, <1>2, <2>3 DEF Listening
<1>4. SameText(host', host)
  BY <1>2 DEF SameText
<1> QED
  BY <1>2, <1>3, <1>4, Unmoved

\* A task ends: nobody reads its connection.
LEMMA EndTaskTracked ==
    ASSUME IInv, Tracked, NEW k \in Conns, NEW code, NEW resumable \in BOOLEAN, NEW h \in Sessions,
           SameBooks(h, host), SameText(h, host), h.ended = host.ended, h.conn = host.conn,
           EndTask(k, code, resumable, h), UNCHANGED <<client, shell, sending>>
    PROVE  Tracked'
<1>1. /\ SameText(host', h) /\ host'.ended = h.ended /\ host'.pending = h.pending
      /\ host'.answers = h.answers \/ host'.answers = {}
      /\ host'.conn = IF h.conn = k THEN NoConn ELSE h.conn
  BY ClosedFacts DEF EndTask
<1>2. SameText(host', host) /\ host.pending \subseteq host'.pending /\ host'.answers \subseteq host.answers
  BY <1>1 DEF SameText, SameBooks
<1>3. Range(events) \subseteq Range(events')
  <2> DEFINE e == [t |-> "gone", c |-> 0]
  <2>1. events \in Seq(Events) /\ e \in Events
    BY DEF IInv, TypeOK, Events
  <2>2. events' \in {events, Append(events, e)}
    BY DEF EndTask
  <2> HIDE DEF e
  <2>3. Range(Append(events, e)) = Range(events) \cup {e}
    BY <2>1, AppendRange
  <2>4. CASE events' = events
    BY <2>4
  <2>5. CASE events' = Append(events, e)
    BY <2>3, <2>5
  <2> QED
    BY <2>2, <2>4, <2>5
<1>4. host'.conn # NoConn => host'.conn = host.conn /\ box'[host.conn] = box[host.conn]
  <2>1. box' = [box EXCEPT ![k] = [items |-> <<>>, close |-> code]] /\ box \in [Conns -> Boxes]
    BY DEF EndTask, IInv, TypeOK
  <2>2. host.conn # NoConn => host.conn \in Conns
    BY Fields DEF IInv
  <2> QED
    BY <1>1, <2>1, <2>2
<1>5. Listening' => Listening /\ box'[client.conn] = box[client.conn]
  BY <1>4 DEF Listening
<1> QED
  BY <1>1, <1>2, <1>3, <1>5, Unmoved

LEMMA KicksTracked ==
    ASSUME IInv, Tracked, NEW k \in Conns, HostKicks(k) \/ HostLoses(k)
    PROVE  Tracked'
<1>1. host \in Sessions /\ SameBooks(host, host) /\ SameText(host, host)
  BY DEF IInv, TypeOK, SameBooks, SameText
<1>2. \E code : \E resumable \in BOOLEAN : EndTask(k, code, resumable, host)
  <2>1. CASE HostKicks(k)
    <3>1. (box[k].close # "over") \in BOOLEAN
      OBVIOUS
    <3> QED
      BY <2>1, <3>1 DEF HostKicks
  <2>2. CASE HostLoses(k)
    BY <2>2 DEF HostLoses
  <2> QED
    BY <2>1, <2>2
<1>3. UNCHANGED <<client, shell, sending>>
  BY DEF HostKicks, HostLoses, desk
<1> QED
  BY <1>1, <1>2, <1>3, EndTaskTracked

LEMMA ReleasesTracked ==
    ASSUME IInv, Tracked, HostReleases
    PROVE  Tracked'
<1>1. /\ SameText(host', host) /\ host'.ended = host.ended /\ host'.pending = host.pending
      /\ host'.answers = {} /\ host'.conn = NoConn
  BY UnbindFacts DEF HostReleases, IInv, TypeOK
<1>2. UNCHANGED <<events, shell, sending>>
  BY DEF HostReleases, desk
<1>3. ~Listening'
  BY <1>1 DEF Listening
<1> QED
  BY <1>1, <1>2, <1>3, Unmoved

\* A hello that is not accepted, or does not come.
LEMMA HelloEndsTracked ==
    ASSUME IInv, Tracked, NEW k \in Conns, HostRefuses(k) \/ HostGivesUp(k)
    PROVE  Tracked'
<1>1. UNCHANGED <<client, host, events, shell, sending>>
  BY DEF HostRefuses, HostGivesUp, desk
<1>2. host.conn # NoConn => host.conn \in Conns /\ host.conn # k
  BY Fields DEF HostRefuses, HostGivesUp, IInv, Wired
<1>3. \A j \in Conns : j # k => box'[j] = box[j]
  <2>1. box \in [Conns -> Boxes]
    BY DEF IInv, TypeOK
  <2>2. CASE HostGivesUp(k)
    BY <2>2 DEF HostGivesUp
  <2>3. CASE HostRefuses(k)
    <3> DEFINE b == [box[k] EXCEPT !.close = IF host.ended THEN "closing" ELSE "rejected"]
    <3>1. box' = [box EXCEPT ![k] = b]
      BY <2>1, <2>3 DEF HostRefuses
    <3> HIDE DEF b
    <3> QED
      BY <2>1, <3>1
  <2> QED
    BY <2>2, <2>3
<1>4. SameText(host', host)
  BY <1>1 DEF SameText
<1>5. Listening' => Listening /\ box'[client.conn] = box[client.conn]
  BY <1>1, <1>2, <1>3 DEF Listening
<1> QED
  BY <1>1, <1>4, <1>5, Unmoved

LEMMA NothingTracked ==
    ASSUME IInv, Tracked, UNCHANGED <<client, box, host, events, sending>>,
           shell'.doc = shell.doc, shell.stop = "done" => shell'.stop = "done"
    PROVE  Tracked'
<1>1. SameText(host', host) /\ (Listening' => Listening)
  BY DEF SameText, Listening
<1> QED
  BY <1>1, Unmoved

LEMMA ShellQuietly ==
    ASSUME IInv, Tracked, EditText \/ Terminate
    PROVE  Tracked'
<1>1. UNCHANGED <<client, box, host, events, sending>>
  BY DEF EditText, Terminate, wire
<1>2. shell'.doc = shell.doc /\ shell.stop # "done"
  BY DEF EditText, Terminate, IInv, TypeOK, Shells
<1> QED
  BY <1>1, <1>2, NothingTracked

\* What is to be said stays to be said.
LEMMA FlushedSays ==
    ASSUME NEW s, NEW q \in Seq(Words), s.dirty => Len(s.doc) + 1 \in Nat
    PROVE  Flushed(s, q).q \in Seq(Words) /\ Range(q) \subseteq Range(Flushed(s, q).q)
<1>1. CASE ~s.dirty
  BY <1>1 DEF Flushed
<1>2. CASE s.dirty
  <2> DEFINE m == Msg("snapshot", 0, Len(s.doc) + 1)
  <2>1. m \in Words
    BY <1>2 DEF Msg, Words, Changes
  <2>2. Flushed(s, q).q = Append(q, m)
    BY <1>2 DEF Flushed
  <2> HIDE DEF m
  <2> QED
    BY <2>1, <2>2, AppendRange
<1> QED
  BY <1>1, <1>2

LEMMA TakeSays ==
    ASSUME NEW d \in [s : Shells, q : Seq(Words)], Sound(d.s), AllRight(d.s, d.q),
           NEW c \in Commits, NEW o \in Fate, NEW answer \in BOOLEAN
    PROVE  Range(d.q) \subseteq Range(Take(d, c, o, answer).q)
<1> DEFINE f == Flushed(d.s, d.q)
<1> DEFINE doc == IF o = "ack" THEN Append(f.s.doc, c) ELSE f.s.doc
<1> DEFINE m == Msg(o, c, IF o = "nack" THEN 0 ELSE Len(doc))
<1>1. f.q \in Seq(Words) /\ Range(d.q) \subseteq Range(f.q)
  <2>1. d.s.doc \in Seq(0..MaxCommits) /\ d.q \in Seq(Words)
    BY DEF Shells
  <2>2. Len(d.s.doc) + 1 \in Nat
    BY <2>1, LenProperties
  <2> QED
    BY <2>1, <2>2, FlushedSays
<1>2. CASE c \in d.s.answered
  BY <1>2 DEF Take
<1>3. CASE c \notin d.s.answered
  <2>1. Take(d, c, o, answer).q = IF answer THEN Append(f.q, m) ELSE f.q
    BY <1>3 DEF Take
  <2>2. m \in Words
    <3>1. f.s \in Shells
      BY FlushedFacts
    <3>2. f.s.doc \in Seq(0..MaxCommits) /\ c \in 0..MaxCommits
      BY <3>1 DEF Shells, Commits
    <3>3. doc \in Seq(0..MaxCommits)
      <4> DEFINE l == f.s.doc
      <4>1. l \in Seq(0..MaxCommits)
        BY <3>2
      <4> HIDE DEF l
      <4>2. Append(l, c) \in Seq(0..MaxCommits)
        BY <3>2, <4>1, AppendProperties
      <4> QED
        BY <4>1, <4>2 DEF l
    <3>4. Len(doc) \in Nat
      <4> HIDE DEF doc
      <4> QED
        BY <3>3, LenProperties
    <3> HIDE DEF doc
    <3> QED
      BY <3>4 DEF Msg, Words, Answers, Fate
  <2> HIDE DEF f, m
  <2> QED
    BY <1>1, <2>1, <2>2, AppendRange
<1> QED
  BY <1>2, <1>3

LEMMA TakenSays ==
    ASSUME NEW s \in Shells, Sound(s), sending \in Seq(Words), AllRight(s, sending),
           NEW C \in SUBSET Commits, NEW o \in [C -> Fate], NEW answer \in BOOLEAN
    PROVE  Range(sending) \subseteq Range(Taken(o, answer, s).q)
<1> DEFINE how == [o |-> o, answer |-> answer]
<1> DEFINE seq == InOrder(C)
<1> DEFINE n == Len(seq)
<1> DEFINE base == [s |-> s, q |-> sending]
<1> DEFINE Good(d) == /\ Sound(d.s) /\ AllRight(d.s, d.q)
                      /\ Range(sending) \subseteq Range(d.q)
<1> DEFINE G == {x \in (0..n) \X [s : Shells, q : Seq(Words)] : Good(x[2])}
<1>1. n \in Nat /\ DOMAIN seq = 1..n /\ \A i \in 1..n : seq[i] \in C
  <2>1. seq \in Seq(C)
    BY InOrderFacts
  <2> HIDE DEF seq
  <2> QED
    BY <2>1, LenProperties, ElementOfSeq
<1>2. Taken(o, answer, s) = Takes!FoldOf(how, base, seq)
  BY DEF Taken, TakeStep, FoldLeft, MapThenFoldSet, Takes!FoldOf, Max
<1> HIDE DEF seq
<1>3. <<0, base>> \in G
  <2>1. base \in [s : Shells, q : Seq(Words)] /\ base.s = s /\ base.q = sending /\ 0 \in 0..n
    BY <1>1
  <2> HIDE DEF base
  <2>2. Good(base)
    BY <2>1
  <2> HIDE DEF Good
  <2> QED
    BY <2>1, <2>2
<1>4. ASSUME NEW k \in 1..n, NEW d, <<k - 1, d>> \in G
      PROVE  <<k, TakeStep(how, d, seq[k])>> \in G
  <2>1. d \in [s : Shells, q : Seq(Words)] /\ Good(d) /\ k \in 0..n
    <3> HIDE DEF Good
    <3> QED
      BY <1>1, <1>4
  <2> DEFINE c == seq[k]
  <2> DEFINE g == Take(d, c, o[c], answer)
  <2>2. TakeStep(how, d, seq[k]) = g
    BY DEF TakeStep
  <2>3. c \in Commits /\ o[c] \in Fate
    BY <1>1
  <2> HIDE DEF how, c
  <2>4. g \in [s : Shells, q : Seq(Words)] /\ Sound(g.s) /\ AllRight(g.s, g.q)
    BY <2>1, <2>3, TakeFacts
  <2>5. Range(d.q) \subseteq Range(g.q)
    BY <2>1, <2>3, TakeSays
  <2> HIDE DEF g
  <2>6. Good(g)
    BY <2>1, <2>4, <2>5
  <2> HIDE DEF Good
  <2> QED
    BY <2>1, <2>2, <2>4, <2>6
<1>5. <<n, Takes!FoldOf(how, base, seq)>> \in G
  <2> HIDE DEF G, how, base
  <2> QED
    BY <1>1, <1>3, <1>4, Takes!FoldKeeps
<1> QED
  BY <1>2, <1>5

\* The shell has gone on, and says no less than it had to say.
LEMMA ShellTracked ==
    ASSUME IInv, Tracked, Owing(host, shell', sending'), UNCHANGED <<client, box, host>>,
           \/ shell.stop = "closing"
           \/ /\ shell.stop # "done" /\ Range(sending) \subseteq Range(sending')
              /\ \/ events' = events
                 \/ \A e \in Range(events) : e.t = "wanted" => e \in Range(events')
                 \/ \E m \in Range(sending') : m.t = "snapshot"
    PROVE  Tracked'
<1>1. Owing(host', shell', sending') /\ Logged(host')
  BY DEF Tracked, Logged
<1>2. Stepped'
  <2>1. CASE shell.stop = "closing"
    <3>1. host.ended
      BY <2>1 DEF IInv, Heard
    <3>2. ~Listening /\ (Listening' <=> Listening)
      BY <3>1 DEF Tracked, Stepped, Listening
    <3> QED
      BY <3>2 DEF Stepped
  <2>2. CASE shell.stop # "closing"
    <3>1. Excuse => Excuse'
      BY <2>2 DEF Excuse
    <3>2. Listening' => Listening
      BY DEF Listening
    <3> QED
      BY <3>1, <3>2, SteppedStays DEF Tracked
  <2> QED
    BY <2>1, <2>2
<1> QED
  BY <1>1, <1>2 DEF Tracked

LEMMA TakenTracked ==
    ASSUME IInv, Tracked, NEW s \in Shells, s.doc = shell.doc, s.answered = shell.answered,
           s.refused = shell.refused, NEW C, C \subseteq host.pending \cup shell.answered,
           NEW o \in [C -> bound.outcomes], NEW answer \in BOOLEAN, answer \/ host.ended,
           shell'.doc = Taken(o, answer, s).s.doc, sending' = Taken(o, answer, s).q,
           UNCHANGED <<client, box, host>>,
           \/ shell.stop = "closing"
           \/ /\ shell.stop # "done"
              /\ \/ events' = events
                 \/ \A e \in Range(events) : e.t = "wanted" => e \in Range(events')
    PROVE  Tracked'
<1>1. /\ Sound(shell) /\ sending \in Seq(Words) /\ AllRight(shell, sending)
      /\ bound.outcomes \subseteq Fate /\ host \in Sessions
      /\ host.pending \cup shell.answered \subseteq Commits
  BY ShellFields, Fields DEF IInv, TypeOK
<1>2. Sound(s) /\ AllRight(s, sending)
  BY <1>1, SameFate
<1>3. o \in [C -> Fate] /\ C \in SUBSET Commits
  BY <1>1
<1>4. Owing(host, s, sending)
  BY OwingStays DEF Tracked
<1> DEFINE d == Taken(o, answer, s)
<1>5. Owing(host, d.s, d.q)
  BY <1>1, <1>2, <1>3, <1>4, TakenOwing
<1>6. Range(sending) \subseteq Range(d.q)
  BY <1>1, <1>2, <1>3, TakenSays
<1>7. shell'.doc = d.s.doc /\ sending' = d.q
  OBVIOUS
<1> HIDE DEF d
<1>8. Owing(host, shell', d.q)
  <2> DEFINE t == d.s
  <2>1. Owing(host, t, d.q) /\ shell'.doc = t.doc
    BY <1>5, <1>7
  <2> HIDE DEF t
  <2> QED
    BY <2>1, OwingStays
<1>9. Owing(host, shell', sending')
  BY <1>7, <1>8
<1> QED
  BY <1>6, <1>7, <1>9, ShellTracked

LEMMA ReconcileTracked ==
    ASSUME IInv, Tracked, Reconcile
    PROVE  Tracked'
<1> DEFINE s == [shell EXCEPT !.asks = @ - 1]
<1> DEFINE C == host.pending
<1>1. /\ shell.stop # "done" /\ shell.asks > 0 /\ UNCHANGED <<client, box, host, events>>
  BY DEF Reconcile, wire
<1>2. shell \in Shells
  BY ShellFields
<1>3. shell.asks - 1 \in Nat
  BY <1>1, <1>2 DEF Shells
<1>4. /\ s \in Shells /\ s.doc = shell.doc /\ s.answered = shell.answered
      /\ s.refused = shell.refused
  BY <1>2, <1>3 DEF Shells
<1>5. PICK o \in [C -> bound.outcomes] :
         shell' = Taken(o, TRUE, s).s /\ sending' = Taken(o, TRUE, s).q
  BY DEF Reconcile, TakeAll
<1>6. C \subseteq host.pending \cup shell.answered
  OBVIOUS
<1> HIDE DEF s, C
<1>7. shell'.doc = Taken(o, TRUE, s).s.doc
  BY <1>5
<1> QED
  BY <1>1, <1>4, <1>5, <1>6, <1>7, TakenTracked

LEMMA StopAnswersTracked ==
    ASSUME IInv, Tracked, StopAnswers
    PROVE  Tracked'
<1> DEFINE C == host.pending
<1>1. PICK o \in [C -> bound.outcomes] :
         LET d == Taken(o, TRUE, shell)
         IN  /\ shell' = [d.s EXCEPT !.stop = "sending", !.await = Len(d.q)]
             /\ sending' = d.q
  BY DEF StopAnswers
<1>2. UNCHANGED <<client, box, host, events>> /\ shell.stop = "asking"
  BY DEF StopAnswers, wire
<1>3. /\ shell \in Shells /\ C \subseteq Commits
      /\ Sound(shell) /\ sending \in Seq(Words) /\ AllRight(shell, sending)
      /\ bound.outcomes \subseteq Fate
  BY ShellFields
<1>4. C \subseteq host.pending \cup shell.answered
  OBVIOUS
<1> HIDE DEF C
<1> DEFINE r == Taken(o, TRUE, shell).s
<1> DEFINE q == Taken(o, TRUE, shell).q
<1>5. r \in Shells
  <2>1. o \in [C -> Fate] /\ C \in SUBSET Commits
    BY <1>3
  <2> QED
    BY <1>3, <2>1, TakenFacts
<1>6. shell' = [r EXCEPT !.stop = "sending", !.await = Len(q)] /\ sending' = q
  BY <1>1
<1> HIDE DEF r, q
<1>7. shell'.doc = r.doc
  BY <1>5, <1>6 DEF Shells
<1>8. shell'.doc = Taken(o, TRUE, shell).s.doc /\ sending' = Taken(o, TRUE, shell).q
  BY <1>6, <1>7 DEF r, q
<1> QED
  BY <1>2, <1>3, <1>4, <1>8, TakenTracked

LEMMA StopEndsTracked ==
    ASSUME IInv, Tracked, StopEnds
    PROVE  Tracked'
<1> DEFINE C == host.pending
<1> DEFINE s == [shell EXCEPT !.stop = "done"]
<1>1. /\ shell.stop = "closing" /\ UNCHANGED <<client, box, host, events>>
  BY DEF StopEnds, wire
<1>2. shell \in Shells /\ host.ended
  BY <1>1, ShellFields
<1>3. /\ s \in Shells /\ s.doc = shell.doc /\ s.answered = shell.answered
      /\ s.refused = shell.refused
  BY <1>2 DEF Shells
<1>4. PICK o \in [C -> bound.outcomes] :
         shell' = Taken(o, FALSE, s).s /\ sending' = Taken(o, FALSE, s).q
  BY DEF StopEnds, TakeAll
<1>5. C \subseteq host.pending \cup shell.answered
  OBVIOUS
<1> HIDE DEF s, C
<1>6. shell'.doc = Taken(o, FALSE, s).s.doc
  BY <1>4
<1> QED
  BY <1>1, <1>2, <1>3, <1>4, <1>5, <1>6, TakenTracked

\* A change on the PC: it is to be sent at once, or with the text.
LEMMA EditsTracked ==
    ASSUME IInv, Tracked, EditOps \/ TextSettles
    PROVE  Tracked'
<1>1. /\ shell \in Shells /\ Sound(shell) /\ sending \in Seq(Words) /\ AllRight(shell, sending)
      /\ host \in Sessions /\ Owing(host, shell, sending)
  BY ShellFields DEF Tracked, IInv, TypeOK
<1>2. shell.stop # "done" /\ UNCHANGED <<client, box, host, events>>
  BY DEF EditOps, TextSettles, wire
<1>3. shell.doc \in Seq(0..MaxCommits) /\ Len(shell.doc) \in Nat
  <2>1. shell.doc \in Seq(0..MaxCommits)
    BY <1>1 DEF Shells
  <2> QED
    BY <2>1, LenProperties
<1>4. CASE TextSettles
  <2> DEFINE f == Flushed(shell, sending)
  <2>1. shell' = f.s /\ sending' = f.q
    BY <1>4 DEF TextSettles
  <2>2. Owing(host, f.s, f.q)
    BY <1>1, FlushedOwing
  <2>3. Range(sending) \subseteq Range(f.q)
    BY <1>1, <1>3, FlushedSays
  <2> HIDE DEF f
  <2>4. Owing(host, shell', sending') /\ Range(sending) \subseteq Range(sending')
    BY <2>1, <2>2, <2>3
  <2> QED
    BY <1>2, <2>4, ShellTracked
<1>5. CASE EditOps
  <2> DEFINE doc == Append(shell.doc, 0)
  <2> DEFINE m == Msg("ops", 0, Len(shell.doc) + 1)
  <2>1. shell' = [shell EXCEPT !.doc = doc, !.edits = shell.edits + 1] /\ sending' = Append(sending, m)
    BY <1>5 DEF EditOps
  <2>2. Len(doc) = Len(shell.doc) + 1
    <3>1. 0 \in 0..MaxCommits
      BY HostAssumption
    <3> QED
      BY <1>3, <3>1, AppendProperties
  <2>3. m \in Words /\ m.t = "ops" /\ m.n = Len(shell.doc) + 1
    BY <1>3 DEF Msg, Words, Changes
  <2> HIDE DEF doc, m
  <2>4. shell' \in Shells /\ shell'.doc = doc
    <3>1. shell' \in Shells
      BY EditOpsKeeps, <1>5 DEF IInv, TypeOK
    <3>2. shell'.doc = doc
      BY <1>1, <2>1 DEF Shells
    <3> QED
      BY <3>1, <3>2
  <2>5. <<Len(shell.doc), m, Len(shell'.doc)>> \in Leading
    BY <1>3, <2>2, <2>3, <2>4 DEF Leading
  <2>6. Owing(host, shell', Append(sending, m))
    <3>1. PICK t \in Shells : t = shell'
      BY <2>4
    <3>2. <<Len(shell.doc), m, Len(t.doc)>> \in Leading
      BY <2>5, <3>1
    <3>3. Owing(host, t, Append(sending, m))
      BY <1>1, <2>3, <3>2, OwingMore DEF Fate
    <3> QED
      BY <3>1, <3>3
  <2>7. Range(sending) \subseteq Range(sending')
    BY <1>1, <2>1, <2>3, AppendRange
  <2>8. Owing(host, shell', sending')
    BY <2>1, <2>6
  <2> QED
    BY <1>2, <2>7, <2>8, ShellTracked
<1> QED
  BY <1>4, <1>5

LEMMA StopHostTracked ==
    ASSUME IInv, Tracked, StopHost
    PROVE  Tracked'
<1>1. /\ shell' = [shell EXCEPT !.stop = "closing"] /\ host' = [host EXCEPT !.ended = TRUE]
      /\ box' = IF host.conn = NoConn THEN box
                ELSE [box EXCEPT ![host.conn] = CloseBox(@, "over", TRUE)]
      /\ UNCHANGED <<client, events, sending>>
  BY DEF StopHost
<1>2. /\ shell \in Shells /\ host \in Sessions /\ box \in [Conns -> Boxes]
      /\ host.conn # NoConn => host.conn \in Conns
  BY Fields DEF IInv, TypeOK
<1>3. /\ host'.ended /\ SameBooks(host', host) /\ SameText(host', host) /\ host'.conn = host.conn
      /\ shell'.doc = shell.doc
  BY <1>1, <1>2 DEF Sessions, SameBooks, SameText, Shells
<1>4. Owing(host', shell', sending) /\ Logged(host')
  BY <1>3, OwingStays, LoggedStays DEF Tracked, SameBooks, SameText
<1>5. ~Listening'
  <2> SUFFICES ASSUME host.conn # NoConn PROVE box'[host.conn].close # "open"
    BY <1>3 DEF Listening
  <2> DEFINE b == CloseBox(box[host.conn], "over", TRUE)
  <2>1. box[host.conn] \in Boxes
    BY <1>2
  <2>2. b.close # "open"
    BY <2>1 DEF CloseBox, Boxes
  <2>3. box' = [box EXCEPT ![host.conn] = b]
    BY <1>1
  <2> HIDE DEF b
  <2> QED
    BY <1>2, <2>2, <2>3
<1>6. Owing(host', shell', sending')
  BY <1>1, <1>4
<1> QED
  BY <1>4, <1>5, <1>6 DEF Tracked, Stepped

LEMMA HeadOrTail ==
    ASSUME NEW T, NEW q \in Seq(T), q # <<>>
    PROVE  Range(q) \subseteq Range(Tail(q)) \cup {Head(q)}
<1> DEFINE p == Tail(q)
<1>1. /\ Len(q) \in Nat \ {0} /\ Len(p) = Len(q) - 1
      /\ q[1] = Head(q) /\ \A i \in 1..Len(p) : p[i] = q[i + 1]
      /\ p \in Seq(T) /\ DOMAIN q = 1..Len(q)
  BY HeadTailProperties, LenProperties, EmptySeq
<1> HIDE DEF p
<1>2. ASSUME NEW x \in Range(q) PROVE x \in Range(p) \cup {Head(q)}
  <2>1. PICK i \in 1..Len(q) : x = q[i]
    BY <1>1 DEF Range
  <2>2. CASE i = 1
    BY <1>1, <2>1, <2>2
  <2>3. CASE i # 1
    <3>1. i - 1 \in 1..Len(p) /\ (i - 1) + 1 = i
      BY <1>1, <2>3
    <3>2. p[i - 1] = x /\ p[i - 1] \in Range(p)
      BY <1>1, <2>1, <3>1, RangeIsPart
    <3> QED
      BY <3>2
  <2> QED
    BY <2>2, <2>3
<1> QED
  BY <1>2 DEF p

\* An event is dealt with: a snapshot that is wanted will be sent.
LEMMA ShellHearsTracked ==
    ASSUME IInv, Tracked, ShellHears
    PROVE  Tracked'
<1> DEFINE e == Head(events)
<1>1. /\ shell.stop # "done" /\ events # <<>> /\ events' = Tail(events)
      /\ UNCHANGED <<client, box, host>>
  BY DEF ShellHears, wire
<1>2. /\ shell \in Shells /\ host.pending \subseteq Commits /\ events \in Seq(Events)
      /\ Sound(shell) /\ sending \in Seq(Words) /\ AllRight(shell, sending)
      /\ host \in Sessions /\ Owing(host, shell, sending)
  BY ShellFields DEF Tracked, IInv, TypeOK
<1>3. /\ e \in Range(events) /\ e \in Events
      /\ Range(events) \subseteq Range(events') \cup {e}
  BY <1>1, <1>2, HeadAndTail, HeadOrTail
<1> HIDE DEF e
<1>4. e.t # "wanted" => \A x \in Range(events) : x.t = "wanted" => x \in Range(events')
  BY <1>3
<1>5. CASE e.t = "commit" /\ TakeAll({e.c}, TRUE, shell)
  <2> DEFINE C == {e.c}
  <2>1. C \subseteq host.pending \cup shell.answered
    BY <1>3, <1>5 DEF IInv, Heard
  <2>2. TakeAll(C, TRUE, shell)
    BY <1>5
  <2> HIDE DEF C
  <2>3. PICK o \in [C -> bound.outcomes] :
           shell' = Taken(o, TRUE, shell).s /\ sending' = Taken(o, TRUE, shell).q
    BY <2>2 DEF TakeAll
  <2>4. shell'.doc = Taken(o, TRUE, shell).s.doc
    BY <2>3
  <2> QED
    BY <1>1, <1>2, <1>4, <1>5, <2>1, <2>3, <2>4, TakenTracked
<1>6. CASE e.t = "gone" /\ shell' = [shell EXCEPT !.asks = @ + 1] /\ UNCHANGED sending
  <2>1. shell'.doc = shell.doc
    BY <1>2, <1>6 DEF Shells
  <2>2. Owing(host, shell', sending)
    BY <1>2, <2>1, OwingStays
  <2>3. Owing(host, shell', sending')
    BY <1>6, <2>2
  <2> QED
    BY <1>1, <1>4, <1>6, <2>3, ShellTracked
<1>7. CASE LET f == Flushed(shell, sending)
           IN  /\ shell' = f.s /\ sending' = Append(f.q, Msg("snapshot", 0, Len(f.s.doc)))
  <2> DEFINE f == Flushed(shell, sending)
  <2>1. f.s \in Shells
    BY <1>2, FlushedFacts
  <2>2. Owing(host, f.s, f.q)
    BY <1>2, FlushedOwing
  <2>3. f.q \in Seq(Words) /\ Range(sending) \subseteq Range(f.q)
    <3>1. shell.doc \in Seq(0..MaxCommits)
      BY <1>2 DEF Shells
    <3>2. Len(shell.doc) + 1 \in Nat
      BY <3>1, LenProperties
    <3> QED
      BY <1>2, <3>2, FlushedSays
  <2> DEFINE m == Msg("snapshot", 0, Len(f.s.doc))
  <2>4. shell' = f.s /\ sending' = Append(f.q, m)
    BY <1>7
  <2> HIDE DEF f
  <2>5. Len(f.s.doc) \in Nat
    <3>1. f.s.doc \in Seq(0..MaxCommits)
      BY <2>1 DEF Shells
    <3> QED
      BY <3>1, LenProperties
  <2>6. m \in Words /\ m.t = "snapshot" /\ m.n = Len(f.s.doc)
    BY <2>5 DEF Msg, Changes, Words
  <2> HIDE DEF m
  <2>7. <<Len(f.s.doc), m, Len(f.s.doc)>> \in Leading
    BY <2>5, <2>6 DEF Leading
  <2>8. Owing(host, f.s, Append(f.q, m))
    <3> DEFINE s == f.s
    <3> DEFINE q == f.q
    <3>1. s \in Shells /\ q \in Seq(Words) /\ Owing(host, s, q) /\ <<Len(s.doc), m, Len(s.doc)>> \in Leading
      BY <2>1, <2>2, <2>3, <2>7
    <3> HIDE DEF s, q
    <3>2. Owing(host, s, Append(q, m))
      BY <1>2, <2>6, <3>1, OwingMore DEF Fate
    <3> QED
      BY <3>2 DEF s, q
  <2>9. Owing(host, shell', sending')
    BY <2>4, <2>8
  <2>10. Range(sending') = Range(f.q) \cup {m}
    BY <2>3, <2>4, <2>6, AppendRange
  <2>11. m \in Range(sending') /\ Range(sending) \subseteq Range(sending')
    BY <2>3, <2>10
  <2> QED
    BY <1>1, <2>6, <2>9, <2>11, ShellTracked
<1> QED
  BY <1>5, <1>6, <1>7 DEF ShellHears, e

\* The writer reads one message more.
LEMMA ReadTracked ==
    ASSUME IInv, Tracked, Read
    PROVE  Tracked'
<1>0. PICK k \in Conns : k = client.conn
  BY Fields DEF IInv
<1> DEFINE q == box[k].items
<1> DEFINE m == Head(q)
<1>1. /\ client.at \in {"live", "trying"} /\ q # <<>>
      /\ client' = IF m.t = "welcome" THEN Welcomed(m)
                   ELSE [client EXCEPT !.seen = Applied(@, m), !.pending = @ \ {m.c}]
      /\ box' = [box EXCEPT ![k].items = Tail(@)]
      /\ UNCHANGED <<host, events, shell, sending>>
  BY <1>0 DEF Read, desk
<1>2. /\ client \in Clients /\ host \in Sessions /\ box \in [Conns -> Boxes]
      /\ q \in Seq(Messages) /\ client.seen \in Int /\ host.seq \in Int
  <2>1. client \in Clients /\ host \in Sessions /\ box \in [Conns -> Boxes]
    BY DEF IInv, TypeOK
  <2>2. client.seen \in Int /\ host.seq \in Int
    BY <2>1 DEF Clients, Sessions
  <2>3. box[k] \in Boxes
    BY <2>1
  <2> QED
    BY <2>1, <2>2, <2>3 DEF Boxes
<1>3. m \in Messages
  BY <1>1, <1>2, HeadAndTail
<1>4. client'.conn = k /\ client'.seen = Reads(client.seen, m)
  <2> HIDE DEF m
  <2>1. CASE m.t = "welcome"
    BY <1>0, <1>1, <1>2, <2>1 DEF Welcomed, Reads, Clients
  <2>2. CASE m.t # "welcome"
    <3> DEFINE n == Applied(client.seen, m)
    <3>1. client' = [client EXCEPT !.seen = n, !.pending = @ \ {m.c}]
      BY <1>1, <2>2
    <3> HIDE DEF n
    <3>2. client'.conn = k /\ client'.seen = n
      BY <1>0, <1>2, <3>1 DEF Clients
    <3> QED
      BY <2>2, <3>2 DEF Reads, n
  <2> QED
    BY <2>1, <2>2
<1>5. box'[k].items = Tail(q) /\ box'[k].close = box[k].close
  <2> DEFINE b == [box[k] EXCEPT !.items = Tail(@)]
  <2>1. box' = [box EXCEPT ![k] = b] /\ box[k] \in Boxes
    BY <1>1, <1>2
  <2>2. b.items = Tail(box[k].items) /\ b.close = box[k].close
    BY <2>1 DEF Boxes
  <2> HIDE DEF b
  <2> QED
    BY <1>2, <2>1, <2>2
<1>6. Owing(host', shell', sending') /\ Logged(host')
  BY <1>1 DEF Tracked
<1>7. Stepped'
  <2> SUFFICES ASSUME Listening'
               PROVE  /\ ~host.ended
                      /\ Excuse \/ Through(Reading, client'.seen, box'[k].items, host.seq)
    BY <1>1, <1>4 DEF Stepped, Listening, Excuse
  <2>1. Listening /\ host.conn = k
    BY <1>0, <1>1, <1>4, <1>5 DEF Listening
  <2>2. ~host.ended /\ (Excuse \/ Through(Reading, client.seen, q, host.seq))
    BY <2>1 DEF Tracked, Stepped
  <2>3. ASSUME Through(Reading, client.seen, q, host.seq)
        PROVE  Through(Reading, client'.seen, Tail(q), host.seq)
    <3> HIDE DEF q
    <3>1. PICK z \in Int : <<client.seen, Head(q), z>> \in Reading /\ Through(Reading, z, Tail(q), host.seq)
      BY <1>1, <1>2, <2>3, ThroughFirst
    <3>2. z = Reads(client.seen, Head(q))
      BY <3>1 DEF Reading
    <3> QED
      BY <1>4, <3>1, <3>2
  <2> QED
    BY <1>5, <2>2, <2>3
<1> QED
  BY <1>6, <1>7 DEF Tracked

\* There is something the writer has after whatever it reads.
LEMMA EveryReads ==
    ASSUME NEW q \in Seq(Messages), NEW x \in Int
    PROVE  \E y \in Int : Through(Reading, x, q, y)
<1> DEFINE n == Len(q)
<1> DEFINE Good(k) == \E r \in [0..k -> Int] :
                         r[0] = x /\ \A i \in 1..k : <<r[i - 1], q[i], r[i]>> \in Reading
<1> DEFINE G == {w \in (0..n) \X Seq(Messages) : Good(w[1])}
<1>1. n \in Nat /\ DOMAIN q = 1..n /\ \A i \in 1..n : q[i] \in Messages
  BY LenProperties, ElementOfSeq
<1>2. <<0, <<>>>> \in G
  <2>1. <<>> \in Seq(Messages) /\ 0 \in 0..n
    BY <1>1, EmptySeq
  <2>2. Good(0)
    <3> DEFINE r == [i \in 0..0 |-> x]
    <3>1. r \in [0..0 -> Int] /\ r[0] = x /\ \A i \in 1..0 : <<r[i - 1], q[i], r[i]>> \in Reading
      OBVIOUS
    <3> HIDE DEF r
    <3> QED
      BY <3>1
  <2> HIDE DEF Good
  <2> QED
    BY <2>1, <2>2
<1>3. ASSUME NEW k \in 1..n, NEW p, <<k - 1, p>> \in G PROVE <<k, KeepStep(0, p, q[k])>> \in G
  <2>1. p \in Seq(Messages) /\ Good(k - 1) /\ k \in 0..n /\ q[k] \in Messages /\ k - 1 \in 0..n
    <3> HIDE DEF Good
    <3> QED
      BY <1>1, <1>3
  <2>2. KeepStep(0, p, q[k]) \in Seq(Messages)
    <3>1. Append(p, q[k]) \in Seq(Messages)
      BY <2>1, AppendProperties
    <3> QED
      BY <2>1, <3>1 DEF KeepStep
  <2>3. Good(k)
    <3>1. PICK r \in [0..(k - 1) -> Int] :
             r[0] = x /\ \A i \in 1..(k - 1) : <<r[i - 1], q[i], r[i]>> \in Reading
      BY <2>1
    <3>2. r[k - 1] \in Int
      BY <2>1
    <3> DEFINE y == Reads(r[k - 1], q[k])
    <3>3. y \in Int /\ <<r[k - 1], q[k], y>> \in Reading
      BY <2>1, <3>2, ReadsOn
    <3> HIDE DEF y
    <3> DEFINE s == [i \in 0..k |-> IF i = k THEN y ELSE r[i]]
    <3>4. s \in [0..k -> Int]
      BY <3>3
    <3>5. s[0] = x /\ s[k] = y /\ \A i \in 0..(k - 1) : s[i] = r[i]
      BY <3>1
    <3> HIDE DEF s
    <3>6. ASSUME NEW i \in 1..k PROVE <<s[i - 1], q[i], s[i]>> \in Reading
      <4>1. CASE i = k
        <5>1. k - 1 \in 0..(k - 1)
          BY <4>1
        <5>2. s[i - 1] = r[k - 1] /\ q[i] = q[k] /\ s[i] = y
          BY <3>5, <4>1, <5>1
        <5> QED
          BY <3>3, <5>2
      <4>2. CASE i # k
        <5>1. i \in 1..(k - 1) /\ i \in 0..(k - 1) /\ i - 1 \in 0..(k - 1)
          BY <4>2
        <5>2. s[i] = r[i] /\ s[i - 1] = r[i - 1]
          BY <3>5, <5>1
        <5> QED
          BY <3>1, <5>1, <5>2
      <4> QED
        BY <4>1, <4>2
    <3> QED
      BY <3>4, <3>5, <3>6
  <2> HIDE DEF Good
  <2> QED
    BY <2>1, <2>2, <2>3
<1>4. <<n, Keeps!FoldOf(0, <<>>, q)>> \in G
  <2> HIDE DEF G
  <2> QED
    BY <1>1, <1>2, <1>3, Keeps!FoldKeeps
<1>5. PICK r \in [0..n -> Int] : r[0] = x /\ \A i \in 1..n : <<r[i - 1], q[i], r[i]>> \in Reading
  BY <1>4
<1>6. r[n] \in Int /\ Through(Reading, x, q, r[n])
  BY <1>1, <1>5 DEF Through
<1> QED
  BY <1>6

\* What is queued for the writer that listens is read behind the rest.
LEMMA QueuedReads ==
    ASSUME IInv, NEW ms \in Seq(Messages), NEW z \in Int, UNCHANGED client,
           host'.conn = host.conn, Listening', box' = Queue(box, host.conn, ms)
    PROVE  /\ Listening
           /\ \A y \in Int :
                 Through(Reading, client.seen, box[host.conn].items, y) /\ Through(Reading, y, ms, z)
                    => Through(Reading, client'.seen, box'[host'.conn].items, z)
<1>1. PICK k \in Conns : k = host.conn
  BY Fields DEF Listening, IInv
<1>2. /\ client \in Clients /\ client.seen \in Int
      /\ box \in [Conns -> Boxes] /\ box[k] \in Fitting
  BY DEF IInv, TypeOK, Clients, Fitting
<1>3. ~LetGo(k)
  <2>1. client.conn = k /\ client.at \in {"live", "trying"} /\ k \in Nat
    BY <1>1, Fields DEF Listening, IInv
  <2> QED
    BY <2>1 DEF LetGo
<1> DEFINE b == PushAll(box[k], ms)
<1>4. box' = [box EXCEPT ![k] = IF LetGo(k) THEN @ ELSE b]
  BY <1>1 DEF Queue
<1>5. box'[k] = b
  BY <1>2, <1>3, <1>4
<1>6. b.close = "open" => box[k].close = "open"
  BY <1>2, PushAllFacts
<1>7. \A y \in Int :
         Through(Reading, client.seen, box[k].items, y) /\ Through(Reading, y, ms, z)
            /\ b.close = "open" => Through(Reading, client.seen, b.items, z)
  <2> HIDE DEF b
  <2> QED
    BY <1>2, PushAllReads DEF b
<1> HIDE DEF b
<1>8. b.close = "open" /\ host'.conn = k
  BY <1>1, <1>5 DEF Listening
<1>9. Listening
  BY <1>1, <1>6, <1>8 DEF Listening
<1> QED
  BY <1>1, <1>5, <1>7, <1>8, <1>9

\* A commit that comes again is answered again: its answer holds no news.
LEMMA CommitTracked ==
    ASSUME IInv, Tracked, NEW k \in Conns, host.conn = k, NEW c \in Commits,
           host' = Receive(Confirm(host), c),
           box' = Queue(box, k, SetToSeq(AnswersTo(Confirm(host), c))),
           Range(events) \subseteq Range(events'),
           UNCHANGED <<client, shell, sending>>
    PROVE  Tracked'
<1> DEFINE h == Confirm(host)
<1>1. host \in Sessions /\ Keeper(host) /\ host.answers \subseteq Answers /\ host.seq \in Nat
  BY DEF IInv, TypeOK, Sessions
<1>2. /\ h \in Sessions /\ SameBooks(h, host) /\ SameText(h, host) /\ h.conn = host.conn
      /\ h.ended = host.ended
  BY <1>1, ConfirmFacts
<1>3. /\ SameText(host', h) /\ host'.conn = h.conn /\ host'.ended = h.ended
      /\ host'.answers = h.answers /\ h.pending \subseteq host'.pending
  <2> HIDE DEF h
  <2>1. host' = Receive(h, c)
    BY DEF h
  <2> QED
    <3>1. LET g == Receive(h, c)
          IN  /\ SameText(g, h) /\ g.conn = h.conn /\ g.ended = h.ended
              /\ g.answers = h.answers
              /\ g.pending = IF IsNew(h, c) THEN h.pending \cup {c} ELSE h.pending
      BY <1>2, ReceiveFacts
    <3>2. h.pending \subseteq Receive(h, c).pending
      BY <3>1
    <3> QED
      BY <2>1, <3>1, <3>2, Zenon
<1> DEFINE ms == SetToSeq(AnswersTo(h, c))
<1>4. /\ ms \in Seq(Messages)
      /\ \A i \in 1..Len(ms) : <<host.seq, ms[i], host.seq>> \in Reading
  <2> DEFINE S == AnswersTo(h, c)
  <2>1. S \subseteq host.answers /\ S \subseteq Messages
    BY <1>1, <1>2 DEF AnswersTo, SameBooks, Messages, Words
  <2>2. IsFiniteSet(S)
    BY <1>1, <2>1, FS_Subset DEF Keeper
  <2> HIDE DEF S
  <2>3. SetToSeq(S) \in Seq(S)
    BY <2>2, InSomeOrder
  <2>4. SetToSeq(S) \in Seq(Messages)
    BY <2>1, <2>3, SeqMonotonic
  <2>5. \A a \in S : <<host.seq, a, host.seq>> \in Reading
    <3>1. ASSUME NEW a \in S PROVE Reads(host.seq, a) = host.seq
      <4>1. a \in Answers /\ (a.t = "ack" => a.n <= host.seq)
        BY <1>1, <2>1 DEF Tracked, Logged
      <4> QED
        BY <4>1 DEF Reads, Applied, Answers
    <3>2. host.seq \in Int
      BY <1>1
    <3>3. \A a \in S : a \in Messages
      BY <2>1
    <3> QED
      BY <3>1, <3>2, <3>3, ReadsOn
  <2> DEFINE p == SetToSeq(S)
  <2>6. \A i \in 1..Len(p) : p[i] \in S
    <3> HIDE DEF p
    <3> QED
      BY <2>3, ElementOfSeq, LenProperties DEF p
  <2> QED
    BY <2>4, <2>5, <2>6 DEF S
<1>5. box' = Queue(box, host.conn, ms)
  OBVIOUS
<1> HIDE DEF h, ms
<1>6. /\ SameText(host', host) /\ host'.ended = host.ended /\ host.pending \subseteq host'.pending
      /\ host'.answers \subseteq host.answers /\ host'.conn = host.conn
  BY <1>2, <1>3 DEF SameText, SameBooks
<1>7. Owing(host', shell', sending') /\ Logged(host')
  <2>1. Owing(host', shell', sending)
    BY <1>6, OwingStays DEF Tracked, SameText
  <2> QED
    BY <1>6, <2>1, LoggedStays DEF Tracked
<1>8. Stepped'
  <2> SUFFICES ASSUME Listening'
               PROVE  /\ ~host'.ended
                      /\ Excuse' \/ Through(Reading, client'.seen, box'[host'.conn].items, host'.seq)
    BY DEF Stepped
  <2>1. host.seq \in Int /\ Through(Reading, host.seq, ms, host.seq)
    BY <1>1, <1>4, ThroughIdle
  <2>2. /\ Listening
        /\ Through(Reading, client.seen, box[host.conn].items, host.seq)
              => Through(Reading, client'.seen, box'[host'.conn].items, host.seq)
    BY <1>4, <1>5, <1>6, <2>1, QueuedReads
  <2>3. Excuse => Excuse'
    BY DEF Excuse
  <2> QED
    BY <1>6, <2>2, <2>3 DEF Tracked, Stepped, SameText
<1> QED
  BY <1>7, <1>8 DEF Tracked

LEMMA HostReadsTracked ==
    ASSUME IInv, Tracked, NEW k \in Conns, HostReads(k)
    PROVE  Tracked'
<1> DEFINE m == Head(up[k])
<1>1. up[k] # <<>> /\ UNCHANGED <<client, shell, sending>>
  BY DEF HostReads, desk
<1>2. m.t = "commit" => m.c \in Commits
  <2>1. up[k] \in Seq(Uplink) /\ up[k] # <<>>
    BY <1>1 DEF IInv, TypeOK
  <2> QED
    BY <2>1, ReadOne
<1>3. host \in Sessions /\ SameBooks(host, host) /\ SameText(host, host)
  BY DEF IInv, TypeOK, SameBooks, SameText
<1>4. /\ Confirm(host) \in Sessions /\ SameBooks(Confirm(host), host)
      /\ SameText(Confirm(host), host) /\ Confirm(host).conn = host.conn
      /\ Confirm(host).ended = host.ended
  BY <1>3, ConfirmFacts
<1>5. CASE EndTask(k, "bye", FALSE, host)
  BY <1>1, <1>3, <1>5, EndTaskTracked
<1>6. CASE EndTask(k, "violation", FALSE, Confirm(host))
  BY <1>1, <1>4, <1>6, EndTaskTracked
<1>7. CASE UNCHANGED <<box, host, events>>
  BY <1>1, <1>7, NothingTracked
<1>8. CASE host' = Confirm(host) /\ UNCHANGED <<box, events>>
  <2>1. host.pending \subseteq host'.pending /\ host'.answers \subseteq host.answers
    BY <1>4, <1>8 DEF SameBooks
  <2>2. Listening' => Listening
    BY <1>1, <1>4, <1>8 DEF Listening
  <2> QED
    BY <1>1, <1>4, <1>8, <2>1, <2>2, Unmoved
<1>9. CASE /\ m.t = "commit" /\ host.conn = k
           /\ host' = Receive(Confirm(host), m.c)
           /\ box' = Queue(box, k, SetToSeq(AnswersTo(Confirm(host), m.c)))
           /\ events' = IF IsNew(Confirm(host), m.c)
                        THEN Append(events, [t |-> "commit", c |-> m.c]) ELSE events
  <2>1. PICK c \in Commits : c = m.c
    BY <1>2, <1>9
  <2>2. Range(events) \subseteq Range(events')
    <3> DEFINE e == [t |-> "commit", c |-> c]
    <3>1. events \in Seq(Events) /\ e \in Events
      BY DEF IInv, TypeOK, Events
    <3>2. events' = IF IsNew(Confirm(host), c) THEN Append(events, e) ELSE events
      BY <1>9, <2>1
    <3> HIDE DEF e
    <3>3. Range(Append(events, e)) = Range(events) \cup {e}
      BY <3>1, AppendRange
    <3>4. CASE IsNew(Confirm(host), c)
      BY <3>2, <3>3, <3>4
    <3>5. CASE ~IsNew(Confirm(host), c)
      BY <3>2, <3>5
    <3> QED
      BY <3>4, <3>5
  <2>3. /\ host' = Receive(Confirm(host), c)
        /\ box' = Queue(box, k, SetToSeq(AnswersTo(Confirm(host), c)))
    BY <1>9, <2>1
  <2> QED
    BY <1>1, <1>9, <2>2, <2>3, CommitTracked
<1> QED
  BY <1>5, <1>6, <1>7, <1>8, <1>9 DEF HostReads

LEMMA ShellSendsTracked ==
    ASSUME IInv, Tracked, ShellSends
    PROVE  Tracked'
<1> DEFINE m == Head(sending)
<1>1. /\ sending # <<>> /\ sending' = Tail(sending) /\ UNCHANGED client
      /\ shell'.doc = shell.doc /\ shell'.stop = shell.stop
  BY DEF ShellSends, IInv, TypeOK, Shells
<1>2. \/ SendFails(host, m) /\ UNCHANGED <<host, box, events>>
      \/ /\ ~SendFails(host, m) /\ host' = Send(host, m)
         /\ box' = IF host.conn = NoConn THEN box ELSE Queue(box, host.conn, <<m>>)
         /\ events' = IF host.logState = "fresh" /\ host'.logState = "wanted"
                      THEN Append(events, [t |-> "wanted", c |-> 0]) ELSE events
  BY DEF ShellSends
<1>3. /\ shell \in Shells /\ host \in Sessions /\ Keeper(host) /\ Len(host.log) <= LogHard
      /\ events \in Seq(Events) /\ sending \in Seq(Words)
      /\ host.conn # NoConn => host.conn \in Conns
      /\ Owing(host, shell, sending) /\ Logged(host)
  BY Fields DEF IInv, TypeOK, Tracked
<1>4. m \in Words /\ m \in Messages /\ Range(sending) \subseteq Range(sending') \cup {m}
      /\ Range(sending') \subseteq Range(sending)
      /\ m.n \in Nat /\ m.t \in {"ack", "same", "nack", "ops", "snapshot"}
  <2>1. m \in Words
    BY <1>1, <1>3, HeadAndTail
  <2>2. Range(sending) \subseteq Range(sending') \cup {m} /\ Range(sending') \subseteq Range(sending)
    BY <1>1, <1>3, HeadAndTail, HeadOrTail
  <2> HIDE DEF m
  <2> QED
    BY <2>1, <2>2 DEF Words, Changes, Answers, Messages
<1>5. CASE host.ended
  <2>1. SendFails(host, m) /\ UNCHANGED <<host, box, events>>
    BY <1>2, <1>5 DEF SendFails
  <2>2. Owing(host', shell', sending')
    <3>1. Once(sending')
      BY <1>1, <1>3, OnceLess DEF Owing
    <3> QED
      BY <1>3, <1>4, <1>5, <2>1, <3>1 DEF Owing
  <2>3. ~Listening'
    BY <1>1, <1>5, <2>1 DEF Tracked, Stepped, Listening
  <2>4. Logged(host')
    BY <1>3, <2>1
  <2> QED
    BY <2>2, <2>3, <2>4 DEF Tracked, Stepped
<1>6. CASE ~host.ended
  <2> DEFINE g == Send(host, m)
  <2>1. /\ ~SendFails(host, m) /\ <<host.seq, m, g.seq>> \in Leading
        /\ Logged(g) /\ Owing(g, shell, sending')
    BY <1>1, <1>3, <1>6, SendAhead
  <2>2. g \in Sessions /\ g.conn = host.conn /\ ~g.ended
    <3> HIDE DEF m
    <3>1. host \in Sessions /\ Keeper(host) /\ Len(host.log) <= LogHard /\ m \in Messages
      BY <1>3, <1>4
    <3>2. g \in Sessions /\ SameLink(g, host)
      BY <3>1, SendFacts
    <3> QED
      BY <1>6, <3>2 DEF SameLink
  <2> HIDE DEF g
  <2>3. /\ host' = g
        /\ box' = IF host.conn = NoConn THEN box ELSE Queue(box, host.conn, <<m>>)
        /\ events' = IF host.logState = "fresh" /\ host'.logState = "wanted"
                     THEN Append(events, [t |-> "wanted", c |-> 0]) ELSE events
    BY <1>2, <2>1 DEF g
  <2>4. Owing(host', shell', sending')
    <3>1. Owing(g, shell', sending')
      BY <1>1, <2>1, OwingStays
    <3> QED
      BY <2>3, <3>1
  <2>5. Range(events) \subseteq Range(events')
    <3> DEFINE e == [t |-> "wanted", c |-> 0]
    <3>1. e \in Events
      BY DEF Events
    <3> HIDE DEF e
    <3>2. Range(Append(events, e)) = Range(events) \cup {e}
      BY <1>3, <3>1, AppendRange
    <3>3. events' \in {events, Append(events, e)}
      BY <2>3 DEF e
    <3>4. CASE events' = events
      BY <3>4
    <3>5. CASE events' = Append(events, e)
      BY <3>2, <3>5
    <3> QED
      BY <3>3, <3>4, <3>5
  <2>6. m.t # "snapshot" /\ Excuse => Excuse'
    BY <1>1, <1>4, <2>5 DEF Excuse
  <2>7. Stepped'
    <3> SUFFICES ASSUME Listening', ~Excuse'
                 PROVE  Through(Reading, client'.seen, box'[host'.conn].items, g.seq)
      BY <2>2, <2>3 DEF Stepped
    <3> HIDE DEF m
    <3>1. host'.conn = host.conn /\ host.conn # NoConn /\ box' = Queue(box, host.conn, <<m>>)
      BY <2>2, <2>3 DEF Listening
    <3>2. /\ <<m>> \in Seq(Messages) /\ <<m>> = Append(<<>>, m) /\ <<>> \in Seq(Messages)
          /\ g.seq \in Int /\ host.seq \in Int /\ host.seq \in Nat
      BY <1>3, <1>4, <2>2, EmptySeq DEF Sessions
    <3>3. /\ Listening
          /\ \A y \in Int :
                Through(Reading, client.seen, box[host.conn].items, y)
                      /\ Through(Reading, y, <<m>>, g.seq)
                   => Through(Reading, client'.seen, box'[host'.conn].items, g.seq)
      <4> DEFINE q == <<m>>
      <4>1. q \in Seq(Messages) /\ box' = Queue(box, host.conn, q)
        BY <3>1, <3>2
      <4> HIDE DEF q
      <4>2. /\ Listening
            /\ \A y \in Int :
                  Through(Reading, client.seen, box[host.conn].items, y)
                        /\ Through(Reading, y, q, g.seq)
                     => Through(Reading, client'.seen, box'[host'.conn].items, g.seq)
        BY <1>1, <3>1, <3>2, <4>1, QueuedReads
      <4> QED
        BY <4>2 DEF q
    <3>4. \A y \in Int : Reads(y, m) = g.seq => Through(Reading, y, <<m>>, g.seq)
      <4> SUFFICES ASSUME NEW y \in Int, Reads(y, m) = g.seq PROVE Through(Reading, y, <<m>>, g.seq)
        OBVIOUS
      <4>1. Through(Reading, y, <<>>, y)
        BY ThroughNothing
      <4>2. <<y, m, g.seq>> \in Reading
        BY <1>4, ReadsOn
      <4>3. Through(Reading, y, Append(<<>>, m), g.seq)
        BY <1>4, <3>2, <4>1, <4>2, ThroughMore
      <4> QED
        BY <3>2, <4>3
    <3>5. CASE m.t = "snapshot"
      <4>1. client.seen \in Int /\ box[host.conn].items \in Seq(Messages)
        <5>1. box[host.conn] \in Boxes /\ client \in Clients
          BY <1>3, <3>1 DEF IInv, TypeOK
        <5> QED
          BY <5>1 DEF Boxes, Clients
      <4>2. PICK y \in Int : Through(Reading, client.seen, box[host.conn].items, y)
        BY <4>1, EveryReads
      <4>3. Reads(y, m) = g.seq
        BY <2>1, <3>5 DEF Leading, Reads, Applied
      <4> QED
        BY <3>3, <3>4, <4>2, <4>3
    <3>6. CASE m.t # "snapshot"
      <4>1. Through(Reading, client.seen, box[host.conn].items, host.seq)
        BY <2>6, <3>3, <3>6 DEF Tracked, Stepped
      <4>2. Reads(host.seq, m) = g.seq
        <5>1. CASE m.t \in {"ack", "ops"}
          <6>1. m.n = host.seq + 1 /\ g.seq = m.n
            BY <2>1, <5>1 DEF Leading
          <6>2. ~(m.n <= host.seq) /\ host.seq >= 0 /\ m.n = host.seq + 1
            BY <3>2, <6>1
          <6> QED
            BY <5>1, <6>1, <6>2 DEF Reads, Applied
        <5>2. CASE m.t \in {"same", "nack"}
          BY <2>1, <5>2 DEF Leading, Reads, Applied
        <5> QED
          BY <1>4, <3>6, <5>1, <5>2
      <4> QED
        BY <3>2, <3>3, <3>4, <4>1, <4>2
    <3> QED
      BY <3>5, <3>6
  <2>8. Logged(host')
    BY <2>1, <2>3
  <2> QED
    BY <2>4, <2>7, <2>8 DEF Tracked
<1> QED
  BY <1>5, <1>6

\* Who is let in leaves the text alone.
LEMMA AdmitText ==
    ASSUME NEW h \in Sessions, Keeper(h), h.pending \subseteq (h.last + 1)..h.max, h.last <= h.max,
           NEW k \in Conns, NEW token \in Nat
    PROVE  SameText(Admit(h, k, token), h)
<1> DEFINE b == [h EXCEPT !.previous = token, !.token = h.admitted + 1,
                          !.admitted = @ + 1, !.last = LastC(h)]
<1> DEFINE p == Prune(b)
<1>1. LastC(h) \in h.last..h.max
  BY LastCFacts
<1>2. LastC(h) \in 0..MaxCommits /\ h.admitted + 1 \in Nat
  BY <1>1, HostAssumption DEF Sessions
<1>3. b \in Sessions /\ b.answers = h.answers /\ SameText(b, h)
  BY <1>2 DEF Sessions, SameText
<1>4. Admit(h, k, token) = [p EXCEPT !.conn = k, !.confirmed = FALSE, !.connLast = 0]
  BY DEF Admit
<1> HIDE DEF b
<1>5. p \in Sessions /\ SameText(p, b)
  BY <1>3, PruneFacts DEF Keeper
<1> HIDE DEF p
<1> QED
  BY <1>3, <1>4, <1>5 DEF SameText, Sessions

\* Who enters is sent the document, or the shell is asked for it.
LEMMA HostAdmitsTracked ==
    ASSUME IInv, Tracked, NEW k \in Conns, HostAdmits(k)
    PROVE  Tracked'
<1> DEFINE token == Head(up[k]).c
<1> DEFINE new == Admit(host, k, token)
<1> DEFINE old == IF host.conn = NoConn THEN box
                  ELSE [box EXCEPT ![host.conn] = CloseBox(@, "replaced", FALSE)]
<1> DEFINE gone == IF host.conn = NoConn THEN <<>> ELSE <<[t |-> "gone", c |-> 0]>>
<1> DEFINE wanted == IF host.logState = "stale" THEN <<[t |-> "wanted", c |-> 0]>> ELSE <<>>
<1>1. /\ serving[k] = "hello" /\ up[k] # <<>> /\ ~host.ended
      /\ host' = new /\ box' = Queue(old, k, Entrance(new))
      /\ events' = events \o gone \o wanted
      /\ UNCHANGED <<client, shell, sending>>
  BY DEF HostAdmits, desk
<1>2. /\ host \in Sessions /\ Keeper(host) /\ Len(host.log) <= LogHard
      /\ host.pending \subseteq (host.last + 1)..host.max /\ host.last <= host.max
      /\ events \in Seq(Events) /\ box \in [Conns -> Boxes] /\ client \in Clients
      /\ client.conn \in Conns /\ Conns \subseteq Nat
      /\ host.conn # NoConn => host.conn \in Conns /\ host.conn # k
  BY <1>1, Fields DEF IInv, TypeOK, Counted, Wired
<1>3. token \in Nat
  <2>1. up[k] \in Seq(Uplink) /\ \A m \in Range(up[k]) : m.t = "hello"
    BY <1>1 DEF IInv, TypeOK, Wired
  <2>2. Head(up[k]) \in Uplink /\ Head(up[k]).t = "hello"
    BY <1>1, <2>1, HeadAndTail
  <2> QED
    BY <2>2 DEF Uplink
<1> HIDE DEF token
<1>4. /\ new \in Sessions /\ new.conn = k /\ new.ended = host.ended
      /\ new.pending = host.pending /\ new.answers \subseteq host.answers
      /\ SameText(new, host)
  BY <1>2, <1>3, AdmitFacts, AdmitText
<1>5. old \in [Conns -> Boxes] /\ old[k] = EmptyBox
  <2>1. box[k] = EmptyBox
    BY <1>1 DEF IInv, Wired
  <2>2. CASE host.conn = NoConn
    BY <1>2, <2>1, <2>2
  <2>3. CASE host.conn # NoConn
    <3> DEFINE b == CloseBox(box[host.conn], "replaced", FALSE)
    <3>1. b \in Boxes
      <4>1. <<>> \in Seq(Messages)
        BY EmptySeq
      <4>2. [items |-> <<>>, close |-> "replaced"] \in Boxes
        BY <4>1 DEF Boxes
      <4> QED
        BY <1>2, <2>3, <4>2 DEF CloseBox
    <3>2. old = [box EXCEPT ![host.conn] = b]
      BY <2>3
    <3> HIDE DEF b, old
    <3> QED
      BY <1>2, <2>1, <2>3, <3>1, <3>2
  <2> QED
    BY <2>2, <2>3
<1> HIDE DEF old, new
<1>6. Owing(host', shell', sending') /\ Logged(host')
  <2>1. Owing(new, shell, sending)
    BY <1>4, OwingStays DEF Tracked, SameText
  <2>2. Logged(new)
    BY <1>4, LoggedStays DEF Tracked
  <2> QED
    BY <1>1, <2>1, <2>2
<1>7. Range(events) \subseteq Range(events') /\ Range(wanted) \subseteq Range(events')
  <2>1. gone \in Seq(Events) /\ wanted \in Seq(Events)
    <3>1. [t |-> "gone", c |-> 0] \in Events /\ [t |-> "wanted", c |-> 0] \in Events
      BY DEF Events
    <3> QED
      BY <3>1, EmptySeq
  <2> HIDE DEF gone, wanted
  <2> DEFINE p == events \o gone
  <2>2. p \in Seq(Events) /\ Range(p) = Range(events) \cup Range(gone)
    BY <1>2, <2>1, ConcatRange
  <2>3. events' = p \o wanted
    BY <1>1
  <2> HIDE DEF p
  <2>4. Range(p \o wanted) = Range(p) \cup Range(wanted)
    BY <2>1, <2>2, ConcatRange
  <2> QED
    BY <2>2, <2>3, <2>4
<1>8. Stepped'
  <2> SUFFICES ASSUME Listening'
               PROVE  /\ ~new.ended
                      /\ Excuse' \/ Through(Reading, client.seen, box'[k].items, new.seq)
    BY <1>1, <1>4 DEF Stepped
  <2>1. CASE host.logState = "stale"
    <3> DEFINE e == [t |-> "wanted", c |-> 0]
    <3>1. wanted = <<e>>
      BY <2>1
    <3>2. e \in Range(wanted)
      BY <3>1 DEF Range
    <3>3. e \in Range(events') /\ e.t = "wanted"
      BY <1>7, <3>2
    <3> HIDE DEF wanted, e
    <3> QED
      BY <1>1, <1>4, <3>3 DEF Excuse
  <2>2. CASE host.logState # "stale"
    <3>1. /\ client.conn = k /\ client.at \in {"live", "trying"} /\ box'[k].close = "open"
      BY <1>1, <1>4 DEF Listening
    <3>2. ~LetGo(k)
      BY <1>2, <3>1 DEF LetGo
    <3> DEFINE q == Entrance(new)
    <3> DEFINE b == PushAll(EmptyBox, q)
    <3>3. box' = [old EXCEPT ![k] = IF LetGo(k) THEN @ ELSE PushAll(@, q)]
      BY <1>1 DEF Queue
    <3>4. box'[k] = b
      BY <1>5, <3>2, <3>3
    <3>5. q \in Seq(Messages) /\ Through(Reading, client.seen, q, new.seq)
      <4>1. Logged(new) /\ new.logState # "stale" /\ client.seen \in Int
        BY <1>1, <1>2, <1>4, <1>6, <2>2 DEF SameText, Clients
      <4> QED
        BY <1>4, <4>1, EntranceFacts, EntranceReads
    <3>6. EmptyBox \in Fitting /\ EmptyBox.items = <<>>
      <4>1. <<>> \in Seq(Messages) /\ Len(<<>>) = 0
        BY EmptySeq
      <4> QED
        BY <4>1, HostAssumption DEF EmptyBox, Fitting, Boxes
    <3>7. client.seen \in Int /\ new.seq \in Int
      BY <1>2, <1>4 DEF Clients, Sessions
    <3>8. Through(Reading, client.seen, EmptyBox.items, client.seen)
      BY <3>6, <3>7, ThroughNothing
    <3> HIDE DEF q
    <3>9. b.close = "open" => Through(Reading, client.seen, b.items, new.seq)
      BY <3>5, <3>6, <3>7, <3>8, PushAllReads
    <3> HIDE DEF b
    <3> QED
      BY <1>1, <1>4, <3>1, <3>4, <3>9
  <2> QED
    BY <2>1, <2>2
<1> QED
  BY <1>6, <1>8 DEF Tracked

\* Every step keeps the text, the log and the queues in step.
LEMMA StepTracked ==
    ASSUME IInv, Tracked, [Next]_vars
    PROVE  Tracked'
<1>1. CASE Commit \/ SendCommit \/ SendOther \/ Leave \/ ReadClose \/ ResumeExpires
  BY <1>1, ClientQuietly
<1>2. CASE Dial
  BY <1>2, DialTracked
<1>3. CASE Lose
  BY <1>3, LoseTracked
<1>4. CASE Read
  BY <1>4, ReadTracked
<1>5. ASSUME NEW k \in Conns, HostAdmits(k) PROVE Tracked'
  BY <1>5, HostAdmitsTracked
<1>6. ASSUME NEW k \in Conns, HostRefuses(k) \/ HostGivesUp(k) PROVE Tracked'
  BY <1>6, HelloEndsTracked
<1>7. ASSUME NEW k \in Conns, HostReads(k) PROVE Tracked'
  BY <1>7, HostReadsTracked
<1>8. ASSUME NEW k \in Conns, HostKicks(k) \/ HostLoses(k) PROVE Tracked'
  BY <1>8, KicksTracked
<1>9. CASE HostReleases
  BY <1>9, ReleasesTracked
<1>10. CASE ShellHears
  BY <1>10, ShellHearsTracked
<1>11. CASE Reconcile
  BY <1>11, ReconcileTracked
<1>12. CASE ShellSends
  BY <1>12, ShellSendsTracked
<1>13. CASE EditOps \/ TextSettles
  BY <1>13, EditsTracked
<1>14. CASE EditText \/ Terminate
  BY <1>14, ShellQuietly
<1>15. CASE StopAnswers
  BY <1>15, StopAnswersTracked
<1>16. CASE StopHost
  BY <1>16, StopHostTracked
<1>17. CASE StopEnds
  BY <1>17, StopEndsTracked
<1>18. CASE UNCHANGED vars
  BY <1>18, NothingTracked DEF vars, wire, desk
<1>19. ASSUME NEW k \in Conns,
              \/ HostAdmits(k) \/ HostRefuses(k) \/ HostGivesUp(k)
              \/ HostReads(k) \/ HostKicks(k) \/ HostLoses(k)
       PROVE  Tracked'
  BY <1>5, <1>6, <1>7, <1>8, <1>19
<1> QED
  BY <1>1, <1>2, <1>3, <1>4, <1>9, <1>10, <1>11, <1>12, <1>13, <1>14, <1>15, <1>16, <1>17,
     <1>18, <1>19 DEF Next, ClientStep, HostStep, ShellStep

\* A writer that has read all there is for it has the document of the host:
\* what a snapshot has made useless, and what an answer echoes again, leave no
\* gap, and a log that was thrown away is made good by the snapshot the shell
\* is asked for (outbox.rs push, session.rs append_log, send and admit).
THEOREM WriterIsInStep == Spec => []InStep
<1>1. Init => Tracked
  BY StartsTracked
<1>2. IInv /\ Tracked /\ [Next]_vars => Tracked'
  BY StepTracked
<1>3. IInv /\ Tracked => InStep
  <2> SUFFICES ASSUME IInv, Tracked, client.at = "live", host.conn = client.conn,
                      box[client.conn].close = "open", box[client.conn].items = <<>>,
                      client.seen # host.seq
               PROVE  \/ \E i \in DOMAIN events : events[i].t = "wanted"
                      \/ \E i \in DOMAIN sending : sending[i].t = "snapshot"
                      \/ shell.stop = "done"
    BY DEF InStep
  <2>1. Listening
    BY Fields DEF Listening, IInv
  <2>2. client.seen \in Int /\ host.seq \in Int
    BY DEF IInv, TypeOK, Clients, Sessions
  <2>3. ~Through(Reading, client.seen, box[host.conn].items, host.seq)
    BY <2>2, ThroughNothing
  <2>4. Excuse
    BY <2>1, <2>3 DEF Tracked, Stepped
  <2> QED
    BY <2>4 DEF Excuse, Range
<1> QED
  BY <1>1, <1>2, <1>3, Invariant, PTL DEF Spec
=============================================================================
