------------------------------ MODULE FoldFacts ------------------------------
(***************************************************************************)
(* What FoldLeft computes, for every sequence: the run of an operator over *)
(* the elements one after the other. The operator is a constant of the     *)
(* module; a module that proves about a fold instantiates this one with    *)
(* its own. The first argument of Step is what all the steps share. Before *)
(* that, what is in the sequences the operators make.                      *)
(***************************************************************************)
EXTENDS SequencesExt, SequenceTheorems, WellFoundedInduction, TLAPS

CONSTANT Step(_, _, _)

-----------------------------------------------------------------------------
(* Sequences and what is in them.                                          *)

LEMMA RangeIsPart ==
    ASSUME NEW T, NEW q \in Seq(T)
    PROVE  /\ Range(q) \subseteq T
           /\ \A i \in 1..Len(q) : q[i] \in Range(q)
           /\ q = <<>> => Range(q) = {}
<1>1. DOMAIN q = 1..Len(q) /\ \A i \in 1..Len(q) : q[i] \in T
  BY LenProperties, ElementOfSeq
<1> QED
  BY <1>1 DEF Range

LEMMA AppendRange ==
    ASSUME NEW T, NEW q \in Seq(T), NEW e \in T
    PROVE  Append(q, e) \in Seq(T) /\ Range(Append(q, e)) = Range(q) \cup {e}
<1>1. /\ Append(q, e) \in Seq(T) /\ Len(q) \in Nat
      /\ DOMAIN Append(q, e) = 1..(Len(q) + 1) /\ DOMAIN q = 1..Len(q)
      /\ \A i \in 1..Len(q) : Append(q, e)[i] = q[i]
      /\ Append(q, e)[Len(q) + 1] = e
  BY AppendProperties, LenProperties
<1>2. ASSUME NEW x \in Range(Append(q, e)) PROVE x \in Range(q) \cup {e}
  BY <1>1 DEF Range
<1>3. ASSUME NEW x \in Range(q) \cup {e} PROVE x \in Range(Append(q, e))
  BY <1>1 DEF Range
<1> QED
  BY <1>1, <1>2, <1>3

LEMMA ConcatRange ==
    ASSUME NEW T, NEW p \in Seq(T), NEW q \in Seq(T)
    PROVE  p \o q \in Seq(T) /\ Range(p \o q) = Range(p) \cup Range(q)
<1>1. /\ p \o q \in Seq(T) /\ Len(p) \in Nat /\ Len(q) \in Nat
      /\ DOMAIN (p \o q) = 1..(Len(p) + Len(q))
      /\ DOMAIN p = 1..Len(p) /\ DOMAIN q = 1..Len(q)
      /\ \A i \in 1..(Len(p) + Len(q)) :
            (p \o q)[i] = IF i <= Len(p) THEN p[i] ELSE q[i - Len(p)]
  BY ConcatProperties, LenProperties
<1>2. ASSUME NEW x \in Range(p \o q) PROVE x \in Range(p) \cup Range(q)
  <2>1. PICK i \in 1..(Len(p) + Len(q)) : x = (p \o q)[i]
    BY <1>1 DEF Range
  <2>2. CASE i <= Len(p)
    BY <1>1, <2>1, <2>2 DEF Range
  <2>3. CASE ~(i <= Len(p))
    <3>1. i - Len(p) \in 1..Len(q)
      BY <1>1, <2>3
    <3> QED
      BY <1>1, <2>1, <2>3, <3>1 DEF Range
  <2> QED
    BY <2>2, <2>3
<1>3. ASSUME NEW x \in Range(p) PROVE x \in Range(p \o q)
  <2>1. PICK i \in 1..Len(p) : x = p[i]
    BY <1>1 DEF Range
  <2>2. i \in 1..(Len(p) + Len(q)) /\ (p \o q)[i] = x
    BY <1>1, <2>1
  <2> QED
    BY <1>1, <2>2 DEF Range
<1>4. ASSUME NEW x \in Range(q) PROVE x \in Range(p \o q)
  <2>1. PICK i \in 1..Len(q) : x = q[i]
    BY <1>1 DEF Range
  <2>2. /\ i + Len(p) \in 1..(Len(p) + Len(q)) /\ ~(i + Len(p) <= Len(p))
        /\ (i + Len(p)) - Len(p) = i
    BY <1>1
  <2>3. (p \o q)[i + Len(p)] = x
    BY <1>1, <2>1, <2>2
  <2> QED
    BY <1>1, <2>2, <2>3 DEF Range
<1> QED
  BY <1>1, <1>2, <1>3, <1>4

LEMMA HeadAndTail ==
    ASSUME NEW T, NEW q \in Seq(T), q # <<>>
    PROVE  /\ Head(q) \in Range(q) /\ Head(q) \in T
           /\ Tail(q) \in Seq(T) /\ Range(Tail(q)) \subseteq Range(q)
<1>1. /\ Head(q) = q[1] /\ Tail(q) \in Seq(T) /\ Len(Tail(q)) = Len(q) - 1
      /\ \A i \in 1..Len(Tail(q)) : Tail(q)[i] = q[i + 1]
      /\ Len(q) \in Nat \ {0}
  BY HeadTailProperties, EmptySeq
<1>2. 1 \in 1..Len(q) /\ \A i \in 1..Len(Tail(q)) : i + 1 \in 1..Len(q)
  BY <1>1
<1>3. DOMAIN Tail(q) = 1..Len(Tail(q)) /\ DOMAIN q = 1..Len(q)
  BY <1>1, LenProperties
<1> QED
  BY <1>1, <1>2, <1>3, RangeIsPart DEF Range

LEMMA PartOfRange ==
    ASSUME NEW T, NEW q \in Seq(T), NEW m \in Nat, NEW n \in Nat, n <= Len(q)
    PROVE  /\ SubSeq(q, m + 1, n) \in Seq(T)
           /\ Range(SubSeq(q, m + 1, n)) \subseteq Range(q)
<1> DEFINE p == SubSeq(q, m + 1, n)
<1>1. Len(q) \in Nat /\ DOMAIN q = 1..Len(q) /\ \A i \in (m + 1)..n : i \in 1..Len(q) /\ q[i] \in T
  <2>1. Len(q) \in Nat /\ DOMAIN q = 1..Len(q)
    BY LenProperties
  <2> QED
    BY <2>1, ElementOfSeq
<1>2. /\ p \in Seq(T)
      /\ Len(p) = IF m + 1 <= n THEN n - (m + 1) + 1 ELSE 0
      /\ \A i \in 1..(n - (m + 1) + 1) : p[i] = q[m + 1 + i - 1]
  BY <1>1, SubSeqProperties
<1>3. DOMAIN p = 1..Len(p)
  BY <1>2, LenProperties
<1> HIDE DEF p
<1>4. ASSUME NEW x \in Range(p) PROVE x \in Range(q)
  <2>1. PICK i \in 1..Len(p) : x = p[i]
    BY <1>3 DEF Range
  <2>2. i \in 1..(n - (m + 1) + 1) /\ m + 1 + i - 1 \in 1..Len(q)
    BY <1>1, <1>2, <2>1
  <2> QED
    BY <1>1, <1>2, <2>1, <2>2 DEF Range
<1> QED
  BY <1>2, <1>4 DEF p

-----------------------------------------------------------------------------
(* Folds.                                                                  *)

\* The function FoldLeft is defined with, from any subset of the positions to
\* what the elements there fold to.
FoldOf(env, base, seq) ==
    LET it == CHOOSE g : g = [s \in SUBSET (DOMAIN seq) |->
                  IF s = {} THEN base
                  ELSE LET i == CHOOSE x \in s : \A y \in s : x >= y
                       IN  Step(env, g[s \ {i}], seq[i])]
    IN  it[DOMAIN seq]

\* A set that has zero and with every number the next has all of them.
LEMMA Induction ==
    ASSUME NEW S, 0 \in S, \A n \in Nat : n \in S => n + 1 \in S
    PROVE  Nat \subseteq S
<1>1. SUFFICES ASSUME NEW m \in Nat, m \notin S PROVE FALSE
  OBVIOUS
<1> DEFINE T == {n \in Nat : n \notin S}
<1>2. T \subseteq Nat /\ T # {}
  BY <1>1
<1>3. PICK x \in T : \A y \in T : ~ (<<y, x>> \in OpToRel(<, Nat))
  <2> HIDE DEF T
  <2> QED
    BY <1>2, WFMin, NatLessThanWellFounded, Zenon
<1>4. \A y \in T : ~ (y < x)
  BY <1>3 DEF OpToRel
<1>5. CASE x = 0
  BY <1>5
<1>6. CASE x # 0
  <2>1. x - 1 \in Nat /\ x - 1 < x
    BY <1>6
  <2>2. x - 1 \in S
    BY <2>1, <1>4
  <2> QED
    BY <2>1, <2>2
<1> QED
  BY <1>5, <1>6

\* The last position of those up to it.
LEMMA LastOf ==
    ASSUME NEW k \in Nat, NEW s, s \subseteq 1..k+1, k + 1 \in s
    PROVE  (CHOOSE x \in s : \A y \in s : x >= y) = k + 1
<1>1. k + 1 \in s /\ \A y \in s : k + 1 >= y
  OBVIOUS
<1>2. ASSUME NEW x \in s, \A y \in s : x >= y PROVE x = k + 1
  BY <1>2
<1> QED
  BY <1>1, <1>2, Zenon

\* The fold of the first k elements is one step from that of the first k - 1.
THEOREM Iterates ==
    ASSUME NEW env, NEW base, NEW n \in Nat, NEW seq, DOMAIN seq = 1..n
    PROVE  \E f : /\ f[0] = base
                  /\ \A k \in 1..n : f[k] = Step(env, f[k - 1], seq[k])
                  /\ f[n] = FoldOf(env, base, seq)
<1> DEFINE M(s) == CHOOSE x \in s : \A y \in s : x >= y
<1> DEFINE Iter(g, k) == g = [s \in SUBSET (1..k) |->
                IF s = {} THEN base ELSE Step(env, g[s \ {M(s)}], seq[M(s)])]
<1> DEFINE S == {k \in Nat : \E g : Iter(g, k)}
<1>1. 0 \in S
  <2>1. Iter([s \in SUBSET (1..0) |-> base], 0)
    OBVIOUS
  <2> QED
    BY <2>1
<1>2. ASSUME NEW k \in Nat, k \in S PROVE k + 1 \in S
  <2>1. PICK g : Iter(g, k)
    BY <1>2
  <2> DEFINE h == [s \in SUBSET (1..k+1) |->
                      IF k + 1 \in s THEN Step(env, g[s \ {k + 1}], seq[k + 1]) ELSE g[s]]
  <2>2. ASSUME NEW s \in SUBSET (1..k+1)
        PROVE  h[s] = IF s = {} THEN base ELSE Step(env, h[s \ {M(s)}], seq[M(s)])
    <3>1. CASE k + 1 \in s
      <4>1. M(s) = k + 1
        BY <3>1, LastOf
      <4>2. h[s \ {k + 1}] = g[s \ {k + 1}]
        OBVIOUS
      <4> HIDE DEF Iter, M
      <4> QED
        BY <3>1, <4>1, <4>2
    <3>2. CASE k + 1 \notin s
      <4>1. s \subseteq 1..k
        <5> HIDE DEF Iter, S, h, M
        <5>1. \A x \in s : x \in 1..k+1 /\ x # k + 1
          BY <3>2
        <5> QED
          BY <5>1
      <4>2. s \in SUBSET (1..k) /\ s \ {M(s)} \in SUBSET (1..k)
        <5> HIDE DEF Iter, S, h, M
        <5> QED
          BY <4>1
      <4>3. h[s] = g[s] /\ h[s \ {M(s)}] = g[s \ {M(s)}]
        <5> HIDE DEF Iter, S, M
        <5> QED
          BY <3>2, <4>2
      <4>4. g[s] = IF s = {} THEN base ELSE Step(env, g[s \ {M(s)}], seq[M(s)])
        <5> HIDE DEF S, h, M
        <5> QED
          BY <2>1, <4>2
      <4> HIDE DEF Iter, S, h, M
      <4> QED
        BY <4>3, <4>4
    <3> QED
      BY <3>1, <3>2
  <2>3. Iter(h, k + 1)
    BY <2>2
  <2>4. k + 1 \in Nat
    OBVIOUS
  <2> HIDE DEF Iter, h
  <2> QED
    BY <2>3, <2>4
<1>3. Nat \subseteq S
  <2> HIDE DEF S
  <2> QED
    BY <1>1, <1>2, Induction
<1> DEFINE it == CHOOSE g : Iter(g, n)
<1>4. Iter(it, n)
  <2>1. \E g : Iter(g, n)
    <3> HIDE DEF Iter
    <3> QED
      BY <1>3
  <2> HIDE DEF Iter
  <2> QED
    BY <2>1, Zenon
<1>5. FoldOf(env, base, seq) = it[1..n]
  BY DEF FoldOf
<1>6. it[1..0] = base
  <2> HIDE DEF it, M
  <2> QED
    BY <1>4
<1>7. ASSUME NEW k \in 1..n PROVE it[1..k] = Step(env, it[1..k-1], seq[k])
  <2>1. 1..k \in SUBSET (1..n) /\ 1..k # {} /\ (1..k) \ {k} = 1..k-1
    OBVIOUS
  <2>2. M(1..k) = k
    <3>1. k - 1 \in Nat /\ (k - 1) + 1 = k /\ 1..k \subseteq 1..((k - 1) + 1) /\ k \in 1..k
      OBVIOUS
    <3> QED
      BY <3>1, LastOf
  <2> HIDE DEF it, M
  <2> QED
    BY <2>1, <2>2, <1>4
<1> DEFINE f == [k \in 0..n |-> it[1..k]]
<1>8. f[0] = base /\ f[n] = FoldOf(env, base, seq)
  BY <1>5, <1>6
<1>9. \A k \in 1..n : f[k] = Step(env, f[k - 1], seq[k])
  <2> HIDE DEF it, M
  <2>1. \A k \in 1..n : k - 1 \in 0..n /\ k \in 0..n
    OBVIOUS
  <2> QED
    BY <1>7, <2>1
<1> QED
  <2> HIDE DEF f
  <2> QED
    BY <1>8, <1>9

\* What holds of the base, and with every step of what comes out of it, holds of
\* the fold: G is the set of what may come out of how many steps.
THEOREM FoldKeeps ==
    ASSUME NEW env, NEW base, NEW n \in Nat, NEW seq, DOMAIN seq = 1..n,
           NEW G, <<0, base>> \in G,
           \A k \in 1..n : \A a : <<k - 1, a>> \in G => <<k, Step(env, a, seq[k])>> \in G
    PROVE  <<n, FoldOf(env, base, seq)>> \in G
<1>1. PICK f : /\ f[0] = base
               /\ \A k \in 1..n : f[k] = Step(env, f[k - 1], seq[k])
               /\ f[n] = FoldOf(env, base, seq)
  BY Iterates
<1> DEFINE S == {k \in Nat : k <= n => <<k, f[k]>> \in G}
<1>2. 0 \in S
  BY <1>1
<1>3. ASSUME NEW k \in Nat, k \in S PROVE k + 1 \in S
  <2>1. CASE k + 1 <= n
    <3>1. k + 1 \in 1..n /\ (k + 1) - 1 = k /\ k <= n
      BY <2>1
    <3>2. f[k + 1] = Step(env, f[k], seq[k + 1])
      BY <1>1, <3>1
    <3>3. <<k, f[k]>> \in G
      BY <1>3, <3>1
    <3>4. <<k + 1, f[k + 1]>> \in G
      BY <3>1, <3>2, <3>3
    <3> QED
      BY <3>4
  <2>2. CASE ~(k + 1 <= n)
    BY <2>2
  <2> QED
    BY <2>1, <2>2
<1>4. Nat \subseteq S
  <2> HIDE DEF S
  <2> QED
    BY <1>2, <1>3, Induction
<1> QED
  BY <1>1, <1>4

=============================================================================
