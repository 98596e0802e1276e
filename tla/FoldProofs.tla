----------------------------- MODULE FoldProofs -----------------------------
(***************************************************************************)
(* Induction over sequences, and what it says of FoldLeft: the loops of    *)
(* the program over a series, a buffer, a stack or an event are folds.     *)
(*                                                                         *)
(* The lemmas are first-order.  What differs from loop to loop is a        *)
(* constant of this module, and a proof about a loop instantiates it.      *)
(***************************************************************************)
EXTENDS SequencesExt, SequenceTheorems, WellFoundedInduction, TLAPS

CONSTANT Step(_, _, _)   \* the body of the loop: of its setting p (what it
                         \* only reads), its state and the next element

\* The state after the loop, from the state before it.
Looped(p, base, s) == FoldLeft(LAMBDA state, x : Step(p, state, x), base, s)

----------------------------------------------------------------------------
(***************************************************************************)
(* Induction                                                               *)
(***************************************************************************)

\* A set of naturals that has 0 and every successor of its members has all.
LEMMA AllNaturals ==
  ASSUME NEW T, 0 \in T, \A n \in Nat : n \in T => n + 1 \in T
  PROVE  Nat \subseteq T
<1>. DEFINE R == OpToRel(<, Nat)
            U == Nat \ T
<1>1. IsWellFoundedOn(R, Nat)
  BY NatLessThanWellFounded
<1>2. SUFFICES ASSUME U # {} PROVE FALSE
  OBVIOUS
<1>. HIDE DEF R
<1>3. PICK x \in U : \A y \in U : <<y, x>> \notin R
  BY <1>1, <1>2, WFMin
<1>4. x # 0 /\ x - 1 \in Nat /\ x - 1 < x /\ x \in Nat
  OBVIOUS
<1>5. <<x - 1, x>> \in R
  BY <1>4 DEF R, OpToRel
<1>6. x - 1 \in T
  BY <1>3, <1>4, <1>5
<1>. QED  BY <1>3, <1>4, <1>6

\* A set of sequences that has the empty one and, with a sequence, those that are
\* longer by one element, has all.
LEMMA AllSequences ==
  ASSUME NEW S, NEW T, <<>> \in T,
         \A s \in Seq(S) : s \in T => \A x \in S : Append(s, x) \in T
  PROVE  Seq(S) \subseteq T
<1>. DEFINE N == {n \in Nat : \A s \in Seq(S) : Len(s) = n => s \in T}
<1>1. 0 \in N
  <2>1. \A s \in Seq(S) : Len(s) = 0 => s = <<>>
    BY EmptySeq
  <2>. QED  BY <2>1
<1>2. ASSUME NEW n \in Nat, n \in N
      PROVE  n + 1 \in N
  <2>1. SUFFICES ASSUME NEW s \in Seq(S), Len(s) = n + 1
                 PROVE  s \in T
    OBVIOUS
  <2>2. s # <<>>
    BY <2>1, EmptySeq
  <2>3. PICK t \in Seq(S), x \in S : s = Append(t, x)
    BY <2>2, SequenceEmptyOrAppend
  <2>4. Len(t) \in Nat /\ Len(s) = Len(t) + 1
    BY <2>3, AppendProperties, LenProperties
  <2>5. t \in T
    BY <1>2, <2>1, <2>4
  <2>. QED  BY <2>3, <2>5
<1>. HIDE DEF N
<1>3. Nat \subseteq N
  BY <1>1, <1>2, AllNaturals
<1>4. \A s \in Seq(S) : Len(s) \in Nat
  BY LenProperties
<1>. QED  BY <1>3, <1>4 DEF N

----------------------------------------------------------------------------
(***************************************************************************)
(* The definition of FoldLeft                                              *)
(***************************************************************************)

\* The recursive function that FoldLeft chooses, on the subsets of 1 .. n.
IsFold(g, p, base, s, n) ==
  g = [u \in SUBSET (1 .. n) |->
         IF u = {} THEN base ELSE Step(p, g[u \ {Max(u)}], s[Max(u)])]

LEMMA MaxOfTop ==
  ASSUME NEW n \in Nat, NEW u \in SUBSET (1 .. n), n \in u
  PROVE  Max(u) = n
<1>1. \A y \in u : n >= y
  OBVIOUS
<1>2. \A x \in u : (\A y \in u : x >= y) => x = n
  <2>1. SUFFICES ASSUME NEW x \in u, \A y \in u : x >= y
                 PROVE  x = n
    OBVIOUS
  <2>2. x >= n /\ x <= n /\ x \in Nat
    BY <2>1
  <2>. QED  BY <2>2
<1>. QED  BY <1>1, <1>2 DEF Max

LEMMA FoldExists ==
  ASSUME NEW p, NEW base, NEW s, NEW n \in Nat
  PROVE  \E g : IsFold(g, p, base, s, n)
<1>. DEFINE N == {m \in Nat : \E g : IsFold(g, p, base, s, m)}
<1>1. 0 \in N
  <2>. DEFINE g == [u \in SUBSET (1 .. 0) |-> base]
  <2>1. \A u \in SUBSET (1 .. 0) : u = {}
    OBVIOUS
  <2>2. IsFold(g, p, base, s, 0)
    BY <2>1 DEF IsFold
  <2>. QED  BY <2>2
<1>2. ASSUME NEW m \in Nat, m \in N
      PROVE  m + 1 \in N
  <2>1. PICK g : IsFold(g, p, base, s, m)
    BY <1>2
  <2>. DEFINE top == m + 1
              h == [u \in SUBSET (1 .. top) |->
                      IF top \in u THEN Step(p, g[u \ {top}], s[top]) ELSE g[u]]
              Next(u) == IF u = {} THEN base ELSE Step(p, h[u \ {Max(u)}], s[Max(u)])
  <2>2. ASSUME NEW u \in SUBSET (1 .. top)
        PROVE  h[u] = Next(u)
    <3>1. CASE top \in u
      <4>1. Max(u) = top
        BY <3>1, MaxOfTop
      <4>2. u \ {top} \in SUBSET (1 .. top) /\ top \notin u \ {top}
        OBVIOUS
      <4>3. h[u \ {top}] = g[u \ {top}]
        BY <4>2
      <4>4. h[u] = Step(p, g[u \ {top}], s[top])
        BY <3>1
      <4>. QED  BY <3>1, <4>1, <4>3, <4>4
    <3>2. CASE top \notin u
      <4>0. ASSUME NEW y \in u
            PROVE  y \in 1 .. m
        BY <3>2, <4>0
      <4>1. u \in SUBSET (1 .. m) /\ u \ {Max(u)} \in SUBSET (1 .. top)
            /\ top \notin u \ {Max(u)}
        BY <3>2, <4>0, Zenon
      <4>2. g[u] = IF u = {} THEN base ELSE Step(p, g[u \ {Max(u)}], s[Max(u)])
        BY <2>1, <4>1 DEF IsFold
      <4>3. h[u] = g[u] /\ h[u \ {Max(u)}] = g[u \ {Max(u)}]
        BY <3>2, <4>1
      <4>. QED  BY <4>2, <4>3
    <3>. QED  BY <3>1, <3>2
  <2>3. h = [u \in SUBSET (1 .. top) |-> h[u]]
    OBVIOUS
  <2>. HIDE DEF h
  <2>4. h = [u \in SUBSET (1 .. top) |-> Next(u)]
    BY <2>2, <2>3
  <2>5. IsFold(h, p, base, s, top)
    BY <2>4 DEF IsFold
  <2>. QED  BY <2>5
<1>. HIDE DEF N
<1>3. Nat \subseteq N
  BY <1>1, <1>2, AllNaturals
<1>. QED  BY <1>3 DEF N

\* One element more is one step more.
LEMMA FoldSteps ==
  ASSUME NEW g, NEW p, NEW base, NEW s, NEW n \in Nat, IsFold(g, p, base, s, n)
  PROVE  /\ g[1 .. 0] = base
         /\ \A k \in 1 .. n : g[1 .. k] = Step(p, g[1 .. k - 1], s[k])
<1>1. g[1 .. 0] = base
  <2>1. 1 .. 0 = {} /\ 1 .. 0 \in SUBSET (1 .. n)
    OBVIOUS
  <2>. QED  BY <2>1 DEF IsFold
<1>2. ASSUME NEW k \in 1 .. n
      PROVE  g[1 .. k] = Step(p, g[1 .. k - 1], s[k])
  <2>1. Max(1 .. k) = k
    BY MaxOfTop
  <2>2. 1 .. k # {} /\ 1 .. k \in SUBSET (1 .. n) /\ (1 .. k) \ {k} = 1 .. k - 1
    OBVIOUS
  <2>3. g[1 .. k] = Step(p, g[(1 .. k) \ {Max(1 .. k)}], s[Max(1 .. k)])
    BY <2>2 DEF IsFold
  <2>. QED  BY <2>1, <2>2, <2>3
<1>. QED  BY <1>1, <1>2

\* A fold does not depend on what comes later.
LEMMA FoldUnique ==
  ASSUME NEW p, NEW base, NEW s, NEW t, NEW n \in Nat, NEW m \in Nat, n <= m,
         \A i \in 1 .. n : s[i] = t[i],
         NEW g, IsFold(g, p, base, s, n), NEW h, IsFold(h, p, base, t, m)
  PROVE  g[1 .. n] = h[1 .. n]
<1>. DEFINE N == {k \in Nat : k <= n => g[1 .. k] = h[1 .. k]}
<1>1. 0 \in N
  BY FoldSteps
<1>2. ASSUME NEW k \in Nat, k \in N
      PROVE  k + 1 \in N
  <2>1. SUFFICES ASSUME k + 1 <= n
                 PROVE  g[1 .. k + 1] = h[1 .. k + 1]
    OBVIOUS
  <2>2. k + 1 \in 1 .. n /\ k + 1 \in 1 .. m /\ k + 1 - 1 = k /\ k <= n
    BY <2>1
  <2>3. g[1 .. k + 1] = Step(p, g[1 .. k], s[k + 1])
    BY <2>2, FoldSteps
  <2>4. h[1 .. k + 1] = Step(p, h[1 .. k], t[k + 1])
    BY <2>2, FoldSteps
  <2>. QED  BY <1>2, <2>2, <2>3, <2>4
<1>. HIDE DEF N
<1>3. Nat \subseteq N
  BY <1>1, <1>2, AllNaturals
<1>. QED  BY <1>3 DEF N

LEMMA LoopedIsFold ==
  ASSUME NEW p, NEW base, NEW S, NEW s \in Seq(S)
  PROVE  \E g : IsFold(g, p, base, s, Len(s)) /\ Looped(p, base, s) = g[1 .. Len(s)]
<1>. DEFINE chosen == CHOOSE g : IsFold(g, p, base, s, Len(s))
<1>1. Len(s) \in Nat /\ DOMAIN s = 1 .. Len(s)
  BY LenProperties
<1>2. IsFold(chosen, p, base, s, Len(s))
  BY <1>1, FoldExists
<1>3. Looped(p, base, s) = chosen[1 .. Len(s)]
  BY <1>1 DEF Looped, FoldLeft, MapThenFoldSet, IsFold
<1>. QED  BY <1>2, <1>3

----------------------------------------------------------------------------
(***************************************************************************)
(* What proofs about loops cite                                            *)
(***************************************************************************)

\* No element, no step.
LEMMA LoopOfNothing ==
  ASSUME NEW p, NEW base
  PROVE  Looped(p, base, <<>>) = base
<1>1. <<>> \in Seq({}) /\ Len(<<>>) = 0
  BY EmptySeq
<1>2. PICK g : IsFold(g, p, base, <<>>, 0) /\ Looped(p, base, <<>>) = g[1 .. 0]
  BY <1>1, LoopedIsFold
<1>. QED  BY <1>2, FoldSteps

\* The last element is the last step.
LEMMA LoopOfAppend ==
  ASSUME NEW p, NEW base, NEW S, NEW s \in Seq(S), NEW x \in S
  PROVE  Looped(p, base, Append(s, x)) = Step(p, Looped(p, base, s), x)
<1>. DEFINE t == Append(s, x)
            n == Len(s)
<1>1. /\ t \in Seq(S) /\ Len(t) = n + 1 /\ t[n + 1] = x
      /\ n \in Nat /\ \A i \in 1 .. n : s[i] = t[i]
  BY AppendProperties, LenProperties
<1>2. PICK g : IsFold(g, p, base, s, n) /\ Looped(p, base, s) = g[1 .. n]
  BY LoopedIsFold
<1>. HIDE DEF t, n
<1>3. PICK h : IsFold(h, p, base, t, n + 1) /\ Looped(p, base, t) = h[1 .. n + 1]
  BY <1>1, LoopedIsFold
<1>4. h[1 .. n + 1] = Step(p, h[1 .. n], x)
  <2>1. n + 1 \in 1 .. n + 1 /\ n + 1 - 1 = n /\ n + 1 \in Nat
    BY <1>1
  <2>. QED  BY <1>1, <1>3, <2>1, FoldSteps
<1>5. g[1 .. n] = h[1 .. n]
  <2>1. n + 1 \in Nat /\ n <= n + 1
    BY <1>1
  <2>2. n \in Nat /\ \A i \in 1 .. n : s[i] = t[i]
    BY <1>1
  <2>. DEFINE m == n + 1
  <2>3. IsFold(g, p, base, s, n) /\ IsFold(h, p, base, t, m) /\ m \in Nat /\ n <= m
    BY <1>2, <1>3, <2>1
  <2>. HIDE DEF m
  <2>. QED  BY <2>2, <2>3, FoldUnique
<1>. QED  BY <1>2, <1>3, <1>4, <1>5 DEF t

\* One element, one step.
LEMMA LoopOfOne ==
  ASSUME NEW p, NEW base, NEW x
  PROVE  Looped(p, base, <<x>>) = Step(p, base, x)
<1>. DEFINE none == <<>>
            S == {x}
<1>1. none \in Seq(S) /\ x \in S
  BY EmptySeq
<1>2. Append(none, x) = <<x>>
  OBVIOUS
<1>3. Looped(p, base, none) = base
  BY LoopOfNothing
<1>. HIDE DEF none, S
<1>4. Looped(p, base, Append(none, x)) = Step(p, Looped(p, base, none), x)
  BY <1>1, LoopOfAppend
<1>. QED  BY <1>2, <1>3, <1>4

\* What every step preserves, the loop preserves.
LEMMA LoopInvariant ==
  ASSUME NEW p, NEW A, NEW base \in A, NEW S,
         \A state \in A, x \in S : Step(p, state, x) \in A,
         NEW s \in Seq(S)
  PROVE  Looped(p, base, s) \in A
<1>. DEFINE T == {t \in Seq(S) : Looped(p, base, t) \in A}
<1>1. <<>> \in T
  BY EmptySeq, LoopOfNothing
<1>2. ASSUME NEW t \in Seq(S), t \in T, NEW x \in S
      PROVE  Append(t, x) \in T
  <2>1. Append(t, x) \in Seq(S)
    BY AppendProperties
  <2>2. Looped(p, base, Append(t, x)) = Step(p, Looped(p, base, t), x)
    BY LoopOfAppend
  <2>. QED  BY <1>2, <2>1, <2>2
<1>. HIDE DEF T
<1>3. Seq(S) \subseteq T
  BY <1>1, <1>2, AllSequences
<1>. QED  BY <1>3 DEF T

\* A loop over two sequences, one after the other, is a loop over the second that
\* starts where the one over the first ends.
LEMMA LoopOfConcat ==
  ASSUME NEW p, NEW base, NEW S, NEW s \in Seq(S), NEW rest \in Seq(S)
  PROVE  Looped(p, base, s \o rest) = Looped(p, Looped(p, base, s), rest)
<1>. DEFINE mid == Looped(p, base, s)
            T == {t \in Seq(S) : Looped(p, base, s \o t) = Looped(p, mid, t)}
<1>1. <<>> \in T
  <2>1. s \o <<>> = s
    BY ConcatEmptySeq
  <2>2. Looped(p, mid, <<>>) = mid
    BY LoopOfNothing
  <2>. QED  BY <2>1, <2>2, EmptySeq
<1>2. ASSUME NEW t \in Seq(S), t \in T, NEW x \in S
      PROVE  Append(t, x) \in T
  <2>1. Append(t, x) \in Seq(S) /\ s \o t \in Seq(S)
    BY AppendProperties, ConcatProperties
  <2>2. s \o Append(t, x) = Append(s \o t, x)
    <3>1. <<x>> \in Seq(S)
      OBVIOUS
    <3>2. Append(t, x) = t \o <<x>> /\ Append(s \o t, x) = (s \o t) \o <<x>>
      BY <2>1, AppendIsConcat
    <3>3. (s \o t) \o <<x>> = s \o (t \o <<x>>)
      BY <3>1, ConcatAssociative
    <3>. QED  BY <3>2, <3>3
  <2>3. Looped(p, base, Append(s \o t, x)) = Step(p, Looped(p, base, s \o t), x)
    <3>. DEFINE whole == s \o t
    <3>1. whole \in Seq(S)
      BY <2>1
    <3>. HIDE DEF whole
    <3>2. Looped(p, base, Append(whole, x)) = Step(p, Looped(p, base, whole), x)
      BY <3>1, LoopOfAppend
    <3>. QED  BY <3>2 DEF whole
  <2>4. Looped(p, mid, Append(t, x)) = Step(p, Looped(p, mid, t), x)
    BY LoopOfAppend
  <2>. QED  BY <1>2, <2>1, <2>2, <2>3, <2>4
<1>. HIDE DEF T, mid
<1>3. Seq(S) \subseteq T
  BY <1>1, <1>2, AllSequences
<1>. QED  BY <1>3 DEF T, mid

\* A loop that adds up: what it makes of two sequences is the sum of what it makes of
\* each.
LEMMA SumOfConcat ==
  ASSUME NEW p, NEW S,
         \A n \in Nat, x \in S : Step(p, 0, x) \in Nat /\ Step(p, n, x) = n + Step(p, 0, x),
         NEW s \in Seq(S), NEW rest \in Seq(S)
  PROVE  /\ Looped(p, 0, s) \in Nat
         /\ Looped(p, 0, s \o rest) = Looped(p, 0, s) + Looped(p, 0, rest)
<1>. DEFINE Sum(t) == Looped(p, 0, t)
            T == {t \in Seq(S) : Sum(t) \in Nat
                                   /\ \A n \in Nat : Looped(p, n, t) = n + Sum(t)}
<1>1. <<>> \in T
  <2>1. \A n : Looped(p, n, <<>>) = n
    BY LoopOfNothing
  <2>. QED  BY <2>1, EmptySeq
<1>2. ASSUME NEW t \in Seq(S), t \in T, NEW x \in S
      PROVE  Append(t, x) \in T
  <2>1. Append(t, x) \in Seq(S)
    BY AppendProperties
  <2>2. \A n \in Nat : Looped(p, n, Append(t, x)) = Step(p, Looped(p, n, t), x)
    <3>. TAKE n \in Nat
    <3>. QED  BY LoopOfAppend
  <2>. DEFINE sum == Sum(t)
              more == Step(p, 0, x)
  <2>3. sum \in Nat /\ more \in Nat /\ \A n \in Nat : Looped(p, n, t) = n + sum
    BY <1>2
  <2>4. Sum(Append(t, x)) = Step(p, sum, x)
    BY <2>2
  <2>. HIDE DEF sum, more, Sum
  <2>5. Sum(Append(t, x)) = sum + more
    <3>1. Step(p, sum, x) = sum + more
      BY <2>3 DEF more
    <3>. QED  BY <2>4, <3>1
  <2>6. ASSUME NEW n \in Nat
        PROVE  Looped(p, n, Append(t, x)) = n + Sum(Append(t, x))
    <3>1. n + sum \in Nat /\ Looped(p, n, t) = n + sum
      BY <2>3
    <3>2. Step(p, n + sum, x) = n + sum + more
      BY <3>1 DEF more
    <3>. QED  BY <2>2, <2>3, <2>5, <3>1, <3>2
  <2>7. Sum(Append(t, x)) \in Nat
    BY <2>3, <2>5
  <2>. QED  BY <2>1, <2>6, <2>7
<1>. HIDE DEF T
<1>3. Seq(S) \subseteq T
  BY <1>1, <1>2, AllSequences
<1>4. /\ Sum(s) \in Nat
      /\ Looped(p, Sum(s), rest) = Sum(s) + Sum(rest)
  BY <1>3 DEF T
<1>5. Looped(p, 0, s \o rest) = Looped(p, Sum(s), rest)
  BY LoopOfConcat
<1>. QED  BY <1>4, <1>5
=============================================================================
