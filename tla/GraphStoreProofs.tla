-------------------------- MODULE GraphStoreProofs --------------------------
(***************************************************************************)
(* The knowledge graph, whatever the repository, the size of a batch and   *)
(* the hops of a query: the search for circular imports reports what is    *)
(* one and misses none, a method is found exactly where it is inherited,   *)
(* either store keeps the promise of KnowledgeGraph, and the two stores,   *)
(* and the two builders, agree.                                            *)
(***************************************************************************)
EXTENDS GraphStore, SequenceTheorems, FiniteSetTheorems, WellFoundedInduction, TLAPS

-----------------------------------------------------------------------------
(* Numbers: what a least or greatest member is, and induction and          *)
(* recursion, which the provers have no rule for.                          *)

\* A set of natural numbers has a least member.
LEMMA Least ==
  ASSUME NEW T \in SUBSET Nat, T # {}
  PROVE  \E x \in T : \A y \in T : x <= y
<1> DEFINE R == {p \in Nat \X Nat : p[1] < p[2]}
<1>1. IsWellFoundedOn(R, Nat)
  BY NatLessThanWellFounded DEF OpToRel
<1> HIDE DEF R
<1>2. PICK x \in T : \A y \in T : <<y, x>> \notin R
  BY <1>1, WFMin
<1>3. ASSUME NEW y \in T PROVE x <= y
  <2>1. x \in Nat /\ y \in Nat /\ <<y, x>> \notin R
    BY <1>2
  <2>2. ~(y < x)
    BY <2>1 DEF R
  <2>3. QED
    BY <2>1, <2>2
<1>4. QED
  BY <1>2, <1>3

\* Min is that member,
LEMMA MinFacts == ASSUME NEW T \in SUBSET Nat, T # {} PROVE Min(T) \in T /\ \A y \in T : Min(T) <= y
  BY Least DEF Min

\* and Max the greatest, of a set with a bound.
LEMMA MaxFacts ==
  ASSUME NEW n \in Nat, NEW S \in SUBSET 0..n, S # {}
  PROVE  Max(S) \in S /\ \A y \in S : y <= Max(S)
<1> DEFINE B == {b \in Nat : \A y \in S : y <= b}
<1>1. n \in B
  OBVIOUS
<1>2. PICK b \in B : \A c \in B : b <= c
  <2>1. B \in SUBSET Nat /\ B # {}
    BY <1>1
  <2> HIDE DEF B
  <2>2. QED
    BY <2>1, Least
<1>3. b \in S
  <2>1. SUFFICES ASSUME b \notin S PROVE FALSE
    OBVIOUS
  <2>2. PICK y \in S : TRUE
    OBVIOUS
  <2>3. y \in Nat /\ y < b /\ b \in Nat
    BY <1>2, <2>1
  <2>4. b - 1 \in B
    BY <1>2, <2>1, <2>3
  <2>5. QED
    BY <1>2, <2>3, <2>4
<1>4. \A y \in S : y <= b
  BY <1>2
<1>5. QED
  BY <1>3, <1>4 DEF Max

\* Of two numbers.
LEMMA MinOfTwo == ASSUME NEW a \in Nat, NEW b \in Nat PROVE Min({a, b}) = IF a <= b THEN a ELSE b
<1>1. {a, b} \in SUBSET Nat /\ {a, b} # {}
  OBVIOUS
<1>2. Min({a, b}) \in {a, b} /\ \A y \in {a, b} : Min({a, b}) <= y
  BY <1>1, MinFacts
<1>3. QED
  BY <1>2

\* An interval from 1 has one length.
LEMMA SameLength ==
  ASSUME NEW a \in Nat, NEW b \in Nat, 1..a = 1..b
  PROVE  a = b
<1>1. a < b => b \in 1..b /\ b \notin 1..a
  OBVIOUS
<1>2. b < a => a \in 1..a /\ a \notin 1..b
  OBVIOUS
<1>3. QED
  BY <1>1, <1>2

\* What holds of a number and of the next of each it holds of holds from there on.
LEMMA Upward ==
  ASSUME NEW T, NEW m \in Nat, m \in T, \A n \in Nat : n >= m /\ n \in T => n + 1 \in T
  PROVE  \A n \in Nat : n >= m => n \in T
<1> DEFINE M == {n \in Nat : n >= m /\ n \notin T}
<1>1. SUFFICES ASSUME M # {} PROVE FALSE
  OBVIOUS
<1>2. PICK x \in M : \A y \in M : x <= y
  <2>1. M \in SUBSET Nat
    OBVIOUS
  <2> HIDE DEF M
  <2>2. QED
    BY <1>1, <2>1, Least
<1>3. x \in Nat /\ x > m /\ x \notin T
  BY <1>2
<1>4. x - 1 \in Nat /\ x - 1 >= m /\ (x - 1) + 1 = x /\ x - 1 \notin M
  BY <1>2, <1>3
<1>5. QED
  BY <1>3, <1>4

\* Induction from 0.
LEMMA Induct ==
  ASSUME NEW T, 0 \in T, \A n \in Nat : n \in T => n + 1 \in T
  PROVE  \A n \in Nat : n \in T
  BY Upward

\* f starts at v, and each value is a step from the one before. (Kept folded, it is
\* matched by the provers.)
Recurs(f, v, n, step) == f[0] = v /\ \A i \in 1..n : f[i] = step[<<f[i - 1], i>>]

\* A function is defined by its first value and by each value from the one before.
LEMMA Recursion ==
  ASSUME NEW V, NEW v \in V, NEW n \in Nat, NEW step \in [V \X (1..n) -> V]
  PROVE  \E f \in [0..n -> V] : Recurs(f, v, n, step)
<1> DEFINE Fits(f, m) == f[0] = v /\ \A i \in 1..m : f[i] = step[<<f[i - 1], i>>]
           T == {m \in Nat : m <= n => \E f \in [0..m -> V] : Fits(f, m)}
<1>1. 0 \in T
  <2> DEFINE f == [i \in 0..0 |-> v]
  <2>1. 0..0 = {0} /\ 1..0 = {} /\ f \in [0..0 -> V] /\ f[0] = v
    OBVIOUS
  <2> HIDE DEF f
  <2>2. Fits(f, 0)
    BY <2>1
  <2>3. QED
    BY <2>1, <2>2
<1>2. ASSUME NEW m \in Nat, m \in T PROVE m + 1 \in T
  <2>1. SUFFICES ASSUME m + 1 <= n PROVE \E f \in [0..(m + 1) -> V] : Fits(f, m + 1)
    OBVIOUS
  <2>2. PICK f \in [0..m -> V] : Fits(f, m)
    BY <1>2, <2>1
  <2> DEFINE g == [i \in 0..(m + 1) |-> IF i = m + 1 THEN step[<<f[m], m + 1>>] ELSE f[i]]
  <2>3. step[<<f[m], m + 1>>] \in V
    BY <2>1, <2>2
  <2>4. g \in [0..(m + 1) -> V]
    BY <2>2, <2>3
  <2>5. g[m + 1] = step[<<g[m], m + 1>>] /\ \A i \in 0..m : g[i] = f[i]
    <3>1. m + 1 \in 0..(m + 1) /\ m \in 0..m /\ \A i \in 0..m : i \in 0..(m + 1) /\ i # m + 1
      OBVIOUS
    <3> HIDE DEF Fits, T
    <3>2. g[m + 1] = step[<<f[m], m + 1>>]
      BY <3>1
    <3>3. \A i \in 0..m : g[i] = f[i]
      BY <3>1
    <3>4. QED
      BY <3>1, <3>2, <3>3
  <2> HIDE DEF g
  <2>6. ASSUME NEW i \in 1..(m + 1) PROVE g[i] = step[<<g[i - 1], i>>]
    <3>1. CASE i = m + 1
      BY <2>5, <3>1
    <3>2. CASE i \in 1..m
      <4>1. i - 1 \in 0..m /\ i \in 0..m
        BY <3>2
      <4>2. QED
        BY <2>2, <2>5, <3>2, <4>1
    <3>3. QED
      BY <3>1, <3>2
  <2>7. g[0] = v
    BY <2>2, <2>5
  <2>8. QED
    BY <2>4, <2>6, <2>7
<1> HIDE DEF T
<1>3. n \in T
  BY <1>1, <1>2, Induct
<1>4. QED
  BY <1>3 DEF T, Recurs

\* The k-th of the pieces of size b is a part of 1..n; every place is in one.
LEMMA PieceFacts ==
  ASSUME NEW b \in Nat \ {0}, NEW n \in Nat, NEW K, K = (n + b - 1) \div b
  PROVE  /\ K \in Nat
         /\ \A k \in 1..K : (k - 1) * b \in Nat /\ k * b \in Nat /\ k * b = (k - 1) * b + b
         /\ \A i \in 1..n : \E k \in 1..K : (k - 1) * b + 1 <= i /\ i <= k * b
<1>1. K \in Nat /\ \A x \in Nat : x \div b \in Nat /\ (x \div b) * b <= x /\ x < (x \div b) * b + b
  OBVIOUS
<1>2. \A k \in 1..K : (k - 1) * b \in Nat /\ k * b \in Nat /\ k * b = (k - 1) * b + b
  OBVIOUS
<1>3. ASSUME NEW i \in 1..n PROVE \E k \in 1..K : (k - 1) * b + 1 <= i /\ i <= k * b
  <2> DEFINE q == (i - 1) \div b
  <2>1. i - 1 \in Nat /\ q \in Nat /\ q * b <= i - 1 /\ i - 1 < q * b + b
    BY <1>1
  <2> HIDE DEF q
  <2>2. (q + 1) * b = q * b + b
    BY <2>1
  <2>3. q + 1 <= K
    <3>1. SUFFICES ASSUME K <= q PROVE FALSE
      BY <1>1, <2>1
    <3>2. K * b <= q * b
      BY <1>1, <2>1, <3>1
    <3>3. n + b - 1 < K * b + b
      BY <1>1
    <3>4. QED
      BY <1>1, <2>1, <3>2, <3>3
  <2>4. q + 1 \in 1..K /\ (q + 1) - 1 = q
    BY <1>1, <2>1, <2>3
  <2>5. QED
    BY <2>1, <2>2, <2>4
<1>4. QED
  BY <1>1, <1>2, <1>3

-----------------------------------------------------------------------------
(* Sequences, and the operators of CodeGraph on them.                      *)

\* A sequence has the shape that its operators need.
LEMMA SeqIs ==
  ASSUME NEW S, NEW s \in Seq(S)
  PROVE  IsSeq(s) /\ ToSet(s) \subseteq S /\ DOMAIN s = 1..Len(s) /\ Len(s) \in Nat
<1>1. Len(s) \in Nat /\ DOMAIN s = 1..Len(s) /\ s \in [1..Len(s) -> S]
  BY LenProperties
<1>2. s \in [1..Len(s) -> ToSet(s)] /\ ToSet(s) \subseteq S
  BY <1>1 DEF ToSet
<1>3. QED
  BY <1>1, <1>2, SeqDef DEF IsSeq

\* A sequence whose elements are in S.
LEMMA IsSeqTo == ASSUME NEW s, NEW S, IsSeq(s), ToSet(s) \subseteq S PROVE s \in Seq(S)
  BY SeqMonotonic DEF IsSeq

\* A sequence built from another, place by place.
LEMMA MapFacts ==
  ASSUME NEW s, IsSeq(s), NEW t, t = [k \in DOMAIN s |-> t[k]]
  PROVE  IsSeq(t) /\ ToSet(t) = {t[k] : k \in DOMAIN s}
<1>1. DOMAIN s = 1..Len(s) /\ Len(s) \in Nat
  BY SeqIs DEF IsSeq
<1>2. t \in Seq({t[k] : k \in DOMAIN s})
  BY <1>1, SeqDef
<1>3. QED
  BY <1>2, SeqIs DEF ToSet

\* The members of S up to n, each once.
LEMMA OrderFacts ==
  ASSUME NEW n \in Nat, NEW S
  PROVE  /\ InOrder(n, S) \in Seq(1..n)
         /\ ToSet(InOrder(n, S)) = S \cap 1..n
<1> DEFINE V == Seq(1..n)
           step == [p \in V \X (1..n) |-> IF p[2] \in S THEN Append(p[1], p[2]) ELSE p[1]]
           upTo == CHOOSE f : f = [i \in 0..n |-> IF i = 0 THEN <<>>
                                     ELSE IF i \in S THEN Append(f[i - 1], i) ELSE f[i - 1]]
<1>1. <<>> \in V /\ step \in [V \X (1..n) -> V]
  <2>1. \A p \in V \X (1..n) : p[1] \in V /\ p[2] \in 1..n
    OBVIOUS
  <2>2. \A s \in V : \A i \in 1..n : Append(s, i) \in V
    BY AppendProperties
  <2>3. <<>> \in V
    BY EmptySeq
  <2> HIDE DEF V
  <2>4. QED
    BY <2>1, <2>2, <2>3
<1>2. PICK g \in [0..n -> V] : g[0] = <<>> /\ \A i \in 1..n : g[i] = step[<<g[i - 1], i>>]
  <2>1. \E g \in [0..n -> V] : Recurs(g, <<>>, n, step)
    <3> HIDE DEF V, step
    <3>1. QED
      BY <1>1, Recursion
  <2>2. QED
    BY <2>1 DEF Recurs
<1>3. g = [i \in 0..n |-> IF i = 0 THEN <<>>
                        ELSE IF i \in S THEN Append(g[i - 1], i) ELSE g[i - 1]]
  <2>1. ASSUME NEW i \in 1..n
        PROVE  g[i] = IF i \in S THEN Append(g[i - 1], i) ELSE g[i - 1]
    <3>1. <<g[i - 1], i>> \in V \X (1..n)
      BY <1>2
    <3>2. g[i] = step[<<g[i - 1], i>>]
      BY <1>2
    <3>3. QED
      BY <3>1, <3>2
  <2>2. ASSUME NEW i \in 0..n
        PROVE  g[i] = IF i = 0 THEN <<>> ELSE IF i \in S THEN Append(g[i - 1], i) ELSE g[i - 1]
    <3>1. CASE i = 0
      BY <1>2, <3>1
    <3>2. CASE i # 0
      <4>1. i \in 1..n
        BY <3>2
      <4>2. QED
        BY <2>1, <3>2, <4>1
    <3>3. QED
      BY <3>1, <3>2
  <2>3. g = [i \in 0..n |-> g[i]]
    BY <1>2
  <2>4. QED
    BY <2>2, <2>3
<1>4. upTo = [i \in 0..n |-> IF i = 0 THEN <<>>
                        ELSE IF i \in S THEN Append(upTo[i - 1], i) ELSE upTo[i - 1]]
  BY <1>3
<1>5. InOrder(n, S) = upTo[n]
  BY DEF InOrder
<1> HIDE DEF upTo
<1> DEFINE T == {i \in Nat : i <= n => upTo[i] \in V /\ ToSet(upTo[i]) = S \cap 1..i}
<1>6. 0 \in T
  BY <1>1, <1>4 DEF ToSet
<1>7. ASSUME NEW i \in Nat, i \in T PROVE i + 1 \in T
  <2>1. SUFFICES ASSUME i + 1 <= n
                 PROVE  upTo[i + 1] \in V /\ ToSet(upTo[i + 1]) = S \cap 1..(i + 1)
    OBVIOUS
  <2>2. upTo[i] \in V /\ ToSet(upTo[i]) = S \cap 1..i
    BY <1>7, <2>1
  <2>3. upTo[i + 1] = IF i + 1 \in S THEN Append(upTo[i], i + 1) ELSE upTo[i]
    <3>1. i + 1 \in 0..n /\ i + 1 # 0 /\ (i + 1) - 1 = i
      BY <2>1
    <3>2. QED
      BY <1>4, <3>1
  <2>4. CASE i + 1 \in S
    <3>1. i + 1 \in 1..n
      BY <2>1
    <3> DEFINE s == upTo[i]
               t == upTo[i + 1]
    <3>2. /\ t \in V /\ Len(t) = Len(s) + 1 /\ t[Len(s) + 1] = i + 1
          /\ \A k \in 1..Len(s) : t[k] = s[k]
      BY <2>2, <2>3, <2>4, <3>1, AppendProperties
    <3>3. DOMAIN t = 1..(Len(s) + 1) /\ DOMAIN s = 1..Len(s) /\ Len(s) \in Nat
      BY <2>2, <3>2, LenProperties
    <3> HIDE DEF s, t
    <3>4. ToSet(t) = ToSet(s) \cup {i + 1}
      <4>1. \A k \in DOMAIN t : k \in DOMAIN s \/ k = Len(s) + 1
        BY <3>3
      <4>2. Len(s) + 1 \in DOMAIN t /\ \A k \in DOMAIN s : k \in DOMAIN t
        BY <3>3
      <4>3. QED
        BY <3>2, <3>3, <4>1, <4>2 DEF ToSet
    <3>5. S \cap 1..(i + 1) = (S \cap 1..i) \cup {i + 1}
      BY <2>4
    <3>6. ToSet(upTo[i + 1]) = ToSet(upTo[i]) \cup {i + 1} /\ upTo[i + 1] \in V
      BY <3>2, <3>4 DEF s, t
    <3>7. QED
      BY <2>2, <3>5, <3>6
  <2>5. CASE i + 1 \notin S
    BY <2>2, <2>3, <2>5
  <2>6. QED
    BY <2>4, <2>5
<1> HIDE DEF T
<1>8. n \in T
  BY <1>6, <1>7, Induct
<1>9. QED
  BY <1>5, <1>8 DEF T

\* What is picked from a sequence is what was to be picked.
LEMMA PickFacts ==
  ASSUME NEW s, IsSeq(s), NEW S \in SUBSET DOMAIN s
  PROVE  IsSeq(Pick(s, S)) /\ ToSet(Pick(s, S)) = {s[k] : k \in S}
<1> DEFINE at == InOrder(Len(s), S)
<1>1. Len(s) \in Nat /\ DOMAIN s = 1..Len(s)
  BY SeqIs DEF IsSeq
<1>2. at \in Seq(1..Len(s)) /\ ToSet(at) = S
  BY <1>1, OrderFacts
<1>3. DOMAIN at = 1..Len(at) /\ Len(at) \in Nat /\ \A n \in DOMAIN at : at[n] \in S
  BY <1>2, LenProperties DEF ToSet
<1>4. Pick(s, S) = [n \in DOMAIN at |-> s[at[n]]]
  BY DEF Pick
<1> HIDE DEF at
<1>5. Pick(s, S) \in Seq({s[k] : k \in S})
  BY <1>3, <1>4, SeqDef
<1>6. ToSet(Pick(s, S)) = {s[k] : k \in S}
  BY <1>2, <1>4 DEF ToSet
<1>7. QED
  BY <1>5, <1>6, SeqIs

\* What is concatenated has the elements of both.
LEMMA ConcatFacts ==
  ASSUME NEW S, NEW s \in Seq(S), NEW t \in Seq(S)
  PROVE  s \o t \in Seq(S) /\ ToSet(s \o t) = ToSet(s) \cup ToSet(t)
<1> DEFINE u == s \o t
<1>1. /\ u \in Seq(S) /\ Len(u) = Len(s) + Len(t)
      /\ \A i \in 1..(Len(s) + Len(t)) : u[i] = IF i <= Len(s) THEN s[i] ELSE t[i - Len(s)]
  BY ConcatProperties
<1>2. /\ DOMAIN s = 1..Len(s) /\ DOMAIN t = 1..Len(t) /\ DOMAIN u = 1..(Len(s) + Len(t))
      /\ Len(s) \in Nat /\ Len(t) \in Nat
  BY <1>1, LenProperties
<1> HIDE DEF u
<1>3. \A i \in DOMAIN s : i \in DOMAIN u /\ u[i] = s[i]
  BY <1>1, <1>2
<1>4. \A i \in DOMAIN t : i + Len(s) \in DOMAIN u /\ u[i + Len(s)] = t[i]
  BY <1>1, <1>2
<1>5. \A i \in DOMAIN u : (i \in DOMAIN s /\ u[i] = s[i]) \/ (i - Len(s) \in DOMAIN t /\ u[i] = t[i - Len(s)])
  BY <1>1, <1>2
<1>6. ToSet(u) = ToSet(s) \cup ToSet(t)
  BY <1>3, <1>4, <1>5 DEF ToSet
<1>7. QED
  BY <1>1, <1>6 DEF u

\* What is flattened has the elements of the parts.
LEMMA FlattenFacts ==
  ASSUME NEW S, NEW ss \in Seq(Seq(S))
  PROVE  /\ FlattenSeq(ss) \in Seq(S)
         /\ ToSet(FlattenSeq(ss)) = UNION {ToSet(ss[k]) : k \in DOMAIN ss}
<1> DEFINE n == Len(ss)
           V == Seq(S)
           step == [p \in V \X (1..n) |-> p[1] \o ss[p[2]]]
           flatten == CHOOSE f : f = [i \in 1..n |-> IF i = 1 THEN ss[i] ELSE f[i - 1] \o ss[i]]
<1>0. n \in Nat /\ DOMAIN ss = 1..n /\ \A i \in 1..n : ss[i] \in V
  BY LenProperties, ElementOfSeq
<1>1. CASE n = 0
  <2>1. ss = <<>> /\ DOMAIN ss = {}
    BY <1>0, <1>1, EmptySeq
  <2>2. FlattenSeq(ss) = <<>>
    BY <1>1, <2>1 DEF FlattenSeq
  <2>3. QED
    BY <2>1, <2>2, EmptySeq DEF ToSet
<1>2. CASE n # 0
  <2>1. <<>> \in V /\ step \in [V \X (1..n) -> V]
    <3>1. \A s \in V : \A t \in V : s \o t \in V
      BY ConcatProperties
    <3>2. <<>> \in V
      BY EmptySeq
    <3> HIDE DEF V, n
    <3>3. QED
      BY <1>0, <3>1, <3>2
  <2>2. PICK g \in [0..n -> V] : g[0] = <<>> /\ \A i \in 1..n : g[i] = step[<<g[i - 1], i>>]
    <3>1. \E g \in [0..n -> V] : Recurs(g, <<>>, n, step)
      <4> HIDE DEF V, step, n
      <4>1. QED
        BY <1>0, <2>1, Recursion
    <3>2. QED
      BY <3>1 DEF Recurs
  <2>3. \A i \in 1..n : g[i] = g[i - 1] \o ss[i]
    <3> SUFFICES ASSUME NEW i \in 1..n PROVE g[i] = g[i - 1] \o ss[i]
      OBVIOUS
    <3>0. i - 1 \in 0..n
      BY <1>0
    <3>1. <<g[i - 1], i>> \in V \X (1..n) /\ g[i] = step[<<g[i - 1], i>>]
      BY <2>2, <3>0
    <3>2. QED
      BY <3>1
  <2> DEFINE h == [i \in 1..n |-> g[i]]
  <2>4. h = [i \in 1..n |-> IF i = 1 THEN ss[i] ELSE h[i - 1] \o ss[i]]
    <3>1. ASSUME NEW i \in 1..n PROVE g[i] = IF i = 1 THEN ss[i] ELSE h[i - 1] \o ss[i]
      <4>1. CASE i = 1
        <5>0. i - 1 = 0 /\ g[0] = <<>>
          BY <2>2, <4>1
        <5>1. g[i] = <<>> \o ss[i] /\ ss[i] \in Seq(S)
          BY <1>0, <2>3, <5>0
        <5>2. QED
          BY <4>1, <5>1, ConcatEmptySeq
      <4>2. CASE i # 1
        <5>1. i - 1 \in 1..n
          BY <1>0, <4>2
        <5>2. QED
          BY <2>3, <4>2, <5>1
      <4>3. QED
        BY <4>1, <4>2
    <3>2. QED
      BY <3>1
  <2>5. flatten = [i \in 1..n |-> IF i = 1 THEN ss[i] ELSE flatten[i - 1] \o ss[i]]
    BY <2>4
  <2>6. FlattenSeq(ss) = flatten[n]
    BY <1>2 DEF FlattenSeq
  <2> HIDE DEF flatten
  <2> DEFINE T == {i \in Nat : i \in 1..n =>
                     flatten[i] \in V /\ ToSet(flatten[i]) = UNION {ToSet(ss[k]) : k \in 1..i}}
  <2>7. 1 \in T
    <3>1. 1..1 = {1} /\ (1 \in 1..n => flatten[1] = ss[1])
      BY <2>5
    <3>2. 1 \in 1..n /\ ss[1] \in V
      BY <1>0, <1>2
    <3>3. UNION {ToSet(ss[k]) : k \in 1..1} = ToSet(ss[1])
      BY <3>1
    <3>4. QED
      BY <3>1, <3>2, <3>3
  <2>8. ASSUME NEW i \in Nat, i >= 1, i \in T PROVE i + 1 \in T
    <3>1. SUFFICES ASSUME i + 1 <= n
                   PROVE  /\ flatten[i + 1] \in V
                          /\ ToSet(flatten[i + 1]) = UNION {ToSet(ss[k]) : k \in 1..(i + 1)}
      OBVIOUS
    <3>2. flatten[i] \in V /\ ToSet(flatten[i]) = UNION {ToSet(ss[k]) : k \in 1..i}
      <4>1. i \in 1..n
        BY <1>0, <2>8, <3>1
      <4>2. QED
        BY <2>8, <4>1
    <3>3. flatten[i + 1] = flatten[i] \o ss[i + 1] /\ ss[i + 1] \in V
      <4>1. i + 1 \in 1..n /\ i + 1 # 1 /\ (i + 1) - 1 = i
        BY <1>0, <2>8, <3>1
      <4>2. QED
        BY <1>0, <2>5, <4>1
    <3>4. flatten[i + 1] \in V /\ ToSet(flatten[i + 1]) = ToSet(flatten[i]) \cup ToSet(ss[i + 1])
      BY <3>2, <3>3, ConcatFacts
    <3>5. 1..(i + 1) = 1..i \cup {i + 1}
      BY <2>8
    <3>6. UNION {ToSet(ss[k]) : k \in 1..(i + 1)}
          = (UNION {ToSet(ss[k]) : k \in 1..i}) \cup ToSet(ss[i + 1])
      BY ONLY <3>5
    <3>7. QED
      BY <3>2, <3>4, <3>6
  <2> HIDE DEF T
  <2>9. \A i \in Nat : i >= 1 => i \in T
    BY <2>7, <2>8, Upward
  <2>10. n \in T /\ n \in 1..n
    BY <1>0, <1>2, <2>9
  <2>11. QED
    BY <1>0, <2>6, <2>10 DEF T
<1>3. QED
  BY <1>1, <1>2

\* What is flattened from the files of a repository.
LEMMA FlatMapFacts ==
  ASSUME NEW S, NEW s, IsSeq(s), NEW t, t = [k \in DOMAIN s |-> t[k]],
         \A k \in DOMAIN s : t[k] \in Seq(S)
  PROVE  FlattenSeq(t) \in Seq(S) /\ ToSet(FlattenSeq(t)) = UNION {ToSet(t[k]) : k \in DOMAIN s}
<1>1. DOMAIN s = 1..Len(s) /\ Len(s) \in Nat
  BY SeqIs DEF IsSeq
<1>2. t \in Seq(Seq(S)) /\ DOMAIN t = DOMAIN s
  BY <1>1, SeqDef
<1>3. QED
  BY <1>2, FlattenFacts

\* The last of some places is one of them.
LEMMA LastOfFacts ==
  ASSUME NEW n \in Nat, NEW S \in SUBSET 1..n
  PROVE  LastOf(S) \in 0..n /\ (S # {} => LastOf(S) \in S) /\ (S = {} => LastOf(S) = 0)
<1>1. CASE S = {}
  BY <1>1 DEF LastOf
<1>2. CASE S # {}
  <2>1. S \in SUBSET 0..n
    OBVIOUS
  <2>2. QED
    BY <1>2, <2>1, MaxFacts DEF LastOf
<1>3. QED
  BY <1>1, <1>2

-----------------------------------------------------------------------------
(* What is read in a repository.                                           *)

\* What is looked up by a name is a record of the table, or 0.
LEMMA RecordOfFacts ==
  ASSUME NEW t, IsSeq(t), NEW name
  PROVE  RecordOf(t, name) \in 0..Len(t) /\ LookupQualified(t, name) \in 0..Len(t)
<1> DEFINE n == Len(t)
<1>1. n \in Nat /\ DOMAIN t = 1..n
  BY SeqIs DEF IsSeq
<1>2. LookupQualified(t, name) \in 0..n
  <2>1. {k \in DOMAIN t : t[k].id[1] = name} \in SUBSET 1..n
    BY <1>1
  <2> HIDE DEF n
  <2>2. QED
    BY <1>1, <2>1, LastOfFacts DEF LookupQualified
<1>3. Lookup(t, name) \in 0..n
  <2> DEFINE I == {i \in 1..n : <<t[i].name>> = name}
  <2>1. Lookup(t, name) = IF I # {} THEN Min(I) ELSE 0
    BY DEF Lookup, SelectInSeq
  <2>2. I # {} => Min(I) \in I
    <3>1. I \in SUBSET Nat
      BY <1>1
    <3> HIDE DEF I
    <3>2. QED
      BY <3>1, MinFacts
  <2>3. QED
    BY <1>1, <2>1, <2>2
<1>4. QED
  BY <1>2, <1>3 DEF RecordOf

\* A symbol table: no symbol has the id of a module.
TableInv(t) == IsSeq(t) /\ \A k \in 1..Len(t) : t[k].id[2] # 0 /\ IsSeq(t[k].bases)

\* The symbol table of a repository is one.
LEMMA TableFacts == ASSUME NEW R, IsRepo(R) PROVE TableInv(SymbolTable(R))
<1> DEFINE S == {s \in ToSet(R.files) \X Nat : s[2] \in Defs(R, s[1])}
           places(f) == InOrder(Len(R.code[f]), Defs(R, f))
           ofFile(f) == [n \in DOMAIN places(f) |-> <<f, places(f)[n]>>]
           syms == FlatMap(ofFile, R.files)
           global(s) == Parts(s[1]) \o Qualified(R, s)
           names == [k \in DOMAIN syms |-> global(syms[k])]
           T == SymbolTable(R)
<1>1. ASSUME NEW f \in ToSet(R.files) PROVE ofFile(f) \in Seq(S)
  <2>1. IsSeq(R.code[f])
    BY DEF IsRepo
  <2>2. Len(R.code[f]) \in Nat
    BY <2>1, SeqIs DEF IsSeq
  <2>3. places(f) \in Seq(1..Len(R.code[f])) /\ ToSet(places(f)) \subseteq Defs(R, f)
    BY <2>2, OrderFacts
  <2>4. /\ DOMAIN places(f) = 1..Len(places(f)) /\ Len(places(f)) \in Nat
        /\ \A n \in DOMAIN places(f) : places(f)[n] \in Defs(R, f) /\ places(f)[n] \in Nat
    BY <2>2, <2>3, LenProperties, ElementOfSeq DEF ToSet
  <2> HIDE DEF places
  <2>5. \A n \in DOMAIN places(f) : <<f, places(f)[n]>> \in S
    BY <2>4
  <2> HIDE DEF S
  <2>6. QED
    BY <2>4, <2>5, SeqDef
<1>2. syms \in Seq(S)
  <2> DEFINE t == [k \in DOMAIN R.files |-> ofFile(R.files[k])]
  <2>1. IsSeq(R.files) /\ \A k \in DOMAIN R.files : t[k] \in Seq(S)
    BY <1>1 DEF IsRepo, ToSet
  <2>2. FlattenSeq(t) \in Seq(S)
    <3>1. t = [k \in DOMAIN R.files |-> t[k]]
      OBVIOUS
    <3> HIDE DEF t, S
    <3>2. QED
      BY <2>1, <3>1, FlatMapFacts
  <2>3. syms = FlattenSeq(t)
    BY DEF FlatMap
  <2>4. QED
    BY <2>2, <2>3
<1>3. /\ DOMAIN T = DOMAIN syms
      /\ \A k \in DOMAIN syms :
           /\ T[k].id = <<names[k], Cardinality({j \in 1..k : names[j] = names[k]})>>
           /\ T[k].bases = IF IsClass(R, syms[k]) THEN R.code[syms[k][1]][syms[k][2]].bases ELSE <<>>
      /\ T = [k \in DOMAIN syms |-> T[k]]
  BY DEF SymbolTable
<1> HIDE DEF syms, T, names
<1>4. DOMAIN syms = 1..Len(syms) /\ Len(syms) \in Nat /\ \A k \in DOMAIN syms : syms[k] \in S
  BY <1>2, LenProperties, ElementOfSeq
<1>5. IsSeq(T) /\ Len(T) = Len(syms)
  <2>1. T \in Seq({T[k] : k \in DOMAIN syms})
    BY <1>3, <1>4, SeqDef
  <2>2. IsSeq(T) /\ DOMAIN T = 1..Len(T) /\ Len(T) \in Nat
    BY <2>1, SeqIs
  <2>3. Len(T) = Len(syms)
    BY <1>3, <1>4, <2>2, SameLength
  <2>4. QED
    BY <2>2, <2>3
<1>6. ASSUME NEW k \in DOMAIN syms PROVE T[k].id[2] # 0 /\ IsSeq(T[k].bases)
  <2>1. T[k].id[2] # 0
    <3> DEFINE J == {j \in 1..k : names[j] = names[k]}
    <3>1. k \in J /\ k \in Nat
      BY <1>4
    <3>2. IsFiniteSet(1..k)
      BY <3>1, FS_Interval
    <3>3. IsFiniteSet(J) /\ Cardinality(J) # 0
      BY <3>1, <3>2, FS_Subset, FS_EmptySet
    <3>4. QED
      BY <1>3, <3>3
  <2>2. IsSeq(T[k].bases)
    <3> DEFINE s == syms[k]
    <3>1. s[1] \in ToSet(R.files) /\ s[2] \in Defs(R, s[1])
      BY <1>4
    <3>2. R.code[s[1]][s[2]] \in ToSet(R.code[s[1]])
      BY <3>1 DEF Defs, ToSet
    <3>3. CASE IsClass(R, s)
      <4>1. R.code[s[1]][s[2]].kind = "class"
        BY <3>3 DEF IsClass
      <4>2. QED
        BY <1>3, <3>1, <3>2, <3>3, <4>1 DEF IsRepo
    <3>4. CASE ~IsClass(R, s)
      <4>1. T[k].bases = <<>>
        BY <1>3, <3>4
      <4>2. QED
        BY <4>1, EmptySeq DEF IsSeq, ToSet
    <3>5. QED
      BY <3>3, <3>4
  <2>3. QED
    BY <2>1, <2>2
<1>7. QED
  BY <1>4, <1>5, <1>6 DEF TableInv, T

\* The call graph is a sequence.
LEMMA CallFacts == ASSUME NEW R, IsRepo(R) PROVE IsSeq(CallGraph(R))
<1> DEFINE edge(f, i) == IF i \in Calls(R, f) THEN CallEdge(R, f, i, ResolveCall(R, f, i)) ELSE <<>>
           parts(f) == [i \in DOMAIN R.code[f] |-> edge(f, i)]
           ofFile(f) == FlattenSeq(parts(f))
           all == [k \in DOMAIN R.files |-> ofFile(R.files[k])]
           S == UNION {ToSet(edge(f, i)) : f \in ToSet(R.files), i \in Nat}
<1>1. ASSUME NEW f \in ToSet(R.files), NEW i \in Nat PROVE edge(f, i) \in Seq(S)
  <2>1. edge(f, i) = <<>> \/ \E x : edge(f, i) = <<x>>
    BY DEF CallEdge
  <2>2. ToSet(edge(f, i)) \subseteq S
    OBVIOUS
  <2> HIDE DEF edge, S
  <2>3. CASE edge(f, i) = <<>>
    BY <2>3, EmptySeq
  <2>4. CASE \E x : edge(f, i) = <<x>>
    <3>1. PICK x : edge(f, i) = <<x>>
      BY <2>4
    <3>2. x \in S
      <4>1. 1 \in DOMAIN <<x>> /\ <<x>>[1] = x
        OBVIOUS
      <4>2. QED
        BY <2>2, <3>1, <4>1 DEF ToSet
    <3>3. QED
      BY <3>1, <3>2
  <2>5. QED
    BY <2>1, <2>3, <2>4
<1> HIDE DEF edge, S
<1>2. ASSUME NEW f \in ToSet(R.files) PROVE ofFile(f) \in Seq(S)
  <2>1. IsSeq(R.code[f])
    BY DEF IsRepo
  <2>2. DOMAIN R.code[f] = 1..Len(R.code[f])
    BY <2>1, SeqIs DEF IsSeq
  <2>3. \A i \in DOMAIN R.code[f] : parts(f)[i] \in Seq(S)
    BY <1>1, <2>2
  <2>4. parts(f) = [i \in DOMAIN R.code[f] |-> parts(f)[i]]
    OBVIOUS
  <2> HIDE DEF parts
  <2>5. QED
    BY <2>1, <2>3, <2>4, FlatMapFacts
<1>3. FlattenSeq(all) \in Seq(S)
  <2>1. IsSeq(R.files) /\ \A k \in DOMAIN R.files : all[k] \in Seq(S)
    BY <1>2 DEF IsRepo, ToSet
  <2>2. all = [k \in DOMAIN R.files |-> all[k]]
    OBVIOUS
  <2> HIDE DEF all
  <2>3. QED
    BY <2>1, <2>2, FlatMapFacts
<1>4. CallGraph(R) = FlattenSeq(all)
  BY DEF CallGraph, FlatMap, edge
<1>5. QED
  BY <1>3, <1>4, SeqIs

\* The nodes of a file that import.
LEMMA StatementFacts ==
  ASSUME NEW R, IsRepo(R), NEW f \in ToSet(R.files)
  PROVE  /\ IsSeq(Statements(R, f))
         /\ ToSet(Statements(R, f)) = {n \in ToSet(R.code[f]) : n.kind \in {"import", "from"}}
<1> DEFINE at == {k \in DOMAIN R.code[f] : R.code[f][k].kind \in {"import", "from"}}
<1>1. IsSeq(R.code[f]) /\ at \in SUBSET DOMAIN R.code[f]
  BY DEF IsRepo
<1>2. Statements(R, f) = Pick(R.code[f], at)
  BY DEF Statements, Where
<1>3. ToSet(R.code[f]) = {R.code[f][k] : k \in DOMAIN R.code[f]}
  BY DEF ToSet
<1> HIDE DEF at
<1>4. IsSeq(Statements(R, f)) /\ ToSet(Statements(R, f)) = {R.code[f][k] : k \in at}
  BY <1>1, <1>2, PickFacts
<1>5. QED
  BY <1>3, <1>4 DEF at

\* A module resolves to files of the repository.
LEMMA ResolveFacts ==
  ASSUME NEW R, IsRepo(R), NEW m, NEW f
  PROVE  IsSeq(Resolve(R, m, f)) /\ ToSet(Resolve(R, m, f)) \subseteq ToSet(R.files)
<1>1. ASSUME NEW parts PROVE IsSeq(Matching(R, parts)) /\ ToSet(Matching(R, parts)) \subseteq ToSet(R.files)
  <2> DEFINE at == {k \in DOMAIN R.files : parts # <<>> /\ IsSuffix(parts, Parts(R.files[k]))}
  <2>1. IsSeq(R.files) /\ at \in SUBSET DOMAIN R.files
    BY DEF IsRepo
  <2>2. Matching(R, parts) = Pick(R.files, at)
    BY DEF Matching, Where
  <2> HIDE DEF at
  <2>3. IsSeq(Matching(R, parts)) /\ ToSet(Matching(R, parts)) = {R.files[k] : k \in at}
    BY <2>1, <2>2, PickFacts
  <2>4. QED
    BY <2>1, <2>3 DEF ToSet
<1>2. QED
  BY <1>1 DEF Resolve

\* What the dependency graph has: an edge for each file a statement resolves to.
LEMMA DependencyFacts ==
  ASSUME NEW R, IsRepo(R)
  PROVE  /\ IsSeq(DependencyGraph(R))
         /\ \A d : d \in ToSet(DependencyGraph(R)) <=>
              \E f \in ToSet(R.files) : \E n \in ToSet(Statements(R, f)) :
                \E g \in ToSet(Resolve(R, Imported(n), f)) :
                  d = [source |-> f, target |-> g, module |-> Imported(n)]
<1> DEFINE files == ToSet(R.files)
           edge(f, n, g) == [source |-> f, target |-> g, module |-> Imported(n)]
           ofStatement(f, m) == Dependencies(f, m, Resolve(R, m, f))
           parts(f) == [j \in DOMAIN Statements(R, f) |-> ofStatement(f, Imported(Statements(R, f)[j]))]
           ofFile(f) == FlattenSeq(parts(f))
           all == [k \in DOMAIN R.files |-> ofFile(R.files[k])]
           Of(f, n) == {edge(f, n, g) : g \in ToSet(Resolve(R, Imported(n), f))}
           S == UNION {UNION {Of(f, n) : n \in ToSet(Statements(R, f))} : f \in files}
<1>1. ASSUME NEW f, NEW n
      PROVE  ofStatement(f, Imported(n)) \in Seq(Of(f, n)) /\ ToSet(ofStatement(f, Imported(n))) = Of(f, n)
  <2> DEFINE r == Resolve(R, Imported(n), f)
  <2>1. DOMAIN r = 1..Len(r) /\ Len(r) \in Nat
    BY ResolveFacts, SeqIs DEF IsSeq
  <2>2. ofStatement(f, Imported(n)) = [k \in DOMAIN r |-> edge(f, n, r[k])]
    BY DEF Dependencies
  <2>3. ToSet(r) = {r[k] : k \in DOMAIN r}
    BY DEF ToSet
  <2> HIDE DEF r, edge
  <2>4. Of(f, n) = {edge(f, n, r[k]) : k \in DOMAIN r}
    BY <2>3 DEF r
  <2> HIDE DEF ofStatement, Of
  <2>5. ofStatement(f, Imported(n)) \in Seq(Of(f, n))
    BY <2>1, <2>2, <2>4, SeqDef
  <2>6. QED
    BY <2>2, <2>4, <2>5 DEF ToSet
<1> HIDE DEF ofStatement, Of
<1>2. ASSUME NEW f \in files
      PROVE  ofFile(f) \in Seq(S) /\ ToSet(ofFile(f)) = UNION {Of(f, n) : n \in ToSet(Statements(R, f))}
  <2> DEFINE s == Statements(R, f)
             t == parts(f)
  <2>1. IsSeq(s)
    BY StatementFacts
  <2>2. ASSUME NEW j \in DOMAIN s PROVE t[j] \in Seq(S) /\ ToSet(t[j]) = Of(f, s[j])
    <3>1. s[j] \in ToSet(s)
      BY DEF ToSet
    <3>2. Of(f, s[j]) \subseteq S
      BY <3>1
    <3>3. t[j] \in Seq(Of(f, s[j])) /\ ToSet(t[j]) = Of(f, s[j])
      BY <1>1
    <3> HIDE DEF t, S
    <3>4. QED
      BY <3>2, <3>3, SeqMonotonic
  <2>3. t = [j \in DOMAIN s |-> t[j]]
    OBVIOUS
  <2>4. ofFile(f) = FlattenSeq(t)
    OBVIOUS
  <2> HIDE DEF t, S, ofFile
  <2>5. FlattenSeq(t) \in Seq(S) /\ ToSet(FlattenSeq(t)) = UNION {ToSet(t[j]) : j \in DOMAIN s}
    BY <2>1, <2>2, <2>3, FlatMapFacts
  <2>6. UNION {ToSet(t[j]) : j \in DOMAIN s} = UNION {Of(f, n) : n \in ToSet(s)}
    BY <2>2 DEF ToSet
  <2>7. QED
    BY <2>4, <2>5, <2>6
<1> HIDE DEF parts
<1>3. FlattenSeq(all) \in Seq(S) /\ ToSet(FlattenSeq(all)) = S
  <2>1. IsSeq(R.files)
    BY DEF IsRepo
  <2>2. ASSUME NEW k \in DOMAIN R.files
        PROVE  /\ all[k] \in Seq(S)
               /\ ToSet(all[k]) = UNION {Of(R.files[k], n) : n \in ToSet(Statements(R, R.files[k]))}
    <3>1. R.files[k] \in files
      BY DEF ToSet
    <3> HIDE DEF S, ofFile, files
    <3>2. QED
      BY <1>2, <3>1
  <2>3. all = [k \in DOMAIN R.files |-> all[k]]
    OBVIOUS
  <2> HIDE DEF all, S
  <2>4. FlattenSeq(all) \in Seq(S) /\ ToSet(FlattenSeq(all)) = UNION {ToSet(all[k]) : k \in DOMAIN R.files}
    BY <2>1, <2>2, <2>3, FlatMapFacts
  <2>5. UNION {ToSet(all[k]) : k \in DOMAIN R.files} = S
    <3> DEFINE of(f) == UNION {Of(f, n) : n \in ToSet(Statements(R, f))}
    <3>1. files = {R.files[k] : k \in DOMAIN R.files}
      BY DEF ToSet
    <3>2. \A k \in DOMAIN R.files : ToSet(all[k]) = of(R.files[k])
      BY <2>2
    <3>3. S = UNION {of(f) : f \in files}
      BY DEF S
    <3> HIDE DEF of, files
    <3>4. QED
      BY <3>1, <3>2, <3>3
  <2>6. QED
    BY <2>4, <2>5
<1>4. DependencyGraph(R) = FlattenSeq(all)
  BY DEF DependencyGraph, FlatMap, parts, ofStatement
<1> HIDE DEF all
<1>5. IsSeq(DependencyGraph(R)) /\ ToSet(DependencyGraph(R)) = S
  BY <1>3, <1>4, SeqIs
<1>6. \A d : d \in S <=> \E f \in files : \E n \in ToSet(Statements(R, f)) : d \in Of(f, n)
  OBVIOUS
<1>7. \A d, f, n : d \in Of(f, n) <=> \E g \in ToSet(Resolve(R, Imported(n), f)) : d = edge(f, n, g)
  BY DEF Of
<1> HIDE DEF S, edge
<1>8. \A d : d \in ToSet(DependencyGraph(R)) <=>
         \E f \in files : \E n \in ToSet(Statements(R, f)) :
           \E g \in ToSet(Resolve(R, Imported(n), f)) : d = edge(f, n, g)
  BY <1>5, <1>6, <1>7
<1>9. QED
  BY <1>5, <1>8 DEF edge

\* A statement that imports.
IsStatement(n) == n.kind \in {"import", "from"} /\ (n.kind = "from" => IsSeq(n.names))

\* A statement has at least one import symbol; a plain one only such of its module.
LEMMA SymbolFacts ==
  ASSUME NEW n, IsStatement(n)
  PROVE  /\ IsSeq(ImportSymbols(n)) /\ ToSet(ImportSymbols(n)) # {}
         /\ PlainStatement(n) =>
              /\ Imported(n) = n.module
              /\ \A s \in ToSet(ImportSymbols(n)) : s.source = n.module /\ s.alias = FALSE
<1> DEFINE I == ImportSymbols(n)
<1>0. PlainStatement(n) <=> IF n.kind = "import" THEN n.as = ""
        ELSE n.module.parts # <<>> /\ \A k \in DOMAIN n.names : n.names[k].as = ""
  BY DEF PlainStatement
<1> n.kind \in {"import", "from"} /\ (n.kind = "from" => IsSeq(n.names))
  BY DEF IsStatement
<1>1. ASSUME NEW x PROVE IsSeq(<<x>>) /\ ToSet(<<x>>) = {x}
  <2>1. <<x>> \in Seq({x}) /\ DOMAIN <<x>> = {1}
    OBVIOUS
  <2>2. ToSet(<<x>>) = {x}
    BY <2>1 DEF ToSet
  <2>3. QED
    BY <2>1, <2>2 DEF IsSeq
<1>2. CASE n.kind = "import"
  <2> DEFINE x == IF n.as = "" THEN ImportSymbol(n.module.parts, n.module, FALSE, FALSE)
                  ELSE ImportSymbol(<<n.as>>, n.module, TRUE, FALSE)
  <2>1. I = <<x>> /\ Imported(n) = n.module
    BY <1>2 DEF ImportSymbols, Imported
  <2>2. n.as = "" => x.source = n.module /\ x.alias = FALSE
    BY DEF ImportSymbol
  <2> HIDE DEF x, I
  <2>3. IsSeq(I) /\ ToSet(I) = {x}
    BY <1>1, <2>1
  <2>4. QED
    BY <1>0, <1>2, <2>1, <2>2, <2>3 DEF I
<1>3. CASE n.kind = "from" /\ n.names = <<>>
  <2> DEFINE x == ImportSymbol(<<"*">>, n.module, FALSE, TRUE)
  <2>1. I = <<x>>
    BY <1>3 DEF ImportSymbols
  <2>2. x.source = n.module /\ x.alias = FALSE
    BY DEF ImportSymbol
  <2> HIDE DEF x, I
  <2>3. IsSeq(I) /\ ToSet(I) = {x}
    BY <1>1, <2>1
  <2>4. n.module.parts # <<>> => Imported(n) = n.module
    BY DEF Imported
  <2>5. QED
    BY <1>0, <1>3, <2>2, <2>3, <2>4 DEF I
<1>4. CASE n.kind = "from" /\ n.names # <<>>
  <2>1. I = [k \in DOMAIN n.names |->
          IF n.names[k].as = "" THEN ImportSymbol(<<n.names[k].name>>, n.module, FALSE, FALSE)
          ELSE ImportSymbol(<<n.names[k].as>>, Dotted(n.module, n.names[k].name), TRUE, FALSE)]
    BY <1>4 DEF ImportSymbols
  <2>2. \A k \in DOMAIN n.names : n.names[k].as = "" => I[k].source = n.module /\ I[k].alias = FALSE
    <3> SUFFICES ASSUME NEW k \in DOMAIN n.names, n.names[k].as = ""
                 PROVE  I[k].source = n.module /\ I[k].alias = FALSE
      OBVIOUS
    <3> DEFINE y == ImportSymbol(<<n.names[k].name>>, n.module, FALSE, FALSE)
    <3>1. I[k] = y
      BY <2>1
    <3>2. y.source = n.module /\ y.alias = FALSE
      BY DEF ImportSymbol
    <3> HIDE DEF I, y
    <3>3. QED
      BY <3>1, <3>2
  <2>3. I = [k \in DOMAIN n.names |-> I[k]]
    BY <2>1
  <2>4. DOMAIN n.names # {}
    <3>1. n.names \in Seq(ToSet(n.names))
      BY <1>4 DEF IsSeq
    <3> DEFINE m == n.names
    <3>2. m \in Seq(ToSet(m)) /\ m # <<>>
      BY <3>1, <1>4
    <3> HIDE DEF m
    <3>3. DOMAIN m = 1..Len(m) /\ Len(m) \in Nat /\ Len(m) # 0
      BY <3>2, LenProperties, EmptySeq
    <3>4. 1 \in DOMAIN m
      BY <3>3
    <3>5. QED
      BY <3>4 DEF m
  <2> HIDE DEF I
  <2>5. IsSeq(I) /\ ToSet(I) = {I[k] : k \in DOMAIN n.names}
    BY <1>4, <2>3, MapFacts
  <2>6. n.module.parts # <<>> => Imported(n) = n.module
    BY DEF Imported
  <2>7. QED
    BY <1>0, <1>4, <2>2, <2>4, <2>5, <2>6 DEF I
<1>5. QED
  BY <1>2, <1>3, <1>4

\* The import symbols of a file are those of its statements.
LEMMA ImportsFacts ==
  ASSUME NEW R, IsRepo(R), NEW f \in ToSet(R.files)
  PROVE  ToSet(FileImports(R, f)) = UNION {ToSet(ImportSymbols(n)) : n \in ToSet(Statements(R, f))}
<1> DEFINE s == Statements(R, f)
           t == [j \in DOMAIN s |-> ImportSymbols(s[j])]
           S == UNION {ToSet(ImportSymbols(n)) : n \in ToSet(s)}
<1>1. IsSeq(s) /\ \A n \in ToSet(s) : IsStatement(n)
  BY StatementFacts DEF IsRepo, IsStatement
<1>2. FileImports(R, f) = FlattenSeq(t)
  BY DEF FileImports, FlatMap
<1> HIDE DEF s
<1>3. \A j \in DOMAIN s : s[j] \in ToSet(s)
  BY DEF ToSet
<1>4. \A j \in DOMAIN s : t[j] = ImportSymbols(s[j]) /\ IsSeq(t[j])
  <2> TAKE j \in DOMAIN s
  <2>1. t[j] = ImportSymbols(s[j])
    OBVIOUS
  <2> HIDE DEF t
  <2>2. IsStatement(s[j])
    BY <1>1, <1>3
  <2>3. IsSeq(ImportSymbols(s[j]))
    BY <2>2, SymbolFacts
  <2>4. QED
    BY <2>1, <2>3
<1>5. \A j \in DOMAIN s : t[j] \in Seq(S)
  <2> TAKE j \in DOMAIN s
  <2>1. ToSet(t[j]) \subseteq S
    BY <1>3, <1>4
  <2> HIDE DEF t, S
  <2>2. QED
    BY <1>4, <2>1, IsSeqTo
<1>6. t = [j \in DOMAIN s |-> t[j]]
  OBVIOUS
<1> HIDE DEF t, S
<1>7. ToSet(FlattenSeq(t)) = UNION {ToSet(t[j]) : j \in DOMAIN s}
  BY <1>1, <1>5, <1>6, FlatMapFacts
<1>8. ToSet(s) = {s[j] : j \in DOMAIN s}
  BY DEF ToSet
<1>9. UNION {ToSet(t[j]) : j \in DOMAIN s} = S
  <2>1. \A j \in DOMAIN s : ToSet(t[j]) = ToSet(ImportSymbols(s[j]))
    BY <1>4
  <2>2. QED
    BY <1>8, <2>1 DEF S
<1>10. QED
  BY <1>2, <1>7, <1>9 DEF S, s

-----------------------------------------------------------------------------
(* The search for circular imports. Its path is a path of imports, of the  *)
(* gray files, each with a frame of imports of its own.                    *)

\* A search that has just been started, of a graph on the files D.
Started(D) ==
  /\ adjacency \in [D -> Seq(D)] /\ starts \in Seq(D)
  /\ color = [f \in D |-> "white"]
  /\ path = <<>> /\ frames = <<>> /\ chains = {}

\* The files of the graph.
Nodes == DOMAIN adjacency

\* The types of the search.
SearchTypes ==
  /\ adjacency \in [Nodes -> Seq(Nodes)] /\ starts \in Seq(Nodes)
  /\ color \in [Nodes -> {"white", "gray", "black"}]
  /\ path \in Seq(Nodes)
  /\ frames \in Seq(Seq(Nodes)) /\ Len(frames) = Len(path)

\* The path is one, through distinct files, the gray ones.
PathInv ==
  /\ \A j, k \in 1..Len(path) : path[j] = path[k] => j = k
  /\ \A k \in 1..(Len(path) - 1) : Imports(adjacency, path[k], path[k + 1])
  /\ \A f \in Nodes : color[f] = "gray" <=> \E k \in 1..Len(path) : path[k] = f

\* What is still to look at are imports.
FrameInv ==
  \A k \in 1..Len(path) : \A j \in 1..Len(frames[k]) : Imports(adjacency, path[k], frames[k][j])

\* The invariant of the search that its chains need.
SearchSafe == SearchTypes /\ PathInv /\ FrameInv /\ ChainsAreCycles

\* A file's frame starts as all of its imports.
LEMMA FirstFrame ==
  ASSUME SearchTypes, NEW f \in Nodes
  PROVE  /\ adjacency[f] \in Seq(Nodes)
         /\ \A j \in 1..Len(adjacency[f]) : Imports(adjacency, f, adjacency[f][j])
<1>1. adjacency[f] \in Seq(Nodes)
  BY DEF SearchTypes
<1>2. DOMAIN adjacency[f] = 1..Len(adjacency[f])
  BY <1>1, LenProperties
<1>3. QED
  BY <1>1, <1>2 DEF Imports, Nodes

\* What the innermost file looks at is one of its imports, and what is left to
\* look at are others.
LEMMA LookingAt ==
  ASSUME SearchSafe, Looking
  PROVE  /\ Len(path) \in Nat \ {0} /\ Import \in Nodes
         /\ Imports(adjacency, path[Len(path)], Import)
         /\ Looked \in Seq(Seq(Nodes)) /\ Len(Looked) = Len(path)
         /\ \A k \in 1..Len(path) : \A j \in 1..Len(Looked[k]) : Imports(adjacency, path[k], Looked[k][j])
<1> DEFINE n == Len(path)
           F == frames[n]
<1>1. n \in Nat \ {0} /\ frames \in Seq(Seq(Nodes)) /\ Len(frames) = n
  BY EmptySeq, LenProperties DEF SearchSafe, SearchTypes, Looking
<1>2. F \in Seq(Nodes) /\ F # <<>>
  BY <1>1, ElementOfSeq DEF Looking, Last
<1>3. /\ Head(F) \in Nodes /\ Tail(F) \in Seq(Nodes) /\ Len(Tail(F)) = Len(F) - 1
      /\ \A i \in 1..Len(Tail(F)) : Tail(F)[i] = F[i + 1]
  BY <1>2, HeadTailProperties
<1>4. Head(F) = F[1] /\ Len(F) \in Nat \ {0} /\ Import = F[1]
  BY <1>1, <1>2, EmptySeq, LenProperties DEF Import, Last
<1>5. \A j \in 1..Len(F) : Imports(adjacency, path[n], F[j])
  BY <1>1 DEF SearchSafe, FrameInv
<1>6. Looked = [frames EXCEPT ![n] = Tail(F)]
  BY <1>1 DEF Looked
<1>7. /\ Looked \in Seq(Seq(Nodes)) /\ Len(Looked) = n /\ Looked[n] = Tail(F)
      /\ \A k \in 1..n : k # n => Looked[k] = frames[k]
  BY <1>1, <1>3, <1>6, ExceptSeq
<1>8. ASSUME NEW k \in 1..n, NEW j \in 1..Len(Looked[k])
      PROVE  Imports(adjacency, path[k], Looked[k][j])
  <2>1. CASE k = n
    <3>1. Looked[k] = Tail(F) /\ path[k] = path[n]
      BY <1>7, <2>1
    <3>2. j \in 1..(Len(F) - 1)
      BY <1>3, <3>1
    <3>3. Looked[k][j] = F[j + 1] /\ j + 1 \in 1..Len(F)
      BY <1>3, <1>4, <3>1, <3>2
    <3>4. QED
      BY <1>5, <3>1, <3>3
  <2>2. CASE k # n
    BY <1>7, <2>2 DEF SearchSafe, FrameInv
  <2>3. QED
    BY <2>1, <2>2
<1>9. QED
  BY <1>1, <1>3, <1>4, <1>5, <1>7, <1>8

\* Each step of the search keeps it: a start,
LEMMA StartKeeps == ASSUME SearchSafe, StartFrom PROVE SearchSafe'
<1> DEFINE f == Head(starts)
<1>1. f \in Nodes /\ Tail(starts) \in Seq(Nodes)
  BY HeadTailProperties DEF SearchSafe, SearchTypes, StartFrom
<1>2. UNCHANGED <<adjacency, chains>> /\ starts' = Tail(starts) /\ path = <<>>
  BY DEF StartFrom
<1>3. ChainsAreCycles' /\ Nodes' = Nodes
  BY <1>2 DEF SearchSafe, ChainsAreCycles, IsChain, Nodes
<1>4. CASE color[f] = "white"
  <2>1. /\ color' = [color EXCEPT ![f] = "gray"] /\ path' = <<f>> /\ frames' = <<adjacency[f]>>
    BY <1>4 DEF StartFrom
  <2>2. adjacency[f] \in Seq(Nodes)
        /\ \A j \in 1..Len(adjacency[f]) : Imports(adjacency, f, adjacency[f][j])
    BY <1>1, FirstFrame DEF SearchSafe
  <2> HIDE DEF f
  <2>3. SearchTypes'
    BY <1>1, <1>2, <1>3, <2>1, <2>2 DEF SearchSafe, SearchTypes
  <2>4. PathInv'
    <3>1. \A g \in Nodes : color[g] # "gray"
      BY <1>2, EmptySeq DEF SearchSafe, PathInv
    <3>2. \A g \in Nodes : color'[g] = "gray" <=> g = f
      BY <1>1, <2>1, <3>1 DEF SearchSafe, SearchTypes
    <3>3. QED
      BY <1>3, <2>1, <3>2 DEF PathInv
  <2>5. FrameInv'
    BY <1>2, <2>1, <2>2 DEF FrameInv
  <2>6. QED
    BY <1>3, <2>3, <2>4, <2>5 DEF SearchSafe
<1>5. CASE color[f] # "white"
  <2>1. UNCHANGED <<color, path, frames>>
    BY <1>5 DEF StartFrom
  <2> HIDE DEF f
  <2>2. QED
    BY <1>1, <1>2, <1>3, <2>1 DEF SearchSafe, SearchTypes, PathInv, FrameInv
<1>6. QED
  BY <1>4, <1>5

\* a descent into an import,
LEMMA DescendKeeps == ASSUME SearchSafe, Descend PROVE SearchSafe'
<1> DEFINE n == Len(path)
           g == Import
           L == Looked
<1>1. /\ n \in Nat \ {0} /\ g \in Nodes /\ Imports(adjacency, path[n], g)
      /\ L \in Seq(Seq(Nodes)) /\ Len(L) = n
      /\ \A k \in 1..n : \A j \in 1..Len(L[k]) : Imports(adjacency, path[k], L[k][j])
  BY LookingAt DEF Descend
<1>2. /\ color[g] = "white" /\ color' = [color EXCEPT ![g] = "gray"] /\ path' = Append(path, g)
      /\ frames' = Append(L, adjacency[g]) /\ UNCHANGED <<adjacency, starts, chains>>
  BY DEF Descend
<1>3. ChainsAreCycles' /\ Nodes' = Nodes
  BY <1>2 DEF SearchSafe, ChainsAreCycles, IsChain, Nodes
<1>4. /\ adjacency[g] \in Seq(Nodes)
      /\ \A j \in 1..Len(adjacency[g]) : Imports(adjacency, g, adjacency[g][j])
  BY <1>1, FirstFrame DEF SearchSafe
<1> HIDE DEF g, L
<1>5. /\ path \in Seq(Nodes) /\ path' \in Seq(Nodes) /\ Len(path') = n + 1 /\ path'[n + 1] = g
      /\ \A k \in 1..n : path'[k] = path[k]
  BY <1>1, <1>2, AppendProperties DEF SearchSafe, SearchTypes
<1>6. /\ frames' \in Seq(Seq(Nodes)) /\ Len(frames') = n + 1 /\ frames'[n + 1] = adjacency[g]
      /\ \A k \in 1..n : frames'[k] = L[k]
  BY <1>1, <1>2, <1>4, AppendProperties
<1> HIDE DEF n
<1>7. SearchTypes'
  BY <1>1, <1>2, <1>3, <1>5, <1>6 DEF SearchSafe, SearchTypes
<1>8. PathInv'
  <2>1. \A k \in 1..n : path[k] # g
    BY <1>1, <1>2 DEF SearchSafe, PathInv, n
  <2>2. \A j, k \in 1..(n + 1) : path'[j] = path'[k] => j = k
    <3>1. \A j, k \in 1..n : path[j] = path[k] => j = k
      BY DEF SearchSafe, PathInv, n
    <3>2. ASSUME NEW j \in 1..(n + 1), NEW k \in 1..(n + 1), path'[j] = path'[k] PROVE j = k
      <4>1. CASE j = n + 1 /\ k = n + 1
        BY <4>1
      <4>2. CASE j = n + 1 /\ k \in 1..n
        BY <1>5, <2>1, <3>2, <4>2
      <4>3. CASE j \in 1..n /\ k = n + 1
        BY <1>5, <2>1, <3>2, <4>3
      <4>4. CASE j \in 1..n /\ k \in 1..n
        BY <1>5, <3>1, <3>2, <4>4
      <4>5. QED
        BY <1>1, <4>1, <4>2, <4>3, <4>4
    <3>3. QED
      BY <3>2
  <2>3. \A k \in 1..n : Imports(adjacency, path'[k], path'[k + 1])
    <3>1. \A k \in 1..(n - 1) : Imports(adjacency, path[k], path[k + 1])
      BY DEF SearchSafe, PathInv, n
    <3>2. ASSUME NEW k \in 1..n PROVE Imports(adjacency, path'[k], path'[k + 1])
      <4>1. CASE k = n
        BY <1>1, <1>5, <4>1
      <4>2. CASE k \in 1..(n - 1)
        <5>1. path'[k] = path[k] /\ path'[k + 1] = path[k + 1]
          BY <1>1, <1>5, <4>2
        <5>2. QED
          BY <3>1, <4>2, <5>1
      <4>3. QED
        BY <1>1, <4>1, <4>2
    <3>3. QED
      BY <3>2
  <2>4. \A f \in Nodes : color'[f] = "gray" <=> \E k \in 1..(n + 1) : path'[k] = f
    <3>1. \A f \in Nodes : color[f] = "gray" <=> \E k \in 1..n : path[k] = f
      BY DEF SearchSafe, PathInv, n
    <3>2. \A f \in Nodes : color'[f] = "gray" <=> color[f] = "gray" \/ f = g
      BY <1>1, <1>2 DEF SearchSafe, SearchTypes
    <3>3. ASSUME NEW f \in Nodes PROVE color'[f] = "gray" <=> \E k \in 1..(n + 1) : path'[k] = f
      <4>1. CASE f = g
        BY <1>1, <1>5, <3>2, <4>1
      <4>2. CASE f # g
        <5>1. ASSUME NEW k \in 1..(n + 1), path'[k] = f PROVE k \in 1..n /\ path[k] = f
          <6>1. k \in 1..n \/ k = n + 1
            BY <1>1
          <6>2. k # n + 1
            BY <1>5, <4>2, <5>1
          <6>3. QED
            BY <1>5, <5>1, <6>1, <6>2
        <5>2. ASSUME NEW k \in 1..n, path[k] = f PROVE k \in 1..(n + 1) /\ path'[k] = f
          BY <1>1, <1>5, <5>2
        <5>3. QED
          BY <3>1, <3>2, <4>2, <5>1, <5>2
      <4>3. QED
        BY <4>1, <4>2
    <3>4. QED
      BY <3>3
  <2>5. (n + 1) - 1 = n /\ adjacency' = adjacency
    BY <1>1, <1>2
  <2>6. QED
    BY <1>3, <1>5, <2>2, <2>3, <2>4, <2>5 DEF PathInv
<1>9. FrameInv'
  BY <1>1, <1>2, <1>4, <1>5, <1>6 DEF FrameInv
<1>10. QED
  BY <1>3, <1>7, <1>8, <1>9 DEF SearchSafe

\* The chain from a gray file along the path and back to it.
LEMMA ChainCloses ==
  ASSUME SearchSafe, Looking, color[Import] = "gray"
  PROVE  LET k == SelectInSeq(path, LAMBDA f : f = Import)
         IN  IsChain(Append(SubSeq(path, k, Len(path)), Import))
<1> DEFINE n == Len(path)
           g == Import
           I == {i \in 1..n : path[i] = g}
<1>1. n \in Nat \ {0} /\ g \in Nodes /\ Imports(adjacency, path[n], g) /\ path \in Seq(Nodes)
  BY LookingAt DEF SearchSafe, SearchTypes
<1>2. PICK k \in 1..n : path[k] = g
  BY <1>1 DEF SearchSafe, PathInv
<1>3. I = {k}
  BY <1>2 DEF SearchSafe, PathInv
<1>4. SelectInSeq(path, LAMBDA f : f = Import) = k
  <2>1. SelectInSeq(path, LAMBDA f : f = Import) = IF I # {} THEN Min(I) ELSE 0
    BY DEF SelectInSeq
  <2>2. Min({k}) = k
    BY DEF Min
  <2>3. QED
    BY <1>3, <2>1, <2>2
<1> DEFINE s == SubSeq(path, k, n)
           m == n - k + 1
           c == Append(s, g)
<1>5. m \in Nat \ {0} /\ s \in Seq(Nodes) /\ Len(s) = m /\ \A i \in 1..m : s[i] = path[k + i - 1]
  <2>1. \A i \in k..n : path[i] \in Nodes
    BY <1>1, <1>2, ElementOfSeq
  <2>2. k \in Int /\ n \in Int /\ k <= n
    BY <1>1, <1>2
  <2>3. QED
    BY <2>1, <2>2, <1>2, SubSeqProperties
<1>6. /\ Len(c) = m + 1 /\ c[m + 1] = g /\ \A i \in 1..m : c[i] = path[k + i - 1]
  BY <1>1, <1>5, AppendProperties
<1> HIDE DEF s, m, c, g
<1>7. c[1] = c[Len(c)] /\ Len(c) > 1
  BY <1>2, <1>5, <1>6
<1>8. ASSUME NEW i \in 1..m PROVE Imports(adjacency, c[i], c[i + 1])
  <2>1. CASE i = m
    <3>1. c[i] = path[n] /\ c[i + 1] = g
      BY <1>1, <1>2, <1>6, <2>1 DEF m
    <3>2. QED
      BY <1>1, <3>1
  <2>2. CASE i # m
    <3>0. k \in Nat /\ n \in Nat /\ 1 <= k /\ k <= n /\ m = n - k + 1
      BY <1>1, <1>2 DEF m
    <3> HIDE DEF n
    <3>1. i \in 1..m /\ i + 1 \in 1..m /\ k + i - 1 \in 1..(n - 1)
      BY <3>0, <2>2
    <3>2. Imports(adjacency, path[k + i - 1], path[(k + i - 1) + 1])
      BY <3>1 DEF SearchSafe, PathInv, n
    <3>3. c[i] = path[k + i - 1] /\ c[i + 1] = path[k + (i + 1) - 1]
      BY <1>6, <3>1
    <3>4. k + (i + 1) - 1 = (k + i - 1) + 1
      BY <1>2, <3>1
    <3>5. QED
      BY <3>2, <3>3, <3>4
  <2>3. QED
    BY <2>1, <2>2
<1>9. ASSUME NEW i \in 1..m, NEW j \in 1..m, c[i] = c[j] PROVE i = j
  <2>1. k + i - 1 \in 1..n /\ k + j - 1 \in 1..n /\ path[k + i - 1] = path[k + j - 1]
    <3>1. c[i] = path[k + i - 1] /\ c[j] = path[k + j - 1]
      BY <1>6
    <3>2. k + i - 1 \in 1..n /\ k + j - 1 \in 1..n
      BY <1>1, <1>2 DEF m
    <3>3. QED
      BY <3>1, <3>2, <1>9
  <2>5. PathInv
    BY DEF SearchSafe
  <2>2. \A a, b \in 1..n : path[a] = path[b] => a = b
    BY <2>5 DEF PathInv
  <2>4. k + i - 1 = k + j - 1
    BY <2>1, <2>2
  <2>3. QED
    BY <1>2, <2>4, <1>5
<1>10. IsChain(c)
  <2>1. Len(c) - 1 = m
    BY <1>5, <1>6
  <2>2. QED
    BY <1>7, <1>8, <1>9, <2>1 DEF IsChain
<1>11. QED
  BY <1>4, <1>10 DEF c, s, g

\* a look at an import that is not entered,
LEMMA LookKeeps ==
  ASSUME SearchSafe, Looking, frames' = Looked, UNCHANGED <<adjacency, starts, color, path>>,
         ChainsAreCycles'
  PROVE  SearchSafe'
<1> DEFINE L == Looked
<1>1. /\ L \in Seq(Seq(Nodes)) /\ Len(L) = Len(path)
      /\ \A k \in 1..Len(path) : \A j \in 1..Len(L[k]) : Imports(adjacency, path[k], L[k][j])
  BY LookingAt
<1>2. frames' = L
  OBVIOUS
<1> HIDE DEF L
<1>3. QED
  BY <1>1, <1>2 DEF SearchSafe, SearchTypes, PathInv, FrameInv, Nodes

\* which closes a chain,
LEMMA CloseKeeps == ASSUME SearchSafe, CloseChain PROVE SearchSafe'
<1> DEFINE k == SelectInSeq(path, LAMBDA f : f = Import)
           c == Append(SubSeq(path, k, Len(path)), Import)
<1>1. IsChain(c)
  BY ChainCloses DEF CloseChain
<1>2. UNCHANGED <<adjacency, starts, color, path>> /\ frames' = Looked /\ Looking
  BY DEF CloseChain
<1>3. chains' = chains \/ chains' = chains \cup {c}
  BY DEF CloseChain
<1> HIDE DEF c
<1>4. ChainsAreCycles'
  BY <1>1, <1>2, <1>3 DEF SearchSafe, ChainsAreCycles, IsChain
<1>5. QED
  BY <1>2, <1>4, LookKeeps

\* or is finished,
LEMMA IgnoreKeeps == ASSUME SearchSafe, Ignore PROVE SearchSafe'
  BY LookKeeps DEF Ignore, SearchSafe, ChainsAreCycles, IsChain

\* and the end of a file.
LEMMA LeaveKeeps == ASSUME SearchSafe, Leave PROVE SearchSafe'
<1> DEFINE n == Len(path)
<1>1. /\ n \in Nat \ {0} /\ path \in Seq(Nodes) /\ frames \in Seq(Seq(Nodes)) /\ Len(frames) = n
      /\ path[n] \in Nodes
  BY EmptySeq, LenProperties, ElementOfSeq DEF SearchSafe, SearchTypes, Leave
<1>2. /\ color' = [color EXCEPT ![path[n]] = "black"]
      /\ path' = SubSeq(path, 1, n - 1) /\ frames' = SubSeq(frames, 1, n - 1)
      /\ UNCHANGED <<adjacency, starts, chains>>
  BY <1>1 DEF Leave, Last, Front
<1>3. ChainsAreCycles' /\ Nodes' = Nodes
  BY <1>2 DEF SearchSafe, ChainsAreCycles, IsChain, Nodes
<1>4. /\ path' \in Seq(Nodes) /\ Len(path') = n - 1 /\ \A k \in 1..(n - 1) : path'[k] = path[k]
  <2>1. \A i \in 1..(n - 1) : path[i] \in Nodes
    BY <1>1, ElementOfSeq
  <2>2. QED
    BY <1>1, <1>2, <2>1, SubSeqProperties
<1>5. /\ frames' \in Seq(Seq(Nodes)) /\ Len(frames') = n - 1
      /\ \A k \in 1..(n - 1) : frames'[k] = frames[k]
  <2>1. \A i \in 1..(n - 1) : frames[i] \in Seq(Nodes)
    BY <1>1, ElementOfSeq
  <2>2. QED
    BY <1>1, <1>2, <2>1, SubSeqProperties
<1>6. SearchTypes'
  BY <1>1, <1>2, <1>3, <1>4, <1>5 DEF SearchSafe, SearchTypes
<1>7. PathInv'
  <2>1. /\ \A j, k \in 1..n : path[j] = path[k] => j = k
        /\ \A k \in 1..(n - 1) : Imports(adjacency, path[k], path[k + 1])
        /\ \A f \in Nodes : color[f] = "gray" <=> \E k \in 1..n : path[k] = f
    BY DEF SearchSafe, PathInv
  <2>2. \A f \in Nodes : color'[f] = "gray" <=> color[f] = "gray" /\ f # path[n]
    BY <1>1, <1>2 DEF SearchSafe, SearchTypes
  <2> HIDE DEF n
  <2>3. ASSUME NEW f \in Nodes PROVE color'[f] = "gray" <=> \E k \in 1..(n - 1) : path'[k] = f
    <3>1. ASSUME color'[f] = "gray" PROVE \E k \in 1..(n - 1) : path'[k] = f
      <4>1. PICK k \in 1..n : path[k] = f
        BY <2>1, <2>2, <3>1
      <4>2. k \in 1..(n - 1)
        BY <1>1, <2>2, <3>1, <4>1
      <4>3. QED
        BY <1>4, <4>1, <4>2
    <3>2. ASSUME NEW k \in 1..(n - 1), path'[k] = f PROVE color'[f] = "gray"
      <4>1. k \in 1..n /\ n \in 1..n /\ k # n /\ path[k] = f
        BY <1>1, <1>4, <3>2
      <4>2. f # path[n]
        BY <2>1, <4>1
      <4>3. QED
        BY <2>1, <2>2, <4>1, <4>2
    <3>3. color'[f] = "gray" => \E k \in 1..(n - 1) : path'[k] = f
      BY <3>1
    <3>4. QED
      BY <3>2, <3>3
  <2>4. \A j, k \in 1..(n - 1) : path'[j] = path'[k] => j = k
    BY <1>1, <1>4, <2>1
  <2>5. ASSUME NEW k \in 1..(n - 2) PROVE Imports(adjacency, path'[k], path'[k + 1])
    <3>1. k \in 1..(n - 1) /\ k + 1 \in 1..(n - 1)
      BY <1>1
    <3>2. path'[k] = path[k] /\ path'[k + 1] = path[k + 1]
      BY <1>4, <3>1
    <3>3. QED
      BY <2>1, <3>1, <3>2
  <2>6. Len(path') = n - 1 /\ (n - 1) - 1 = n - 2
    BY <1>1, <1>4
  <2>7. QED
    BY <1>2, <1>3, <2>3, <2>4, <2>5, <2>6 DEF PathInv
<1>8. FrameInv'
  <2>1. /\ \A k \in 1..n : \A j \in 1..Len(frames[k]) : Imports(adjacency, path[k], frames[k][j])
        /\ adjacency' = adjacency
    BY <1>2 DEF SearchSafe, FrameInv
  <2> HIDE DEF n
  <2>2. \A k \in 1..(n - 1) : k \in 1..n /\ path'[k] = path[k] /\ frames'[k] = frames[k]
    BY <1>1, <1>4, <1>5
  <2>3. QED
    BY <1>4, <2>1, <2>2 DEF FrameInv
<1>9. QED
  BY <1>3, <1>6, <1>7, <1>8 DEF SearchSafe

\* It holds at the start.
LEMMA StartHolds == ASSUME NEW D \in SUBSET Files, Started(D) PROVE SearchSafe
<1>1. Nodes = D /\ Len(path) = 0 /\ Len(frames) = 0
  BY EmptySeq DEF Started, Nodes
<1>2. SearchTypes
  BY <1>1, EmptySeq DEF Started, SearchTypes
<1>3. PathInv /\ FrameInv
  BY <1>1 DEF Started, PathInv, FrameInv
<1>4. QED
  BY <1>2, <1>3 DEF Started, SearchSafe, ChainsAreCycles

-----------------------------------------------------------------------------
(* That the search is complete: an import of a file on the path is black,  *)
(* still to look at, or next on the path, and the files that are left are  *)
(* ranked by the order in which they were.                                 *)

\* A file is in a reported chain.
InChain(f) == \E c \in chains : f \in ToSet(c)

\* An import of the k-th file of the path is finished, is still to look at, or is
\* the next file of the path.
Met(k, g) ==
  \/ color[g] = "black"
  \/ \E j \in 1..Len(frames[k]) : frames[k][j] = g
  \/ k < Len(path) /\ path[k + 1] = g

\* An import of the path is met, unless its file is in a chain.
Visited ==
  \A k \in 1..Len(path) : \A g \in Nodes :
    Imports(adjacency, path[k], g) => InChain(path[k]) \/ Met(k, g)

\* rank is the order in which files are left: a file that is in no chain imports
\* only files left before it.
Ranked(rank, N) ==
  /\ \A f \in Nodes : color[f] = "black" => rank[f] < N
  /\ \A f, g \in Nodes : color[f] = "black" /\ Imports(adjacency, f, g) =>
       InChain(f) \/ (color[g] = "black" /\ rank[g] < rank[f])

\* What no search has reached is still to start from.
Covered == \A f \in Nodes : color[f] = "white" => \E k \in 1..Len(starts) : starts[k] = f

\* No chain is reported twice.
NoRepeats == \A c, d \in chains : ToSet(c) = ToSet(d) => c = d

\* The invariant of the search that its completeness needs.
SearchInv ==
  /\ SearchSafe /\ chains \subseteq Seq(Nodes)
  /\ Visited /\ Covered /\ NoRepeats
  /\ \E N \in Nat, rank \in [Nodes -> Nat] : Ranked(rank, N)

\* A look takes one import away, and no other.
LEMMA LookedLeaves ==
  ASSUME SearchSafe, Looking, NEW k \in 1..Len(path), NEW j \in 1..Len(frames[k])
  PROVE  \/ k = Len(path) /\ frames[k][j] = Import
         \/ \E i \in 1..Len(Looked[k]) : Looked[k][i] = frames[k][j]
<1> DEFINE n == Len(path)
           F == frames[n]
<1>1. n \in Nat \ {0} /\ frames \in Seq(Seq(Nodes)) /\ Len(frames) = n
  BY EmptySeq, LenProperties DEF SearchSafe, SearchTypes, Looking
<1>2. F \in Seq(Nodes) /\ F # <<>>
  BY <1>1, ElementOfSeq DEF Looking, Last
<1>3. /\ Tail(F) \in Seq(Nodes) /\ Len(Tail(F)) = Len(F) - 1
      /\ \A i \in 1..Len(Tail(F)) : Tail(F)[i] = F[i + 1]
  BY <1>2, HeadTailProperties
<1>4. Len(F) \in Nat \ {0} /\ Import = F[1]
  BY <1>1, <1>2, EmptySeq, LenProperties DEF Import, Last
<1>5. Looked = [frames EXCEPT ![n] = Tail(F)]
  BY <1>1 DEF Looked
<1>6. Looked[n] = Tail(F) /\ \A i \in 1..n : i # n => Looked[i] = frames[i]
  BY <1>1, <1>3, <1>5, ExceptSeq
<1>7. CASE k = n /\ j # 1
  <2>1. j - 1 \in 1..Len(Tail(F)) /\ Tail(F)[j - 1] = F[(j - 1) + 1]
    BY <1>3, <1>4, <1>7
  <2>2. (j - 1) + 1 = j
    BY <1>4, <1>7
  <2>3. QED
    BY <1>6, <1>7, <2>1, <2>2
<1>8. CASE k = n /\ j = 1
  BY <1>4, <1>8
<1>9. CASE k # n
  BY <1>6, <1>9
<1>10. QED
  BY <1>7, <1>8, <1>9

\* What was met stays met, and the import that is looked at is met.
LEMMA VisitedLook ==
  ASSUME SearchSafe, Visited, Looking,
         NEW n, n = Len(path), NEW i, i = Import, InChain(path[n])' \/ Met(n, i)',
         \A k \in 1..Len(path) : path'[k] = path[k] /\ frames'[k] = Looked[k],
         \A f \in Nodes : color[f] = "black" => color'[f] = "black",
         Len(path) <= Len(path'), Len(path') \in Nat,
         chains \subseteq chains', adjacency' = adjacency
  PROVE  \A k \in 1..Len(path) : \A g \in Nodes :
           Imports(adjacency, path[k], g) => InChain(path[k])' \/ Met(k, g)'
<1> SUFFICES ASSUME NEW k \in 1..Len(path), NEW g \in Nodes, Imports(adjacency, path[k], g)
             PROVE  InChain(path[k])' \/ Met(k, g)'
  OBVIOUS
<1>0. Len(path) \in Nat
  BY LenProperties DEF SearchSafe, SearchTypes
<1>1. path'[k] = path[k]
  OBVIOUS
<1>2. CASE InChain(path[k])
  BY <1>1, <1>2 DEF InChain
<1>3. CASE color[g] = "black"
  BY <1>3 DEF Met
<1>4. CASE \E j \in 1..Len(frames[k]) : frames[k][j] = g
  <2>1. CASE k = Len(path) /\ g = Import
    BY <2>1
  <2>2. CASE \E j \in 1..Len(Looked[k]) : Looked[k][j] = g
    BY <2>2 DEF Met
  <2>3. QED
    BY <1>4, <2>1, <2>2, LookedLeaves
<1>5. CASE k < Len(path) /\ path[k + 1] = g
  <2>1. k + 1 \in 1..Len(path) /\ k < Len(path')
    BY <1>0, <1>5
  <2>2. path'[k + 1] = g
    BY <1>5, <2>1
  <2>3. QED
    BY <2>1, <2>2 DEF Met
<1>6. QED
  BY <1>2, <1>3, <1>4, <1>5 DEF Visited, Met

\* A step that leaves no file keeps the ranks.
LEMMA RankKept ==
  ASSUME NEW N \in Nat, NEW rank \in [Nodes -> Nat], Ranked(rank, N),
         chains \subseteq chains', adjacency' = adjacency,
         \A f \in Nodes : color[f] = "black" <=> color'[f] = "black"
  PROVE  Ranked(rank, N)'
  BY DEF Ranked, InChain, Nodes

\* Each step of the search keeps it: a start finds an empty path,
LEMMA StartFinds == ASSUME SearchInv, StartFrom, SearchSafe' PROVE SearchInv'
<1> DEFINE f == Head(starts)
<1>1. /\ f \in Nodes /\ Tail(starts) \in Seq(Nodes) /\ Len(Tail(starts)) = Len(starts) - 1
      /\ \A i \in 1..Len(Tail(starts)) : Tail(starts)[i] = starts[i + 1]
      /\ f = starts[1] /\ Len(starts) \in Nat \ {0}
  BY HeadTailProperties, EmptySeq DEF SearchInv, SearchSafe, SearchTypes, StartFrom
<1>2. UNCHANGED <<adjacency, chains>> /\ starts' = Tail(starts) /\ path = <<>> /\ Nodes' = Nodes
  BY DEF StartFrom, Nodes
<1>3. color \in [Nodes -> {"white", "gray", "black"}]
  BY DEF SearchInv, SearchSafe, SearchTypes
<1>4. color' = IF color[f] = "white" THEN [color EXCEPT ![f] = "gray"] ELSE color
  BY DEF StartFrom
<1> HIDE DEF f
<1>5. Covered'
  <2> SUFFICES ASSUME NEW g \in Nodes, color'[g] = "white"
               PROVE  \E k \in 1..Len(starts') : starts'[k] = g
    BY <1>2 DEF Covered
  <2>1. color[g] = "white" /\ g # f
    BY <1>1, <1>3, <1>4
  <2>2. PICK k \in 1..Len(starts) : starts[k] = g
    BY <2>1 DEF SearchInv, Covered
  <2>3. k - 1 \in 1..Len(starts') /\ (k - 1) + 1 = k
    BY <1>1, <1>2, <2>1, <2>2
  <2>4. QED
    BY <1>1, <1>2, <2>2, <2>3
<1>6. Visited'
  <2>1. CASE color[f] = "white"
    <3>1. path' = <<f>> /\ frames' = <<adjacency[f]>> /\ adjacency[f] \in Seq(Nodes)
      BY <1>1, <2>1 DEF StartFrom, SearchInv, SearchSafe, SearchTypes, f
    <3>2. DOMAIN adjacency[f] = 1..Len(adjacency[f])
      BY <3>1, LenProperties
    <3>3. QED
      BY <1>2, <3>1, <3>2 DEF Visited, Met, Imports
  <2>2. CASE color[f] # "white"
    <3>1. path' = <<>>
      BY <1>2, <2>2 DEF StartFrom, f
    <3>2. QED
      BY <3>1, EmptySeq DEF Visited
  <2>3. QED
    BY <2>1, <2>2
<1>7. NoRepeats'
  BY <1>2 DEF SearchInv, NoRepeats
<1>8. \E N \in Nat, rank \in [Nodes -> Nat] : Ranked(rank, N)'
  <2>1. \A g \in Nodes : color[g] = "black" <=> color'[g] = "black"
    BY <1>1, <1>3, <1>4
  <2>2. PICK N \in Nat, rank \in [Nodes -> Nat] : Ranked(rank, N)
    BY DEF SearchInv
  <2>3. Ranked(rank, N)'
    BY <1>2, <2>1, <2>2, RankKept
  <2>4. QED
    BY <2>3
<1>9. QED
  BY <1>2, <1>5, <1>6, <1>7, <1>8 DEF SearchInv

\* a descent puts the import next on the path,
LEMMA DescendFinds == ASSUME SearchInv, Descend, SearchSafe' PROVE SearchInv'
<1>0. SearchSafe /\ Looking /\ Import \in Nodes /\ Len(path) \in Nat \ {0} /\ path \in Seq(Nodes)
  BY LookingAt DEF SearchInv, Descend, SearchSafe, SearchTypes
<1>1. PICK g \in Nodes, n \in Nat \ {0} : g = Import /\ n = Len(path)
  BY <1>0
<1>2. UNCHANGED <<adjacency, chains, starts>> /\ color' = [color EXCEPT ![g] = "gray"]
      /\ color[g] = "white" /\ Nodes' = Nodes /\ path' = Append(path, g)
      /\ frames' = Append(Looked, adjacency[g])
  BY <1>1 DEF Descend, Nodes
<1>3. color \in [Nodes -> {"white", "gray", "black"}] /\ adjacency[g] \in Seq(Nodes)
  BY <1>0 DEF SearchSafe, SearchTypes
<1>4. \A h \in Nodes : (color[h] = "black" <=> color'[h] = "black") /\ (color'[h] = "white" => color[h] = "white")
  BY <1>1, <1>2, <1>3
<1>5. /\ Len(path') = n + 1 /\ path'[n + 1] = g /\ frames'[n + 1] = adjacency[g]
      /\ \A k \in 1..n : path'[k] = path[k] /\ frames'[k] = Looked[k]
  <2>1. Looked \in Seq(Seq(Nodes)) /\ Len(Looked) = n
    BY <1>0, <1>1, LookingAt
  <2>2. QED
    BY <1>0, <1>1, <1>2, <1>3, <2>1, AppendProperties
<1>6. Visited'
  <2>1. Met(n, g)'
    BY <1>1, <1>5 DEF Met
  <2>2. \A k \in 1..n : \A h \in Nodes : Imports(adjacency, path[k], h) => InChain(path[k])' \/ Met(k, h)'
    <3>1. n <= Len(path') /\ Len(path') \in Nat
      BY <1>1, <1>5
    <3>2. QED
      BY <1>0, <1>1, <1>2, <1>4, <1>5, <2>1, <3>1, VisitedLook DEF SearchInv
  <2>3. DOMAIN adjacency[g] = 1..Len(adjacency[g])
    BY <1>3, LenProperties
  <2>4. \A h \in Nodes : Imports(adjacency, g, h) => Met(n + 1, h)'
    BY <1>5, <2>3 DEF Met, Imports
  <2> SUFFICES ASSUME NEW k \in 1..(n + 1), NEW h \in Nodes, Imports(adjacency, path'[k], h)
               PROVE  InChain(path[k])' \/ Met(k, h)'
    BY <1>2, <1>5 DEF Visited
  <2>5. CASE k = n + 1
    BY <1>5, <2>4, <2>5
  <2>6. CASE k \in 1..n
    BY <1>5, <2>2, <2>6
  <2>7. QED
    BY <1>1, <2>5, <2>6
<1>7. Covered' /\ NoRepeats'
  BY <1>2, <1>4 DEF SearchInv, Covered, NoRepeats
<1>8. \E N \in Nat, rank \in [Nodes -> Nat] : Ranked(rank, N)'
  <2>2. PICK N \in Nat, rank \in [Nodes -> Nat] : Ranked(rank, N)
    BY DEF SearchInv
  <2>3. Ranked(rank, N)'
    BY <1>2, <1>4, <2>2, RankKept
  <2>4. QED
    BY <2>3
<1>9. QED
  BY <1>2, <1>6, <1>7, <1>8 DEF SearchInv

\* A step that only looks at an import that is finished, or of a file in a chain.
LEMMA LookFinds ==
  ASSUME SearchInv, Looking, frames' = Looked, UNCHANGED <<adjacency, starts, color, path>>,
         chains \subseteq chains', color[Import] = "black" \/ InChain(path[Len(path)])', NoRepeats', SearchSafe',
         chains' \subseteq Seq(Nodes)
  PROVE  SearchInv'
<1>0. SearchSafe /\ Import \in Nodes /\ Len(path) \in Nat \ {0}
  BY LookingAt DEF SearchInv
<1>1. PICK g \in Nodes, n \in Nat \ {0} : g = Import /\ n = Len(path)
  BY <1>0
<1>2. InChain(path[n])' \/ Met(n, g)'
  BY <1>1 DEF Met
<1>3. Nodes' = Nodes /\ Len(path') = n
  BY <1>1 DEF Nodes
<1>4. Visited'
  <2>1. \A k \in 1..n : \A h \in Nodes : Imports(adjacency, path[k], h) => InChain(path[k])' \/ Met(k, h)'
    BY <1>0, <1>1, <1>2, VisitedLook DEF SearchInv
  <2>2. QED
    BY <1>1, <1>3, <2>1 DEF Visited
<1>5. Covered'
  BY <1>3 DEF SearchInv, Covered
<1>6. \E N \in Nat, rank \in [Nodes -> Nat] : Ranked(rank, N)'
  <2>1. PICK N \in Nat, rank \in [Nodes -> Nat] : Ranked(rank, N)
    BY DEF SearchInv
  <2>2. Ranked(rank, N)'
    BY <2>1, RankKept
  <2>3. QED
    BY <2>2
<1>7. QED
  BY <1>3, <1>4, <1>5, <1>6 DEF SearchInv

\* An import that is finished is black.
LEMMA IgnoreFinds == ASSUME SearchInv, Ignore, SearchSafe' PROVE SearchInv'
  BY LookFinds DEF Ignore, SearchInv, NoRepeats

\* The file whose import closes a chain is in it, as is the file it leads back to.
LEMMA CloseFinds == ASSUME SearchInv, CloseChain, SearchSafe' PROVE SearchInv'
<1> DEFINE k == SelectInSeq(path, LAMBDA f : f = Import)
           s == SubSeq(path, k, Len(path))
           c == Append(s, Import)
           known == \E d \in chains : ToSet(d) = ToSet(c)
<1>0. SearchSafe /\ Looking /\ Import \in Nodes /\ Len(path) \in Nat \ {0} /\ path \in Seq(Nodes)
  BY LookingAt DEF SearchInv, CloseChain, SearchSafe, SearchTypes
<1>1. /\ chains' = (IF known THEN chains ELSE chains \cup {c}) /\ frames' = Looked
      /\ UNCHANGED <<adjacency, starts, color, path>> /\ color[Import] = "gray"
  BY DEF CloseChain
<1>2. k \in 1..Len(path)
  <2>1. PICK i \in 1..Len(path) : path[i] = Import
    BY <1>0, <1>1 DEF SearchSafe, PathInv
  <2> DEFINE I == {j \in 1..Len(path) : path[j] = Import}
  <2>2. I = {i}
    BY <2>1, <1>0 DEF SearchSafe, PathInv
  <2>3. k = IF I # {} THEN Min(I) ELSE 0
    BY DEF SelectInSeq
  <2>4. Min({i}) = i
    BY DEF Min
  <2>5. QED
    BY <2>2, <2>3, <2>4
<1>3. /\ c \in Seq(Nodes) /\ Len(c) = Len(path) - k + 2 /\ c[Len(path) - k + 1] = path[Len(path)]
  <2>1. \A i \in k..Len(path) : path[i] \in Nodes
    BY <1>0, <1>2, ElementOfSeq
  <2>2. k \in Int /\ Len(path) \in Int /\ k <= Len(path)
    BY <1>0, <1>2
  <2> HIDE DEF k
  <2>3. /\ s \in Seq(Nodes) /\ Len(s) = Len(path) - k + 1
        /\ \A i \in 1..(Len(path) - k + 1) : s[i] = path[k + i - 1]
    BY <2>1, <2>2, SubSeqProperties
  <2> HIDE DEF s
  <2>4. Len(path) - k + 1 \in 1..(Len(path) - k + 1) /\ k + (Len(path) - k + 1) - 1 = Len(path)
    BY <2>2
  <2>5. c \in Seq(Nodes) /\ Len(c) = Len(s) + 1 /\ \A i \in 1..Len(s) : c[i] = s[i]
    BY <1>0, <2>3, AppendProperties
  <2>6. QED
    BY <2>2, <2>3, <2>4, <2>5
<1>4. path[Len(path)] \in ToSet(c)
  <2>1. DOMAIN c = 1..Len(c) /\ Len(path) - k + 1 \in 1..Len(c)
    BY <1>0, <1>2, <1>3, LenProperties
  <2> HIDE DEF c
  <2>2. QED
    BY <1>3, <2>1 DEF ToSet
<1> HIDE DEF c, k
<1>5. \E d \in chains' : ToSet(d) = ToSet(c)
  BY <1>1
<1>6. InChain(path[Len(path)])' /\ chains' \subseteq Seq(Nodes)
  BY <1>1, <1>3, <1>4, <1>5 DEF SearchInv, InChain
<1>7. NoRepeats'
  BY <1>1 DEF SearchInv, NoRepeats
<1>8. chains \subseteq chains'
  BY <1>1
<1>9. QED
  BY <1>0, <1>1, <1>6, <1>7, <1>8, LookFinds

\* The file that is left comes after all that were left before.
LEMMA LeaveFinds == ASSUME SearchInv, Leave, SearchSafe' PROVE SearchInv'
<1>0. /\ Len(path) \in Nat \ {0} /\ path \in Seq(Nodes) /\ frames \in Seq(Seq(Nodes))
      /\ Len(frames) = Len(path) /\ color \in [Nodes -> {"white", "gray", "black"}]
  BY EmptySeq DEF SearchInv, SearchSafe, SearchTypes, Leave
<1>1. PICK n \in Nat \ {0}, x \in Nodes : n = Len(path) /\ x = path[n]
  BY <1>0, ElementOfSeq
<1>2. /\ color' = [color EXCEPT ![x] = "black"] /\ frames[n] = <<>>
      /\ path' = SubSeq(path, 1, n - 1) /\ frames' = SubSeq(frames, 1, n - 1)
      /\ UNCHANGED <<adjacency, starts, chains>> /\ Nodes' = Nodes
  BY <1>0, <1>1 DEF Leave, Last, Front, Nodes
<1>3. color[x] = "gray"
  BY <1>0, <1>1 DEF SearchInv, SearchSafe, PathInv
<1>4. /\ Len(path') = n - 1
      /\ \A k \in 1..(n - 1) : path'[k] = path[k] /\ frames'[k] = frames[k]
  <2>1. \A i \in 1..(n - 1) : path[i] \in Nodes /\ frames[i] \in Seq(Nodes)
    BY <1>0, <1>1, ElementOfSeq
  <2>2. Len(path') = n - 1 /\ \A k \in 1..(n - 1) : path'[k] = path[k]
    BY <1>0, <1>1, <1>2, <2>1, SubSeqProperties
  <2>3. \A k \in 1..(n - 1) : frames'[k] = frames[k]
    BY <1>0, <1>1, <1>2, <2>1, SubSeqProperties
  <2>4. QED
    BY <2>2, <2>3
<1>5. \A f \in Nodes : /\ (color'[f] = "black" <=> color[f] = "black" \/ f = x)
                       /\ (color'[f] = "white" <=> color[f] = "white")
  BY <1>0, <1>2, <1>3
<1>6. Visited'
  <2> SUFFICES ASSUME NEW k \in 1..(n - 1), NEW g \in Nodes, Imports(adjacency, path[k], g)
               PROVE  InChain(path[k])' \/ Met(k, g)'
    BY <1>2, <1>4 DEF Visited
  <2>1. k \in 1..n /\ path'[k] = path[k] /\ frames'[k] = frames[k] /\ k # n
    BY <1>4
  <2>2. CASE InChain(path[k])
    BY <1>2, <2>1, <2>2 DEF InChain
  <2>3. CASE color[g] = "black"
    BY <1>5, <2>3 DEF Met
  <2>4. CASE \E j \in 1..Len(frames[k]) : frames[k][j] = g
    BY <2>1, <2>4 DEF Met
  <2>5. CASE path[k + 1] = g /\ k + 1 = n
    BY <1>1, <1>5, <2>5 DEF Met
  <2>6. CASE path[k + 1] = g /\ k + 1 # n
    <3>1. k + 1 \in 1..(n - 1)
      BY <2>1, <2>6
    <3>2. path'[k + 1] = g /\ k < Len(path')
      BY <1>4, <2>6, <3>1
    <3>3. QED
      BY <3>2 DEF Met
  <2>7. QED
    BY <1>1, <2>1, <2>2, <2>3, <2>4, <2>5, <2>6 DEF SearchInv, Visited, Met
<1>7. Covered' /\ NoRepeats' /\ chains' \subseteq Seq(Nodes')
  BY <1>2, <1>5 DEF SearchInv, Covered, NoRepeats
<1>8. \A g \in Nodes : Imports(adjacency, x, g) => InChain(x) \/ color[g] = "black"
  BY <1>1, <1>2, EmptySeq DEF SearchInv, Visited, Met
<1>9. \E N \in Nat, rank \in [Nodes -> Nat] : Ranked(rank, N)'
  <2>1. PICK N \in Nat, rank \in [Nodes -> Nat] : Ranked(rank, N)
    BY DEF SearchInv
  <2> DEFINE later == [rank EXCEPT ![x] = N]
  <2>2. later \in [Nodes -> Nat] /\ later[x] = N /\ \A f \in Nodes : f # x => later[f] = rank[f]
    OBVIOUS
  <2> HIDE DEF later
  <2>3. \A f \in Nodes : color'[f] = "black" => later[f] < N + 1
    BY <1>5, <2>1, <2>2 DEF Ranked
  <2>4. ASSUME NEW f \in Nodes, NEW g \in Nodes, color'[f] = "black", Imports(adjacency, f, g), ~InChain(f)
        PROVE  color'[g] = "black" /\ later[g] < later[f]
    <3>1. CASE f = x
      <4>1. color[g] = "black" /\ g # x
        BY <1>3, <1>8, <2>4, <3>1
      <4>2. QED
        BY <1>5, <2>1, <2>2, <3>1, <4>1 DEF Ranked
    <3>2. CASE f # x
      <4>1. color[f] = "black"
        BY <1>5, <2>4, <3>2
      <4>2. color[g] = "black" /\ rank[g] < rank[f]
        BY <2>1, <2>4, <4>1 DEF Ranked
      <4>3. g # x
        BY <1>3, <4>2
      <4>4. QED
        BY <1>5, <2>2, <3>2, <4>2, <4>3
    <3>3. QED
      BY <3>1, <3>2
  <2>5. Ranked(later, N + 1)'
    BY <1>2, <2>3, <2>4 DEF Ranked, InChain
  <2>6. N + 1 \in Nat
    BY <2>1
  <2>7. QED
    BY <2>2, <2>5, <2>6
<1>10. QED
  BY <1>2, <1>6, <1>7, <1>9 DEF SearchInv

\* Leads is transitive, and has the imports.
LEMMA ImportLeads ==
  ASSUME NEW f \in Nodes, NEW g \in Nodes, Imports(adjacency, f, g)
  PROVE  Leads(f, g)
  BY DEF Leads, Nodes

\* What one file leads to another does.
LEMMA LeadsOn ==
  ASSUME NEW f \in Nodes, NEW g \in Nodes, NEW h \in Nodes, Leads(f, g), Leads(g, h)
  PROVE  Leads(f, h)
<1> SUFFICES ASSUME NEW S \in SUBSET Nodes,
                    \A a, b \in Nodes : (a = f \/ a \in S) /\ Imports(adjacency, a, b) => b \in S
             PROVE  h \in S
  BY DEF Leads, Nodes
<1>1. g \in S
  BY DEF Leads, Nodes
<1>2. \A a, b \in Nodes : (a = g \/ a \in S) /\ Imports(adjacency, a, b) => b \in S
  BY <1>1
<1>3. QED
  BY <1>2 DEF Leads, Nodes

\* Every file of a chain leads to every other, and to itself.
LEMMA ChainLeads ==
  ASSUME NEW c \in Seq(Nodes), IsChain(c), NEW i \in 1..Len(c), NEW j \in 1..Len(c)
  PROVE  Leads(c[i], c[j])
<1> DEFINE n == Len(c)
<1>1. n \in Nat /\ n > 1 /\ c[1] = c[n]
  BY LenProperties DEF IsChain
<1>2. \A k \in 1..n : c[k] \in Nodes
  BY ElementOfSeq
<1>3. \A k \in 1..(n - 1) : Imports(adjacency, c[k], c[k + 1])
  BY DEF IsChain
<1> SUFFICES ASSUME NEW S \in SUBSET Nodes,
                    \A a, b \in Nodes : (a = c[i] \/ a \in S) /\ Imports(adjacency, a, b) => b \in S
             PROVE  c[j] \in S
  BY DEF Leads, Nodes
<1> HIDE DEF n
<1> DEFINE T == {k \in Nat : k > n \/ c[k] \in S}
<1>4. ASSUME NEW k \in Nat, k >= 1, k \in T PROVE k + 1 \in T
  <2>1. CASE k < n
    <3>1. k \in 1..(n - 1) /\ k \in 1..n /\ k + 1 \in 1..n /\ c[k] \in S
      BY <1>1, <1>4, <2>1
    <3>2. c[k + 1] \in S
      BY <1>2, <1>3, <3>1
    <3>3. QED
      BY <3>2
  <2>2. CASE k >= n
    BY <1>1, <2>2
  <2>3. QED
    BY <1>1, <2>1, <2>2
<1>5. ASSUME NEW m \in 1..n, c[m] \in S PROVE \A k \in m..n : c[k] \in S
  <2>1. m \in Nat /\ m \in T
    BY <1>5
  <2>2. \A k \in Nat : k >= m /\ k \in T => k + 1 \in T
    BY <1>4
  <2> HIDE DEF T
  <2>3. \A k \in Nat : k >= m => k \in T
    BY <2>1, <2>2, Upward
  <2>4. QED
    BY <1>1, <2>3 DEF T
<1>6. \E m \in 1..n : c[m] \in S /\ (m = 1 \/ m = i + 1)
  <2>1. CASE i = n
    <3>1. 1 \in 1..(n - 1) /\ 2 \in 1..n
      BY <1>1
    <3>2. c[2] \in S
      BY <1>1, <1>2, <1>3, <2>1, <3>1
    <3>3. c[n] \in S
      <4>1. n \in 2..n
        BY <1>1
      <4>2. QED
        BY <1>5, <3>1, <3>2, <4>1
    <3>4. QED
      BY <1>1, <3>3
  <2>2. CASE i # n
    <3>1. i \in 1..(n - 1) /\ i + 1 \in 1..n /\ i \in 1..n
      BY <1>1, <2>2 DEF n
    <3>2. c[i + 1] \in S
      BY <1>2, <1>3, <3>1
    <3>3. QED
      BY <3>1, <3>2
  <2>3. QED
    BY <2>1, <2>2
<1>7. c[n] \in S
  BY <1>1, <1>5, <1>6
<1>8. c[1] \in S
  BY <1>1, <1>7
<1>9. QED
  BY <1>1, <1>5, <1>8 DEF n

\* When all files are left, one that leads back to itself is in the knot of a
\* chain: otherwise each file of its knot imports, in the knot, only files left
\* before it, and so it was left before itself.
LEMMA KnotHasChain ==
  ASSUME SearchInv, SearchOver, NEW f \in Nodes, Leads(f, f)
  PROVE  \E c \in chains : Leads(f, c[1]) /\ Leads(c[1], f)
<1>1. \A g \in Nodes : color[g] = "black"
  <2>1. Len(path) = 0 /\ Len(starts) = 0
    BY EmptySeq DEF SearchOver
  <2>2. \A g \in Nodes : color[g] # "gray" /\ color[g] # "white"
    BY <2>1 DEF SearchInv, SearchSafe, PathInv, Covered
  <2>3. QED
    BY <2>2 DEF SearchInv, SearchSafe, SearchTypes
<1>2. PICK N \in Nat, rank \in [Nodes -> Nat] : Ranked(rank, N)
  BY DEF SearchInv
<1>3. SUFFICES ASSUME \A c \in chains : ~(Leads(f, c[1]) /\ Leads(c[1], f)) PROVE FALSE
  OBVIOUS
<1>4. ASSUME NEW h \in Nodes, h = f \/ (Leads(f, h) /\ Leads(h, f)) PROVE ~InChain(h)
  <2>1. SUFFICES ASSUME NEW c \in chains, h \in ToSet(c) PROVE FALSE
    BY DEF InChain
  <2>2. c \in Seq(Nodes) /\ IsChain(c)
    BY DEF SearchInv, SearchSafe, ChainsAreCycles
  <2>3. DOMAIN c = 1..Len(c) /\ 1 \in 1..Len(c)
    BY <2>2, LenProperties DEF IsChain
  <2>4. PICK i \in 1..Len(c) : c[i] = h
    BY <2>1, <2>3 DEF ToSet
  <2>5. c[1] \in Nodes
    BY <2>2, <2>3, ElementOfSeq
  <2>6. Leads(h, c[1]) /\ Leads(c[1], h)
    BY <2>2, <2>3, <2>4, ChainLeads
  <2>7. Leads(f, c[1]) /\ Leads(c[1], f)
    BY <1>4, <2>5, <2>6, LeadsOn
  <2>8. QED
    BY <1>3, <2>7
<1> DEFINE S == {g \in Nodes : Leads(f, g) /\ (Leads(g, f) => rank[g] < rank[f])}
<1>5. ASSUME NEW h \in Nodes, NEW g \in Nodes, h = f \/ h \in S, Imports(adjacency, h, g)
      PROVE  g \in S
  <2>1. Leads(h, g)
    BY <1>5, ImportLeads
  <2>2. Leads(f, g)
    BY <1>5, <2>1, LeadsOn
  <2>3. ASSUME Leads(g, f) PROVE rank[g] < rank[f]
    <3>1. Leads(h, f)
      BY <2>1, <2>3, LeadsOn
    <3>2. ~InChain(h)
      BY <1>4, <1>5, <3>1
    <3>3. rank[g] < rank[h]
      BY <1>1, <1>2, <1>5, <3>2 DEF Ranked
    <3>4. rank[h] <= rank[f]
      BY <1>5, <3>1
    <3>5. QED
      BY <3>3, <3>4
  <2>4. QED
    BY <2>2, <2>3
<1>6. f \in S
  <2>1. S \in SUBSET Nodes
    OBVIOUS
  <2> HIDE DEF S
  <2>2. QED
    BY <1>5, <2>1 DEF Leads, Nodes
<1>7. QED
  BY <1>6

\* The invariant is enough.
LEMMA FoundAll == ASSUME SearchInv PROVE CyclesFound
  BY KnotHasChain DEF CyclesFound, SearchInv, NoRepeats, Nodes

\* It holds at the start.
LEMMA StartedFinds ==
  ASSUME NEW D \in SUBSET Files, Started(D), \A f \in D : \E k \in 1..Len(starts) : starts[k] = f
  PROVE  SearchInv
<1>1. Nodes = D /\ Len(path) = 0
  BY EmptySeq DEF Started, Nodes
<1>2. Ranked([f \in Nodes |-> 0], 0)
  BY <1>1 DEF Ranked, Started
<1>3. \E N \in Nat, rank \in [Nodes -> Nat] : Ranked(rank, N)
  <2>1. 0 \in Nat /\ [f \in Nodes |-> 0] \in [Nodes -> Nat]
    OBVIOUS
  <2>2. QED
    BY <1>2, <2>1
<1>4. Visited /\ Covered /\ NoRepeats /\ chains \subseteq Seq(Nodes)
  BY <1>1 DEF Visited, Covered, NoRepeats, Started
<1>5. QED
  BY <1>3, <1>4, StartHolds DEF SearchInv

\* It depends on the search alone,
LEMMA SearchKept == ASSUME SearchInv, UNCHANGED cycleVars PROVE SearchInv'
<1>1. SearchSafe'
  BY DEF cycleVars, SearchInv, SearchSafe, SearchTypes, PathInv, FrameInv, ChainsAreCycles, IsChain, Nodes
<1>2. QED
  BY <1>1 DEF cycleVars, SearchInv, Visited, Covered, NoRepeats, Met, InChain, Ranked, Nodes

\* and the steps of the search keep it.
LEMMA SearchFinds == ASSUME SearchInv, SearchStep PROVE SearchInv'
<1>1. SearchSafe'
  BY StartKeeps, DescendKeeps, CloseKeeps, IgnoreKeeps, LeaveKeeps DEF SearchStep, SearchInv
<1>2. QED
  BY <1>1, StartFinds, DescendFinds, CloseFinds, IgnoreFinds, LeaveFinds DEF SearchStep

-----------------------------------------------------------------------------
(* The graph that is built.                                                *)

\* The search of a graph on the files D starts, from all of them,
Covers(D) == Started(D) /\ \A f \in D : \E k \in 1..Len(starts) : starts[k] = f

\* of some of the files.
Fresh == \E D \in SUBSET Files : Covers(D)

\* This establishes the invariant,
LEMMA CoversFinds == Fresh => SearchInv
  BY StartedFinds DEF Covers, Fresh

\* as it does in the next state.
LEMMA FreshFinds == Fresh' => SearchInv'
  BY CoversFinds, PTL

\* The search of the imports of a repository starts at every file of the graph.
LEMMA BuildStarts ==
  ASSUME repo \in Repos, BuildImports
  PROVE  SearchInv'
<1> DEFINE deps == DependencyGraph(repo)
           D == {d.source : d \in ToSet(deps)} \cup {d.target : d \in ToSet(deps)}
           adj == Adjacency(deps)
           order == Where(repo.files, LAMBDA f : f \in DOMAIN adj)
           files == ToSet(repo.files)
<1>1. IsRepo(repo) /\ files \subseteq Files /\ IsSeq(repo.files)
  BY GraphStoreAssumption DEF IsRepo
<1>2. D \subseteq files
  <2>1. \A d \in ToSet(deps) : d.source \in files /\ d.target \in files
    <3> SUFFICES ASSUME NEW d \in ToSet(deps) PROVE d.source \in files /\ d.target \in files
      OBVIOUS
    <3>1. PICK f \in files : \E n \in ToSet(Statements(repo, f)) :
            \E g \in ToSet(Resolve(repo, Imported(n), f)) :
              d = [source |-> f, target |-> g, module |-> Imported(n)]
      BY <1>1, DependencyFacts
    <3>4. PICK n : \E g \in ToSet(Resolve(repo, Imported(n), f)) :
              d = [source |-> f, target |-> g, module |-> Imported(n)]
      BY <3>1
    <3>5. PICK g \in ToSet(Resolve(repo, Imported(n), f)) : 
              d = [source |-> f, target |-> g, module |-> Imported(n)]
      BY <3>4
    <3>2. g \in files
      BY <1>1, ResolveFacts
    <3>3. QED
      BY <3>5, <3>2
  <2>2. QED
    BY <2>1
<1>3. adj = [f \in D |-> Where(repo.files, LAMBDA g : \E d \in ToSet(deps) : d.source = f /\ d.target = g)]
  BY DEF Adjacency
<1>4. ASSUME NEW f \in D PROVE adj[f] \in Seq(D)
  <2> DEFINE at == {k \in DOMAIN repo.files : \E d \in ToSet(deps) : d.source = f /\ d.target = repo.files[k]}
  <2>1. adj[f] = Pick(repo.files, at) /\ at \in SUBSET DOMAIN repo.files
    BY <1>3 DEF Where
  <2>2. {repo.files[k] : k \in at} \subseteq D
    OBVIOUS
  <2> HIDE DEF at, D, adj
  <2>3. IsSeq(adj[f]) /\ ToSet(adj[f]) \subseteq D
    BY <1>1, <2>1, <2>2, PickFacts
  <2>4. QED
    BY <2>3, SeqMonotonic DEF IsSeq
<1>5. order \in Seq(D) /\ ToSet(order) = D
  <2> DEFINE at == {k \in DOMAIN repo.files : repo.files[k] \in DOMAIN adj}
  <2>1. order = Pick(repo.files, at) /\ at \in SUBSET DOMAIN repo.files
    BY DEF Where
  <2>2. DOMAIN adj = D
    BY <1>3
  <2> HIDE DEF D, adj, order
  <2>3. {repo.files[k] : k \in at} = D
    BY <1>2, <2>2 DEF ToSet
  <2> HIDE DEF at
  <2>4. IsSeq(order) /\ ToSet(order) = D
    BY <1>1, <2>1, <2>3, PickFacts
  <2>5. QED
    BY <2>4 DEF IsSeq
<1>6. StartSearch(adj, order)
  BY DEF BuildImports
<1> HIDE DEF D, adj, order
<1>7. \E E \in SUBSET Files : Covers(E)'
  <2>1. PICK E : E = D
    OBVIOUS
  <2>2. PICK a, o : a = adj /\ o = order
    OBVIOUS
  <2>3. a \in [E -> Seq(E)] /\ o \in Seq(E) /\ ToSet(o) = E /\ E \in SUBSET Files
    BY <1>1, <1>2, <1>3, <1>4, <1>5, <2>1, <2>2
  <2>4. DOMAIN o = 1..Len(o)
    BY <2>3, LenProperties
  <2>5. \A f \in E : \E k \in 1..Len(o) : o[k] = f
    BY <2>3, <2>4 DEF ToSet
  <2>6. /\ adjacency' = a /\ starts' = o /\ color' = [f \in DOMAIN a |-> "white"]
        /\ path' = <<>> /\ frames' = <<>> /\ chains' = {}
    BY <1>6, <2>2 DEF StartSearch
  <2>7. DOMAIN a = E
    BY <2>3
  <2>8. Covers(E)'
    BY <2>3, <2>5, <2>6, <2>7 DEF Covers, Started
  <2>9. QED
    BY <2>3, <2>8
<1>8. QED
  BY <1>7, FreshFinds DEF Fresh

\* The invariant of what is built.
GraphInv ==
  /\ repo \in Repos /\ TableInv(table) /\ IsSeq(calls)
  /\ imports = <<>> \/ imports = DependencyGraph(repo)
  /\ SearchInv

\* It holds at first,
LEMMA GraphInit == Init => GraphInv
<1> SUFFICES ASSUME Init PROVE GraphInv
  OBVIOUS
<1>1. repo \in Repos /\ imports = <<>>
  BY DEF Init
<1>2. IsSeq(<<>>) /\ TableInv(<<>>)
  BY EmptySeq DEF TableInv, IsSeq, ToSet
<1>3. Covers({})
  <2>1. DOMAIN adjacency = {} /\ adjacency = [f \in {} |-> <<>>] /\ color = [f \in {} |-> "white"]
    BY DEF Init
  <2>2. adjacency \in [{} -> Seq({})] /\ starts \in Seq({})
    BY <2>1, EmptySeq DEF Init
  <2>3. QED
    BY <2>1, <2>2 DEF Covers, Started, Init
<1>4. SearchInv
  BY <1>3, CoversFinds DEF Fresh
<1>5. QED
  BY <1>1, <1>2, <1>4 DEF GraphInv, Init

\* every step keeps it,
LEMMA GraphStep == ASSUME GraphInv, [Next]_vars PROVE GraphInv'
<1>1. CASE BuildTable
  BY <1>1, GraphStoreAssumption, TableFacts, SearchKept DEF GraphInv, BuildTable
<1>2. CASE BuildCalls
  BY <1>2, GraphStoreAssumption, CallFacts, SearchKept DEF GraphInv, BuildCalls
<1>3. CASE BuildImports
  BY <1>3, BuildStarts DEF GraphInv, BuildImports
<1>4. CASE Search
  BY <1>4, SearchFinds DEF GraphInv, Search, inputs
<1>5. CASE UNCHANGED <<inputs, cycleVars>>
  BY <1>5, SearchKept DEF GraphInv, inputs
<1>6. CASE SearchEnds \/ Connect \/ ConnectFails \/ PersistInMemory \/ StartPersist
           \/ WriteBatch \/ WriteFails \/ PersistEnds \/ PersistAgain \/ Clear \/ UNCHANGED vars
  <2>1. UNCHANGED <<inputs, cycleVars>>
    BY <1>6 DEF SearchEnds, Connect, ConnectFails, PersistInMemory, StartPersist, WriteBatch,
                WriteFails, PersistEnds, PersistAgain, Clear, vars
  <2>2. QED
    BY <1>5, <2>1
<1>7. QED
  BY <1>1, <1>2, <1>3, <1>4, <1>6 DEF Next

-----------------------------------------------------------------------------
(* The rows: which ends and types they have, and that their batches hold   *)
(* them all.                                                               *)

\* The ids of the symbols.
Symbols == {table[k].id : k \in DOMAIN table}

\* The rows of a label are the ids of its symbols.
LEMMA SymbolRowsFacts ==
  ASSUME GraphInv, NEW label
  PROVE  /\ IsSeq(SymbolRows(label))
         /\ ToSet(SymbolRows(label)) = {table[k].id : k \in {i \in DOMAIN table : Label(table[i]) = label}}
<1> DEFINE at == {i \in DOMAIN table : Label(table[i]) = label}
           same == Pick(table, at)
           rows == [k \in DOMAIN same |-> same[k].id]
<1>1. IsSeq(table) /\ at \in SUBSET DOMAIN table
  BY DEF GraphInv, TableInv
<1>2. SymbolRows(label) = rows
  BY DEF SymbolRows, Where
<1> HIDE DEF at
<1>3. IsSeq(same) /\ ToSet(same) = {table[k] : k \in at}
  BY <1>1, PickFacts
<1> HIDE DEF same
<1>4. rows = [k \in DOMAIN same |-> rows[k]]
  OBVIOUS
<1> HIDE DEF rows
<1>5. IsSeq(rows) /\ ToSet(rows) = {rows[k] : k \in DOMAIN same}
  BY <1>3, <1>4, MapFacts
<1>6. {rows[k] : k \in DOMAIN same} = {r.id : r \in ToSet(same)}
  BY DEF rows, ToSet
<1>7. {r.id : r \in ToSet(same)} = {table[k].id : k \in at}
  BY <1>3
<1>8. QED
  BY <1>2, <1>5, <1>6, <1>7 DEF at

\* Every symbol has one of the labels.
LEMMA LabelsCover ==
  ASSUME GraphInv
  PROVE  /\ Labels \in Seq({"Class", "Function"})
         /\ UNION {ToSet(SymbolRows(Labels[k])) : k \in DOMAIN Labels} = Symbols
<1>1. IsSeq(table) /\ DOMAIN table = 1..Len(table) /\ Len(table) \in Nat
  BY SeqIs DEF GraphInv, TableInv, IsSeq
<1>2. CASE table = <<>>
  <2>1. Labels = <<>> /\ Symbols = {} /\ DOMAIN Labels = {}
    BY <1>2 DEF Labels, Symbols
  <2>2. QED
    BY <2>1, EmptySeq
<1>3. CASE table # <<>>
  <2>1. Labels = <<"Class", "Function">> \/ Labels = <<"Function", "Class">>
    BY <1>3 DEF Labels
  <2>2. Labels \in Seq({"Class", "Function"}) /\ \A l \in {"Class", "Function"} : \E k \in DOMAIN Labels : Labels[k] = l
    <3>1. ASSUME NEW a \in {"Class", "Function"}, NEW b \in {"Class", "Function"}, Labels = <<a, b>>, a # b
          PROVE  Labels \in Seq({"Class", "Function"}) /\ \A l \in {"Class", "Function"} : \E k \in DOMAIN Labels : Labels[k] = l
      <4>1. 1 \in DOMAIN Labels /\ 2 \in DOMAIN Labels /\ Labels[1] = a /\ Labels[2] = b
        BY <3>1
      <4>2. Labels \in Seq({"Class", "Function"})
        BY <3>1
      <4>3. \A l \in {"Class", "Function"} : l = a \/ l = b
        BY <3>1
      <4>4. QED
        BY <4>1, <4>2, <4>3
    <3>2. QED
      BY <2>1, <3>1
  <2>3. \A k \in DOMAIN Labels : ToSet(SymbolRows(Labels[k])) \subseteq Symbols
    BY SymbolRowsFacts DEF Symbols
  <2>4. ASSUME NEW k \in DOMAIN table
        PROVE  \E l \in DOMAIN Labels : table[k].id \in ToSet(SymbolRows(Labels[l]))
    <3>1. Label(table[k]) \in {"Class", "Function"}
      BY DEF Label
    <3>2. PICK l \in DOMAIN Labels : Labels[l] = Label(table[k])
      BY <2>2, <3>1
    <3>3. ToSet(SymbolRows(Label(table[k]))) =
            {table[j].id : j \in {i \in DOMAIN table : Label(table[i]) = Label(table[k])}}
      BY SymbolRowsFacts
    <3>4. QED
      BY <3>2, <3>3
  <2>5. QED
    BY <2>2, <2>3, <2>4 DEF Symbols
<1>4. QED
  BY <1>2, <1>3

\* A module has the number 0.
LEMMA ModuleRowsFacts ==
  ASSUME GraphInv
  PROVE  IsSeq(ModuleRows) /\ \A i \in ToSet(ModuleRows) : i[2] = 0
<1> DEFINE m(k) == Parts(table[k].at[1])
           S == {k \in DOMAIN table : m(k) # <<>> /\ \A j \in 1..(k - 1) : m(j) # m(k)}
           first == InOrder(Len(table), S)
           rows == [n \in DOMAIN first |-> ModuleId(m(first[n]))]
<1>1. Len(table) \in Nat
  BY SeqIs DEF GraphInv, TableInv, IsSeq
<1>2. ModuleRows = rows
  BY DEF ModuleRows
<1> HIDE DEF S
<1>3. IsSeq(first)
  BY <1>1, OrderFacts, SeqIs
<1>4. rows = [k \in DOMAIN first |-> rows[k]] /\ \A k \in DOMAIN first : rows[k][2] = 0
  BY DEF ModuleId
<1> HIDE DEF first, rows
<1>5. IsSeq(rows) /\ ToSet(rows) = {rows[k] : k \in DOMAIN first}
  BY <1>3, <1>4, MapFacts
<1>6. QED
  BY <1>2, <1>4, <1>5

\* The rows of a type that join members of S.
Row(S, type) == {<<a, b, type>> : a \in S, b \in S}

\* Calls join symbols,
LEMMA CallRowsFacts == ASSUME GraphInv PROVE CallRows \in Seq(Row(Symbols, "CALLS"))
<1> DEFINE ends(c) == <<RecordOf(table, c.caller), RecordOf(table, c.callee)>>
           at == {k \in DOMAIN calls : 0 \notin ToSet(ends(calls[k]))}
           known == Pick(calls, at)
           rows == [k \in DOMAIN known |-> <<table[ends(known[k])[1]].id, table[ends(known[k])[2]].id, "CALLS">>]
<1>1. IsSeq(calls) /\ at \in SUBSET DOMAIN calls /\ IsSeq(table) /\ DOMAIN table = 1..Len(table) /\ Len(table) \in Nat
  BY SeqIs DEF GraphInv, TableInv, IsSeq
<1>2. CallRows = rows
  BY DEF CallRows, Where
<1>3. \A c : 0 \notin ToSet(ends(c)) => RecordOf(table, c.caller) # 0 /\ RecordOf(table, c.callee) # 0
  BY DEF ToSet
<1>4. \A k \in at : RecordOf(table, calls[k].caller) \in DOMAIN table /\ RecordOf(table, calls[k].callee) \in DOMAIN table
  <2>1. \A name : RecordOf(table, name) \in 0..Len(table)
    BY <1>1, RecordOfFacts
  <2>2. QED
    BY <1>1, <1>3, <2>1
<1> HIDE DEF at
<1>5. IsSeq(known) /\ ToSet(known) = {calls[k] : k \in at}
  BY <1>1, PickFacts
<1> HIDE DEF known
<1>6. \A k \in DOMAIN known : RecordOf(table, known[k].caller) \in DOMAIN table /\ RecordOf(table, known[k].callee) \in DOMAIN table
  <2>1. \A k \in DOMAIN known : known[k] \in ToSet(known)
    BY DEF ToSet
  <2>2. QED
    BY <1>4, <1>5, <2>1
<1>7. rows = [k \in DOMAIN known |-> rows[k]] /\ \A k \in DOMAIN known : rows[k] \in Row(Symbols, "CALLS")
  BY <1>6 DEF Row, Symbols
<1> HIDE DEF rows
<1>8. IsSeq(rows) /\ ToSet(rows) = {rows[k] : k \in DOMAIN known}
  BY <1>5, <1>7, MapFacts
<1>9. QED
  BY <1>2, <1>7, <1>8, IsSeqTo

\* imports join modules,
LEMMA ImportRowsFacts ==
  ASSUME GraphInv
  PROVE  IsSeq(ImportRows) /\ \A e \in ToSet(ImportRows) : e[1][2] = 0 /\ e[2][2] = 0 /\ e[3] = "IMPORTS"
<1>1. IsSeq(imports)
  <2>1. IsSeq(<<>>)
    BY EmptySeq DEF IsSeq, ToSet
  <2>2. QED
    BY <2>1, GraphStoreAssumption, DependencyFacts DEF GraphInv
<1> DEFINE rows == ImportRows
<1>2. /\ rows = [k \in DOMAIN imports |-> rows[k]]
      /\ \A k \in DOMAIN imports : rows[k][1][2] = 0 /\ rows[k][2][2] = 0 /\ rows[k][3] = "IMPORTS"
  BY DEF ImportRows, ModuleId
<1> HIDE DEF rows
<1>3. IsSeq(rows) /\ ToSet(rows) = {rows[k] : k \in DOMAIN imports}
  BY <1>1, <1>2, MapFacts
<1>4. QED
  BY <1>2, <1>3 DEF rows

\* and inheritance and containment join symbols.
LEMMA InheritRowsFacts == ASSUME GraphInv PROVE InheritRows \in Seq(Row(Symbols, "INHERITS"))
<1> DEFINE base(k, j) == RecordOf(table, table[k].bases[j])
           at(k) == {j \in DOMAIN table[k].bases : base(k, j) # 0 /\ table[base(k, j)].type = "class"}
           classes(k) == InOrder(Len(table[k].bases), at(k))
           rows(k) == [n \in DOMAIN classes(k) |-> <<table[k].id, table[base(k, classes(k)[n])].id, "INHERITS">>]
           all == [k \in DOMAIN table |-> rows(k)]
           S == Row(Symbols, "INHERITS")
<1>1. IsSeq(table) /\ DOMAIN table = 1..Len(table) /\ Len(table) \in Nat
      /\ \A k \in DOMAIN table : IsSeq(table[k].bases)
  BY SeqIs DEF GraphInv, TableInv, IsSeq
<1>2. InheritRows = FlattenSeq(all)
  BY DEF InheritRows
<1>3. ASSUME NEW k \in DOMAIN table PROVE rows(k) \in Seq(S)
  <2>1. Len(table[k].bases) \in Nat
    BY <1>1, SeqIs DEF IsSeq
  <2>2. classes(k) \in Seq(1..Len(table[k].bases)) /\ ToSet(classes(k)) \subseteq at(k)
    <3> HIDE DEF at
    <3>1. QED
      BY <2>1, OrderFacts
  <2>3. DOMAIN classes(k) = 1..Len(classes(k)) /\ Len(classes(k)) \in Nat /\ \A n \in DOMAIN classes(k) : classes(k)[n] \in at(k)
    <3> HIDE DEF at
    <3>1. QED
      BY <2>2, LenProperties DEF ToSet
  <2> HIDE DEF classes
  <2>4. \A n \in DOMAIN classes(k) : base(k, classes(k)[n]) \in DOMAIN table
    <3>1. \A name : RecordOf(table, name) \in 0..Len(table)
      BY <1>1, RecordOfFacts
    <3>2. QED
      BY <1>1, <2>3, <3>1
  <2> HIDE DEF at, base
  <2>5. \A n \in DOMAIN classes(k) : rows(k)[n] \in S
    BY <2>4 DEF Row, Symbols
  <2> HIDE DEF S
  <2>6. QED
    BY <2>3, <2>5, SeqDef
<1>4. all = [k \in DOMAIN table |-> all[k]] /\ \A k \in DOMAIN table : all[k] \in Seq(S)
  BY <1>3
<1> HIDE DEF all, S
<1>5. QED
  BY <1>1, <1>2, <1>4, FlatMapFacts DEF S

\* A record that is found is one of the table.
LEMMA ContainRowsFacts == ASSUME GraphInv PROVE ContainRows \in Seq(Row(Symbols, "CONTAINS"))
<1> DEFINE parent(r) == IF r.parent = <<>> THEN 0 ELSE LookupQualified(table, r.parent)
           at == {k \in DOMAIN table : parent(table[k]) # 0}
           inner == Pick(table, at)
           rows == [k \in DOMAIN inner |-> <<table[parent(inner[k])].id, inner[k].id, "CONTAINS">>]
<1>1. IsSeq(table) /\ DOMAIN table = 1..Len(table) /\ Len(table) \in Nat /\ at \in SUBSET DOMAIN table
  BY SeqIs DEF GraphInv, TableInv, IsSeq
<1>2. ContainRows = rows
  BY DEF ContainRows, Where
<1>3. \A k \in at : parent(table[k]) \in DOMAIN table
  <2>1. \A name : LookupQualified(table, name) \in 0..Len(table)
    BY <1>1, RecordOfFacts
  <2>2. QED
    BY <1>1, <2>1
<1> HIDE DEF at
<1>4. IsSeq(inner) /\ ToSet(inner) = {table[k] : k \in at}
  BY <1>1, PickFacts
<1> HIDE DEF inner
<1>5. \A k \in DOMAIN inner : parent(inner[k]) \in DOMAIN table /\ inner[k].id \in Symbols
  <2>1. \A k \in DOMAIN inner : inner[k] \in ToSet(inner)
    BY DEF ToSet
  <2>2. QED
    BY <1>1, <1>3, <1>4, <2>1 DEF Symbols
<1> HIDE DEF parent
<1>6. rows = [k \in DOMAIN inner |-> rows[k]] /\ \A k \in DOMAIN inner : rows[k] \in Row(Symbols, "CONTAINS")
  BY <1>5 DEF Row, Symbols
<1> HIDE DEF rows
<1>7. IsSeq(rows) /\ ToSet(rows) = {rows[k] : k \in DOMAIN inner}
  BY <1>4, <1>6, MapFacts
<1>8. QED
  BY <1>2, <1>6, <1>7, IsSeqTo

\* All the rows of edges.
EdgeRowSet == ToSet(CallRows) \cup ToSet(ImportRows) \cup ToSet(InheritRows) \cup ToSet(ContainRows)

\* They are what EdgeRows has.
LEMMA RowsAreSeqs ==
  ASSUME GraphInv
  PROVE  /\ IsSeq(CallRows) /\ IsSeq(ImportRows) /\ IsSeq(InheritRows) /\ IsSeq(ContainRows)
         /\ IsSeq(EdgeRows) /\ ToSet(EdgeRows) = EdgeRowSet
<1>1. IsSeq(CallRows) /\ IsSeq(ImportRows) /\ IsSeq(InheritRows) /\ IsSeq(ContainRows)
  BY CallRowsFacts, ImportRowsFacts, InheritRowsFacts, ContainRowsFacts, SeqIs
<1>2. CallRows \in Seq(EdgeRowSet) /\ ImportRows \in Seq(EdgeRowSet)
      /\ InheritRows \in Seq(EdgeRowSet) /\ ContainRows \in Seq(EdgeRowSet)
  BY <1>1, IsSeqTo DEF EdgeRowSet
<1> DEFINE two == CallRows \o ImportRows
           three == two \o InheritRows
<1>3. two \in Seq(EdgeRowSet) /\ ToSet(two) = ToSet(CallRows) \cup ToSet(ImportRows)
  BY <1>2, ConcatFacts
<1>4. EdgeRows = three \o ContainRows
  BY DEF EdgeRows
<1> HIDE DEF two
<1>5. three \in Seq(EdgeRowSet) /\ ToSet(three) = ToSet(two) \cup ToSet(InheritRows)
  BY <1>2, <1>3, ConcatFacts
<1> HIDE DEF three
<1>6. EdgeRows \in Seq(EdgeRowSet) /\ ToSet(EdgeRows) = ToSet(three) \cup ToSet(ContainRows)
  BY <1>2, <1>4, <1>5, ConcatFacts
<1>7. ToSet(EdgeRows) = EdgeRowSet
  BY <1>3, <1>5, <1>6 DEF EdgeRowSet
<1>8. QED
  BY <1>1, <1>6, <1>7, SeqIs

\* The batches of some rows hold them all, and nothing else.
LEMMA ChunkFacts ==
  ASSUME NEW kind, NEW rows, IsSeq(rows)
  PROVE  /\ Chunk(kind, rows) \in Seq([kind : {kind}, rows : SUBSET ToSet(rows)])
         /\ UNION {b.rows : b \in ToSet(Chunk(kind, rows))} = ToSet(rows)
<1> DEFINE n == Len(rows)
           K == (n + BatchSize - 1) \div BatchSize
           from(k) == (k - 1) * BatchSize + 1
           to(k) == Min({k * BatchSize, n})
           piece(k) == SubSeq(rows, from(k), to(k))
           C == Chunk(kind, rows)
<1>1. n \in Nat /\ DOMAIN rows = 1..n /\ BatchSize \in Nat \ {0}
  BY GraphStoreAssumption, SeqIs DEF IsSeq
<1>2. C = [k \in 1..K |-> [kind |-> kind, rows |-> ToSet(piece(k))]]
  BY DEF Chunk
<1>3. /\ K \in Nat
      /\ \A k \in 1..K : /\ (k - 1) * BatchSize \in Nat /\ k * BatchSize \in Nat
                         /\ k * BatchSize = (k - 1) * BatchSize + BatchSize
      /\ \A i \in 1..n : \E k \in 1..K : from(k) <= i /\ i <= k * BatchSize
  <2> HIDE DEF n
  <2>1. QED
    BY <1>1, PieceFacts
<1> HIDE DEF K, C
<1>4. ASSUME NEW k \in 1..K
      PROVE  /\ from(k) \in Nat \ {0}
             /\ to(k) \in 0..n /\ to(k) = IF k * BatchSize <= n THEN k * BatchSize ELSE n
  <2>1. Min({k * BatchSize, n}) = IF k * BatchSize <= n THEN k * BatchSize ELSE n
    <3> HIDE DEF n
    <3>1. QED
      BY <1>1, <1>3, MinOfTwo
  <2>2. from(k) \in Nat \ {0}
    BY <1>3
  <2>3. QED
    BY <1>1, <1>3, <2>1, <2>2
<1> HIDE DEF from, to
<1>5. ASSUME NEW k \in 1..K
      PROVE  ToSet(piece(k)) = {rows[i] : i \in {j \in 1..n : from(k) <= j /\ j <= to(k)}}
  <2> DEFINE a == from(k)
             z == to(k)
             p == piece(k)
  <2>1. a \in Nat \ {0} /\ z \in 0..n
    BY <1>4
  <2>2. p = [i \in 1..(z - a + 1) |-> rows[i + a - 1]]
    BY <2>1
  <2> HIDE DEF a, z, p
  <2>3. ToSet(p) = {rows[i + a - 1] : i \in 1..(z - a + 1)}
    BY <2>2 DEF ToSet
  <2>4. \A i \in 1..(z - a + 1) : i + a - 1 \in {j \in 1..n : a <= j /\ j <= z}
    BY <1>1, <2>1
  <2>5. \A j \in {j \in 1..n : a <= j /\ j <= z} : j - a + 1 \in 1..(z - a + 1) /\ (j - a + 1) + a - 1 = j
    BY <1>1, <2>1
  <2>6. ToSet(p) = {rows[i] : i \in {j \in 1..n : a <= j /\ j <= z}}
    BY <2>3, <2>4, <2>5
  <2>7. QED
    BY <2>6 DEF a, z, p
<1>6. \A k \in 1..K : ToSet(piece(k)) \subseteq ToSet(rows)
  <2>1. ToSet(rows) = {rows[j] : j \in 1..n}
    BY <1>1 DEF ToSet
  <2> HIDE DEF n, piece
  <2>2. QED
    BY <1>5, <2>1
<1> HIDE DEF piece
<1>7. C \in Seq([kind : {kind}, rows : SUBSET ToSet(rows)])
  <2>1. \A k \in 1..K : [kind |-> kind, rows |-> ToSet(piece(k))] \in [kind : {kind}, rows : SUBSET ToSet(rows)]
    BY <1>6
  <2>2. QED
    BY <1>2, <1>3, <2>1, SeqDef
<1>8. ToSet(C) = {[kind |-> kind, rows |-> ToSet(piece(k))] : k \in 1..K}
  BY <1>2 DEF ToSet
<1>9. UNION {b.rows : b \in ToSet(C)} = UNION {ToSet(piece(k)) : k \in 1..K}
  <2>1. \A b \in ToSet(C) : \E k \in 1..K : b.rows = ToSet(piece(k))
    BY <1>8
  <2>2. \A k \in 1..K : \E b \in ToSet(C) : b.rows = ToSet(piece(k))
    <3> SUFFICES ASSUME NEW k \in 1..K PROVE \E b \in ToSet(C) : b.rows = ToSet(piece(k))
      OBVIOUS
    <3> DEFINE b == [kind |-> kind, rows |-> ToSet(piece(k))]
    <3>1. b \in ToSet(C)
      BY <1>8
    <3>2. b.rows = ToSet(piece(k))
      OBVIOUS
    <3>3. QED
      BY <3>1, <3>2
  <2>3. QED
    BY <2>1, <2>2
<1>10. ASSUME NEW e \in ToSet(rows) PROVE \E k \in 1..K : e \in ToSet(piece(k))
  <2>1. PICK i \in 1..n : rows[i] = e
    BY <1>1 DEF ToSet
  <2>2. PICK k \in 1..K : from(k) <= i /\ i <= k * BatchSize
    BY <1>3
  <2>3. i <= to(k)
    <3>1. to(k) = k * BatchSize \/ to(k) = n
      BY <1>4
    <3>2. i <= n
      BY <1>1
    <3>3. QED
      BY <2>2, <3>1, <3>2
  <2>4. QED
    BY <1>5, <2>1, <2>2, <2>3
<1>11. QED
  BY <1>6, <1>7, <1>9, <1>10 DEF C

\* The rows of some batches, and the batches there may be.
Rows(s) == UNION {b.rows : b \in ToSet(s)}
BatchOf(kind, S) == [kind : {kind}, rows : SUBSET S]

\* Batches of one kind, with their rows.
AreBatches(s, kind, S) == s \in Seq(BatchOf(kind, S)) /\ Rows(s) = S

\* Batches of both.
LEMMA JoinBatches ==
  ASSUME NEW kind, NEW s, NEW t, NEW S, NEW T, AreBatches(s, kind, S), AreBatches(t, kind, T)
  PROVE  AreBatches(s \o t, kind, S \cup T)
<1> DEFINE B == BatchOf(kind, S \cup T)
<1>1. BatchOf(kind, S) \subseteq B /\ BatchOf(kind, T) \subseteq B
  BY DEF BatchOf
<1>2. s \in Seq(B) /\ t \in Seq(B)
  <2> HIDE DEF B
  <2>1. QED
    BY <1>1, SeqMonotonic DEF AreBatches
<1> HIDE DEF B
<1>3. s \o t \in Seq(B) /\ ToSet(s \o t) = ToSet(s) \cup ToSet(t)
  BY <1>2, ConcatFacts
<1>4. Rows(s \o t) = Rows(s) \cup Rows(t)
  BY <1>3 DEF Rows
<1>5. QED
  BY <1>3, <1>4 DEF AreBatches, B

\* Batches of some rows.
LEMMA ChunkBatches ==
  ASSUME NEW kind, NEW rows, IsSeq(rows)
  PROVE  AreBatches(Chunk(kind, rows), kind, ToSet(rows))
  BY ChunkFacts DEF AreBatches, Rows, BatchOf

\* The batches of edges hold the rows of edges,
LEMMA EdgeBatchesFacts == ASSUME GraphInv PROVE AreBatches(EdgeBatches, "edges", ToSet(EdgeRows))
<1> DEFINE one == Chunk("edges", CallRows)
           two == Chunk("edges", ImportRows)
           three == Chunk("edges", InheritRows)
           four == Chunk("edges", ContainRows)
<1>1. /\ AreBatches(one, "edges", ToSet(CallRows)) /\ AreBatches(two, "edges", ToSet(ImportRows))
      /\ AreBatches(three, "edges", ToSet(InheritRows)) /\ AreBatches(four, "edges", ToSet(ContainRows))
  BY RowsAreSeqs, ChunkBatches
<1>2. EdgeBatches = ((one \o two) \o three) \o four
  BY DEF EdgeBatches
<1> HIDE DEF one, two, three, four
<1>3. AreBatches(one \o two, "edges", ToSet(CallRows) \cup ToSet(ImportRows))
  BY <1>1, JoinBatches
<1>4. AreBatches((one \o two) \o three, "edges", ToSet(CallRows) \cup ToSet(ImportRows) \cup ToSet(InheritRows))
  BY <1>1, <1>3, JoinBatches
<1>5. AreBatches(EdgeBatches, "edges", EdgeRowSet)
  BY <1>1, <1>2, <1>4, JoinBatches DEF EdgeRowSet
<1>6. QED
  BY <1>5, RowsAreSeqs

\* The nodes of the graph.
AllNodes == Symbols \cup ToSet(ModuleRows)

\* and those of nodes the nodes.
LEMMA NodeBatchesFacts == ASSUME GraphInv PROVE AreBatches(NodeBatches, "nodes", AllNodes)
<1> DEFINE parts == [k \in DOMAIN Labels |-> Chunk("nodes", SymbolRows(Labels[k]))]
           B == BatchOf("nodes", Symbols)
<1>1. IsSeq(Labels) /\ UNION {ToSet(SymbolRows(Labels[k])) : k \in DOMAIN Labels} = Symbols
  BY LabelsCover, SeqIs
<1>2. \A k \in DOMAIN Labels : AreBatches(parts[k], "nodes", ToSet(SymbolRows(Labels[k])))
  BY SymbolRowsFacts, ChunkBatches
<1>3. parts = [k \in DOMAIN Labels |-> parts[k]] /\ NodeBatches = FlattenSeq(parts) \o Chunk("nodes", ModuleRows)
  BY DEF NodeBatches
<1> HIDE DEF parts
<1>4. \A k \in DOMAIN Labels : parts[k] \in Seq(B)
  <2> TAKE k \in DOMAIN Labels
  <2>1. BatchOf("nodes", ToSet(SymbolRows(Labels[k]))) \subseteq B
    BY <1>1 DEF BatchOf
  <2> HIDE DEF B
  <2>2. QED
    BY <1>2, <2>1, SeqMonotonic DEF AreBatches
<1> HIDE DEF B
<1>5. FlattenSeq(parts) \in Seq(B) /\ ToSet(FlattenSeq(parts)) = UNION {ToSet(parts[k]) : k \in DOMAIN Labels}
  BY <1>1, <1>3, <1>4, FlatMapFacts
<1>6. Rows(FlattenSeq(parts)) = Symbols
  <2>1. Rows(FlattenSeq(parts)) = UNION {Rows(parts[k]) : k \in DOMAIN Labels}
    BY <1>5 DEF Rows
  <2>2. \A k \in DOMAIN Labels : Rows(parts[k]) = ToSet(SymbolRows(Labels[k]))
    BY <1>2 DEF AreBatches
  <2>3. QED
    BY <1>1, <2>1, <2>2
<1>7. AreBatches(FlattenSeq(parts), "nodes", Symbols)
  BY <1>5, <1>6 DEF AreBatches, B
<1>8. AreBatches(Chunk("nodes", ModuleRows), "nodes", ToSet(ModuleRows))
  BY ModuleRowsFacts, ChunkBatches
<1>9. QED
  BY <1>3, <1>7, <1>8, JoinBatches DEF AllNodes

\* The nodes are merged first.
LEMMA BatchesFacts ==
  ASSUME GraphInv
  PROVE  LET p == Len(NodeBatches)
             n == Len(Batches)
         IN  /\ p \in Nat /\ n \in Nat /\ p <= n
             /\ \A i \in 1..p : Batches[i].kind = "nodes"
             /\ \A i \in 1..n : i > p => Batches[i].kind = "edges" /\ Batches[i].rows \subseteq ToSet(EdgeRows)
             /\ UNION {Batches[i].rows : i \in 1..p} = AllNodes
             /\ UNION {Batches[i].rows : i \in {j \in 1..n : j > p}} = ToSet(EdgeRows)
<1> DEFINE p == Len(NodeBatches)
           n == Len(Batches)
           A == BatchOf("nodes", AllNodes)
           B == BatchOf("edges", ToSet(EdgeRows))
<1>1. NodeBatches \in Seq(A \cup B) /\ EdgeBatches \in Seq(A \cup B)
  <2>1. NodeBatches \in Seq(A) /\ EdgeBatches \in Seq(B)
    BY NodeBatchesFacts, EdgeBatchesFacts DEF AreBatches
  <2> HIDE DEF A, B
  <2>2. QED
    BY <2>1, SeqMonotonic
<1> DEFINE q == Len(EdgeBatches)
<1>2. p \in Nat /\ q \in Nat /\ DOMAIN NodeBatches = 1..p /\ DOMAIN EdgeBatches = 1..q
  BY <1>1, LenProperties
<1>3. /\ n = p + q
      /\ \A i \in 1..(p + q) : Batches[i] = IF i <= p THEN NodeBatches[i] ELSE EdgeBatches[i - p]
  <2> HIDE DEF A, B
  <2>1. QED
    BY <1>1, ConcatProperties DEF Batches
<1>4. \A i \in 1..p : NodeBatches[i] \in A
  BY NodeBatchesFacts, ElementOfSeq DEF AreBatches
<1>5. \A i \in 1..q : EdgeBatches[i] \in B
  BY EdgeBatchesFacts, ElementOfSeq DEF AreBatches
<1>6. UNION {NodeBatches[i].rows : i \in 1..p} = AllNodes
  <2>1. Rows(NodeBatches) = AllNodes /\ ToSet(NodeBatches) = {NodeBatches[i] : i \in 1..p}
    BY <1>2, NodeBatchesFacts DEF AreBatches, ToSet
  <2>2. QED
    BY <2>1 DEF Rows
<1>7. UNION {EdgeBatches[i].rows : i \in 1..q} = ToSet(EdgeRows)
  <2>1. Rows(EdgeBatches) = ToSet(EdgeRows) /\ ToSet(EdgeBatches) = {EdgeBatches[i] : i \in 1..q}
    BY <1>2, EdgeBatchesFacts DEF AreBatches, ToSet
  <2>2. QED
    BY <2>1 DEF Rows
<1> HIDE DEF p, n, q, A, B
<1>8. \A i \in 1..p : Batches[i] = NodeBatches[i] /\ i \in 1..n
  BY <1>2, <1>3
<1>9. \A i \in 1..q : Batches[i + p] = EdgeBatches[i] /\ i + p \in 1..n /\ i + p > p
  BY <1>2, <1>3
<1>10. \A i \in 1..n : i > p => i - p \in 1..q /\ Batches[i] = EdgeBatches[i - p]
  BY <1>2, <1>3
<1>11. UNION {Batches[i].rows : i \in 1..p} = AllNodes
  BY <1>6, <1>8
<1>12. UNION {Batches[i].rows : i \in {j \in 1..n : j > p}} = ToSet(EdgeRows)
  <2>1. \A i \in {j \in 1..n : j > p} : \E k \in 1..q : Batches[i] = EdgeBatches[k]
    BY <1>10
  <2>2. \A k \in 1..q : \E i \in {j \in 1..n : j > p} : Batches[i] = EdgeBatches[k]
    BY <1>9
  <2>3. QED
    BY <1>7, <2>1, <2>2
<1>13. (\A i \in 1..p : Batches[i].kind = "nodes")
       /\ (\A i \in 1..n : i > p => Batches[i].kind = "edges" /\ Batches[i].rows \subseteq ToSet(EdgeRows))
  BY <1>4, <1>5, <1>8, <1>10 DEF A, B, BatchOf
<1>14. p <= n /\ n \in Nat
  BY <1>2, <1>3
<1>15. QED
  BY <1>2, <1>11, <1>12, <1>13, <1>14 DEF p, n

\* Nothing that is given to a store changes once it is built.
LEMMA RowsKept ==
  ASSUME UNCHANGED inputs
  PROVE  /\ CallRows' = CallRows /\ ImportRows' = ImportRows /\ InheritRows' = InheritRows
         /\ ContainRows' = ContainRows /\ ModuleRows' = ModuleRows /\ Labels' = Labels
         /\ \A l : SymbolRows(l)' = SymbolRows(l)
<1>0. UNCHANGED <<table, calls, imports>>
  BY DEF inputs
<1>1. CallRows' = CallRows
  BY <1>0 DEF CallRows, Where
<1>2. ImportRows' = ImportRows
  BY <1>0 DEF ImportRows
<1>3. InheritRows' = InheritRows
  BY <1>0 DEF InheritRows
<1>4. ContainRows' = ContainRows
  BY <1>0 DEF ContainRows, Where
<1>5. ModuleRows' = ModuleRows
  BY <1>0 DEF ModuleRows
<1>6. Labels' = Labels
  BY <1>0 DEF Labels
<1>7. \A l : SymbolRows(l)' = SymbolRows(l)
  BY <1>0 DEF SymbolRows, Where
<1>8. QED
  BY <1>1, <1>2, <1>3, <1>4, <1>5, <1>6, <1>7

\* Nor do the batches and the graphs.
LEMMA GivenKept ==
  ASSUME UNCHANGED inputs
  PROVE  Batches' = Batches /\ GivenNeo4j' = GivenNeo4j /\ GivenInMemory' = GivenInMemory
<1>0. /\ CallRows' = CallRows /\ ImportRows' = ImportRows /\ InheritRows' = InheritRows
      /\ ContainRows' = ContainRows /\ ModuleRows' = ModuleRows /\ Labels' = Labels
      /\ \A l : SymbolRows(l)' = SymbolRows(l)
  BY RowsKept
<1>1. NodeBatches' = NodeBatches
  BY <1>0 DEF NodeBatches
<1>2. EdgeBatches' = EdgeBatches
  BY <1>0 DEF EdgeBatches
<1>3. EdgeRows' = EdgeRows
  BY <1>0 DEF EdgeRows
<1>4. InMemoryNodes' = InMemoryNodes
  BY <1>0 DEF InMemoryNodes
<1>5. InMemoryEdges' = InMemoryEdges
  BY <1>3 DEF InMemoryEdges
<1>6. QED
  BY <1>1, <1>2, <1>3, <1>4, <1>5 DEF Batches, GivenNeo4j, GivenInMemory

\* Both stores are given a graph whose edges have their nodes.
LEMMA GivenWellFormed ==
  ASSUME GraphInv
  PROVE  /\ GivenNeo4j.nodes = AllNodes /\ GivenNeo4j.edges = Matched(AllNodes, ToSet(EdgeRows))
         /\ Promise!WellFormed(GivenNeo4j.nodes, GivenNeo4j.edges)
         /\ GivenInMemory.nodes = InMemoryNodes /\ GivenInMemory.edges = InMemoryEdges
         /\ Promise!WellFormed(GivenInMemory.nodes, GivenInMemory.edges)
<1>1. GivenNeo4j.nodes = AllNodes /\ GivenNeo4j.edges = Matched(AllNodes, ToSet(EdgeRows))
  <2>1. UNION {b.rows : b \in ToSet(NodeBatches)} = AllNodes
    BY NodeBatchesFacts DEF AreBatches, Rows
  <2>2. QED
    BY <2>1 DEF GivenNeo4j
<1>2. Promise!WellFormed(GivenNeo4j.nodes, GivenNeo4j.edges)
  BY <1>1 DEF Promise!WellFormed, Matched
<1>3. GivenInMemory.nodes = InMemoryNodes /\ GivenInMemory.edges = InMemoryEdges
  BY DEF GivenInMemory
<1>4. Symbols \subseteq InMemoryNodes
  BY LabelsCover DEF InMemoryNodes
<1>5. \A e \in ToSet(EdgeRows) : e[1] \in InMemoryNodes /\ e[2] \in InMemoryNodes
  <2>1. \A t : \A e \in Row(Symbols, t) : e[1] \in InMemoryNodes /\ e[2] \in InMemoryNodes
    BY <1>4 DEF Row
  <2>2. /\ ToSet(CallRows) \subseteq Row(Symbols, "CALLS")
        /\ ToSet(InheritRows) \subseteq Row(Symbols, "INHERITS")
        /\ ToSet(ContainRows) \subseteq Row(Symbols, "CONTAINS")
    BY CallRowsFacts, InheritRowsFacts, ContainRowsFacts, SeqIs
  <2>3. \A e \in ToSet(ImportRows) : e[1] \in InMemoryNodes /\ e[2] \in InMemoryNodes
    BY DEF InMemoryNodes
  <2>4. ToSet(EdgeRows) = EdgeRowSet
    BY RowsAreSeqs
  <2>5. QED
    BY <2>1, <2>2, <2>3, <2>4 DEF EdgeRowSet
<1>6. InMemoryEdges \subseteq ToSet(EdgeRows)
  BY DEF InMemoryEdges, ToSet
<1>7. QED
  BY <1>1, <1>2, <1>3, <1>5, <1>6 DEF Promise!WellFormed

-----------------------------------------------------------------------------
(* The store: every batch before the next is stored, and the nodes come    *)
(* first.                                                                  *)

\* The phases before and after a store is given the graph.
Building == {"parsed", "registered", "called", "searching", "built"}
Opened == {"open", "persisting", "persisted"}

\* The i-th batch is in the store.
Stored(i) ==
  IF Batches[i].kind = "nodes" THEN Batches[i].rows \subseteq nodes
  ELSE Matched(wanted.nodes, Batches[i].rows) \subseteq edges

\* Before, the store is empty;
BuildingInv == nodes = {} /\ edges = {} /\ Promise!WellFormed(wanted.nodes, wanted.edges)

\* after, it has a part of the graph it was given,
OpenedInv ==
  /\ (backend = "neo4j" /\ wanted = GivenNeo4j) \/ (backend = "networkx" /\ wanted = GivenInMemory)
  /\ nodes \subseteq wanted.nodes /\ edges \subseteq wanted.edges
  /\ Promise!WellFormed(nodes, edges)

\* while it is persisted every batch before the next,
PersistingInv ==
  backend = "neo4j" /\ batch \in 1..(Len(Batches) + 1) /\ \A i \in 1..(batch - 1) : Stored(i)

\* and all of it once persist_graph has returned.
StoreInv ==
  /\ phase \in Building \cup Opened
  /\ phase \in Building => BuildingInv
  /\ phase \in Opened => OpenedInv
  /\ phase = "persisting" => PersistingInv
  /\ phase = "persisted" => nodes = wanted.nodes /\ edges = wanted.edges

\* The inductive invariant.
IInv == GraphInv /\ StoreInv

\* Once every batch is stored the store has the graph.
LEMMA AllStored ==
  ASSUME GraphInv, OpenedInv, backend = "neo4j", \A i \in 1..Len(Batches) : Stored(i)
  PROVE  nodes = wanted.nodes /\ edges = wanted.edges
<1> DEFINE p == Len(NodeBatches)
           n == Len(Batches)
           rest == {j \in 1..n : j > p}
<1>1. /\ p \in Nat /\ n \in Nat /\ p <= n
      /\ \A i \in 1..p : Batches[i].kind = "nodes"
      /\ \A i \in 1..n : i > p => Batches[i].kind = "edges" /\ Batches[i].rows \subseteq ToSet(EdgeRows)
      /\ UNION {Batches[i].rows : i \in 1..p} = AllNodes
      /\ UNION {Batches[i].rows : i \in rest} = ToSet(EdgeRows)
  BY BatchesFacts
<1>2. wanted.nodes = AllNodes /\ wanted.edges = Matched(AllNodes, ToSet(EdgeRows))
  BY GivenWellFormed DEF OpenedInv
<1>3. \A i \in 1..n : Stored(i)
  OBVIOUS
<1> HIDE DEF p, n
<1>4. \A i \in 1..p : Batches[i].rows \subseteq nodes
  BY <1>1, <1>3 DEF Stored
<1>5. \A i \in rest : Matched(wanted.nodes, Batches[i].rows) \subseteq edges
  BY <1>1, <1>3 DEF Stored
<1> HIDE DEF rest
<1>6. AllNodes \subseteq nodes
  BY <1>1, <1>4
<1>7. Matched(AllNodes, ToSet(EdgeRows)) \subseteq edges
  <2> SUFFICES ASSUME NEW e \in Matched(AllNodes, ToSet(EdgeRows)) PROVE e \in edges
    OBVIOUS
  <2>1. e \in ToSet(EdgeRows) /\ e[1] \in AllNodes /\ e[2] \in AllNodes
    BY DEF Matched
  <2>2. PICK i \in rest : e \in Batches[i].rows
    BY <1>1, <2>1
  <2>3. e \in Matched(wanted.nodes, Batches[i].rows)
    BY <1>2, <2>1, <2>2 DEF Matched
  <2>4. QED
    BY <1>5, <2>3
<1>8. QED
  BY <1>2, <1>6, <1>7 DEF OpenedInv

\* A transaction writes a part of the graph, and keeps what is written.
LEMMA WriteKeeps ==
  ASSUME GraphInv, OpenedInv, PersistingInv, WriteBatch
  PROVE  /\ nodes \subseteq nodes' /\ edges \subseteq edges'
         /\ OpenedInv' /\ PersistingInv'
<1> DEFINE p == Len(NodeBatches)
           n == Len(Batches)
           b == Batches[batch]
<1>1. /\ p \in Nat /\ n \in Nat /\ p <= n
      /\ \A i \in 1..p : Batches[i].kind = "nodes"
      /\ \A i \in 1..n : i > p => Batches[i].kind = "edges" /\ Batches[i].rows \subseteq ToSet(EdgeRows)
      /\ UNION {Batches[i].rows : i \in 1..p} = AllNodes
  BY BatchesFacts
<1>2. wanted.nodes = AllNodes /\ wanted.edges = Matched(AllNodes, ToSet(EdgeRows)) /\ backend = "neo4j"
  BY GivenWellFormed DEF OpenedInv, PersistingInv
<1>3. Batches' = Batches /\ wanted' = wanted /\ backend' = backend /\ batch' = batch + 1
      /\ GivenNeo4j' = GivenNeo4j /\ GivenInMemory' = GivenInMemory
  BY GivenKept DEF WriteBatch
<1>4. batch \in 1..n /\ \A i \in 1..(batch - 1) : Stored(i)
  BY <1>1 DEF PersistingInv, WriteBatch
<1>5. IF b.kind = "nodes" THEN nodes' = nodes \cup b.rows /\ UNCHANGED edges
      ELSE edges' = edges \cup Matched(nodes, b.rows) /\ UNCHANGED nodes
  BY DEF WriteBatch
<1> HIDE DEF p, n, b
<1>6. nodes \subseteq nodes' /\ edges \subseteq edges'
  BY <1>5
<1>7. ASSUME b.kind = "nodes" PROVE OpenedInv' /\ b.rows \subseteq nodes'
  <2>1. batch \in 1..p
    <3>1. batch > p => b.kind = "edges"
      BY <1>1, <1>4 DEF b
    <3>2. QED
      BY <1>1, <1>4, <1>7, <3>1
  <2>2. b.rows \subseteq AllNodes
    BY <1>1, <2>1 DEF b
  <2>3. nodes' = nodes \cup b.rows /\ edges' = edges
    BY <1>5, <1>7
  <2>4. OpenedInv'
    BY <1>2, <1>3, <2>2, <2>3 DEF OpenedInv, Promise!WellFormed
  <2>5. b.rows \subseteq nodes'
    BY <2>3
  <2>6. QED
    BY <2>4, <2>5
<1>8. ASSUME b.kind # "nodes" PROVE OpenedInv' /\ Matched(wanted.nodes, b.rows) \subseteq edges'
  <2>1. batch > p /\ b.kind = "edges" /\ b.rows \subseteq ToSet(EdgeRows)
    <3>1. batch \in 1..p => b.kind = "nodes"
      BY <1>1 DEF b
    <3>2. batch > p
      BY <1>1, <1>4, <1>8, <3>1
    <3>3. QED
      BY <1>1, <1>4, <3>2 DEF b
  <2>2. nodes = AllNodes
    <3>1. \A i \in 1..p : Batches[i].rows \subseteq nodes
      <4> SUFFICES ASSUME NEW i \in 1..p PROVE Batches[i].rows \subseteq nodes
        OBVIOUS
      <4>1. i \in 1..(batch - 1) /\ Batches[i].kind = "nodes"
        BY <1>1, <1>4, <2>1
      <4>2. QED
        BY <1>4, <4>1 DEF Stored
    <3>2. nodes \subseteq AllNodes
      BY <1>2 DEF OpenedInv
    <3>3. QED
      BY <1>1, <3>1, <3>2
  <2>3. edges' = edges \cup Matched(AllNodes, b.rows) /\ nodes' = nodes
    BY <1>5, <1>8, <2>2
  <2>4. Matched(AllNodes, b.rows) \subseteq Matched(AllNodes, ToSet(EdgeRows))
    BY <2>1 DEF Matched
  <2>5. OpenedInv'
    <3>1. Promise!WellFormed(nodes', edges')
      BY <2>2, <2>3 DEF OpenedInv, Promise!WellFormed, Matched
    <3>2. QED
      BY <1>2, <1>3, <2>3, <2>4, <3>1 DEF OpenedInv, Promise!WellFormed
  <2>6. QED
    BY <1>2, <2>3, <2>5
<1>9. OpenedInv' /\ IF b.kind = "nodes" THEN b.rows \subseteq nodes' ELSE Matched(wanted.nodes, b.rows) \subseteq edges'
  BY <1>7, <1>8
<1>10. ASSUME NEW i \in 1..batch PROVE Stored(i)'
  <2>1. CASE i = batch
    BY <1>3, <1>9, <2>1 DEF Stored, b
  <2>2. CASE i # batch
    <3>1. Stored(i)
      BY <1>1, <1>4, <2>2
    <3>2. QED
      BY <1>3, <1>6, <3>1 DEF Stored
  <2>3. QED
    BY <2>1, <2>2
<1>11. PersistingInv'
  <2>1. Len(Batches)' = n
    BY <1>3 DEF n
  <2>2. batch' \in 1..(n + 1) /\ 1..(batch' - 1) = 1..batch
    BY <1>1, <1>3, <1>4
  <2>3. \A i \in 1..(batch' - 1) : Stored(i)'
    BY <1>10, <2>2
  <2>4. QED
    BY <1>2, <1>3, <2>1, <2>2, <2>3 DEF PersistingInv
<1>12. QED
  BY <1>6, <1>9, <1>11

\* It holds at first.
LEMMA StoreInit == Init => StoreInv
  BY DEF Init, StoreInv, Building, Opened, BuildingInv, Promise!WellFormed

\* Building does not touch the store.
LEMMA BuildStep ==
  ASSUME IInv, BuildTable \/ BuildCalls \/ BuildImports \/ Search \/ SearchEnds
  PROVE  StoreInv' /\ UNCHANGED <<wanted, nodes, edges, phase = "persisted">>
<1>1. phase \in Building /\ phase' \in Building /\ UNCHANGED <<wanted, nodes, edges>>
  BY DEF BuildTable, BuildCalls, BuildImports, Search, SearchEnds, Building, storeVars
<1>2. BuildingInv
  BY <1>1 DEF IInv, StoreInv
<1>3. BuildingInv'
  BY <1>1, <1>2 DEF BuildingInv, Promise!WellFormed
<1>4. phase' # "persisted" /\ phase # "persisted" /\ phase' # "persisting" /\ phase' \notin Opened
  BY <1>1 DEF Building, Opened
<1>5. QED
  BY <1>1, <1>3, <1>4 DEF StoreInv

\* The graph is offered to a store that is empty.
LEMMA ConnectStep ==
  ASSUME IInv, Connect \/ ConnectFails
  PROVE  StoreInv' /\ (Promise!Next \/ UNCHANGED <<wanted, nodes, edges, phase = "persisted">>)
<1>1. phase = "built" /\ UNCHANGED <<nodes, edges>> /\ UNCHANGED inputs
  BY DEF Connect, ConnectFails
<1>2. BuildingInv
  BY <1>1 DEF IInv, StoreInv, Building
<1>3. GivenNeo4j' = GivenNeo4j /\ GivenInMemory' = GivenInMemory
  BY <1>1, GivenKept
<1>4. Promise!WellFormed(GivenNeo4j.nodes, GivenNeo4j.edges) /\ Promise!WellFormed(GivenInMemory.nodes, GivenInMemory.edges)
  BY GivenWellFormed DEF IInv
<1>5. ASSUME phase' = "open", \/ backend' = "neo4j" /\ wanted' = GivenNeo4j
                              \/ backend' = "networkx" /\ wanted' = GivenInMemory
      PROVE  StoreInv' /\ Promise!Next
  <2>1. nodes' = {} /\ edges' = {} /\ nodes = {} /\ edges = {}
    BY <1>1, <1>2 DEF BuildingInv
  <2>2. OpenedInv'
    BY <1>3, <1>5, <2>1 DEF OpenedInv, Promise!WellFormed
  <2>3. StoreInv'
    BY <1>5, <2>2 DEF StoreInv, Building, Opened
  <2>4. Promise!WellFormed(wanted'.nodes, wanted'.edges)
    BY <1>4, <1>5
  <2>5. Promise!Offer
    BY <1>1, <1>5, <2>1, <2>4 DEF Promise!Offer, Promise!WellFormed
  <2>6. QED
    BY <2>3, <2>5 DEF Promise!Next
<1>6. CASE Connect
  BY <1>5, <1>6 DEF Connect
<1>7. CASE ConnectFails /\ tries' = ConnectRetries
  BY <1>5, <1>7 DEF ConnectFails
<1>8. CASE ConnectFails /\ tries' # ConnectRetries
  <2>1. UNCHANGED <<phase, backend, wanted>>
    BY <1>8 DEF ConnectFails
  <2>2. BuildingInv'
    BY <1>1, <1>2, <2>1 DEF BuildingInv, Promise!WellFormed
  <2>3. QED
    BY <1>1, <2>1, <2>2 DEF StoreInv, Building, Opened
<1>9. QED
  BY <1>6, <1>7, <1>8

\* The graph stays as it was given.
LEMMA OpenedKept ==
  ASSUME OpenedInv, UNCHANGED <<inputs, backend, wanted>>, nodes' \subseteq wanted.nodes, edges' \subseteq wanted.edges,
         Promise!WellFormed(nodes', edges')
  PROVE  OpenedInv'
<1>1. GivenNeo4j' = GivenNeo4j /\ GivenInMemory' = GivenInMemory
  BY GivenKept
<1>2. QED
  BY <1>1 DEF OpenedInv, Promise!WellFormed

\* The fallback is given all of the graph at once.
LEMMA PersistInMemoryStep ==
  ASSUME IInv, PersistInMemory
  PROVE  StoreInv' /\ Promise!Next
<1>1. OpenedInv /\ wanted = GivenInMemory /\ UNCHANGED <<inputs, backend, wanted>> /\ phase' = "persisted"
      /\ nodes' = InMemoryNodes /\ edges' = InMemoryEdges
  BY DEF IInv, StoreInv, OpenedInv, Opened, PersistInMemory
<1>2. nodes' = wanted.nodes /\ edges' = wanted.edges /\ Promise!WellFormed(nodes', edges')
  BY <1>1, GivenWellFormed DEF IInv
<1>3. OpenedInv'
  BY <1>1, <1>2, OpenedKept
<1>4. StoreInv'
  BY <1>1, <1>2, <1>3 DEF StoreInv, Building, Opened
<1>5. Promise!Return
  BY <1>1, <1>2 DEF Promise!Return
<1>6. QED
  BY <1>1, <1>4, <1>5 DEF Promise!Next

\* A call starts, or fails, without a write.
LEMMA StartStep ==
  ASSUME IInv, StartPersist \/ WriteFails
  PROVE  StoreInv' /\ UNCHANGED <<wanted, nodes, edges, phase = "persisted">>
<1>1. /\ phase \in Opened /\ phase # "persisted" /\ phase' \in Opened /\ phase' # "persisted"
      /\ UNCHANGED <<inputs, backend, wanted, nodes, edges>>
      /\ phase' = "persisting" => batch' = 1 /\ backend = "neo4j"
  BY DEF StartPersist, WriteFails, Opened
<1>2. OpenedInv
  BY <1>1 DEF IInv, StoreInv
<1>3. OpenedInv'
  BY <1>1, <1>2, OpenedKept DEF OpenedInv
<1>4. phase' = "persisting" => PersistingInv'
  <2>1. Len(Batches') \in Nat
    <3>1. Batches' = Batches
      BY <1>1, GivenKept
    <3>2. Len(Batches) \in Nat
      BY BatchesFacts DEF IInv
    <3>3. QED
      BY <3>1, <3>2
  <2>2. ASSUME phase' = "persisting" PROVE PersistingInv'
    <3>1. batch' = 1 /\ backend' = "neo4j"
      BY <1>1, <2>2
    <3>2. batch' \in 1..(Len(Batches') + 1) /\ 1..(batch' - 1) = {}
      BY <2>1, <3>1
    <3>3. QED
      BY <3>1, <3>2 DEF PersistingInv
  <2>3. QED
    BY <2>2
<1>5. StoreInv'
  BY <1>1, <1>3, <1>4 DEF StoreInv, Building, Opened
<1>6. QED
  BY <1>1, <1>5

\* A transaction stores a part.
LEMMA WriteStep ==
  ASSUME IInv, WriteBatch
  PROVE  StoreInv' /\ Promise!Next
<1>1. phase = "persisting" /\ phase' = "persisting" /\ wanted' = wanted
  BY DEF WriteBatch
<1>2. OpenedInv /\ PersistingInv
  BY <1>1 DEF IInv, StoreInv, Opened
<1>3. nodes \subseteq nodes' /\ edges \subseteq edges' /\ OpenedInv' /\ PersistingInv'
  BY <1>2, WriteKeeps DEF IInv
<1>4. StoreInv'
  BY <1>1, <1>3 DEF StoreInv, Building, Opened
<1>5. Promise!Store
  BY <1>1, <1>3 DEF Promise!Store, OpenedInv, Promise!WellFormed
<1>6. QED
  BY <1>1, <1>4, <1>5 DEF Promise!Next

\* A call returns when all batches are stored.
LEMMA EndStep ==
  ASSUME IInv, PersistEnds
  PROVE  StoreInv' /\ Promise!Next
<1>1. /\ phase = "persisting" /\ phase' = "persisted" /\ batch > Len(Batches)
      /\ UNCHANGED <<inputs, backend, wanted, nodes, edges>>
  BY DEF PersistEnds
<1>2. OpenedInv /\ PersistingInv
  BY <1>1 DEF IInv, StoreInv, Opened
<1>3. \A i \in 1..Len(Batches) : Stored(i)
  <2>1. Len(Batches) \in Nat
    BY BatchesFacts DEF IInv
  <2>2. 1..Len(Batches) \subseteq 1..(batch - 1)
    BY <1>1, <1>2, <2>1 DEF PersistingInv
  <2>3. QED
    BY <1>2, <2>2 DEF PersistingInv
<1>4. nodes = wanted.nodes /\ edges = wanted.edges
  BY <1>2, <1>3, AllStored DEF IInv, PersistingInv
<1>5. OpenedInv'
  BY <1>1, <1>2, OpenedKept DEF OpenedInv
<1>6. StoreInv'
  BY <1>1, <1>4, <1>5 DEF StoreInv, Building, Opened
<1>7. Promise!Return
  BY <1>1, <1>4 DEF Promise!Return
<1>8. QED
  BY <1>1, <1>6, <1>7 DEF Promise!Next

\* Another call.
LEMMA AgainStep ==
  ASSUME IInv, PersistAgain
  PROVE  StoreInv' /\ Promise!Next
<1>1. /\ phase = "persisted" /\ phase' = "open" /\ UNCHANGED <<inputs, backend, wanted, nodes, edges>>
  BY DEF PersistAgain, storeVars
<1>2. OpenedInv
  BY <1>1 DEF IInv, StoreInv, Opened
<1>3. OpenedInv'
  BY <1>1, <1>2, OpenedKept DEF OpenedInv
<1>4. StoreInv'
  BY <1>1, <1>3 DEF StoreInv, Building, Opened
<1>5. Promise!Store
  BY <1>1, <1>2 DEF Promise!Store, OpenedInv, Promise!WellFormed
<1>6. QED
  BY <1>1, <1>4, <1>5 DEF Promise!Next

\* The store is cleared.
LEMMA ClearStep ==
  ASSUME IInv, Clear
  PROVE  StoreInv' /\ Promise!Next
<1>1. /\ phase \in Opened /\ phase' = "open" /\ UNCHANGED <<inputs, backend, wanted>> /\ nodes' = {} /\ edges' = {}
  BY DEF Clear, Opened
<1>2. OpenedInv
  BY <1>1 DEF IInv, StoreInv
<1>3. OpenedInv'
  BY <1>1, <1>2, OpenedKept DEF Promise!WellFormed
<1>4. StoreInv'
  BY <1>1, <1>3 DEF StoreInv, Building, Opened
<1>5. Promise!Clear
  BY <1>1 DEF Promise!Clear
<1>6. QED
  BY <1>1, <1>4, <1>5 DEF Promise!Next

\* Every step of the system is one of the promise, or none.
LEMMA StoreStep ==
  ASSUME IInv, [Next]_vars
  PROVE  StoreInv' /\ [Promise!Next]_(Promise!vars)
<1>1. CASE UNCHANGED vars
  <2>1. UNCHANGED <<phase, wanted, batch, inputs, backend, nodes, edges>>
    BY <1>1 DEF vars, storeVars
  <2>2. Batches' = Batches /\ GivenNeo4j' = GivenNeo4j /\ GivenInMemory' = GivenInMemory
    BY <2>1, GivenKept
  <2>3. BuildingInv' = BuildingInv /\ OpenedInv' = OpenedInv
    BY <2>1, <2>2 DEF BuildingInv, OpenedInv, Promise!WellFormed
  <2>4. PersistingInv' = PersistingInv
    BY <2>1, <2>2 DEF PersistingInv, Stored
  <2>5. StoreInv'
    BY <2>1, <2>3, <2>4 DEF IInv, StoreInv
  <2>6. QED
    BY <2>1, <2>5 DEF Promise!vars
<1>2. CASE BuildTable \/ BuildCalls \/ BuildImports \/ Search \/ SearchEnds
  BY <1>2, BuildStep DEF Promise!vars
<1>3. CASE Connect \/ ConnectFails
  BY <1>3, ConnectStep DEF Promise!vars
<1>4. CASE StartPersist \/ WriteFails
  BY <1>4, StartStep DEF Promise!vars
<1>5. QED
  BY <1>1, <1>2, <1>3, <1>4, PersistInMemoryStep, WriteStep, EndStep, AgainStep, ClearStep DEF Next

-----------------------------------------------------------------------------
(* The queries.                                                            *)

\* The nodes within some hops are found ring by ring.
Grows(ball, E, direction, types, id, hops) ==
  /\ ball[0] = {id}
  /\ \A k \in 1..hops : ball[k] = ball[k - 1] \cup UNION {Neighbours(E, direction, types, n) : n \in ball[k - 1]}

\* Such rings exist, and Within takes them.
LEMMA WithinFacts ==
  ASSUME NEW E, NEW direction, NEW types, NEW id, NEW hops \in Nat
  PROVE  \E ball : Grows(ball, E, direction, types, id, hops)
                   /\ Within(E, direction, types, id, hops) = ball[hops] \ {id}
<1> DEFINE N(n) == Neighbours(E, direction, types, n)
           X == {id} \cup {e[1] : e \in E} \cup {e[2] : e \in E}
           V == SUBSET X
           step == [p \in V \X (1..hops) |-> p[1] \cup UNION {N(n) : n \in p[1]}]
           ball == CHOOSE f : f = [k \in 0..hops |-> IF k = 0 THEN {id}
                                     ELSE f[k - 1] \cup UNION {N(n) : n \in f[k - 1]}]
<1>1. \A n : N(n) \in V
  BY DEF Neighbours
<1> HIDE DEF X, N
<1>2. step \in [V \X (1..hops) -> V]
  <2>1. \A S \in V : S \cup UNION {N(n) : n \in S} \in V
    BY <1>1
  <2> HIDE DEF V
  <2>2. QED
    BY <2>1
<1>3. {id} \in V
  BY DEF X
<1> HIDE DEF V
<1>4. PICK g \in [0..hops -> V] : Recurs(g, {id}, hops, step)
  <2> HIDE DEF step
  <2>1. QED
    BY <1>2, <1>3, Recursion
<1>5. g[0] = {id} /\ \A k \in 1..hops : g[k] = g[k - 1] \cup UNION {N(n) : n \in g[k - 1]}
  <2>1. g[0] = {id} /\ \A k \in 1..hops : g[k] = step[<<g[k - 1], k>>]
    BY <1>4 DEF Recurs
  <2>2. ASSUME NEW k \in 1..hops PROVE g[k] = g[k - 1] \cup UNION {N(n) : n \in g[k - 1]}
    <3>1. k - 1 \in 0..hops
      OBVIOUS
    <3>2. g[k - 1] \in V
      BY <1>4, <3>1
    <3>3. <<g[k - 1], k>> \in V \X (1..hops)
      BY <3>2
    <3>4. step[<<g[k - 1], k>>] = g[k - 1] \cup UNION {N(n) : n \in g[k - 1]}
      BY <3>3
    <3>5. QED
      BY <2>1, <3>4
  <2>3. QED
    BY <2>1, <2>2
<1>6. g = [k \in 0..hops |-> IF k = 0 THEN {id} ELSE g[k - 1] \cup UNION {N(n) : n \in g[k - 1]}]
  <2>1. \A k \in 0..hops : k # 0 => k \in 1..hops
    OBVIOUS
  <2>2. \A k \in 0..hops : g[k] = IF k = 0 THEN {id} ELSE g[k - 1] \cup UNION {N(n) : n \in g[k - 1]}
    BY <1>5, <2>1
  <2>3. g = [k \in 0..hops |-> g[k]]
    BY <1>4
  <2>4. QED
    BY <2>2, <2>3
<1>7. ball = [k \in 0..hops |-> IF k = 0 THEN {id} ELSE ball[k - 1] \cup UNION {N(n) : n \in ball[k - 1]}]
  BY <1>6
<1>8. Within(E, direction, types, id, hops) = ball[hops] \ {id}
  BY DEF Within, N
<1> HIDE DEF ball
<1>9. ball[0] = {id} /\ \A k \in 1..hops : ball[k] = ball[k - 1] \cup UNION {N(n) : n \in ball[k - 1]}
  <2>1. 0 \in 0..hops /\ \A k \in 1..hops : k \in 0..hops /\ k # 0
    OBVIOUS
  <2>2. QED
    BY <1>7, <2>1
<1>10. Grows(ball, E, direction, types, id, hops)
  BY <1>9 DEF Grows, N
<1>11. QED
  BY <1>8, <1>10

\* Two graphs that are alike on a set that no edge leaves have the same neighbourhoods in it.
LEMMA WithinAlike ==
  ASSUME NEW E, NEW F, NEW d, NEW types, NEW S, NEW id \in S, NEW hops \in Nat,
         \A n \in S : Neighbours(E, d, types, n) = Neighbours(F, d, types, n) /\ Neighbours(E, d, types, n) \subseteq S
  PROVE  Within(E, d, types, id, hops) = Within(F, d, types, id, hops)
<1>0. \A G : \E ball : Grows(ball, G, d, types, id, hops) /\ Within(G, d, types, id, hops) = ball[hops] \ {id}
  BY WithinFacts
<1>1. PICK a : Grows(a, E, d, types, id, hops) /\ Within(E, d, types, id, hops) = a[hops] \ {id}
  BY <1>0
<1>2. PICK b : Grows(b, F, d, types, id, hops) /\ Within(F, d, types, id, hops) = b[hops] \ {id}
  BY <1>0
<1> DEFINE T == {k \in Nat : k <= hops => a[k] = b[k] /\ a[k] \subseteq S}
<1>3. 0 \in T
  BY <1>1, <1>2 DEF Grows
<1>4. ASSUME NEW k \in Nat, k \in T PROVE k + 1 \in T
  <2> SUFFICES ASSUME k + 1 <= hops PROVE a[k + 1] = b[k + 1] /\ a[k + 1] \subseteq S
    OBVIOUS
  <2>1. a[k] = b[k] /\ a[k] \subseteq S
    BY <1>4
  <2>2. k + 1 \in 1..hops /\ (k + 1) - 1 = k
    OBVIOUS
  <2>3. a[k + 1] = a[k] \cup UNION {Neighbours(E, d, types, n) : n \in a[k]}
    BY <1>1, <2>2 DEF Grows
  <2>4. b[k + 1] = b[k] \cup UNION {Neighbours(F, d, types, n) : n \in b[k]}
    BY <1>2, <2>2 DEF Grows
  <2>5. QED
    BY <2>1, <2>3, <2>4
<1> HIDE DEF T
<1>5. hops \in T
  BY <1>3, <1>4, Induct
<1>6. QED
  BY <1>1, <1>2, <1>5 DEF T

\* A graph with more edges has larger neighbourhoods.
LEMMA WithinMore ==
  ASSUME NEW E, NEW F, NEW d, NEW types, NEW id, NEW hops \in Nat,
         \A n : Neighbours(F, d, types, n) \subseteq Neighbours(E, d, types, n)
  PROVE  Within(F, d, types, id, hops) \subseteq Within(E, d, types, id, hops)
<1>1. PICK a : Grows(a, E, d, types, id, hops) /\ Within(E, d, types, id, hops) = a[hops] \ {id}
  BY WithinFacts
<1>2. PICK b : Grows(b, F, d, types, id, hops) /\ Within(F, d, types, id, hops) = b[hops] \ {id}
  BY WithinFacts
<1> DEFINE T == {k \in Nat : k <= hops => b[k] \subseteq a[k]}
<1>3. 0 \in T
  BY <1>1, <1>2 DEF Grows
<1>4. ASSUME NEW k \in Nat, k \in T PROVE k + 1 \in T
  <2> SUFFICES ASSUME k + 1 <= hops PROVE b[k + 1] \subseteq a[k + 1]
    OBVIOUS
  <2>1. b[k] \subseteq a[k]
    BY <1>4
  <2>2. k + 1 \in 1..hops /\ (k + 1) - 1 = k
    OBVIOUS
  <2>3. a[k + 1] = a[k] \cup UNION {Neighbours(E, d, types, n) : n \in a[k]}
    BY <1>1, <2>2 DEF Grows
  <2>4. b[k + 1] = b[k] \cup UNION {Neighbours(F, d, types, n) : n \in b[k]}
    BY <1>2, <2>2 DEF Grows
  <2>5. QED
    BY <2>1, <2>3, <2>4
<1> HIDE DEF T
<1>5. hops \in T
  BY <1>3, <1>4, Induct
<1>6. QED
  BY <1>1, <1>2, <1>5 DEF T

\* An edge with a symbol at one end has symbols at both; the others are imports.
LEMMA EdgeRowsFacts ==
  ASSUME GraphInv
  PROVE  \A e \in ToSet(EdgeRows) :
           /\ e[3] \in EdgeTypes
           /\ e[1] \in Symbols <=> e[2] \in Symbols
           /\ e[3] = "CALLS" => e[1] \in Symbols
<1>1. \A i \in Symbols : i[2] # 0
  BY SeqIs DEF GraphInv, TableInv, IsSeq, Symbols
<1>2. \A t : \A e \in Row(Symbols, t) : e[1] \in Symbols /\ e[2] \in Symbols /\ e[3] = t
  BY DEF Row
<1>3. /\ ToSet(CallRows) \subseteq Row(Symbols, "CALLS")
      /\ ToSet(InheritRows) \subseteq Row(Symbols, "INHERITS")
      /\ ToSet(ContainRows) \subseteq Row(Symbols, "CONTAINS")
  BY CallRowsFacts, InheritRowsFacts, ContainRowsFacts, SeqIs
<1>4. \A e \in ToSet(ImportRows) : e[1] \notin Symbols /\ e[2] \notin Symbols /\ e[3] = "IMPORTS"
  BY <1>1, ImportRowsFacts
<1>5. ToSet(EdgeRows) = ToSet(CallRows) \cup ToSet(ImportRows) \cup ToSet(InheritRows) \cup ToSet(ContainRows)
  BY RowsAreSeqs DEF EdgeRowSet
<1>6. QED
  BY <1>2, <1>3, <1>4, <1>5 DEF EdgeTypes

\* A pair of nodes that has rows has an edge in memory.
LEMMA LastRow ==
  ASSUME GraphInv
  PROVE  /\ InMemoryEdges \subseteq ToSet(EdgeRows)
         /\ \A e \in ToSet(EdgeRows) : \E x \in InMemoryEdges : x[1] = e[1] /\ x[2] = e[2]
<1> DEFINE rows == EdgeRows
           n == Len(rows)
           pair(k) == <<rows[k][1], rows[k][2]>>
<1>1. n \in Nat /\ DOMAIN rows = 1..n
  BY RowsAreSeqs, SeqIs DEF IsSeq
<1>2. InMemoryEdges = {rows[k] : k \in {i \in DOMAIN rows : \A j \in (i + 1)..n : pair(j) # pair(i)}}
  BY DEF InMemoryEdges
<1>3. ToSet(EdgeRows) = {rows[k] : k \in 1..n}
  BY <1>1 DEF ToSet
<1> HIDE DEF rows, n
<1>4. ASSUME NEW k \in 1..n PROVE \E x \in InMemoryEdges : x[1] = rows[k][1] /\ x[2] = rows[k][2]
  <2> DEFINE S == {j \in 1..n : pair(j) = pair(k)}
             m == Max(S)
  <2>1. S \in SUBSET 0..n /\ k \in S
    BY <1>1
  <2>2. m \in S /\ \A y \in S : y <= m
    <3> HIDE DEF S
    <3>1. QED
      BY <1>1, <2>1, MaxFacts
  <2> HIDE DEF m
  <2>3. m \in 1..n /\ pair(m) = pair(k)
    BY <2>2
  <2>4. \A j \in (m + 1)..n : pair(j) # pair(m)
    <3> SUFFICES ASSUME NEW j \in (m + 1)..n, pair(j) = pair(m) PROVE FALSE
      OBVIOUS
    <3>1. j \in 1..n /\ j > m
      BY <1>1, <2>3
    <3>2. j \in S
      BY <2>3, <3>1
    <3>3. QED
      BY <2>2, <2>3, <3>1, <3>2
  <2>5. rows[m] \in InMemoryEdges
    BY <1>1, <1>2, <2>3, <2>4
  <2>6. QED
    BY <2>3, <2>5
<1>5. InMemoryEdges \subseteq ToSet(EdgeRows)
  BY <1>1, <1>2, <1>3
<1>6. ASSUME NEW e \in ToSet(EdgeRows) PROVE \E x \in InMemoryEdges : x[1] = e[1] /\ x[2] = e[2]
  <2>1. PICK k \in 1..n : e = rows[k]
    BY <1>3
  <2>2. QED
    BY <1>4, <2>1
<1>7. QED
  BY <1>5, <1>6

\* A graph and the part of it that the fallback keeps answer alike.
LEMMA FallbackAlike ==
  ASSUME GraphInv, StoreInv
  PROVE  FallbackAnswersAlike
<1> SUFFICES ASSUME phase = "persisted", backend = "neo4j" PROVE FallbackAnswersAlike
  BY DEF FallbackAnswersAlike
<1> DEFINE F == InMemoryEdges
           R == ToSet(EdgeRows)
<1>1. edges = Matched(AllNodes, R)
  BY GivenWellFormed DEF StoreInv, OpenedInv, Opened
<1>2. /\ \A e \in R : e[3] \in EdgeTypes /\ (e[1] \in Symbols <=> e[2] \in Symbols) /\ (e[3] = "CALLS" => e[1] \in Symbols)
      /\ F \subseteq R /\ \A e \in R : \E x \in F : x[1] = e[1] /\ x[2] = e[2]
  BY EdgeRowsFacts, LastRow
<1>3. edges \subseteq R /\ \A e \in R : e[1] \in Symbols => e \in edges
  BY <1>1, <1>2 DEF Matched, AllNodes
<1>4. \A r \in ToSet(table) : r.id \in Symbols
  BY DEF Symbols, ToSet
<1> HIDE DEF F, R
<1>5. ASSUME NEW d, NEW n \in Symbols
      PROVE  /\ Neighbours(edges, d, EdgeTypes, n) = Neighbours(F, d, EdgeTypes, n)
             /\ Neighbours(edges, d, EdgeTypes, n) \subseteq Symbols
  <2> DEFINE Out(G) == {e[2] : e \in {x \in G : x[1] = n /\ x[3] \in EdgeTypes}}
             In(G) == {e[1] : e \in {x \in G : x[2] = n /\ x[3] \in EdgeTypes}}
  <2>1. Out(edges) = Out(F) /\ Out(edges) \subseteq Symbols
    <3>1. ASSUME NEW e \in edges, e[1] = n PROVE \E x \in F : x[1] = n /\ x[2] = e[2] /\ x[3] \in EdgeTypes
      BY <1>2, <1>3, <3>1
    <3>2. ASSUME NEW e \in F, e[1] = n PROVE e \in edges
      BY <1>2, <1>3, <3>2
    <3>3. ASSUME NEW e \in edges, e[1] = n PROVE e[2] \in Symbols
      BY <1>2, <1>3, <3>3
    <3>4. Out(edges) \subseteq Symbols
      BY <3>3
    <3>5. Out(edges) \subseteq Out(F)
      BY <3>1
    <3>6. Out(F) \subseteq Out(edges)
      BY <3>2
    <3>7. QED
      BY <3>4, <3>5, <3>6
  <2>2. In(edges) = In(F) /\ In(edges) \subseteq Symbols
    <3>1. ASSUME NEW e \in edges, e[2] = n PROVE \E x \in F : x[2] = n /\ x[1] = e[1] /\ x[3] \in EdgeTypes
      BY <1>2, <1>3, <3>1
    <3>2. ASSUME NEW e \in F, e[2] = n PROVE e \in edges
      BY <1>2, <1>3, <3>2
    <3>3. ASSUME NEW e \in edges, e[2] = n PROVE e[1] \in Symbols
      BY <1>2, <1>3, <3>3
    <3>4. In(edges) \subseteq Symbols
      BY <3>3
    <3>5. In(edges) \subseteq In(F)
      BY <3>1
    <3>6. In(F) \subseteq In(edges)
      BY <3>2
    <3>7. QED
      BY <3>4, <3>5, <3>6
  <2>3. \A G : Neighbours(G, d, EdgeTypes, n) =
          (IF d = "in" THEN {} ELSE Out(G)) \cup (IF d = "out" THEN {} ELSE In(G))
    BY DEF Neighbours
  <2> HIDE DEF Out, In
  <2>4. QED
    BY <2>1, <2>2, <2>3
<1>6. ASSUME NEW n PROVE Neighbours(F, "in", {"CALLS"}, n) \subseteq Neighbours(edges, "in", {"CALLS"}, n)
  <2>1. \A e \in F : e[3] = "CALLS" => e \in edges
    BY <1>2, <1>3
  <2>2. QED
    BY <2>1 DEF Neighbours
<1>7. Depth \in Nat
  BY GraphStoreAssumption
<1>8. ASSUME NEW id \in Symbols, NEW hop \in 1..Depth
      PROVE  /\ \A d : Ring(edges, d, EdgeTypes, id, hop) = Ring(F, d, EdgeTypes, id, hop)
             /\ Within(F, "in", {"CALLS"}, id, hop) \subseteq Within(edges, "in", {"CALLS"}, id, hop)
  <2>1. hop \in Nat /\ hop - 1 \in Nat
    BY <1>7
  <2>2. \A d : \A k \in Nat : Within(edges, d, EdgeTypes, id, k) = Within(F, d, EdgeTypes, id, k)
    BY <1>5, WithinAlike
  <2>3. Within(F, "in", {"CALLS"}, id, hop) \subseteq Within(edges, "in", {"CALLS"}, id, hop)
    BY <1>6, <2>1, WithinMore
  <2>4. QED
    BY <2>1, <2>2, <2>3 DEF Ring
<1>9. QED
  BY <1>4, <1>8 DEF FallbackAnswersAlike, F

\* The two builders resolve the same modules.
LEMMA BuildersAlike == ASSUME GraphInv PROVE BuildersAgree
<1> SUFFICES ASSUME NEW f \in ToSet(repo.files), Plain(f)
             PROVE  {d.target : d \in {x \in ToSet(DependencyGraph(repo)) : x.source = f}}
                      = {d.target : d \in {x \in SymbolDependencies(repo) : x.source = f}}
  BY DEF BuildersAgree
<1> DEFINE S == ToSet(Statements(repo, f))
           targets(m) == ToSet(Resolve(repo, m, f))
           D == ToSet(DependencyGraph(repo))
           ofSymbols == UNION {targets(SymbolModule(repo, f, s)) : s \in ToSet(FileImports(repo, f))}
           ofStatements == UNION {targets(Imported(n)) : n \in S}
<1>1. IsRepo(repo)
  BY GraphStoreAssumption DEF GraphInv
<1>2. \A n \in S : IsStatement(n)
  BY <1>1, StatementFacts DEF IsRepo, IsStatement
<1>3. \A n \in S : PlainStatement(n)
  BY DEF Plain
<1>4. \A n \in S : /\ ToSet(ImportSymbols(n)) # {} /\ Imported(n) = n.module
                   /\ \A s \in ToSet(ImportSymbols(n)) : s.source = n.module /\ s.alias = FALSE
  <2> TAKE n \in S
  <2>1. IsStatement(n) /\ PlainStatement(n)
    BY <1>2, <1>3
  <2> HIDE DEF S
  <2>2. QED
    BY <2>1, SymbolFacts
<1>5. \A s : s.alias = FALSE => SymbolModule(repo, f, s) = s.source
  BY DEF SymbolModule
<1>6. ToSet(FileImports(repo, f)) = UNION {ToSet(ImportSymbols(n)) : n \in S}
  BY <1>1, ImportsFacts
<1> HIDE DEF S, targets
<1>7. ofSymbols = ofStatements
  <2>1. ASSUME NEW n \in S PROVE \E s \in ToSet(FileImports(repo, f)) : SymbolModule(repo, f, s) = Imported(n)
    BY <1>4, <1>5, <1>6
  <2>2. ASSUME NEW s \in ToSet(FileImports(repo, f)) PROVE \E n \in S : SymbolModule(repo, f, s) = Imported(n)
    BY <1>4, <1>5, <1>6
  <2>3. QED
    BY <2>1, <2>2
<1>8. {d.target : d \in {x \in D : x.source = f}} = ofStatements
  <2>1. \A d : d \in D <=> \E h \in ToSet(repo.files) : \E n \in ToSet(Statements(repo, h)) :
                \E g \in ToSet(Resolve(repo, Imported(n), h)) :
                  d = [source |-> h, target |-> g, module |-> Imported(n)]
    BY <1>1, DependencyFacts
  <2> HIDE DEF D
  <2>2. ASSUME NEW d \in D, d.source = f PROVE d.target \in ofStatements
    <3>1. PICK h \in ToSet(repo.files) : \E n \in ToSet(Statements(repo, h)) :
                \E g \in ToSet(Resolve(repo, Imported(n), h)) :
                  d = [source |-> h, target |-> g, module |-> Imported(n)]
      BY <2>1, <2>2
    <3>2. h = f
      BY <2>2, <3>1
    <3>3. QED
      BY <3>1, <3>2 DEF S, targets
  <2>3. ASSUME NEW n \in S, NEW g \in targets(Imported(n))
        PROVE  \E d \in D : d.source = f /\ d.target = g
    <3> DEFINE d == [source |-> f, target |-> g, module |-> Imported(n)]
    <3>1. d \in D
      BY <2>1 DEF S, targets
    <3>2. QED
      BY <3>1
  <2>4. QED
    BY <2>2, <2>3
<1>9. {d.target : d \in {x \in SymbolDependencies(repo) : x.source = f}} = ofSymbols
  <2> DEFINE of(h) == UNION {ToSet(Resolve(repo, SymbolModule(repo, h, s), h)) : s \in ToSet(FileImports(repo, h))}
             edge(h, g) == [source |-> h, target |-> g]
  <2>1. SymbolDependencies(repo) = UNION {{edge(h, g) : g \in of(h)} : h \in ToSet(repo.files)}
    BY DEF SymbolDependencies
  <2>2. of(f) = ofSymbols
    BY DEF targets
  <2>3. \A h, g : edge(h, g).source = h /\ edge(h, g).target = g
    OBVIOUS
  <2> HIDE DEF of, edge, ofSymbols
  <2>4. ASSUME NEW d \in SymbolDependencies(repo), d.source = f PROVE d.target \in of(f)
    <3>1. PICK h \in ToSet(repo.files) : d \in {edge(h, g) : g \in of(h)}
      BY <2>1
    <3>2. PICK g \in of(h) : d = edge(h, g)
      BY <3>1
    <3>3. QED
      BY <2>3, <2>4, <3>2
  <2>5. ASSUME NEW g \in of(f) PROVE \E d \in SymbolDependencies(repo) : d.source = f /\ d.target = g
    <3>1. edge(f, g) \in SymbolDependencies(repo)
      BY <2>1
    <3>2. QED
      BY <2>3, <3>1
  <2>6. QED
    BY <2>2, <2>4, <2>5
<1>10. QED
  BY <1>7, <1>8, <1>9 DEF D

-----------------------------------------------------------------------------
(* find_method.  Its search goes on from the top of its stack: it need     *)
(* not end to be defined (TailRecursion), and it ends because a place is   *)
(* left for one with fewer classes unseen or, with as many, a shorter      *)
(* stack (MethodSearch).                                                   *)

\* A function that goes on from each place to the next until it may stop, exists,
\* whether it gets to stop or not.
LEMMA TailRecursion ==
  ASSUME NEW D, NEW Stop \in SUBSET D, NEW next \in [D \ Stop -> D], NEW val
  PROVE  \E f : f = [p \in D |-> IF p \in Stop THEN val[p] ELSE f[next[p]]]
<1> DEFINE From(q) == {p \in D : \A X \in SUBSET D :
                         q \in X /\ (\A r \in D \ Stop : next[r] \in X => r \in X) => p \in X}
           Ends(p) == {q \in Stop : p \in From(q)}
<1>1. ASSUME NEW q \in Stop PROVE q \in From(q) /\ \A r \in D \ Stop : next[r] \in From(q) => r \in From(q)
  OBVIOUS
<1>2. ASSUME NEW q \in Stop, NEW p \in From(q), p # q,
             \A r \in D \ Stop : r = p => next[r] \notin From(q)
      PROVE  FALSE
  <2> DEFINE X == From(q) \ {p}
  <2>1. X \in SUBSET D /\ q \in X
    BY <1>1, <1>2
  <2>2. \A r \in D \ Stop : next[r] \in X => r \in X
    BY <1>1, <1>2
  <2>3. p \in X
    BY <1>2, <2>1, <2>2
  <2>4. QED
    BY <2>3
<1>3. ASSUME NEW p \in Stop PROVE Ends(p) = {p}
  <2>1. p \in From(p)
    BY <1>1
  <2>2. ASSUME NEW q \in Stop, p \in From(q), p # q PROVE FALSE
    <3> HIDE DEF From
    <3>1. QED
      BY <1>2, <2>2
  <2> HIDE DEF From
  <2>3. QED
    BY <2>1, <2>2
<1>4. ASSUME NEW p \in D \ Stop PROVE Ends(p) = Ends(next[p])
  <2>1. ASSUME NEW q \in Stop PROVE p \in From(q) <=> next[p] \in From(q)
    <3>1. next[p] \in From(q) => p \in From(q)
      BY <1>1
    <3> HIDE DEF From
    <3>2. p \in From(q) /\ next[p] \notin From(q) => FALSE
      BY <1>2
    <3>3. QED
      BY <3>1, <3>2
  <2> HIDE DEF From
  <2>2. QED
    BY <2>1
<1> HIDE DEF Ends
<1> DEFINE f == [p \in D |-> IF Ends(p) = {} THEN <<>> ELSE val[CHOOSE q : q \in Ends(p)]]
<1>f. \A p \in D : f[p] = IF Ends(p) = {} THEN <<>> ELSE val[CHOOSE q : q \in Ends(p)]
  OBVIOUS
<1>d. f = [p \in D |-> f[p]]
  OBVIOUS
<1> HIDE DEF f
<1>5. ASSUME NEW p \in D PROVE f[p] = IF p \in Stop THEN val[p] ELSE f[next[p]]
  <2>1. CASE p \in Stop
    <3>1. Ends(p) = {p}
      BY <1>3, <2>1
    <3>2. (CHOOSE q : q \in {p}) = p
      OBVIOUS
    <3>3. QED
      BY <1>f, <2>1, <3>1, <3>2
  <2>2. CASE p \notin Stop
    <3>1. next[p] \in D /\ Ends(p) = Ends(next[p])
      BY <1>4, <2>2
    <3>2. f[p] = f[next[p]]
      BY <1>f, <3>1
    <3>3. QED
      BY <2>2, <3>2
  <2>3. QED
    BY <2>1, <2>2
<1>6. f = [p \in D |-> IF p \in Stop THEN val[p] ELSE f[next[p]]]
  BY <1>d, <1>5
<1>7. QED
  BY <1>6

\* What walk does at a place while it has a stack: the classes on it, and the keys
\* seen.
Walks(w, D, key, bases, own) ==
  \A at \in D : at[1] # <<>> =>
    w[at] = LET c == at[1][Len(at[1])]
                rest == SubSeq(at[1], 1, Len(at[1]) - 1)
            IN  IF key[c] \in at[2] THEN w[<<rest, at[2]>>]
                ELSE IF own[c] # <<>> THEN own[c]
                ELSE w[<<rest \o bases[c], at[2] \cup {key[c]}>>]

\* The classes that are seen have no such method, and their bases are seen or on the
\* stack, as is the class that the search started from.
Searched(at, A, key, bases, own, start) ==
  LET seen == {c \in A : key[c] \in at[2]}
  IN  /\ start \in seen \cup ToSet(at[1])
      /\ \A c \in seen : own[c] = <<>> /\ ToSet(bases[c]) \subseteq seen \cup ToSet(at[1])

\* What is then found is a method of a class, or the stack runs empty and there is
\* none in the classes that are reached from the start.
Finds(found, w, K, A, bases, own, start) ==
  \/ \E c \in A : own[c] # <<>> /\ found = own[c]
  \/ /\ \E X \in SUBSET K : found = w[<< <<>>, X >>]
     /\ \E G \in SUBSET A : start \in G /\ \A c \in G : own[c] = <<>> /\ ToSet(bases[c]) \subseteq G

\* The top of a stack, and what is below it.
LEMMA PopFacts ==
  ASSUME NEW S, NEW s \in Seq(S), s # <<>>
  PROVE  /\ Len(s) \in Nat \ {0} /\ s[Len(s)] \in S
         /\ SubSeq(s, 1, Len(s) - 1) \in Seq(S) /\ Len(SubSeq(s, 1, Len(s) - 1)) = Len(s) - 1
         /\ ToSet(s) = ToSet(SubSeq(s, 1, Len(s) - 1)) \cup {s[Len(s)]}
<1>1. PICK n \in Nat \ {0} : n = Len(s)
  BY EmptySeq, LenProperties
<1>2. \A i \in 1..n : s[i] \in S
  BY <1>1, ElementOfSeq
<1> DEFINE t == SubSeq(s, 1, n - 1)
<1>3. t \in Seq(S) /\ Len(t) = n - 1 /\ \A i \in 1..(n - 1) : t[i] = s[i]
  <2>1. 1 \in Int /\ n - 1 \in Int /\ \A i \in 1..(n - 1) : s[i] \in S
    BY <1>2
  <2>2. /\ t \in Seq(S) /\ Len(t) = IF 1 <= n - 1 THEN (n - 1) - 1 + 1 ELSE 0
        /\ \A i \in 1..((n - 1) - 1 + 1) : t[i] = s[1 + i - 1]
    <3> HIDE DEF t
    <3>1. QED
      BY <2>1, SubSeqProperties DEF t
  <2> HIDE DEF t
  <2>3. QED
    BY <2>2
<1> HIDE DEF t
<1>4. DOMAIN s = 1..n /\ DOMAIN t = 1..(n - 1)
  BY <1>1, <1>3, LenProperties
<1>5. n \in 1..n /\ (\A i \in 1..n : i = n \/ i \in 1..(n - 1)) /\ \A i \in 1..(n - 1) : i \in 1..n
  OBVIOUS
<1>6. ToSet(s) = ToSet(t) \cup {s[n]}
  BY <1>3, <1>4, <1>5 DEF ToSet
<1>7. QED
  BY <1>1, <1>2, <1>3, <1>5, <1>6 DEF t

\* Such a search finds what is there: with as many classes unseen it ends because the
\* stack gets shorter, and a class is seen once.
LEMMA MethodSearch ==
  ASSUME NEW A, NEW K, IsFiniteSet(K),
         NEW key, \A c \in A : key[c] \in K, \A c, d \in A : key[c] = key[d] => c = d,
         NEW bases, \A c \in A : bases[c] \in Seq(A), NEW own, NEW start \in A,
         NEW w, Walks(w, Seq(A) \X SUBSET K, key, bases, own),
         NEW first \in Seq(A) \X SUBSET K, Searched(first, A, key, bases, own, start)
  PROVE  Finds(w[first], w, K, A, bases, own, start)
<1> DEFINE D == Seq(A) \X SUBSET K
           Left(at) == Cardinality(K \ at[2])
           Good(at) == Searched(at, A, key, bases, own, start)
           Right(at) == Finds(w[at], w, K, A, bases, own, start)
           T == {n \in Nat : \A at \in D : Good(at) /\ Left(at) < n => Right(at)}
<1>1. \A at \in D : Left(at) \in Nat
  <2> TAKE at \in D
  <2>1. IsFiniteSet(K \ at[2])
    BY FS_Difference
  <2>2. QED
    BY <2>1, FS_CardinalityType
<1>2. ASSUME NEW at \in D, Good(at), at[1] = <<>> PROVE Right(at)
  <2> DEFINE G == {c \in A : key[c] \in at[2]}
  <2>1. at = << <<>>, at[2] >> /\ at[2] \in SUBSET K
    BY <1>2
  <2>2. ToSet(at[1]) = {}
    BY <1>2 DEF ToSet
  <2>3. start \in G /\ \A c \in G : own[c] = <<>> /\ ToSet(bases[c]) \subseteq G
    BY <1>2, <2>2 DEF Searched
  <2>4. G \in SUBSET A
    OBVIOUS
  <2> HIDE DEF G
  <2>5. QED
    BY <2>1, <2>3, <2>4 DEF Finds
<1>3. ASSUME NEW at \in D, Good(at), at[1] # <<>>
      PROVE  LET c == at[1][Len(at[1])]
                 rest == SubSeq(at[1], 1, Len(at[1]) - 1)
                 pop == <<rest, at[2]>>
                 push == <<rest \o bases[c], at[2] \cup {key[c]}>>
             IN  /\ c \in A /\ Len(at[1]) \in Nat \ {0}
                 /\ key[c] \in at[2] => /\ pop \in D /\ Good(pop) /\ Left(pop) = Left(at)
                                        /\ Len(pop[1]) = Len(at[1]) - 1 /\ w[at] = w[pop]
                 /\ key[c] \notin at[2] /\ own[c] # <<>> => w[at] = own[c]
                 /\ key[c] \notin at[2] /\ own[c] = <<>> =>
                      push \in D /\ Good(push) /\ Left(push) = Left(at) - 1 /\ w[at] = w[push]
  <2> DEFINE n == Len(at[1])
             c == at[1][n]
             rest == SubSeq(at[1], 1, n - 1)
             pop == <<rest, at[2]>>
             push == <<rest \o bases[c], at[2] \cup {key[c]}>>
             seen == {d \in A : key[d] \in at[2]}
  <2>1. at[1] \in Seq(A) /\ at[2] \in SUBSET K
    OBVIOUS
  <2>2. n \in Nat \ {0} /\ c \in A
    BY <1>3, <2>1, PopFacts
  <2>3. rest \in Seq(A) /\ Len(rest) = n - 1
    BY <1>3, <2>1, PopFacts
  <2>4. ToSet(at[1]) = ToSet(rest) \cup {c}
    BY <1>3, <2>1, PopFacts
  <2>5. w[at] = IF key[c] \in at[2] THEN w[pop] ELSE IF own[c] # <<>> THEN own[c] ELSE w[push]
    BY <1>3 DEF Walks
  <2>6. start \in seen \cup ToSet(at[1]) /\ \A d \in seen : own[d] = <<>> /\ ToSet(bases[d]) \subseteq seen \cup ToSet(at[1])
    BY <1>3 DEF Searched
  <2> HIDE DEF rest
  <2>7. ASSUME key[c] \in at[2]
        PROVE  pop \in D /\ Good(pop) /\ Left(pop) = Left(at) /\ Len(pop[1]) = n - 1
    <3>1. c \in seen
      BY <2>2, <2>7
    <3>2. pop[1] = rest /\ pop[2] = at[2] /\ pop \in D
      BY <2>1, <2>3
    <3> HIDE DEF pop
    <3>3. seen \cup ToSet(at[1]) = seen \cup ToSet(rest)
      BY <2>4, <3>1
    <3>4. Good(pop)
      BY <2>6, <3>2, <3>3 DEF Searched
    <3>5. QED
      BY <2>3, <3>2, <3>4
  <2>8. ASSUME key[c] \notin at[2], own[c] = <<>>
        PROVE  push \in D /\ Good(push) /\ Left(push) = Left(at) - 1
    <3>1. bases[c] \in Seq(A) /\ key[c] \in K
      BY <2>2
    <3>2. rest \o bases[c] \in Seq(A) /\ ToSet(rest \o bases[c]) = ToSet(rest) \cup ToSet(bases[c])
      BY <2>3, <3>1, ConcatFacts
    <3>3. push[1] = rest \o bases[c] /\ push[2] = at[2] \cup {key[c]} /\ push \in D
      BY <2>1, <3>1, <3>2
    <3> DEFINE more == {d \in A : key[d] \in push[2]}
    <3> HIDE DEF push
    <3>4. more = seen \cup {c}
      BY <2>2, <3>3
    <3> HIDE DEF more, seen
    <3>5. Good(push)
      <4>1. start \in more \cup ToSet(push[1])
        BY <2>4, <2>6, <3>2, <3>3, <3>4
      <4>2. \A d \in more : own[d] = <<>> /\ ToSet(bases[d]) \subseteq more \cup ToSet(push[1])
        BY <2>4, <2>6, <2>8, <3>2, <3>3, <3>4
      <4>3. QED
        BY <4>1, <4>2 DEF Searched, more
    <3>6. Left(push) = Left(at) - 1
      <4>1. IsFiniteSet(K \ at[2]) /\ key[c] \in K \ at[2]
        BY <2>8, <3>1, FS_Difference
      <4>2. K \ push[2] = (K \ at[2]) \ {key[c]}
        BY <3>3
      <4> DEFINE U == K \ at[2]
                 k == key[c]
      <4> HIDE DEF U, k
      <4>3. IsFiniteSet(U) /\ k \in U
        BY <4>1 DEF U, k
      <4>4. Cardinality(U \ {k}) = Cardinality(U) - 1
        BY <4>3, FS_RemoveElement
      <4>5. QED
        BY <4>2, <4>4 DEF U, k
    <3>7. QED
      BY <3>3, <3>5, <3>6
  <2> HIDE DEF pop, push, seen
  <2>9. QED
    BY <2>2, <2>5, <2>7, <2>8 DEF pop, push, rest
<1>4. ASSUME NEW n \in Nat, n \in T PROVE n + 1 \in T
  <2> DEFINE M == {m \in Nat : \A at \in D : Good(at) /\ Left(at) = n /\ Len(at[1]) <= m => Right(at)}
  <2>1. 0 \in M
    <3>1. \A at \in D : Len(at[1]) <= 0 => at[1] = <<>>
      <4> TAKE at \in D
      <4>1. at[1] \in Seq(A)
        OBVIOUS
      <4>2. QED
        BY <4>1, EmptySeq, LenProperties
    <3> HIDE DEF D, Good, Left, Right
    <3>2. QED
      BY <1>2, <3>1
  <2>2. ASSUME NEW m \in Nat, m \in M PROVE m + 1 \in M
    <3>1. SUFFICES ASSUME NEW at \in D, Good(at), Left(at) = n, Len(at[1]) <= m + 1 PROVE Right(at)
      <4> HIDE DEF D, Good, Left, Right
      <4>1. QED
        OBVIOUS
    <3>2. CASE at[1] = <<>>
      <4> HIDE DEF D, Good, Right
      <4>1. QED
        BY <1>2, <3>1, <3>2
    <3>3. CASE at[1] # <<>>
      <4> DEFINE c == at[1][Len(at[1])]
                 rest == SubSeq(at[1], 1, Len(at[1]) - 1)
                 pop == <<rest, at[2]>>
                 push == <<rest \o bases[c], at[2] \cup {key[c]}>>
      <4> HIDE DEF D, Good, Left
      <4>0. /\ c \in A /\ Len(at[1]) \in Nat \ {0}
            /\ key[c] \in at[2] => /\ pop \in D /\ Good(pop) /\ Left(pop) = Left(at)
                                   /\ Len(pop[1]) = Len(at[1]) - 1 /\ w[at] = w[pop]
            /\ key[c] \notin at[2] /\ own[c] # <<>> => w[at] = own[c]
            /\ key[c] \notin at[2] /\ own[c] = <<>> =>
                 push \in D /\ Good(push) /\ Left(push) = Left(at) - 1 /\ w[at] = w[push]
        BY <1>3, <3>1, <3>3
      <4> HIDE DEF c, pop, push
      <4>1. CASE key[c] \in at[2]
        <5>1. pop \in D /\ Good(pop) /\ Left(pop) = n /\ Len(pop[1]) <= m /\ w[at] = w[pop]
          BY <3>1, <4>0, <4>1
        <5>2. Right(pop)
          BY <2>2, <5>1
        <5>3. QED
          BY <5>1, <5>2
      <4>2. CASE key[c] \notin at[2] /\ own[c] # <<>>
        BY <4>0, <4>2 DEF Finds
      <4>3. CASE key[c] \notin at[2] /\ own[c] = <<>>
        <5>1. push \in D /\ Good(push) /\ Left(push) = n - 1 /\ w[at] = w[push]
          BY <3>1, <4>0, <4>3
        <5>2. Left(push) < n
          BY <1>1, <5>1
        <5>3. Right(push)
          BY <1>4, <5>1, <5>2
        <5>4. QED
          BY <5>1, <5>3
      <4>4. QED
        BY <4>1, <4>2, <4>3
    <3>4. QED
      BY <3>2, <3>3
  <2> HIDE DEF M
  <2>3. \A m \in Nat : m \in M
    BY <2>1, <2>2, Induct
  <2>4. ASSUME NEW at \in D, Good(at), Left(at) < n + 1 PROVE Right(at)
    <3>1. Left(at) \in Nat /\ Len(at[1]) \in Nat
      <4>1. at[1] \in Seq(A)
        OBVIOUS
      <4>2. QED
        BY <1>1, <4>1, LenProperties
    <3> HIDE DEF D, Good, Left, Right
    <3>2. CASE Left(at) < n
      BY <1>4, <2>4, <3>2
    <3>3. CASE Left(at) = n
      BY <2>3, <2>4, <3>1, <3>3 DEF M
    <3>4. QED
      BY <2>4, <3>1, <3>2, <3>3
  <2>5. QED
    BY <2>4
<1>5. 0 \in T
  <2> HIDE DEF D, Good, Left, Right
  <2>1. QED
    BY <1>1
<1>6. first \in D /\ Good(first)
  OBVIOUS
<1> HIDE DEF T
<1>7. \A n \in Nat : n \in T
  BY <1>4, <1>5, Induct
<1>8. Left(first) + 1 \in T /\ Left(first) < Left(first) + 1
  <2>1. Left(first) \in Nat
    BY <1>1, <1>6
  <2>2. QED
    BY <1>7, <2>1
<1> HIDE DEF D, Good, Left, Right
<1>9. Right(first)
  BY <1>6, <1>8 DEF T
<1>10. QED
  BY <1>9 DEF Right

\* Names of parts of a qualified name.
NameParts(R, f) == {"<locals>"} \cup {R.code[f][i].name : i \in Defs(R, f)}

\* A qualified name ends in the definition's own name, and is only that at module
\* level.
LEMMA QualifiedFacts ==
  ASSUME NEW R, IsRepo(R), NEW f \in ToSet(R.files), NEW i \in Defs(R, f)
  PROVE  \E outer \in Seq(NameParts(R, f)) :
           /\ Qualified(R, <<f, i>>) = outer \o <<R.code[f][i].name>>
           /\ R.code[f][i].up = 0 <=> outer = <<>>
<1> DEFINE src == R.code[f]
           P == Defs(R, f)
           V == NameParts(R, f)
           below(g, k) == g[src[k].up] \o IF src[src[k].up].kind = "def" THEN <<"<locals>">> ELSE <<>>
           step(g, k) == (IF src[k].up = 0 THEN <<>>
                          ELSE g[src[k].up] \o IF src[src[k].up].kind = "def" THEN <<"<locals>">> ELSE <<>>)
                         \o <<src[k].name>>
           whole == CHOOSE g : g = [k \in P |-> step(g, k)]
<1>1. /\ P \in SUBSET Nat
      /\ \A k \in P : src[k].up # 0 => src[k].up \in P /\ src[k].up < k
      /\ \E n \in Nat : \A k \in P : k <= n
  <2>1. DOMAIN src = 1..Len(src) /\ Len(src) \in Nat
    BY SeqIs DEF IsRepo, IsSeq
  <2>2. P \in SUBSET 1..Len(src)
    BY <2>1 DEF Defs
  <2>3. \A k \in P : src[k].up \in {0} \cup {d \in P : d < k}
    BY DEF IsRepo
  <2>4. \E n \in Nat : \A k \in P : k <= n
    <3>1. PICK n \in Nat : n = Len(src)
      BY <2>1
    <3> HIDE DEF P, src
    <3>2. \A k \in P : k <= n
      BY <2>2, <3>1
    <3>3. QED
      BY <3>2
  <2>5. P \in SUBSET Nat
    BY <2>2
  <2> HIDE DEF P, src
  <2>6. \A k \in P : src[k].up # 0 => src[k].up \in P /\ src[k].up < k
    BY <2>3
  <2>7. QED
    BY <2>4, <2>5, <2>6
<1>2. /\ \A k \in P : src[k].name \in V
      /\ "<locals>" \in V
  BY DEF NameParts
<1>3. Qualified(R, <<f, i>>) = whole[i]
  BY DEF Qualified
<1> HIDE DEF P, V, src, whole
<1> DEFINE T == {n \in Nat : \E g : g = [k \in {p \in P : p <= n} |-> step(g, k)]}
<1>4. 0 \in T
  <2> DEFINE g == [k \in {p \in P : p <= 0} |-> step(src, k)]
  <2>1. \A k \in P : k <= 0 => src[k].up = 0
    <3> TAKE k \in P
    <3>1. k \in Nat
      BY <1>1
    <3>2. src[k].up # 0 => src[k].up \in Nat /\ src[k].up < k
      BY <1>1
    <3>3. QED
      BY <3>1, <3>2
  <2>2. g = [k \in {p \in P : p <= 0} |-> step(g, k)]
    <3>1. \A k \in {p \in P : p <= 0} : step(src, k) = step(g, k)
      BY <2>1
    <3>2. QED
      BY <3>1
  <2> HIDE DEF g
  <2>3. QED
    BY <2>2
<1>5. ASSUME NEW n \in Nat, n \in T PROVE n + 1 \in T
  <2>1. PICK g : g = [k \in {p \in P : p <= n} |-> step(g, k)]
    BY <1>5
  <2> DEFINE Q == {p \in P : p <= n + 1}
             h == [k \in Q |-> step(g, k)]
  <2>2. \A k \in Q : k <= n => h[k] = g[k]
    <3> TAKE k \in Q
    <3>1. k <= n => g[k] = step(g, k)
      BY <2>1
    <3>2. QED
      BY <3>1
  <2>3. \A k \in Q : src[k].up # 0 => h[src[k].up] = g[src[k].up]
    <3> TAKE k \in Q
    <3>0. k \in P /\ k \in Nat /\ k <= n + 1
      BY <1>1
    <3>1. src[k].up # 0 => src[k].up \in Q /\ src[k].up <= n
      <4>1. src[k].up # 0 => src[k].up \in P /\ src[k].up \in Nat /\ src[k].up < k
        BY <1>1, <3>0
      <4>2. QED
        BY <3>0, <4>1
    <3> HIDE DEF h, Q
    <3>2. QED
      BY <2>2, <3>1
  <2>4. h = [k \in Q |-> step(h, k)]
    <3>1. \A k \in Q : step(h, k) = step(g, k)
      <4> HIDE DEF h, Q
      <4>1. QED
        BY <2>3
    <3>2. QED
      BY <3>1
  <2> HIDE DEF h, step
  <2>5. QED
    BY <2>4
<1>6. whole = [k \in P |-> step(whole, k)]
  <2> HIDE DEF T
  <2>1. PICK n \in Nat : \A k \in P : k <= n
    BY <1>1
  <2>2. n \in T
    BY <1>4, <1>5, Induct
  <2>3. {p \in P : p <= n} = P
    BY <2>1
  <2>4. \E g : g = [k \in P |-> step(g, k)]
    BY <2>2, <2>3 DEF T
  <2> HIDE DEF step
  <2>5. QED
    BY <2>4 DEF whole
<1> HIDE DEF T
<1> DEFINE Right(k) == \E outer \in Seq(V) : whole[k] = outer \o <<src[k].name>> /\ (src[k].up = 0 <=> outer = <<>>)
           U == {n \in Nat : \A k \in P : k < n => Right(k)}
<1>7. 0 \in U
  BY <1>1
<1>8. ASSUME NEW n \in Nat, n \in U PROVE n + 1 \in U
  <2>1. SUFFICES ASSUME n \in P PROVE Right(n)
    <3>1. \A k \in P : k < n + 1 => k < n \/ k = n
      BY <1>1
    <3> HIDE DEF Right
    <3>2. QED
      BY <1>8, <3>1
  <2>2. whole[n] = step(whole, n)
    BY <1>6, <2>1
  <2>3. <<>> \in Seq(V) /\ <<src[n].name>> \in Seq(V) /\ <<"<locals>">> \in Seq(V)
    BY <1>2, <2>1, EmptySeq
  <2>4. CASE src[n].up = 0
    BY <2>2, <2>3, <2>4
  <2>5. CASE src[n].up # 0
    <3>1. Right(src[n].up)
      BY <1>1, <1>8, <2>1, <2>5
    <3>2. PICK u \in P : u = src[n].up
      BY <1>1, <2>1, <2>5
    <3>3. PICK o \in Seq(V) : whole[u] = o \o <<src[u].name>>
      BY <3>1, <3>2
    <3> DEFINE sep == IF src[u].kind = "def" THEN <<"<locals>">> ELSE <<>>
               outer == whole[u] \o sep
    <3>4. sep \in Seq(V) /\ <<src[u].name>> \in Seq(V) /\ Len(<<src[u].name>>) = 1
      BY <1>2, <2>3, <3>2
    <3> HIDE DEF sep
    <3>5. whole[u] \in Seq(V) /\ Len(whole[u]) = Len(o) + 1
      BY <3>3, <3>4, ConcatProperties
    <3>6. outer \in Seq(V) /\ Len(outer) = Len(whole[u]) + Len(sep)
      BY <3>4, <3>5, ConcatProperties
    <3>7. Len(o) \in Nat /\ Len(sep) \in Nat
      BY <3>3, <3>4, LenProperties
    <3>8. outer # <<>>
      BY <3>5, <3>6, <3>7, EmptySeq
    <3>9. whole[n] = outer \o <<src[n].name>>
      BY <2>2, <2>5, <3>2 DEF sep
    <3> HIDE DEF outer
    <3>10. QED
      BY <2>5, <3>6, <3>8, <3>9
  <2>6. QED
    BY <2>4, <2>5
<1> HIDE DEF U, Right
<1>9. Right(i)
  <2>1. i \in P /\ i + 1 \in Nat /\ i < i + 1
    BY <1>1 DEF P
  <2>2. i + 1 \in U
    BY <1>7, <1>8, <2>1, Induct
  <2>3. QED
    BY <2>1, <2>2 DEF U
<1>10. QED
  BY <1>3, <1>9 DEF Right, V, src

\* So definitions of one qualified name have one name, at one level.
LEMMA SameQualified ==
  ASSUME NEW R, IsRepo(R), NEW f \in ToSet(R.files), NEW i \in Defs(R, f), NEW j \in Defs(R, f),
         Qualified(R, <<f, i>>) = Qualified(R, <<f, j>>)
  PROVE  R.code[f][i].name = R.code[f][j].name /\ (R.code[f][i].up = 0 <=> R.code[f][j].up = 0)
<1> DEFINE a == R.code[f][i].name
           b == R.code[f][j].name
           V == NameParts(R, f)
<1>1. PICK o \in Seq(V) : Qualified(R, <<f, i>>) = o \o <<a>> /\ (R.code[f][i].up = 0 <=> o = <<>>)
  BY QualifiedFacts
<1>2. PICK p \in Seq(V) : Qualified(R, <<f, j>>) = p \o <<b>> /\ (R.code[f][j].up = 0 <=> p = <<>>)
  BY QualifiedFacts
<1>3. a \in V /\ b \in V
  BY DEF NameParts
<1> HIDE DEF a, b, V
<1>4. ASSUME NEW s \in Seq(V), NEW x \in V
      PROVE  Len(s) \in Nat /\ Len(s \o <<x>>) = Len(s) + 1 /\ (s \o <<x>>)[Len(s) + 1] = x
  <2>1. <<x>> \in Seq(V) /\ Len(<<x>>) = 1 /\ <<x>>[1] = x
    BY SMT
  <2>2. Len(s) \in Nat
    BY LenProperties
  <2>3. /\ Len(s \o <<x>>) = Len(s) + 1
        /\ \A k \in 1..(Len(s) + 1) : (s \o <<x>>)[k] = IF k <= Len(s) THEN s[k] ELSE <<x>>[k - Len(s)]
    BY <2>1, ConcatProperties
  <2>4. Len(s) + 1 \in 1..(Len(s) + 1) /\ ~(Len(s) + 1 <= Len(s)) /\ (Len(s) + 1) - Len(s) = 1
    BY <2>2
  <2>5. QED
    BY <2>1, <2>2, <2>3, <2>4
<1>5. o \o <<a>> = p \o <<b>>
  BY <1>1, <1>2
<1>6. Len(o) = Len(p) /\ a = b
  <2>1. /\ Len(o) \in Nat /\ Len(o \o <<a>>) = Len(o) + 1 /\ (o \o <<a>>)[Len(o) + 1] = a
        /\ Len(p) \in Nat /\ Len(p \o <<b>>) = Len(p) + 1 /\ (p \o <<b>>)[Len(p) + 1] = b
    BY <1>3, <1>4
  <2>2. Len(o) = Len(p)
    BY <1>5, <2>1
  <2>3. QED
    BY <1>5, <2>1, <2>2
<1>7. o = <<>> <=> p = <<>>
  BY <1>6, EmptySeq
<1>8. QED
  BY <1>1, <1>2, <1>6, <1>7 DEF a, b

\* The symbols that names stand for.
Indexed(R) == {s \in AllDefs(R) : IsIndexed(R, s)}

\* A file has finitely many definitions,
LEMMA DefsFinite ==
  ASSUME NEW R, IsRepo(R), NEW f \in ToSet(R.files)
  PROVE  IsFiniteSet(Defs(R, f))
<1>1. PICK n \in Nat : n = Len(R.code[f])
  BY SeqIs DEF IsRepo, IsSeq
<1>2. DOMAIN R.code[f] = 1..n
  BY <1>1, SeqIs DEF IsRepo, IsSeq
<1>3. Defs(R, f) \in SUBSET 1..n
  BY <1>2 DEF Defs
<1>4. IsFiniteSet(1..n)
  BY FS_Interval
<1>5. QED
  BY <1>3, <1>4, FS_Subset

\* and so has a repository.
LEMMA AllDefsFinite == ASSUME NEW R, IsRepo(R) PROVE IsFiniteSet(AllDefs(R))
<1> DEFINE files == R.files
           n == Len(files)
           F == ToSet(files)
           of == [f \in F |-> {f} \X Defs(R, f)]
           P == {of[f] : f \in F}
<1>1. n \in Nat /\ DOMAIN files = 1..n /\ files \in Seq(F)
  BY SeqIs DEF IsRepo, IsSeq
<1>2. IsFiniteSet(F)
  <2>1. files \in [1..n -> F] /\ \A f \in F : \E k \in 1..n : files[k] = f
    BY <1>1, LenProperties DEF ToSet
  <2> HIDE DEF files, n, F
  <2>2. files \in Surjection(1..n, F)
    BY <2>1 DEF Surjection
  <2>3. IsFiniteSet(1..n)
    BY <1>1, FS_Interval
  <2>4. QED
    BY <2>2, <2>3, FS_Surjection
<1>3. \A f \in F : IsFiniteSet(of[f])
  <2> TAKE f \in F
  <2>1. IsFiniteSet({f}) /\ IsFiniteSet(Defs(R, f))
    BY DefsFinite, FS_Singleton
  <2>2. IsFiniteSet({f} \X Defs(R, f))
    BY <2>1, FS_Product
  <2>3. QED
    BY <2>2
<1>4. AllDefs(R) = UNION P
  BY DEF AllDefs
<1>5. of \in [F -> P]
  OBVIOUS
<1> HIDE DEF of, F
<1>6. of \in Surjection(F, P)
  BY <1>5 DEF Surjection
<1>7. IsFiniteSet(P)
  <2> HIDE DEF P
  <2>1. QED
    BY <1>2, <1>6, FS_Surjection
<1>8. \A X \in P : IsFiniteSet(X)
  BY <1>3
<1> HIDE DEF P
<1>9. QED
  BY <1>4, <1>7, <1>8, FS_UNION

\* A definition is indexed when it is the last of some that include all of its name.
LEMMA LastIndexed ==
  ASSUME NEW R, IsRepo(R), NEW f \in ToSet(R.files), NEW S \in SUBSET Defs(R, f),
         \A i \in S : \A j \in Defs(R, f) :
           Qualified(R, <<f, j>>) = Qualified(R, <<f, i>>) => j \in S,
         \A i, j \in S : Qualified(R, <<f, j>>) = Qualified(R, <<f, i>>)
  PROVE  /\ Sym(f, LastOf(S)) \in {<<>>} \cup Indexed(R)
         /\ S # {} => Sym(f, LastOf(S)) = <<f, LastOf(S)>>
<1>1. PICK n \in Nat : Defs(R, f) \in SUBSET 1..n
  <2>1. DOMAIN R.code[f] = 1..Len(R.code[f]) /\ Len(R.code[f]) \in Nat
    BY SeqIs DEF IsRepo, IsSeq
  <2>2. QED
    BY <2>1 DEF Defs
<1>2. S \in SUBSET 1..n
  BY <1>1
<1>3. CASE S = {}
  BY <1>2, <1>3, LastOfFacts DEF Sym
<1>4. CASE S # {}
  <2>1. LastOf(S) \in S /\ LastOf(S) # 0
    <3>1. LastOf(S) \in S
      BY <1>2, <1>4, LastOfFacts
    <3>2. QED
      BY <1>2, <3>1
  <2>2. PICK i \in S : i = LastOf(S)
    BY <2>1
  <2>3. Sym(f, i) = <<f, i>> /\ i \in Defs(R, f)
    BY <2>1, <2>2 DEF Sym
  <2>4. {j \in Defs(R, f) : Qualified(R, <<f, j>>) = Qualified(R, <<f, i>>)} = S
    OBVIOUS
  <2>5. ByQualified(R, f, Qualified(R, <<f, i>>)) = <<f, i>>
    BY <2>2, <2>3, <2>4 DEF ByQualified
  <2>6. <<f, i>> \in AllDefs(R)
    BY <2>3 DEF AllDefs
  <2>7. <<f, i>>[1] = f
    OBVIOUS
  <2>8. <<f, i>> \in Indexed(R)
    BY <2>5, <2>6, <2>7 DEF Indexed, IsIndexed
  <2>9. QED
    BY <2>2, <2>3, <2>8
<1>5. QED
  BY <1>3, <1>4

\* At module level, the last definition of a name is.
LEMMA ModuleLevelIndexed ==
  ASSUME NEW R, IsRepo(R), NEW f \in ToSet(R.files), NEW name
  PROVE  ModuleLevel(R, f, name) \in {<<>>} \cup Indexed(R)
<1> DEFINE S == {i \in Defs(R, f) : R.code[f][i].name = name /\ R.code[f][i].up = 0}
<1>1. \A i \in S : \A j \in Defs(R, f) : Qualified(R, <<f, j>>) = Qualified(R, <<f, i>>) => j \in S
  BY SameQualified
<1>2. \A i, j \in S : Qualified(R, <<f, j>>) = Qualified(R, <<f, i>>)
  <2>1. \A i \in S : Qualified(R, <<f, i>>) = <<name>>
    <3> TAKE i \in S
    <3>1. i \in Defs(R, f) /\ R.code[f][i].name = name /\ R.code[f][i].up = 0
      OBVIOUS
    <3>2. Qualified(R, <<f, i>>) = <<>> \o <<name>>
      BY <3>1, QualifiedFacts
    <3>3. <<name>> \in Seq({name})
      BY SMT
    <3>4. QED
      BY <3>2, <3>3, ConcatEmptySeq
  <2>2. QED
    BY <2>1
<1>3. S \in SUBSET Defs(R, f) /\ ModuleLevel(R, f, name) = Sym(f, LastOf(S))
  BY DEF ModuleLevel
<1> HIDE DEF S
<1>4. QED
  BY <1>1, <1>2, <1>3, LastIndexed

\* As is the only one of a name in a file.
LEMMA LocalIndexed ==
  ASSUME NEW R, IsRepo(R), NEW f \in ToSet(R.files), NEW name
  PROVE  Local(R, f, name) \in {<<>>} \cup Indexed(R)
<1> DEFINE S == LocalDefs(R, f, name)
<1>1. SUFFICES ASSUME Cardinality(S) = 1 PROVE <<f, Max(S)>> \in Indexed(R)
  BY ModuleLevelIndexed DEF Local, OrElse
<1>2. S \in SUBSET Defs(R, f)
  BY DEF LocalDefs
<1>3. IsFiniteSet(S)
  <2> HIDE DEF S
  <2>1. IsFiniteSet(Defs(R, f))
    BY DefsFinite
  <2>2. QED
    BY <1>2, <2>1, FS_Subset
<1>4. PICK i : S = {i}
  BY <1>1, <1>3, FS_Singleton
<1>5. \A a \in S : \A j \in Defs(R, f) : Qualified(R, <<f, j>>) = Qualified(R, <<f, a>>) => j \in S
  BY SameQualified DEF LocalDefs
<1>6. \A a, b \in S : Qualified(R, <<f, b>>) = Qualified(R, <<f, a>>)
  BY <1>4
<1>7. S # {} /\ LastOf(S) = Max(S)
  BY <1>4 DEF LastOf
<1> HIDE DEF S
<1>8. Sym(f, LastOf(S)) \in {<<>>} \cup Indexed(R) /\ Sym(f, LastOf(S)) = <<f, LastOf(S)>>
  BY <1>2, <1>5, <1>6, <1>7, LastIndexed
<1>9. <<f, LastOf(S)>> # <<>>
  OBVIOUS
<1>10. QED
  BY <1>7, <1>8, <1>9

\* And what is found in other files.
LEMMA FirstIndexed ==
  ASSUME NEW R, IsRepo(R), NEW files, IsSeq(files), ToSet(files) \subseteq ToSet(R.files), NEW name
  PROVE  FirstMember(R, files, name) \in {<<>>} \cup Indexed(R)
<1> DEFINE at == {k \in DOMAIN files : ModuleLevel(R, files[k], name) # <<>>}
           those == Pick(files, at)
<1>1. FirstMember(R, files, name) = IF those = <<>> THEN <<>> ELSE ModuleLevel(R, those[1], name)
  BY DEF FirstMember, Where
<1>2. IsSeq(those) /\ ToSet(those) \subseteq ToSet(files)
  <2>1. at \in SUBSET DOMAIN files
    OBVIOUS
  <2> HIDE DEF at
  <2>2. IsSeq(those) /\ ToSet(those) = {files[k] : k \in at}
    BY <2>1, PickFacts
  <2>3. QED
    BY <2>1, <2>2 DEF ToSet
<1> HIDE DEF those
<1>3. those # <<>> => those[1] \in ToSet(R.files)
  <2>1. those # <<>> => 1 \in DOMAIN those
    BY <1>2, EmptySeq, LenProperties DEF IsSeq
  <2>2. QED
    BY <1>2, <2>1 DEF ToSet
<1>4. QED
  BY <1>1, <1>3, ModuleLevelIndexed

\* The imports of a file are a sequence.
LEMMA ImportsSeq ==
  ASSUME NEW R, IsRepo(R), NEW f \in ToSet(R.files)
  PROVE  IsSeq(FileImports(R, f))
<1> DEFINE s == Statements(R, f)
           t == [j \in DOMAIN s |-> ImportSymbols(s[j])]
           S == UNION {ToSet(ImportSymbols(n)) : n \in ToSet(s)}
<1>1. IsSeq(s) /\ \A n \in ToSet(s) : IsStatement(n)
  BY StatementFacts DEF IsRepo, IsStatement
<1>2. FileImports(R, f) = FlattenSeq(t)
  BY DEF FileImports, FlatMap
<1> HIDE DEF s
<1>3. \A j \in DOMAIN s : t[j] \in Seq(S)
  <2> TAKE j \in DOMAIN s
  <2>1. s[j] \in ToSet(s) /\ t[j] = ImportSymbols(s[j])
    BY DEF ToSet
  <2>2. ToSet(t[j]) \subseteq S
    BY <2>1
  <2> HIDE DEF t, S
  <2>3. IsSeq(t[j])
    BY <1>1, <2>1, SymbolFacts
  <2>4. QED
    BY <2>2, <2>3, IsSeqTo
<1>4. t = [j \in DOMAIN s |-> t[j]]
  OBVIOUS
<1> HIDE DEF t, S
<1>5. FlattenSeq(t) \in Seq(S)
  BY <1>1, <1>3, <1>4, FlatMapFacts
<1>6. QED
  BY <1>2, <1>5, SeqIs

\* So every name stands for an indexed symbol, if for any.
LEMMA NamesIndexed ==
  ASSUME NEW R, IsRepo(R), NEW f \in ToSet(R.files), NEW name
  PROVE  ResolveBare(R, f, name) \in {<<>>} \cup Indexed(R)
<1>1. ViaImport(R, f, Bindings(R, f, name)) \in {<<>>} \cup Indexed(R)
  <2>1. \A m, g, member : FirstMember(R, Resolve(R, m, g), member) \in {<<>>} \cup Indexed(R)
    BY ResolveFacts, FirstIndexed
  <2>2. QED
    BY <2>1 DEF ViaImport
<1>2. ViaStar(R, f, name) \in {<<>>} \cup Indexed(R)
  <2> DEFINE I == FileImports(R, f)
             at == {k \in DOMAIN I : I[k].star}
             stars == Pick(I, at)
             target == [k \in DOMAIN stars |-> Resolve(R, stars[k].source, f)]
             S == ToSet(R.files)
  <2>1. ViaStar(R, f, name) = FirstMember(R, FlattenSeq(target), name)
    BY DEF ViaStar, FlatMap, Where
  <2>2. IsSeq(stars)
    <3>1. IsSeq(I) /\ at \in SUBSET DOMAIN I
      BY ImportsSeq
    <3> HIDE DEF I, at
    <3>2. QED
      BY <3>1, PickFacts
  <2> HIDE DEF stars
  <2>3. \A k \in DOMAIN stars : target[k] \in Seq(S)
    <3> TAKE k \in DOMAIN stars
    <3>1. target[k] = Resolve(R, stars[k].source, f)
      OBVIOUS
    <3> HIDE DEF target
    <3>2. QED
      BY <3>1, ResolveFacts, IsSeqTo
  <2>4. target = [k \in DOMAIN stars |-> target[k]]
    OBVIOUS
  <2> HIDE DEF target, S
  <2>5. FlattenSeq(target) \in Seq(S)
    BY <2>2, <2>3, <2>4, FlatMapFacts
  <2>6. IsSeq(FlattenSeq(target)) /\ ToSet(FlattenSeq(target)) \subseteq ToSet(R.files)
    BY <2>5, SeqIs DEF S
  <2>7. QED
    BY <2>1, <2>6, FirstIndexed
<1>3. QED
  BY <1>1, <1>2, LocalIndexed DEF ResolveBare, ViaImports, OrElse

\* The classes that names stand for.
IndexedClasses(R) == {s \in Classes(R) : IsIndexed(R, s)}

\* The known bases of any class are such classes.
LEMMA BasesIndexed ==
  ASSUME NEW R, IsRepo(R), NEW class \in Classes(R)
  PROVE  KnownBases(R, class) \in Seq(IndexedClasses(R))
<1> DEFINE f == class[1]
           all == R.code[f][class[2]].bases
           plain == {k \in DOMAIN all : Len(all[k]) = 1}
           bases == Pick(all, plain)
           known == [k \in DOMAIN bases |-> ClassNamed(R, f, bases[k][1])]
           at == {k \in DOMAIN known : known[k] # <<>>}
<1>1. f \in ToSet(R.files) /\ class[2] \in Defs(R, f) /\ R.code[f][class[2]].kind = "class"
  BY DEF Classes, AllDefs, IsClass
<1>2. IsSeq(all)
  <2>1. R.code[f][class[2]] \in ToSet(R.code[f])
    BY <1>1 DEF Defs, ToSet
  <2>2. QED
    BY <1>1, <2>1 DEF IsRepo
<1>3. KnownBases(R, class) = Pick(known, at)
  BY DEF KnownBases, Where
<1>4. IsSeq(bases)
  <2>1. plain \in SUBSET DOMAIN all
    OBVIOUS
  <2> HIDE DEF plain, all
  <2>2. QED
    BY <1>2, <2>1, PickFacts
<1>5. \A k \in DOMAIN known : known[k] # <<>> => known[k] \in IndexedClasses(R)
  <2> HIDE DEF bases
  <2> TAKE k \in DOMAIN known
  <2>1. known[k] = ClassNamed(R, f, bases[k][1])
    OBVIOUS
  <2>2. ResolveBare(R, f, bases[k][1]) \in {<<>>} \cup Indexed(R)
    BY <1>1, NamesIndexed
  <2> HIDE DEF known
  <2>3. QED
    BY <2>1, <2>2 DEF ClassNamed, OnlyClass, Indexed, IndexedClasses, Classes
<1>6. IsSeq(known)
  <2> HIDE DEF bases
  <2>1. known = [k \in DOMAIN bases |-> known[k]]
    OBVIOUS
  <2> HIDE DEF known
  <2>2. QED
    BY <1>4, <2>1, MapFacts
<1>7. at \in SUBSET DOMAIN known /\ \A k \in at : known[k] \in IndexedClasses(R)
  BY <1>5
<1> HIDE DEF known, at
<1>8. IsSeq(Pick(known, at)) /\ ToSet(Pick(known, at)) \subseteq IndexedClasses(R)
  BY <1>6, <1>7, PickFacts
<1>9. QED
  BY <1>3, <1>8, IsSeqTo

\* The classes that up has found after k bases.
Climbs(up, R, class, n) ==
  up[0] = {class} /\ \A k \in 1..n : up[k] = up[k - 1] \cup UNION {ToSet(KnownBases(R, c)) : c \in up[k - 1]}

\* Ancestors is the end of such a climb,
LEMMA AncestorsClimb ==
  ASSUME NEW R, IsRepo(R), NEW class \in IndexedClasses(R)
  PROVE  \E up : /\ \A k \in 0..Cardinality(AllDefs(R)) : up[k] \in SUBSET IndexedClasses(R)
                 /\ Climbs(up, R, class, Cardinality(AllDefs(R)))
                 /\ Ancestors(R, class) = up[Cardinality(AllDefs(R))]
<1> DEFINE N == Cardinality(AllDefs(R))
           B(c) == ToSet(KnownBases(R, c))
           I == IndexedClasses(R)
           V == SUBSET I
           step == [p \in V \X (1..N) |-> p[1] \cup UNION {B(c) : c \in p[1]}]
           up == CHOOSE f : f = [k \in 0..N |-> IF k = 0 THEN {class}
                                     ELSE f[k - 1] \cup UNION {B(c) : c \in f[k - 1]}]
<1>0. N \in Nat
  BY AllDefsFinite, FS_CardinalityType
<1>1. \A c \in I : B(c) \in V
  <2> TAKE c \in I
  <2>1. c \in Classes(R)
    BY DEF IndexedClasses
  <2>2. QED
    BY <2>1, BasesIndexed, SeqIs
<1>a. Ancestors(R, class) = up[N]
  BY DEF Ancestors
<1> HIDE DEF I, B, N
<1>2. step \in [V \X (1..N) -> V]
  <2>1. \A S \in V : S \cup UNION {B(c) : c \in S} \in V
    BY <1>1
  <2> HIDE DEF V
  <2>2. QED
    BY <2>1
<1>3. {class} \in V
  BY DEF I
<1> HIDE DEF V
<1>4. PICK g \in [0..N -> V] : Recurs(g, {class}, N, step)
  <2> HIDE DEF step
  <2>1. QED
    BY <1>0, <1>2, <1>3, Recursion
<1>5. g[0] = {class} /\ \A k \in 1..N : g[k] = g[k - 1] \cup UNION {B(c) : c \in g[k - 1]}
  <2>1. g[0] = {class} /\ \A k \in 1..N : g[k] = step[<<g[k - 1], k>>]
    BY <1>4 DEF Recurs
  <2>2. ASSUME NEW k \in 1..N PROVE g[k] = g[k - 1] \cup UNION {B(c) : c \in g[k - 1]}
    <3>1. k - 1 \in 0..N
      BY <1>0
    <3>2. g[k - 1] \in V
      BY <1>4, <3>1
    <3>3. <<g[k - 1], k>> \in V \X (1..N)
      BY <3>2
    <3>4. step[<<g[k - 1], k>>] = g[k - 1] \cup UNION {B(c) : c \in g[k - 1]}
      BY <3>3
    <3>5. QED
      BY <2>1, <3>4
  <2>3. QED
    BY <2>1, <2>2
<1>6. g = [k \in 0..N |-> IF k = 0 THEN {class} ELSE g[k - 1] \cup UNION {B(c) : c \in g[k - 1]}]
  <2>1. \A k \in 0..N : k # 0 => k \in 1..N
    BY <1>0
  <2>2. \A k \in 0..N : g[k] = IF k = 0 THEN {class} ELSE g[k - 1] \cup UNION {B(c) : c \in g[k - 1]}
    BY <1>5, <2>1
  <2>3. g = [k \in 0..N |-> g[k]]
    BY <1>4
  <2>4. QED
    BY <2>2, <2>3
<1>7. up = [k \in 0..N |-> IF k = 0 THEN {class} ELSE up[k - 1] \cup UNION {B(c) : c \in up[k - 1]}]
  BY <1>6
<1> HIDE DEF up
<1>8. up[0] = {class} /\ \A k \in 1..N : up[k] = up[k - 1] \cup UNION {B(c) : c \in up[k - 1]}
  <2>1. 0 \in 0..N /\ \A k \in 1..N : k \in 0..N /\ k # 0
    BY <1>0
  <2>2. QED
    BY <1>7, <2>1
<1> DEFINE T == {k \in Nat : k <= N => up[k] \in V}
<1>9. 0 \in T
  BY <1>3, <1>8
<1>10. ASSUME NEW k \in Nat, k \in T PROVE k + 1 \in T
  <2> SUFFICES ASSUME k + 1 <= N PROVE up[k + 1] \in V
    OBVIOUS
  <2>1. k + 1 \in 1..N /\ (k + 1) - 1 = k /\ up[k] \in V
    BY <1>0, <1>10
  <2>2. up[k + 1] = up[k] \cup UNION {B(c) : c \in up[k]}
    BY <1>8, <2>1
  <2>3. QED
    BY <1>1, <2>1, <2>2 DEF V
<1> HIDE DEF T
<1>11. \A k \in 0..N : up[k] \in V
  <2>1. \A k \in Nat : k \in T
    BY <1>9, <1>10, Induct
  <2>2. QED
    BY <2>1 DEF T
<1>12. QED
  BY <1>a, <1>8, <1>11 DEF Climbs, N, V, I, B

\* which is as high as it gets: they are the class and all that its bases lead to.
LEMMA AncestorsFacts ==
  ASSUME NEW R, IsRepo(R), NEW class \in IndexedClasses(R)
  PROVE  LET A == Ancestors(R, class)
         IN  /\ A \in SUBSET IndexedClasses(R) /\ class \in A
             /\ \A c \in A : ToSet(KnownBases(R, c)) \subseteq A
             /\ \A G : class \in G /\ (\A c \in G : ToSet(KnownBases(R, c)) \subseteq G) => A \subseteq G
<1> DEFINE N == Cardinality(AllDefs(R))
           B(c) == ToSet(KnownBases(R, c))
           I == IndexedClasses(R)
<1>1. N \in Nat /\ IsFiniteSet(I) /\ Cardinality(I) \in Nat /\ Cardinality(I) <= N
  <2>1. I \in SUBSET AllDefs(R) /\ IsFiniteSet(AllDefs(R))
    BY AllDefsFinite DEF IndexedClasses, Classes
  <2> HIDE DEF I
  <2>2. IsFiniteSet(I) /\ Cardinality(I) <= N
    BY <2>1, FS_Subset
  <2>3. QED
    BY <2>1, <2>2, FS_CardinalityType
<1>2. PICK up : /\ \A k \in 0..N : up[k] \in SUBSET I
                /\ Climbs(up, R, class, N)
                /\ Ancestors(R, class) = up[N]
  BY AncestorsClimb
<1> HIDE DEF N, I
<1>3. up[0] = {class} /\ \A k \in 1..N : up[k] = up[k - 1] \cup UNION {B(c) : c \in up[k - 1]}
  BY <1>2 DEF Climbs
<1> HIDE DEF B
<1> DEFINE Top(k) == \A c \in up[k] : B(c) \subseteq up[k]
<1>4. ASSUME NEW k \in Nat, k + 1 <= N
      PROVE  /\ up[k + 1] = up[k] \cup UNION {B(c) : c \in up[k]}
             /\ up[k] \in SUBSET I /\ up[k + 1] \in SUBSET I
  <2>1. k + 1 \in 1..N /\ (k + 1) - 1 = k /\ k \in 0..N /\ k + 1 \in 0..N
    BY <1>1, <1>4
  <2>2. QED
    BY <1>2, <1>3, <2>1
<1>5. ASSUME NEW k \in 0..N PROVE IsFiniteSet(up[k]) /\ Cardinality(up[k]) \in Nat /\ Cardinality(up[k]) <= N
  <2>1. up[k] \in SUBSET I
    BY <1>2
  <2>2. IsFiniteSet(up[k]) /\ Cardinality(up[k]) <= Cardinality(I)
    BY <1>1, <2>1, FS_Subset
  <2>3. Cardinality(up[k]) \in Nat
    BY <2>2, FS_CardinalityType
  <2>4. QED
    BY <1>1, <2>2, <2>3
<1> DEFINE T == {k \in Nat : k <= N => Top(k) \/ Cardinality(up[k]) >= k + 1}
<1>6. 0 \in T
  <2>1. Cardinality(up[0]) = 1
    BY <1>3, FS_Singleton
  <2>2. QED
    BY <2>1
<1>7. ASSUME NEW k \in Nat, k \in T PROVE k + 1 \in T
  <2>1. SUFFICES ASSUME k + 1 <= N PROVE Top(k + 1) \/ Cardinality(up[k + 1]) >= (k + 1) + 1
    OBVIOUS
  <2>2. up[k + 1] = up[k] \cup UNION {B(c) : c \in up[k]}
    BY <1>4, <2>1
  <2>3. CASE Top(k)
    <3>1. up[k + 1] = up[k]
      BY <2>2, <2>3
    <3>2. QED
      BY <2>3, <3>1
  <2>4. CASE ~Top(k)
    <3>1. Cardinality(up[k]) >= k + 1
      BY <1>1, <1>7, <2>1, <2>4
    <3>2. up[k] \in SUBSET up[k + 1] /\ up[k] # up[k + 1]
      <4>1. PICK c \in up[k] : ~(B(c) \subseteq up[k])
        BY <2>4
      <4>2. PICK d \in B(c) : d \notin up[k]
        BY <4>1
      <4>3. d \in up[k + 1]
        BY <2>2, <4>1, <4>2
      <4>4. QED
        BY <2>2, <4>2, <4>3
    <3>3. k + 1 \in 0..N /\ k \in 0..N
      BY <1>1, <2>1
    <3>4. IsFiniteSet(up[k + 1]) /\ Cardinality(up[k + 1]) \in Nat /\ Cardinality(up[k]) \in Nat
      BY <1>5, <3>3
    <3>5. Cardinality(up[k]) <= Cardinality(up[k + 1]) /\ Cardinality(up[k]) # Cardinality(up[k + 1])
      BY <3>2, <3>4, FS_Subset
    <3>6. QED
      BY <3>1, <3>4, <3>5
  <2>5. QED
    BY <2>3, <2>4
<1> HIDE DEF T, Top
<1>8. Top(N)
  <2>1. N \in T /\ N \in 0..N
    BY <1>1, <1>6, <1>7, Induct
  <2>2. Top(N) \/ Cardinality(up[N]) >= N + 1
    BY <1>1, <2>1 DEF T
  <2>3. QED
    BY <1>1, <1>5, <2>1, <2>2
<1>9. ASSUME NEW G, class \in G, \A c \in G : B(c) \subseteq G PROVE up[N] \subseteq G
  <2> DEFINE U == {k \in Nat : k <= N => up[k] \subseteq G}
  <2>1. 0 \in U
    BY <1>3, <1>9
  <2>2. ASSUME NEW k \in Nat, k \in U PROVE k + 1 \in U
    <3>1. SUFFICES ASSUME k + 1 <= N PROVE up[k + 1] \subseteq G
      OBVIOUS
    <3>2. up[k] \subseteq G /\ up[k + 1] = up[k] \cup UNION {B(c) : c \in up[k]}
      BY <1>1, <1>4, <2>2, <3>1
    <3>3. QED
      BY <1>9, <3>2
  <2> HIDE DEF U
  <2>3. N \in U
    BY <1>1, <2>1, <2>2, Induct
  <2>4. QED
    BY <1>1, <2>3 DEF U
<1>10. class \in up[N]
  <2> DEFINE U == {k \in Nat : k <= N => class \in up[k]}
  <2>1. 0 \in U
    BY <1>3
  <2>2. ASSUME NEW k \in Nat, k \in U PROVE k + 1 \in U
    <3>1. SUFFICES ASSUME k + 1 <= N PROVE class \in up[k + 1]
      OBVIOUS
    <3>2. class \in up[k] /\ up[k + 1] = up[k] \cup UNION {B(c) : c \in up[k]}
      BY <1>1, <1>4, <2>2, <3>1
    <3>3. QED
      BY <3>2
  <2> HIDE DEF U
  <2>3. N \in U
    BY <1>1, <2>1, <2>2, Induct
  <2>4. QED
    BY <1>1, <2>3 DEF U
<1>11. up[N] \in SUBSET I
  BY <1>1, <1>2
<1>12. QED
  BY <1>2, <1>8, <1>9, <1>10, <1>11 DEF Top, B, I

\* What find_method does next at a place.
Goes(R, name, w, at) ==
  LET c == Last(at[1])
  IN  IF at[1] = <<>> THEN <<>>
      ELSE IF ClassKey(R, c) \in at[2] THEN w[<<Front(at[1]), at[2]>>]
      ELSE OrElse(OwnMethod(R, c, name),
                  w[<<Front(at[1]) \o KnownBases(R, c), at[2] \cup {ClassKey(R, c)}>>])

\* The search of find_method exists.
LEMMA SearchExists ==
  ASSUME NEW R, IsRepo(R), NEW name
  PROVE  \E w : w = [at \in Searches(R) |-> Goes(R, name, w, at)]
<1> DEFINE C == Classes(R)
           K == {ClassKey(R, s) : s \in C}
           D == Searches(R)
           key(at) == ClassKey(R, Last(at[1]))
           own(at) == OwnMethod(R, Last(at[1]), name)
           pop(at) == <<Front(at[1]), at[2]>>
           push(at) == <<Front(at[1]) \o KnownBases(R, Last(at[1])), at[2] \cup {key(at)}>>
           Stop == {at \in D : at[1] = <<>> \/ (key(at) \notin at[2] /\ own(at) # <<>>)}
           next == [at \in D \ Stop |-> IF key(at) \in at[2] THEN pop(at) ELSE push(at)]
           val == [at \in Stop |-> IF at[1] = <<>> THEN <<>> ELSE own(at)]
<1>1. ASSUME NEW at \in D, at[1] # <<>> PROVE pop(at) \in D /\ push(at) \in D
  <2>1. at[1] \in Seq(C) /\ at[2] \in SUBSET K
    BY DEF Searches
  <2>2. PICK s \in Seq(C) : s = at[1] /\ s # <<>>
    BY <1>1, <2>1
  <2>3. Last(s) \in C /\ Front(s) \in Seq(C)
    BY <2>2, PopFacts DEF Last, Front
  <2>4. KnownBases(R, Last(s)) \in Seq(C)
    <3>1. KnownBases(R, Last(s)) \in Seq(IndexedClasses(R))
      BY <2>3, BasesIndexed
    <3>2. IndexedClasses(R) \subseteq C
      BY DEF IndexedClasses
    <3>3. QED
      BY <3>1, <3>2, SeqMonotonic
  <2>5. Front(s) \o KnownBases(R, Last(s)) \in Seq(C)
    BY <2>3, <2>4, ConcatFacts
  <2>6. ClassKey(R, Last(s)) \in K
    BY <2>3
  <2> HIDE DEF C, K
  <2>7. <<Front(s), at[2]>> \in Seq(C) \X SUBSET K
        /\ <<Front(s) \o KnownBases(R, Last(s)), at[2] \cup {ClassKey(R, Last(s))}>> \in Seq(C) \X SUBSET K
    BY <2>1, <2>3, <2>5, <2>6
  <2>8. QED
    BY <2>2, <2>7 DEF Searches, C, K
<1> HIDE DEF D, key, own, pop, push
<1>2. Stop \in SUBSET D /\ next \in [D \ Stop -> D]
  BY <1>1
<1>3. PICK w : w = [at \in D |-> IF at \in Stop THEN val[at] ELSE w[next[at]]]
  <2> HIDE DEF Stop, next, val
  <2>1. QED
    BY <1>2, TailRecursion
<1>4. ASSUME NEW at \in D PROVE w[at] = Goes(R, name, w, at)
  <2>1. w[at] = IF at \in Stop THEN val[at] ELSE w[next[at]]
    BY <1>3
  <2>2. CASE at \in Stop
    <3>1. w[at] = IF at[1] = <<>> THEN <<>> ELSE own(at)
      BY <2>1, <2>2
    <3>2. at[1] = <<>> \/ (key(at) \notin at[2] /\ own(at) # <<>>)
      BY <2>2
    <3>3. QED
      BY <3>1, <3>2 DEF Goes, OrElse, key, own
  <2>3. CASE at \notin Stop
    <3>1. w[at] = w[IF key(at) \in at[2] THEN pop(at) ELSE push(at)]
      BY <2>1, <2>3
    <3>2. at[1] # <<>> /\ (key(at) \in at[2] \/ own(at) = <<>>)
      BY <2>3
    <3>3. QED
      BY <3>1, <3>2 DEF Goes, OrElse, key, own, pop, push
  <2>4. QED
    BY <2>2, <2>3
<1> HIDE DEF Stop, next, val
<1>5. w = [at \in D |-> w[at]]
  BY <1>3
<1>6. w = [at \in D |-> Goes(R, name, w, at)]
  BY <1>4, <1>5
<1>7. QED
  BY <1>6 DEF D

\* No two of the indexed classes have one key,
LEMMA KeysDiffer ==
  ASSUME NEW R, NEW c \in IndexedClasses(R), NEW d \in IndexedClasses(R), ClassKey(R, c) = ClassKey(R, d)
  PROVE  c = d
<1>1. c[1] = d[1] /\ Qualified(R, c) = Qualified(R, d)
  <2>1. <<c[1], Qualified(R, c)>> = <<d[1], Qualified(R, d)>>
    BY DEF ClassKey
  <2>2. QED
    BY <2>1
<1>2. QED
  BY <1>1 DEF IndexedClasses, IsIndexed

\* and there are finitely many.
LEMMA KeysFinite == ASSUME NEW R, IsRepo(R) PROVE IsFiniteSet({ClassKey(R, s) : s \in Classes(R)})
<1> DEFINE C == Classes(R)
           key == [s \in C |-> ClassKey(R, s)]
           K == {key[s] : s \in C}
<1>1. IsFiniteSet(C)
  <2>1. C \in SUBSET AllDefs(R)
    BY DEF Classes
  <2> HIDE DEF C
  <2>2. QED
    BY <2>1, AllDefsFinite, FS_Subset
<1>2. K = {ClassKey(R, s) : s \in C}
  OBVIOUS
<1>3. key \in [C -> K]
  OBVIOUS
<1> HIDE DEF key, C
<1>4. key \in Surjection(C, K)
  BY <1>3 DEF Surjection
<1> HIDE DEF K
<1>5. IsFiniteSet(K)
  BY <1>1, <1>4, FS_Surjection
<1>6. QED
  BY <1>2, <1>5 DEF C

\* The keys, the bases and the methods of the indexed classes, as functions.
KeysOf(R) == {ClassKey(R, s) : s \in Classes(R)}
KeyOf(R) == [c \in IndexedClasses(R) |-> ClassKey(R, c)]
BasesOf(R) == [c \in IndexedClasses(R) |-> KnownBases(R, c)]
OwnOf(R, name) == [c \in IndexedClasses(R) |-> OwnMethod(R, c, name)]

LEMMA ClassFunctions ==
  ASSUME NEW R, IsRepo(R), NEW name
  PROVE  /\ IsFiniteSet(KeysOf(R))
         /\ \A c \in IndexedClasses(R) : KeyOf(R)[c] = ClassKey(R, c) /\ KeyOf(R)[c] \in KeysOf(R)
         /\ \A c, d \in IndexedClasses(R) : KeyOf(R)[c] = KeyOf(R)[d] => c = d
         /\ \A c \in IndexedClasses(R) : /\ BasesOf(R)[c] = KnownBases(R, c)
                                         /\ BasesOf(R)[c] \in Seq(IndexedClasses(R))
         /\ \A c \in IndexedClasses(R) : OwnOf(R, name)[c] = OwnMethod(R, c, name)
<1>1. \A c \in IndexedClasses(R) : c \in Classes(R)
  BY DEF IndexedClasses
<1>2. IsFiniteSet(KeysOf(R))
  BY KeysFinite DEF KeysOf
<1>3. \A c \in IndexedClasses(R) : KeyOf(R)[c] = ClassKey(R, c) /\ KeyOf(R)[c] \in KeysOf(R)
  BY <1>1 DEF KeyOf, KeysOf
<1>4. \A c, d \in IndexedClasses(R) : KeyOf(R)[c] = KeyOf(R)[d] => c = d
  BY <1>3, KeysDiffer
<1>5. \A c \in IndexedClasses(R) : /\ BasesOf(R)[c] = KnownBases(R, c)
                                   /\ BasesOf(R)[c] \in Seq(IndexedClasses(R))
  BY <1>1, BasesIndexed DEF BasesOf
<1>6. QED
  BY <1>2, <1>3, <1>4, <1>5 DEF OwnOf

\* What find_method finds is where such a walk from the class ends, which finds
\* nothing once its stack is empty.
LEMMA FindWalks ==
  ASSUME NEW R, IsRepo(R), NEW class \in IndexedClasses(R), NEW name
  PROVE  \E w : /\ FindMethod(R, class, name) = w[<< <<class>>, {} >>]
                /\ \A X \in SUBSET KeysOf(R) : w[<< <<>>, X >>] = <<>>
                /\ Walks(w, Seq(IndexedClasses(R)) \X SUBSET KeysOf(R), KeyOf(R), BasesOf(R),
                         OwnOf(R, name))
<1> DEFINE A == IndexedClasses(R)
           K == KeysOf(R)
           key == KeyOf(R)
           bases == BasesOf(R)
           own == OwnOf(R, name)
           w == CHOOSE w : w = [at \in Searches(R) |-> Goes(R, name, w, at)]
<1>1. FindMethod(R, class, name) = w[<< <<class>>, {} >>]
  <2>1. class # <<>>
    <3>1. class \in AllDefs(R)
      BY DEF IndexedClasses, Classes
    <3>2. QED
      BY <3>1 DEF AllDefs
  <2>2. QED
    BY <2>1 DEF FindMethod, Goes
<1>2. w = [at \in Searches(R) |-> Goes(R, name, w, at)]
  <2>1. \E g : g = [at \in Searches(R) |-> Goes(R, name, g, at)]
    BY SearchExists
  <2>2. QED
    BY <2>1
<1> HIDE DEF w
<1>3. \A at \in Seq(A) \X SUBSET K : w[at] = Goes(R, name, w, at)
  <2>1. Seq(A) \subseteq Seq(Classes(R))
    <3>1. A \subseteq Classes(R)
      BY DEF IndexedClasses
    <3>2. QED
      BY <3>1, SeqMonotonic
  <2>2. Seq(A) \X SUBSET K \subseteq Searches(R)
    BY <2>1 DEF Searches, KeysOf
  <2>3. QED
    BY <1>2, <2>2
<1>4. \A X \in SUBSET K : w[<< <<>>, X >>] = <<>>
  <2> TAKE X \in SUBSET K
  <2>1. << <<>>, X >> \in Seq(A) \X SUBSET K
    BY EmptySeq
  <2>2. w[<< <<>>, X >>] = Goes(R, name, w, << <<>>, X >>)
    BY <1>3, <2>1
  <2>3. QED
    BY <2>2 DEF Goes
<1>5. ASSUME NEW at \in Seq(A) \X SUBSET K, at[1] # <<>>
      PROVE  w[at] = LET c == at[1][Len(at[1])]
                         rest == SubSeq(at[1], 1, Len(at[1]) - 1)
                     IN  IF key[c] \in at[2] THEN w[<<rest, at[2]>>]
                         ELSE IF own[c] # <<>> THEN own[c]
                         ELSE w[<<rest \o bases[c], at[2] \cup {key[c]}>>]
  <2>1. at[1][Len(at[1])] \in A
    <3>1. at[1] \in Seq(A)
      OBVIOUS
    <3>2. QED
      BY <1>5, <3>1, PopFacts
  <2>2. PICK c \in A : c = at[1][Len(at[1])]
    BY <2>1
  <2>3. key[c] = ClassKey(R, c) /\ bases[c] = KnownBases(R, c) /\ own[c] = OwnMethod(R, c, name)
    BY ClassFunctions
  <2>4. w[at] = Goes(R, name, w, at)
    BY <1>3
  <2> HIDE DEF A, K, key, bases, own
  <2>5. QED
    BY <1>5, <2>2, <2>3, <2>4 DEF Goes, OrElse, Last, Front
<1> HIDE DEF A, K, key, bases, own
<1>6. Walks(w, Seq(A) \X SUBSET K, key, bases, own)
  BY <1>5 DEF Walks
<1>7. QED
  BY <1>1, <1>4, <1>6 DEF A, K, key, bases, own

\* A stack on top of another is popped as if it were alone.
LEMMA PopAbove ==
  ASSUME NEW S, NEW low \in Seq(S), NEW s \in Seq(S), s # <<>>
  PROVE  LET t == low \o s
         IN  /\ t \in Seq(S) /\ t # <<>> /\ t[Len(t)] = s[Len(s)]
             /\ SubSeq(t, 1, Len(t) - 1) = low \o SubSeq(s, 1, Len(s) - 1)
<1>1. PICK n \in Nat \ {0} : n = Len(s)
  BY PopFacts
<1>2. PICK m \in Nat : m = Len(low)
  BY LenProperties
<1> DEFINE t == low \o s
           rest == SubSeq(s, 1, n - 1)
           below == SubSeq(t, 1, m + n - 1)
<1>3. /\ t \in Seq(S) /\ Len(t) = m + n
      /\ \A i \in 1..(m + n) : t[i] = IF i <= m THEN low[i] ELSE s[i - m]
  BY <1>1, <1>2, ConcatProperties
<1> HIDE DEF t
<1>4. rest \in Seq(S) /\ Len(rest) = n - 1 /\ \A i \in 1..(n - 1) : rest[i] = s[i]
  <2>1. \A i \in 1..n : s[i] \in S
    BY <1>1, ElementOfSeq
  <2>2. 1 \in Int /\ n - 1 \in Int /\ \A i \in 1..(n - 1) : s[i] \in S
    BY <2>1
  <2>3. /\ rest \in Seq(S) /\ Len(rest) = IF 1 <= n - 1 THEN (n - 1) - 1 + 1 ELSE 0
        /\ \A i \in 1..((n - 1) - 1 + 1) : rest[i] = s[1 + i - 1]
    <3> HIDE DEF rest
    <3>1. QED
      BY <2>2, SubSeqProperties DEF rest
  <2> HIDE DEF rest
  <2>4. QED
    BY <2>3
<1>5. below \in Seq(S) /\ Len(below) = m + n - 1 /\ \A i \in 1..(m + n - 1) : below[i] = t[i]
  <2>1. \A i \in 1..(m + n) : t[i] \in S
    BY <1>3, ElementOfSeq
  <2>2. 1 \in Int /\ m + n - 1 \in Int /\ \A i \in 1..(m + n - 1) : t[i] \in S
    BY <2>1
  <2>3. /\ below \in Seq(S) /\ Len(below) = IF 1 <= m + n - 1 THEN (m + n - 1) - 1 + 1 ELSE 0
        /\ \A i \in 1..((m + n - 1) - 1 + 1) : below[i] = t[1 + i - 1]
    <3> HIDE DEF below
    <3>1. QED
      BY <2>2, SubSeqProperties DEF below
  <2> HIDE DEF below
  <2>4. QED
    BY <2>3
<1> HIDE DEF rest, below
<1>6. /\ low \o rest \in Seq(S) /\ Len(low \o rest) = m + (n - 1)
      /\ \A i \in 1..(m + (n - 1)) : (low \o rest)[i] = IF i <= m THEN low[i] ELSE rest[i - m]
  <2>1. PICK q \in Seq(S) : q = rest
    BY <1>4
  <2>2. /\ low \o q \in Seq(S) /\ Len(low \o q) = Len(low) + Len(q)
        /\ \A i \in 1..(Len(low) + Len(q)) :
             (low \o q)[i] = IF i <= Len(low) THEN low[i] ELSE q[i - Len(low)]
    BY ConcatProperties
  <2>3. Len(low) = m /\ Len(q) = n - 1
    BY <1>2, <1>4, <2>1
  <2>4. QED
    BY <2>1, <2>2, <2>3
<1>7. below = low \o rest
  <2>1. Len(below) = Len(low \o rest)
    BY <1>5, <1>6
  <2>2. ASSUME NEW i \in 1..Len(below) PROVE below[i] = (low \o rest)[i]
    <3>1. i \in 1..(m + n - 1) /\ i \in 1..(m + (n - 1)) /\ i \in 1..(m + n)
      BY <1>5, <2>2
    <3>2. CASE i <= m
      BY <1>3, <1>5, <1>6, <3>1, <3>2
    <3>3. CASE ~(i <= m)
      <4>1. i - m \in 1..(n - 1)
        BY <3>1, <3>3
      <4>2. QED
        BY <1>3, <1>4, <1>5, <1>6, <3>1, <3>3, <4>1
    <3>4. QED
      BY <3>2, <3>3
  <2>3. QED
    BY <1>5, <1>6, <2>1, <2>2, SeqEqual
<1>8. t[m + n] = s[n] /\ t # <<>>
  <2>1. m + n \in 1..(m + n) /\ ~(m + n <= m) /\ (m + n) - m = n /\ m + n # 0
    OBVIOUS
  <2>2. t[m + n] = s[n]
    BY <1>3, <2>1
  <2>3. QED
    BY <1>3, <2>1, <2>2, EmptySeq
<1>9. Len(t) - 1 = m + n - 1
  BY <1>3
<1>10. QED
  BY <1>1, <1>3, <1>7, <1>8, <1>9 DEF t, rest, below

\* A walk over stacks whose upper part keeps to U.
KeepsTo(U, low, w, A, K, key, bases, own) ==
  /\ Walks(w, Seq(A) \X SUBSET K, key, bases, own)
  /\ low \in Seq(A)
  /\ U \in SUBSET A
  /\ \A c \in U : key[c] \in K /\ bases[c] \in Seq(U)

\* What the walk does with the part of a stack above low.
Upper(v, U, low, w, K, key, bases, own) ==
  /\ \A q \in Seq(U) : \A Y \in SUBSET K : v[<<q, Y>>] = w[<<low \o q, Y>>]
  /\ Walks(v, Seq(U) \X SUBSET K, key, bases, own)

\* So the walk on the upper part of a stack is a walk.
LEMMA WalksAbove ==
  ASSUME NEW A, NEW K, NEW key, NEW bases, NEW own, NEW w, NEW low, NEW U,
         KeepsTo(U, low, w, A, K, key, bases, own)
  PROVE  \E v : Upper(v, U, low, w, K, key, bases, own)
<1> USE DEF KeepsTo, Upper
<1> DEFINE v == [p \in Seq(U) \X SUBSET K |-> w[<<low \o p[1], p[2]>>]]
<1>7. \A q \in Seq(U) : \A Y \in SUBSET K : v[<<q, Y>>] = w[<<low \o q, Y>>]
  OBVIOUS
<1> HIDE DEF v
<1>0. SUFFICES ASSUME NEW at \in Seq(U) \X SUBSET K, at[1] # <<>>
               PROVE  v[at] =
                        LET c == at[1][Len(at[1])]
                            rest == SubSeq(at[1], 1, Len(at[1]) - 1)
                        IN  IF key[c] \in at[2] THEN v[<<rest, at[2]>>]
                            ELSE IF own[c] # <<>> THEN own[c]
                            ELSE v[<<rest \o bases[c], at[2] \cup {key[c]}>>]
  <2>1. Walks(v, Seq(U) \X SUBSET K, key, bases, own)
    BY <1>0 DEF Walks
  <2>2. QED
    BY <1>7, <2>1
<1>1. PICK s \in Seq(U), X \in SUBSET K : at = <<s, X>> /\ s = at[1] /\ X = at[2] /\ s # <<>>
  BY <1>0
<1> DEFINE c == s[Len(s)]
           rest == SubSeq(s, 1, Len(s) - 1)
           t == low \o s
<1>2. c \in U /\ rest \in Seq(U)
  BY <1>1, PopFacts
<1>3. \A q \in Seq(U) : q \in Seq(A)
  BY SeqMonotonic
<1>4. /\ t \in Seq(A) /\ t # <<>> /\ t[Len(t)] = c
      /\ SubSeq(t, 1, Len(t) - 1) = low \o rest
  <2>1. s \in Seq(A)
    BY <1>3
  <2>2. QED
    BY <1>1, <2>1, PopAbove
<1> HIDE DEF c, rest, t
<1>5. key[c] \in K /\ bases[c] \in Seq(U)
  BY <1>2
<1>6. rest \o bases[c] \in Seq(U) /\ (low \o rest) \o bases[c] = low \o (rest \o bases[c])
  <2>1. rest \in Seq(A) /\ bases[c] \in Seq(A)
    BY <1>2, <1>3, <1>5
  <2>2. PICK r \in Seq(U), b \in Seq(U) : r = rest /\ b = bases[c] /\ r \in Seq(A) /\ b \in Seq(A)
    BY <1>2, <1>5, <2>1
  <2>3. r \o b \in Seq(U)
    BY ConcatFacts
  <2>4. (low \o r) \o b = low \o (r \o b)
    <3>1. \A x, y, z \in Seq(A) : (x \o y) \o z = x \o (y \o z)
      BY ConcatAssociative
    <3>2. QED
      BY <2>2, <3>1, Zenon
  <2>5. QED
    BY <2>2, <2>3, <2>4
<1>8. /\ v[<<s, X>>] = w[<<t, X>>]
      /\ v[<<rest, X>>] = w[<<low \o rest, X>>]
      /\ v[<<rest \o bases[c], X \cup {key[c]}>>] = w[<<low \o (rest \o bases[c]), X \cup {key[c]}>>]
  BY <1>2, <1>5, <1>6, <1>7 DEF t
<1>9. w[<<t, X>>] = IF key[c] \in X THEN w[<<low \o rest, X>>]
                    ELSE IF own[c] # <<>> THEN own[c]
                    ELSE w[<<(low \o rest) \o bases[c], X \cup {key[c]}>>]
  <2>1. <<t, X>> \in Seq(A) \X SUBSET K /\ <<t, X>>[1] = t /\ <<t, X>>[2] = X
    BY <1>4
  <2>2. QED
    BY <1>4, <2>1 DEF Walks
<1>10. QED
  BY <1>1, <1>6, <1>8, <1>9 DEF c, rest

\* What is found for an indexed class is a method of one of its ancestors, and there
\* is none if none is found.
LEMMA MethodFound ==
  ASSUME NEW R, IsRepo(R), NEW class \in IndexedClasses(R), NEW name
  PROVE  LET found == FindMethod(R, class, name)
         IN  IF MethodOwners(R, class, name) = {} THEN found = <<>>
             ELSE \E c \in MethodOwners(R, class, name) : found = OwnMethod(R, c, name)
<1> DEFINE A == Ancestors(R, class)
           I == IndexedClasses(R)
           K == KeysOf(R)
           key == KeyOf(R)
           bases == BasesOf(R)
           own == OwnOf(R, name)
           first == << <<class>>, {} >>
<1>1. /\ A \in SUBSET I /\ class \in A
      /\ \A c \in A : ToSet(KnownBases(R, c)) \subseteq A
      /\ \A G : class \in G /\ (\A c \in G : ToSet(KnownBases(R, c)) \subseteq G) => A \subseteq G
  BY AncestorsFacts
<1>2. PICK w : /\ FindMethod(R, class, name) = w[first]
               /\ \A X \in SUBSET K : w[<< <<>>, X >>] = <<>>
               /\ Walks(w, Seq(I) \X SUBSET K, key, bases, own)
  BY FindWalks
<1>3. /\ IsFiniteSet(K)
      /\ \A c \in I : key[c] = ClassKey(R, c) /\ key[c] \in K
      /\ \A c, d \in I : key[c] = key[d] => c = d
      /\ \A c \in I : bases[c] = KnownBases(R, c) /\ bases[c] \in Seq(I)
      /\ \A c \in I : own[c] = OwnMethod(R, c, name)
  BY ClassFunctions
<1>4. \A c \in MethodOwners(R, class, name) : c \in A /\ OwnMethod(R, c, name) # <<>>
  BY DEF MethodOwners
<1>5. \A c \in A : OwnMethod(R, c, name) # <<>> => c \in MethodOwners(R, class, name)
  BY DEF MethodOwners
<1> HIDE DEF A, I, K, key, bases, own
<1>6. \A c \in A : bases[c] \in Seq(A)
  <2> TAKE c \in A
  <2>1. bases[c] = KnownBases(R, c) /\ bases[c] \in Seq(I)
    BY <1>1, <1>3
  <2>2. IsSeq(bases[c]) /\ ToSet(bases[c]) \subseteq A
    BY <1>1, <2>1, SeqIs
  <2>3. QED
    BY <2>2, IsSeqTo
<1>7. Walks(w, Seq(A) \X SUBSET K, key, bases, own)
  <2>1. Seq(A) \subseteq Seq(I)
    BY <1>1, SeqMonotonic
  <2>2. QED
    BY <1>2, <2>1 DEF Walks
<1>8. first \in Seq(A) \X SUBSET K /\ Searched(first, A, key, bases, own, class)
  <2>1. <<class>> \in Seq(A) /\ ToSet(<<class>>) = {class}
    <3>1. <<class>>[1] = class /\ DOMAIN <<class>> = {1}
      OBVIOUS
    <3>2. QED
      BY <1>1, <3>1 DEF ToSet
  <2>2. first[1] = <<class>> /\ first[2] = {}
    OBVIOUS
  <2>3. first \in Seq(A) \X SUBSET K
    BY <2>1
  <2> HIDE DEF first
  <2>4. Searched(first, A, key, bases, own, class)
    BY <2>1, <2>2 DEF Searched
  <2>5. QED
    BY <2>3, <2>4
<1> HIDE DEF first
<1>9. Finds(w[first], w, K, A, bases, own, class)
  <2>1. (\A c \in A : key[c] \in K) /\ (\A c, d \in A : key[c] = key[d] => c = d)
    BY <1>1, <1>3
  <2>2. QED
    BY <1>1, <1>3, <1>6, <1>7, <1>8, <2>1, MethodSearch
<1>10. CASE \E c \in A : own[c] # <<>> /\ FindMethod(R, class, name) = own[c]
  <2>1. PICK c \in A : own[c] # <<>> /\ FindMethod(R, class, name) = own[c]
    BY <1>10
  <2>2. own[c] = OwnMethod(R, c, name) /\ c \in MethodOwners(R, class, name)
    BY <1>1, <1>3, <1>5, <2>1
  <2>3. QED
    BY <2>1, <2>2
<1>11. CASE \E X \in SUBSET K : FindMethod(R, class, name) = w[<< <<>>, X >>]
       /\ \E G \in SUBSET A : class \in G /\ \A c \in G : own[c] = <<>> /\ ToSet(bases[c]) \subseteq G
  <2>1. FindMethod(R, class, name) = <<>>
    BY <1>2, <1>11
  <2>2. PICK G \in SUBSET A : class \in G /\ \A c \in G : own[c] = <<>> /\ ToSet(bases[c]) \subseteq G
    BY <1>11
  <2>3. A \subseteq G
    BY <1>1, <1>3, <2>2
  <2>4. \A c \in A : OwnMethod(R, c, name) = <<>>
    BY <1>1, <1>3, <2>2, <2>3
  <2>5. MethodOwners(R, class, name) = {}
    BY <1>4, <2>4
  <2>6. QED
    BY <2>1, <2>5
<1>12. QED
  BY <1>2, <1>9, <1>10, <1>11 DEF Finds

\* A method of the class itself is found at once,
LEMMA OwnFound ==
  ASSUME NEW R, IsRepo(R), NEW class \in IndexedClasses(R), NEW name, OwnMethod(R, class, name) # <<>>
  PROVE  FindMethod(R, class, name) = OwnMethod(R, class, name)
<1> DEFINE I == IndexedClasses(R)
           K == KeysOf(R)
           key == KeyOf(R)
           bases == BasesOf(R)
           own == OwnOf(R, name)
           first == << <<class>>, {} >>
<1>1. PICK w : FindMethod(R, class, name) = w[first] /\ Walks(w, Seq(I) \X SUBSET K, key, bases, own)
  BY FindWalks
<1>2. own[class] = OwnMethod(R, class, name)
  BY ClassFunctions
<1> HIDE DEF I, K, key, bases, own
<1>3. /\ first \in Seq(I) \X SUBSET K /\ first[1] = <<class>> /\ first[2] = {}
      /\ first[1] # <<>> /\ first[1][Len(first[1])] = class
  BY DEF I
<1> HIDE DEF first
<1>4. w[first] = own[class]
  BY <1>1, <1>2, <1>3 DEF Walks
<1>5. QED
  BY <1>1, <1>2, <1>4

\* the search goes on with the stack of the bases if there is none,
LEMMA BasesNext ==
  ASSUME NEW R, IsRepo(R), NEW class \in IndexedClasses(R), NEW name, OwnMethod(R, class, name) = <<>>,
         NEW w, FindMethod(R, class, name) = w[<< <<class>>, {} >>],
         Walks(w, Seq(IndexedClasses(R)) \X SUBSET KeysOf(R), KeyOf(R), BasesOf(R), OwnOf(R, name))
  PROVE  FindMethod(R, class, name) = w[<<KnownBases(R, class), {KeyOf(R)[class]}>>]
<1> DEFINE I == IndexedClasses(R)
           K == KeysOf(R)
           key == KeyOf(R)
           bases == BasesOf(R)
           own == OwnOf(R, name)
           first == << <<class>>, {} >>
           rest == SubSeq(<<class>>, 1, Len(<<class>>) - 1)
<1>1. own[class] = OwnMethod(R, class, name) /\ bases[class] = KnownBases(R, class) /\ bases[class] \in Seq(I)
  BY ClassFunctions
<1>2. <<class>> \in Seq(I) /\ Len(<<class>>) = 1
  OBVIOUS
<1>3. rest = <<>>
  <2>1. rest \in Seq(I) /\ Len(rest) = 0
    BY <1>2, PopFacts
  <2>2. QED
    BY <2>1, EmptySeq
<1> HIDE DEF I, K, key, bases, own, rest
<1>4. /\ first \in Seq(I) \X SUBSET K /\ first[1] = <<class>> /\ first[2] = {}
      /\ first[1] # <<>> /\ first[1][Len(first[1])] = class
      /\ SubSeq(first[1], 1, Len(first[1]) - 1) = rest
  BY DEF I, rest
<1> HIDE DEF first
<1>5. w[first] = w[<<rest \o bases[class], {} \cup {key[class]}>>]
  BY <1>1, <1>4 DEF Walks, I, K, key, bases, own
<1>6. rest \o bases[class] = bases[class] /\ {} \cup {key[class]} = {key[class]}
  BY <1>1, <1>3, ConcatEmptySeq
<1>7. QED
  BY <1>1, <1>5, <1>6 DEF first, key

\* and finds nothing when no base has ancestors with one.
LEMMA NoneFound ==
  ASSUME NEW R, IsRepo(R), NEW class \in IndexedClasses(R), NEW name, OwnMethod(R, class, name) = <<>>,
         \A k \in DOMAIN KnownBases(R, class) : MethodOwners(R, KnownBases(R, class)[k], name) = {}
  PROVE  FindMethod(R, class, name) = <<>>
<1> DEFINE I == IndexedClasses(R)
           G == {c \in I : OwnMethod(R, c, name) = <<>>}
           H == {class} \cup {c \in I : MethodOwners(R, c, name) = {}}
<1>1. class \in H /\ H \subseteq I
  OBVIOUS
<1>2. ASSUME NEW c \in H PROVE ToSet(KnownBases(R, c)) \subseteq H
  <2>1. KnownBases(R, c) \in Seq(I)
    BY <1>1, BasesIndexed DEF IndexedClasses
  <2>2. IsSeq(KnownBases(R, c)) /\ ToSet(KnownBases(R, c)) \subseteq I
    BY <2>1, SeqIs
  <2>3. CASE c = class
    BY <2>2, <2>3 DEF ToSet
  <2>4. CASE MethodOwners(R, c, name) = {}
    <3>1. c \in I
      BY <1>1
    <3>2. ASSUME NEW b \in ToSet(KnownBases(R, c)) PROVE MethodOwners(R, b, name) = {}
      <4>1. b \in I
        BY <2>2, <3>2
      <4>2. Ancestors(R, b) \subseteq Ancestors(R, c)
        <5>1. /\ c \in Ancestors(R, c)
              /\ \A d \in Ancestors(R, c) : ToSet(KnownBases(R, d)) \subseteq Ancestors(R, c)
          BY <3>1, AncestorsFacts
        <5>2. b \in Ancestors(R, c)
          BY <3>2, <5>1
        <5>3. QED
          BY <4>1, <5>1, <5>2, AncestorsFacts
      <4>3. QED
        BY <2>4, <4>2 DEF MethodOwners
    <3> HIDE DEF I
    <3>3. QED
      BY <2>2, <3>2
  <2>5. QED
    BY <2>3, <2>4
<1>3. \A c \in H : OwnMethod(R, c, name) = <<>>
  <2>1. \A c \in I : MethodOwners(R, c, name) = {} => OwnMethod(R, c, name) = <<>>
    BY AncestorsFacts DEF MethodOwners
  <2>2. QED
    BY <2>1
<1> HIDE DEF H, I
<1>4. Ancestors(R, class) \subseteq H
  BY <1>1, <1>2, AncestorsFacts
<1>5. MethodOwners(R, class, name) = {}
  BY <1>3, <1>4 DEF MethodOwners
<1>6. QED
  BY <1>5, MethodFound

\* The bases that come last on the stack are searched, with all that they lead to,
\* before those that come first.
LEMMA LastFound ==
  ASSUME NEW R, IsRepo(R), NEW class \in IndexedClasses(R), NEW name, OwnMethod(R, class, name) = <<>>,
         NEW k \in DOMAIN KnownBases(R, class),
         MethodOwners(R, KnownBases(R, class)[k], name) # {},
         \A j \in DOMAIN KnownBases(R, class) :
           j > k => MethodOwners(R, KnownBases(R, class)[j], name) = {}
  PROVE  \E c \in MethodOwners(R, KnownBases(R, class)[k], name) :
           FindMethod(R, class, name) = OwnMethod(R, c, name)
<1> DEFINE I == IndexedClasses(R)
           K == KeysOf(R)
           key == KeyOf(R)
           bases == BasesOf(R)
           own == OwnOf(R, name)
           all == KnownBases(R, class)
           n == Len(all)
           AK == Ancestors(R, all[k])
           U == UNION {Ancestors(R, all[j]) : j \in k..n}
           low == SubSeq(all, 1, k - 1)
           high == SubSeq(all, k, n)
           X == {key[class]}
<1>1. /\ all \in Seq(I) /\ n \in Nat /\ DOMAIN all = 1..n /\ k \in 1..n
      /\ \A j \in 1..n : all[j] \in I
  <2>1. class \in Classes(R)
    BY DEF IndexedClasses
  <2>2. all \in Seq(I)
    BY <2>1, BasesIndexed
  <2> HIDE DEF all, I
  <2>3. n \in Nat /\ DOMAIN all = 1..n /\ \A j \in 1..n : all[j] \in I
    BY <2>2, LenProperties, ElementOfSeq
  <2>4. QED
    BY <2>2, <2>3 DEF all
<1>2. /\ IsFiniteSet(K)
      /\ \A c \in I : key[c] = ClassKey(R, c) /\ key[c] \in K
      /\ \A c, d \in I : key[c] = key[d] => c = d
      /\ \A c \in I : bases[c] = KnownBases(R, c) /\ bases[c] \in Seq(I)
      /\ \A c \in I : own[c] = OwnMethod(R, c, name)
  BY ClassFunctions
<1>3. \A c \in I : /\ Ancestors(R, c) \subseteq I /\ c \in Ancestors(R, c)
                   /\ \A d \in Ancestors(R, c) : ToSet(KnownBases(R, d)) \subseteq Ancestors(R, c)
                   /\ \A G : c \in G /\ (\A d \in G : ToSet(KnownBases(R, d)) \subseteq G)
                        => Ancestors(R, c) \subseteq G
  BY AncestorsFacts
<1>4. \A c, d : d \in MethodOwners(R, c, name) <=> d \in Ancestors(R, c) /\ OwnMethod(R, d, name) # <<>>
  BY DEF MethodOwners
<1>5. PICK w : /\ FindMethod(R, class, name) = w[<< <<class>>, {} >>]
               /\ \A Y \in SUBSET K : w[<< <<>>, Y >>] = <<>>
               /\ Walks(w, Seq(I) \X SUBSET K, key, bases, own)
  BY FindWalks
<1>6. FindMethod(R, class, name) = w[<<all, X>>]
  BY <1>5, BasesNext
<1> HIDE DEF I, K, key, bases, own, all, n
<1>7. /\ AK \subseteq U /\ U \subseteq I /\ all[k] \in AK
      /\ \A c \in U : ToSet(KnownBases(R, c)) \subseteq U
  <2>1. k \in k..n /\ \A j \in k..n : j \in 1..n
    BY <1>1
  <2>2. \A j \in k..n : /\ Ancestors(R, all[j]) \subseteq I
                        /\ \A c \in Ancestors(R, all[j]) : ToSet(KnownBases(R, c)) \subseteq Ancestors(R, all[j])
    BY <1>1, <1>3, <2>1
  <2>3. QED
    BY <1>1, <1>3, <2>1, <2>2
<1>8. \A c \in U : OwnMethod(R, c, name) # <<>> => c \in MethodOwners(R, all[k], name)
  <2> TAKE c \in U
  <2>1. PICK j \in k..n : c \in Ancestors(R, all[j])
    OBVIOUS
  <2>2. j = k \/ (j \in 1..n /\ j > k)
    BY <1>1
  <2>3. QED
    BY <1>1, <1>4, <2>1, <2>2 DEF all
<1> HIDE DEF U, AK
<1>9. CASE class \in AK
  <2>1. Ancestors(R, class) \subseteq AK
    BY <1>1, <1>3, <1>9 DEF AK
  <2>2. PICK d : d \in MethodOwners(R, all[k], name)
    BY DEF all
  <2>3. ASSUME MethodOwners(R, class, name) = {} PROVE FALSE
    <3>1. \A c \in Ancestors(R, class) : c \in I
      BY <1>3 DEF I
    <3>2. all[k] \in Ancestors(R, class)
      <4>1. class \in I
        BY DEF I
      <4>2. all[k] \in ToSet(all)
        BY <1>1 DEF ToSet
      <4>3. QED
        BY <1>3, <4>1, <4>2 DEF all
    <3>3. AK \subseteq Ancestors(R, class)
      <4>1. class \in I
        BY DEF I
      <4>2. QED
        BY <1>1, <1>3, <3>2, <4>1 DEF AK
    <3>4. QED
      BY <1>4, <2>2, <2>3, <3>3 DEF AK
  <2>4. PICK c \in MethodOwners(R, class, name) : FindMethod(R, class, name) = OwnMethod(R, c, name)
    BY <2>3, MethodFound
  <2>5. c \in MethodOwners(R, all[k], name)
    BY <1>4, <2>1, <2>4 DEF AK
  <2>6. QED
    BY <2>4, <2>5 DEF all
<1>10. CASE class \notin AK
  <2>1. class \notin U
    <3>1. ASSUME class \in U PROVE FALSE
      <4>1. PICK j \in k..n : class \in Ancestors(R, all[j])
        BY <3>1 DEF U
      <4>2. j \in 1..n /\ j > k
        BY <1>1, <1>10, <4>1 DEF AK
      <4>3. all[k] \in Ancestors(R, all[j])
        <5>1. all[k] \in ToSet(all)
          BY <1>1 DEF ToSet
        <5>2. QED
          BY <1>1, <1>3, <4>1, <4>2, <5>1 DEF all
      <4>4. AK \subseteq Ancestors(R, all[j])
        BY <1>1, <1>3, <4>2, <4>3 DEF AK
      <4>5. QED
        BY <1>1, <1>4, <4>2, <4>4 DEF AK, all
    <3>2. QED
      BY <3>1
  <2>2. /\ low \in Seq(I) /\ high \in Seq(U) /\ all = low \o high
        /\ all[k] \in ToSet(high)
    <3>1. /\ low \in Seq(I) /\ Len(low) = k - 1 /\ \A i \in 1..(k - 1) : low[i] = all[i]
      <4>1. 1 \in Int /\ k - 1 \in Int /\ \A i \in 1..(k - 1) : all[i] \in I
        BY <1>1
      <4>2. /\ low \in Seq(I) /\ Len(low) = IF 1 <= k - 1 THEN (k - 1) - 1 + 1 ELSE 0
            /\ \A i \in 1..((k - 1) - 1 + 1) : low[i] = all[1 + i - 1]
        <5> HIDE DEF low
        <5>1. QED
          BY <4>1, SubSeqProperties DEF low
      <4> HIDE DEF low
      <4>3. QED
        BY <1>1, <4>2
    <3>2. /\ high \in Seq(U) /\ Len(high) = n - k + 1 /\ \A i \in 1..(n - k + 1) : high[i] = all[k + i - 1]
      <4>1. k \in Int /\ n \in Int /\ \A i \in k..n : all[i] \in U
        <5>1. \A i \in k..n : i \in 1..n
          BY <1>1
        <5>2. QED
          BY <1>1, <1>3, <5>1 DEF U
      <4>2. /\ high \in Seq(U) /\ Len(high) = IF k <= n THEN n - k + 1 ELSE 0
            /\ \A i \in 1..(n - k + 1) : high[i] = all[k + i - 1]
        <5> HIDE DEF high
        <5>1. QED
          BY <4>1, SubSeqProperties DEF high
      <4> HIDE DEF high
      <4>3. QED
        BY <1>1, <4>2
    <3> HIDE DEF low, high
    <3>3. PICK h \in Seq(I) : h = high
      BY <1>7, <3>2, SeqMonotonic
    <3>4. /\ low \o h \in Seq(I) /\ Len(low \o h) = Len(low) + Len(h)
          /\ \A i \in 1..(Len(low) + Len(h)) :
               (low \o h)[i] = IF i <= Len(low) THEN low[i] ELSE h[i - Len(low)]
      BY <3>1, ConcatProperties
    <3>5. Len(low \o h) = n
      BY <1>1, <3>1, <3>2, <3>3, <3>4
    <3>6. ASSUME NEW i \in 1..n PROVE all[i] = (low \o h)[i]
      <4>1. (low \o h)[i] = IF i <= k - 1 THEN low[i] ELSE h[i - (k - 1)]
        BY <1>1, <3>1, <3>2, <3>3, <3>4
      <4>2. CASE i <= k - 1
        BY <1>1, <3>1, <4>1, <4>2
      <4>3. CASE ~(i <= k - 1)
        <5>1. i - (k - 1) \in 1..(n - k + 1) /\ k + (i - (k - 1)) - 1 = i
          BY <1>1, <4>3
        <5>2. QED
          BY <3>2, <3>3, <4>1, <4>3, <5>1
      <4>4. QED
        BY <4>2, <4>3
    <3>7. all = low \o h
      BY <1>1, <3>4, <3>5, <3>6, SeqEqual DEF n
    <3>8. all[k] \in ToSet(high)
      <4>1. 1 \in 1..(n - k + 1) /\ k + 1 - 1 = k
        BY <1>1
      <4>2. 1 \in DOMAIN high /\ high[1] = all[k]
        BY <3>2, <4>1, LenProperties
      <4>3. QED
        BY <4>2 DEF ToSet
    <3>9. QED
      BY <3>1, <3>2, <3>3, <3>7, <3>8
  <2> DEFINE D == Seq(U) \X SUBSET K
             first == <<high, X>>
  <2>3. \A c \in U : key[c] \in K /\ bases[c] \in Seq(U)
    <3> TAKE c \in U
    <3>1. c \in I /\ bases[c] = KnownBases(R, c) /\ bases[c] \in Seq(I)
      BY <1>2, <1>7
    <3>2. IsSeq(bases[c]) /\ ToSet(bases[c]) \subseteq U
      BY <1>7, <3>1, SeqIs
    <3>3. QED
      BY <1>2, <3>1, <3>2, IsSeqTo
  <2>4. X \in SUBSET K /\ first \in D /\ first[1] = high /\ first[2] = X
    <3>1. class \in I
      BY DEF I
    <3>2. QED
      BY <1>2, <2>2, <3>1
  <2> HIDE DEF low, high
  <2>5. PICK v : /\ \A q \in Seq(U) : \A Y \in SUBSET K : v[<<q, Y>>] = w[<<low \o q, Y>>]
                 /\ Walks(v, D, key, bases, own)
    <3>1. U \in SUBSET I
      BY <1>7
    <3>2. KeepsTo(U, low, w, I, K, key, bases, own)
      BY <1>5, <2>2, <2>3, <3>1 DEF KeepsTo
    <3> HIDE DEF D, first, X
    <3>3. PICK v : Upper(v, U, low, w, K, key, bases, own)
      BY <3>2, WalksAbove
    <3>4. QED
      BY <3>3 DEF Upper, D
  <2>6. v[first] = FindMethod(R, class, name)
    BY <1>6, <2>2, <2>4, <2>5
  <2> HIDE DEF first, X
  <2>7. Searched(first, U, key, bases, own, all[k])
    <3>1. {c \in U : key[c] \in X} = {}
      <4>1. class \in I
        BY DEF I
      <4>2. QED
        BY <1>2, <1>7, <2>1, <4>1 DEF X
    <3>2. QED
      BY <2>2, <2>4, <3>1 DEF Searched
  <2>8. Finds(v[first], v, K, U, bases, own, all[k])
    <3>1. /\ \A c \in U : key[c] \in K
          /\ \A c, d \in U : key[c] = key[d] => c = d
          /\ \A c \in U : bases[c] \in Seq(U)
          /\ all[k] \in U
      BY <1>2, <1>7, <2>3
    <3>2. QED
      BY <1>2, <2>4, <2>5, <2>7, <3>1, MethodSearch
  <2>9. CASE \E c \in U : own[c] # <<>> /\ v[first] = own[c]
    <3>1. PICK c \in U : own[c] # <<>> /\ v[first] = own[c]
      BY <2>9
    <3>2. own[c] = OwnMethod(R, c, name)
      BY <1>2, <1>7
    <3>3. QED
      BY <1>8, <2>6, <3>1, <3>2 DEF all
  <2>10. CASE \E G \in SUBSET U : all[k] \in G /\ \A c \in G : own[c] = <<>> /\ ToSet(bases[c]) \subseteq G
    <3>1. PICK G \in SUBSET U : all[k] \in G /\ \A c \in G : own[c] = <<>> /\ ToSet(bases[c]) \subseteq G
      BY <2>10
    <3>2. \A c \in G : c \in I
      BY <1>7
    <3>3. \A c \in G : ToSet(KnownBases(R, c)) \subseteq G
      BY <1>2, <3>1, <3>2
    <3>4. AK \subseteq G
      BY <1>1, <1>3, <3>1, <3>3 DEF AK
    <3>5. \A c \in AK : OwnMethod(R, c, name) = <<>>
      BY <1>2, <3>1, <3>2, <3>4
    <3>6. MethodOwners(R, all[k], name) = {}
      BY <1>4, <3>5 DEF AK
    <3>7. QED
      BY <3>6 DEF all
  <2>11. QED
    BY <2>8, <2>9, <2>10 DEF Finds
<1>11. QED
  BY <1>9, <1>10

\* So the class's own method counts, and then that of the last base to lead to one.
LEMMA MethodsAlike == ASSUME GraphInv PROVE MethodsInherited
<1>1. IsRepo(repo)
  BY GraphStoreAssumption DEF GraphInv
<1>2. SUFFICES ASSUME NEW class \in IndexedClasses(repo), NEW name
               PROVE  LET bases == KnownBases(repo, class)
                          last  == LastOf({k \in DOMAIN bases : MethodOwners(repo, bases[k], name) # {}})
                          found == FindMethod(repo, class, name)
                      IN  IF OwnMethod(repo, class, name) # <<>> THEN found = OwnMethod(repo, class, name)
                          ELSE IF last = 0 THEN found = <<>>
                          ELSE \E c \in MethodOwners(repo, bases[last], name) :
                                 found = OwnMethod(repo, c, name)
  BY DEF MethodsInherited, IndexedClasses
<1> DEFINE bases == KnownBases(repo, class)
           S == {k \in DOMAIN bases : MethodOwners(repo, bases[k], name) # {}}
           last == LastOf(S)
<1>3. DOMAIN bases = 1..Len(bases) /\ Len(bases) \in Nat
  <2>1. class \in Classes(repo)
    BY DEF IndexedClasses
  <2>2. bases \in Seq(IndexedClasses(repo))
    BY <1>1, <2>1, BasesIndexed
  <2> HIDE DEF bases
  <2>3. QED
    BY <2>2, LenProperties
<1>4. CASE OwnMethod(repo, class, name) # <<>>
  BY <1>1, <1>4, OwnFound
<1>5. CASE OwnMethod(repo, class, name) = <<>> /\ S = {}
  <2>1. last = 0
    BY <1>5 DEF LastOf
  <2>2. \A k \in DOMAIN bases : MethodOwners(repo, bases[k], name) = {}
    BY <1>5
  <2>3. FindMethod(repo, class, name) = <<>>
    BY <1>1, <1>5, <2>2, NoneFound
  <2>4. QED
    BY <1>5, <2>1, <2>3
<1>6. CASE OwnMethod(repo, class, name) = <<>> /\ S # {}
  <2> HIDE DEF bases
  <2>1. PICK n \in Nat : DOMAIN bases = 1..n
    BY <1>3
  <2>2. S \in SUBSET 1..n /\ S # {} /\ S \in SUBSET (0..n)
    BY <1>6, <2>1
  <2> HIDE DEF S
  <2>3. last \in S /\ last # 0 /\ \A j \in S : j <= last
    <3>1. last = Max(S)
      BY <2>2 DEF LastOf
    <3>2. last \in S
      BY <2>2, LastOfFacts
    <3>3. \A j \in S : j <= last
      <4>1. \A y \in S : y <= Max(S)
        BY <2>2, MaxFacts
      <4>2. QED
        BY <3>1, <4>1
    <3> HIDE DEF last
    <3>4. QED
      BY <2>2, <3>2, <3>3
  <2> HIDE DEF last
  <2>4. last \in DOMAIN bases /\ MethodOwners(repo, bases[last], name) # {}
    BY <2>3 DEF S
  <2>5. \A j \in DOMAIN bases : j > last => MethodOwners(repo, bases[j], name) = {}
    <3> TAKE j \in DOMAIN bases
    <3>1. last \in Nat /\ j \in Nat
      BY <2>1, <2>4
    <3>2. j > last => j \notin S
      BY <2>3, <3>1
    <3>3. QED
      BY <3>2 DEF S
  <2>6. \E c \in MethodOwners(repo, bases[last], name) : FindMethod(repo, class, name) = OwnMethod(repo, c, name)
    BY <1>1, <1>6, <2>4, <2>5, LastFound DEF bases
  <2>7. QED
    BY <1>6, <2>3, <2>6 DEF last, S, bases
<1>7. QED
  BY <1>4, <1>5, <1>6

-----------------------------------------------------------------------------
(* The classes that calls ask for methods.                                 *)

\* A qualified name stands for an indexed symbol, if for any.
LEMMA QualifiedIndexed ==
  ASSUME NEW R, IsRepo(R), NEW f \in ToSet(R.files), NEW name
  PROVE  ByQualified(R, f, name) \in {<<>>} \cup Indexed(R)
<1> DEFINE S == {i \in Defs(R, f) : Qualified(R, <<f, i>>) = name}
<1>1. S \in SUBSET Defs(R, f) /\ ByQualified(R, f, name) = Sym(f, LastOf(S))
  BY DEF ByQualified
<1>2. \A i \in S : \A j \in Defs(R, f) : Qualified(R, <<f, j>>) = Qualified(R, <<f, i>>) => j \in S
  OBVIOUS
<1>3. \A i, j \in S : Qualified(R, <<f, j>>) = Qualified(R, <<f, i>>)
  OBVIOUS
<1> HIDE DEF S
<1>4. QED
  BY <1>1, <1>2, <1>3, LastIndexed

\* So the class around a call is one that its name stands for,
LEMMA EnclosingIndexed ==
  ASSUME NEW R, IsRepo(R), NEW f \in ToSet(R.files), NEW i
  PROVE  EnclosingClass(R, f, i) \in {<<>>} \cup IndexedClasses(R)
<1> DEFINE c == LastOf(Around(R, f, i, "class"))
           s == IF c = 0 THEN <<>> ELSE ByQualified(R, f, Qualified(R, <<f, c>>))
<1>1. EnclosingClass(R, f, i) = OnlyClass(R, s)
  BY DEF EnclosingClass
<1>2. s \in {<<>>} \cup Indexed(R)
  BY QualifiedIndexed
<1> HIDE DEF s
<1>3. QED
  BY <1>1, <1>2 DEF OnlyClass, Indexed, IndexedClasses, Classes

\* and so is the first class of some names,
LEMMA FirstClassIndexed ==
  ASSUME NEW R, IsRepo(R), NEW f \in ToSet(R.files), NEW names, IsSeq(names)
  PROVE  FirstClass(R, f, names) \in {<<>>} \cup IndexedClasses(R)
<1> DEFINE all == [k \in DOMAIN names |-> ClassIn(R, f, names[k])]
           some == {k \in DOMAIN all : all[k] # <<>>}
           those == Pick(all, some)
<1>1. \A k \in some : all[k] \in IndexedClasses(R)
  <2> TAKE k \in some
  <2>1. all[k] = ClassIn(R, f, names[k]) /\ all[k] # <<>>
    OBVIOUS
  <2>2. ClassIn(R, f, names[k]) \in {<<>>, ClassNamed(R, f, names[k])}
    BY Zenon DEF ClassIn
  <2>3. ResolveBare(R, f, names[k]) \in {<<>>} \cup Indexed(R)
    BY NamesIndexed
  <2>4. ClassNamed(R, f, names[k]) \in {<<>>} \cup IndexedClasses(R)
    BY <2>3 DEF ClassNamed, OnlyClass, Indexed, IndexedClasses, Classes
  <2> HIDE DEF all
  <2>5. QED
    BY <2>1, <2>2, <2>4
<1>2. IsSeq(all)
  <2>1. all = [k \in DOMAIN names |-> all[k]]
    OBVIOUS
  <2> HIDE DEF all
  <2>2. QED
    BY <2>1, MapFacts
<1>3. some \in SUBSET DOMAIN all
  OBVIOUS
<1>4. FirstClass(R, f, names) = IF those = <<>> THEN <<>> ELSE those[1]
  BY DEF FirstClass, Where
<1> HIDE DEF all, some
<1>5. IsSeq(those) /\ ToSet(those) = {all[k] : k \in some}
  BY <1>2, <1>3, PickFacts
<1> HIDE DEF those
<1>6. those # <<>> => those[1] \in ToSet(those)
  <2>1. those # <<>> => 1 \in DOMAIN those
    BY <1>5, EmptySeq, LenProperties DEF IsSeq
  <2>2. QED
    BY <2>1 DEF ToSet
<1>7. QED
  BY <1>1, <1>4, <1>5, <1>6

\* which a variable is noted, given or made to hold.
LEMMA VariableIndexed ==
  ASSUME NEW R, IsRepo(R), NEW f \in ToSet(R.files), NEW d, NEW var
  PROVE  VariableType(R, f, d, var) \in {<<>>} \cup IndexedClasses(R)
<1> DEFINE src == R.code[f]
           at == {k \in DOMAIN src : src[k].kind = "assign" /\ src[k].up = d /\ src[k].name = var}
           assigned == Pick(src, at)
           given == IF var \in DOMAIN src[d].params THEN <<src[d].params[var]>> ELSE <<>>
           notes == [k \in DOMAIN assigned |-> assigned[k].note]
           froms == [k \in DOMAIN assigned |-> assigned[k].from]
           note == FirstClass(R, f, notes \o given)
           made == FirstClass(R, f, froms)
<1>1. VariableType(R, f, d, var) = IF note # <<>> /\ (assigned = <<>> \/ made # <<>>) THEN note
                                   ELSE IF Len(assigned) = 1 THEN made ELSE <<>>
  BY DEF VariableType, Where
<1>2. IsSeq(assigned)
  <2>1. IsSeq(src) /\ at \in SUBSET DOMAIN src
    BY DEF IsRepo
  <2> HIDE DEF src, at
  <2>2. QED
    BY <2>1, PickFacts
<1>3. \E p : given \in {<<>>, <<p>>}
  OBVIOUS
<1> HIDE DEF assigned, given
<1>4. IsSeq(notes) /\ IsSeq(froms)
  <2>1. notes = [k \in DOMAIN assigned |-> notes[k]] /\ froms = [k \in DOMAIN assigned |-> froms[k]]
    OBVIOUS
  <2> HIDE DEF notes, froms
  <2>2. QED
    BY <1>2, <2>1, MapFacts
<1> HIDE DEF notes, froms
<1>5. IsSeq(notes \o given)
  <2>1. PICK p : given \in {<<>>, <<p>>}
    BY <1>3
  <2>2. PICK T : T = ToSet(notes) \cup {p}
    OBVIOUS
  <2>3. notes \in Seq(T)
    BY <1>4, <2>2, IsSeqTo
  <2>4. <<p>> \in Seq(T) /\ <<>> \in Seq(T)
    BY <2>2, SMT
  <2>5. given \in Seq(T)
    BY <2>1, <2>4
  <2>6. notes \o given \in Seq(T)
    BY <2>3, <2>5, ConcatProperties
  <2>7. QED
    BY <2>6, SeqIs
<1>6. note \in {<<>>} \cup IndexedClasses(R) /\ made \in {<<>>} \cup IndexedClasses(R)
  BY <1>4, <1>5, FirstClassIndexed
<1> HIDE DEF note, made
<1>7. QED
  BY <1>1, <1>6

\* And so is the class of a receiver.
LEMMA ReceiverIndexed ==
  ASSUME NEW R, IsRepo(R), NEW f \in ToSet(R.files), NEW i, NEW var
  PROVE  ReceiverType(R, f, i, var) \in {<<>>} \cup IndexedClasses(R)
<1> DEFINE d == LastOf({e \in Around(R, f, i, "def") : VariableType(R, f, e, var) # <<>>})
<1>1. ReceiverType(R, f, i, var) = IF d = 0 THEN <<>> ELSE VariableType(R, f, d, var)
  BY DEF ReceiverType
<1> HIDE DEF d
<1>2. QED
  BY <1>1, VariableIndexed

\* The classes that find_method is asked by the call at i.
Asked(R, f, i) == {EnclosingClass(R, f, i), ReceiverType(R, f, i, R.code[f][i].on)} \ {<<>>}

\* Each is a class, the one that its qualified name stands for (resolve_attribute).
AsksIndexed ==
  phase = "parsed" =>
    \A f \in ToSet(repo.files) : \A i \in Calls(repo, f) :
      \A class \in Asked(repo, f, i) : class \in Classes(repo) /\ IsIndexed(repo, class)

-----------------------------------------------------------------------------
(* What is proved.                                                         *)

\* The invariants hold together.
LEMMA IsInv == Spec => []IInv
<1>1. Init => IInv
  BY GraphInit, StoreInit DEF IInv
<1>2. IInv /\ [Next]_vars => IInv'
  BY GraphStep, StoreStep DEF IInv
<1>3. QED
  BY <1>1, <1>2, PTL DEF Spec

\* ChainsAreCycles: whatever the repository imports, each chain that
\* _detect_cycles reports leads by imports from a file back to it, through
\* distinct files.
THEOREM ChainsCorrect == Spec => []ChainsAreCycles
<1>1. IInv => ChainsAreCycles
  BY DEF IInv, GraphInv, SearchInv, SearchSafe
<1>2. QED
  BY <1>1, IsInv, PTL

\* CyclesFound: when _detect_cycles is over, every file that leads back to itself
\* is in one knot with a reported chain, and no chain is reported twice.
THEOREM CyclesCorrect == Spec => []CyclesFound
<1>1. IInv => CyclesFound
  BY FoundAll DEF IInv, GraphInv
<1>2. QED
  BY <1>1, IsInv, PTL

\* PersistsTheGraph: either store, however its transactions fail and its calls are
\* repeated, keeps the promise of KnowledgeGraph.
THEOREM Persists == Spec => PersistsTheGraph
<1>1. Init => IInv /\ Promise!Init
  <2> SUFFICES ASSUME Init PROVE IInv /\ Promise!Init
    OBVIOUS
  <2>1. Promise!Init
    BY DEF Init, Promise!Init, Promise!WellFormed
  <2>2. QED
    BY <2>1, GraphInit, StoreInit DEF IInv
<1>2. IInv /\ [Next]_vars => IInv' /\ [Promise!Next]_(Promise!vars)
  BY GraphStep, StoreStep DEF IInv
<1>3. QED
  BY <1>1, <1>2, PTL DEF Spec, PersistsTheGraph, Promise!Spec

\* FallbackAnswersAlike: the NetworkX graph finds every symbol in the same ring
\* around every other as Neo4j does, and no caller that Neo4j does not.
THEOREM FallbackCorrect == Spec => []FallbackAnswersAlike
<1>1. IInv => FallbackAnswersAlike
  BY FallbackAlike DEF IInv
<1>2. QED
  BY <1>1, IsInv, PTL

\* BuildersAgree: from the statements or from the symbols of a file without aliases
\* and bare dots, the dependency graph has the same edges.
THEOREM BuildersCorrect == Spec => []BuildersAgree
<1>1. IInv => BuildersAgree
  BY BuildersAlike DEF IInv
<1>2. QED
  BY <1>1, IsInv, PTL

\* MethodsInherited: for every class that a name stands for, find_method finds the
\* class's own method, else one defined among the last base that leads to any, and
\* none otherwise, whatever cycles and shared ancestors the bases make.
THEOREM MethodsCorrect == Spec => []MethodsInherited
<1>1. IInv => MethodsInherited
  BY MethodsAlike DEF IInv
<1>2. QED
  BY <1>1, IsInv, PTL

\* AsksIndexed: a call on self or on a typed value asks find_method only for
\* classes that names stand for, those that MethodsInherited is about.
THEOREM AsksCorrect == Spec => []AsksIndexed
<1>1. IInv => AsksIndexed
  <2> SUFFICES ASSUME IInv PROVE AsksIndexed
    OBVIOUS
  <2>1. IsRepo(repo)
    BY GraphStoreAssumption DEF IInv, GraphInv
  <2>2. QED
    BY <2>1, EnclosingIndexed, ReceiverIndexed DEF AsksIndexed, Asked, IndexedClasses
<1>2. QED
  BY <1>1, IsInv, PTL
=============================================================================
