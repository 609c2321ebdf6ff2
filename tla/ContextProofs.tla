---------------------------- MODULE ContextProofs ----------------------------
(***************************************************************************)
(* From a question to the cited prompt, for every repository, budget and   *)
(* plan: the chunks lose nothing, the fusion keeps the order its backends  *)
(* agree on, the prompt is cut as its budget asks and no more, and a valid *)
(* citation is of lines that were retrieved.                               *)
(*                                                                         *)
(* Folds over sequences are reasoned about one by one, as the values they  *)
(* take place by place; sorting, as the places in a total order.           *)
(***************************************************************************)
EXTENDS Context, SequenceTheorems, FiniteSetTheorems, WellFoundedInduction, TLAPS

-----------------------------------------------------------------------------
(* Numbers: what a least or greatest member is, and induction and          *)
(* recursion, which the provers have no rule for.                          *)

\* A set of natural numbers has a least member.
LEMMA Least ==
  ASSUME NEW T \in SUBSET Nat, T # {}
  PROVE  \E x \in T : \A y \in T : x <= y
<1> DEFINE R == {p \in Nat \X Nat : p[1] < p[2]}
<1>1. IsWellFoundedOn(R, Nat)
  BY NatLessThanWellFounded DEF OpToRel
<1> HIDE DEF R
<1>2. PICK x \in T : \A y \in T : <<y, x>> \notin R
  BY <1>1, WFMin
<1>3. ASSUME NEW y \in T PROVE x <= y
  <2>1. x \in Nat /\ y \in Nat /\ <<y, x>> \notin R
    BY <1>2
  <2>2. ~(y < x)
    BY <2>1 DEF R
  <2>3. QED
    BY <2>1, <2>2
<1>4. QED
  BY <1>2, <1>3

\* Min is that member,
LEMMA MinFacts == ASSUME NEW T \in SUBSET Nat, T # {} PROVE Min(T) \in T /\ \A y \in T : Min(T) <= y
  BY Least DEF Min

\* and Max the greatest, of a set with a bound.
LEMMA MaxFacts ==
  ASSUME NEW n \in Nat, NEW S \in SUBSET 0..n, S # {}
  PROVE  Max(S) \in S /\ \A y \in S : y <= Max(S)
<1> DEFINE B == {b \in Nat : \A y \in S : y <= b}
<1>1. n \in B
  OBVIOUS
<1>2. PICK b \in B : \A c \in B : b <= c
  <2>1. B \in SUBSET Nat /\ B # {}
    BY <1>1
  <2> HIDE DEF B
  <2>2. QED
    BY <2>1, Least
<1>3. b \in S
  <2>1. SUFFICES ASSUME b \notin S PROVE FALSE
    OBVIOUS
  <2>2. PICK y \in S : TRUE
    OBVIOUS
  <2>3. y \in Nat /\ y < b /\ b \in Nat
    BY <1>2, <2>1
  <2>4. b - 1 \in B
    BY <1>2, <2>1, <2>3
  <2>5. QED
    BY <1>2, <2>3, <2>4
<1>4. \A y \in S : y <= b
  BY <1>2
<1>5. QED
  BY <1>3, <1>4 DEF Max

\* Of two numbers.
LEMMA MinOfTwo == ASSUME NEW a \in Nat, NEW b \in Nat PROVE Min({a, b}) = IF a <= b THEN a ELSE b
<1>1. {a, b} \in SUBSET Nat /\ {a, b} # {}
  OBVIOUS
<1>2. Min({a, b}) \in {a, b} /\ \A y \in {a, b} : Min({a, b}) <= y
  BY <1>1, MinFacts
<1>3. QED
  BY <1>2

\* An interval from 1 has one length.
LEMMA SameLength ==
  ASSUME NEW a \in Nat, NEW b \in Nat, 1..a = 1..b
  PROVE  a = b
<1>1. a < b => b \in 1..b /\ b \notin 1..a
  OBVIOUS
<1>2. b < a => a \in 1..a /\ a \notin 1..b
  OBVIOUS
<1>3. QED
  BY <1>1, <1>2

\* What holds of a number and of the next of each it holds of holds from there on.
LEMMA Upward ==
  ASSUME NEW T, NEW m \in Nat, m \in T, \A n \in Nat : n >= m /\ n \in T => n + 1 \in T
  PROVE  \A n \in Nat : n >= m => n \in T
<1> DEFINE M == {n \in Nat : n >= m /\ n \notin T}
<1>1. SUFFICES ASSUME M # {} PROVE FALSE
  OBVIOUS
<1>2. PICK x \in M : \A y \in M : x <= y
  <2>1. M \in SUBSET Nat
    OBVIOUS
  <2> HIDE DEF M
  <2>2. QED
    BY <1>1, <2>1, Least
<1>3. x \in Nat /\ x > m /\ x \notin T
  BY <1>2
<1>4. x - 1 \in Nat /\ x - 1 >= m /\ (x - 1) + 1 = x /\ x - 1 \notin M
  BY <1>2, <1>3
<1>5. QED
  BY <1>3, <1>4

\* Induction from 0.
LEMMA Induct ==
  ASSUME NEW T, 0 \in T, \A n \in Nat : n \in T => n + 1 \in T
  PROVE  \A n \in Nat : n \in T
  BY Upward

\* f starts at v, and each value is a step from the one before. (Kept folded, it is
\* matched by the provers.)
Recurs(f, v, n, step) == f[0] = v /\ \A i \in 1..n : f[i] = step[<<f[i - 1], i>>]

\* A function is defined by its first value and by each value from the one before.
LEMMA Recursion ==
  ASSUME NEW V, NEW v \in V, NEW n \in Nat, NEW step \in [V \X (1..n) -> V]
  PROVE  \E f \in [0..n -> V] : Recurs(f, v, n, step)
<1> DEFINE Begins(f, m) == f[0] = v /\ \A i \in 1..m : f[i] = step[<<f[i - 1], i>>]
           T == {m \in Nat : m <= n => \E f \in [0..m -> V] : Begins(f, m)}
<1>1. 0 \in T
  <2> DEFINE f == [i \in 0..0 |-> v]
  <2>1. 0..0 = {0} /\ 1..0 = {} /\ f \in [0..0 -> V] /\ f[0] = v
    OBVIOUS
  <2> HIDE DEF f
  <2>2. Begins(f, 0)
    BY <2>1
  <2>3. QED
    BY <2>1, <2>2
<1>2. ASSUME NEW m \in Nat, m \in T PROVE m + 1 \in T
  <2>1. SUFFICES ASSUME m + 1 <= n PROVE \E f \in [0..(m + 1) -> V] : Begins(f, m + 1)
    OBVIOUS
  <2>2. PICK f \in [0..m -> V] : Begins(f, m)
    BY <1>2, <2>1
  <2> DEFINE g == [i \in 0..(m + 1) |-> IF i = m + 1 THEN step[<<f[m], m + 1>>] ELSE f[i]]
  <2>3. step[<<f[m], m + 1>>] \in V
    BY <2>1, <2>2
  <2>4. g \in [0..(m + 1) -> V]
    BY <2>2, <2>3
  <2>5. g[m + 1] = step[<<g[m], m + 1>>] /\ \A i \in 0..m : g[i] = f[i]
    <3>1. m + 1 \in 0..(m + 1) /\ m \in 0..m /\ \A i \in 0..m : i \in 0..(m + 1) /\ i # m + 1
      OBVIOUS
    <3> HIDE DEF Begins, T
    <3>2. g[m + 1] = step[<<f[m], m + 1>>]
      BY <3>1
    <3>3. \A i \in 0..m : g[i] = f[i]
      BY <3>1
    <3>4. QED
      BY <3>1, <3>2, <3>3
  <2> HIDE DEF g
  <2>6. ASSUME NEW i \in 1..(m + 1) PROVE g[i] = step[<<g[i - 1], i>>]
    <3>1. CASE i = m + 1
      BY <2>5, <3>1
    <3>2. CASE i \in 1..m
      <4>1. i - 1 \in 0..m /\ i \in 0..m
        BY <3>2
      <4>2. QED
        BY <2>2, <2>5, <3>2, <4>1
    <3>3. QED
      BY <3>1, <3>2
  <2>7. g[0] = v
    BY <2>2, <2>5
  <2>8. QED
    BY <2>4, <2>6, <2>7
<1> HIDE DEF T
<1>3. n \in T
  BY <1>1, <1>2, Induct
<1>4. QED
  BY <1>3 DEF T, Recurs

-----------------------------------------------------------------------------
(* Sequences, and the operators of Selections on them.                     *)

\* A sequence has the shape that its operators need.
LEMMA SeqIs ==
  ASSUME NEW S, NEW s \in Seq(S)
  PROVE  IsSeq(s) /\ ToSet(s) \subseteq S /\ DOMAIN s = 1..Len(s) /\ Len(s) \in Nat
<1>1. Len(s) \in Nat /\ DOMAIN s = 1..Len(s) /\ s \in [1..Len(s) -> S]
  BY LenProperties
<1>2. s \in [1..Len(s) -> ToSet(s)] /\ ToSet(s) \subseteq S
  BY <1>1 DEF ToSet
<1>3. QED
  BY <1>1, <1>2, SeqDef DEF IsSeq

\* A sequence whose elements are in S.
LEMMA IsSeqTo == ASSUME NEW s, NEW S, IsSeq(s), ToSet(s) \subseteq S PROVE s \in Seq(S)
  BY SeqMonotonic DEF IsSeq

\* A sequence built from another, place by place.
LEMMA MapFacts ==
  ASSUME NEW s, IsSeq(s), NEW t, t = [k \in DOMAIN s |-> t[k]]
  PROVE  IsSeq(t) /\ ToSet(t) = {t[k] : k \in DOMAIN s}
<1>1. DOMAIN s = 1..Len(s) /\ Len(s) \in Nat
  BY SeqIs DEF IsSeq
<1>2. t \in Seq({t[k] : k \in DOMAIN s})
  BY <1>1, SeqDef
<1>3. QED
  BY <1>2, SeqIs DEF ToSet

\* The places of a sequence in the order of its numbers.
Rises(s) == \A a, b \in DOMAIN s : a < b => s[a] < s[b]

\* The members of S up to n, in order.
LEMMA OrderFacts ==
  ASSUME NEW n \in Nat, NEW S
  PROVE  /\ InOrder(n, S) \in Seq(1..n)
         /\ ToSet(InOrder(n, S)) = S \cap 1..n
         /\ Rises(InOrder(n, S))
<1> DEFINE V == Seq(1..n)
           step == [p \in V \X (1..n) |-> IF p[2] \in S THEN Append(p[1], p[2]) ELSE p[1]]
           upTo == CHOOSE f : f = [i \in 0..n |-> IF i = 0 THEN <<>>
                                     ELSE IF i \in S THEN Append(f[i - 1], i) ELSE f[i - 1]]
<1>1. <<>> \in V /\ step \in [V \X (1..n) -> V]
  <2>1. \A p \in V \X (1..n) : p[1] \in V /\ p[2] \in 1..n
    OBVIOUS
  <2>2. \A s \in V : \A i \in 1..n : Append(s, i) \in V
    BY AppendProperties
  <2>3. <<>> \in V
    BY EmptySeq
  <2> HIDE DEF V
  <2>4. QED
    BY <2>1, <2>2, <2>3
<1>2. PICK g \in [0..n -> V] : g[0] = <<>> /\ \A i \in 1..n : g[i] = step[<<g[i - 1], i>>]
  <2>1. \E g \in [0..n -> V] : Recurs(g, <<>>, n, step)
    <3> HIDE DEF V, step
    <3>1. QED
      BY <1>1, Recursion
  <2>2. QED
    BY <2>1 DEF Recurs
<1>3. g = [i \in 0..n |-> IF i = 0 THEN <<>>
                        ELSE IF i \in S THEN Append(g[i - 1], i) ELSE g[i - 1]]
  <2>1. ASSUME NEW i \in 1..n
        PROVE  g[i] = IF i \in S THEN Append(g[i - 1], i) ELSE g[i - 1]
    <3>1. <<g[i - 1], i>> \in V \X (1..n)
      BY <1>2
    <3>2. g[i] = step[<<g[i - 1], i>>]
      BY <1>2
    <3>3. QED
      BY <3>1, <3>2
  <2>2. ASSUME NEW i \in 0..n
        PROVE  g[i] = IF i = 0 THEN <<>> ELSE IF i \in S THEN Append(g[i - 1], i) ELSE g[i - 1]
    <3>1. CASE i = 0
      BY <1>2, <3>1
    <3>2. CASE i # 0
      <4>1. i \in 1..n
        BY <3>2
      <4>2. QED
        BY <2>1, <3>2, <4>1
    <3>3. QED
      BY <3>1, <3>2
  <2>3. g = [i \in 0..n |-> g[i]]
    BY <1>2
  <2>4. QED
    BY <2>2, <2>3
<1>4. upTo = [i \in 0..n |-> IF i = 0 THEN <<>>
                        ELSE IF i \in S THEN Append(upTo[i - 1], i) ELSE upTo[i - 1]]
  BY <1>3
<1>5. InOrder(n, S) = upTo[n]
  BY DEF InOrder
<1> HIDE DEF upTo
<1> DEFINE T == {i \in Nat : i <= n => upTo[i] \in V /\ ToSet(upTo[i]) = S \cap 1..i /\ Rises(upTo[i])}
<1>6. 0 \in T
  <2>1. upTo[0] = <<>> /\ DOMAIN <<>> = {} /\ 1..0 = {}
    BY <1>4
  <2>2. QED
    BY <1>1, <2>1 DEF ToSet, Rises
<1>7. ASSUME NEW i \in Nat, i \in T PROVE i + 1 \in T
  <2>1. SUFFICES ASSUME i + 1 <= n
                 PROVE  /\ upTo[i + 1] \in V /\ ToSet(upTo[i + 1]) = S \cap 1..(i + 1)
                        /\ Rises(upTo[i + 1])
    OBVIOUS
  <2>2. upTo[i] \in V /\ ToSet(upTo[i]) = S \cap 1..i /\ Rises(upTo[i])
    BY <1>7, <2>1
  <2>3. upTo[i + 1] = IF i + 1 \in S THEN Append(upTo[i], i + 1) ELSE upTo[i]
    <3>1. i + 1 \in 0..n /\ i + 1 # 0 /\ (i + 1) - 1 = i
      BY <2>1
    <3>2. QED
      BY <1>4, <3>1
  <2>4. CASE i + 1 \in S
    <3>1. i + 1 \in 1..n
      BY <2>1
    <3> DEFINE s == upTo[i]
               t == upTo[i + 1]
    <3>2. /\ t \in V /\ Len(t) = Len(s) + 1 /\ t[Len(s) + 1] = i + 1
          /\ \A k \in 1..Len(s) : t[k] = s[k]
      BY <2>2, <2>3, <2>4, <3>1, AppendProperties
    <3>3. DOMAIN t = 1..(Len(s) + 1) /\ DOMAIN s = 1..Len(s) /\ Len(s) \in Nat
      BY <2>2, <3>2, LenProperties
    <3> HIDE DEF s, t
    <3>4. ToSet(t) = ToSet(s) \cup {i + 1}
      <4>1. \A k \in DOMAIN t : k \in DOMAIN s \/ k = Len(s) + 1
        BY <3>3
      <4>2. Len(s) + 1 \in DOMAIN t /\ \A k \in DOMAIN s : k \in DOMAIN t
        BY <3>3
      <4>3. QED
        BY <3>2, <3>3, <4>1, <4>2 DEF ToSet
    <3>5. S \cap 1..(i + 1) = (S \cap 1..i) \cup {i + 1}
      BY <2>4
    <3>6. ToSet(upTo[i + 1]) = ToSet(upTo[i]) \cup {i + 1} /\ upTo[i + 1] \in V
      BY <3>2, <3>4 DEF s, t
    <3>7. Rises(t)
      <4>1. SUFFICES ASSUME NEW a \in DOMAIN t, NEW b \in DOMAIN t, a < b PROVE t[a] < t[b]
        BY DEF Rises
      <4>2. a \in DOMAIN s /\ t[a] = s[a] /\ s[a] \in 1..i
        <5>1. a \in DOMAIN s
          BY <3>3, <4>1
        <5>2. s[a] \in ToSet(s)
          BY <5>1 DEF ToSet
        <5>3. ToSet(s) = S \cap 1..i
          BY <2>2 DEF s
        <5>4. QED
          BY <3>2, <3>3, <5>1, <5>2, <5>3
      <4>3. CASE b = Len(s) + 1
        BY <3>2, <4>2, <4>3
      <4>4. CASE b # Len(s) + 1
        <5>0. b \in 1..(Len(s) + 1) /\ Len(s) \in Nat
          BY <3>3
        <5>1. b \in 1..Len(s)
          BY <4>4, <5>0
        <5>4. b \in DOMAIN s /\ t[b] = s[b]
          BY <3>2, <3>3, <5>1
        <5>2. Rises(s)
          BY <2>2 DEF s
        <5>3. QED
          BY <4>1, <4>2, <5>2, <5>4 DEF Rises
      <4>5. QED
        BY <4>3, <4>4
    <3>8. QED
      BY <2>2, <3>5, <3>6, <3>7 DEF t
  <2>5. CASE i + 1 \notin S
    BY <2>2, <2>3, <2>5
  <2>6. QED
    BY <2>4, <2>5
<1> HIDE DEF T
<1>8. n \in T
  BY <1>6, <1>7, Induct
<1>9. QED
  BY <1>5, <1>8 DEF T

\* What is picked from a sequence is what was to be picked.
LEMMA PickFacts ==
  ASSUME NEW s, IsSeq(s), NEW S \in SUBSET DOMAIN s
  PROVE  IsSeq(Pick(s, S)) /\ ToSet(Pick(s, S)) = {s[k] : k \in S}
<1> DEFINE at == InOrder(Len(s), S)
<1>1. Len(s) \in Nat /\ DOMAIN s = 1..Len(s)
  BY SeqIs DEF IsSeq
<1>2. at \in Seq(1..Len(s)) /\ ToSet(at) = S
  BY <1>1, OrderFacts
<1>3. DOMAIN at = 1..Len(at) /\ Len(at) \in Nat /\ \A n \in DOMAIN at : at[n] \in S
  BY <1>2, LenProperties DEF ToSet
<1>4. Pick(s, S) = [n \in DOMAIN at |-> s[at[n]]]
  BY DEF Pick
<1> HIDE DEF at
<1>5. Pick(s, S) \in Seq({s[k] : k \in S})
  BY <1>3, <1>4, SeqDef
<1>6. ToSet(Pick(s, S)) = {s[k] : k \in S}
  BY <1>2, <1>4 DEF ToSet
<1>7. QED
  BY <1>5, <1>6, SeqIs

\* What is concatenated has the elements of both.
LEMMA ConcatFacts ==
  ASSUME NEW S, NEW s \in Seq(S), NEW t \in Seq(S)
  PROVE  s \o t \in Seq(S) /\ ToSet(s \o t) = ToSet(s) \cup ToSet(t)
<1> DEFINE u == s \o t
<1>1. /\ u \in Seq(S) /\ Len(u) = Len(s) + Len(t)
      /\ \A i \in 1..(Len(s) + Len(t)) : u[i] = IF i <= Len(s) THEN s[i] ELSE t[i - Len(s)]
  BY ConcatProperties
<1>2. /\ DOMAIN s = 1..Len(s) /\ DOMAIN t = 1..Len(t) /\ DOMAIN u = 1..(Len(s) + Len(t))
      /\ Len(s) \in Nat /\ Len(t) \in Nat
  BY <1>1, LenProperties
<1> HIDE DEF u
<1>3. \A i \in DOMAIN s : i \in DOMAIN u /\ u[i] = s[i]
  BY <1>1, <1>2
<1>4. \A i \in DOMAIN t : i + Len(s) \in DOMAIN u /\ u[i + Len(s)] = t[i]
  BY <1>1, <1>2
<1>5. \A i \in DOMAIN u : (i \in DOMAIN s /\ u[i] = s[i]) \/ (i - Len(s) \in DOMAIN t /\ u[i] = t[i - Len(s)])
  BY <1>1, <1>2
<1>6. ToSet(u) = ToSet(s) \cup ToSet(t)
  BY <1>3, <1>4, <1>5 DEF ToSet
<1>7. QED
  BY <1>1, <1>6 DEF u

\* What is flattened has the elements of the parts.
LEMMA FlattenFacts ==
  ASSUME NEW S, NEW ss \in Seq(Seq(S))
  PROVE  /\ FlattenSeq(ss) \in Seq(S)
         /\ ToSet(FlattenSeq(ss)) = UNION {ToSet(ss[k]) : k \in DOMAIN ss}
<1> DEFINE n == Len(ss)
           V == Seq(S)
           step == [p \in V \X (1..n) |-> p[1] \o ss[p[2]]]
           flatten == CHOOSE f : f = [i \in 1..n |-> IF i = 1 THEN ss[i] ELSE f[i - 1] \o ss[i]]
<1>0. n \in Nat /\ DOMAIN ss = 1..n /\ \A i \in 1..n : ss[i] \in V
  BY LenProperties, ElementOfSeq
<1>1. CASE n = 0
  <2>1. ss = <<>> /\ DOMAIN ss = {}
    BY <1>0, <1>1, EmptySeq
  <2>2. FlattenSeq(ss) = <<>>
    BY <1>1, <2>1 DEF FlattenSeq
  <2>3. QED
    BY <2>1, <2>2, EmptySeq DEF ToSet
<1>2. CASE n # 0
  <2>1. <<>> \in V /\ step \in [V \X (1..n) -> V]
    <3>1. \A s \in V : \A t \in V : s \o t \in V
      BY ConcatProperties
    <3>2. <<>> \in V
      BY EmptySeq
    <3> HIDE DEF V, n
    <3>3. QED
      BY <1>0, <3>1, <3>2
  <2>2. PICK g \in [0..n -> V] : g[0] = <<>> /\ \A i \in 1..n : g[i] = step[<<g[i - 1], i>>]
    <3>1. \E g \in [0..n -> V] : Recurs(g, <<>>, n, step)
      <4> HIDE DEF V, step, n
      <4>1. QED
        BY <1>0, <2>1, Recursion
    <3>2. QED
      BY <3>1 DEF Recurs
  <2>3. \A i \in 1..n : g[i] = g[i - 1] \o ss[i]
    <3> SUFFICES ASSUME NEW i \in 1..n PROVE g[i] = g[i - 1] \o ss[i]
      OBVIOUS
    <3>0. i - 1 \in 0..n
      BY <1>0
    <3>1. <<g[i - 1], i>> \in V \X (1..n) /\ g[i] = step[<<g[i - 1], i>>]
      BY <2>2, <3>0
    <3>2. QED
      BY <3>1
  <2> DEFINE h == [i \in 1..n |-> g[i]]
  <2>4. h = [i \in 1..n |-> IF i = 1 THEN ss[i] ELSE h[i - 1] \o ss[i]]
    <3>1. ASSUME NEW i \in 1..n PROVE g[i] = IF i = 1 THEN ss[i] ELSE h[i - 1] \o ss[i]
      <4>1. CASE i = 1
        <5>0. i - 1 = 0 /\ g[0] = <<>>
          BY <2>2, <4>1
        <5>1. g[i] = <<>> \o ss[i] /\ ss[i] \in Seq(S)
          BY <1>0, <2>3, <5>0
        <5>2. QED
          BY <4>1, <5>1, ConcatEmptySeq
      <4>2. CASE i # 1
        <5>1. i - 1 \in 1..n
          BY <1>0, <4>2
        <5>2. QED
          BY <2>3, <4>2, <5>1
      <4>3. QED
        BY <4>1, <4>2
    <3>2. QED
      BY <3>1
  <2>5. flatten = [i \in 1..n |-> IF i = 1 THEN ss[i] ELSE flatten[i - 1] \o ss[i]]
    BY <2>4
  <2>6. FlattenSeq(ss) = flatten[n]
    BY <1>2 DEF FlattenSeq
  <2> HIDE DEF flatten
  <2> DEFINE T == {i \in Nat : i \in 1..n =>
                     flatten[i] \in V /\ ToSet(flatten[i]) = UNION {ToSet(ss[k]) : k \in 1..i}}
  <2>7. 1 \in T
    <3>1. 1..1 = {1} /\ (1 \in 1..n => flatten[1] = ss[1])
      BY <2>5
    <3>2. 1 \in 1..n /\ ss[1] \in V
      BY <1>0, <1>2
    <3>3. UNION {ToSet(ss[k]) : k \in 1..1} = ToSet(ss[1])
      BY <3>1
    <3>4. QED
      BY <3>1, <3>2, <3>3
  <2>8. ASSUME NEW i \in Nat, i >= 1, i \in T PROVE i + 1 \in T
    <3>1. SUFFICES ASSUME i + 1 <= n
                   PROVE  /\ flatten[i + 1] \in V
                          /\ ToSet(flatten[i + 1]) = UNION {ToSet(ss[k]) : k \in 1..(i + 1)}
      OBVIOUS
    <3>2. flatten[i] \in V /\ ToSet(flatten[i]) = UNION {ToSet(ss[k]) : k \in 1..i}
      <4>1. i \in 1..n
        BY <1>0, <2>8, <3>1
      <4>2. QED
        BY <2>8, <4>1
    <3>3. flatten[i + 1] = flatten[i] \o ss[i + 1] /\ ss[i + 1] \in V
      <4>1. i + 1 \in 1..n /\ i + 1 # 1 /\ (i + 1) - 1 = i
        BY <1>0, <2>8, <3>1
      <4>2. QED
        BY <1>0, <2>5, <4>1
    <3>4. flatten[i + 1] \in V /\ ToSet(flatten[i + 1]) = ToSet(flatten[i]) \cup ToSet(ss[i + 1])
      BY <3>2, <3>3, ConcatFacts
    <3>5. 1..(i + 1) = 1..i \cup {i + 1}
      BY <2>8
    <3>6. UNION {ToSet(ss[k]) : k \in 1..(i + 1)}
          = (UNION {ToSet(ss[k]) : k \in 1..i}) \cup ToSet(ss[i + 1])
      BY ONLY <3>5
    <3>7. QED
      BY <3>2, <3>4, <3>6
  <2> HIDE DEF T
  <2>9. \A i \in Nat : i >= 1 => i \in T
    BY <2>7, <2>8, Upward
  <2>10. n \in T /\ n \in 1..n
    BY <1>0, <1>2, <2>9
  <2>11. QED
    BY <1>0, <2>6, <2>10 DEF T
<1>3. QED
  BY <1>1, <1>2

\* How a fold over the places 1..n goes: by their greatest.
FoldsUp(g, v, n, step) ==
  \A s \in SUBSET (1..n) : g[s] = IF s = {} THEN v ELSE step[<<g[s \ {Max(s)}], Max(s)>>]

\* FoldLeft is defined.
LEMMA Folding ==
  ASSUME NEW V, NEW v \in V, NEW n \in Nat, NEW step \in [V \X (1..n) -> V]
  PROVE  \E g \in [SUBSET (1..n) -> V] : FoldsUp(g, v, n, step)
<1> DEFINE Can(m) == \E g \in [SUBSET (1..m) -> V] : FoldsUp(g, v, m, step)
           T == {m \in Nat : m <= n => Can(m)}
<1>1. 0 \in T
  <2> DEFINE g == [s \in SUBSET (1..0) |-> v]
  <2>1. 1..0 = {} /\ SUBSET {} = {{}} /\ g \in [SUBSET (1..0) -> V] /\ g[{}] = v
    OBVIOUS
  <2> HIDE DEF g
  <2>2. FoldsUp(g, v, 0, step)
    BY <2>1 DEF FoldsUp
  <2>3. Can(0)
    BY <2>1, <2>2
  <2>4. QED
    BY <2>3
<1>2. ASSUME NEW m \in Nat, m \in T PROVE m + 1 \in T
  <2>1. SUFFICES ASSUME m + 1 <= n PROVE Can(m + 1)
    <3> HIDE DEF Can
    <3>1. QED
      OBVIOUS
  <2>11. Can(m)
    <3> HIDE DEF Can
    <3>1. QED
      BY <1>2, <2>1
  <2>2. PICK g \in [SUBSET (1..m) -> V] : FoldsUp(g, v, m, step)
    BY <2>11
  <2> DEFINE h == [s \in SUBSET (1..(m + 1)) |->
                     IF m + 1 \in s THEN step[<<g[s \ {m + 1}], m + 1>>] ELSE g[s]]
  <2>3. ASSUME NEW s \in SUBSET (1..(m + 1))
        PROVE  /\ m + 1 \in s => s \ {m + 1} \in SUBSET (1..m) /\ Max(s) = m + 1
               /\ m + 1 \notin s => s \in SUBSET (1..m)
    <3>1. (m + 1 \in s => s \ {m + 1} \in SUBSET (1..m)) /\ (m + 1 \notin s => s \in SUBSET (1..m))
      OBVIOUS
    <3>2. ASSUME m + 1 \in s PROVE Max(s) = m + 1
      <4>1. s \in SUBSET 0..(m + 1) /\ s # {} /\ m + 1 \in Nat
        BY <3>2
      <4>2. Max(s) \in s /\ \A y \in s : y <= Max(s)
        BY <4>1, MaxFacts
      <4>3. Max(s) \in 1..(m + 1)
        BY <4>2
      <4>4. m + 1 <= Max(s)
        BY <3>2, <4>2
      <4>5. QED
        BY <4>3, <4>4
    <3>3. QED
      BY <3>1, <3>2
  <2>4. m + 1 \in 1..n
    BY <2>1
  <2>5. h \in [SUBSET (1..(m + 1)) -> V]
    <3>1. ASSUME NEW s \in SUBSET (1..(m + 1)), m + 1 \in s PROVE step[<<g[s \ {m + 1}], m + 1>>] \in V
      <4>1. g[s \ {m + 1}] \in V
        BY <2>2, <2>3, <3>1
      <4>2. QED
        BY <2>4, <4>1
    <3>2. ASSUME NEW s \in SUBSET (1..(m + 1)), m + 1 \notin s PROVE g[s] \in V
      BY <2>2, <2>3, <3>2
    <3>3. QED
      BY <3>1, <3>2
  <2>6. \A s \in SUBSET (1..(m + 1)) :
          h[s] = IF m + 1 \in s THEN step[<<g[s \ {m + 1}], m + 1>>] ELSE g[s]
    OBVIOUS
  <2>7. \A s \in SUBSET (1..m) : h[s] = g[s]
    <3>1. \A s \in SUBSET (1..m) : s \in SUBSET (1..(m + 1)) /\ m + 1 \notin s
      OBVIOUS
    <3>2. QED
      BY <2>6, <3>1
  <2> HIDE DEF h
  <2>8. ASSUME NEW s \in SUBSET (1..(m + 1))
        PROVE  h[s] = IF s = {} THEN v ELSE step[<<h[s \ {Max(s)}], Max(s)>>]
    <3>1. CASE m + 1 \in s
      <4>1. s # {} /\ Max(s) = m + 1 /\ s \ {m + 1} \in SUBSET (1..m)
        BY <2>3, <3>1
      <4>2. QED
        BY <2>6, <2>7, <3>1, <4>1
    <3>2. CASE m + 1 \notin s
      <4>1. s \in SUBSET (1..m)
        BY <2>3, <3>2
      <4>2. g[s] = IF s = {} THEN v ELSE step[<<g[s \ {Max(s)}], Max(s)>>]
        BY <2>2, <4>1 DEF FoldsUp
      <4>3. s \ {Max(s)} \in SUBSET (1..m)
        BY <4>1
      <4>4. QED
        BY <2>7, <4>1, <4>2, <4>3
    <3>3. QED
      BY <3>1, <3>2
  <2>9. FoldsUp(h, v, m + 1, step)
    BY <2>8 DEF FoldsUp
  <2>10. QED
    BY <2>5, <2>9
<1> HIDE DEF T
<1>3. n \in T
  BY <1>1, <1>2, Induct
<1>4. Can(n)
  <2> HIDE DEF Can
  <2>1. QED
    BY <1>3 DEF T
<1>5. QED
  BY <1>4

\* Its values on the first places are each a step from the one before.
LEMMA FoldSteps ==
  ASSUME NEW n \in Nat, NEW i \in 1..n
  PROVE  1..i \in SUBSET (1..n) /\ 1..i # {} /\ Max(1..i) = i /\ 1..i \ {i} = 1..(i - 1)
<1>1. 1..i \in SUBSET (1..n) /\ 1..i # {} /\ 1..i \ {i} = 1..(i - 1)
  OBVIOUS
<1>2. 1..i \in SUBSET 0..i /\ i \in Nat
  OBVIOUS
<1>3. Max(1..i) \in 1..i /\ \A y \in 1..i : y <= Max(1..i)
  BY <1>1, <1>2, MaxFacts
<1>4. QED
  BY <1>1, <1>3

-----------------------------------------------------------------------------
(* Sorting.                                                                *)

\* L puts each two of 1..n in one order.
Orders(L, n) ==
  /\ \A i \in 1..n : <<i, i>> \notin L
  /\ \A i, j \in 1..n : i # j => <<i, j>> \in L \/ <<j, i>> \in L
  /\ \A i, j, k \in 1..n : <<i, j>> \in L /\ <<j, k>> \in L => <<i, k>> \in L

\* The place of i in that order.
Place(L, n, i) == 1 + Cardinality({j \in 1..n : <<j, i>> \in L})

\* Each place is that of one.
LEMMA Placing ==
  ASSUME NEW n \in Nat, NEW L, Orders(L, n)
  PROVE  /\ \A i \in 1..n : Place(L, n, i) \in 1..n
         /\ \A i, j \in 1..n : <<i, j>> \in L => Place(L, n, i) < Place(L, n, j)
         /\ \A p \in 1..n : \E i \in 1..n : Place(L, n, i) = p
<1> DEFINE B(i) == {j \in 1..n : <<j, i>> \in L}
           place == [i \in 1..n |-> Place(L, n, i)]
<1>1. IsFiniteSet(1..n) /\ Cardinality(1..n) = n
  BY FS_Interval
<1>2. ASSUME NEW i \in 1..n PROVE IsFiniteSet(B(i)) /\ Cardinality(B(i)) \in Nat /\ Cardinality(B(i)) < n
  <2>1. B(i) \in SUBSET (1..n) /\ i \notin B(i)
    BY DEF Orders
  <2> HIDE DEF B
  <2>2. IsFiniteSet(B(i)) /\ Cardinality(B(i)) <= n /\ (n = Cardinality(B(i)) => 1..n = B(i))
    BY <1>1, <2>1, FS_Subset
  <2>3. Cardinality(B(i)) \in Nat
    BY <2>2, FS_CardinalityType
  <2>4. QED
    BY <2>1, <2>2, <2>3
<1>3. \A i \in 1..n : Place(L, n, i) \in 1..n /\ Place(L, n, i) = 1 + Cardinality(B(i))
  BY <1>2 DEF Place
<1>4. ASSUME NEW i \in 1..n, NEW j \in 1..n, <<i, j>> \in L PROVE Place(L, n, i) < Place(L, n, j)
  <2>1. B(i) \in SUBSET B(j) /\ i \in B(j) /\ i \notin B(i)
    BY <1>4 DEF Orders
  <2> HIDE DEF B
  <2>2. Cardinality(B(i)) <= Cardinality(B(j)) /\ (Cardinality(B(j)) = Cardinality(B(i)) => B(j) = B(i))
    BY <1>2, <2>1, FS_Subset
  <2>3. QED
    BY <1>2, <1>3, <2>1, <2>2
<1>5. place \in Injection(1..n, 1..n)
  <2>1. place \in [1..n -> 1..n] /\ \A i \in 1..n : place[i] = Place(L, n, i)
    BY <1>3
  <2> HIDE DEF place
  <2>2. ASSUME NEW i \in 1..n, NEW j \in 1..n, place[i] = place[j] PROVE i = j
    <3>1. SUFFICES ASSUME i # j PROVE FALSE
      OBVIOUS
    <3>2. <<i, j>> \in L \/ <<j, i>> \in L
      BY <3>1 DEF Orders
    <3>3. QED
      BY <1>3, <1>4, <2>1, <2>2, <3>2
  <2>3. QED
    BY <2>1, <2>2 DEF Injection, IsInjective
<1>6. place \in Surjection(1..n, 1..n)
  BY <1>1, <1>5, FS_Injection
<1>7. \A p \in 1..n : \E i \in 1..n : Place(L, n, i) = p
  <2>1. \A p \in 1..n : \E i \in 1..n : place[i] = p
    BY <1>6 DEF Surjection
  <2>2. QED
    BY <2>1
<1>8. QED
  BY <1>3, <1>4, <1>7

\* at(p) is the one whose place is p.
At(L, n, p) == CHOOSE i \in 1..n : Place(L, n, i) = p

\* What is sorted has the elements that it had, in the order of L.
LEMMA SortFacts ==
  ASSUME NEW n \in Nat, NEW L, Orders(L, n)
  PROVE  /\ \A p \in 1..n : At(L, n, p) \in 1..n
         /\ \A i \in 1..n : \E p \in 1..n : At(L, n, p) = i
         /\ \A p, q \in 1..n : <<At(L, n, p), At(L, n, q)>> \in L <=> p < q
<1>1. \A p \in 1..n : At(L, n, p) \in 1..n /\ Place(L, n, At(L, n, p)) = p
  BY Placing DEF At
<1>2. ASSUME NEW i \in 1..n PROVE At(L, n, Place(L, n, i)) = i /\ Place(L, n, i) \in 1..n
  <2> DEFINE p == Place(L, n, i)
             j == At(L, n, p)
  <2>1. p \in 1..n /\ j \in 1..n /\ Place(L, n, j) = p
    BY <1>1, Placing
  <2> HIDE DEF j
  <2>2. ~(<<i, j>> \in L) /\ ~(<<j, i>> \in L)
    BY <2>1, Placing
  <2>3. QED
    BY <2>1, <2>2 DEF Orders, j
<1>3. ASSUME NEW p \in 1..n, NEW q \in 1..n PROVE <<At(L, n, p), At(L, n, q)>> \in L <=> p < q
  <2> DEFINE i == At(L, n, p)
             j == At(L, n, q)
  <2>1. i \in 1..n /\ j \in 1..n /\ Place(L, n, i) = p /\ Place(L, n, j) = q
    BY <1>1
  <2> HIDE DEF i, j
  <2>2. <<i, j>> \in L => p < q
    BY <2>1, Placing
  <2>3. <<j, i>> \in L => q < p
    BY <2>1, Placing
  <2>4. i = j => p = q
    BY <2>1
  <2>5. QED
    BY <2>1, <2>2, <2>3, <2>4 DEF Orders, i, j
<1>4. QED
  BY <1>1, <1>2, <1>3

-----------------------------------------------------------------------------
(* What a backend finds.                                                   *)

\* The results: a file, a range that has a line, a text and a score.
Res == {r \in [file : Nat, start : Nat, end : Nat, text : Seq(Nat), score : Nat] : r.start <= r.end}

\* The first k of a sequence.
LEMMA TopFacts ==
  ASSUME NEW S, NEW s \in Seq(S), NEW k \in Nat
  PROVE  /\ Top(s, k) \in Seq(S) /\ Len(Top(s, k)) <= Len(s) /\ Len(Top(s, k)) <= k
         /\ \A i \in 1..Len(Top(s, k)) : Top(s, k)[i] = s[i]
         /\ ToSet(Top(s, k)) \subseteq ToSet(s)
<1> DEFINE m == Min({k, Len(s)})
           t == Top(s, k)
<1>1. Len(s) \in Nat /\ DOMAIN s = 1..Len(s) /\ \A i \in 1..Len(s) : s[i] \in S
  BY LenProperties, ElementOfSeq
<1>2. m \in Nat /\ m <= Len(s) /\ m <= k
  BY <1>1, MinOfTwo
<1>3. t = SubSeq(s, 1, m)
  BY DEF Top
<1> HIDE DEF m, t
<1>4. \A i \in 1..m : s[i] \in S
  BY <1>1, <1>2
<1>5. t \in Seq(S) /\ Len(t) = m /\ \A i \in 1..m : t[i] = s[i]
  BY <1>1, <1>2, <1>3, <1>4, SubSeqProperties
<1>6. ToSet(t) \subseteq ToSet(s)
  <2>1. DOMAIN t = 1..m /\ \A i \in 1..m : i \in DOMAIN s
    BY <1>1, <1>2, <1>5, LenProperties
  <2>2. QED
    BY <1>5, <2>1 DEF ToSet
<1>7. QED
  BY <1>2, <1>5, <1>6 DEF t

\* The order of ByScore.
Scored(s) == {p \in (1..Len(s)) \X (1..Len(s)) :
                s[p[1]].score > s[p[2]].score \/ (p[1] < p[2] /\ ~(s[p[2]].score > s[p[1]].score))}

\* It puts each two places in one order.
LEMMA ScoredOrders ==
  ASSUME NEW s, Len(s) \in Nat, \A i \in 1..Len(s) : s[i].score \in Nat
  PROVE  Orders(Scored(s), Len(s))
<1> DEFINE n == Len(s)
           v(i) == s[i].score
<1>1. \A i, j \in 1..n : <<i, j>> \in Scored(s) <=> v(i) > v(j) \/ (i < j /\ ~(v(j) > v(i)))
  BY DEF Scored
<1>2. \A i \in 1..n : v(i) \in Nat
  OBVIOUS
<1> HIDE DEF v
<1>3. \A i \in 1..n : <<i, i>> \notin Scored(s)
  BY <1>1, <1>2
<1>4. \A i, j \in 1..n : i # j => <<i, j>> \in Scored(s) \/ <<j, i>> \in Scored(s)
  BY <1>1, <1>2
<1>5. \A i, j, k \in 1..n : <<i, j>> \in Scored(s) /\ <<j, k>> \in Scored(s) => <<i, k>> \in Scored(s)
  BY <1>1, <1>2
<1>6. QED
  BY <1>3, <1>4, <1>5 DEF Orders

\* Sorted by score, a sequence keeps its elements.
LEMMA ByScoreFacts ==
  ASSUME NEW s \in Seq(Res)
  PROVE  /\ ByScore(s) \in Seq(Res) /\ Len(ByScore(s)) = Len(s)
         /\ \A p \in 1..Len(s) : ByScore(s)[p] = s[At(Scored(s), Len(s), p)]
         /\ ToSet(ByScore(s)) = ToSet(s)
<1> DEFINE n == Len(s)
           L == Scored(s)
           t == ByScore(s)
<1>1. n \in Nat /\ DOMAIN s = 1..n /\ \A i \in 1..n : s[i] \in Res
  BY LenProperties, ElementOfSeq
<1>2. Orders(L, n)
  BY <1>1, ScoredOrders DEF Res
<1>3. \A i \in 1..n : {j \in DOMAIN s : s[j].score > s[i].score \/ (j < i /\ ~(s[i].score > s[j].score))}
                        = {j \in 1..n : <<j, i>> \in L}
  BY <1>1 DEF Scored
<1>4. t = [p \in 1..n |-> s[At(L, n, p)]]
  <2>1. t = [p \in DOMAIN s |-> s[CHOOSE i \in DOMAIN s :
          1 + Cardinality({j \in DOMAIN s : s[j].score > s[i].score \/ (j < i /\ ~(s[i].score > s[j].score))}) = p]]
    BY DEF ByScore, Sorted
  <2>2. \A i \in 1..n :
          1 + Cardinality({j \in DOMAIN s : s[j].score > s[i].score \/ (j < i /\ ~(s[i].score > s[j].score))})
            = Place(L, n, i)
    BY <1>3 DEF Place
  <2>3. \A p \in 1..n : (CHOOSE i \in DOMAIN s :
          1 + Cardinality({j \in DOMAIN s : s[j].score > s[i].score \/ (j < i /\ ~(s[i].score > s[j].score))}) = p)
            = At(L, n, p)
    BY <1>1, <2>2 DEF At
  <2>4. QED
    BY <1>1, <2>1, <2>3
<1> HIDE DEF t, L, n
<1>5. /\ \A p \in 1..n : At(L, n, p) \in 1..n
      /\ \A i \in 1..n : \E p \in 1..n : At(L, n, p) = i
  BY <1>1, <1>2, SortFacts
<1>6. \A p \in 1..n : t[p] = s[At(L, n, p)] /\ t[p] \in Res
  BY <1>1, <1>4, <1>5
<1>7. t \in Seq(Res) /\ Len(t) = n /\ DOMAIN t = 1..n
  <2>1. t \in [1..n -> Res]
    BY <1>4, <1>6
  <2>2. QED
    BY <1>1, <2>1, SeqDef, LenProperties, SameLength
<1>8. ToSet(t) = ToSet(s)
  BY <1>1, <1>5, <1>6, <1>7 DEF ToSet
<1>9. QED
  BY <1>6, <1>7, <1>8 DEF t, L, n

\* The places of the first of each key.
Firsts(s) == {i \in DOMAIN s : \A j \in 1..(i - 1) : Key(s[j]) # Key(s[i])}

\* Each key is in what is left, once.
LEMMA FirstOfKeysFacts ==
  ASSUME NEW S, NEW s \in Seq(S)
  PROVE  /\ FirstOfKeys(s) \in Seq(S)
         /\ ToSet(FirstOfKeys(s)) \subseteq ToSet(s)
         /\ \A x \in ToSet(s) : \E y \in ToSet(FirstOfKeys(s)) : Key(y) = Key(x)
         /\ \A i, j \in DOMAIN FirstOfKeys(s) : Key(FirstOfKeys(s)[i]) = Key(FirstOfKeys(s)[j]) => i = j
<1> DEFINE n == Len(s)
           P == InOrder(n, Firsts(s))
           t == FirstOfKeys(s)
<1>1. n \in Nat /\ DOMAIN s = 1..n /\ IsSeq(s) /\ ToSet(s) \subseteq S
  BY SeqIs
<1>2. t = Pick(s, Firsts(s)) /\ Firsts(s) \in SUBSET DOMAIN s
  BY DEF FirstOfKeys, Firsts
<1>3. IsSeq(t) /\ ToSet(t) = {s[k] : k \in Firsts(s)}
  BY <1>1, <1>2, PickFacts
<1>4. ToSet(t) \subseteq ToSet(s)
  BY <1>2, <1>3 DEF ToSet
<1>5. t \in Seq(S)
  BY <1>1, <1>3, <1>4, IsSeqTo
<1>6. ASSUME NEW x \in ToSet(s) PROVE \E y \in ToSet(t) : Key(y) = Key(x)
  <2> DEFINE T == {i \in 1..n : Key(s[i]) = Key(x)}
  <2>1. T \in SUBSET Nat /\ T # {}
    BY <1>1 DEF ToSet
  <2>2. PICK i \in T : \A j \in T : i <= j
    <3> HIDE DEF T
    <3>1. QED
      BY <2>1, Least
  <2>3. i \in Firsts(s)
    <3>1. i \in 1..n /\ Key(s[i]) = Key(x)
      BY <2>2
    <3>2. ASSUME NEW j \in 1..(i - 1) PROVE Key(s[j]) # Key(s[i])
      BY <1>1, <2>2, <3>1
    <3>3. QED
      BY <1>1, <3>1, <3>2 DEF Firsts
  <2>4. QED
    BY <1>3, <2>2, <2>3
<1>7. ASSUME NEW i \in DOMAIN t, NEW j \in DOMAIN t, Key(t[i]) = Key(t[j]) PROVE i = j
  <2>1. P \in Seq(1..n) /\ ToSet(P) = Firsts(s) \cap 1..n /\ Rises(P)
    BY <1>1, OrderFacts
  <2>2. t = [k \in DOMAIN P |-> s[P[k]]] /\ DOMAIN P = 1..Len(P) /\ Len(P) \in Nat
    BY <1>2, <2>1, LenProperties DEF Pick
  <2> HIDE DEF P, t
  <2>3. \A k \in DOMAIN P : P[k] \in Firsts(s) /\ P[k] \in 1..n
    BY <2>1 DEF ToSet
  <2>4. \A a, b \in DOMAIN P : a < b => Key(t[a]) # Key(t[b])
    <3>1. SUFFICES ASSUME NEW a \in DOMAIN P, NEW b \in DOMAIN P, a < b PROVE Key(t[a]) # Key(t[b])
      OBVIOUS
    <3>2. P[a] < P[b]
      BY <2>1, <3>1 DEF Rises
    <3>3. P[a] \in 1..(P[b] - 1)
      BY <2>3, <3>2
    <3>4. Key(s[P[a]]) # Key(s[P[b]])
      BY <2>3, <3>3 DEF Firsts
    <3>5. QED
      BY <2>2, <3>4
  <2>5. i \in DOMAIN P /\ j \in DOMAIN P /\ i \in Nat /\ j \in Nat
    BY <1>7, <2>2
  <2>6. QED
    BY <1>7, <2>4, <2>5
<1>8. QED
  BY <1>4, <1>5, <1>6, <1>7 DEF t

\* Is i the first with the best score of its key?
IsBest(s, key, i) ==
  /\ Key(s[i]) = key
  /\ \A j \in DOMAIN s : Key(s[j]) = key =>
       s[j].score < s[i].score \/ (s[j].score = s[i].score /\ i <= j)

\* Of the results with a key one is.
LEMMA SomeBest ==
  ASSUME NEW s \in Seq(Res), NEW k \in DOMAIN s
  PROVE  \E i \in DOMAIN s : IsBest(s, Key(s[k]), i)
<1> DEFINE n == Len(s)
           L == Scored(s)
           T == {p \in 1..n : Key(s[At(L, n, p)]) = Key(s[k])}
<1>1. n \in Nat /\ DOMAIN s = 1..n /\ \A i \in 1..n : s[i] \in Res
  BY LenProperties, ElementOfSeq
<1>2. Orders(L, n)
  BY <1>1, ScoredOrders DEF Res
<1>3. /\ \A p \in 1..n : At(L, n, p) \in 1..n
      /\ \A i \in 1..n : \E p \in 1..n : At(L, n, p) = i
      /\ \A p, q \in 1..n : <<At(L, n, p), At(L, n, q)>> \in L <=> p < q
  <2> HIDE DEF L, n
  <2>1. QED
    BY <1>1, <1>2, SortFacts
<1>4. T \in SUBSET Nat /\ T # {}
  <2>1. PICK p \in 1..n : At(L, n, p) = k
    BY <1>1, <1>3
  <2>2. p \in T
    BY <2>1
  <2>3. QED
    BY <2>2
<1>5. PICK p \in T : \A q \in T : p <= q
  <2> HIDE DEF T
  <2>1. QED
    BY <1>4, Least
<1> DEFINE i == At(L, n, p)
<1>6. i \in 1..n /\ Key(s[i]) = Key(s[k]) /\ p \in 1..n
  BY <1>3, <1>5
<1>7. ASSUME NEW j \in 1..n, Key(s[j]) = Key(s[k])
      PROVE  s[j].score < s[i].score \/ (s[j].score = s[i].score /\ i <= j)
  <2>1. PICK q \in 1..n : At(L, n, q) = j
    BY <1>3
  <2>2. p <= q
    BY <1>5, <1>7, <2>1
  <2>3. i = j \/ <<i, j>> \in L
    BY <1>3, <1>6, <2>1, <2>2
  <2>4. s[i].score \in Nat /\ s[j].score \in Nat
    BY <1>1, <1>6 DEF Res
  <2> HIDE DEF i, n
  <2>5. CASE i = j
    BY <1>6, <2>4, <2>5
  <2>6. CASE <<i, j>> \in L
    <3>1. s[i].score > s[j].score \/ (i < j /\ ~(s[j].score > s[i].score))
      BY <2>6 DEF Scored
    <3>2. QED
      BY <1>6, <2>4, <3>1
  <2>7. QED
    BY <2>3, <2>5, <2>6
<1>8. QED
  BY <1>1, <1>6, <1>7 DEF IsBest

\* What is left has the results of others.
LEMMA BestOfKeysFacts ==
  ASSUME NEW s \in Seq(Res)
  PROVE  BestOfKeys(s) \in Seq(Res) /\ ToSet(BestOfKeys(s)) \subseteq ToSet(s)
<1> DEFINE firsts == FirstOfKeys(s)
           best(key) == CHOOSE i \in DOMAIN s : IsBest(s, key, i)
           t == BestOfKeys(s)
<1>1. firsts \in Seq(Res) /\ ToSet(firsts) \subseteq ToSet(s)
  BY FirstOfKeysFacts
<1>2. DOMAIN firsts = 1..Len(firsts) /\ Len(firsts) \in Nat
  BY <1>1, LenProperties
<1>4. t = [k \in DOMAIN firsts |-> s[best(Key(firsts[k]))]]
  BY DEF BestOfKeys, IsBest
<1>5. ASSUME NEW k \in DOMAIN firsts PROVE best(Key(firsts[k])) \in DOMAIN s
  <2>1. PICK h \in DOMAIN s : s[h] = firsts[k]
    BY <1>1 DEF ToSet
  <2>2. QED
    BY <2>1, SomeBest
<1> HIDE DEF t, firsts, best
<1>6. \A i \in DOMAIN s : s[i] \in ToSet(s) /\ s[i] \in Res
  BY ElementOfSeq, LenProperties DEF ToSet
<1>7. t \in Seq(ToSet(s)) /\ t \in Seq(Res)
  <2>1. t \in [1..Len(firsts) -> ToSet(s)] /\ t \in [1..Len(firsts) -> Res]
    BY <1>2, <1>4, <1>5, <1>6
  <2>2. QED
    BY <1>2, <2>1, SeqDef
<1>8. ToSet(t) \subseteq ToSet(s)
  BY <1>7, SeqIs
<1>9. QED
  BY <1>7, <1>8 DEF t

\* What the backends find.
LEMMA VectorFacts ==
  ASSUME NEW s \in Seq(Res), NEW t \in Seq(Res), NEW k \in Nat
  PROVE  VectorResults(s, t, k) \in Seq(Res) /\ Len(VectorResults(s, t, k)) <= k
<1> DEFINE u == s \o t
           w == Where(u, LAMBDA r : r.score > 0)
<1>1. u \in Seq(Res)
  BY ConcatFacts
<1>2. IsSeq(u) /\ ToSet(u) \subseteq Res
  BY <1>1, SeqIs
<1>3. w = Pick(u, {i \in DOMAIN u : u[i].score > 0})
  BY DEF Where
<1>4. VectorResults(s, t, k) = Top(ByScore(BestOfKeys(w)), k)
  BY DEF VectorResults
<1> HIDE DEF u, w
<1>5. IsSeq(w) /\ ToSet(w) \subseteq ToSet(u)
  <2> DEFINE P == {i \in DOMAIN u : u[i].score > 0}
  <2>1. P \in SUBSET DOMAIN u
    OBVIOUS
  <2>2. w = Pick(u, P)
    BY <1>3
  <2> HIDE DEF P
  <2>3. IsSeq(w) /\ ToSet(w) = {u[i] : i \in P}
    BY <1>2, <2>1, <2>2, PickFacts
  <2>4. QED
    BY <2>1, <2>3 DEF ToSet
<1>6. w \in Seq(Res)
  BY <1>2, <1>5, IsSeqTo
<1>7. QED
  BY <1>4, <1>6, BestOfKeysFacts, ByScoreFacts, TopFacts

\* What the BM25 backend returns is typed, and no more than asked for,
LEMMA Bm25Facts ==
  ASSUME NEW s \in Seq(Res), NEW X, NEW k \in Nat
  PROVE  Bm25Results(s, X, k) \in Seq(Res) /\ Len(Bm25Results(s, X, k)) <= k
<1> DEFINE t == [i \in DOMAIN s |-> IF i \in X THEN [s[i] EXCEPT !.score = 2 * @] ELSE s[i]]
<1>1. DOMAIN s = 1..Len(s) /\ Len(s) \in Nat /\ \A i \in 1..Len(s) : s[i] \in Res
  BY LenProperties, ElementOfSeq
<1>2. ASSUME NEW r \in Res PROVE [r EXCEPT !.score = 2 * r.score] \in Res
  <2>1. r.score \in Nat /\ \A x \in Nat : [r EXCEPT !.score = x] \in Res
    BY DEF Res
  <2> DEFINE x == 2 * r.score
  <2>2. x \in Nat
    BY <2>1
  <2> HIDE DEF x
  <2>3. [r EXCEPT !.score = x] \in Res
    BY <2>1, <2>2
  <2>4. QED
    BY <2>3 DEF x
<1>3. t \in Seq(Res)
  <2>1. \A i \in 1..Len(s) : t[i] \in Res
    BY <1>1, <1>2
  <2>2. t \in [1..Len(s) -> Res]
    BY <1>1, <2>1
  <2> HIDE DEF t
  <2>3. QED
    BY <1>1, <2>2, SeqDef
<1>4. Bm25Results(s, X, k) = Top(ByScore(t), k)
  BY DEF Bm25Results
<1> HIDE DEF t
<1>5. QED
  BY <1>3, <1>4, ByScoreFacts, TopFacts

\* and what the graph backend does.
LEMMA GraphFacts ==
  ASSUME NEW ss \in Seq(Seq(Res)), NEW k \in Nat
  PROVE  GraphResults(ss, k) \in Seq(Res) /\ Len(GraphResults(ss, k)) <= k
  BY FlattenFacts, FirstOfKeysFacts, ByScoreFacts, TopFacts DEF GraphResults

\* A reranked window.
LEMMA RerankedFacts ==
  ASSUME NEW s \in Seq(Res), NEW v, \A i \in DOMAIN s : v[i] \in Nat, NEW k \in Nat
  PROVE  Reranked(s, v, k) \in Seq(Res)
<1> DEFINE t == [i \in DOMAIN s |-> [s[i] EXCEPT !.score = v[i]]]
<1>1. DOMAIN s = 1..Len(s) /\ Len(s) \in Nat /\ \A i \in 1..Len(s) : s[i] \in Res
  BY LenProperties, ElementOfSeq
<1>2. \A r \in Res : \A x \in Nat : [r EXCEPT !.score = x] \in Res
  BY DEF Res
<1>3. t \in Seq(Res)
  <2>1. \A i \in 1..Len(s) : t[i] \in Res
    BY <1>1, <1>2
  <2>2. t \in [1..Len(s) -> Res]
    BY <1>1, <2>1
  <2> HIDE DEF t
  <2>3. QED
    BY <1>1, <2>2, SeqDef
<1>4. Reranked(s, v, k) = Top(ByScore(t), k)
  BY DEF Reranked
<1> HIDE DEF t
<1>5. QED
  BY <1>3, <1>4, ByScoreFacts, TopFacts

-----------------------------------------------------------------------------
(* Fusion.                                                                 *)

\* Where a key is in a list.
LEMMA RankFacts ==
  ASSUME NEW S, NEW list \in Seq(S), NEW key
  PROVE  /\ Rank(list, key) \in 0..Len(list)
         /\ Rank(list, key) # 0 => Key(list[Rank(list, key)]) = key
         /\ Rank(list, key) = 0 => \A i \in DOMAIN list : Key(list[i]) # key
<1> DEFINE I == {i \in 1..Len(list) : Key(list[i]) = key}
<1>1. Len(list) \in Nat /\ DOMAIN list = 1..Len(list)
  BY LenProperties
<1>2. Rank(list, key) = IF I # {} THEN Min(I) ELSE 0
  BY DEF Rank, SelectInSeq
<1>3. I \in SUBSET Nat
  OBVIOUS
<1>4. CASE I = {}
  BY <1>1, <1>2, <1>4
<1>5. CASE I # {}
  <2>1. Min(I) \in I
    <3> HIDE DEF I
    <3>1. QED
      BY <1>3, <1>5, MinFacts
  <2>2. Min(I) \in 1..Len(list) /\ Key(list[Min(I)]) = key
    BY <2>1
  <2>3. QED
    BY <1>1, <1>2, <1>5, <2>2
<1>6. QED
  BY <1>4, <1>5

\* A unit that every contribution is a part of.
LEMMA ScaleIsNat == Scale \in Nat
<1> DEFINE w(i) == RrfConstant + i
           one == [rank \in 1..MaxRank |-> rank]
           step == [p \in Nat \X (1..MaxRank) |-> p[1] * w(p[2])]
           F == CHOOSE f : f = [s \in SUBSET DOMAIN one |->
                    IF s = {} THEN 1 ELSE f[s \ {Max(s)}] * (RrfConstant + one[Max(s)])]
<1>1. MaxRank \in Nat /\ RrfConstant \in Nat /\ DOMAIN one = 1..MaxRank
  BY RetrievalAssumption
<1>2. Scale = F[DOMAIN one]
  BY DEF Scale, FoldLeft, MapThenFoldSet
<1>3. step \in [Nat \X (1..MaxRank) -> Nat]
  BY <1>1
<1>4. PICK g \in [SUBSET (1..MaxRank) -> Nat] : FoldsUp(g, 1, MaxRank, step)
  <2> HIDE DEF step
  <2>1. QED
    BY <1>1, <1>3, Folding
<1>5. g = [s \in SUBSET DOMAIN one |->
             IF s = {} THEN 1 ELSE g[s \ {Max(s)}] * (RrfConstant + one[Max(s)])]
  <2>1. ASSUME NEW s \in SUBSET (1..MaxRank), s # {}
        PROVE  g[s] = g[s \ {Max(s)}] * (RrfConstant + one[Max(s)])
    <3>1. Max(s) \in 1..MaxRank /\ s \ {Max(s)} \in SUBSET (1..MaxRank)
      <4>1. s \in SUBSET 0..MaxRank
        OBVIOUS
      <4>2. Max(s) \in s
        BY <1>1, <2>1, <4>1, MaxFacts
      <4>3. QED
        BY <4>2
    <3>2. g[s \ {Max(s)}] \in Nat /\ g[s] = step[<<g[s \ {Max(s)}], Max(s)>>]
      BY <1>4, <2>1, <3>1 DEF FoldsUp
    <3>3. QED
      BY <3>1, <3>2
  <2>2. g[{}] = 1 /\ {} \in SUBSET (1..MaxRank)
    BY <1>4 DEF FoldsUp
  <2>3. g = [s \in SUBSET (1..MaxRank) |-> g[s]]
    BY <1>4
  <2> HIDE DEF one
  <2> DEFINE e(s) == IF s = {} THEN 1 ELSE g[s \ {Max(s)}] * (RrfConstant + one[Max(s)])
  <2>4. \A s \in SUBSET (1..MaxRank) : g[s] = e(s)
    BY <2>1, <2>2
  <2> HIDE DEF e
  <2>5. g = [s \in SUBSET DOMAIN one |-> e(s)]
    BY <1>1, <2>3, <2>4
  <2>6. QED
    BY <2>5 DEF e
<1>6. F = [s \in SUBSET DOMAIN one |->
             IF s = {} THEN 1 ELSE F[s \ {Max(s)}] * (RrfConstant + one[Max(s)])]
  <2> DEFINE e(f, s) == IF s = {} THEN 1 ELSE f[s \ {Max(s)}] * (RrfConstant + one[Max(s)])
  <2>1. F = CHOOSE f : f = [s \in SUBSET DOMAIN one |-> e(f, s)]
    OBVIOUS
  <2>2. g = [s \in SUBSET DOMAIN one |-> e(g, s)]
    BY <1>5
  <2> HIDE DEF e, F
  <2>3. F = [s \in SUBSET DOMAIN one |-> e(F, s)]
    BY <2>1, <2>2
  <2>4. QED
    BY <2>3 DEF e
<1> HIDE DEF F
<1> DEFINE T == {i \in Nat : i <= MaxRank => F[1..i] \in Nat}
<1>7. 0 \in T
  <2>1. 1..0 = {} /\ {} \in SUBSET DOMAIN one /\ F[{}] = 1
    BY <1>6
  <2>2. QED
    BY <2>1
<1>8. ASSUME NEW i \in Nat, i \in T PROVE i + 1 \in T
  <2>1. SUFFICES ASSUME i + 1 <= MaxRank PROVE F[1..(i + 1)] \in Nat
    OBVIOUS
  <2> DEFINE J == 1..(i + 1)
  <2>2. i + 1 \in 1..MaxRank /\ F[1..i] \in Nat
    BY <1>1, <1>8, <2>1
  <2>3. J \in SUBSET (1..MaxRank) /\ J # {} /\ Max(J) = i + 1 /\ J \ {i + 1} = 1..i
    <3>1. (i + 1) - 1 = i
      OBVIOUS
    <3>2. QED
      BY <1>1, <2>2, <3>1, FoldSteps
  <2> HIDE DEF J
  <2>4. F[J] = F[1..i] * (RrfConstant + one[i + 1])
    BY <1>1, <1>6, <2>3
  <2>5. one[i + 1] = i + 1
    BY <2>2
  <2>6. QED
    BY <1>1, <2>2, <2>4, <2>5 DEF J
<1> HIDE DEF T
<1>9. MaxRank \in T
  BY <1>1, <1>7, <1>8, Induct
<1>10. QED
  BY <1>1, <1>2, <1>9 DEF T

\* A better rank contributes no less.
LEMMA ContributionFalls ==
  ASSUME NEW a \in Nat \ {0}, NEW b \in Nat, a <= b
  PROVE  Contribution(a) \in Nat /\ Contribution(b) \in Nat /\ Contribution(b) <= Contribution(a)
<1> DEFINE d == RrfConstant + a
           e == RrfConstant + b
           x == Scale \div d
           y == Scale \div e
<1>1. Scale \in Nat /\ d \in Nat \ {0} /\ e \in Nat \ {0} /\ d <= e
  BY ScaleIsNat, RetrievalAssumption
<1>2. Contribution(a) = x /\ Contribution(b) = y
  BY DEF Contribution
<1> HIDE DEF d, e
<1>3. x \in Nat /\ x * d <= Scale /\ Scale < x * d + d
  BY <1>1
<1>4. y \in Nat /\ y * e <= Scale /\ Scale < y * e + e
  BY <1>1
<1> HIDE DEF x, y
<1>5. y <= x
  <2>1. SUFFICES ASSUME x + 1 <= y PROVE FALSE
    BY <1>3, <1>4
  <2>2. (x + 1) * d <= y * d
    BY <1>1, <1>3, <1>4, <2>1
  <2>3. y * d <= y * e
    BY <1>1, <1>4
  <2>4. (x + 1) * d = x * d + d
    BY <1>1, <1>3
  <2>5. x * d \in Int /\ y * d \in Int /\ y * e \in Int
    BY <1>1, <1>3, <1>4
  <2>6. QED
    BY <1>1, <1>3, <1>4, <2>2, <2>3, <2>4, <2>5
<1>6. QED
  BY <1>2, <1>3, <1>4, <1>5

\* What a list adds to the score of a key.
Gain(list, key) == IF Rank(list, key) = 0 THEN 0 ELSE Contribution(Rank(list, key))

\* The scores of a key in the first lists.
Sums(f, ls, key) == f[0] = 0 /\ \A i \in 1..Len(ls) : f[i] = f[i - 1] + Gain(ls[i], key)

\* It is a number,
LEMMA GainIsNat == ASSUME NEW S, NEW list \in Seq(S), NEW key PROVE Gain(list, key) \in Nat
<1>1. Rank(list, key) \in 0..Len(list) /\ Len(list) \in Nat
  BY RankFacts, LenProperties
<1>2. QED
  BY <1>1, ContributionFalls DEF Gain

\* and the score of a key is their sum, list by list.
LEMMA ScoreIsSum ==
  ASSUME NEW S, NEW ls \in Seq(Seq(S)), NEW key
  PROVE  \E f \in [0..Len(ls) -> Nat] : Sums(f, ls, key) /\ RrfScore(ls, key) = f[Len(ls)]
<1> DEFINE n == Len(ls)
           step == [p \in Nat \X (1..n) |-> p[1] + Gain(ls[p[2]], key)]
           F == CHOOSE h : h = [s \in SUBSET DOMAIN ls |->
                    IF s = {} THEN 0 ELSE h[s \ {Max(s)}]
                      + (IF Rank(ls[Max(s)], key) = 0 THEN 0 ELSE Contribution(Rank(ls[Max(s)], key)))]
<1>1. n \in Nat /\ DOMAIN ls = 1..n /\ \A i \in 1..n : ls[i] \in Seq(S)
  BY LenProperties, ElementOfSeq
<1>2. RrfScore(ls, key) = F[DOMAIN ls]
  BY DEF RrfScore, FoldLeft, MapThenFoldSet
<1>3. step \in [Nat \X (1..n) -> Nat]
  BY <1>1, GainIsNat
<1>4. PICK g \in [SUBSET (1..n) -> Nat] : FoldsUp(g, 0, n, step)
  <2> HIDE DEF step, n
  <2>1. QED
    BY <1>1, <1>3, Folding
<1>5. g = [s \in SUBSET DOMAIN ls |->
             IF s = {} THEN 0 ELSE g[s \ {Max(s)}]
               + (IF Rank(ls[Max(s)], key) = 0 THEN 0 ELSE Contribution(Rank(ls[Max(s)], key)))]
  <2>1. ASSUME NEW s \in SUBSET (1..n), s # {}
        PROVE  g[s] = g[s \ {Max(s)}] + Gain(ls[Max(s)], key)
    <3>1. Max(s) \in 1..n /\ s \ {Max(s)} \in SUBSET (1..n)
      <4>1. s \in SUBSET 0..n
        OBVIOUS
      <4>2. Max(s) \in s
        BY <1>1, <2>1, <4>1, MaxFacts
      <4>3. QED
        BY <4>2
    <3>2. g[s \ {Max(s)}] \in Nat /\ g[s] = step[<<g[s \ {Max(s)}], Max(s)>>]
      BY <1>4, <2>1, <3>1 DEF FoldsUp
    <3>3. QED
      BY <3>1, <3>2
  <2>2. g[{}] = 0 /\ {} \in SUBSET (1..n)
    BY <1>4 DEF FoldsUp
  <2>3. g = [s \in SUBSET (1..n) |-> g[s]]
    BY <1>4
  <2>4. QED
    BY <1>1, <2>1, <2>2, <2>3 DEF Gain
<1>6. F = [s \in SUBSET DOMAIN ls |->
             IF s = {} THEN 0 ELSE F[s \ {Max(s)}]
               + (IF Rank(ls[Max(s)], key) = 0 THEN 0 ELSE Contribution(Rank(ls[Max(s)], key)))]
  BY <1>5
<1> HIDE DEF F
<1> DEFINE f == [i \in 0..n |-> F[1..i]]
<1>7. f[0] = 0
  <2>1. 1..0 = {} /\ {} \in SUBSET DOMAIN ls /\ F[{}] = 0
    BY <1>6
  <2>2. QED
    BY <1>1, <2>1
<1>8. ASSUME NEW i \in 1..n PROVE f[i] = f[i - 1] + Gain(ls[i], key)
  <2> DEFINE J == 1..i
  <2>1. J \in SUBSET (1..n) /\ J # {} /\ Max(J) = i /\ J \ {i} = 1..(i - 1)
    BY <1>1, FoldSteps
  <2> HIDE DEF J
  <2>2. F[J] = F[1..(i - 1)] + Gain(ls[i], key)
    BY <1>1, <1>6, <2>1 DEF Gain
  <2>3. f[i] = F[J] /\ f[i - 1] = F[1..(i - 1)]
    BY <1>1 DEF J
  <2>4. QED
    BY <2>2, <2>3
<1> DEFINE T == {i \in Nat : i <= n => f[i] \in Nat}
<1>9. \A i \in 0..n : f[i] \in Nat
  <2>1. 0 \in T
    BY <1>7
  <2> HIDE DEF f
  <2>2. ASSUME NEW i \in Nat, i \in T PROVE i + 1 \in T
    <3>1. SUFFICES ASSUME i + 1 <= n PROVE f[i + 1] \in Nat
      OBVIOUS
    <3>2. i + 1 \in 1..n /\ (i + 1) - 1 = i /\ f[i] \in Nat
      BY <1>1, <2>2, <3>1
    <3>3. Gain(ls[i + 1], key) \in Nat
      BY <1>1, <3>2, GainIsNat
    <3>4. QED
      BY <1>8, <3>2, <3>3
  <2> HIDE DEF T
  <2>3. \A i \in Nat : i \in T
    BY <2>1, <2>2, Induct
  <2>4. QED
    BY <2>3 DEF T
<1>10. f \in [0..n -> Nat] /\ RrfScore(ls, key) = f[n]
  <2>1. f = [i \in 0..n |-> f[i]]
    OBVIOUS
  <2>2. f[n] = F[DOMAIN ls]
    BY <1>1
  <2> HIDE DEF f
  <2>3. QED
    BY <1>2, <1>9, <2>1, <2>2
<1>11. Sums(f, ls, key)
  BY <1>7, <1>8 DEF Sums
<1>12. QED
  BY <1>10, <1>11

\* The results of all lists, one for each key.
Fusible(ls) == FirstOfKeys(FlattenSeq(ls))

\* The best rank of a key that is in a list, and its result there.
LEMMA BestRankFacts ==
  ASSUME NEW ls \in Seq(Seq(Res)), NEW key, \E i \in DOMAIN ls : Rank(ls[i], key) # 0
  PROVE  /\ BestRank(ls, key) \in Nat \ {0}
         /\ \E i \in DOMAIN ls : Rank(ls[i], key) = BestRank(ls, key)
         /\ \A i \in DOMAIN ls : Rank(ls[i], key) # 0 => BestRank(ls, key) <= Rank(ls[i], key)
         /\ Representative(ls, key) \in Res /\ Key(Representative(ls, key)) = key
<1> DEFINE n == Len(ls)
           R == {Rank(ls[i], key) : i \in Ranking(ls, key)}
           b == BestRank(ls, key)
           I == {i \in 1..n : Rank(ls[i], key) = b}
           m == SelectInSeq(ls, LAMBDA list : Rank(list, key) = b)
<1>1. n \in Nat /\ DOMAIN ls = 1..n /\ \A i \in 1..n : ls[i] \in Seq(Res)
  BY LenProperties, ElementOfSeq
<1>2. \A i \in 1..n : /\ Len(ls[i]) \in Nat /\ DOMAIN ls[i] = 1..Len(ls[i])
                      /\ Rank(ls[i], key) \in 0..Len(ls[i])
  BY <1>1, RankFacts, LenProperties
<1>3. R \in SUBSET Nat /\ R # {} /\ b = Min(R)
  BY <1>1, <1>2 DEF Ranking, BestRank
<1>4. b \in R /\ \A x \in R : b <= x
  <2> HIDE DEF R, b
  <2>1. QED
    BY <1>3, MinFacts
<1>5. /\ b \in Nat \ {0}
      /\ \E i \in DOMAIN ls : Rank(ls[i], key) = b
      /\ \A i \in DOMAIN ls : Rank(ls[i], key) # 0 => b <= Rank(ls[i], key)
  <2> HIDE DEF b
  <2>1. QED
    BY <1>3, <1>4 DEF Ranking
<1>6. m = IF I # {} THEN Min(I) ELSE 0
  BY DEF SelectInSeq
<1>7. m \in 1..n /\ Rank(ls[m], key) = b
  <2>1. I \in SUBSET Nat /\ I # {}
    <3> HIDE DEF b
    <3>1. QED
      BY <1>1, <1>5
  <2>2. m \in I
    <3> HIDE DEF I, m
    <3>1. QED
      BY <1>6, <2>1, MinFacts
  <2>3. QED
    BY <2>2
<1>8. Representative(ls, key) = ls[m][b]
  BY DEF Representative
<1> HIDE DEF m, b
<1>9. b \in 1..Len(ls[m]) /\ Key(ls[m][b]) = key
  <2>1. ls[m] \in Seq(Res)
    BY <1>1, <1>7
  <2>2. Key(ls[m][Rank(ls[m], key)]) = key /\ Rank(ls[m], key) \in 0..Len(ls[m])
    BY <1>5, <1>7, <2>1, RankFacts
  <2>3. QED
    BY <1>5, <1>7, <2>2
<1>10. ls[m][b] \in Res
  BY <1>1, <1>7, <1>9, ElementOfSeq
<1>11. QED
  BY <1>5, <1>8, <1>9, <1>10 DEF b

\* A result that is fused is in a list.
LEMMA FusibleFacts ==
  ASSUME NEW ls \in Seq(Seq(Res))
  PROVE  /\ Fusible(ls) \in Seq(Res)
         /\ \A i, j \in DOMAIN Fusible(ls) : Key(Fusible(ls)[i]) = Key(Fusible(ls)[j]) => i = j
         /\ \A i \in DOMAIN Fusible(ls) : \E k \in DOMAIN ls : Rank(ls[k], Key(Fusible(ls)[i])) # 0
<1> DEFINE K == Fusible(ls)
           F == FlattenSeq(ls)
<1>1. F \in Seq(Res) /\ ToSet(F) = UNION {ToSet(ls[k]) : k \in DOMAIN ls}
  BY FlattenFacts
<1> HIDE DEF F
<1>2. /\ K \in Seq(Res) /\ ToSet(K) \subseteq ToSet(F)
      /\ \A i, j \in DOMAIN K : Key(K[i]) = Key(K[j]) => i = j
  BY <1>1, FirstOfKeysFacts DEF Fusible, F
<1> HIDE DEF K
<1>3. ASSUME NEW i \in DOMAIN K PROVE \E k \in DOMAIN ls : Rank(ls[k], Key(K[i])) # 0
  <2>1. K[i] \in ToSet(F)
    BY <1>2 DEF ToSet
  <2>2. PICK k \in DOMAIN ls : K[i] \in ToSet(ls[k])
    BY <1>1, <2>1
  <2>3. PICK j \in DOMAIN ls[k] : ls[k][j] = K[i]
    BY <2>2 DEF ToSet
  <2>4. ls[k] \in Seq(Res)
    BY ElementOfSeq, LenProperties
  <2>5. QED
    BY <2>3, <2>4, RankFacts
<1>4. QED
  BY <1>2, <1>3 DEF K

\* The order in which results are fused.
Ahead(ls, key, other) ==
  \/ RrfScore(ls, key) > RrfScore(ls, other)
  \/ RrfScore(ls, key) = RrfScore(ls, other) /\ BestRank(ls, key) < BestRank(ls, other)

\* The places of these in that order,
FusedOrder(ls) ==
  {p \in (1..Len(Fusible(ls))) \X (1..Len(Fusible(ls))) :
     \/ Ahead(ls, Key(Fusible(ls)[p[1]]), Key(Fusible(ls)[p[2]]))
     \/ p[1] < p[2] /\ ~Ahead(ls, Key(Fusible(ls)[p[2]]), Key(Fusible(ls)[p[1]]))}

\* which puts each two of them in one.
LEMMA FusedOrders ==
  ASSUME NEW ls \in Seq(Seq(Res)) PROVE Orders(FusedOrder(ls), Len(Fusible(ls)))
<1> DEFINE K == Fusible(ls)
           n == Len(K)
           L == FusedOrder(ls)
           v(i) == RrfScore(ls, Key(K[i]))
           b(i) == BestRank(ls, Key(K[i]))
<1>1. n \in Nat /\ DOMAIN K = 1..n
  BY FusibleFacts, LenProperties
<1>2. \A i \in 1..n : v(i) \in Nat /\ b(i) \in Nat
  <2> SUFFICES ASSUME NEW i \in 1..n PROVE v(i) \in Nat /\ b(i) \in Nat
    OBVIOUS
  <2>1. PICK f \in [0..Len(ls) -> Nat] : RrfScore(ls, Key(K[i])) = f[Len(ls)]
    BY ScoreIsSum
  <2>2. v(i) \in Nat
    BY <2>1, LenProperties
  <2>3. b(i) \in Nat
    BY <1>1, FusibleFacts, BestRankFacts
  <2>4. QED
    BY <2>2, <2>3
<1>3. \A i, j \in 1..n : <<i, j>> \in L <=>
         \/ v(i) > v(j) \/ (v(i) = v(j) /\ b(i) < b(j))
         \/ i < j /\ ~(v(j) > v(i) \/ (v(j) = v(i) /\ b(j) < b(i)))
  BY DEF FusedOrder, Ahead
<1> HIDE DEF v, b, L
<1>4. \A i \in 1..n : <<i, i>> \notin L
  BY <1>2, <1>3
<1>5. \A i, j \in 1..n : i # j => <<i, j>> \in L \/ <<j, i>> \in L
  BY <1>2, <1>3
<1>6. ASSUME NEW i \in 1..n, NEW j \in 1..n, NEW k \in 1..n, <<i, j>> \in L, <<j, k>> \in L
      PROVE  <<i, k>> \in L
  <2>1. v(i) \in Nat /\ v(j) \in Nat /\ v(k) \in Nat /\ b(i) \in Nat /\ b(j) \in Nat /\ b(k) \in Nat
    BY <1>2
  <2>2. \/ v(i) > v(j) \/ (v(i) = v(j) /\ b(i) < b(j))
        \/ i < j /\ ~(v(j) > v(i) \/ (v(j) = v(i) /\ b(j) < b(i)))
    BY <1>3, <1>6
  <2>3. \/ v(j) > v(k) \/ (v(j) = v(k) /\ b(j) < b(k))
        \/ j < k /\ ~(v(k) > v(j) \/ (v(k) = v(j) /\ b(k) < b(j)))
    BY <1>3, <1>6
  <2>4. \/ v(i) > v(k) \/ (v(i) = v(k) /\ b(i) < b(k))
        \/ i < k /\ ~(v(k) > v(i) \/ (v(k) = v(i) /\ b(k) < b(i)))
    BY <2>1, <2>2, <2>3
  <2>5. QED
    BY <1>3, <2>4
<1>7. QED
  BY <1>4, <1>5, <1>6 DEF Orders, L, n

\* What is fused, and in which order.
LEMMA FusionFacts ==
  ASSUME NEW ls \in Seq(Seq(Res))
  PROVE  /\ ReciprocalRankFusion(ls) \in Seq(Res)
         /\ Len(ReciprocalRankFusion(ls)) = Len(Fusible(ls))
         /\ \A p \in 1..Len(Fusible(ls)) :
              Key(ReciprocalRankFusion(ls)[p])
                = Key(Fusible(ls)[At(FusedOrder(ls), Len(Fusible(ls)), p)])
<1> DEFINE K == Fusible(ls)
           n == Len(K)
           L == FusedOrder(ls)
           key(i) == Key(K[i])
           fus == [i \in DOMAIN K |->
                     [result |-> [Representative(ls, key(i)) EXCEPT !.score = RrfScore(ls, key(i))],
                      rank   |-> BestRank(ls, key(i))]]
           bef(f, g) == \/ f.result.score > g.result.score
                        \/ f.result.score = g.result.score /\ f.rank < g.rank
           out == ReciprocalRankFusion(ls)
<1>1. n \in Nat /\ DOMAIN K = 1..n /\ Orders(L, n)
  BY FusibleFacts, LenProperties, FusedOrders
<1>2. ASSUME NEW i \in 1..n
      PROVE  /\ fus[i].result.score = RrfScore(ls, key(i)) /\ fus[i].rank = BestRank(ls, key(i))
             /\ fus[i].result \in Res /\ Key(fus[i].result) = key(i)
  <2> DEFINE r == Representative(ls, key(i))
             x == RrfScore(ls, key(i))
             t == [r EXCEPT !.score = x]
  <2>1. r \in Res /\ Key(r) = key(i)
    BY <1>1, FusibleFacts, BestRankFacts
  <2>2. PICK f \in [0..Len(ls) -> Nat] : x = f[Len(ls)]
    BY ScoreIsSum
  <2>3. x \in Nat
    BY <2>2, LenProperties
  <2>4. fus[i].result = t /\ fus[i].rank = BestRank(ls, key(i))
    BY <1>1
  <2> HIDE DEF r, x, fus
  <2>5. t \in Res /\ t.score = x /\ t.file = r.file /\ t.start = r.start /\ t.end = r.end
    BY <2>1, <2>3 DEF Res
  <2>6. QED
    BY <2>1, <2>4, <2>5 DEF Key, x
<1>3. \A i, j \in 1..n : bef(fus[j], fus[i]) \/ (j < i /\ ~bef(fus[i], fus[j])) <=> <<j, i>> \in L
  <2> HIDE DEF fus
  <2>1. QED
    BY <1>2 DEF FusedOrder, Ahead
<1> DEFINE ranking == [p \in DOMAIN fus |-> fus[CHOOSE h \in DOMAIN fus :
          1 + Cardinality({j \in DOMAIN fus : bef(fus[j], fus[h]) \/ (j < h /\ ~bef(fus[h], fus[j]))}) = p]]
<1>4. out = [i \in DOMAIN ranking |-> ranking[i].result]
  BY DEF ReciprocalRankFusion, Sorted, Fusible
<1>5. out = [i \in 1..n |-> fus[At(L, n, i)].result]
  <2>1. DOMAIN fus = 1..n
    BY <1>1
  <2> HIDE DEF fus, bef, n, L
  <2>2. \A h \in 1..n : {j \in DOMAIN fus : bef(fus[j], fus[h]) \/ (j < h /\ ~bef(fus[h], fus[j]))}
                          = {j \in 1..n : <<j, h>> \in L}
    BY <1>3, <2>1
  <2>3. \A h \in 1..n :
          1 + Cardinality({j \in DOMAIN fus : bef(fus[j], fus[h]) \/ (j < h /\ ~bef(fus[h], fus[j]))})
            = Place(L, n, h)
    BY <2>2 DEF Place
  <2>4. \A i \in 1..n : (CHOOSE h \in DOMAIN fus :
          1 + Cardinality({j \in DOMAIN fus : bef(fus[j], fus[h]) \/ (j < h /\ ~bef(fus[h], fus[j]))}) = i)
            = At(L, n, i)
    BY <2>1, <2>3 DEF At
  <2>5. QED
    BY <1>4, <2>1, <2>4
<1>6. \A p \in 1..n : At(L, n, p) \in 1..n
  <2> HIDE DEF L, n
  <2>1. QED
    BY <1>1, SortFacts
<1>7. \A p \in 1..n : out[p] \in Res /\ Key(out[p]) = key(At(L, n, p))
  <2> HIDE DEF fus, out, key, L
  <2>1. QED
    BY <1>2, <1>5, <1>6
<1>8. out \in Seq(Res) /\ Len(out) = n
  <2> HIDE DEF fus, out, L, n
  <2>1. out \in [1..n -> Res]
    BY <1>5, <1>7
  <2>2. QED
    BY <1>1, <2>1, SeqDef, LenProperties, SameLength
<1>9. QED
  BY <1>7, <1>8

\* A key that every list puts below another has no higher score.
LEMMA ScoreFollows ==
  ASSUME NEW ls \in Seq(Seq(Res)), NEW key, NEW other,
         \A i \in DOMAIN ls : Gain(ls[i], other) <= Gain(ls[i], key)
  PROVE  /\ RrfScore(ls, key) \in Nat /\ RrfScore(ls, other) \in Nat
         /\ RrfScore(ls, other) <= RrfScore(ls, key)
<1> DEFINE n == Len(ls)
<1>1. n \in Nat /\ DOMAIN ls = 1..n /\ \A i \in 1..n : ls[i] \in Seq(Res)
  BY LenProperties, ElementOfSeq
<1>2. PICK f \in [0..n -> Nat] : Sums(f, ls, key) /\ RrfScore(ls, key) = f[n]
  BY ScoreIsSum
<1>3. PICK g \in [0..n -> Nat] : Sums(g, ls, other) /\ RrfScore(ls, other) = g[n]
  BY ScoreIsSum
<1> DEFINE T == {i \in Nat : i <= n => g[i] <= f[i]}
<1>4. 0 \in T
  BY <1>2, <1>3 DEF Sums
<1>5. ASSUME NEW i \in Nat, i \in T PROVE i + 1 \in T
  <2>1. SUFFICES ASSUME i + 1 <= n PROVE g[i + 1] <= f[i + 1]
    OBVIOUS
  <2>2. i + 1 \in 1..n /\ (i + 1) - 1 = i /\ g[i] <= f[i] /\ g[i] \in Nat /\ f[i] \in Nat
    BY <1>1, <1>5, <2>1
  <2>3. f[i + 1] = f[i] + Gain(ls[i + 1], key) /\ g[i + 1] = g[i] + Gain(ls[i + 1], other)
    BY <1>2, <1>3, <2>2 DEF Sums
  <2>4. Gain(ls[i + 1], key) \in Nat /\ Gain(ls[i + 1], other) \in Nat
    BY <1>1, <2>2, GainIsNat
  <2>5. Gain(ls[i + 1], other) <= Gain(ls[i + 1], key)
    BY <1>1, <2>2
  <2>6. QED
    BY <2>2, <2>3, <2>4, <2>5
<1> HIDE DEF T
<1>6. n \in T
  BY <1>1, <1>4, <1>5, Induct
<1>7. QED
  BY <1>1, <1>2, <1>3, <1>6 DEF T

\* Does a list put one key at least as high as another?
AtLeast(list, key, other) ==
  Rank(list, other) # 0 => Rank(list, key) # 0 /\ Rank(list, key) <= Rank(list, other)

\* What every list puts below another is not ahead of it when fused.
LEMMA NotAhead ==
  ASSUME NEW ls \in Seq(Seq(Res)), NEW key, NEW other,
         \A i \in DOMAIN ls : AtLeast(ls[i], key, other),
         \E i \in DOMAIN ls : Rank(ls[i], other) # 0, key # other
  PROVE  Ahead(ls, key, other)
<1>1. \A i \in DOMAIN ls : /\ ls[i] \in Seq(Res) /\ Rank(ls[i], key) \in Nat /\ Rank(ls[i], other) \in Nat
  <2>1. \A i \in DOMAIN ls : ls[i] \in Seq(Res)
    BY ElementOfSeq, LenProperties
  <2>2. QED
    BY <2>1, RankFacts, LenProperties
<1>2. ASSUME NEW i \in DOMAIN ls PROVE Gain(ls[i], other) <= Gain(ls[i], key)
  <2>1. CASE Rank(ls[i], other) = 0
    <3>1. Gain(ls[i], other) = 0 /\ Gain(ls[i], key) \in Nat
      BY <1>1, <2>1, GainIsNat DEF Gain
    <3>2. QED
      BY <3>1
  <2>2. CASE Rank(ls[i], other) # 0
    <3>1. Rank(ls[i], key) # 0 /\ Rank(ls[i], key) <= Rank(ls[i], other)
      BY <2>2 DEF AtLeast
    <3>2. Contribution(Rank(ls[i], other)) <= Contribution(Rank(ls[i], key))
      BY <1>1, <3>1, ContributionFalls
    <3>3. QED
      BY <2>2, <3>1, <3>2 DEF Gain
  <2>3. QED
    BY <2>1, <2>2
<1>3. /\ RrfScore(ls, key) \in Nat /\ RrfScore(ls, other) \in Nat
      /\ RrfScore(ls, other) <= RrfScore(ls, key)
  BY <1>2, ScoreFollows
<1>4. PICK i \in DOMAIN ls : Rank(ls[i], other) = BestRank(ls, other)
  BY BestRankFacts
<1>5. BestRank(ls, other) \in Nat \ {0}
  BY BestRankFacts
<1>6. Rank(ls[i], key) # 0 /\ Rank(ls[i], key) <= BestRank(ls, other)
  BY <1>4, <1>5 DEF AtLeast
<1>7. BestRank(ls, key) \in Nat /\ BestRank(ls, key) <= Rank(ls[i], key)
  BY <1>6, BestRankFacts
<1>8. Rank(ls[i], key) # Rank(ls[i], other)
  <2>1. Key(ls[i][Rank(ls[i], key)]) = key /\ Key(ls[i][Rank(ls[i], other)]) = other
    BY <1>1, <1>4, <1>5, <1>6, RankFacts
  <2>2. QED
    BY <2>1
<1>9. BestRank(ls, key) < BestRank(ls, other)
  BY <1>1, <1>4, <1>5, <1>6, <1>7, <1>8
<1>10. QED
  BY <1>3, <1>9 DEF Ahead

\* What every list that has it ranks below another is below it in the fusion.
LEMMA FusionKeeps == ASSUME NEW ls \in Seq(Seq(Res)) PROVE FusionKeepsOrder(ls, ReciprocalRankFusion(ls))
<1> DEFINE out == ReciprocalRankFusion(ls)
           K == Fusible(ls)
           n == Len(K)
           L == FusedOrder(ls)
<1>1. n \in Nat /\ DOMAIN K = 1..n /\ Orders(L, n) /\ DOMAIN out = 1..n
  BY FusibleFacts, FusionFacts, LenProperties, FusedOrders
<1>2. ASSUME NEW i \in DOMAIN out, NEW j \in DOMAIN out,
             \A list \in ToSet(ls) :
               Rank(list, Key(out[j])) # 0 =>
                 Rank(list, Key(out[i])) # 0 /\ Rank(list, Key(out[i])) <= Rank(list, Key(out[j]))
      PROVE  i <= j
  <2> DEFINE a == At(L, n, i)
             b == At(L, n, j)
  <2>1. /\ a \in 1..n /\ b \in 1..n
        /\ <<b, a>> \in L <=> j < i
    <3> HIDE DEF L, n
    <3>1. QED
      BY <1>1, SortFacts
  <2>2. Key(out[i]) = Key(K[a]) /\ Key(out[j]) = Key(K[b])
    BY <1>1, FusionFacts
  <2> HIDE DEF a, b, out, K
  <2>3. SUFFICES ASSUME j < i PROVE FALSE
    BY <1>1
  <2>4. <<b, a>> \in L /\ a # b
    BY <1>1, <2>1, <2>3 DEF Orders
  <2>5. Key(K[a]) # Key(K[b]) /\ \E k \in DOMAIN ls : Rank(ls[k], Key(K[b])) # 0
    BY <1>1, <2>1, <2>4, FusibleFacts DEF K
  <2>6. \A k \in DOMAIN ls : AtLeast(ls[k], Key(K[a]), Key(K[b]))
    BY <1>2, <2>2 DEF AtLeast, ToSet
  <2>7. Ahead(ls, Key(K[a]), Key(K[b]))
    BY <2>5, <2>6, NotAhead
  <2>8. <<a, b>> \in L
    BY <2>1, <2>7 DEF FusedOrder, K, n, L
  <2>9. QED
    BY <1>1, <2>1, <2>4, <2>8 DEF Orders
<1>3. QED
  BY <1>2 DEF FusionKeepsOrder

-----------------------------------------------------------------------------
(* The nodes of a file and their texts.                                    *)

\* The lines of a range.
LEMMA LinesFacts ==
  ASSUME NEW a \in Nat, NEW b \in Nat
  PROVE  /\ Lines(a, b) \in Seq(Nat) /\ ToSet(Lines(a, b)) = a..b
         /\ a <= b => Len(Lines(a, b)) = b + 1 - a
<1> DEFINE s == Lines(a, b)
           n == IF a <= b THEN b + 1 - a ELSE 0
<1>1. n \in Nat /\ 1..(b + 1 - a) = 1..n
  OBVIOUS
<1>2. s = [k \in 1..n |-> a + k - 1]
  BY <1>1 DEF Lines
<1> HIDE DEF s
<1>3. \A k \in 1..n : a + k - 1 \in Nat
  BY <1>1
<1>4. s \in Seq(Nat) /\ DOMAIN s = 1..n /\ Len(s) = n
  <2> HIDE DEF n
  <2>1. s \in [1..n -> Nat]
    BY <1>2, <1>3
  <2>2. s \in Seq(Nat)
    BY <1>1, <2>1, SeqDef
  <2>3. QED
    BY <1>1, <2>1, <2>2, LenProperties, SameLength
<1>5. ToSet(s) = a..b
  <2>1. \A k \in 1..n : s[k] \in a..b
    BY <1>2
  <2>2. ASSUME NEW x \in a..b PROVE x \in ToSet(s)
    <3> DEFINE k == x + 1 - a
    <3>1. k \in 1..n /\ a + k - 1 = x
      OBVIOUS
    <3> HIDE DEF k, n
    <3>2. s[k] = x
      BY <1>2, <3>1
    <3>3. QED
      BY <1>4, <3>1, <3>2 DEF ToSet
  <2>3. QED
    BY <1>4, <2>1, <2>2 DEF ToSet
<1>6. QED
  BY <1>4, <1>5 DEF s

\* The file as it is written.
LEMMA SourceFacts ==
  ASSUME NEW file, IsSource(file)
  PROVE  /\ file \in Seq(Node) /\ Len(file) \in Nat /\ DOMAIN file = 1..Len(file)
         /\ \A j \in DOMAIN file :
              /\ file[j] \in Node /\ j \in Nat
              /\ file[j].up \in Nat /\ file[j].up < j /\ file[j].first <= file[j].last
              /\ file[j].first \in Nat /\ file[j].last \in Nat /\ file[j].body \in Nat
              /\ Span(file[j]) \in Seq(Nat) /\ ToSet(Span(file[j])) = file[j].first..file[j].last
              /\ Header(file[j]) \in Seq(Nat)
<1>1. file \in Seq(Node)
  BY DEF IsSource
<1>2. Len(file) \in Nat /\ DOMAIN file = 1..Len(file)
  BY <1>1, LenProperties
<1>3. ASSUME NEW j \in DOMAIN file
      PROVE  /\ file[j] \in Node /\ j \in Nat
             /\ file[j].up \in Nat /\ file[j].up < j /\ file[j].first <= file[j].last
             /\ file[j].first \in Nat /\ file[j].last \in Nat /\ file[j].body \in Nat
             /\ Span(file[j]) \in Seq(Nat) /\ ToSet(Span(file[j])) = file[j].first..file[j].last
             /\ Header(file[j]) \in Seq(Nat)
  <2>1. file[j] \in Node /\ j \in Nat
    BY <1>1, <1>2, ElementOfSeq
  <2>2. /\ file[j].up \in Nat /\ file[j].first \in Nat /\ file[j].last \in Nat /\ file[j].body \in Nat
        /\ file[j].first > 0
    BY <2>1 DEF Node
  <2>3. file[j].up < j /\ file[j].first <= file[j].last
    BY DEF IsSource
  <2>4. Span(file[j]) \in Seq(Nat) /\ ToSet(Span(file[j])) = file[j].first..file[j].last
    BY <2>2, LinesFacts DEF Span
  <2>5. Header(file[j]) \in Seq(Nat)
    <3>1. CASE file[j].body = 0
      <4>1. Header(file[j]) = Lines(file[j].first, 0 - 1)
        BY <3>1 DEF Header
      <4>2. 1..((0 - 1) + 1 - file[j].first) = {}
        BY <2>2
      <4>3. Header(file[j]) = [k \in {} |-> file[j].first + k - 1]
        BY <4>1, <4>2 DEF Lines
      <4>4. Header(file[j]) = << >>
        BY <4>3
      <4>5. QED
        BY <4>4
    <3>2. CASE file[j].body # 0
      <4>1. file[j].body - 1 \in Nat
        BY <2>2, <3>2
      <4>2. QED
        BY <2>2, <4>1, LinesFacts DEF Header
    <3>3. QED
      BY <3>1, <3>2
  <2>6. QED
    BY <2>1, <2>2, <2>3, <2>4, <2>5
<1>4. QED
  BY <1>1, <1>2, <1>3

\* The statements of a node.
LEMMA StatementsFacts ==
  ASSUME NEW file, IsSource(file), NEW i
  PROVE  /\ Statements(file, i) \in Seq(DOMAIN file)
         /\ ToSet(Statements(file, i)) = {j \in DOMAIN file : file[j].up = i}
         /\ Rises(Statements(file, i))
         /\ Inner(file, i) \in Seq(DOMAIN file)
         /\ ToSet(Inner(file, i)) = {j \in DOMAIN file : file[j].up = i /\ IsDefinition(file[j])}
<1>1. Len(file) \in Nat /\ DOMAIN file = 1..Len(file)
  BY SourceFacts
<1>2. QED
  BY <1>1, OrderFacts DEF Statements, Inner

\* The text of some places.
LEMMA TextFacts ==
  ASSUME NEW file, IsSource(file), NEW places \in Seq(DOMAIN file)
  PROVE  /\ TextOf(file, places) \in Seq(Nat)
         /\ ToSet(TextOf(file, places)) = UNION {ToSet(Span(file[h])) : h \in ToSet(places)}
<1> DEFINE ss == [k \in DOMAIN places |-> Span(file[places[k]])]
<1>1. DOMAIN places = 1..Len(places) /\ Len(places) \in Nat /\ \A k \in DOMAIN places : places[k] \in DOMAIN file
  BY LenProperties, ElementOfSeq
<1>2. ss \in Seq(Seq(Nat)) /\ DOMAIN ss = DOMAIN places
  <2>1. \A k \in 1..Len(places) : Span(file[places[k]]) \in Seq(Nat)
    BY <1>1, SourceFacts
  <2>2. ss \in [1..Len(places) -> Seq(Nat)]
    BY <1>1, <2>1
  <2>3. QED
    BY <1>1, <2>2, SeqDef
<1>3. TextOf(file, places) = FlattenSeq(ss)
  BY DEF TextOf
<1>4. /\ FlattenSeq(ss) \in Seq(Nat)
      /\ ToSet(FlattenSeq(ss)) = UNION {ToSet(ss[k]) : k \in DOMAIN ss}
  <2> HIDE DEF ss
  <2>1. QED
    BY <1>2, FlattenFacts
<1>5. UNION {ToSet(ss[k]) : k \in DOMAIN ss} = UNION {ToSet(Span(file[h])) : h \in ToSet(places)}
  <2>1. \A k \in DOMAIN ss : ss[k] = Span(file[places[k]]) /\ places[k] \in ToSet(places)
    BY <1>2 DEF ToSet
  <2>2. \A h \in ToSet(places) : \E k \in DOMAIN ss : h = places[k]
    BY <1>2 DEF ToSet
  <2> HIDE DEF ss
  <2>3. QED
    BY <2>1, <2>2
<1>6. QED
  BY <1>3, <1>4, <1>5

\* A sequence of sequences is flattened one by one.
LEMMA FlattenSteps ==
  ASSUME NEW S, NEW ss \in Seq(Seq(S))
  PROVE  \E g \in [0..Len(ss) -> Seq(S)] :
           /\ g[0] = <<>> /\ FlattenSeq(ss) = g[Len(ss)]
           /\ \A i \in 1..Len(ss) : g[i] = g[i - 1] \o ss[i]
<1> DEFINE n == Len(ss)
           V == Seq(S)
           step == [p \in V \X (1..n) |-> p[1] \o ss[p[2]]]
           flatten == CHOOSE f : f = [i \in 1..n |-> IF i = 1 THEN ss[i] ELSE f[i - 1] \o ss[i]]
<1>0. n \in Nat /\ DOMAIN ss = 1..n /\ \A i \in 1..n : ss[i] \in V
  BY LenProperties, ElementOfSeq
<1>1. CASE n = 0
  <2>1. ss = <<>> /\ <<>> \in V
    BY <1>0, <1>1, EmptySeq
  <2>2. FlattenSeq(ss) = <<>>
    BY <1>1, <2>1 DEF FlattenSeq
  <2> DEFINE g == [i \in 0..n |-> <<>>]
  <2>3. g \in [0..n -> V] /\ g[0] = <<>> /\ g[n] = <<>> /\ 1..n = {}
    BY <1>0, <1>1, <2>1
  <2> HIDE DEF g
  <2>4. QED
    BY <2>2, <2>3
<1>2. CASE n # 0
  <2>1. <<>> \in V /\ step \in [V \X (1..n) -> V]
    <3>1. \A s \in V : \A t \in V : s \o t \in V
      BY ConcatProperties
    <3>2. <<>> \in V
      BY EmptySeq
    <3> HIDE DEF V, n
    <3>3. QED
      BY <1>0, <3>1, <3>2
  <2>2. PICK g \in [0..n -> V] : g[0] = <<>> /\ \A i \in 1..n : g[i] = step[<<g[i - 1], i>>]
    <3>1. \E g \in [0..n -> V] : Recurs(g, <<>>, n, step)
      <4> HIDE DEF V, step, n
      <4>1. QED
        BY <1>0, <2>1, Recursion
    <3>2. QED
      BY <3>1 DEF Recurs
  <2>3. \A i \in 1..n : g[i] = g[i - 1] \o ss[i]
    <3> SUFFICES ASSUME NEW i \in 1..n PROVE g[i] = g[i - 1] \o ss[i]
      OBVIOUS
    <3>0. i - 1 \in 0..n
      BY <1>0
    <3>1. <<g[i - 1], i>> \in V \X (1..n) /\ g[i] = step[<<g[i - 1], i>>]
      BY <2>2, <3>0
    <3>2. QED
      BY <3>1
  <2> DEFINE h == [i \in 1..n |-> g[i]]
  <2>4. h = [i \in 1..n |-> IF i = 1 THEN ss[i] ELSE h[i - 1] \o ss[i]]
    <3>1. ASSUME NEW i \in 1..n PROVE g[i] = IF i = 1 THEN ss[i] ELSE h[i - 1] \o ss[i]
      <4>1. CASE i = 1
        <5>0. i - 1 = 0 /\ g[0] = <<>>
          BY <2>2, <4>1
        <5>1. g[i] = <<>> \o ss[i] /\ ss[i] \in Seq(S)
          BY <1>0, <2>3, <5>0
        <5>2. QED
          BY <4>1, <5>1, ConcatEmptySeq
      <4>2. CASE i # 1
        <5>1. i - 1 \in 1..n
          BY <1>0, <4>2
        <5>2. QED
          BY <2>3, <4>2, <5>1
      <4>3. QED
        BY <4>1, <4>2
    <3>2. QED
      BY <3>1
  <2>5. flatten = [i \in 1..n |-> IF i = 1 THEN ss[i] ELSE flatten[i - 1] \o ss[i]]
    BY <2>4
  <2>6. FlattenSeq(ss) = flatten[n]
    BY <1>2 DEF FlattenSeq
  <2> HIDE DEF flatten, h
  <2> DEFINE T == {i \in Nat : i \in 1..n => flatten[i] = g[i]}
  <2>7. 0 \in T
    OBVIOUS
  <2>8. ASSUME NEW i \in Nat, i \in T PROVE i + 1 \in T
    <3>1. SUFFICES ASSUME i + 1 \in 1..n PROVE flatten[i + 1] = g[i + 1]
      OBVIOUS
    <3>2. (i + 1) - 1 = i
      OBVIOUS
    <3>3. CASE i = 0
      <4>1. flatten[1] = ss[1] /\ g[1] = g[0] \o ss[1] /\ ss[1] \in Seq(S)
        <5>1. 1 \in 1..n /\ 1 - 1 = 0
          BY <1>0, <3>1, <3>3
        <5>2. QED
          BY <1>0, <2>3, <2>5, <5>1
      <4>2. QED
        BY <2>2, <3>3, <4>1, ConcatEmptySeq
    <3>4. CASE i # 0
      <4>1. i \in 1..n /\ i + 1 # 1
        BY <1>0, <3>1, <3>4
      <4>2. flatten[i + 1] = flatten[i] \o ss[i + 1]
        BY <2>5, <3>1, <3>2, <4>1
      <4>3. QED
        BY <2>3, <2>8, <3>1, <3>2, <4>1, <4>2
    <3>5. QED
      BY <3>3, <3>4
  <2> HIDE DEF T
  <2>9. n \in T
    BY <1>0, <2>7, <2>8, Induct
  <2>10. flatten[n] = g[n]
    BY <1>0, <1>2, <2>9 DEF T
  <2>11. QED
    BY <2>2, <2>3, <2>6, <2>10
<1>3. QED
  BY <1>1, <1>2

\* With one more at its end.
LEMMA FlattenAppend ==
  ASSUME NEW S, NEW ss \in Seq(Seq(S)), NEW t \in Seq(S)
  PROVE  FlattenSeq(Append(ss, t)) = FlattenSeq(ss) \o t
<1> DEFINE n == Len(ss)
           u == Append(ss, t)
<1>1. n \in Nat /\ u \in Seq(Seq(S)) /\ Len(u) = n + 1 /\ u[n + 1] = t /\ \A i \in 1..n : u[i] = ss[i]
  BY LenProperties, AppendProperties
<1> HIDE DEF u
<1>2. PICK f \in [0..n -> Seq(S)] :
        /\ f[0] = <<>> /\ FlattenSeq(ss) = f[n]
        /\ \A i \in 1..n : f[i] = f[i - 1] \o ss[i]
  BY FlattenSteps
<1>3. PICK g : /\ g[0] = <<>> /\ FlattenSeq(u) = g[n + 1]
               /\ \A i \in 1..(n + 1) : g[i] = g[i - 1] \o u[i]
  <2>1. PICK g \in [0..Len(u) -> Seq(S)] :
          /\ g[0] = <<>> /\ FlattenSeq(u) = g[Len(u)]
          /\ \A i \in 1..Len(u) : g[i] = g[i - 1] \o u[i]
    BY <1>1, FlattenSteps
  <2> HIDE DEF n
  <2>2. QED
    BY <1>1, <2>1
<1> HIDE DEF n
<1> DEFINE T == {i \in Nat : i <= n => f[i] = g[i]}
<1>4. 0 \in T
  BY <1>2, <1>3
<1>5. ASSUME NEW i \in Nat, i \in T PROVE i + 1 \in T
  <2>1. SUFFICES ASSUME i + 1 <= n PROVE f[i + 1] = g[i + 1]
    OBVIOUS
  <2>2. f[i] = g[i] /\ i + 1 \in 1..n /\ i + 1 \in 1..(n + 1) /\ (i + 1) - 1 = i
    BY <1>1, <1>5, <2>1
  <2>3. QED
    BY <1>1, <1>2, <1>3, <2>2
<1> HIDE DEF T
<1>6. n \in T
  BY <1>1, <1>4, <1>5, Induct
<1>7. f[n] = g[n] /\ (n + 1) - 1 = n /\ n + 1 \in 1..(n + 1)
  BY <1>1, <1>6 DEF T
<1>8. QED
  BY <1>1, <1>2, <1>3, <1>7 DEF u

\* The text of places with one more, and of one place.
LEMMA TextAppend ==
  ASSUME NEW file, IsSource(file), NEW places \in Seq(DOMAIN file), NEW j \in DOMAIN file
  PROVE  /\ TextOf(file, Append(places, j)) = TextOf(file, places) \o Span(file[j])
         /\ Len(TextOf(file, Append(places, j))) = Len(TextOf(file, places)) + Len(Span(file[j]))
<1> DEFINE n == Len(places)
           ss == [k \in DOMAIN places |-> Span(file[places[k]])]
           u == Append(places, j)
           uu == [k \in DOMAIN u |-> Span(file[u[k]])]
<1>1. DOMAIN places = 1..n /\ n \in Nat /\ \A k \in 1..n : places[k] \in DOMAIN file
  BY LenProperties, ElementOfSeq
<1>2. u \in Seq(DOMAIN file) /\ DOMAIN u = 1..(n + 1) /\ u[n + 1] = j /\ \A k \in 1..n : u[k] = places[k]
  BY <1>1, AppendProperties, LenProperties
<1>3. ss \in Seq(Seq(Nat)) /\ Len(ss) = n
  <2>1. \A k \in 1..n : Span(file[places[k]]) \in Seq(Nat)
    BY <1>1, SourceFacts
  <2>2. ss \in [1..n -> Seq(Nat)]
    BY <1>1, <2>1
  <2> HIDE DEF ss, n
  <2>3. ss \in Seq(Seq(Nat))
    BY <1>1, <2>2, SeqDef
  <2>4. QED
    BY <1>1, <2>2, <2>3, LenProperties, SameLength
<1>4. Span(file[j]) \in Seq(Nat)
  BY SourceFacts
<1>5. uu = Append(ss, Span(file[j]))
  <2> HIDE DEF u
  <2>1. ss = [k \in 1..n |-> Span(file[places[k]])]
    BY <1>1
  <2>2. uu = [k \in 1..(n + 1) |-> Span(file[u[k]])]
    BY <1>2
  <2>3. Append(ss, Span(file[j])) = [k \in 1..(n + 1) |-> IF k = n + 1 THEN Span(file[j]) ELSE ss[k]]
    <3>1. DOMAIN Append(ss, Span(file[j])) = 1..(n + 1)
      BY <1>3, <1>4, AppendProperties, LenProperties
    <3>2. \A k \in 1..(n + 1) : Append(ss, Span(file[j]))[k] = IF k = n + 1 THEN Span(file[j]) ELSE ss[k]
      <4>1. \A k \in 1..(n + 1) : k = n + 1 \/ k \in 1..n
        BY <1>1
      <4> HIDE DEF ss, n
      <4>2. QED
        BY <1>1, <1>3, <1>4, <4>1, AppendProperties
    <3>3. Append(ss, Span(file[j])) \in Seq(Seq(Nat))
      BY <1>3, <1>4, AppendProperties
    <3>4. Append(ss, Span(file[j])) = [k \in 1..(n + 1) |-> Append(ss, Span(file[j]))[k]]
      BY <3>1, <3>3, SeqDef
    <3> HIDE DEF ss
    <3>5. QED
      BY <3>2, <3>4
  <2>4. \A k \in 1..(n + 1) : Span(file[u[k]]) = IF k = n + 1 THEN Span(file[j]) ELSE ss[k]
    <3>1. \A k \in 1..(n + 1) : k = n + 1 \/ k \in 1..n
      BY <1>1
    <3>2. QED
      BY <1>2, <2>1, <3>1
  <2> HIDE DEF ss, uu
  <2>5. QED
    BY <2>2, <2>3, <2>4
<1>6. TextOf(file, places) = FlattenSeq(ss) /\ TextOf(file, u) = FlattenSeq(uu)
  BY DEF TextOf
<1> HIDE DEF ss, uu
<1>7. TextOf(file, u) = TextOf(file, places) \o Span(file[j])
  BY <1>3, <1>4, <1>5, <1>6, FlattenAppend
<1>8. TextOf(file, places) \in Seq(Nat)
  BY TextFacts
<1>9. QED
  BY <1>4, <1>7, <1>8, ConcatProperties

-----------------------------------------------------------------------------
(* The windows of the statements of a node.                                *)

\* The sequences that are not empty.
Full(S) == {s \in Seq(S) : s # <<>>}

\* The last element of a sequence replaced.
LEMMA LastFacts ==
  ASSUME NEW S, NEW s \in Seq(S), s # <<>>, NEW x \in S
  PROVE  /\ Last(s) \in S /\ Last(s) = s[Len(s)] /\ Len(s) \in Nat \ {0} /\ DOMAIN s = 1..Len(s)
         /\ Append(Front(s), x) \in Seq(S) /\ Append(Front(s), x) # <<>>
         /\ DOMAIN Append(Front(s), x) = DOMAIN s
         /\ \A k \in DOMAIN s : Append(Front(s), x)[k] = IF k = Len(s) THEN x ELSE s[k]
<1> DEFINE n == Len(s)
           m == n - 1
           t == SubSeq(s, 1, m)
           u == Append(t, x)
<1>1. n \in Nat \ {0} /\ DOMAIN s = 1..n /\ \A k \in 1..n : s[k] \in S
  BY LenProperties, ElementOfSeq, EmptySeq
<1>2. Last(s) = s[n] /\ Front(s) = t
  BY DEF Last, Front
<1>3. m \in Nat /\ m + 1 = n /\ m <= n
  BY <1>1
<1> HIDE DEF m
<1>4. t \in Seq(S) /\ Len(t) = m /\ \A k \in 1..m : t[k] = s[k]
  <2>1. \A k \in 1..m : s[k] \in S
    BY <1>1, <1>3
  <2>2. QED
    BY <1>1, <1>3, <2>1, SubSeqProperties
<1> HIDE DEF t
<1>5. u \in Seq(S) /\ Len(u) = n /\ u[n] = x /\ \A k \in 1..m : u[k] = t[k]
  BY <1>3, <1>4, AppendProperties
<1>6. \A k \in 1..n : u[k] = IF k = n THEN x ELSE s[k]
  <2> HIDE DEF u, n
  <2>1. \A k \in 1..n : k = n \/ k \in 1..m
    BY <1>1, <1>3
  <2>2. QED
    BY <1>1, <1>3, <1>4, <1>5, <2>1
<1>7. u # <<>> /\ DOMAIN u = 1..n
  BY <1>1, <1>5, EmptySeq, LenProperties
<1> HIDE DEF u
<1>8. Append(Front(s), x) = u
  BY <1>2 DEF u
<1> HIDE DEF n
<1>9. Last(s) \in S
  BY <1>1, <1>2
<1>10. QED
  BY <1>1, <1>2, <1>5, <1>6, <1>7, <1>8, <1>9 DEF n

\* A window with one more place, or a new window.
Joined(file, ws, j, header) ==
  IF ws = <<>> \/ Overflows(file, Last(ws), file[j], header)
  THEN Append(ws, <<j>>) ELSE Append(Front(ws), Append(Last(ws), j))

\* These are windows again,
LEMMA JoinedIsWindows ==
  ASSUME NEW D, NEW ws \in Seq(Full(D)), NEW file, NEW j \in D, NEW header
  PROVE  Joined(file, ws, j, header) \in Seq(Full(D))
<1>1. <<j>> \in Full(D)
  BY EmptySeq DEF Full
<1>2. CASE ws = <<>> \/ Overflows(file, Last(ws), file[j], header)
  <2>1. Append(ws, <<j>>) \in Seq(Full(D))
    BY <1>1, AppendProperties
  <2>2. QED
    BY <1>2, <2>1 DEF Joined
<1>3. CASE ~(ws = <<>> \/ Overflows(file, Last(ws), file[j], header))
  <2> DEFINE w == Append(Last(ws), j)
  <2>1. Last(ws) \in Full(D)
    BY <1>1, <1>3, LastFacts
  <2>2. Last(ws) \in Seq(D)
    BY <2>1 DEF Full
  <2>3. w \in Seq(D) /\ Len(w) = Len(Last(ws)) + 1 /\ Len(Last(ws)) \in Nat
    BY <2>2, AppendProperties, LenProperties
  <2>4. w \in Full(D)
    BY <2>3, EmptySeq DEF Full
  <2> HIDE DEF w
  <2>5. Append(Front(ws), w) \in Seq(Full(D))
    BY <1>3, <2>4, LastFacts
  <2>6. QED
    BY <1>3, <2>5 DEF Joined, w
<1>4. QED
  BY <1>2, <1>3

\* The windows are made place by place.
Windowing(f, file, places, header) ==
  /\ f[0] = <<>> /\ Windows(file, places, header) = f[Len(places)]
  /\ \A i \in 1..Len(places) : f[i] = Joined(file, f[i - 1], places[i], header)

\* and the fold of Windows takes these steps.
LEMMA WindowsSteps ==
  ASSUME NEW file, NEW D, NEW places \in Seq(D), NEW header
  PROVE  \E f \in [0..Len(places) -> Seq(Full(D))] : Windowing(f, file, places, header)
<1> DEFINE n == Len(places)
           V == Seq(Full(D))
           step == [p \in V \X (1..n) |-> Joined(file, p[1], places[p[2]], header)]
           F == CHOOSE h : h = [s \in SUBSET DOMAIN places |->
                    IF s = {} THEN <<>> ELSE (IF h[s \ {Max(s)}] = <<>> \/ Overflows(file, Last(h[s \ {Max(s)}]), file[places[Max(s)]], header)
                      THEN Append(h[s \ {Max(s)}], <<places[Max(s)]>>) ELSE Append(Front(h[s \ {Max(s)}]), Append(Last(h[s \ {Max(s)}]), places[Max(s)])))]
<1>1. n \in Nat /\ DOMAIN places = 1..n /\ \A i \in 1..n : places[i] \in D
  BY LenProperties, ElementOfSeq
<1>2. Windows(file, places, header) = F[DOMAIN places]
  BY DEF Windows, FoldLeft, MapThenFoldSet
<1>3. <<>> \in V /\ \A x \in V : \A i \in 1..n : Joined(file, x, places[i], header) \in V
  <2>1. <<>> \in V
    BY EmptySeq
  <2>2. QED
    BY <1>1, <2>1, JoinedIsWindows
<1>4. PICK g \in [SUBSET (1..n) -> V] : FoldsUp(g, <<>>, n, step)
  <2>1. step \in [V \X (1..n) -> V]
    <3> HIDE DEF V, n
    <3>1. QED
      BY <1>3
  <2> HIDE DEF step, n, V
  <2>2. QED
    BY <1>1, <1>3, <2>1, Folding
<1>5. g = [s \in SUBSET DOMAIN places |->
             IF s = {} THEN <<>> ELSE (IF g[s \ {Max(s)}] = <<>> \/ Overflows(file, Last(g[s \ {Max(s)}]), file[places[Max(s)]], header)
                      THEN Append(g[s \ {Max(s)}], <<places[Max(s)]>>) ELSE Append(Front(g[s \ {Max(s)}]), Append(Last(g[s \ {Max(s)}]), places[Max(s)])))]
  <2>1. ASSUME NEW s \in SUBSET (1..n), s # {}
        PROVE  g[s] = Joined(file, g[s \ {Max(s)}], places[Max(s)], header)
    <3>1. Max(s) \in 1..n /\ s \ {Max(s)} \in SUBSET (1..n)
      <4>1. s \in SUBSET 0..n
        OBVIOUS
      <4>2. Max(s) \in s
        BY <1>1, <2>1, <4>1, MaxFacts
      <4>3. QED
        BY <4>2
    <3>2. g[s \ {Max(s)}] \in V /\ g[s] = step[<<g[s \ {Max(s)}], Max(s)>>]
      BY <1>4, <2>1, <3>1 DEF FoldsUp
    <3> HIDE DEF V
    <3>3. QED
      BY <3>1, <3>2
  <2>2. g[{}] = <<>> /\ {} \in SUBSET (1..n)
    BY <1>4 DEF FoldsUp
  <2>3. g = [s \in SUBSET (1..n) |-> g[s]]
    BY <1>4
  <2> HIDE DEF n, V
  <2>4. QED
    BY <1>1, <2>1, <2>2, <2>3 DEF Joined
<1>6. F = [s \in SUBSET DOMAIN places |->
             IF s = {} THEN <<>> ELSE (IF F[s \ {Max(s)}] = <<>> \/ Overflows(file, Last(F[s \ {Max(s)}]), file[places[Max(s)]], header)
                      THEN Append(F[s \ {Max(s)}], <<places[Max(s)]>>) ELSE Append(Front(F[s \ {Max(s)}]), Append(Last(F[s \ {Max(s)}]), places[Max(s)])))]
  BY <1>5
<1> HIDE DEF F
<1> DEFINE f == [i \in 0..n |-> F[1..i]]
<1>7. f[0] = <<>>
  <2>1. 1..0 = {} /\ {} \in SUBSET DOMAIN places /\ F[{}] = <<>>
    BY <1>6
  <2>2. QED
    BY <1>1, <2>1
<1>8. ASSUME NEW i \in 1..n PROVE f[i] = Joined(file, f[i - 1], places[i], header)
  <2> DEFINE J == 1..i
  <2>1. J \in SUBSET (1..n) /\ J # {} /\ Max(J) = i /\ J \ {i} = 1..(i - 1)
    BY <1>1, FoldSteps
  <2> HIDE DEF J
  <2>2. F[J] = Joined(file, F[1..(i - 1)], places[i], header)
    BY <1>1, <1>6, <2>1 DEF Joined
  <2>3. f[i] = F[J] /\ f[i - 1] = F[1..(i - 1)]
    BY <1>1 DEF J
  <2> HIDE DEF f
  <2>4. QED
    BY <2>2, <2>3
<1> DEFINE T == {i \in Nat : i <= n => f[i] \in V}
<1>9. \A i \in 0..n : f[i] \in V
  <2> HIDE DEF V
  <2>1. 0 \in T
    BY <1>3, <1>7
  <2> HIDE DEF f
  <2>2. ASSUME NEW i \in Nat, i \in T PROVE i + 1 \in T
    <3>1. SUFFICES ASSUME i + 1 <= n PROVE f[i + 1] \in V
      OBVIOUS
    <3>2. i + 1 \in 1..n /\ (i + 1) - 1 = i /\ f[i] \in V
      BY <1>1, <2>2, <3>1
    <3>3. QED
      BY <1>3, <1>8, <3>2
  <2> HIDE DEF T
  <2>3. \A i \in Nat : i \in T
    BY <2>1, <2>2, Induct
  <2>4. QED
    BY <2>3 DEF T
<1>10. f \in [0..n -> V] /\ Windows(file, places, header) = f[n]
  <2>1. f = [i \in 0..n |-> f[i]]
    OBVIOUS
  <2>2. f[n] = F[DOMAIN places]
    BY <1>1
  <2> HIDE DEF f
  <2>3. QED
    BY <1>2, <1>9, <2>1, <2>2
<1> HIDE DEF f
<1>11. Windowing(f, file, places, header)
  BY <1>7, <1>8, <1>10 DEF Windowing
<1>12. QED
  BY <1>10, <1>11

\* A sequence with one more at its end.
LEMMA AppendFacts ==
  ASSUME NEW S, NEW s \in Seq(S), NEW x \in S
  PROVE  /\ Append(s, x) \in Seq(S) /\ Append(s, x) # <<>> /\ Len(Append(s, x)) = Len(s) + 1
         /\ DOMAIN Append(s, x) = 1..(Len(s) + 1) /\ Len(s) \in Nat /\ DOMAIN s = 1..Len(s)
         /\ \A k \in 1..(Len(s) + 1) : Append(s, x)[k] = IF k = Len(s) + 1 THEN x ELSE s[k]
         /\ ToSet(Append(s, x)) = ToSet(s) \cup {x}
<1> DEFINE n == Len(s)
           u == Append(s, x)
<1>1. n \in Nat /\ DOMAIN s = 1..n
  BY LenProperties
<1>2. u \in Seq(S) /\ Len(u) = n + 1 /\ u[n + 1] = x /\ \A k \in 1..n : u[k] = s[k]
  BY <1>1, AppendProperties
<1> HIDE DEF u, n
<1>3. DOMAIN u = 1..(n + 1) /\ u # <<>>
  BY <1>1, <1>2, LenProperties, EmptySeq
<1>4. \A k \in 1..(n + 1) : k = n + 1 \/ k \in 1..n
  BY <1>1
<1>5. \A k \in 1..(n + 1) : u[k] = IF k = n + 1 THEN x ELSE s[k]
  BY <1>1, <1>2, <1>4
<1>6. ToSet(u) = ToSet(s) \cup {x}
  <2>1. \A k \in 1..n : k \in 1..(n + 1) /\ k # n + 1
    BY <1>1
  <2>2. n + 1 \in 1..(n + 1)
    BY <1>1
  <2>3. QED
    BY <1>1, <1>2, <1>3, <1>4, <2>1, <2>2 DEF ToSet
<1>7. QED
  BY <1>1, <1>2, <1>3, <1>5, <1>6 DEF u, n

\* An ascending sequence with a larger number after it.
LEMMA RisesOn ==
  ASSUME NEW s \in Seq(Nat), Rises(s), NEW x \in Nat, \A y \in ToSet(s) : y < x
  PROVE  Rises(Append(s, x))
<1> DEFINE n == Len(s)
           u == Append(s, x)
<1>1. /\ DOMAIN u = 1..(n + 1) /\ n \in Nat /\ DOMAIN s = 1..n
      /\ \A k \in 1..(n + 1) : u[k] = IF k = n + 1 THEN x ELSE s[k]
  BY AppendFacts
<1>2. \A k \in 1..n : s[k] < x
  BY <1>1 DEF ToSet
<1> HIDE DEF u, n
<1>3. ASSUME NEW a \in 1..(n + 1), NEW b \in 1..(n + 1), a < b PROVE u[a] < u[b]
  <2>1. a \in 1..n /\ u[a] = s[a]
    BY <1>1, <1>3
  <2>2. CASE b = n + 1
    BY <1>1, <1>2, <2>1, <2>2
  <2>3. CASE b # n + 1
    <3>1. b \in 1..n /\ u[b] = s[b]
      BY <1>1, <2>3
    <3>2. QED
      BY <1>1, <1>3, <2>1, <3>1 DEF Rises
  <2>4. QED
    BY <2>2, <2>3
<1>4. QED
  BY <1>1, <1>3 DEF Rises, u

\* The places in some windows.
InWindows(ws) == UNION {ToSet(ws[k]) : k \in DOMAIN ws}

\* A window in the order of the file, and of more than one node only if it fits.
Packed(file, w, header) ==
  Rises(w) /\ (Len(w) > 1 => header + Len(TextOf(file, w)) <= ChunkTokens)

\* One more place is in a window, and windows stay packed.
LEMMA JoinedFacts ==
  ASSUME NEW file, IsSource(file), NEW ws \in Seq(Full(DOMAIN file)), NEW j \in DOMAIN file,
         NEW header \in Nat, \A h \in InWindows(ws) : h < j,
         \A k \in DOMAIN ws : Packed(file, ws[k], header)
  PROVE  /\ InWindows(Joined(file, ws, j, header)) = InWindows(ws) \cup {j}
         /\ \A k \in DOMAIN Joined(file, ws, j, header) : Packed(file, Joined(file, ws, j, header)[k], header)
<1> DEFINE D == DOMAIN file
           new == ws = <<>> \/ Overflows(file, Last(ws), file[j], header)
           u == Joined(file, ws, j, header)
<1>0. D \in SUBSET Nat /\ j \in Nat
  BY SourceFacts
<1>1. CASE new
  <2> DEFINE v == <<j>>
  <2>1. v \in Full(D) /\ v \in Seq(D) /\ Len(v) = 1 /\ DOMAIN v = {1} /\ v[1] = j
    BY EmptySeq DEF Full
  <2>2. u = Append(ws, v)
    BY <1>1 DEF Joined
  <2>3. Packed(file, v, header)
    <3>1. Rises(v)
      BY <2>1 DEF Rises
    <3>2. ~(Len(v) > 1)
      BY <2>1
    <3>3. QED
      BY <3>1, <3>2 DEF Packed
  <2>4. ToSet(v) = {j}
    BY <2>1 DEF ToSet
  <2> HIDE DEF v, u
  <2>5. /\ DOMAIN u = 1..(Len(ws) + 1) /\ Len(ws) \in Nat /\ DOMAIN ws = 1..Len(ws)
        /\ \A k \in 1..(Len(ws) + 1) : u[k] = IF k = Len(ws) + 1 THEN v ELSE ws[k]
    BY <2>1, <2>2, AppendFacts
  <2>6. \A k \in DOMAIN u : u[k] = v \/ (k \in DOMAIN ws /\ u[k] = ws[k])
    BY <2>5
  <2>7. \A k \in DOMAIN ws : k \in DOMAIN u /\ u[k] = ws[k]
    BY <2>5
  <2>8. \E k \in DOMAIN u : u[k] = v
    <3>1. Len(ws) + 1 \in DOMAIN u /\ u[Len(ws) + 1] = v
      BY <2>5
    <3>2. QED
      BY <3>1
  <2>9. InWindows(u) = InWindows(ws) \cup {j}
    BY <2>4, <2>6, <2>7, <2>8 DEF InWindows
  <2>10. \A k \in DOMAIN u : Packed(file, u[k], header)
    BY <2>3, <2>6
  <2>11. QED
    BY <2>9, <2>10 DEF u
<1>2. CASE ~new
  <2> DEFINE l == Last(ws)
             v == Append(l, j)
             n == Len(ws)
  <2>1. ws # <<>> /\ ~Overflows(file, l, file[j], header)
    BY <1>2
  <2>2. u = Append(Front(ws), v)
    BY <1>2 DEF Joined
  <2>3. v \in Full(D) => l \in Full(D) /\ l = ws[n] /\ n \in DOMAIN ws
    BY <2>1, LastFacts
  <2>3a. <<j>> \in Full(D)
    BY EmptySeq DEF Full
  <2>4. l \in Full(D) /\ l = ws[n] /\ n \in Nat \ {0} /\ DOMAIN ws = 1..n
    BY <2>1, <2>3a, LastFacts
  <2> HIDE DEF l
  <2>5. l \in Seq(D) /\ v \in Full(D) /\ ToSet(v) = ToSet(l) \cup {j}
    BY <2>4, AppendFacts DEF Full
  <2>6. n \in DOMAIN ws /\ Packed(file, l, header)
    BY <2>4
  <2>7. \A h \in ToSet(l) : h < j
    BY <2>4, <2>6 DEF InWindows
  <2>8. Packed(file, v, header)
    <3>1. l \in Seq(Nat)
      BY <1>0, <2>5, SeqDef
    <3>2. Rises(v)
      BY <1>0, <2>6, <2>7, <3>1, RisesOn DEF Packed
    <3>3. header + Len(TextOf(file, l)) + Len(Span(file[j])) <= ChunkTokens
      <4>1. TextOf(file, l) \in Seq(Nat) /\ Span(file[j]) \in Seq(Nat)
        BY <2>5, TextFacts, SourceFacts
      <4>2. Len(TextOf(file, l)) \in Nat /\ Len(Span(file[j])) \in Nat /\ ChunkTokens \in Nat
        BY <4>1, LenProperties, ChunkerAssumption
      <4>3. ~(header + Len(TextOf(file, l)) + Len(Span(file[j])) > ChunkTokens)
        BY <2>1 DEF Overflows
      <4>4. QED
        BY <4>2, <4>3
    <3>4. Len(TextOf(file, v)) = Len(TextOf(file, l)) + Len(Span(file[j]))
      BY <2>5, TextAppend
    <3>5. header + Len(TextOf(file, v)) <= ChunkTokens
      <4>1. Len(TextOf(file, l)) \in Nat /\ Len(Span(file[j])) \in Nat
        BY <2>5, TextFacts, SourceFacts, LenProperties
      <4>2. QED
        BY <3>3, <3>4, <4>1
    <3>6. QED
      BY <3>2, <3>5 DEF Packed
  <2> HIDE DEF v, u, n
  <2>9. DOMAIN u = DOMAIN ws /\ \A k \in DOMAIN ws : u[k] = IF k = n THEN v ELSE ws[k]
    BY <2>1, <2>2, <2>5, LastFacts DEF n
  <2>10. InWindows(u) = InWindows(ws) \cup {j}
    <3>1. ASSUME NEW h \in InWindows(u) PROVE h \in InWindows(ws) \cup {j}
      <4>1. PICK k \in DOMAIN u : h \in ToSet(u[k])
        BY <3>1 DEF InWindows
      <4>2. CASE k = n
        BY <2>4, <2>5, <2>6, <2>9, <4>1, <4>2 DEF InWindows
      <4>3. CASE k # n
        BY <2>9, <4>1, <4>3 DEF InWindows
      <4>4. QED
        BY <4>2, <4>3
    <3>2. ASSUME NEW h \in InWindows(ws) PROVE h \in InWindows(u)
      <4>1. PICK k \in DOMAIN ws : h \in ToSet(ws[k])
        BY <3>2 DEF InWindows
      <4>2. h \in ToSet(u[k])
        BY <2>4, <2>5, <2>9, <4>1
      <4>3. QED
        BY <2>9, <4>1, <4>2 DEF InWindows
    <3>3. j \in InWindows(u)
      BY <2>5, <2>6, <2>9 DEF InWindows
    <3>4. QED
      BY <3>1, <3>2, <3>3
  <2>11. \A k \in DOMAIN u : Packed(file, u[k], header)
    BY <2>8, <2>9
  <2>12. QED
    BY <2>10, <2>11 DEF u
<1>3. QED
  BY <1>1, <1>2

\* Every place is in a window, and every window is packed.
LEMMA WindowsFacts ==
  ASSUME NEW file, IsSource(file), NEW places \in Seq(DOMAIN file), Rises(places), NEW header \in Nat
  PROVE  /\ Windows(file, places, header) \in Seq(Full(DOMAIN file))
         /\ InWindows(Windows(file, places, header)) = ToSet(places)
         /\ \A k \in DOMAIN Windows(file, places, header) :
              Packed(file, Windows(file, places, header)[k], header)
<1> DEFINE D == DOMAIN file
           n == Len(places)
           Good(ws, i) == /\ InWindows(ws) = {places[k] : k \in 1..i}
                          /\ \A k \in DOMAIN ws : Packed(file, ws[k], header)
<1>1. n \in Nat /\ DOMAIN places = 1..n /\ \A k \in 1..n : places[k] \in D
  BY LenProperties, ElementOfSeq
<1>2. PICK f \in [0..n -> Seq(Full(D))] :
        /\ f[0] = <<>> /\ Windows(file, places, header) = f[n]
        /\ \A i \in 1..n : f[i] = Joined(file, f[i - 1], places[i], header)
  <2>1. \E f \in [0..Len(places) -> Seq(Full(DOMAIN file))] : Windowing(f, file, places, header)
    BY WindowsSteps
  <2>2. QED
    BY <2>1 DEF Windowing
<1> DEFINE T == {i \in Nat : i <= n => Good(f[i], i)}
<1>3. 0 \in T
  <2>1. InWindows(<<>>) = {} /\ DOMAIN <<>> = {} /\ {places[k] : k \in 1..0} = {}
    BY DEF InWindows
  <2>2. Good(f[0], 0)
    BY <1>2, <2>1
  <2> HIDE DEF Good
  <2>3. QED
    BY <2>2
<1>4. ASSUME NEW i \in Nat, i \in T PROVE i + 1 \in T
  <2>1. SUFFICES ASSUME i + 1 <= n PROVE Good(f[i + 1], i + 1)
    <3> HIDE DEF Good
    <3>1. QED
      OBVIOUS
  <2> DEFINE ws == f[i]
             j == places[i + 1]
             u == Joined(file, ws, j, header)
  <2>2. i + 1 \in 1..n /\ i \in 0..n /\ (i + 1) - 1 = i /\ Good(ws, i)
    <3> HIDE DEF Good, n
    <3>1. QED
      BY <1>1, <1>4, <2>1
  <2>3. ws \in Seq(Full(D)) /\ j \in D /\ f[i + 1] = u
    BY <1>1, <1>2, <2>2
  <2>4. \A h \in InWindows(ws) : h < j
    <3>1. ASSUME NEW k \in 1..i PROVE places[k] < j
      <4>1. k \in 1..n /\ k < i + 1
        BY <1>1, <2>2
      <4>2. QED
        BY <1>1, <2>2, <4>1 DEF Rises
    <3>2. QED
      BY <2>2, <3>1
  <2> HIDE DEF ws, j
  <2>5. InWindows(u) = InWindows(ws) \cup {j} /\ \A k \in DOMAIN u : Packed(file, u[k], header)
    <3>1. \A k \in DOMAIN ws : Packed(file, ws[k], header)
      BY <2>2
    <3>2. QED
      BY <2>3, <2>4, <3>1, JoinedFacts
  <2> HIDE DEF u
  <2>6. {places[k] : k \in 1..(i + 1)} = {places[k] : k \in 1..i} \cup {j}
    <3>1. 1..(i + 1) = 1..i \cup {i + 1}
      BY <2>2
    <3>2. QED
      BY <3>1 DEF j
  <2>7. QED
    BY <2>2, <2>3, <2>5, <2>6
<1> HIDE DEF T
<1>5. n \in T
  BY <1>1, <1>3, <1>4, Induct
<1>6. Good(f[n], n)
  <2> HIDE DEF Good
  <2>1. QED
    BY <1>1, <1>5 DEF T
<1>7. {places[k] : k \in 1..n} = ToSet(places) /\ n \in 0..n
  BY <1>1 DEF ToSet
<1>8. QED
  BY <1>2, <1>6, <1>7

-----------------------------------------------------------------------------
(* The chunks of a node.                                                   *)

\* A chunk.
Piece == [start : Nat, end : Nat, text : Seq(Nat), added : Nat]

\* A chunk has the text of a node, and its range those lines.
Covers(c, n) == ToSet(Span(n)) \subseteq ToSet(c.text) /\ c.start <= n.first /\ n.last <= c.end

\* A chunk has a line, and but for what is added is too large only for a single node.
Sized(file, c) ==
  /\ c.start <= c.end
  /\ TokenCount(c) > ChunkTokens + c.added => Alone(file, c)

\* The chunk of some statements of a node.
LEMMA ChunkFacts ==
  ASSUME NEW file, IsSource(file), NEW places \in Full(DOMAIN file), Rises(places),
         NEW i, \A h \in ToSet(places) : file[h].up = i, NEW header \in Seq(Nat), NEW added \in Nat
  PROVE  /\ Chunk(file, places, header, added) \in Piece
         /\ \A h \in ToSet(places) : Covers(Chunk(file, places, header, added), file[h])
         /\ Packed(file, places, Len(header)) => Sized(file, Chunk(file, places, header, added))
<1> DEFINE D == DOMAIN file
           n == Len(places)
           a == places[1]
           b == places[n]
           text == header \o TextOf(file, places)
           c == Chunk(file, places, header, added)
<1>1. /\ places \in Seq(D) /\ n \in Nat \ {0} /\ DOMAIN places = 1..n
      /\ 1 \in 1..n /\ n \in 1..n /\ \A k \in 1..n : places[k] \in D
  BY LenProperties, ElementOfSeq, EmptySeq DEF Full
<1>2. Head(places) = a /\ Last(places) = b
  <2>1. Head(places) = a
    BY <1>1, HeadTailProperties DEF Full
  <2>2. QED
    BY <2>1 DEF Last
<1>3. c = [start |-> file[a].first, end |-> file[b].last, text |-> text, added |-> added]
  BY <1>2 DEF Chunk
<1>4. a \in D /\ b \in D /\ a \in ToSet(places) /\ b \in ToSet(places)
  BY <1>1 DEF ToSet
<1>5. /\ TextOf(file, places) \in Seq(Nat)
      /\ ToSet(TextOf(file, places)) = UNION {ToSet(Span(file[h])) : h \in ToSet(places)}
  BY <1>1, TextFacts
<1>6. /\ text \in Seq(Nat) /\ ToSet(text) = ToSet(header) \cup ToSet(TextOf(file, places))
      /\ Len(text) = Len(header) + Len(TextOf(file, places))
  BY <1>5, ConcatFacts, ConcatProperties
<1> HIDE DEF a, b, text, c
<1>7. /\ c \in Piece /\ c.start = file[a].first /\ c.end = file[b].last
      /\ c.text = text /\ c.added = added
  <2>1. file[a].first \in Nat /\ file[b].last \in Nat
    BY <1>4, SourceFacts
  <2>2. QED
    BY <1>3, <1>6, <2>1 DEF Piece
<1>8. ASSUME NEW h \in ToSet(places) PROVE Covers(c, file[h])
  <2>1. PICK k \in 1..n : places[k] = h
    BY <1>1 DEF ToSet
  <2>2. /\ h \in D /\ h \in Nat /\ a \in Nat /\ b \in Nat
        /\ file[h].first \in Nat /\ file[h].last \in Nat
        /\ file[a].first \in Nat /\ file[b].last \in Nat /\ Len(file) \in Nat /\ D = 1..Len(file)
    BY <1>1, <1>4, <2>1, SourceFacts
  <2>3. file[a].up = i /\ file[b].up = i /\ file[h].up = i
    BY <1>4
  <2>4. file[a].first <= file[h].first
    <3>1. CASE k = 1
      BY <2>1, <2>2, <3>1 DEF a
    <3>2. CASE k # 1
      <4>1. a < h
        <5>1. 1 < k
          BY <1>1, <3>2
        <5>2. QED
          BY <1>1, <2>1, <5>1 DEF Rises, a
      <4>2. h \in (a + 1)..Len(file)
        BY <2>2, <4>1
      <4>3. QED
        BY <1>4, <2>3, <4>2 DEF IsSource
    <3>3. QED
      BY <3>1, <3>2
  <2>5. file[h].last <= file[b].last
    <3>1. CASE k = n
      BY <2>1, <2>2, <3>1 DEF b
    <3>2. CASE k # n
      <4>1. h < b
        <5>1. k < n
          <6> HIDE DEF n, D
          <6>1. QED
            BY <1>1, <3>2
        <5>2. QED
          BY <1>1, <2>1, <5>1 DEF Rises, b
      <4>2. b \in (h + 1)..Len(file)
        BY <1>4, <2>2, <4>1
      <4>3. QED
        BY <2>2, <2>3, <4>2 DEF IsSource
    <3>3. QED
      BY <3>1, <3>2
  <2>6. ToSet(Span(file[h])) \subseteq ToSet(c.text)
    BY <1>5, <1>6, <1>7
  <2>7. QED
    BY <1>7, <2>4, <2>5, <2>6 DEF Covers
<1>9. ASSUME Packed(file, places, Len(header)), TokenCount(c) > ChunkTokens + c.added
      PROVE  Alone(file, c)
  <2>1. ~(Len(header) + Len(TextOf(file, places)) <= ChunkTokens)
    <3>1. Len(header) \in Nat /\ Len(TextOf(file, places)) \in Nat /\ ChunkTokens \in Nat
      BY <1>5, LenProperties, ChunkerAssumption
    <3>2. Len(text) = Len(header) + Len(TextOf(file, places)) /\ TokenCount(c) = Len(text) + added
      BY <1>6, <1>7 DEF TokenCount
    <3>3. Len(text) + added > ChunkTokens + added
      BY <1>7, <1>9, <3>2
    <3>4. QED
      BY <3>1, <3>2, <3>3
  <2>2. n = 1
    BY <1>1, <1>9, <2>1 DEF Packed
  <2>3. a = b
    BY <2>2 DEF a, b
  <2>4. file[a] \in ToSet(file)
    BY <1>4 DEF ToSet
  <2>5. QED
    BY <1>7, <2>3, <2>4 DEF Alone
<1>10. c.start <= c.end
  <2>1. file[a].first \in Nat /\ file[a].last \in Nat /\ file[b].last \in Nat /\ file[a].first <= file[a].last
    BY <1>4, SourceFacts
  <2>2. file[a].last <= c.end
    BY <1>4, <1>8 DEF Covers
  <2>3. QED
    BY <1>7, <2>1, <2>2
<1>11. QED
  BY <1>7, <1>8, <1>9, <1>10 DEF c, Sized

\* The chunks of some statements of a node, window by window.
WindowChunks(file, places, header, adds) ==
  [k \in DOMAIN Windows(file, places, Len(header)) |->
     Chunk(file, Windows(file, places, Len(header))[k], header, adds[k])]

\* What is added to windows are numbers of tokens.
LEMMA AddsFacts ==
  ASSUME NEW D, NEW ws \in Seq(Full(D)), NEW k \in DOMAIN ws
  PROVE  ContinuationAdds(ws)[k] \in Nat /\ ModuleAdds(ws)[k] \in Nat
<1>1. ws[k] \in Full(D)
  BY LenProperties, ElementOfSeq
<1>2. PICK n \in Nat \ {0} : n = Len(ws[k])
  BY <1>1, EmptySeq, LenProperties DEF Full
<1>3. Newline \in Nat /\ Continued \in Nat
  BY ChunkerAssumption
<1>4. Newline * n \in Nat /\ Newline * (n - 1) \in Nat
  BY <1>3
<1>5. ContinuationAdds(ws)[k] = Newline * n + (IF k > 1 THEN Continued ELSE 0)
  BY <1>2 DEF ContinuationAdds
<1>6. ModuleAdds(ws)[k] = Newline * (n - 1)
  BY <1>2 DEF ModuleAdds
<1>7. QED
  BY <1>3, <1>4, <1>5, <1>6

\* Each of the statements is covered by a chunk, and the chunks are of a right size.
LEMMA WindowChunksFacts ==
  ASSUME NEW file, IsSource(file), NEW places \in Seq(DOMAIN file), Rises(places),
         NEW i, \A h \in ToSet(places) : file[h].up = i, NEW header \in Seq(Nat),
         NEW adds, \A k \in DOMAIN Windows(file, places, Len(header)) : adds[k] \in Nat
  PROVE  LET cs == WindowChunks(file, places, header, adds)
         IN  /\ cs \in Seq(Piece)
             /\ \A c \in ToSet(cs) : Sized(file, c)
             /\ \A h \in ToSet(places) : \E c \in ToSet(cs) : Covers(c, file[h])
<1> DEFINE cs == WindowChunks(file, places, header, adds)
           D == DOMAIN file
           ws == Windows(file, places, Len(header))
<1>1. Len(header) \in Nat
  BY LenProperties
<1>2. ws \in Seq(Full(D)) /\ InWindows(ws) = ToSet(places) /\ \A k \in DOMAIN ws : Packed(file, ws[k], Len(header))
  BY <1>1, WindowsFacts
<1>a. \A k \in DOMAIN ws : adds[k] \in Nat
  OBVIOUS
<1> HIDE DEF ws
<1>3. DOMAIN ws = 1..Len(ws) /\ Len(ws) \in Nat /\ \A k \in DOMAIN ws : ws[k] \in Full(D)
  BY <1>2, LenProperties, ElementOfSeq
<1>4. ASSUME NEW k \in DOMAIN ws
      PROVE  LET c == Chunk(file, ws[k], header, adds[k])
             IN  c \in Piece /\ Sized(file, c) /\ \A h \in ToSet(ws[k]) : Covers(c, file[h])
  <2>1. Rises(ws[k]) /\ ws[k] \in Full(D) /\ Packed(file, ws[k], Len(header))
    BY <1>2, <1>3 DEF Packed
  <2>2. \A h \in ToSet(ws[k]) : file[h].up = i
    BY <1>2 DEF InWindows
  <2>3. PICK w \in Full(DOMAIN file), added \in Nat : w = ws[k] /\ added = adds[k]
    BY <1>a, <2>1
  <2>4. QED
    BY <2>1, <2>2, <2>3, ChunkFacts
<1>5. cs = [k \in DOMAIN ws |-> Chunk(file, ws[k], header, adds[k])]
  BY DEF ws, WindowChunks
<1> HIDE DEF cs
<1>6. cs \in Seq(Piece)
  <2>1. cs \in [1..Len(ws) -> Piece]
    BY <1>3, <1>4, <1>5
  <2>2. QED
    BY <1>3, <2>1, SeqDef
<1>7. ToSet(cs) = {Chunk(file, ws[k], header, adds[k]) : k \in DOMAIN ws}
  BY <1>5 DEF ToSet
<1>8. ASSUME NEW h \in ToSet(places) PROVE \E c \in ToSet(cs) : Covers(c, file[h])
  <2>1. PICK k \in DOMAIN ws : h \in ToSet(ws[k])
    BY <1>2 DEF InWindows
  <2>2. QED
    BY <1>4, <1>7, <2>1
<1>9. QED
  BY <1>4, <1>6, <1>7, <1>8 DEF cs

\* The chunks of a definition: of all of it, or of its statements.
LEMMA ChunkDefinitionFacts ==
  ASSUME NEW file, IsSource(file), NEW i \in DOMAIN file
  PROVE  /\ ChunkDefinition(file, i) \in Seq(Piece)
         /\ \A c \in ToSet(ChunkDefinition(file, i)) : Sized(file, c)
         /\ \/ \E c \in ToSet(ChunkDefinition(file, i)) : Covers(c, file[i])
            \/ \A j \in DOMAIN file : file[j].up = i =>
                 \E c \in ToSet(ChunkDefinition(file, i)) : Covers(c, file[j])
<1> DEFINE whole == Len(Span(file[i])) <= ChunkTokens \/ Statements(file, i) = <<>>
           cs == ChunkDefinition(file, i)
<1>1. CASE whole
  <2> DEFINE w == <<i>>
             c == Chunk(file, w, <<>>, 0)
  <2>1. /\ w \in Full(DOMAIN file) /\ Rises(w) /\ ToSet(w) = {i} /\ Len(w) = 1
        /\ <<>> \in Seq(Nat) /\ Len(<<>>) = 0
    <3>1. w \in Seq(DOMAIN file) /\ DOMAIN w = {1} /\ w[1] = i /\ Len(w) = 1
      OBVIOUS
    <3>2. w \in Full(DOMAIN file)
      BY <3>1, EmptySeq DEF Full
    <3>3. Rises(w)
      BY <3>1 DEF Rises
    <3>4. ToSet(w) = {i}
      BY <3>1 DEF ToSet
    <3>5. QED
      BY <3>1, <3>2, <3>3, <3>4, EmptySeq
  <2>2. Packed(file, w, 0)
    <3>1. ~(Len(w) > 1)
      BY <2>1
    <3>2. QED
      BY <2>1, <3>1 DEF Packed
  <2>3. cs = <<c>>
    BY <1>1 DEF ChunkDefinition
  <2> HIDE DEF w
  <2>4. c \in Piece /\ Covers(c, file[i]) /\ Sized(file, c)
    <3>1. \A h \in ToSet(w) : file[h].up = file[i].up
      BY <2>1
    <3>2. /\ c \in Piece /\ \A h \in ToSet(w) : Covers(c, file[h])
          /\ Packed(file, w, Len(<<>>)) => Sized(file, c)
      BY <2>1, <3>1, ChunkFacts
    <3>3. QED
      BY <2>1, <2>2, <3>2
  <2> HIDE DEF c, cs
  <2>5. cs \in Seq(Piece) /\ ToSet(cs) = {c}
    <3>1. <<c>> \in Seq(Piece) /\ DOMAIN <<c>> = {1} /\ <<c>>[1] = c
      BY <2>4
    <3>2. QED
      BY <2>3, <3>1 DEF ToSet
  <2>6. QED
    BY <2>4, <2>5 DEF cs
<1>2. CASE ~whole
  <2> DEFINE places == Statements(file, i)
             header == Header(file[i])
             adds == ContinuationAdds(Windows(file, places, Len(header)))
  <2>1. cs = WindowChunks(file, places, header, adds)
    BY <1>2 DEF ChunkDefinition, WindowChunks
  <2>2. /\ places \in Seq(DOMAIN file) /\ Rises(places)
        /\ ToSet(places) = {j \in DOMAIN file : file[j].up = i} /\ header \in Seq(Nat)
    BY StatementsFacts, SourceFacts
  <2>a. \A k \in DOMAIN Windows(file, places, Len(header)) : adds[k] \in Nat
    <3> HIDE DEF places, header
    <3>1. Len(header) \in Nat
      BY <2>2, LenProperties
    <3>2. Windows(file, places, Len(header)) \in Seq(Full(DOMAIN file))
      BY <2>2, <3>1, WindowsFacts
    <3>3. QED
      BY <3>2, AddsFacts
  <2> HIDE DEF places, header, cs, whole, adds
  <2>3. \A h \in ToSet(places) : file[h].up = i
    BY <2>2
  <2>4. /\ cs \in Seq(Piece)
        /\ \A c \in ToSet(cs) : Sized(file, c)
        /\ \A h \in ToSet(places) : \E c \in ToSet(cs) : Covers(c, file[h])
    <3>1. places \in Seq(DOMAIN file) /\ Rises(places) /\ header \in Seq(Nat)
      BY <2>2
    <3>2. QED
      BY <2>1, <2>3, <2>a, <3>1, WindowChunksFacts
  <2>5. QED
    BY <2>2, <2>4 DEF cs
<1>3. QED
  BY <1>1, <1>2

\* The chunks of a run of statements at the top.
LEMMA FlushFacts ==
  ASSUME NEW file, IsSource(file), NEW places \in Seq(DOMAIN file), Rises(places),
         \A h \in ToSet(places) : file[h].up = 0
  PROVE  /\ FlushModuleLevel(file, places) \in Seq(Piece)
         /\ \A c \in ToSet(FlushModuleLevel(file, places)) : Sized(file, c)
         /\ \A h \in ToSet(places) : \E c \in ToSet(FlushModuleLevel(file, places)) : Covers(c, file[h])
<1> DEFINE cs == FlushModuleLevel(file, places)
           header == <<>>
           adds == ModuleAdds(Windows(file, places, 0))
<1>1. header \in Seq(Nat) /\ Len(header) = 0
  BY EmptySeq
<1>2. cs = WindowChunks(file, places, header, adds)
  BY <1>1 DEF FlushModuleLevel, WindowChunks
<1>3. \A k \in DOMAIN Windows(file, places, Len(header)) : adds[k] \in Nat
  <2>1. Windows(file, places, 0) \in Seq(Full(DOMAIN file))
    BY WindowsFacts
  <2>2. QED
    BY <1>1, <2>1, AddsFacts
<1> HIDE DEF cs, header, adds
<1>4. QED
  BY <1>1, <1>2, <1>3, WindowChunksFacts DEF cs

\* The chunks of a definition when g has those of the ones in it.
Nested(file, g, i) ==
  ChunkDefinition(file, i)
    \o IF file[i].kind = "class"
       THEN FlattenSeq([k \in DOMAIN Inner(file, i) |-> g[Inner(file, i)[k]]]) ELSE <<>>

\* Are all chunks of a sequence of a right size?
AllSized(file, cs) == \A c \in ToSet(cs) : Sized(file, c)

\* Typed and sized, when those of the definitions in it are.
LEMMA NestedFacts ==
  ASSUME NEW file, IsSource(file), NEW i \in DOMAIN file,
         NEW g, \A j \in DOMAIN file : j > i => g[j] \in Seq(Piece)
  PROVE  /\ Nested(file, g, i) \in Seq(Piece)
         /\ ToSet(ChunkDefinition(file, i)) \subseteq ToSet(Nested(file, g, i))
         /\ (\A j \in DOMAIN file : j > i => AllSized(file, g[j])) => AllSized(file, Nested(file, g, i))
<1> DEFINE inner == Inner(file, i)
           own == ChunkDefinition(file, i)
           ss == [k \in DOMAIN inner |-> g[inner[k]]]
           rest == IF file[i].kind = "class" THEN FlattenSeq(ss) ELSE <<>>
<1>1. own \in Seq(Piece) /\ AllSized(file, own)
  BY ChunkDefinitionFacts DEF AllSized
<1>2. inner \in Seq(DOMAIN file) /\ ToSet(inner) \subseteq {j \in DOMAIN file : file[j].up = i}
  BY StatementsFacts
<1>3. Nested(file, g, i) = own \o rest
  BY DEF Nested
<1> HIDE DEF inner, own
<1>4. DOMAIN inner = 1..Len(inner) /\ Len(inner) \in Nat
  BY <1>2, LenProperties
<1>5. \A k \in DOMAIN inner : inner[k] \in DOMAIN file /\ inner[k] > i
  <2>1. SUFFICES ASSUME NEW k \in DOMAIN inner PROVE inner[k] \in DOMAIN file /\ inner[k] > i
    OBVIOUS
  <2>2. inner[k] \in DOMAIN file /\ file[inner[k]].up = i
    BY <1>2 DEF ToSet
  <2>3. file[inner[k]].up < inner[k] /\ inner[k] \in Nat /\ i \in Nat
    BY <2>2, SourceFacts
  <2>4. QED
    BY <2>2, <2>3
<1>6. ss \in Seq(Seq(Piece)) /\ DOMAIN ss = DOMAIN inner
  <2>1. ss \in [1..Len(inner) -> Seq(Piece)]
    BY <1>4, <1>5
  <2>2. QED
    BY <1>4, <2>1, SeqDef
<1>7. /\ FlattenSeq(ss) \in Seq(Piece)
      /\ ToSet(FlattenSeq(ss)) = UNION {ToSet(ss[k]) : k \in DOMAIN ss}
  <2> HIDE DEF ss
  <2>1. QED
    BY <1>6, FlattenFacts
<1>8. rest \in Seq(Piece) /\ \A c \in ToSet(rest) : \E k \in DOMAIN inner : c \in ToSet(g[inner[k]])
  <2>1. CASE file[i].kind = "class"
    <3>1. \A c \in ToSet(FlattenSeq(ss)) : \E k \in DOMAIN inner : c \in ToSet(g[inner[k]])
      BY <1>6, <1>7
    <3>2. rest = FlattenSeq(ss)
      BY <2>1
    <3> HIDE DEF rest
    <3>3. QED
      BY <1>7, <3>1, <3>2
  <2>2. CASE ~(file[i].kind = "class")
    <3>1. rest = <<>> /\ ToSet(<<>>) = {} /\ <<>> \in Seq(Piece)
      BY <2>2, EmptySeq DEF ToSet
    <3> HIDE DEF rest
    <3>2. QED
      BY <3>1
  <2>3. QED
    BY <2>1, <2>2
<1> HIDE DEF rest
<1>9. /\ Nested(file, g, i) \in Seq(Piece)
      /\ ToSet(Nested(file, g, i)) = ToSet(own) \cup ToSet(rest)
  BY <1>1, <1>3, <1>8, ConcatFacts
<1>10. ASSUME \A j \in DOMAIN file : j > i => AllSized(file, g[j])
       PROVE  AllSized(file, Nested(file, g, i))
  BY <1>1, <1>5, <1>8, <1>9, <1>10 DEF AllSized
<1>11. QED
  BY <1>9, <1>10 DEF own

\* It takes only those.
LEMMA NestedAlike ==
  ASSUME NEW file, IsSource(file), NEW i \in DOMAIN file,
         NEW g, NEW h, \A j \in DOMAIN file : j > i => g[j] = h[j]
  PROVE  Nested(file, g, i) = Nested(file, h, i)
<1> DEFINE inner == Inner(file, i)
           u == [k \in DOMAIN inner |-> g[inner[k]]]
           v == [k \in DOMAIN inner |-> h[inner[k]]]
<1>1. inner \in Seq(DOMAIN file) /\ ToSet(inner) \subseteq {j \in DOMAIN file : file[j].up = i}
  BY StatementsFacts
<1>2. /\ Nested(file, g, i) =
           ChunkDefinition(file, i) \o IF file[i].kind = "class" THEN FlattenSeq(u) ELSE <<>>
      /\ Nested(file, h, i) =
           ChunkDefinition(file, i) \o IF file[i].kind = "class" THEN FlattenSeq(v) ELSE <<>>
  BY DEF Nested
<1> HIDE DEF inner
<1>3. ASSUME NEW k \in DOMAIN inner PROVE g[inner[k]] = h[inner[k]]
  <2>1. inner[k] \in DOMAIN file /\ file[inner[k]].up = i
    BY <1>1 DEF ToSet
  <2>2. file[inner[k]].up < inner[k] /\ inner[k] \in Nat /\ i \in Nat
    BY <2>1, SourceFacts
  <2>3. QED
    BY <2>1, <2>2
<1>4. /\ u = [k \in DOMAIN inner |-> u[k]] /\ v = [k \in DOMAIN inner |-> v[k]]
      /\ \A k \in DOMAIN inner : u[k] = v[k]
  BY <1>3
<1> HIDE DEF u, v
<1>5. u = v
  BY <1>4
<1>6. QED
  BY <1>2, <1>5

\* From the last definition up, the chunks of all are defined.
LEMMA DefinitionChunksIs ==
  ASSUME NEW file, IsSource(file)
  PROVE  DefinitionChunks(file) = [i \in DOMAIN file |-> Nested(file, DefinitionChunks(file), i)]
<1> DEFINE n == Len(file)
           F == DefinitionChunks(file)
           Fits0(g, m) == \A i \in 1..n : i > n - m => g[i] = Nested(file, g, i)
           T == {m \in Nat : m <= n => \E g \in [1..n -> Seq(Piece)] : Fits0(g, m)}
<1>1. n \in Nat /\ DOMAIN file = 1..n
  BY SourceFacts
<1>2. 0 \in T
  <2> DEFINE g == [i \in 1..n |-> <<>>]
  <2>1. g \in [1..n -> Seq(Piece)]
    BY EmptySeq
  <2>2. \A i \in 1..n : ~(i > n - 0)
    BY <1>1
  <2>3. Fits0(g, 0)
    BY <2>2
  <2> HIDE DEF g, Fits0
  <2>4. QED
    BY <2>1, <2>3
<1>3. ASSUME NEW m \in Nat, m \in T PROVE m + 1 \in T
  <2>1. SUFFICES ASSUME m + 1 <= n PROVE \E g \in [1..n -> Seq(Piece)] : Fits0(g, m + 1)
    <3> HIDE DEF Fits0, n
    <3>1. QED
      OBVIOUS
  <2>2. PICK g \in [1..n -> Seq(Piece)] : Fits0(g, m)
    <3> HIDE DEF Fits0
    <3>1. m <= n
      BY <1>1, <2>1
    <3>2. QED
      BY <1>3, <3>1
  <2> DEFINE p == n - m
             x == Nested(file, g, p)
             h == [g EXCEPT ![p] = x]
  <2>3. p \in 1..n /\ p \in DOMAIN file /\ p \in Nat /\ \A i \in 1..n : i > n - (m + 1) <=> i >= p
    <3> HIDE DEF n
    <3>1. QED
      BY <1>1, <2>1
  <2>4. \A i \in 1..n : i > p => g[i] = Nested(file, g, i)
    BY <2>2
  <2> HIDE DEF p, Fits0
  <2>5. x \in Seq(Piece)
    BY <1>1, <2>2, <2>3, NestedFacts
  <2> HIDE DEF x
  <2>6. h \in [1..n -> Seq(Piece)] /\ h[p] = x /\ \A i \in 1..n : i # p => h[i] = g[i]
    BY <2>2, <2>3, <2>5
  <2> HIDE DEF h
  <2>7. ASSUME NEW i \in 1..n, i >= p PROVE h[i] = Nested(file, h, i)
    <3>1. i \in DOMAIN file /\ \A j \in DOMAIN file : j > i => h[j] = g[j]
      <4> HIDE DEF n
      <4>1. QED
        BY <1>1, <2>3, <2>6, <2>7
    <3>2. Nested(file, h, i) = Nested(file, g, i)
      BY <3>1, NestedAlike
    <3>3. CASE i = p
      BY <2>6, <3>2, <3>3 DEF x
    <3>4. CASE i # p
      <4>1. i > p
        BY <2>3, <2>7, <3>4
      <4>2. QED
        BY <2>4, <2>6, <3>2, <3>4, <4>1
    <3>5. QED
      BY <3>3, <3>4
  <2>8. Fits0(h, m + 1)
    BY <2>3, <2>7 DEF Fits0
  <2>9. QED
    BY <2>6, <2>8
<1> HIDE DEF T
<1>4. n \in T
  BY <1>1, <1>2, <1>3, Induct
<1>5. PICK g \in [1..n -> Seq(Piece)] : Fits0(g, n)
  <2> HIDE DEF Fits0
  <2>1. QED
    BY <1>1, <1>4 DEF T
<1>6. \A i \in 1..n : g[i] = Nested(file, g, i)
  <2>1. \A i \in 1..n : i > n - n
    BY <1>1
  <2>2. QED
    BY <1>5, <2>1
<1>7. g = [i \in DOMAIN file |-> Nested(file, g, i)]
  <2>1. g = [i \in 1..n |-> g[i]]
    BY <1>5
  <2>2. QED
    BY <1>1, <1>6, <2>1
<1> DEFINE E == CHOOSE f : f = [i \in DOMAIN file |-> Nested(file, f, i)]
<1>8. F = E
  BY DEF DefinitionChunks, Nested
<1>9. E = [i \in DOMAIN file |-> Nested(file, E, i)]
  BY <1>7
<1>10. QED
  BY <1>8, <1>9

\* The chunks of a definition have its own, and are of a right size.
LEMMA DefinitionChunksFacts ==
  ASSUME NEW file, IsSource(file), NEW j \in DOMAIN file
  PROVE  /\ DefinitionChunks(file)[j] \in Seq(Piece)
         /\ AllSized(file, DefinitionChunks(file)[j])
         /\ ToSet(ChunkDefinition(file, j)) \subseteq ToSet(DefinitionChunks(file)[j])
<1> DEFINE n == Len(file)
           F == DefinitionChunks(file)
           T == {m \in Nat : \A i \in 1..n : i > n - m => F[i] \in Seq(Piece) /\ AllSized(file, F[i])}
<1>1. n \in Nat /\ DOMAIN file = 1..n
  BY SourceFacts
<1>2. \A i \in 1..n : F[i] = Nested(file, F, i)
  <2>1. F = [i \in DOMAIN file |-> Nested(file, F, i)]
    BY DefinitionChunksIs
  <2> HIDE DEF F
  <2>2. QED
    BY <1>1, <2>1
<1> HIDE DEF F, n
<1>3. 0 \in T
  <2>1. \A i \in 1..n : ~(i > n - 0)
    BY <1>1
  <2>2. QED
    BY <2>1
<1>4. ASSUME NEW m \in Nat, m \in T PROVE m + 1 \in T
  <2>1. SUFFICES ASSUME NEW i \in 1..n, i > n - (m + 1)
                 PROVE  F[i] \in Seq(Piece) /\ AllSized(file, F[i])
    OBVIOUS
  <2>2. i \in DOMAIN file /\ \A k \in DOMAIN file : k > i => k \in 1..n /\ k > n - m
    BY <1>1, <2>1
  <2>3. \A k \in DOMAIN file : k > i => F[k] \in Seq(Piece) /\ AllSized(file, F[k])
    BY <1>4, <2>2
  <2>4. QED
    BY <1>2, <2>2, <2>3, NestedFacts
<1>5. n \in T
  <2> HIDE DEF T
  <2>1. QED
    BY <1>1, <1>3, <1>4, Induct
<1>6. \A i \in 1..n : F[i] \in Seq(Piece) /\ AllSized(file, F[i])
  <2>1. \A i \in 1..n : i > n - n
    BY <1>1
  <2>2. QED
    BY <1>5, <2>1
<1>7. ToSet(ChunkDefinition(file, j)) \subseteq ToSet(F[j])
  <2>1. \A k \in DOMAIN file : k > j => F[k] \in Seq(Piece)
    BY <1>1, <1>6
  <2>2. QED
    BY <1>1, <1>2, <2>1, NestedFacts
<1>8. QED
  BY <1>1, <1>6, <1>7 DEF F

-----------------------------------------------------------------------------
(* The chunks of a file.                                                   *)

\* What is made of the statements at the top, one by one: the chunks so far, and
\* the run of other nodes since the last definition.
Walk(file, places) ==
  LET add(acc, j) ==
        IF IsDefinition(file[j])
        THEN [chunks |-> acc.chunks \o FlushModuleLevel(file, acc.pending) \o DefinitionChunks(file)[j],
              pending |-> <<>>]
        ELSE [acc EXCEPT !.pending = Append(@, j)]
  IN  FoldLeft(add, [chunks |-> <<>>, pending |-> <<>>], places)

\* The chunks of a file: those of the walk, and of the run that is left.
LEMMA ChunksAreWalked ==
  ASSUME NEW file
  PROVE  ChunksOf(file) = Walk(file, Statements(file, 0)).chunks
                            \o FlushModuleLevel(file, Walk(file, Statements(file, 0)).pending)
BY DEF ChunksOf, Walk

\* One more statement.
Walked(file, acc, j) ==
  IF IsDefinition(file[j])
  THEN [chunks |-> acc.chunks \o FlushModuleLevel(file, acc.pending) \o DefinitionChunks(file)[j],
        pending |-> <<>>]
  ELSE [acc EXCEPT !.pending = Append(@, j)]

\* Of any places the chunks are chunks.
LEMMA FlushIsPieces ==
  ASSUME NEW file, IsSource(file), NEW places \in Seq(DOMAIN file)
  PROVE  FlushModuleLevel(file, places) \in Seq(Piece)
<1> DEFINE D == DOMAIN file
           ws == Windows(file, places, 0)
           cs == FlushModuleLevel(file, places)
<1>1. ws \in Seq(Full(D))
  <2>1. PICK f \in [0..Len(places) -> Seq(Full(D))] : Windowing(f, file, places, 0)
    BY WindowsSteps
  <2>2. Len(places) \in 0..Len(places)
    BY LenProperties
  <2>3. QED
    BY <2>1, <2>2 DEF Windowing
<1>2. cs = [k \in DOMAIN ws |-> Chunk(file, ws[k], <<>>, ModuleAdds(ws)[k])]
  BY DEF FlushModuleLevel
<1> HIDE DEF cs, ws
<1>3. DOMAIN ws = 1..Len(ws) /\ Len(ws) \in Nat /\ \A k \in 1..Len(ws) : ws[k] \in Full(D)
  BY <1>1, LenProperties, ElementOfSeq
<1>a. \A k \in DOMAIN ws : ModuleAdds(ws)[k] \in Nat
  BY <1>1, AddsFacts
<1>4. ASSUME NEW w \in Full(D), NEW added \in Nat PROVE Chunk(file, w, <<>>, added) \in Piece
  <2>1. w \in Seq(D) /\ Len(w) \in Nat \ {0} /\ 1 \in 1..Len(w) /\ Len(w) \in 1..Len(w)
    BY LenProperties, EmptySeq DEF Full
  <2>2. Head(w) = w[1] /\ Last(w) = w[Len(w)]
    <3>1. Head(w) = w[1]
      BY <2>1, HeadTailProperties DEF Full
    <3>2. QED
      BY <3>1 DEF Last
  <2>3. Head(w) \in D /\ Last(w) \in D
    BY <2>1, <2>2, ElementOfSeq
  <2>4. file[Head(w)].first \in Nat /\ file[Last(w)].last \in Nat
    BY <2>3, SourceFacts
  <2>5. <<>> \o TextOf(file, w) \in Seq(Nat)
    BY <2>1, TextFacts, EmptySeq, ConcatProperties
  <2>6. QED
    BY <2>4, <2>5 DEF Chunk, Piece
<1>5. cs \in [1..Len(ws) -> Piece]
  <2>1. \A k \in 1..Len(ws) : cs[k] \in Piece
    BY <1>2, <1>3, <1>4, <1>a
  <2>2. QED
    BY <1>2, <1>3, <2>1
<1>6. cs \in Seq(Piece)
  BY <1>3, <1>5, SeqDef
<1>7. QED
  BY <1>6 DEF cs

\* The chunks so far and the run of other nodes.
Walks(file) == [chunks : Seq(Piece), pending : Seq(DOMAIN file)]

\* One more statement leaves chunks and a run,
LEMMA WalkedIsWalk ==
  ASSUME NEW file, IsSource(file), NEW acc \in Walks(file), NEW j \in DOMAIN file
  PROVE  Walked(file, acc, j) \in Walks(file)
<1>1. acc.chunks \in Seq(Piece) /\ acc.pending \in Seq(DOMAIN file)
  BY DEF Walks
<1>2. CASE IsDefinition(file[j])
  <2> DEFINE cs == acc.chunks \o FlushModuleLevel(file, acc.pending) \o DefinitionChunks(file)[j]
  <2>1. cs \in Seq(Piece)
    <3>1. FlushModuleLevel(file, acc.pending) \in Seq(Piece) /\ DefinitionChunks(file)[j] \in Seq(Piece)
      BY <1>1, FlushIsPieces, DefinitionChunksFacts
    <3>2. QED
      BY <1>1, <3>1, ConcatProperties
  <2>2. <<>> \in Seq(DOMAIN file) /\ Walked(file, acc, j) = [chunks |-> cs, pending |-> <<>>]
    BY <1>2, EmptySeq DEF Walked
  <2> HIDE DEF cs
  <2>3. QED
    BY <2>1, <2>2 DEF Walks
<1>3. CASE ~IsDefinition(file[j])
  <2>1. Append(acc.pending, j) \in Seq(DOMAIN file)
    BY <1>1, AppendFacts
  <2>2. Walked(file, acc, j) = [acc EXCEPT !.pending = Append(acc.pending, j)]
    BY <1>3 DEF Walked
  <2>3. QED
    BY <2>1, <2>2 DEF Walks
<1>4. QED
  BY <1>2, <1>3

\* The walk goes place by place.
Walking(f, file, places) ==
  /\ f[0] = [chunks |-> <<>>, pending |-> <<>>] /\ Walk(file, places) = f[Len(places)]
  /\ \A i \in 1..Len(places) : f[i] = Walked(file, f[i - 1], places[i])

\* and the fold of ChunksOf takes these steps.
LEMMA WalkSteps ==
  ASSUME NEW file, IsSource(file), NEW places \in Seq(DOMAIN file)
  PROVE  \E f \in [0..Len(places) -> Walks(file)] : Walking(f, file, places)
<1> DEFINE n == Len(places)
           V == Walks(file)
           step == [p \in V \X (1..n) |-> Walked(file, p[1], places[p[2]])]
           F == CHOOSE h : h = [s \in SUBSET DOMAIN places |->
                    IF s = {} THEN [chunks |-> <<>>, pending |-> <<>>] ELSE (IF IsDefinition(file[places[Max(s)]])
                      THEN [chunks |-> h[s \ {Max(s)}].chunks \o FlushModuleLevel(file, h[s \ {Max(s)}].pending) \o DefinitionChunks(file)[places[Max(s)]],
                            pending |-> <<>>]
                      ELSE [h[s \ {Max(s)}] EXCEPT !.pending = Append(@, places[Max(s)])])]
<1>1. n \in Nat /\ DOMAIN places = 1..n /\ \A i \in 1..n : places[i] \in DOMAIN file
  BY LenProperties, ElementOfSeq
<1>2. Walk(file, places) = F[DOMAIN places]
  BY DEF Walk, FoldLeft, MapThenFoldSet
<1>3. [chunks |-> <<>>, pending |-> <<>>] \in V /\ \A x \in V : \A i \in 1..n : Walked(file, x, places[i]) \in V
  <2>1. [chunks |-> <<>>, pending |-> <<>>] \in V
    BY EmptySeq DEF Walks
  <2>2. QED
    BY <1>1, <2>1, WalkedIsWalk
<1>4. PICK g \in [SUBSET (1..n) -> V] : FoldsUp(g, [chunks |-> <<>>, pending |-> <<>>], n, step)
  <2>1. step \in [V \X (1..n) -> V]
    <3> HIDE DEF V, n
    <3>1. QED
      BY <1>3
  <2> HIDE DEF step, n, V
  <2>2. QED
    BY <1>1, <1>3, <2>1, Folding
<1>5. g = [s \in SUBSET DOMAIN places |->
             IF s = {} THEN [chunks |-> <<>>, pending |-> <<>>] ELSE (IF IsDefinition(file[places[Max(s)]])
                      THEN [chunks |-> g[s \ {Max(s)}].chunks \o FlushModuleLevel(file, g[s \ {Max(s)}].pending) \o DefinitionChunks(file)[places[Max(s)]],
                            pending |-> <<>>]
                      ELSE [g[s \ {Max(s)}] EXCEPT !.pending = Append(@, places[Max(s)])])]
  <2>1. ASSUME NEW s \in SUBSET (1..n), s # {}
        PROVE  g[s] = Walked(file, g[s \ {Max(s)}], places[Max(s)])
    <3>1. Max(s) \in 1..n /\ s \ {Max(s)} \in SUBSET (1..n)
      <4>1. s \in SUBSET 0..n
        OBVIOUS
      <4>2. Max(s) \in s
        BY <1>1, <2>1, <4>1, MaxFacts
      <4>3. QED
        BY <4>2
    <3>2. g[s \ {Max(s)}] \in V /\ g[s] = step[<<g[s \ {Max(s)}], Max(s)>>]
      BY <1>4, <2>1, <3>1 DEF FoldsUp
    <3> HIDE DEF V
    <3>3. QED
      BY <3>1, <3>2
  <2>2. g[{}] = [chunks |-> <<>>, pending |-> <<>>] /\ {} \in SUBSET (1..n)
    BY <1>4 DEF FoldsUp
  <2>3. g = [s \in SUBSET (1..n) |-> g[s]]
    BY <1>4
  <2> HIDE DEF n, V
  <2>4. QED
    BY <1>1, <2>1, <2>2, <2>3 DEF Walked
<1>6. F = [s \in SUBSET DOMAIN places |->
             IF s = {} THEN [chunks |-> <<>>, pending |-> <<>>] ELSE (IF IsDefinition(file[places[Max(s)]])
                      THEN [chunks |-> F[s \ {Max(s)}].chunks \o FlushModuleLevel(file, F[s \ {Max(s)}].pending) \o DefinitionChunks(file)[places[Max(s)]],
                            pending |-> <<>>]
                      ELSE [F[s \ {Max(s)}] EXCEPT !.pending = Append(@, places[Max(s)])])]
  BY <1>5
<1> HIDE DEF F
<1> DEFINE f == [i \in 0..n |-> F[1..i]]
<1>7. f[0] = [chunks |-> <<>>, pending |-> <<>>]
  <2>1. 1..0 = {} /\ {} \in SUBSET DOMAIN places /\ F[{}] = [chunks |-> <<>>, pending |-> <<>>]
    BY <1>6
  <2>2. QED
    BY <1>1, <2>1
<1>8. ASSUME NEW i \in 1..n PROVE f[i] = Walked(file, f[i - 1], places[i])
  <2> DEFINE J == 1..i
  <2>1. J \in SUBSET (1..n) /\ J # {} /\ Max(J) = i /\ J \ {i} = 1..(i - 1)
    BY <1>1, FoldSteps
  <2> HIDE DEF J
  <2>2. F[J] = Walked(file, F[1..(i - 1)], places[i])
    BY <1>1, <1>6, <2>1 DEF Walked
  <2>3. f[i] = F[J] /\ f[i - 1] = F[1..(i - 1)]
    BY <1>1 DEF J
  <2> HIDE DEF f
  <2>4. QED
    BY <2>2, <2>3
<1> DEFINE T == {i \in Nat : i <= n => f[i] \in V}
<1>9. \A i \in 0..n : f[i] \in V
  <2> HIDE DEF V
  <2>1. 0 \in T
    BY <1>3, <1>7
  <2> HIDE DEF f
  <2>2. ASSUME NEW i \in Nat, i \in T PROVE i + 1 \in T
    <3>1. SUFFICES ASSUME i + 1 <= n PROVE f[i + 1] \in V
      OBVIOUS
    <3>2. i + 1 \in 1..n /\ (i + 1) - 1 = i /\ f[i] \in V
      BY <1>1, <2>2, <3>1
    <3>3. QED
      BY <1>3, <1>8, <3>2
  <2> HIDE DEF T
  <2>3. \A i \in Nat : i \in T
    BY <2>1, <2>2, Induct
  <2>4. QED
    BY <2>3 DEF T
<1>10. f \in [0..n -> V] /\ Walk(file, places) = f[n]
  <2>1. f = [i \in 0..n |-> f[i]]
    OBVIOUS
  <2>2. f[n] = F[DOMAIN places]
    BY <1>1
  <2> HIDE DEF f
  <2>3. QED
    BY <1>2, <1>9, <2>1, <2>2
<1> HIDE DEF f
<1>11. Walking(f, file, places)
  BY <1>7, <1>8, <1>10 DEF Walking
<1>12. QED
  BY <1>10, <1>11

\* Some chunk covers a node or, of a definition, some chunk each of its statements.
Reached(file, cs, j) ==
  \/ \E c \in ToSet(cs) : Covers(c, file[j])
  \/ /\ IsDefinition(file[j])
     /\ \A h \in DOMAIN file : file[h].up = j => \E c \in ToSet(cs) : Covers(c, file[h])

\* One more statement: it is pending or in the chunks, as all before it are.
LEMMA WalkedFacts ==
  ASSUME NEW file, IsSource(file), NEW acc \in Walks(file), NEW j \in DOMAIN file, file[j].up = 0,
         Rises(acc.pending), \A h \in ToSet(acc.pending) : file[h].up = 0 /\ h < j,
         AllSized(file, acc.chunks)
  PROVE  /\ Rises(Walked(file, acc, j).pending)
         /\ ToSet(Walked(file, acc, j).pending) \subseteq ToSet(acc.pending) \cup {j}
         /\ AllSized(file, Walked(file, acc, j).chunks)
         /\ ToSet(acc.chunks) \subseteq ToSet(Walked(file, acc, j).chunks)
         /\ \A h \in ToSet(acc.pending) \cup {j} :
              h \in ToSet(Walked(file, acc, j).pending) \/ Reached(file, Walked(file, acc, j).chunks, h)
<1> DEFINE u == Walked(file, acc, j)
           flushed == FlushModuleLevel(file, acc.pending)
           own == DefinitionChunks(file)[j]
<1>1. acc.chunks \in Seq(Piece) /\ acc.pending \in Seq(DOMAIN file)
  BY DEF Walks
<1>2. CASE IsDefinition(file[j])
  <2>1. u.chunks = acc.chunks \o flushed \o own /\ u.pending = <<>>
    BY <1>2 DEF Walked
  <2>2. /\ flushed \in Seq(Piece) /\ AllSized(file, flushed)
        /\ \A h \in ToSet(acc.pending) : \E c \in ToSet(flushed) : Covers(c, file[h])
    BY <1>1, FlushFacts DEF AllSized
  <2>3. /\ own \in Seq(Piece) /\ AllSized(file, own)
        /\ ToSet(ChunkDefinition(file, j)) \subseteq ToSet(own)
    BY DefinitionChunksFacts
  <2> HIDE DEF u, flushed, own
  <2>4. ToSet(u.chunks) = ToSet(acc.chunks) \cup ToSet(flushed) \cup ToSet(own)
    <3> DEFINE both == acc.chunks \o flushed
    <3>1. u.chunks = both \o own
      BY <2>1
    <3>2. both \in Seq(Piece) /\ ToSet(both) = ToSet(acc.chunks) \cup ToSet(flushed)
      BY <1>1, <2>2, ConcatFacts
    <3> HIDE DEF both
    <3>3. ToSet(both \o own) = ToSet(both) \cup ToSet(own)
      BY <2>3, <3>2, ConcatFacts
    <3>4. QED
      BY <3>1, <3>2, <3>3
  <2>5. Rises(u.pending) /\ ToSet(u.pending) = {}
    <3>1. DOMAIN <<>> = {}
      OBVIOUS
    <3>2. \A a \in DOMAIN <<>> : FALSE
      BY <3>1
    <3>2a. Rises(<<>>)
      BY <3>2 DEF Rises
    <3>2b. ToSet(<<>>) = {}
      BY <3>2 DEF ToSet
    <3>3. QED
      BY <2>1, <3>2a, <3>2b
  <2>6. AllSized(file, u.chunks)
    BY <2>2, <2>3, <2>4 DEF AllSized
  <2>7. \A h \in ToSet(acc.pending) : Reached(file, u.chunks, h)
    BY <2>2, <2>4 DEF Reached
  <2>8. Reached(file, u.chunks, j)
    <3>1. \/ \E c \in ToSet(ChunkDefinition(file, j)) : Covers(c, file[j])
          \/ \A h \in DOMAIN file : file[h].up = j =>
               \E c \in ToSet(ChunkDefinition(file, j)) : Covers(c, file[h])
      BY ChunkDefinitionFacts
    <3>2. ToSet(ChunkDefinition(file, j)) \subseteq ToSet(u.chunks)
      BY <2>3, <2>4
    <3>3. QED
      BY <1>2, <3>1, <3>2 DEF Reached
  <2>9. QED
    BY <2>4, <2>5, <2>6, <2>7, <2>8 DEF u
<1>3. CASE ~IsDefinition(file[j])
  <2>1. u = [acc EXCEPT !.pending = Append(acc.pending, j)]
    BY <1>3 DEF Walked
  <2>2. u.chunks = acc.chunks /\ u.pending = Append(acc.pending, j)
    BY <2>1 DEF Walks
  <2> HIDE DEF u
  <2>3. ToSet(u.pending) = ToSet(acc.pending) \cup {j}
    BY <1>1, <2>2, AppendFacts
  <2>4. Rises(u.pending)
    <3>1. acc.pending \in Seq(Nat) /\ j \in Nat
      <4>1. DOMAIN file \subseteq Nat
        BY SourceFacts
      <4>2. QED
        BY <1>1, <4>1, SeqDef
    <3>2. QED
      BY <2>2, <3>1, RisesOn
  <2>5. QED
    BY <2>2, <2>3, <2>4 DEF u
<1>4. QED
  BY <1>2, <1>3

\* The chunks of a file: of a right size, and each statement at the top is reached.
LEMMA ChunksFacts ==
  ASSUME NEW file, IsSource(file)
  PROVE  /\ ChunksOf(file) \in Seq(Piece)
         /\ AllSized(file, ChunksOf(file))
         /\ \A j \in DOMAIN file : file[j].up = 0 => Reached(file, ChunksOf(file), j)
<1> DEFINE D == DOMAIN file
           places == Statements(file, 0)
           n == Len(places)
           Good(acc, i) ==
             /\ Rises(acc.pending) /\ ToSet(acc.pending) \subseteq {places[k] : k \in 1..i}
             /\ AllSized(file, acc.chunks)
             /\ \A k \in 1..i : places[k] \in ToSet(acc.pending) \/ Reached(file, acc.chunks, places[k])
<1>1. /\ places \in Seq(D) /\ Rises(places) /\ ToSet(places) = {j \in D : file[j].up = 0}
  BY StatementsFacts
<1>2. ChunksOf(file) = Walk(file, places).chunks \o FlushModuleLevel(file, Walk(file, places).pending)
  BY ChunksAreWalked
<1> HIDE DEF places
<1>3. n \in Nat /\ DOMAIN places = 1..n /\ \A k \in 1..n : places[k] \in D /\ file[places[k]].up = 0
  BY <1>1, LenProperties, ElementOfSeq DEF ToSet
<1>4. PICK f \in [0..n -> Walks(file)] :
        /\ f[0] = [chunks |-> <<>>, pending |-> <<>>] /\ Walk(file, places) = f[n]
        /\ \A i \in 1..n : f[i] = Walked(file, f[i - 1], places[i])
  <2>1. \E f \in [0..Len(places) -> Walks(file)] : Walking(f, file, places)
    BY <1>1, WalkSteps
  <2>2. QED
    BY <2>1 DEF Walking
<1> DEFINE T == {i \in Nat : i <= n => Good(f[i], i)}
<1>5. 0 \in T
  <2>1. ToSet(<<>>) = {} /\ Rises(<<>>) /\ AllSized(file, <<>>)
    <3>1. DOMAIN <<>> = {}
      OBVIOUS
    <3>2. QED
      BY <3>1 DEF ToSet, Rises, AllSized
  <2>2. f[0].chunks = <<>> /\ f[0].pending = <<>> /\ 1..0 = {}
    BY <1>4
  <2>3. Good(f[0], 0)
    BY <2>1, <2>2
  <2> HIDE DEF Good
  <2>4. QED
    BY <2>3
<1>6. ASSUME NEW i \in Nat, i \in T PROVE i + 1 \in T
  <2>1. SUFFICES ASSUME i + 1 <= n PROVE Good(f[i + 1], i + 1)
    <3> HIDE DEF Good
    <3>1. QED
      OBVIOUS
  <2> DEFINE acc == f[i]
             j == places[i + 1]
             u == Walked(file, acc, j)
  <2>2. i + 1 \in 1..n /\ i \in 0..n /\ (i + 1) - 1 = i /\ Good(acc, i)
    <3> HIDE DEF Good, n
    <3>1. QED
      BY <1>3, <1>6, <2>1
  <2>3. acc \in Walks(file) /\ j \in D /\ file[j].up = 0 /\ f[i + 1] = u
    BY <1>3, <1>4, <2>2
  <2>4. \A h \in ToSet(acc.pending) : file[h].up = 0 /\ h < j
    <3>1. ASSUME NEW k \in 1..i PROVE places[k] < j /\ file[places[k]].up = 0
      <4>1. k \in 1..n /\ k < i + 1
        BY <1>3, <2>2
      <4>2. QED
        BY <1>1, <1>3, <2>2, <4>1 DEF Rises
    <3>2. ToSet(acc.pending) \subseteq {places[k] : k \in 1..i}
      BY <2>2
    <3>3. QED
      BY <3>1, <3>2
  <2> HIDE DEF acc, j
  <2>5. /\ Rises(acc.pending) /\ ToSet(acc.pending) \subseteq {places[k] : k \in 1..i}
        /\ AllSized(file, acc.chunks)
        /\ \A k \in 1..i : places[k] \in ToSet(acc.pending) \/ Reached(file, acc.chunks, places[k])
    BY <2>2
  <2>6. /\ Rises(u.pending)
        /\ ToSet(u.pending) \subseteq ToSet(acc.pending) \cup {j}
        /\ AllSized(file, u.chunks)
        /\ ToSet(acc.chunks) \subseteq ToSet(u.chunks)
        /\ \A h \in ToSet(acc.pending) \cup {j} : h \in ToSet(u.pending) \/ Reached(file, u.chunks, h)
    BY <2>3, <2>4, <2>5, WalkedFacts
  <2> HIDE DEF u
  <2>7. 1..(i + 1) = 1..i \cup {i + 1} /\ j = places[i + 1]
    BY <2>2 DEF j
  <2>8. ToSet(u.pending) \subseteq {places[k] : k \in 1..(i + 1)}
    BY <2>5, <2>6, <2>7
  <2>9. \A h \in DOMAIN file : Reached(file, acc.chunks, h) => Reached(file, u.chunks, h)
    BY <2>6 DEF Reached
  <2>10. ASSUME NEW k \in 1..(i + 1)
         PROVE  places[k] \in ToSet(u.pending) \/ Reached(file, u.chunks, places[k])
    <3>1. CASE k = i + 1
      BY <2>6, <2>7, <3>1
    <3>2. CASE k \in 1..i
      <4>1. places[k] \in DOMAIN file
        <5>1. k \in 1..n
          <6> HIDE DEF n
          <6>1. QED
            BY <1>3, <2>2, <3>2
        <5>2. QED
          BY <1>3, <5>1
      <4>2. QED
        BY <2>5, <2>6, <2>9, <3>2, <4>1
    <3>3. QED
      BY <2>7, <3>1, <3>2
  <2>11. Good(u, i + 1)
    BY <2>6, <2>8, <2>10
  <2> HIDE DEF Good
  <2>12. QED
    BY <2>3, <2>11
<1> HIDE DEF T
<1>7. n \in T
  BY <1>3, <1>5, <1>6, Induct
<1>8. Good(f[n], n)
  <2> HIDE DEF Good, n
  <2>1. QED
    BY <1>3, <1>7 DEF T
<1> DEFINE acc == f[n]
           cs == ChunksOf(file)
           last == FlushModuleLevel(file, acc.pending)
<1>9. acc \in Walks(file) /\ cs = acc.chunks \o last
  <2>1. n \in 0..n
    BY <1>3
  <2>2. QED
    BY <1>2, <1>4, <2>1
<1>10. /\ Rises(acc.pending) /\ \A h \in ToSet(acc.pending) : file[h].up = 0
       /\ AllSized(file, acc.chunks)
       /\ \A k \in 1..n : places[k] \in ToSet(acc.pending) \/ Reached(file, acc.chunks, places[k])
  <2>1. /\ Rises(acc.pending) /\ ToSet(acc.pending) \subseteq {places[k] : k \in 1..n}
        /\ AllSized(file, acc.chunks)
        /\ \A k \in 1..n : places[k] \in ToSet(acc.pending) \/ Reached(file, acc.chunks, places[k])
    BY <1>8
  <2>2. QED
    BY <1>3, <2>1
<1> HIDE DEF acc, cs
<1>11. acc.chunks \in Seq(Piece) /\ acc.pending \in Seq(D)
  BY <1>9 DEF Walks
<1>12. /\ last \in Seq(Piece) /\ AllSized(file, last)
       /\ \A h \in ToSet(acc.pending) : \E c \in ToSet(last) : Covers(c, file[h])
  BY <1>10, <1>11, FlushFacts DEF AllSized
<1> HIDE DEF last
<1>13. cs \in Seq(Piece) /\ ToSet(cs) = ToSet(acc.chunks) \cup ToSet(last)
  BY <1>9, <1>11, <1>12, ConcatFacts
<1>14. AllSized(file, cs)
  BY <1>10, <1>12, <1>13 DEF AllSized
<1>15. ASSUME NEW j \in D, file[j].up = 0 PROVE Reached(file, cs, j)
  <2>1. PICK k \in 1..n : places[k] = j
    <3>1. j \in ToSet(places)
      BY <1>1, <1>15
    <3>2. QED
      BY <1>3, <3>1 DEF ToSet
  <2>2. CASE j \in ToSet(acc.pending)
    BY <1>12, <1>13, <2>2 DEF Reached
  <2>3. CASE Reached(file, acc.chunks, j)
    BY <1>13, <2>3 DEF Reached
  <2>4. QED
    BY <1>10, <2>1, <2>2, <2>3
<1>16. QED
  BY <1>13, <1>14, <1>15 DEF cs

\* A node is within the lines of another.
Inside(file, j, i) == file[i].first <= file[j].first /\ file[j].last <= file[i].last

\* Every node is at the top or within a statement of one that is.
LEMMA Above ==
  ASSUME NEW file, IsSource(file)
  PROVE  \A j \in DOMAIN file :
           \E t \in DOMAIN file :
             /\ file[t].up = 0 /\ Inside(file, j, t)
             /\ j = t \/ \E h \in DOMAIN file : file[h].up = t /\ Inside(file, j, h)
<1> DEFINE D == DOMAIN file
           Top0(j, t) == /\ file[t].up = 0 /\ Inside(file, j, t)
                         /\ j = t \/ \E h \in D : file[h].up = t /\ Inside(file, j, h)
           T == {m \in Nat : \A j \in D : j <= m => \E t \in D : Top0(j, t)}
<1>1. /\ D = 1..Len(file) /\ Len(file) \in Nat
      /\ \A j \in D : /\ j \in Nat /\ file[j].up \in Nat /\ file[j].up < j
                      /\ file[j].first \in Nat /\ file[j].last \in Nat
  BY SourceFacts
<1>2. 0 \in T
  <2>1. \A j \in D : ~(j <= 0)
    BY <1>1
  <2>2. QED
    BY <2>1
<1>3. ASSUME NEW m \in Nat, m \in T PROVE m + 1 \in T
  <2>1. SUFFICES ASSUME NEW j \in D, j <= m + 1 PROVE \E t \in D : Top0(j, t)
    <3> HIDE DEF Top0
    <3>1. QED
      OBVIOUS
  <2>2. Inside(file, j, j)
    BY <1>1 DEF Inside
  <2>3. CASE file[j].up = 0
    <3>1. Top0(j, j)
      BY <2>2, <2>3
    <3> HIDE DEF Top0
    <3>2. QED
      BY <3>1
  <2>4. CASE file[j].up # 0
    <3> DEFINE i == file[j].up
    <3>1. i \in D /\ i <= m
      <4>1. i \in Nat /\ i # 0 /\ i < j /\ j \in 1..Len(file)
        BY <1>1, <2>4
      <4> HIDE DEF i, D
      <4>2. QED
        BY <1>1, <2>1, <4>1
    <3>2. Inside(file, j, i)
      BY <2>4 DEF IsSource, Inside
    <3>3. PICK t \in D : Top0(i, t)
      <4> HIDE DEF Top0, i
      <4>1. QED
        BY <1>3, <3>1
    <3>4. \A h \in D : Inside(file, i, h) => Inside(file, j, h)
      <4>1. \A h \in D : file[h].first \in Nat /\ file[h].last \in Nat
        BY <1>1
      <4> HIDE DEF i, D
      <4>2. QED
        BY <2>1, <3>1, <3>2, <4>1 DEF Inside
    <3>5. file[t].up = 0 /\ Inside(file, i, t)
      BY <3>3
    <3>6. \E h \in D : file[h].up = t /\ Inside(file, j, h)
      <4>1. CASE i = t
        BY <2>2, <4>1
      <4>2. CASE i # t
        BY <3>3, <3>4, <4>2
      <4>3. QED
        BY <4>1, <4>2
    <3>7. Top0(j, t)
      BY <3>4, <3>5, <3>6
    <3> HIDE DEF Top0
    <3>8. QED
      BY <3>7
  <2>5. QED
    BY <2>3, <2>4
<1>4. Len(file) \in T
  <2> HIDE DEF T
  <2>1. QED
    BY <1>1, <1>2, <1>3, Induct
<1>5. \A j \in D : j <= Len(file)
  BY <1>1
<1>6. QED
  BY <1>4, <1>5

\* No code is lost in the chunks.
LEMMA ChunksLoseNothing == ASSUME NEW file, IsSource(file) PROVE NothingLost(file, ChunksOf(file))
<1> DEFINE cs == ChunksOf(file)
<1>1. /\ cs \in Seq(Piece) /\ AllSized(file, cs)
      /\ \A j \in DOMAIN file : file[j].up = 0 => Reached(file, cs, j)
  BY ChunksFacts
<1> HIDE DEF cs
<1>2. ASSUME NEW j \in DOMAIN file, file[j].kind = "stmt" PROVE \E c \in ToSet(cs) : Covers(c, file[j])
  <2>1. ASSUME NEW i \in DOMAIN file, Inside(file, j, i), NEW c \in ToSet(cs), Covers(c, file[i])
        PROVE  Covers(c, file[j])
    <3>1. /\ file[i].first \in Nat /\ file[i].last \in Nat
          /\ file[j].first \in Nat /\ file[j].last \in Nat /\ file[j].first <= file[j].last
          /\ ToSet(Span(file[i])) = file[i].first..file[i].last
          /\ ToSet(Span(file[j])) = file[j].first..file[j].last
      BY SourceFacts
    <3>2. file[i].first <= file[j].first /\ file[j].last <= file[i].last
      BY <2>1 DEF Inside
    <3>3. ToSet(Span(file[j])) \subseteq ToSet(Span(file[i]))
      BY <3>1, <3>2
    <3>4. c.start \in Nat /\ c.end \in Nat
      <4>1. c \in Piece
        BY <1>1, SeqIs
      <4>2. QED
        BY <4>1 DEF Piece
    <3>5. QED
      BY <2>1, <3>1, <3>2, <3>3, <3>4 DEF Covers
  <2>2. PICK t \in DOMAIN file :
          /\ file[t].up = 0 /\ Inside(file, j, t)
          /\ j = t \/ \E h \in DOMAIN file : file[h].up = t /\ Inside(file, j, h)
    BY Above
  <2>3. Reached(file, cs, t)
    BY <1>1, <2>2
  <2>4. CASE \E c \in ToSet(cs) : Covers(c, file[t])
    BY <2>1, <2>2, <2>4
  <2>5. CASE ~(\E c \in ToSet(cs) : Covers(c, file[t]))
    <3>1. /\ IsDefinition(file[t])
          /\ \A h \in DOMAIN file : file[h].up = t => \E c \in ToSet(cs) : Covers(c, file[h])
      BY <2>3, <2>5 DEF Reached
    <3>2. j # t
      BY <1>2, <3>1 DEF IsDefinition
    <3>3. QED
      BY <2>1, <2>2, <3>1, <3>2
  <2>6. QED
    BY <2>4, <2>5
<1>3. ASSUME NEW n \in ToSet(file), n.kind = "stmt"
      PROVE  \E c \in ToSet(cs) :
               ToSet(Span(n)) \subseteq ToSet(c.text) /\ c.start <= n.first /\ n.last <= c.end
  <2>1. PICK j \in DOMAIN file : file[j] = n
    BY DEF ToSet
  <2>2. QED
    BY <1>2, <1>3, <2>1 DEF Covers
<1>4. QED
  BY <1>1, <1>3 DEF NothingLost, AllSized, Sized, cs

-----------------------------------------------------------------------------
(* The searches.                                                           *)

\* The repository and what is indexed of it.
IndexOK ==
  /\ src \in Seq({file \in Seq(Node) : IsSource(file)})
  /\ DOMAIN chunks = DOMAIN src
  /\ \A f \in DOMAIN src : chunks[f] \in Seq(Piece) /\ \A c \in ToSet(chunks[f]) : c.start <= c.end

\* The results of the searches and of what is made of them.
SearchOK ==
  /\ found \in Seq(Res) /\ lists \in Seq(Seq(Res)) /\ fused \in Seq(Res) /\ results \in Seq(Res)

\* What is indexed loses nothing.
IndexedOK == pc # "index" => \A f \in DOMAIN src : NothingLost(src[f], chunks[f])

\* What is fused is the fusion of the lists.
FusedOK == pc = "rerank" => fused = ReciprocalRankFusion(lists)

\* The files of a repository.
LEMMA SourcesFacts ==
  ASSUME src \in Seq({file \in Seq(Node) : IsSource(file)})
  PROVE  /\ DOMAIN src = 1..Len(src) /\ Len(src) \in Nat
         /\ \A f \in DOMAIN src : f \in Nat /\ IsSource(src[f])
<1>1. DOMAIN src = 1..Len(src) /\ Len(src) \in Nat
  BY LenProperties
<1>2. \A f \in 1..Len(src) : src[f] \in {file \in Seq(Node) : IsSource(file)}
  BY <1>1, ElementOfSeq
<1>3. QED
  BY <1>1, <1>2

\* What is in an index is typed.
LEMMA IndexFacts ==
  ASSUME IndexOK
  PROVE  Code \subseteq Res /\ Docs \subseteq Res /\ Neighbours \subseteq Res
<1>1. /\ DOMAIN chunks = DOMAIN src /\ \A f \in DOMAIN src : f \in Nat /\ IsSource(src[f])
  BY SourcesFacts DEF IndexOK
<1>2. ASSUME NEW f \in Nat, NEW a \in Nat, NEW b \in Nat, NEW t \in Seq(Nat), a <= b
      PROVE  Result(f, a, b, t, 0) \in Res
  BY <1>2 DEF Result, Res
<1>3. ASSUME NEW f \in DOMAIN src, NEW c \in ToSet(chunks[f]) PROVE Result(f, c.start, c.end, c.text, 0) \in Res
  <2>1. c \in Piece /\ c.start <= c.end /\ f \in Nat
    BY <1>1, SeqIs DEF IndexOK
  <2>2. c.start \in Nat /\ c.end \in Nat /\ c.text \in Seq(Nat)
    BY <2>1 DEF Piece
  <2>3. QED
    BY <1>2, <2>1, <2>2
<1>4. ASSUME NEW f \in DOMAIN src, NEW n \in Definitions(f)
      PROVE  /\ Result(f, n.first, n.last, <<n.body>>, 0) \in Res
             /\ Result(f, n.first, n.last, <<n.first>>, 0) \in Res
  <2>1. PICK j \in DOMAIN src[f] : src[f][j] = n
    BY DEF Definitions, ToSet
  <2>2. n.first \in Nat /\ n.last \in Nat /\ n.body \in Nat /\ n.first <= n.last /\ f \in Nat
    BY <1>1, <2>1, SourceFacts
  <2>3. <<n.body>> \in Seq(Nat) /\ <<n.first>> \in Seq(Nat)
    BY <2>2
  <2>4. QED
    BY <1>2, <2>2, <2>3
<1>5. Result(NoFile, 0, 0, <<0>>, 0) \in Res
  <2>1. <<0>> \in Seq(Nat) /\ NoFile \in Nat /\ 0 \in Nat /\ 0 <= 0
    BY DEF NoFile
  <2>2. QED
    BY <2>1 DEF Result, Res
<1>6. Code \subseteq Res
  BY <1>1, <1>3 DEF Code
<1>7. ASSUME NEW r \in Docs PROVE r \in Res
  <2>1. PICK f \in DOMAIN src : r \in {Result(f, n.first, n.last, <<n.body>>, 0) : n \in Definitions(f)}
    BY DEF Docs
  <2>2. PICK n \in Definitions(f) : r = Result(f, n.first, n.last, <<n.body>>, 0)
    BY <2>1
  <2>3. QED
    BY <1>4, <2>2
<1>8. ASSUME NEW r \in Neighbours PROVE r \in Res
  <2>1. CASE r = Result(NoFile, 0, 0, <<0>>, 0)
    BY <1>5, <2>1
  <2>2. CASE r # Result(NoFile, 0, 0, <<0>>, 0)
    <3>1. PICK f \in DOMAIN src : r \in {Result(f, n.first, n.last, <<n.first>>, 0) : n \in Definitions(f)}
      BY <2>2 DEF Neighbours
    <3>2. PICK n \in Definitions(f) : r = Result(f, n.first, n.last, <<n.first>>, 0)
      BY <3>1
    <3>3. QED
      BY <1>4, <3>2
  <2>3. QED
    BY <2>1, <2>2
<1>9. QED
  BY <1>6, <1>7, <1>8

\* The rankings of what is in an index.
LEMMA RankingsFacts ==
  ASSUME NEW S \in SUBSET Res, NEW n \in Nat, NEW r \in Rankings(S, n)
  PROVE  r \in Seq(Res)
<1>1. PICK s \in UNION {[1..k -> S] : k \in 0..n} :
        r = [i \in DOMAIN s |-> [s[i] EXCEPT !.score = (n + 2 - i) * Scale]]
  BY DEF Rankings
<1>2. PICK k \in 0..n : s \in [1..k -> S]
  OBVIOUS
<1>3. ASSUME NEW i \in 1..k PROVE [s[i] EXCEPT !.score = (n + 2 - i) * Scale] \in Res
  <2> DEFINE x == (n + 2 - i) * Scale
  <2>1. n + 2 - i \in Nat
    OBVIOUS
  <2>2. x \in Nat
    BY <2>1, ScaleIsNat
  <2>3. s[i] \in Res
    BY <1>2
  <2> HIDE DEF x
  <2>4. [s[i] EXCEPT !.score = x] \in Res
    BY <2>2, <2>3 DEF Res
  <2>5. QED
    BY <2>4 DEF x
<1>4. r \in [1..k -> Res]
  BY <1>1, <1>2, <1>3
<1>5. QED
  BY <1>4, SeqDef

\* What the backends can find is typed.
LEMMA ListsFacts ==
  ASSUME IndexOK, NEW k \in Nat
  PROVE  /\ Bm25Lists(k) \subseteq Seq(Res)
         /\ VectorLists(k) \subseteq Seq(Res)
         /\ GraphLists(k) \subseteq Seq(Res)
<1>1. Code \subseteq Res /\ Docs \subseteq Res /\ Neighbours \subseteq Res
  BY IndexFacts
<1>2. 1 \in Nat /\ MaxHits \in Nat
  BY ContextAssumption
<1>3. ASSUME NEW l \in Bm25Lists(k) PROVE l \in Seq(Res)
  <2>1. PICK hits \in Rankings(Code, MaxHits), exact \in {{}, {MaxHits}} : l = Bm25Results(hits, exact, k)
    BY DEF Bm25Lists
  <2>2. hits \in Seq(Res)
    BY <1>1, <1>2, RankingsFacts
  <2>3. QED
    BY <2>1, <2>2, Bm25Facts
<1>4. ASSUME NEW l \in VectorLists(k) PROVE l \in Seq(Res)
  <2>1. PICK code \in Rankings(Code, 1), docs \in Rankings(Docs, 1) : l = VectorResults(code, docs, k)
    BY DEF VectorLists
  <2>2. code \in Seq(Res) /\ docs \in Seq(Res)
    BY <1>1, <1>2, RankingsFacts
  <2>3. QED
    BY <2>1, <2>2, VectorFacts
<1>5. ASSUME NEW l \in GraphLists(k) PROVE l \in Seq(Res)
  <2>1. PICK near \in Rankings(Neighbours, 1) : l = GraphResults(<<near, near>>, k)
    BY DEF GraphLists
  <2>2. near \in Seq(Res)
    BY <1>1, <1>2, RankingsFacts
  <2>3. <<near, near>> \in Seq(Seq(Res))
    BY <2>2
  <2>4. QED
    BY <2>1, <2>3, GraphFacts
<1>6. QED
  BY <1>3, <1>4, <1>5

\* The inductive invariant of the searches.
SearchInv == IndexOK /\ SearchOK /\ IndexedOK /\ FusedOK

\* It holds at first,
LEMMA SearchInit == ASSUME Init PROVE SearchInv
<1>1. src \in Seq({file \in Seq(Node) : IsSource(file)})
  BY ContextAssumption DEF Init
<1>2. <<>> \in Seq(Res) /\ <<>> \in Seq(Seq(Res)) /\ <<>> \in Seq(Piece)
  BY EmptySeq
<1>3. \A c \in ToSet(<<>>) : c.start <= c.end
  <2>1. ToSet(<<>>) = {}
    BY DEF ToSet
  <2>2. QED
    BY <2>1
<1>4. chunks = [f \in DOMAIN src |-> <<>>] /\ found = <<>> /\ lists = <<>> /\ fused = <<>> /\ results = <<>> /\ pc = "index"
  BY DEF Init
<1>5. IndexOK
  <2>1. DOMAIN chunks = DOMAIN src /\ \A f \in DOMAIN src : chunks[f] = <<>>
    BY <1>4
  <2>2. QED
    BY <1>1, <1>2, <1>3, <2>1 DEF IndexOK
<1>6. SearchOK
  BY <1>2, <1>4 DEF SearchOK
<1>7. QED
  BY <1>4, <1>5, <1>6 DEF SearchInv, IndexedOK, FusedOK

\* A step that only goes on keeps what was found.
LEMMA SearchKept ==
  ASSUME SearchInv, UNCHANGED <<src, chunks>>, pc # "index",
         found' \in Seq(Res), lists' \in Seq(Seq(Res)), fused' \in Seq(Res), results' \in Seq(Res),
         pc' # "rerank" \/ UNCHANGED <<lists, fused, pc>>
  PROVE  SearchInv'
<1>1. IndexOK' /\ IndexedOK'
  BY DEF SearchInv, IndexOK, IndexedOK, NothingLost
<1>2. SearchOK'
  BY DEF SearchOK
<1>3. FusedOK'
  <2>1. CASE pc' # "rerank"
    BY <2>1 DEF FusedOK
  <2>2. CASE UNCHANGED <<lists, fused, pc>>
    BY <2>2 DEF SearchInv, FusedOK
  <2>3. QED
    BY <2>1, <2>2
<1>4. QED
  BY <1>1, <1>2, <1>3 DEF SearchInv

\* and after every step.
LEMMA SearchStep == ASSUME SearchInv, [Next]_vars PROVE SearchInv'
<1> DEFINE OK == found \in Seq(Res) /\ lists \in Seq(Seq(Res)) /\ fused \in Seq(Res) /\ results \in Seq(Res)
<1>1. OK
  BY DEF SearchInv, SearchOK
<1>2. TopK \in Nat /\ MaxContext \in Nat /\ MaxRank \in Nat
  BY ContextAssumption, RetrievalAssumption
<1>3. CASE IndexFiles
  <2>1. /\ chunks' = [f \in DOMAIN src |-> ChunksOf(src[f])] /\ pc' = "search"
        /\ UNCHANGED <<src, found, lists, fused, results>>
    BY <1>3 DEF IndexFiles
  <2>2. src \in Seq({file \in Seq(Node) : IsSource(file)})
    BY DEF SearchInv, IndexOK
  <2>3. \A f \in DOMAIN src : IsSource(src[f])
    BY <2>2, SourcesFacts
  <2>4. DOMAIN chunks' = DOMAIN src /\ \A f \in DOMAIN src : chunks'[f] = ChunksOf(src[f])
    BY <2>1
  <2>5. \A f \in DOMAIN src : /\ chunks'[f] \in Seq(Piece)
                              /\ \A c \in ToSet(chunks'[f]) : c.start <= c.end
                              /\ NothingLost(src[f], chunks'[f])
    BY <2>3, <2>4, ChunksFacts, ChunksLoseNothing DEF AllSized, Sized
  <2>6. IndexOK' /\ IndexedOK'
    BY <2>1, <2>2, <2>4, <2>5 DEF IndexOK, IndexedOK
  <2>7. SearchOK' /\ FusedOK'
    BY <1>1, <2>1 DEF SearchOK, FusedOK
  <2>8. QED
    BY <2>6, <2>7 DEF SearchInv
<1>4. CASE SearchHybrid
  <2>1. IndexOK
    BY DEF SearchInv
  <2>2. lists' \in Seq(Seq(Res))
    <3>1. PICK a \in Bm25Lists(MaxRank), b \in VectorLists(MaxRank), c \in GraphLists(MaxRank) :
            lists' = <<a, b, c>>
      BY <1>4 DEF SearchHybrid
    <3>2. a \in Seq(Res) /\ b \in Seq(Res) /\ c \in Seq(Res)
      BY <1>2, <2>1, ListsFacts
    <3>3. QED
      BY <3>1, <3>2
  <2>3. pc = "search" /\ pc' = "fuse" /\ UNCHANGED <<src, chunks, found, fused, results>>
    BY <1>4 DEF SearchHybrid
  <2>4. QED
    BY <1>1, <2>2, <2>3, SearchKept
<1>5. CASE Fuse
  <2>1. /\ pc = "fuse" /\ pc' = "rerank" /\ fused' = ReciprocalRankFusion(lists)
        /\ UNCHANGED <<src, chunks, found, lists, results>>
    BY <1>5 DEF Fuse
  <2>2. fused' \in Seq(Res)
    BY <1>1, <2>1, FusionFacts
  <2>3. SearchOK'
    BY <1>1, <2>1, <2>2 DEF SearchOK
  <2>4. FusedOK'
    BY <2>1 DEF FusedOK
  <2>5. IndexOK' /\ IndexedOK'
    BY <2>1 DEF SearchInv, IndexOK, IndexedOK
  <2>6. QED
    BY <2>3, <2>4, <2>5 DEF SearchInv
<1>6. CASE Rerank
  <2>1. /\ pc = "rerank" /\ pc' = "search" /\ lists' = <<>> /\ fused' = <<>>
        /\ UNCHANGED <<src, chunks, results>>
    BY <1>6 DEF Rerank
  <2>2. PICK list \in {Top(fused, TopK), Reranked(fused, [i \in DOMAIN fused |-> i], TopK)} :
          found' = found \o list
    BY <1>6 DEF Rerank
  <2>3. list \in Seq(Res)
    <3>1. Top(fused, TopK) \in Seq(Res)
      BY <1>1, <1>2, TopFacts
    <3> DEFINE v == [i \in DOMAIN fused |-> i]
    <3>2. \A i \in DOMAIN fused : v[i] \in Nat
      BY <1>1, LenProperties
    <3> HIDE DEF v
    <3>3. Reranked(fused, v, TopK) \in Seq(Res)
      BY <1>1, <1>2, <3>2, RerankedFacts
    <3>4. QED
      BY <2>2, <3>1, <3>3 DEF v
  <2>4. found' \in Seq(Res)
    BY <1>1, <2>2, <2>3, ConcatProperties
  <2>5. <<>> \in Seq(Res) /\ <<>> \in Seq(Seq(Res))
    BY EmptySeq
  <2>6. QED
    BY <1>1, <2>1, <2>4, <2>5, SearchKept
<1>7. CASE SearchOne
  <2>1. pc = "search" /\ UNCHANGED <<src, chunks, lists, fused, results, pc>>
    BY <1>7 DEF SearchOne
  <2>2. PICK list \in Bm25Lists(TopK) \cup VectorLists(TopK) \cup GraphLists(TopK) : found' = found \o list
    BY <1>7 DEF SearchOne
  <2>3. IndexOK
    BY DEF SearchInv
  <2>4. list \in Seq(Res)
    BY <1>2, <2>2, <2>3, ListsFacts
  <2>5. found' \in Seq(Res)
    BY <1>1, <2>2, <2>4, ConcatProperties
  <2>6. QED
    BY <1>1, <2>1, <2>5, SearchKept
<1>8. CASE Merge
  <2>1. /\ pc = "search" /\ pc' = "assemble" /\ results' = Top(ByScore(BestOfKeys(found)), MaxContext)
        /\ found' = <<>> /\ UNCHANGED <<src, chunks, lists, fused>>
    BY <1>8 DEF Merge
  <2>2. results' \in Seq(Res)
    BY <1>1, <1>2, <2>1, BestOfKeysFacts, ByScoreFacts, TopFacts
  <2>3. found' \in Seq(Res)
    BY <2>1, EmptySeq
  <2>4. QED
    BY <1>1, <2>1, <2>2, <2>3, SearchKept
<1>9. CASE Assemble \/ DropExamples \/ DropPrior \/ Trim \/ Reassemble \/ Emit
  <2>1. /\ pc \in {"assemble", "build"} /\ pc' \in {"assemble", "build", "done"}
        /\ UNCHANGED <<src, chunks, found, lists, fused, results>>
    BY <1>9 DEF Assemble, DropExamples, DropPrior, Trim, Reassemble, Emit, TooLong, Built
  <2>2. QED
    BY <1>1, <2>1, SearchKept
<1>10. CASE UNCHANGED vars
  BY <1>10 DEF vars, SearchInv, IndexOK, SearchOK, IndexedOK, FusedOK
<1>11. QED
  BY <1>3, <1>4, <1>5, <1>6, <1>7, <1>8, <1>9, <1>10 DEF Next, Answered

\* So it holds always.
LEMMA Searching == Spec => []SearchInv
<1>1. Init => SearchInv
  BY SearchInit
<1>2. SearchInv /\ [Next]_vars => SearchInv'
  BY SearchStep
<1>3. QED
  BY <1>1, <1>2, PTL DEF Spec

\* Once a repository is indexed, the text of every statement of every file is in a chunk
\* whose range has its lines, and a chunk is larger than ChunkTokens, by more than the
\* newlines and the separator of a continuation, only when it is one node: PythonChunker
\* loses no code, whatever the sizes and the nesting (chunker.py:465-472, 499-528).
THEOREM ChunksLoseNothingCorrect == Spec => []NothingLostInChunks
<1>1. SearchInv => NothingLostInChunks
  BY DEF SearchInv, IndexedOK, NothingLostInChunks
<1>2. QED
  BY <1>1, Searching, PTL

\* Where every backend that found a result ranks it below another it also found, so does
\* reciprocal_rank_fusion: summing the contributions and breaking ties by the best rank
\* turns no such pair around (fusion.py:120-246).
THEOREM FusionCorrect == Spec => []FusionIsFair
<1>1. SearchInv => FusionIsFair
  <2>1. SUFFICES ASSUME SearchInv, pc = "rerank" PROVE FusionKeepsOrder(lists, fused)
    BY DEF FusionIsFair
  <2>2. lists \in Seq(Seq(Res)) /\ fused = ReciprocalRankFusion(lists)
    BY <2>1 DEF SearchInv, SearchOK, FusedOK
  <2>3. QED
    BY <2>2, FusionKeeps
<1>2. QED
  BY <1>1, Searching, PTL

-----------------------------------------------------------------------------
(* ContextAssembler.                                                       *)

\* The order of ByLines.
ByRange(r, s) == r.start < s.start \/ (r.start = s.start /\ r.end > s.end)

\* The places of a sequence in that order,
Lined(s) == {p \in (1..Len(s)) \X (1..Len(s)) :
               ByRange(s[p[1]], s[p[2]]) \/ (p[1] < p[2] /\ ~ByRange(s[p[2]], s[p[1]]))}

\* which puts each two of them in one.
LEMMA LinedOrders ==
  ASSUME NEW s \in Seq(Res)
  PROVE  Orders(Lined(s), Len(s))
<1> DEFINE n == Len(s)
           a(i) == s[i].start
           b(i) == s[i].end
           L == Lined(s)
<1>1. n \in Nat /\ \A i \in 1..n : s[i] \in Res
  BY LenProperties, ElementOfSeq
<1>2. \A i \in 1..n : a(i) \in Nat /\ b(i) \in Nat
  BY <1>1 DEF Res
<1>3. \A i, j \in 1..n : <<i, j>> \in L <=>
         \/ a(i) < a(j) \/ (a(i) = a(j) /\ b(i) > b(j))
         \/ i < j /\ ~(a(j) < a(i) \/ (a(j) = a(i) /\ b(j) > b(i)))
  BY DEF Lined, ByRange
<1> HIDE DEF a, b, L
<1>4. \A i \in 1..n : <<i, i>> \notin L
  BY <1>2, <1>3
<1>5. \A i, j \in 1..n : i # j => <<i, j>> \in L \/ <<j, i>> \in L
  BY <1>2, <1>3
<1>6. ASSUME NEW i \in 1..n, NEW j \in 1..n, NEW k \in 1..n, <<i, j>> \in L, <<j, k>> \in L
      PROVE  <<i, k>> \in L
  <2>1. a(i) \in Nat /\ a(j) \in Nat /\ a(k) \in Nat /\ b(i) \in Nat /\ b(j) \in Nat /\ b(k) \in Nat
    BY <1>2
  <2>2. \/ a(i) < a(j) \/ (a(i) = a(j) /\ b(i) > b(j))
        \/ i < j /\ ~(a(j) < a(i) \/ (a(j) = a(i) /\ b(j) > b(i)))
    BY <1>3, <1>6
  <2>3. \/ a(j) < a(k) \/ (a(j) = a(k) /\ b(j) > b(k))
        \/ j < k /\ ~(a(k) < a(j) \/ (a(k) = a(j) /\ b(k) > b(j)))
    BY <1>3, <1>6
  <2>4. \/ a(i) < a(k) \/ (a(i) = a(k) /\ b(i) > b(k))
        \/ i < k /\ ~(a(k) < a(i) \/ (a(k) = a(i) /\ b(k) > b(i)))
    BY <2>1, <2>2, <2>3
  <2>5. QED
    BY <1>3, <2>4
<1>7. QED
  BY <1>4, <1>5, <1>6 DEF Orders, L, n

\* Sorted by lines, a sequence keeps its elements.
LEMMA ByLinesFacts ==
  ASSUME NEW s \in Seq(Res)
  PROVE  ByLines(s) \in Seq(Res) /\ ToSet(ByLines(s)) = ToSet(s)
<1> DEFINE n == Len(s)
           L == Lined(s)
           t == ByLines(s)
           bef(j, i) == \/ s[j].start < s[i].start \/ (s[j].start = s[i].start /\ s[j].end > s[i].end)
                        \/ j < i /\ ~(s[i].start < s[j].start \/ (s[i].start = s[j].start /\ s[i].end > s[j].end))
<1>1. n \in Nat /\ DOMAIN s = 1..n /\ \A i \in 1..n : s[i] \in Res
  BY LenProperties, ElementOfSeq
<1>2. Orders(L, n)
  BY LinedOrders
<1>3. \A i \in 1..n : {j \in DOMAIN s : bef(j, i)} = {j \in 1..n : <<j, i>> \in L}
  BY <1>1 DEF Lined, ByRange
<1>4. t = [p \in 1..n |-> s[At(L, n, p)]]
  <2>1. t = [p \in DOMAIN s |-> s[CHOOSE i \in DOMAIN s :
              1 + Cardinality({j \in DOMAIN s : bef(j, i)}) = p]]
    BY DEF ByLines, Sorted
  <2> HIDE DEF bef
  <2>2. \A i \in 1..n : 1 + Cardinality({j \in DOMAIN s : bef(j, i)}) = Place(L, n, i)
    BY <1>3 DEF Place
  <2>3. \A p \in 1..n :
          (CHOOSE i \in DOMAIN s : 1 + Cardinality({j \in DOMAIN s : bef(j, i)}) = p) = At(L, n, p)
    BY <1>1, <2>2 DEF At
  <2>4. QED
    BY <1>1, <2>1, <2>3
<1> HIDE DEF t, L, n
<1>5. /\ \A p \in 1..n : At(L, n, p) \in 1..n
      /\ \A i \in 1..n : \E p \in 1..n : At(L, n, p) = i
  BY <1>1, <1>2, SortFacts
<1>6. \A p \in 1..n : t[p] = s[At(L, n, p)] /\ t[p] \in Res
  BY <1>1, <1>4, <1>5
<1>7. t \in Seq(Res) /\ DOMAIN t = 1..n
  <2>1. t \in [1..n -> Res]
    BY <1>4, <1>6
  <2>2. QED
    BY <1>1, <2>1, SeqDef
<1>8. ToSet(t) = ToSet(s)
  BY <1>1, <1>5, <1>6, <1>7 DEF ToSet
<1>9. QED
  BY <1>7, <1>8 DEF t

\* What is selected so far, and its tokens.
Selectable(S) == [tokens : Nat, kept : Seq(S)]

\* A result is selected if it still fits.
Selecting(acc, r, limit) ==
  IF acc.tokens + 1 + Len(r.text) > limit THEN acc
  ELSE [tokens |-> acc.tokens + 1 + Len(r.text), kept |-> Append(acc.kept, r)]

\* What is selected stays typed,
LEMMA SelectingIs ==
  ASSUME NEW S \in SUBSET Res, NEW acc \in Selectable(S), NEW r \in S, NEW limit
  PROVE  Selecting(acc, r, limit) \in Selectable(S)
<1>1. acc.tokens \in Nat /\ acc.kept \in Seq(S)
  BY DEF Selectable
<1>2. Len(r.text) \in Nat
  <2>1. r.text \in Seq(Nat)
    BY DEF Res
  <2>2. QED
    BY <2>1, LenProperties
<1>3. acc.tokens + 1 + Len(r.text) \in Nat /\ Append(acc.kept, r) \in Seq(S)
  BY <1>1, <1>2, AppendFacts
<1>4. QED
  BY <1>3 DEF Selecting, Selectable

\* The fold of Selected.
SelectedOf(ranking, limit) ==
  LET add(acc, r) == IF acc.tokens + 1 + Len(r.text) > limit THEN acc
                     ELSE [tokens |-> acc.tokens + 1 + Len(r.text), kept |-> Append(acc.kept, r)]
  IN  FoldLeft(add, [tokens |-> 0, kept |-> <<>>], ranking)

\* Results are selected one by one.
SelectingGoes(f, ranking, limit) ==
  /\ f[0] = [tokens |-> 0, kept |-> <<>>] /\ SelectedOf(ranking, limit) = f[Len(ranking)]
  /\ \A i \in 1..Len(ranking) : f[i] = Selecting(f[i - 1], ranking[i], limit)

\* and the fold of Selected takes these steps.
LEMMA SelectingSteps ==
  ASSUME NEW S \in SUBSET Res, NEW ranking \in Seq(S), NEW limit
  PROVE  \E f \in [0..Len(ranking) -> Selectable(S)] : SelectingGoes(f, ranking, limit)
<1> DEFINE n == Len(ranking)
           V == Selectable(S)
           step == [p \in V \X (1..n) |-> Selecting(p[1], ranking[p[2]], limit)]
           F == CHOOSE h : h = [s \in SUBSET DOMAIN ranking |->
                    IF s = {} THEN [tokens |-> 0, kept |-> <<>>] ELSE (IF h[s \ {Max(s)}].tokens + 1 + Len(ranking[Max(s)].text) > limit THEN h[s \ {Max(s)}]
                      ELSE [tokens |-> h[s \ {Max(s)}].tokens + 1 + Len(ranking[Max(s)].text), kept |-> Append(h[s \ {Max(s)}].kept, ranking[Max(s)])])]
<1>1. n \in Nat /\ DOMAIN ranking = 1..n /\ \A i \in 1..n : ranking[i] \in S
  BY LenProperties, ElementOfSeq
<1>2. SelectedOf(ranking, limit) = F[DOMAIN ranking]
  BY DEF SelectedOf, FoldLeft, MapThenFoldSet
<1>3. [tokens |-> 0, kept |-> <<>>] \in V /\ \A x \in V : \A i \in 1..n : Selecting(x, ranking[i], limit) \in V
  <2>1. [tokens |-> 0, kept |-> <<>>] \in V
    BY EmptySeq DEF Selectable
  <2>2. QED
    BY <1>1, <2>1, SelectingIs
<1>4. PICK g \in [SUBSET (1..n) -> V] : FoldsUp(g, [tokens |-> 0, kept |-> <<>>], n, step)
  <2>1. step \in [V \X (1..n) -> V]
    <3> HIDE DEF V, n
    <3>1. QED
      BY <1>3
  <2> HIDE DEF step, n, V
  <2>2. QED
    BY <1>1, <1>3, <2>1, Folding
<1>5. g = [s \in SUBSET DOMAIN ranking |->
             IF s = {} THEN [tokens |-> 0, kept |-> <<>>] ELSE (IF g[s \ {Max(s)}].tokens + 1 + Len(ranking[Max(s)].text) > limit THEN g[s \ {Max(s)}]
                      ELSE [tokens |-> g[s \ {Max(s)}].tokens + 1 + Len(ranking[Max(s)].text), kept |-> Append(g[s \ {Max(s)}].kept, ranking[Max(s)])])]
  <2>1. ASSUME NEW s \in SUBSET (1..n), s # {}
        PROVE  g[s] = Selecting(g[s \ {Max(s)}], ranking[Max(s)], limit)
    <3>1. Max(s) \in 1..n /\ s \ {Max(s)} \in SUBSET (1..n)
      <4>1. s \in SUBSET 0..n
        OBVIOUS
      <4>2. Max(s) \in s
        BY <1>1, <2>1, <4>1, MaxFacts
      <4>3. QED
        BY <4>2
    <3>2. g[s \ {Max(s)}] \in V /\ g[s] = step[<<g[s \ {Max(s)}], Max(s)>>]
      BY <1>4, <2>1, <3>1 DEF FoldsUp
    <3> HIDE DEF V
    <3>3. QED
      BY <3>1, <3>2
  <2>2. g[{}] = [tokens |-> 0, kept |-> <<>>] /\ {} \in SUBSET (1..n)
    BY <1>4 DEF FoldsUp
  <2>3. g = [s \in SUBSET (1..n) |-> g[s]]
    BY <1>4
  <2> HIDE DEF n, V
  <2>4. QED
    BY <1>1, <2>1, <2>2, <2>3 DEF Selecting
<1>6. F = [s \in SUBSET DOMAIN ranking |->
             IF s = {} THEN [tokens |-> 0, kept |-> <<>>] ELSE (IF F[s \ {Max(s)}].tokens + 1 + Len(ranking[Max(s)].text) > limit THEN F[s \ {Max(s)}]
                      ELSE [tokens |-> F[s \ {Max(s)}].tokens + 1 + Len(ranking[Max(s)].text), kept |-> Append(F[s \ {Max(s)}].kept, ranking[Max(s)])])]
  BY <1>5
<1> HIDE DEF F
<1> DEFINE f == [i \in 0..n |-> F[1..i]]
<1>7. f[0] = [tokens |-> 0, kept |-> <<>>]
  <2>1. 1..0 = {} /\ {} \in SUBSET DOMAIN ranking /\ F[{}] = [tokens |-> 0, kept |-> <<>>]
    BY <1>6
  <2>2. QED
    BY <1>1, <2>1
<1>8. ASSUME NEW i \in 1..n PROVE f[i] = Selecting(f[i - 1], ranking[i], limit)
  <2> DEFINE J == 1..i
  <2>1. J \in SUBSET (1..n) /\ J # {} /\ Max(J) = i /\ J \ {i} = 1..(i - 1)
    BY <1>1, FoldSteps
  <2> HIDE DEF J
  <2>2. F[J] = Selecting(F[1..(i - 1)], ranking[i], limit)
    BY <1>1, <1>6, <2>1 DEF Selecting
  <2>3. f[i] = F[J] /\ f[i - 1] = F[1..(i - 1)]
    BY <1>1 DEF J
  <2> HIDE DEF f
  <2>4. QED
    BY <2>2, <2>3
<1> DEFINE T == {i \in Nat : i <= n => f[i] \in V}
<1>9. \A i \in 0..n : f[i] \in V
  <2> HIDE DEF V
  <2>1. 0 \in T
    BY <1>3, <1>7
  <2> HIDE DEF f
  <2>2. ASSUME NEW i \in Nat, i \in T PROVE i + 1 \in T
    <3>1. SUFFICES ASSUME i + 1 <= n PROVE f[i + 1] \in V
      OBVIOUS
    <3>2. i + 1 \in 1..n /\ (i + 1) - 1 = i /\ f[i] \in V
      BY <1>1, <2>2, <3>1
    <3>3. QED
      BY <1>3, <1>8, <3>2
  <2> HIDE DEF T
  <2>3. \A i \in Nat : i \in T
    BY <2>1, <2>2, Induct
  <2>4. QED
    BY <2>3 DEF T
<1>10. f \in [0..n -> V] /\ SelectedOf(ranking, limit) = f[n]
  <2>1. f = [i \in 0..n |-> f[i]]
    OBVIOUS
  <2>2. f[n] = F[DOMAIN ranking]
    BY <1>1
  <2> HIDE DEF f
  <2>3. QED
    BY <1>2, <1>9, <2>1, <2>2
<1> HIDE DEF f
<1>11. SelectingGoes(f, ranking, limit)
  BY <1>7, <1>8, <1>10 DEF SelectingGoes
<1>12. QED
  BY <1>10, <1>11

\* What is selected is of the ranking.
LEMMA SelectedFacts ==
  ASSUME NEW s \in Seq(Res), NEW limit
  PROVE  Selected(s, limit) \in Seq(ToSet(s)) /\ ToSet(s) \subseteq Res
<1> DEFINE t == ByScore(s)
           S == ToSet(s)
<1>1. S \subseteq Res /\ t \in Seq(Res) /\ ToSet(t) = S
  BY SeqIs, ByScoreFacts
<1>2. t \in Seq(S)
  <2>1. IsSeq(t)
    BY <1>1, SeqIs
  <2>2. QED
    BY <1>1, <2>1, IsSeqTo
<1>3. Selected(s, limit) = SelectedOf(t, limit).kept
  BY DEF Selected, SelectedOf
<1> HIDE DEF t, S
<1>4. PICK f \in [0..Len(t) -> Selectable(S)] : SelectingGoes(f, t, limit)
  BY <1>1, <1>2, SelectingSteps
<1>5. SelectedOf(t, limit) \in Selectable(S)
  <2>1. Len(t) \in 0..Len(t)
    BY <1>2, LenProperties
  <2>2. QED
    BY <1>4, <2>1 DEF SelectingGoes
<1>6. QED
  BY <1>1, <1>3, <1>5 DEF Selectable, S

\* The last lines of the lines from a to b.
LEMMA LastLinesFacts ==
  ASSUME NEW t \in Seq(Nat), NEW n \in Nat
  PROVE  /\ LastLines(t, n) \in Seq(Nat)
         /\ \A a, b \in Nat : t = Lines(a, b) /\ a <= b /\ n <= b - a => LastLines(t, n) = Lines(b + 1 - n, b)
<1> DEFINE k == Len(t)
           u == SubSeq(t, k + 1 - n, k)
<1>1. k \in Nat /\ DOMAIN t = 1..k /\ \A i \in 1..k : t[i] \in Nat
  BY LenProperties, ElementOfSeq
<1>2. CASE k <= n
  <2>1. LastLines(t, n) = t
    BY <1>2 DEF LastLines
  <2>2. ASSUME NEW a \in Nat, NEW b \in Nat, t = Lines(a, b), a <= b, n <= b - a PROVE FALSE
    <3>1. k = b + 1 - a
      BY <2>2, LinesFacts
    <3>2. QED
      BY <1>1, <1>2, <2>2, <3>1
  <2>3. QED
    BY <2>1, <2>2
<1>3. CASE k > n
  <2>1. LastLines(t, n) = u
    BY <1>1, <1>3 DEF LastLines
  <2>2. k + 1 - n \in 1..(k + 1) /\ k \in (k + 1 - n)-1..k /\ k - (k + 1 - n) + 1 = n
    BY <1>1, <1>3
  <2>3. u \in Seq(Nat) /\ Len(u) = n /\ \A i \in 1..n : u[i] = t[k - n + i]
    <3> DEFINE m == k + 1 - n
    <3>1. m \in 1..(k + 1) /\ k \in (m - 1)..k /\ k - m + 1 = n /\ \A i \in 1..n : m + i - 1 = k - n + i
      BY <1>1, <1>3
    <3> HIDE DEF m, k
    <3>2. /\ SubSeq(t, m, k) \in Seq(Nat) /\ Len(SubSeq(t, m, k)) = k - m + 1
          /\ \A i \in 1..(k - m + 1) : SubSeq(t, m, k)[i] = t[m + i - 1]
      BY <1>1, <3>1, SubSeqProperties DEF k
    <3>3. QED
      BY <3>1, <3>2 DEF m
  <2>4. ASSUME NEW a \in Nat, NEW b \in Nat, t = Lines(a, b), a <= b, n <= b - a
        PROVE  u = Lines(b + 1 - n, b)
    <3>1. k = b + 1 - a
      BY <2>4, LinesFacts
    <3>2. \A i \in 1..n : t[k - n + i] = b - n + i
      <4>1. \A i \in 1..n : k - n + i \in 1..(b + 1 - a) /\ a + (k - n + i) - 1 = b - n + i
        BY <1>1, <2>4, <3>1
      <4>2. QED
        BY <2>4, <4>1 DEF Lines
    <3>3. Lines(b + 1 - n, b) = [i \in 1..n |-> b - n + i]
      <4>1. b + 1 - (b + 1 - n) = n /\ \A i \in 1..n : b + 1 - n + i - 1 = b - n + i
        BY <2>4
      <4>2. QED
        BY <4>1 DEF Lines
    <3>4. u = [i \in 1..n |-> u[i]]
      <4> HIDE DEF u, k
      <4>1. QED
        BY <2>3, LenProperties
    <3> HIDE DEF u, k
    <3>5. \A i \in 1..n : u[i] = b - n + i
      BY <2>3, <3>2
    <3>6. QED
      BY <3>3, <3>4, <3>5
  <2>5. QED
    BY <2>1, <2>3, <2>4
<1>4. QED
  BY <1>1, <1>2, <1>3

\* Lines after lines.
LEMMA LinesJoin ==
  ASSUME NEW a \in Nat, NEW m \in Nat, NEW b \in Nat, a <= m, m < b
  PROVE  Lines(a, m) \o Lines(m + 1, b) = Lines(a, b)
<1> DEFINE s == Lines(a, m)
           t == Lines(m + 1, b)
           u == s \o t
           w == Lines(a, b)
<1>1. s \in Seq(Nat) /\ Len(s) = m + 1 - a /\ t \in Seq(Nat) /\ Len(t) = b - m
  <2>1. m + 1 \in Nat /\ m + 1 <= b /\ b + 1 - (m + 1) = b - m
    OBVIOUS
  <2>2. Lines(m + 1, b) \in Seq(Nat) /\ Len(Lines(m + 1, b)) = b + 1 - (m + 1)
    BY <2>1, LinesFacts
  <2>3. Lines(a, m) \in Seq(Nat) /\ Len(Lines(a, m)) = m + 1 - a
    BY LinesFacts
  <2>4. QED
    BY <2>1, <2>2, <2>3
<1>2. w \in Seq(Nat) /\ Len(w) = b + 1 - a
  BY LinesFacts
<1>3. \A i \in 1..(m + 1 - a) : s[i] = a + i - 1
  BY DEF Lines
<1>4. \A i \in 1..(b - m) : t[i] = m + i
  <2>1. b + 1 - (m + 1) = b - m /\ \A i \in 1..(b - m) : m + 1 + i - 1 = m + i
    OBVIOUS
  <2>2. QED
    BY <2>1 DEF Lines
<1>5. \A i \in 1..(b + 1 - a) : w[i] = a + i - 1
  BY DEF Lines
<1> HIDE DEF s, t, w
<1>6. /\ u \in Seq(Nat) /\ Len(u) = Len(s) + Len(t)
      /\ \A i \in 1..(Len(s) + Len(t)) : u[i] = IF i <= Len(s) THEN s[i] ELSE t[i - Len(s)]
  BY <1>1, ConcatProperties
<1> HIDE DEF u
<1>7. Len(u) = b + 1 - a
  BY <1>1, <1>6
<1>8. \A i \in 1..(b + 1 - a) : u[i] = a + i - 1
  <2>1. ASSUME NEW i \in 1..(b + 1 - a), i <= m + 1 - a PROVE u[i] = a + i - 1
    BY <1>1, <1>3, <1>6, <2>1
  <2>2. ASSUME NEW i \in 1..(b + 1 - a), i > m + 1 - a PROVE u[i] = a + i - 1
    <3>1. i - (m + 1 - a) \in 1..(b - m) /\ m + (i - (m + 1 - a)) = a + i - 1
      BY <2>2
    <3>2. u[i] = t[i - (m + 1 - a)]
      BY <1>1, <1>6, <2>2
    <3>3. QED
      BY <1>4, <3>1, <3>2
  <2>3. QED
    BY <2>1, <2>2
<1>9. u = w
  <2> DEFINE l == b + 1 - a
  <2>1. DOMAIN u = 1..l /\ DOMAIN w = 1..l
    BY <1>2, <1>6, <1>7, LenProperties
  <2>2. \A i \in 1..l : u[i] = w[i]
    BY <1>5, <1>8
  <2>3. u = [i \in DOMAIN u |-> u[i]] /\ w = [i \in DOMAIN w |-> w[i]]
    BY <1>2, <1>6, LenProperties
  <2> HIDE DEF l
  <2>4. QED
    BY <2>1, <2>2, <2>3
<1>10. QED
  BY <1>9 DEF u, s, t, w

\* The lines of a file that the results have, and the blocks these account for: their
\* lines are retrieved and, if the results hold just their lines, so do the blocks.
Cover(R, file) == UNION {r.start..r.end : r \in {r \in R : r.file = file}}

\* Such a block,
Grounded(R, b) ==
  /\ b.start..b.end \subseteq Cover(R, b.file)
  /\ (\A r \in R : r.file = b.file => Exact(r)) => Exact(b)

\* and those of a file.
Blocks(R, file) == {b \in Res : b.file = file /\ Grounded(R, b)}

\* A result is a block,
LEMMA ResultGrounded ==
  ASSUME NEW R \in SUBSET Res, NEW r \in R
  PROVE  r \in Blocks(R, r.file)
<1>1. r.start..r.end \subseteq Cover(R, r.file)
  BY DEF Cover
<1>2. QED
  BY <1>1 DEF Blocks, Grounded

\* and so is a block with the lines of another after its own.
LEMMA ExtendFacts ==
  ASSUME NEW R, NEW file, NEW p \in Blocks(R, file), NEW c \in Blocks(R, file), c.start <= p.end
  PROVE  Extend(p, c) \in Blocks(R, file)
<1> DEFINE n == c.end - p.end
           text == p.text \o LastLines(c.text, n)
           e == [p EXCEPT !.text = text, !.end = c.end]
<1>1. /\ p \in Res /\ c \in Res /\ p.file = file /\ c.file = file
      /\ Grounded(R, p) /\ Grounded(R, c)
  BY DEF Blocks
<1>2. /\ p.start \in Nat /\ p.end \in Nat /\ c.start \in Nat /\ c.end \in Nat
      /\ p.start <= p.end /\ c.start <= c.end /\ p.text \in Seq(Nat) /\ c.text \in Seq(Nat)
  BY <1>1 DEF Res
<1>3. CASE c.end <= p.end
  BY <1>3 DEF Extend
<1>4. CASE c.end > p.end
  <2>1. n \in Nat /\ n <= c.end - c.start /\ c.end + 1 - n = p.end + 1
    BY <1>2, <1>4
  <2>2. LastLines(c.text, n) \in Seq(Nat)
    BY <1>2, <2>1, LastLinesFacts
  <2>3. text \in Seq(Nat)
    BY <1>2, <2>2, ConcatProperties
  <2>4. Extend(p, c) = e
    BY <1>2, <1>4 DEF Extend
  <2> HIDE DEF n
  <2>5. (\A r \in R : r.file = file => Exact(r)) => text = Lines(p.start, c.end)
    <3>1. SUFFICES ASSUME \A r \in R : r.file = file => Exact(r) PROVE text = Lines(p.start, c.end)
      OBVIOUS
    <3>2. p.text = Lines(p.start, p.end) /\ c.text = Lines(c.start, c.end)
      BY <1>1, <3>1 DEF Grounded, Exact
    <3>3. LastLines(c.text, n) = Lines(c.end + 1 - n, c.end)
      <4>1. \A a, b \in Nat : c.text = Lines(a, b) /\ a <= b /\ n <= b - a
                              => LastLines(c.text, n) = Lines(b + 1 - n, b)
        BY <1>2, <2>1, LastLinesFacts
      <4>2. QED
        BY <1>2, <2>1, <3>2, <4>1
    <3>4. Lines(p.start, p.end) \o Lines(p.end + 1, c.end) = Lines(p.start, c.end)
      BY <1>2, <1>4, LinesJoin
    <3>5. QED
      BY <2>1, <3>2, <3>3, <3>4
  <2> HIDE DEF text
  <2>6. /\ e \in Res /\ e.file = file /\ e.start = p.start /\ e.end = c.end /\ e.text = text
    <3>1. e \in [file : Nat, start : Nat, end : Nat, text : Seq(Nat), score : Nat]
      BY <1>1, <1>2, <2>3 DEF Res
    <3>2. e.file = file /\ e.start = p.start /\ e.end = c.end /\ e.text = text
      BY <1>1 DEF Res
    <3>3. e.start <= e.end
      <4> HIDE DEF e
      <4>1. QED
        BY <1>2, <1>4, <3>2
    <3> HIDE DEF e
    <3>4. QED
      BY <3>1, <3>2, <3>3 DEF Res
  <2> HIDE DEF e
  <2>7. e.start..e.end \subseteq Cover(R, file)
    <3>1. p.start..p.end \subseteq Cover(R, file) /\ c.start..c.end \subseteq Cover(R, file)
      BY <1>1 DEF Grounded
    <3>2. \A x \in p.start..c.end : x \in p.start..p.end \/ x \in c.start..c.end
      BY <1>2
    <3>3. QED
      BY <2>6, <3>1, <3>2
  <2>8. Grounded(R, e)
    BY <2>5, <2>6, <2>7 DEF Grounded, Exact
  <2>9. QED
    BY <2>4, <2>6, <2>8 DEF Blocks
<1>5. QED
  BY <1>2, <1>3, <1>4

\* A result joins the last block or is one of its own.
Merging(merged, c) ==
  IF \/ merged = <<>>
     \/ 0 \in {Last(merged).start, Last(merged).end, c.start, c.end}
     \/ c.start > Last(merged).end
     \/ ~OverlapsMuch(Last(merged), c)
  THEN Append(merged, c)
  ELSE Append(Front(merged), Extend(Last(merged), c))

\* Blocks stay blocks,
LEMMA MergingIs ==
  ASSUME NEW R, NEW file, NEW bs \in Seq(Blocks(R, file)), NEW c \in Blocks(R, file)
  PROVE  Merging(bs, c) \in Seq(Blocks(R, file))
<1> DEFINE B == Blocks(R, file)
<1>1. Append(bs, c) \in Seq(B)
  BY AppendFacts
<1>2. ASSUME bs # <<>>, ~(c.start > Last(bs).end)
      PROVE  Append(Front(bs), Extend(Last(bs), c)) \in Seq(B)
  <2>1. Last(bs) \in B
    BY <1>2, LastFacts
  <2>2. c.start <= Last(bs).end
    <3>1. c \in Res /\ Last(bs) \in Res
      BY <2>1 DEF Blocks
    <3>2. c.start \in Nat /\ Last(bs).end \in Nat
      BY <3>1 DEF Res
    <3>3. QED
      BY <1>2, <3>2
  <2>3. Extend(Last(bs), c) \in B
    BY <2>1, <2>2, ExtendFacts
  <2> HIDE DEF B
  <2>4. QED
    BY <1>2, <2>3, LastFacts DEF B
<1>3. QED
  BY <1>1, <1>2 DEF Merging

\* Results are merged one by one.
MergingGoes(f, seq) ==
  /\ f[0] = <<>> /\ MergeOverlapping(seq) = f[Len(seq)]
  /\ \A i \in 1..Len(seq) : f[i] = Merging(f[i - 1], seq[i])

\* and the fold of MergeOverlapping takes these steps.
LEMMA MergingSteps ==
  ASSUME NEW R, NEW file, NEW seq \in Seq(Blocks(R, file))
  PROVE  \E f \in [0..Len(seq) -> Seq(Blocks(R, file))] : MergingGoes(f, seq)
<1> DEFINE n == Len(seq)
           V == Seq(Blocks(R, file))
           step == [p \in V \X (1..n) |-> Merging(p[1], seq[p[2]])]
           F == CHOOSE h : h = [s \in SUBSET DOMAIN seq |->
                    IF s = {} THEN <<>> ELSE (IF \/ h[s \ {Max(s)}] = <<>>
                         \/ 0 \in {Last(h[s \ {Max(s)}]).start, Last(h[s \ {Max(s)}]).end, seq[Max(s)].start, seq[Max(s)].end}
                         \/ seq[Max(s)].start > Last(h[s \ {Max(s)}]).end
                         \/ ~OverlapsMuch(Last(h[s \ {Max(s)}]), seq[Max(s)])
                      THEN Append(h[s \ {Max(s)}], seq[Max(s)])
                      ELSE Append(Front(h[s \ {Max(s)}]), Extend(Last(h[s \ {Max(s)}]), seq[Max(s)])))]
<1>1. n \in Nat /\ DOMAIN seq = 1..n /\ \A i \in 1..n : seq[i] \in Blocks(R, file)
  BY LenProperties, ElementOfSeq
<1>2. MergeOverlapping(seq) = F[DOMAIN seq]
  BY DEF MergeOverlapping, FoldLeft, MapThenFoldSet
<1>3. <<>> \in V /\ \A x \in V : \A i \in 1..n : Merging(x, seq[i]) \in V
  <2>1. <<>> \in V
    BY EmptySeq
  <2>2. QED
    BY <1>1, <2>1, MergingIs
<1>4. PICK g \in [SUBSET (1..n) -> V] : FoldsUp(g, <<>>, n, step)
  <2>1. step \in [V \X (1..n) -> V]
    <3> HIDE DEF V, n
    <3>1. QED
      BY <1>3
  <2> HIDE DEF step, n, V
  <2>2. QED
    BY <1>1, <1>3, <2>1, Folding
<1>5. g = [s \in SUBSET DOMAIN seq |->
             IF s = {} THEN <<>> ELSE (IF \/ g[s \ {Max(s)}] = <<>>
                         \/ 0 \in {Last(g[s \ {Max(s)}]).start, Last(g[s \ {Max(s)}]).end, seq[Max(s)].start, seq[Max(s)].end}
                         \/ seq[Max(s)].start > Last(g[s \ {Max(s)}]).end
                         \/ ~OverlapsMuch(Last(g[s \ {Max(s)}]), seq[Max(s)])
                      THEN Append(g[s \ {Max(s)}], seq[Max(s)])
                      ELSE Append(Front(g[s \ {Max(s)}]), Extend(Last(g[s \ {Max(s)}]), seq[Max(s)])))]
  <2>1. ASSUME NEW s \in SUBSET (1..n), s # {}
        PROVE  g[s] = Merging(g[s \ {Max(s)}], seq[Max(s)])
    <3>1. Max(s) \in 1..n /\ s \ {Max(s)} \in SUBSET (1..n)
      <4>1. s \in SUBSET 0..n
        OBVIOUS
      <4>2. Max(s) \in s
        BY <1>1, <2>1, <4>1, MaxFacts
      <4>3. QED
        BY <4>2
    <3>2. g[s \ {Max(s)}] \in V /\ g[s] = step[<<g[s \ {Max(s)}], Max(s)>>]
      BY <1>4, <2>1, <3>1 DEF FoldsUp
    <3> HIDE DEF V
    <3>3. QED
      BY <3>1, <3>2
  <2>2. g[{}] = <<>> /\ {} \in SUBSET (1..n)
    BY <1>4 DEF FoldsUp
  <2>3. g = [s \in SUBSET (1..n) |-> g[s]]
    BY <1>4
  <2> HIDE DEF n, V
  <2>4. QED
    BY <1>1, <2>1, <2>2, <2>3 DEF Merging
<1>6. F = [s \in SUBSET DOMAIN seq |->
             IF s = {} THEN <<>> ELSE (IF \/ F[s \ {Max(s)}] = <<>>
                         \/ 0 \in {Last(F[s \ {Max(s)}]).start, Last(F[s \ {Max(s)}]).end, seq[Max(s)].start, seq[Max(s)].end}
                         \/ seq[Max(s)].start > Last(F[s \ {Max(s)}]).end
                         \/ ~OverlapsMuch(Last(F[s \ {Max(s)}]), seq[Max(s)])
                      THEN Append(F[s \ {Max(s)}], seq[Max(s)])
                      ELSE Append(Front(F[s \ {Max(s)}]), Extend(Last(F[s \ {Max(s)}]), seq[Max(s)])))]
  BY <1>5
<1> HIDE DEF F
<1> DEFINE f == [i \in 0..n |-> F[1..i]]
<1>7. f[0] = <<>>
  <2>1. 1..0 = {} /\ {} \in SUBSET DOMAIN seq /\ F[{}] = <<>>
    BY <1>6
  <2>2. QED
    BY <1>1, <2>1
<1>8. ASSUME NEW i \in 1..n PROVE f[i] = Merging(f[i - 1], seq[i])
  <2> DEFINE J == 1..i
  <2>1. J \in SUBSET (1..n) /\ J # {} /\ Max(J) = i /\ J \ {i} = 1..(i - 1)
    BY <1>1, FoldSteps
  <2> HIDE DEF J
  <2>2. F[J] = Merging(F[1..(i - 1)], seq[i])
    BY <1>1, <1>6, <2>1 DEF Merging
  <2>3. f[i] = F[J] /\ f[i - 1] = F[1..(i - 1)]
    BY <1>1 DEF J
  <2> HIDE DEF f
  <2>4. QED
    BY <2>2, <2>3
<1> DEFINE T == {i \in Nat : i <= n => f[i] \in V}
<1>9. \A i \in 0..n : f[i] \in V
  <2> HIDE DEF V
  <2>1. 0 \in T
    BY <1>3, <1>7
  <2> HIDE DEF f
  <2>2. ASSUME NEW i \in Nat, i \in T PROVE i + 1 \in T
    <3>1. SUFFICES ASSUME i + 1 <= n PROVE f[i + 1] \in V
      OBVIOUS
    <3>2. i + 1 \in 1..n /\ (i + 1) - 1 = i /\ f[i] \in V
      BY <1>1, <2>2, <3>1
    <3>3. QED
      BY <1>3, <1>8, <3>2
  <2> HIDE DEF T
  <2>3. \A i \in Nat : i \in T
    BY <2>1, <2>2, Induct
  <2>4. QED
    BY <2>3 DEF T
<1>10. f \in [0..n -> V] /\ MergeOverlapping(seq) = f[n]
  <2>1. f = [i \in 0..n |-> f[i]]
    OBVIOUS
  <2>2. f[n] = F[DOMAIN seq]
    BY <1>1
  <2> HIDE DEF f
  <2>3. QED
    BY <1>2, <1>9, <2>1, <2>2
<1> HIDE DEF f
<1>11. MergingGoes(f, seq)
  BY <1>7, <1>8, <1>10 DEF MergingGoes
<1>12. QED
  BY <1>10, <1>11

\* What is merged of blocks of a file are blocks of it,
LEMMA MergedFacts ==
  ASSUME NEW R, NEW file, NEW seq \in Seq(Blocks(R, file))
  PROVE  MergeOverlapping(seq) \in Seq(Blocks(R, file))
<1>1. PICK f \in [0..Len(seq) -> Seq(Blocks(R, file))] : MergingGoes(f, seq)
  BY MergingSteps
<1>2. Len(seq) \in 0..Len(seq)
  BY LenProperties
<1>3. QED
  BY <1>1, <1>2 DEF MergingGoes

\* and what is assembled of a ranking are blocks of its results.
LEMMA AssembledFacts ==
  ASSUME NEW ranking \in Seq(Res), NEW limit, DOMAIN src = 1..Len(src), Len(src) \in Nat
  PROVE  Assembled(ranking, limit) \in Seq({b \in Res : Grounded(ToSet(ranking), b)})
<1> DEFINE R == ToSet(ranking)
           G == {b \in Res : Grounded(R, b)}
           kept == Selected(ranking, limit)
           of(file) == MergeOverlapping(ByLines(Where(kept, LAMBDA r : r.file = file)))
           all == [file \in DOMAIN src |-> of(file)]
<1>1. R \subseteq Res /\ kept \in Seq(R)
  BY SelectedFacts
<1> HIDE DEF kept, R
<1>2. ASSUME NEW file PROVE of(file) \in Seq(G)
  <2> DEFINE here == {k \in DOMAIN kept : kept[k].file = file}
             w == Pick(kept, here)
  <2>1. Where(kept, LAMBDA r : r.file = file) = w
    BY DEF Where
  <2>2. here \in SUBSET DOMAIN kept
    OBVIOUS
  <2>3. IsSeq(kept) /\ ToSet(kept) \subseteq R
    BY <1>1, SeqIs
  <2>4. \A k \in here : kept[k] \in ToSet(kept) /\ kept[k].file = file
    BY DEF ToSet
  <2>5. IsSeq(w) /\ ToSet(w) = {kept[k] : k \in here}
    <3> HIDE DEF here
    <3>1. QED
      BY <2>2, <2>3, PickFacts
  <2> HIDE DEF w, here
  <2>6. \A x \in ToSet(w) : x \in R /\ x.file = file
    BY <2>3, <2>4, <2>5
  <2>7. w \in Seq(Res)
    <3>1. ToSet(w) \subseteq Res
      BY <1>1, <2>6
    <3>2. QED
      BY <2>5, <3>1, IsSeqTo
  <2> DEFINE t == ByLines(w)
  <2>8. t \in Seq(Res) /\ ToSet(t) = ToSet(w)
    BY <2>7, ByLinesFacts
  <2> HIDE DEF t
  <2>9. t \in Seq(Blocks(R, file))
    <3>1. IsSeq(t)
      BY <2>8, SeqIs
    <3>2. ToSet(t) \subseteq Blocks(R, file)
      BY <1>1, <2>6, <2>8, ResultGrounded
    <3>3. QED
      BY <3>1, <3>2, IsSeqTo
  <2>10. MergeOverlapping(t) \in Seq(Blocks(R, file))
    BY <2>9, MergedFacts
  <2>11. Seq(Blocks(R, file)) \subseteq Seq(G)
    <3>1. Blocks(R, file) \subseteq G
      BY DEF Blocks
    <3> HIDE DEF G
    <3>2. QED
      BY <3>1, SeqMonotonic
  <2>12. of(file) = MergeOverlapping(t)
    BY <2>1 DEF t
  <2> HIDE DEF G
  <2>13. QED
    BY <2>10, <2>11, <2>12
<1>3. Assembled(ranking, limit) = of(NoFile) \o FlattenSeq(all)
  BY DEF Assembled, kept
<1> HIDE DEF of, G
<1>4. all \in Seq(Seq(G))
  <2>1. all \in [1..Len(src) -> Seq(G)]
    BY <1>2
  <2>2. QED
    BY <2>1, SeqDef
<1> HIDE DEF all
<1>5. of(NoFile) \in Seq(G) /\ FlattenSeq(all) \in Seq(G)
  BY <1>2, <1>4, FlattenFacts
<1>6. QED
  BY <1>3, <1>5, ConcatProperties DEF G, R

-----------------------------------------------------------------------------
(* The tokens of a prompt.                                                 *)

\* A result and its tokens.
Weight(r) == 1 + Len(r.text)

\* At least one token.
LEMMA WeightIsNat == ASSUME NEW r \in Res PROVE Weight(r) \in Nat \ {0}
<1>1. r.text \in Seq(Nat)
  BY DEF Res
<1>2. Len(r.text) \in Nat
  BY <1>1, LenProperties
<1>3. QED
  BY <1>2 DEF Weight

\* The tokens of the first blocks.
Weighing(n, b) == n + 1 + Len(b.text)

\* A number, larger by the weight,
LEMMA WeighingIs == ASSUME NEW n \in Nat, NEW b \in Res PROVE Weighing(n, b) \in Nat /\ Weighing(n, b) = n + Weight(b)
<1>1. b.text \in Seq(Nat)
  BY DEF Res
<1>2. Len(b.text) \in Nat
  BY <1>1, LenProperties
<1> DEFINE l == Len(b.text)
<1>3. Weighing(n, b) = n + 1 + l /\ Weight(b) = 1 + l
  BY DEF Weighing, Weight
<1> HIDE DEF l
<1>4. l \in Nat
  BY <1>2 DEF l
<1>5. QED
  BY <1>3, <1>4

\* Blocks are counted one by one.
WeighingGoes(f, blocks) ==
  /\ f[0] = 0 /\ BlockTokens(blocks) = f[Len(blocks)]
  /\ \A i \in 1..Len(blocks) : f[i] = Weighing(f[i - 1], blocks[i])

\* and the fold of BlockTokens takes these steps.
LEMMA WeighingSteps ==
  ASSUME NEW blocks \in Seq(Res)
  PROVE  \E f \in [0..Len(blocks) -> Nat] : WeighingGoes(f, blocks)
<1> DEFINE n == Len(blocks)
           V == Nat
           step == [p \in V \X (1..n) |-> Weighing(p[1], blocks[p[2]])]
           F == CHOOSE h : h = [s \in SUBSET DOMAIN blocks |->
                    IF s = {} THEN 0 ELSE (h[s \ {Max(s)}] + 1 + Len(blocks[Max(s)].text))]
<1>1. n \in Nat /\ DOMAIN blocks = 1..n /\ \A i \in 1..n : blocks[i] \in Res
  BY LenProperties, ElementOfSeq
<1>2. BlockTokens(blocks) = F[DOMAIN blocks]
  BY DEF BlockTokens, FoldLeft, MapThenFoldSet
<1>3. 0 \in V /\ \A x \in V : \A i \in 1..n : Weighing(x, blocks[i]) \in V
  BY <1>1, WeighingIs
<1>4. PICK g \in [SUBSET (1..n) -> V] : FoldsUp(g, 0, n, step)
  <2>1. step \in [V \X (1..n) -> V]
    <3> HIDE DEF V, n
    <3>1. QED
      BY <1>3
  <2> HIDE DEF step, n, V
  <2>2. QED
    BY <1>1, <1>3, <2>1, Folding
<1>5. g = [s \in SUBSET DOMAIN blocks |->
             IF s = {} THEN 0 ELSE (g[s \ {Max(s)}] + 1 + Len(blocks[Max(s)].text))]
  <2>1. ASSUME NEW s \in SUBSET (1..n), s # {}
        PROVE  g[s] = Weighing(g[s \ {Max(s)}], blocks[Max(s)])
    <3>1. Max(s) \in 1..n /\ s \ {Max(s)} \in SUBSET (1..n)
      <4>1. s \in SUBSET 0..n
        OBVIOUS
      <4>2. Max(s) \in s
        BY <1>1, <2>1, <4>1, MaxFacts
      <4>3. QED
        BY <4>2
    <3>2. g[s \ {Max(s)}] \in V /\ g[s] = step[<<g[s \ {Max(s)}], Max(s)>>]
      BY <1>4, <2>1, <3>1 DEF FoldsUp
    <3> HIDE DEF V
    <3>3. QED
      BY <3>1, <3>2
  <2>2. g[{}] = 0 /\ {} \in SUBSET (1..n)
    BY <1>4 DEF FoldsUp
  <2>3. g = [s \in SUBSET (1..n) |-> g[s]]
    BY <1>4
  <2> HIDE DEF n, V
  <2>4. QED
    BY <1>1, <2>1, <2>2, <2>3 DEF Weighing
<1>6. F = [s \in SUBSET DOMAIN blocks |->
             IF s = {} THEN 0 ELSE (F[s \ {Max(s)}] + 1 + Len(blocks[Max(s)].text))]
  BY <1>5
<1> HIDE DEF F
<1> DEFINE f == [i \in 0..n |-> F[1..i]]
<1>7. f[0] = 0
  <2>1. 1..0 = {} /\ {} \in SUBSET DOMAIN blocks /\ F[{}] = 0
    BY <1>6
  <2>2. QED
    BY <1>1, <2>1
<1>8. ASSUME NEW i \in 1..n PROVE f[i] = Weighing(f[i - 1], blocks[i])
  <2> DEFINE J == 1..i
  <2>1. J \in SUBSET (1..n) /\ J # {} /\ Max(J) = i /\ J \ {i} = 1..(i - 1)
    BY <1>1, FoldSteps
  <2> HIDE DEF J
  <2>2. F[J] = Weighing(F[1..(i - 1)], blocks[i])
    BY <1>1, <1>6, <2>1 DEF Weighing
  <2>3. f[i] = F[J] /\ f[i - 1] = F[1..(i - 1)]
    BY <1>1 DEF J
  <2> HIDE DEF f
  <2>4. QED
    BY <2>2, <2>3
<1> DEFINE T == {i \in Nat : i <= n => f[i] \in V}
<1>9. \A i \in 0..n : f[i] \in V
  <2> HIDE DEF V
  <2>1. 0 \in T
    BY <1>3, <1>7
  <2> HIDE DEF f
  <2>2. ASSUME NEW i \in Nat, i \in T PROVE i + 1 \in T
    <3>1. SUFFICES ASSUME i + 1 <= n PROVE f[i + 1] \in V
      OBVIOUS
    <3>2. i + 1 \in 1..n /\ (i + 1) - 1 = i /\ f[i] \in V
      BY <1>1, <2>2, <3>1
    <3>3. QED
      BY <1>3, <1>8, <3>2
  <2> HIDE DEF T
  <2>3. \A i \in Nat : i \in T
    BY <2>1, <2>2, Induct
  <2>4. QED
    BY <2>3 DEF T
<1>10. f \in [0..n -> V] /\ BlockTokens(blocks) = f[n]
  <2>1. f = [i \in 0..n |-> f[i]]
    OBVIOUS
  <2>2. f[n] = F[DOMAIN blocks]
    BY <1>1
  <2> HIDE DEF f
  <2>3. QED
    BY <1>2, <1>9, <2>1, <2>2
<1> HIDE DEF f
<1>11. WeighingGoes(f, blocks)
  BY <1>7, <1>8, <1>10 DEF WeighingGoes
<1>12. QED
  BY <1>10, <1>11

\* The first blocks: a sequence of blocks of the same places,
LEMMA FirstFacts ==
  ASSUME NEW S, NEW s \in Seq(S), NEW n \in 0..Len(s)
  PROVE  /\ SubSeq(s, 1, n) \in Seq(S) /\ Len(SubSeq(s, 1, n)) = n
         /\ \A i \in 1..n : SubSeq(s, 1, n)[i] = s[i]
         /\ ToSet(SubSeq(s, 1, n)) = {s[i] : i \in 1..n}
<1> DEFINE u == SubSeq(s, 1, n)
<1>1. Len(s) \in Nat /\ DOMAIN s = 1..Len(s)
  BY LenProperties
<1>2. u \in Seq(S) /\ Len(u) = n /\ \A i \in 1..n : u[i] = s[i]
  <2>1. 1 \in 1..(Len(s) + 1) /\ n \in (1 - 1)..Len(s) /\ n - 1 + 1 = n /\ \A i \in 1..n : 1 + i - 1 = i
    BY <1>1
  <2>2. /\ SubSeq(s, 1, n) \in Seq(S) /\ Len(SubSeq(s, 1, n)) = n - 1 + 1
        /\ \A i \in 1..(n - 1 + 1) : SubSeq(s, 1, n)[i] = s[1 + i - 1]
    BY <2>1, SubSeqProperties
  <2>3. QED
    BY <2>1, <2>2
<1> HIDE DEF u
<1>3. DOMAIN u = 1..n
  BY <1>2, LenProperties
<1>4. ToSet(u) = {s[i] : i \in 1..n}
  BY <1>2, <1>3 DEF ToSet
<1>5. QED
  BY <1>2, <1>4 DEF u

\* with fewer tokens, the fewer they are,
LEMMA BlockTokensGrow ==
  ASSUME NEW s \in Seq(Res), NEW n \in 0..Len(s), NEW m \in n..Len(s)
  PROVE  /\ BlockTokens(SubSeq(s, 1, n)) \in Nat /\ BlockTokens(SubSeq(s, 1, m)) \in Nat
         /\ BlockTokens(SubSeq(s, 1, n)) <= BlockTokens(SubSeq(s, 1, m))
<1> DEFINE u == SubSeq(s, 1, n)
           v == SubSeq(s, 1, m)
<1>1. Len(s) \in Nat /\ m \in 0..Len(s) /\ \A i \in 1..Len(s) : s[i] \in Res
  BY LenProperties, ElementOfSeq
<1>2. u \in Seq(Res) /\ Len(u) = n /\ \A i \in 1..n : u[i] = s[i]
  BY FirstFacts
<1>3. v \in Seq(Res) /\ Len(v) = m /\ \A i \in 1..m : v[i] = s[i]
  BY <1>1, FirstFacts
<1> HIDE DEF u, v
<1>4. PICK f \in [0..n -> Nat] : WeighingGoes(f, u)
  BY <1>2, WeighingSteps
<1>5. PICK g \in [0..m -> Nat] : WeighingGoes(g, v)
  BY <1>3, WeighingSteps
<1>6. /\ f[0] = 0 /\ BlockTokens(u) = f[n]
      /\ \A i \in 1..n : f[i] = Weighing(f[i - 1], s[i])
  BY <1>2, <1>4 DEF WeighingGoes
<1>7. /\ g[0] = 0 /\ BlockTokens(v) = g[m]
      /\ \A i \in 1..m : g[i] = Weighing(g[i - 1], s[i])
  BY <1>3, <1>5 DEF WeighingGoes
<1> DEFINE T == {i \in Nat : i <= n => f[i] = g[i]}
           U == {i \in Nat : i <= m => g[n] <= g[i]}
<1>8. \A i \in Nat : i \in T
  <2>1. 0 \in T
    BY <1>6, <1>7
  <2>2. ASSUME NEW i \in Nat, i \in T PROVE i + 1 \in T
    <3>1. SUFFICES ASSUME i + 1 <= n PROVE f[i + 1] = g[i + 1]
      OBVIOUS
    <3>2. i + 1 \in 1..n /\ i + 1 \in 1..m /\ (i + 1) - 1 = i /\ f[i] = g[i]
      BY <1>1, <2>2, <3>1
    <3>3. QED
      BY <1>6, <1>7, <3>2
  <2> HIDE DEF T
  <2>3. QED
    BY <2>1, <2>2, Induct
<1>9. \A i \in Nat : i >= n => i \in U
  <2>1. n \in U /\ n \in Nat
    BY <1>1, <1>5
  <2>2. ASSUME NEW i \in Nat, i >= n, i \in U PROVE i + 1 \in U
    <3>1. SUFFICES ASSUME i + 1 <= m PROVE g[n] <= g[i + 1]
      OBVIOUS
    <3>2. i + 1 \in 1..m /\ (i + 1) - 1 = i /\ g[n] <= g[i] /\ i \in 0..m /\ n \in 0..m /\ i + 1 \in 1..Len(s)
      BY <1>1, <2>2, <3>1
    <3>3. g[i] \in Nat /\ g[n] \in Nat /\ s[i + 1] \in Res
      BY <1>1, <1>5, <3>2
    <3>4. g[i + 1] = Weighing(g[i], s[i + 1])
      BY <1>7, <3>2
    <3>5. Weighing(g[i], s[i + 1]) = g[i] + Weight(s[i + 1]) /\ Weight(s[i + 1]) \in Nat
      BY <3>3, WeighingIs, WeightIsNat
    <3>6. QED
      BY <3>2, <3>3, <3>4, <3>5
  <2> HIDE DEF U
  <2>3. QED
    BY <2>1, <2>2, Upward
<1>10. f[n] = g[n] /\ g[n] <= g[m] /\ f[n] \in Nat /\ g[m] \in Nat
  <2>1. n \in Nat /\ m \in Nat /\ n <= n /\ m <= m /\ m >= n /\ n \in 0..n /\ m \in 0..m
    BY <1>1
  <2>2. n \in T /\ m \in U
    BY <1>8, <1>9, <2>1
  <2>3. QED
    BY <1>4, <1>5, <2>1, <2>2
<1>11. QED
  BY <1>6, <1>7, <1>10 DEF u, v

\* The values of a function at finitely many places.
LEMMA FiniteImage ==
  ASSUME NEW S, IsFiniteSet(S), NEW f, f = [x \in S |-> f[x]]
  PROVE  IsFiniteSet({f[x] : x \in S})
<1> DEFINE T == {f[x] : x \in S}
<1>1. f \in Surjection(S, T)
  BY DEF Surjection
<1>2. QED
  BY <1>1, FS_Surjection

\* So a sequence has finitely many elements.
LEMMA FiniteSeq ==
  ASSUME NEW S, NEW s \in Seq(S)
  PROVE  IsFiniteSet(ToSet(s))
<1> DEFINE D == 1..Len(s)
           T == ToSet(s)
<1>1. Len(s) \in Nat /\ DOMAIN s = D /\ s \in [D -> S]
  BY LenProperties
<1>2. IsFiniteSet(D)
  BY <1>1, FS_Interval
<1> HIDE DEF D
<1>3. s \in Surjection(D, T)
  BY <1>1 DEF Surjection, ToSet
<1> HIDE DEF T
<1>4. IsFiniteSet(T)
  BY <1>2, <1>3, FS_Surjection
<1>5. QED
  BY <1>4 DEF T

\* A prefix has an index of no more lines.
LEMMA IndexTokensGrow ==
  ASSUME NEW s, NEW u, IsFiniteSet(ToSet(u)), ToSet(s) \subseteq ToSet(u)
  PROVE  /\ IndexTokens(s) \in Nat /\ IndexTokens(u) \in Nat /\ IndexTokens(s) <= IndexTokens(u)
<1> DEFINE A == {b \in ToSet(s) : b.file # NoFile}
           B == {b \in ToSet(u) : b.file # NoFile}
           files(S) == {b.file : b \in S}
           keys(S) == {Key(b) : b \in S}
<1>1. IsFiniteSet(B)
  <2>1. B \in SUBSET ToSet(u)
    OBVIOUS
  <2> HIDE DEF B
  <2>2. QED
    BY <2>1, FS_Subset
<1>2. A \subseteq B
  OBVIOUS
<1>3. IndexTokens(s) = (IF A = {} THEN 0 ELSE 1 + Cardinality(files(A)) + Cardinality(keys(A)))
  BY DEF IndexTokens
<1>4. IndexTokens(u) = (IF B = {} THEN 0 ELSE 1 + Cardinality(files(B)) + Cardinality(keys(B)))
  BY DEF IndexTokens
<1> HIDE DEF A, B
<1>5. IsFiniteSet(files(B)) /\ IsFiniteSet(keys(B))
  <2> DEFINE f == [b \in B |-> b.file]
             k == [b \in B |-> Key(b)]
  <2>1. f = [b \in B |-> f[b]] /\ {f[b] : b \in B} = files(B)
    OBVIOUS
  <2>2. k = [b \in B |-> k[b]] /\ {k[b] : b \in B} = keys(B)
    OBVIOUS
  <2> HIDE DEF f, k, files, keys
  <2>3. IsFiniteSet({f[b] : b \in B}) /\ IsFiniteSet({k[b] : b \in B})
    BY <1>1, <2>1, <2>2, FiniteImage
  <2>4. QED
    BY <2>1, <2>2, <2>3
<1>6. files(A) \in SUBSET files(B) /\ keys(A) \in SUBSET keys(B)
  BY <1>2
<1> HIDE DEF files, keys
<1>7. /\ IsFiniteSet(files(A)) /\ Cardinality(files(A)) <= Cardinality(files(B))
      /\ IsFiniteSet(keys(A)) /\ Cardinality(keys(A)) <= Cardinality(keys(B))
  BY <1>5, <1>6, FS_Subset
<1>8. /\ Cardinality(files(A)) \in Nat /\ Cardinality(files(B)) \in Nat
      /\ Cardinality(keys(A)) \in Nat /\ Cardinality(keys(B)) \in Nat
  BY <1>5, <1>7, FS_CardinalityType
<1>9. QED
  BY <1>2, <1>3, <1>4, <1>7, <1>8

\* What is not evidence.
Prompts == [examples : BOOLEAN, prior : BOOLEAN, blocks : Seq(Res), marker : BOOLEAN,
            truncated : BOOLEAN, exhausted : BOOLEAN]

\* The tokens of the other sections of a prompt,
Rest(p) == Rules + (IF p.examples THEN Examples ELSE 0) + (IF p.prior THEN Prior ELSE 0)

\* a number.
LEMMA RestIsNat == ASSUME NEW p PROVE Rest(p) \in Nat
<1>1. Rules \in Nat /\ Examples \in Nat /\ Prior \in Nat
  BY ContextAssumption
<1>2. QED
  BY <1>1 DEF Rest

\* A prompt cut to fewer blocks has fewer tokens.
LEMMA TokensGrow ==
  ASSUME NEW p \in Prompts, NEW n \in 0..Len(p.blocks), NEW m \in n..Len(p.blocks)
  PROVE  /\ Tokens(Cut(p, n)) \in Nat /\ Tokens(Cut(p, m)) \in Nat
         /\ Tokens(Cut(p, n)) <= Tokens(Cut(p, m))
<1> DEFINE s == p.blocks
           u == SubSeq(s, 1, n)
           v == SubSeq(s, 1, m)
           count(b) == Max({1, BlockTokens(b) + Marker})
<1>1. s \in Seq(Res) /\ Len(s) \in Nat /\ m \in 0..Len(s) /\ DOMAIN s = 1..Len(s)
  <2>1. s \in Seq(Res)
    BY DEF Prompts
  <2>2. QED
    BY <2>1, LenProperties
<1>2. ASSUME NEW k \in 0..Len(s)
      PROVE  Tokens(Cut(p, k)) = Rest(p) + IndexTokens(SubSeq(s, 1, k)) + count(SubSeq(s, 1, k)) + 1
  <2> DEFINE q == Cut(p, k)
  <2>1. q.examples = p.examples /\ q.prior = p.prior /\ q.blocks = SubSeq(s, 1, k) /\ q.marker = TRUE
    BY DEF Cut, Prompts
  <2> HIDE DEF q
  <2>2. Tokens(q) = Rest(p) + IndexTokens(SubSeq(s, 1, k)) + count(SubSeq(s, 1, k)) + 1
    BY <2>1 DEF Tokens, Rest, ContextTokens
  <2>3. QED
    BY <2>2 DEF q
<1>3. /\ BlockTokens(u) \in Nat /\ BlockTokens(v) \in Nat /\ BlockTokens(u) <= BlockTokens(v)
  BY <1>1, BlockTokensGrow
<1>4. ToSet(u) = {s[i] : i \in 1..n} /\ ToSet(v) = {s[i] : i \in 1..m}
  BY <1>1, FirstFacts
<1>5. IsFiniteSet(ToSet(v)) /\ ToSet(u) \subseteq ToSet(v)
  <2>1. IsFiniteSet(1..m)
    BY <1>1, FS_Interval
  <2> DEFINE f == [i \in 1..m |-> s[i]]
             J == 1..m
  <2>2. f = [i \in J |-> f[i]] /\ {f[i] : i \in J} = {s[i] : i \in 1..m}
    OBVIOUS
  <2>3. IsFiniteSet(J)
    BY <2>1
  <2>4. 1..n \subseteq 1..m
    BY <1>1
  <2> HIDE DEF f, J
  <2>5. IsFiniteSet({f[i] : i \in J})
    BY <2>2, <2>3, FiniteImage
  <2> HIDE DEF s, u, v
  <2>6. QED
    BY <1>4, <2>2, <2>4, <2>5
<1>6. IndexTokens(u) \in Nat /\ IndexTokens(v) \in Nat /\ IndexTokens(u) <= IndexTokens(v)
  BY <1>5, IndexTokensGrow
<1>7. ASSUME NEW k \in Nat PROVE Max({1, k}) = IF k >= 1 THEN k ELSE 1
  <2>1. {1, k} \in SUBSET 0..(k + 1) /\ {1, k} # {} /\ k + 1 \in Nat
    OBVIOUS
  <2>2. Max({1, k}) \in {1, k} /\ \A y \in {1, k} : y <= Max({1, k})
    BY <2>1, MaxFacts
  <2>3. QED
    BY <2>2
<1>8. Marker \in Nat
  BY ContextAssumption
<1>9. count(u) \in Nat /\ count(v) \in Nat /\ count(u) <= count(v)
  <2> DEFINE a == BlockTokens(u) + Marker
             b == BlockTokens(v) + Marker
  <2>1. a \in Nat /\ b \in Nat /\ a <= b
    BY <1>3, <1>8
  <2>2. count(u) = Max({1, a}) /\ count(v) = Max({1, b})
    OBVIOUS
  <2> HIDE DEF a, b, count
  <2>3. Max({1, a}) = (IF a >= 1 THEN a ELSE 1) /\ Max({1, b}) = (IF b >= 1 THEN b ELSE 1)
    BY <1>7, <2>1
  <2>4. QED
    BY <2>1, <2>2, <2>3
<1>10. /\ Tokens(Cut(p, n)) = Rest(p) + IndexTokens(u) + count(u) + 1
       /\ Tokens(Cut(p, m)) = Rest(p) + IndexTokens(v) + count(v) + 1
  BY <1>1, <1>2
<1>11. Rest(p) \in Nat
  BY RestIsNat
<1> HIDE DEF count, u, v
<1>12. QED
  BY <1>6, <1>9, <1>10, <1>11

-----------------------------------------------------------------------------
(* fit_context_blocks.                                                     *)

\* Up to some number, what is cut to fewer blocks fits.
Separates(p, limit, n) == \A k \in 0..(Len(p.blocks) - 1) : Fits(p, k, limit) <=> k < n

\* There is such a number: a prompt cut to fewer blocks has fewer tokens.
LEMMA SomeSeparates ==
  ASSUME NEW p \in Prompts, NEW limit \in Nat
  PROVE  \E n \in 0..Len(p.blocks) : Separates(p, limit, n)
<1> DEFINE l == Len(p.blocks)
           B == {n \in Nat : n >= l \/ ~Fits(p, n, limit)}
<1>1. l \in Nat
  <2>1. p.blocks \in Seq(Res)
    BY DEF Prompts
  <2>2. QED
    BY <2>1, LenProperties
<1>2. l \in B /\ B \in SUBSET Nat
  BY <1>1
<1>3. PICK n \in B : \A k \in B : n <= k
  <2> HIDE DEF B, l
  <2>1. QED
    BY <1>2, Least
<1>4. n \in 0..l
  BY <1>1, <1>2, <1>3
<1>5. ASSUME NEW k \in 0..(l - 1), k < n PROVE Fits(p, k, limit)
  <2>1. k \in Nat /\ k \notin B
    BY <1>1, <1>3, <1>4, <1>5
  <2>2. QED
    BY <1>1, <2>1
<1>6. ASSUME NEW k \in 0..(l - 1), ~(k < n) PROVE ~Fits(p, k, limit)
  <2>1. n \in 0..l /\ k \in n..l /\ n < l
    BY <1>1, <1>4, <1>6
  <2>2. ~Fits(p, n, limit)
    BY <1>1, <1>3, <2>1
  <2>3. /\ Tokens(Cut(p, n)) \in Nat /\ Tokens(Cut(p, k)) \in Nat
        /\ Tokens(Cut(p, n)) <= Tokens(Cut(p, k))
    BY <2>1, TokensGrow
  <2>4. QED
    BY <2>2, <2>3 DEF Fits
<1>7. Separates(p, limit, n)
  BY <1>1, <1>5, <1>6 DEF Separates
<1>8. QED
  BY <1>4, <1>7

\* A half: between the ends.
LEMMA Half ==
  ASSUME NEW a \in Nat, NEW b \in Nat, a # b
  PROVE  /\ (a + b - 1) \div 2 \in Nat
         /\ a < b => a <= (a + b - 1) \div 2 /\ (a + b - 1) \div 2 < b
         /\ b < a => b <= (a + b - 1) \div 2 /\ (a + b - 1) \div 2 < a
<1>1. CASE a < b
  BY <1>1
<1>2. CASE b < a
  BY <1>2
<1>3. QED
  BY <1>1, <1>2

\* The search of Kept.
Searches(g, p, limit) ==
  LET places == 0..Len(p.blocks)
  IN  g = [range \in places \X places |->
             LET low == range[1]
                 high == range[2]
                 mid == (low + high - 1) \div 2
             IN  IF low = high THEN low - 1
                 ELSE IF Fits(p, mid, limit) THEN g[<<mid + 1, high>>] ELSE g[<<low, mid>>]]

\* What it finds: where the blocks that fit end, if that is between low and high.
Ends(low, high, n) == IF n < low THEN low - 1 ELSE IF n > high THEN high - 1 ELSE n - 1

\* The recursion of Kept has a solution: on ranges that are empty the search goes on
\* in empty ranges, and on the others its result is where the blocks that fit end.
LEMMA SearchExists ==
  ASSUME NEW p \in Prompts, NEW limit \in Nat, NEW n \in 0..Len(p.blocks), Separates(p, limit, n)
  PROVE  \E g : Searches(g, p, limit)
<1> DEFINE l == Len(p.blocks)
           places == 0..l
           g == [range \in places \X places |->
                   IF range[1] > range[2] THEN 0 ELSE Ends(range[1], range[2], n)]
           e(low, high) == LET mid == (low + high - 1) \div 2
                           IN  IF low = high THEN low - 1
                               ELSE IF Fits(p, mid, limit) THEN g[<<mid + 1, high>>] ELSE g[<<low, mid>>]
<1>1. l \in Nat
  <2>1. p.blocks \in Seq(Res)
    BY DEF Prompts
  <2>2. QED
    BY <2>1, LenProperties
<1>2. \A low, high \in places : g[<<low, high>>] = IF low > high THEN 0 ELSE Ends(low, high, n)
  OBVIOUS
<1>3. \A k \in 0..(l - 1) : Fits(p, k, limit) <=> k < n
  BY DEF Separates
<1>4. ASSUME NEW low \in places, NEW high \in places PROVE g[<<low, high>>] = e(low, high)
  <2> DEFINE mid == (low + high - 1) \div 2
  <2>1. CASE low = high
    <3>1. e(low, high) = low - 1
      BY <2>1
    <3>2. g[<<low, high>>] = Ends(low, high, n)
      BY <1>1, <1>2, <2>1
    <3>3. QED
      BY <1>1, <2>1, <3>1, <3>2 DEF Ends
  <2>2. CASE low < high
    <3>1. low <= mid /\ mid < high /\ mid \in Nat
      BY <2>2, Half
    <3>2. e(low, high) = IF Fits(p, mid, limit) THEN g[<<mid + 1, high>>] ELSE g[<<low, mid>>]
      BY <2>2
    <3> HIDE DEF mid, e, g
    <3>3. mid + 1 \in places /\ mid \in places /\ mid \in 0..(l - 1)
      BY <1>1, <2>2, <3>1
    <3>4. g[<<mid + 1, high>>] = Ends(mid + 1, high, n) /\ g[<<low, mid>>] = Ends(low, mid, n)
      BY <1>1, <1>2, <3>1, <3>3
    <3>5. g[<<low, high>>] = Ends(low, high, n)
      BY <1>1, <1>2, <2>2
    <3>6. Fits(p, mid, limit) <=> mid < n
      BY <1>3, <3>3
    <3>7. mid < n => Ends(mid + 1, high, n) = Ends(low, high, n)
      BY <1>1, <3>1, <3>3 DEF Ends
    <3>8. ~(mid < n) => Ends(low, mid, n) = Ends(low, high, n)
      BY <1>1, <3>1, <3>3 DEF Ends
    <3>9. QED
      BY <3>2, <3>4, <3>5, <3>6, <3>7, <3>8
  <2>3. CASE low > high
    <3>1. high <= mid /\ mid < low /\ mid \in Nat
      BY <2>3, Half
    <3>2. e(low, high) = IF Fits(p, mid, limit) THEN g[<<mid + 1, high>>] ELSE g[<<low, mid>>]
      BY <2>3
    <3> HIDE DEF mid, e, g
    <3>3. mid + 1 \in places /\ mid \in places /\ mid + 1 > high /\ low > mid
      BY <1>1, <2>3, <3>1
    <3>4. g[<<mid + 1, high>>] = 0 /\ g[<<low, mid>>] = 0 /\ g[<<low, high>>] = 0
      BY <1>2, <2>3, <3>3
    <3>5. QED
      BY <3>2, <3>4
  <2>4. QED
    BY <2>1, <2>2, <2>3
<1>5. g = [range \in places \X places |-> e(range[1], range[2])]
  <2> HIDE DEF e
  <2>1. \A range \in places \X places : range = <<range[1], range[2]>> /\ range[1] \in places /\ range[2] \in places
    OBVIOUS
  <2>2. \A range \in places \X places : g[range] = e(range[1], range[2])
    BY <1>4, <2>1
  <2>3. g = [range \in places \X places |-> g[range]]
    OBVIOUS
  <2> HIDE DEF g, places
  <2>4. QED
    BY <2>2, <2>3
<1>6. Searches(g, p, limit)
  <2> HIDE DEF g
  <2>1. QED
    BY <1>5 DEF Searches
<1>7. QED
  BY <1>6

\* It finds that.
LEMMA SearchFinds ==
  ASSUME NEW p \in Prompts, NEW limit \in Nat, NEW n \in 0..Len(p.blocks), Separates(p, limit, n),
         NEW g, Searches(g, p, limit)
  PROVE  \A low, high \in 0..Len(p.blocks) : low <= high => g[<<low, high>>] = Ends(low, high, n)
<1> DEFINE l == Len(p.blocks)
           Found(low, high) == g[<<low, high>>] = Ends(low, high, n)
           T == {d \in Nat : \A low, high \in 0..l : low <= high /\ high <= low + d => Found(low, high)}
<1>1. l \in Nat
  <2>1. p.blocks \in Seq(Res)
    BY DEF Prompts
  <2>2. QED
    BY <2>1, LenProperties
<1>2. \A k \in 0..(l - 1) : Fits(p, k, limit) <=> k < n
  BY DEF Separates
<1>3. ASSUME NEW low \in 0..l, NEW high \in 0..l
      PROVE  g[<<low, high>>] =
               IF low = high THEN low - 1
               ELSE IF Fits(p, (low + high - 1) \div 2, limit)
                    THEN g[<<(low + high - 1) \div 2 + 1, high>>] ELSE g[<<low, (low + high - 1) \div 2>>]
  BY DEF Searches
<1>4. \A low, high \in 0..l : low = high => Found(low, high)
  <2>1. ASSUME NEW low \in 0..l PROVE Found(low, low)
    <3>1. g[<<low, low>>] = low - 1
      BY <1>3
    <3>2. Ends(low, low, n) = low - 1
      BY <1>1 DEF Ends
    <3>3. QED
      BY <3>1, <3>2
  <2> HIDE DEF Found
  <2>2. QED
    BY <2>1
<1>5. 0 \in T
  <2> HIDE DEF Found
  <2>1. QED
    BY <1>1, <1>4
<1>6. ASSUME NEW d \in Nat, d \in T PROVE d + 1 \in T
  <2>1. SUFFICES ASSUME NEW low \in 0..l, NEW high \in 0..l, low < high, high <= low + (d + 1)
                 PROVE  Found(low, high)
    <3> HIDE DEF Found
    <3>1. QED
      BY <1>1, <1>4, <2>1
  <2> DEFINE mid == (low + high - 1) \div 2
  <2>2. low <= mid /\ mid < high /\ mid \in Nat
    BY <2>1, Half
  <2>3. g[<<low, high>>] = IF Fits(p, mid, limit) THEN g[<<mid + 1, high>>] ELSE g[<<low, mid>>]
    <3>1. low # high
      BY <1>1, <2>1
    <3>2. QED
      BY <1>3, <3>1
  <2> HIDE DEF mid
  <2>4. mid + 1 \in 0..l /\ mid \in 0..l /\ mid \in 0..(l - 1)
    BY <1>1, <2>1, <2>2
  <2>5. Found(mid + 1, high) /\ Found(low, mid)
    <3>1. mid + 1 <= high /\ high <= mid + 1 + d /\ low <= mid /\ mid <= low + d
      BY <1>1, <2>1, <2>2
    <3> HIDE DEF Found
    <3>2. QED
      BY <1>6, <2>4, <3>1
  <2>6. Fits(p, mid, limit) <=> mid < n
    BY <1>2, <2>4
  <2>7. mid < n => Ends(mid + 1, high, n) = Ends(low, high, n)
    BY <1>1, <2>1, <2>2, <2>4 DEF Ends
  <2>8. ~(mid < n) => Ends(low, mid, n) = Ends(low, high, n)
    BY <1>1, <2>1, <2>2, <2>4 DEF Ends
  <2>9. QED
    BY <2>3, <2>5, <2>6, <2>7, <2>8
<1>7. ASSUME NEW low \in 0..l, NEW high \in 0..l, low <= high PROVE Found(low, high)
  <2> HIDE DEF T
  <2>1. \A d \in Nat : d \in T
    BY <1>5, <1>6, Induct
  <2>2. l \in T /\ high <= low + l
    BY <1>1, <2>1
  <2>3. QED
    BY <1>7, <2>2 DEF T
<1>8. QED
  BY <1>7

\* fit_context_blocks keeps as many blocks as fit, and not all of them.
LEMMA KeptFacts ==
  ASSUME NEW p \in Prompts, NEW limit \in Nat, p.blocks # <<>>
  PROVE  /\ Kept(p, limit) \in -1..(Len(p.blocks) - 1)
         /\ Kept(p, limit) >= 0 => Fits(p, Kept(p, limit), limit)
         /\ \A k \in 0..(Len(p.blocks) - 1) : k > Kept(p, limit) => ~Fits(p, k, limit)
<1> DEFINE l == Len(p.blocks)
           h == CHOOSE g : Searches(g, p, limit)
<1>1. l \in Nat \ {0}
  <2>1. p.blocks \in Seq(Res)
    BY DEF Prompts
  <2>2. QED
    BY <2>1, LenProperties, EmptySeq
<1>2. PICK n \in 0..l : Separates(p, limit, n)
  BY SomeSeparates
<1>3. Searches(h, p, limit)
  <2>1. \E g : Searches(g, p, limit)
    BY <1>2, SearchExists
  <2>2. QED
    BY <2>1
<1>4. Kept(p, limit) = h[<<0, l>>]
  BY DEF Kept, Searches
<1> HIDE DEF h
<1>5. h[<<0, l>>] = Ends(0, l, n)
  <2>1. 0 \in 0..l /\ l \in 0..l /\ 0 <= l
    BY <1>1
  <2>2. QED
    BY <1>2, <1>3, <2>1, SearchFinds
<1>6. Kept(p, limit) = n - 1
  BY <1>1, <1>4, <1>5 DEF Ends
<1>7. \A k \in 0..(l - 1) : Fits(p, k, limit) <=> k < n
  BY <1>2 DEF Separates
<1> HIDE DEF l
<1>8. n - 1 \in -1..(l - 1) /\ (n - 1 >= 0 => n - 1 \in 0..(l - 1) /\ n - 1 < n) /\ \A k \in 0..(l - 1) : k > n - 1 => ~(k < n)
  BY <1>1
<1>9. QED
  BY <1>6, <1>7, <1>8 DEF l

\* The larger of one and a number.
LEMMA AtLeastOne == ASSUME NEW k \in Nat PROVE Max({1, k}) \in Nat
<1>1. {1, k} \in SUBSET 0..(k + 1) /\ {1, k} # {} /\ k + 1 \in Nat
  OBVIOUS
<1>2. Max({1, k}) \in {1, k}
  BY <1>1, MaxFacts
<1>3. QED
  BY <1>2

\* The tokens of a prompt are a number,
LEMMA TokensIsNat == ASSUME NEW p \in Prompts PROVE Tokens(p) \in Nat
<1> DEFINE s == p.blocks
           n == BlockTokens(s) + (IF p.marker THEN Marker ELSE 0)
<1>1. s \in Seq(Res)
  BY DEF Prompts
<1> HIDE DEF s
<1>2. BlockTokens(s) \in Nat
  <2>1. PICK f \in [0..Len(s) -> Nat] : WeighingGoes(f, s)
    BY <1>1, WeighingSteps
  <2>2. Len(s) \in 0..Len(s)
    BY <1>1, LenProperties
  <2>3. QED
    BY <2>1, <2>2 DEF WeighingGoes
<1>3. IndexTokens(s) \in Nat
  <2>1. IsFiniteSet(ToSet(s))
    BY <1>1, FiniteSeq
  <2>2. QED
    BY <2>1, IndexTokensGrow
<1>4. n \in Nat
  BY <1>2, ContextAssumption
<1>5. Tokens(p) = Rest(p) + IndexTokens(s) + Max({1, n}) + 1
  BY DEF Tokens, Rest, ContextTokens, s
<1> HIDE DEF n
<1>6. Max({1, n}) \in Nat /\ Rest(p) \in Nat
  BY <1>4, AtLeastOne, RestIsNat
<1>7. QED
  BY <1>3, <1>5, <1>6

\* The tokens of a prompt are those of its sections.
LEMMA SameTokens ==
  ASSUME NEW p, NEW q, p.examples = q.examples, p.prior = q.prior, p.blocks = q.blocks, p.marker = q.marker
  PROVE  Tokens(p) = Tokens(q)
  BY DEF Tokens

\* What was cut of the context is what the budget asks.
AsAsked(p, limit, all) ==
  /\ ~p.examples /\ ~p.prior
  /\ IsPrefix(p.blocks, all)
  /\ Tokens(p) <= limit \/ (~p.marker /\ p.blocks = <<>>)
  /\ p.truncated => \A n \in 0..(Len(all) - 1) :
       n > Len(p.blocks) \/ ~p.marker => Tokens(Cut([p EXCEPT !.blocks = all], n)) > limit

\* The first blocks are a prefix.
LEMMA PrefixFacts ==
  ASSUME NEW S, NEW s \in Seq(S)
  PROVE  /\ IsPrefix(s, s) /\ IsPrefix(<<>>, s)
         /\ \A n \in 0..Len(s) : IsPrefix(SubSeq(s, 1, n), s)
<1>1. Len(s) \in Nat /\ Len(s) <= Len(s)
  BY LenProperties
<1>2. ASSUME NEW n \in 0..Len(s) PROVE IsPrefix(SubSeq(s, 1, n), s)
  <2> DEFINE u == SubSeq(s, 1, n)
  <2>1. u \in Seq(S) /\ Len(u) = n
    BY FirstFacts
  <2> HIDE DEF u
  <2>2. SubSeq(u, 1, n) = u
    <3> DEFINE v == SubSeq(u, 1, n)
    <3>1. n \in 0..Len(u) /\ n \in Nat
      BY <1>1, <2>1
    <3>2. v \in Seq(S) /\ Len(v) = n /\ \A i \in 1..n : v[i] = u[i]
      BY <2>1, <3>1, FirstFacts
    <3>3. DOMAIN v = 1..n /\ DOMAIN u = 1..n /\ v = [i \in DOMAIN v |-> v[i]] /\ u = [i \in DOMAIN u |-> u[i]]
      BY <2>1, <3>2, LenProperties
    <3> HIDE DEF v
    <3>4. v = u
      BY <3>2, <3>3
    <3>5. QED
      BY <3>4 DEF v
  <2>3. n <= Len(s)
    BY <1>1
  <2>4. QED
    BY <2>1, <2>2, <2>3 DEF IsPrefix, u
<1>3. IsPrefix(s, s)
  BY <1>1 DEF IsPrefix
<1>4. IsPrefix(<<>>, s)
  <2>1. 0 \in 0..Len(s)
    BY <1>1
  <2>2. SubSeq(s, 1, 0) \in Seq(S) /\ Len(SubSeq(s, 1, 0)) = 0
    BY <2>1, FirstFacts
  <2>3. SubSeq(s, 1, 0) = <<>>
    BY <2>2, EmptySeq
  <2>4. QED
    BY <1>2, <2>1, <2>3
<1>5. QED
  BY <1>2, <1>3, <1>4

\* Trimming cuts as asked.
LEMMA TrimmedFacts ==
  ASSUME NEW p \in Prompts, NEW limit \in Nat, ~p.examples, ~p.prior, ~p.truncated, ~p.marker
  PROVE  LET q == [Trimmed(p, limit) EXCEPT !.exhausted = TRUE]
         IN  /\ q \in Prompts /\ q.exhausted
             /\ AsAsked(q, limit, p.blocks)
<1> DEFINE all == p.blocks
           t == Trimmed(p, limit)
           q == [t EXCEPT !.exhausted = TRUE]
           k == Kept(p, limit)
<1>1. all \in Seq(Res) /\ Len(all) \in Nat /\ <<>> \in Seq(Res)
  <2>1. all \in Seq(Res)
    BY DEF Prompts
  <2>2. QED
    BY <2>1, LenProperties, EmptySeq
<1>2. IsPrefix(all, all) /\ IsPrefix(<<>>, all) /\ \A n \in 0..Len(all) : IsPrefix(SubSeq(all, 1, n), all)
  BY <1>1, PrefixFacts
<1>3. CASE all = <<>>
  <2>1. t = p
    BY <1>3 DEF Trimmed
  <2>2. q = [p EXCEPT !.exhausted = TRUE]
    BY <2>1
  <2> HIDE DEF q, t, all
  <2>3. /\ q \in Prompts /\ q.exhausted /\ ~q.examples /\ ~q.prior /\ ~q.truncated /\ ~q.marker
        /\ q.blocks = all
    BY <2>2 DEF Prompts, all
  <2>4. AsAsked(q, limit, all)
    BY <1>2, <1>3, <2>3 DEF AsAsked
  <2>5. QED
    BY <2>3, <2>4 DEF q, t, all
<1>4. CASE all # <<>>
  <2>1. /\ k \in -1..(Len(all) - 1)
        /\ k >= 0 => Fits(p, k, limit)
        /\ \A n \in 0..(Len(all) - 1) : n > k => ~Fits(p, n, limit)
    BY <1>4, KeptFacts
  <2>2. ASSUME NEW n \in 0..(Len(all) - 1), n > k PROVE Tokens(Cut(p, n)) > limit
    <3>1. n \in 0..Len(all) /\ n \in n..Len(all)
      BY <1>1
    <3>2. Tokens(Cut(p, n)) \in Nat
      BY <3>1, TokensGrow
    <3>3. QED
      BY <2>1, <2>2, <3>2 DEF Fits
  <2> HIDE DEF k
  <2>3. CASE k < 0
    <3>1. t = [p EXCEPT !.blocks = <<>>, !.truncated = TRUE]
      BY <1>4, <2>3 DEF Trimmed, k
    <3>2. q = [[p EXCEPT !.blocks = <<>>, !.truncated = TRUE] EXCEPT !.exhausted = TRUE]
      BY <3>1
    <3> HIDE DEF q, t
    <3>3. /\ q \in Prompts /\ q.exhausted /\ ~q.examples /\ ~q.prior /\ ~q.marker
          /\ q.blocks = <<>> /\ q.examples = p.examples /\ q.prior = p.prior
      BY <1>1, <3>2 DEF Prompts
    <3>4. ASSUME NEW n \in 0..(Len(all) - 1) PROVE Tokens(Cut([q EXCEPT !.blocks = all], n)) > limit
      <4>1. Tokens(Cut(p, n)) > limit
        BY <2>1, <2>2, <2>3
      <4> DEFINE x == Cut([q EXCEPT !.blocks = all], n)
                 y == Cut(p, n)
      <4>2. x.examples = y.examples /\ x.prior = y.prior /\ x.blocks = y.blocks /\ x.marker = y.marker
        BY <3>3 DEF Cut, Prompts
      <4> HIDE DEF x, y
      <4>3. Tokens(x) = Tokens(y)
        BY <4>2, SameTokens
      <4>4. QED
        BY <4>1, <4>3 DEF x, y
    <3> HIDE DEF all
    <3>5. AsAsked(q, limit, all)
      BY <1>2, <3>3, <3>4 DEF AsAsked
    <3>6. QED
      BY <3>3, <3>5 DEF q, t, all
  <2>4. CASE k >= 0
    <3>1. t = [Cut(p, k) EXCEPT !.truncated = TRUE]
      <4>1. ~(k < 0)
        BY <2>1, <2>4
      <4>2. QED
        BY <1>4, <4>1 DEF Trimmed, k
    <3>2. q = [[Cut(p, k) EXCEPT !.truncated = TRUE] EXCEPT !.exhausted = TRUE]
      BY <3>1
    <3> HIDE DEF q, t
    <3>3. k \in 0..Len(all) /\ k \in Nat
      BY <1>1, <2>1, <2>4
    <3> DEFINE first == SubSeq(all, 1, k)
    <3>4. first \in Seq(Res) /\ Len(first) = k
      BY <1>1, <3>3, FirstFacts
    <3>5. Cut(p, k) = [p EXCEPT !.blocks = first, !.marker = TRUE]
      BY DEF Cut
    <3> HIDE DEF first
    <3>6. /\ q \in Prompts /\ q.exhausted /\ ~q.examples /\ ~q.prior /\ q.marker
          /\ q.blocks = first /\ q.examples = p.examples /\ q.prior = p.prior
      BY <3>2, <3>4, <3>5 DEF Prompts
    <3>7. Tokens(q) <= limit
      <4> DEFINE y == Cut(p, k)
      <4>1. q.examples = y.examples /\ q.prior = y.prior /\ q.blocks = y.blocks /\ q.marker = y.marker
        BY <3>5, <3>6 DEF Prompts
      <4>2. Tokens(y) <= limit
        BY <2>1, <2>4 DEF Fits
      <4> HIDE DEF y
      <4>3. Tokens(q) = Tokens(y)
        BY <4>1, SameTokens
      <4>4. QED
        BY <4>2, <4>3
    <3>8. ASSUME NEW n \in 0..(Len(all) - 1), n > Len(q.blocks) \/ ~q.marker
          PROVE  Tokens(Cut([q EXCEPT !.blocks = all], n)) > limit
      <4>1. Tokens(Cut(p, n)) > limit
        BY <2>1, <2>2, <3>4, <3>6, <3>8
      <4> DEFINE x == Cut([q EXCEPT !.blocks = all], n)
                 y == Cut(p, n)
      <4>2. x.examples = y.examples /\ x.prior = y.prior /\ x.blocks = y.blocks /\ x.marker = y.marker
        BY <3>6 DEF Cut, Prompts
      <4> HIDE DEF x, y
      <4>3. Tokens(x) = Tokens(y)
        BY <4>2, SameTokens
      <4>4. QED
        BY <4>1, <4>3 DEF x, y
    <3>9. IsPrefix(q.blocks, all)
      BY <1>2, <3>3, <3>6 DEF first
    <3> HIDE DEF all
    <3>10. AsAsked(q, limit, all)
      BY <3>6, <3>7, <3>8, <3>9 DEF AsAsked
    <3>11. QED
      BY <3>6, <3>10 DEF q, t, all
  <2>5. QED
    BY <2>1, <2>3, <2>4
<1>5. QED
  BY <1>3, <1>4

-----------------------------------------------------------------------------
(* The prompt.                                                             *)

\* What was made of the results: blocks they account for, and a prompt of them that
\* has all of them as long as it is not trimmed.
Accounted == {b \in Res : Grounded(ToSet(results), b)}

\* The prompt of a round.
LEMMA OpeningFacts ==
  ASSUME NEW e \in BOOLEAN, NEW q \in BOOLEAN, NEW b \in Seq(Res), NEW p,
         p = [examples |-> e, prior |-> q, blocks |-> b, marker |-> FALSE,
              truncated |-> FALSE, exhausted |-> FALSE]
  PROVE  p \in Prompts /\ p.blocks = b /\ ~p.truncated /\ ~p.marker /\ ~p.exhausted
<1>1. p \in Prompts
  BY DEF Prompts
<1>2. QED
  BY <1>1

\* The inductive invariant of the assembly and the trimming.
BuildInv ==
  /\ budget \in Nat /\ prior \in BOOLEAN /\ prompt \in Prompts
  /\ context \in Seq(Accounted)
  /\ pc \in {"index", "search", "fuse", "rerank"} => context = <<>>
  /\ pc \in {"build", "done"} =>
       IF prompt.exhausted THEN AsAsked(prompt, budget, context)
       ELSE prompt.blocks = context /\ ~prompt.truncated /\ ~prompt.marker
  /\ pc = "done" => prompt.exhausted \/ Tokens(prompt) <= budget

\* The empty prompt is a prompt.
LEMMA NoPromptFacts == NoPrompt \in Prompts /\ ~NoPrompt.truncated /\ ~NoPrompt.marker /\ ~NoPrompt.exhausted
<1>1. <<>> \in Seq(Res)
  BY EmptySeq
<1>2. QED
  BY <1>1 DEF NoPrompt, Prompts

\* It holds at first,
LEMMA BuildInit == ASSUME Init PROVE BuildInv
<1>1. budget = 0 /\ prior = FALSE /\ prompt = NoPrompt /\ context = <<>> /\ pc = "index"
  BY DEF Init
<1>2. <<>> \in Seq(Accounted)
  BY EmptySeq
<1>3. QED
  BY <1>1, <1>2, NoPromptFacts DEF BuildInv

\* and after every step.
LEMMA BuildStep == ASSUME SearchInv, BuildInv, [Next]_vars PROVE BuildInv'
<1>1. /\ budget \in Nat /\ prior \in BOOLEAN /\ prompt \in Prompts
      /\ context \in Seq(Accounted)
  BY DEF BuildInv
<1>2. CASE UNCHANGED vars
  BY <1>2 DEF vars, BuildInv, Accounted
<1>3. CASE IndexFiles \/ SearchHybrid \/ Fuse \/ Rerank \/ SearchOne
  <2>1. /\ pc \in {"index", "search", "fuse", "rerank"} /\ pc' \in {"search", "fuse", "rerank"}
        /\ UNCHANGED <<budget, prior, results, context, prompt>>
    BY <1>3 DEF IndexFiles, SearchHybrid, Fuse, Rerank, SearchOne
  <2>2. context' = <<>> /\ pc' \notin {"build", "done"}
    BY <2>1 DEF BuildInv
  <2>3. context' \in Seq(Accounted')
    BY <2>2, EmptySeq
  <2>4. QED
    BY <1>1, <2>1, <2>2, <2>3 DEF BuildInv
<1>4. CASE Merge
  <2>1. /\ pc = "search" /\ pc' = "assemble" /\ budget' \in Budgets /\ prior' \in BOOLEAN
        /\ UNCHANGED <<context, prompt>>
    BY <1>4 DEF Merge
  <2>2. budget' \in Nat
    BY <2>1, ContextAssumption
  <2>3. context' = <<>>
    BY <2>1 DEF BuildInv
  <2>4. context' \in Seq(Accounted')
    BY <2>3, EmptySeq
  <2>5. QED
    BY <1>1, <2>1, <2>2, <2>4 DEF BuildInv
<1>5. CASE Assemble
  <2>1. /\ pc' = "build" /\ context' = Assembled(results, ctx)
        /\ prompt' = [NoPrompt EXCEPT !.examples = Examples > 0, !.prior = prior, !.blocks = context']
        /\ UNCHANGED <<budget, prior, results>>
    BY <1>5 DEF Assemble
  <2>2. results \in Seq(Res) /\ DOMAIN src = 1..Len(src) /\ Len(src) \in Nat
    <3>1. src \in Seq({file \in Seq(Node) : IsSource(file)}) /\ results \in Seq(Res)
      BY DEF SearchInv, IndexOK, SearchOK
    <3>2. QED
      BY <3>1, LenProperties
  <2>3. Assembled(results, ctx) \in Seq(Accounted)
    BY <2>2, AssembledFacts DEF Accounted
  <2>4. Accounted' = Accounted
    BY <2>1 DEF Accounted
  <2>5. context' \in Seq(Res)
    <3>1. Accounted \subseteq Res
      BY DEF Accounted
    <3>2. Seq(Accounted) \subseteq Seq(Res)
      BY <3>1, SeqMonotonic
    <3>3. QED
      BY <2>1, <2>3, <3>2
  <2>6. /\ prompt' \in Prompts /\ prompt'.blocks = context'
        /\ ~prompt'.truncated /\ ~prompt'.marker /\ ~prompt'.exhausted
    <3>1. (Examples > 0) \in BOOLEAN
      OBVIOUS
    <3> DEFINE e == Examples > 0
               b == context'
    <3>2. prompt' = [examples |-> e, prior |-> prior, blocks |-> b, marker |-> FALSE,
                     truncated |-> FALSE, exhausted |-> FALSE]
      BY <2>1 DEF NoPrompt
    <3>3. e \in BOOLEAN /\ b \in Seq(Res) /\ prior \in BOOLEAN
      BY <1>1, <2>5, <3>1
    <3> HIDE DEF e, b
    <3>4. prompt' \in Prompts /\ prompt'.blocks = b /\ ~prompt'.truncated /\ ~prompt'.marker /\ ~prompt'.exhausted
      BY <3>2, <3>3, OpeningFacts
    <3>5. QED
      BY <3>4 DEF b
  <2>7. QED
    BY <1>1, <2>1, <2>3, <2>4, <2>6 DEF BuildInv
<1>6. CASE DropExamples \/ DropPrior
  <2>1. /\ pc = "build" /\ pc' = "build" /\ ~prompt.exhausted
        /\ prompt' = [prompt EXCEPT !.examples = FALSE] \/ prompt' = [prompt EXCEPT !.prior = FALSE]
        /\ UNCHANGED <<budget, prior, results, context>>
    BY <1>6 DEF DropExamples, DropPrior, TooLong
  <2>2. prompt.blocks = context /\ ~prompt.truncated /\ ~prompt.marker
    BY <2>1 DEF BuildInv
  <2>3. /\ prompt' \in Prompts /\ prompt'.blocks = context'
        /\ ~prompt'.truncated /\ ~prompt'.marker /\ ~prompt'.exhausted
    BY <1>1, <2>1, <2>2 DEF Prompts
  <2>4. Accounted' = Accounted
    BY <2>1 DEF Accounted
  <2>5. QED
    BY <1>1, <2>1, <2>3, <2>4 DEF BuildInv
<1>7. CASE Trim
  <2>1. /\ pc = "build" /\ pc' = "build" /\ ~prompt.exhausted /\ ~prompt.examples /\ ~prompt.prior
        /\ prompt' = [Trimmed(prompt, budget) EXCEPT !.exhausted = TRUE]
        /\ UNCHANGED <<budget, prior, results, context>>
    BY <1>7 DEF Trim, TooLong
  <2>2. prompt.blocks = context /\ ~prompt.truncated /\ ~prompt.marker
    BY <2>1 DEF BuildInv
  <2>3. prompt' \in Prompts /\ prompt'.exhausted /\ AsAsked(prompt', budget, context)
    BY <1>1, <2>1, <2>2, TrimmedFacts
  <2>4. Accounted' = Accounted
    BY <2>1 DEF Accounted
  <2>5. AsAsked(prompt', budget', context')
    BY <2>1, <2>3
  <2>6. QED
    BY <1>1, <2>1, <2>3, <2>4, <2>5 DEF BuildInv
<1>8. CASE Reassemble
  <2>1. pc' = "assemble" /\ UNCHANGED <<budget, prior, results, context, prompt>>
    BY <1>8 DEF Reassemble
  <2>2. Accounted' = Accounted
    BY <2>1 DEF Accounted
  <2>3. QED
    BY <1>1, <2>1, <2>2 DEF BuildInv
<1>9. CASE Emit
  <2>1. /\ pc = "build" /\ pc' = "done" /\ ~(Tokens(prompt) > budget /\ ~prompt.exhausted)
        /\ UNCHANGED <<budget, prior, results, context, prompt>>
    BY <1>9 DEF Emit, Built, TooLong
  <2>2. Accounted' = Accounted
    BY <2>1 DEF Accounted
  <2>3. Tokens(prompt) \in Nat
    BY <1>1, TokensIsNat
  <2>4. prompt.exhausted \/ Tokens(prompt) <= budget
    BY <1>1, <2>1, <2>3
  <2>5. Tokens(prompt') = Tokens(prompt) /\ AsAsked(prompt', budget', context') = AsAsked(prompt, budget, context)
    BY <2>1
  <2>6. QED
    BY <1>1, <2>1, <2>2, <2>4, <2>5 DEF BuildInv
<1>10. QED
  BY <1>2, <1>3, <1>4, <1>5, <1>6, <1>7, <1>8, <1>9 DEF Next, Answered

\* So it holds always.
LEMMA Building == Spec => [](SearchInv /\ BuildInv)
<1>1. Init => SearchInv /\ BuildInv
  BY SearchInit, BuildInit
<1>2. SearchInv /\ BuildInv /\ [Next]_vars => (SearchInv /\ BuildInv)'
  BY SearchStep, BuildStep
<1>3. QED
  BY <1>1, <1>2, PTL DEF Spec

\* When PromptBuilder is done with a round, the prompt is within the budget or has nothing
\* left that can be left out, its blocks are the first of the assembler's, and one block
\* more would have broken the budget: the binary search of fit_context_blocks cuts exactly
\* as much as is asked, because fewer blocks never have more tokens
\* (prompt_builder.py:437-493, 1033-1047).
THEOREM PromptCorrect == Spec => []PromptFits
<1>1. BuildInv => PromptFits
  <2>1. SUFFICES ASSUME BuildInv, Built \/ pc = "done"
                 PROVE  /\ IsPrefix(prompt.blocks, context)
                        /\ \/ Tokens(prompt) <= budget
                           \/ ~(prompt.examples \/ prompt.prior \/ prompt.marker \/ prompt.blocks # <<>>)
                        /\ prompt.truncated =>
                             \A n \in 0..(Len(context) - 1) :
                               n > Len(prompt.blocks) \/ ~prompt.marker
                                 => Tokens(Cut([prompt EXCEPT !.blocks = context], n)) > budget
    BY DEF PromptFits
  <2>2. /\ budget \in Nat /\ prompt \in Prompts /\ context \in Seq(Accounted)
        /\ pc \in {"build", "done"}
    BY <2>1 DEF BuildInv, Built
  <2>3. prompt.exhausted \/ Tokens(prompt) <= budget
    <3>1. Tokens(prompt) \in Nat
      BY <2>2, TokensIsNat
    <3>2. QED
      BY <2>1, <2>2, <3>1 DEF BuildInv, Built, TooLong
  <2>4. CASE prompt.exhausted
    <3>1. AsAsked(prompt, budget, context)
      BY <2>1, <2>2, <2>4 DEF BuildInv
    <3>2. QED
      BY <3>1 DEF AsAsked
  <2>5. CASE ~prompt.exhausted
    <3>1. prompt.blocks = context /\ ~prompt.truncated
      BY <2>1, <2>2, <2>5 DEF BuildInv
    <3>2. IsPrefix(context, context)
      BY <2>2, PrefixFacts
    <3>3. QED
      BY <2>3, <2>5, <3>1, <3>2
  <2>6. QED
    BY <2>4, <2>5
<1>2. QED
  BY <1>1, Building, PTL

-----------------------------------------------------------------------------
(* The citations.                                                          *)

\* A prefix is of the same elements.
LEMMA PrefixIn ==
  ASSUME NEW S, NEW s \in Seq(S), NEW T, NEW t \in Seq(T), IsPrefix(s, t)
  PROVE  ToSet(s) \subseteq T
<1> DEFINE n == Len(s)
<1>1. n \in Nat /\ DOMAIN s = 1..n /\ Len(t) \in Nat /\ \A i \in 1..Len(t) : t[i] \in T
  BY LenProperties, ElementOfSeq
<1>2. n <= Len(t) /\ SubSeq(s, 1, n) = SubSeq(t, 1, n)
  BY DEF IsPrefix
<1>3. n \in 0..Len(s) /\ n \in 0..Len(t)
  BY <1>1, <1>2
<1> HIDE DEF n
<1>4. \A i \in 1..n : SubSeq(s, 1, n)[i] = s[i] /\ SubSeq(t, 1, n)[i] = t[i]
  BY <1>3, FirstFacts
<1>5. \A i \in 1..n : s[i] = t[i] /\ i \in 1..Len(t)
  BY <1>1, <1>2, <1>4
<1>6. QED
  BY <1>1, <1>5 DEF ToSet

\* Some of the lines of a range, by their positions.
Within(text, a, from, to) == SubSeq(text, from + 1 - a, Min({to + 1 - a, Len(text)}))

\* They are the lines of those numbers.
LEMMA LinesWithin ==
  ASSUME NEW a \in Nat, NEW b \in Nat, NEW from \in Nat, NEW to \in Nat, a <= from, from <= to, to <= b
  PROVE  Within(Lines(a, b), a, from, to) = Lines(from, to)
<1> DEFINE s == Lines(a, b)
           i == from + 1 - a
           j == to + 1 - a
           u == SubSeq(s, i, j)
           w == Lines(from, to)
           l == to + 1 - from
<1>1. s \in Seq(Nat) /\ Len(s) = b + 1 - a
  BY LinesFacts
<1>2. w \in Seq(Nat) /\ Len(w) = l
  BY LinesFacts
<1>3. Min({j, Len(s)}) = j
  <2>1. j \in Nat /\ b + 1 - a \in Nat /\ j <= b + 1 - a
    OBVIOUS
  <2> HIDE DEF j, s
  <2>2. Min({j, Len(s)}) = IF j <= Len(s) THEN j ELSE Len(s)
    BY <1>1, <2>1, MinOfTwo
  <2>3. QED
    BY <1>1, <2>1, <2>2
<1>4. \A k \in 1..(b + 1 - a) : s[k] = a + k - 1
  BY DEF Lines
<1>5. \A k \in 1..l : w[k] = from + k - 1
  BY DEF Lines
<1>6. /\ i \in 1..(Len(s) + 1) /\ j \in (i - 1)..Len(s) /\ j - i + 1 = l
      /\ \A k \in 1..l : i + k - 1 \in 1..(b + 1 - a) /\ a + (i + k - 1) - 1 = from + k - 1
  <2> HIDE DEF s
  <2>1. QED
    BY <1>1
<1> HIDE DEF s, w, i, j, l
<1>7. /\ u \in Seq(Nat) /\ Len(u) = j - i + 1
      /\ \A k \in 1..(j - i + 1) : u[k] = s[i + k - 1]
  BY <1>1, <1>6, SubSeqProperties
<1> HIDE DEF u
<1>8. DOMAIN u = 1..l /\ DOMAIN w = 1..l /\ u = [k \in DOMAIN u |-> u[k]] /\ w = [k \in DOMAIN w |-> w[k]]
  BY <1>2, <1>6, <1>7, LenProperties
<1>9. \A k \in 1..l : u[k] = w[k]
  <2>1. ASSUME NEW k \in 1..l PROVE u[k] = w[k]
    <3>1. u[k] = s[i + k - 1] /\ i + k - 1 \in 1..(b + 1 - a) /\ a + (i + k - 1) - 1 = from + k - 1
      BY <1>6, <1>7
    <3>2. s[i + k - 1] = a + (i + k - 1) - 1
      BY <1>4, <3>1
    <3>3. QED
      BY <1>5, <3>1, <3>2
  <2>2. QED
    BY <2>1
<1>10. u = w
  BY <1>8, <1>9
<1>11. QED
  BY <1>3, <1>10 DEF Within, u, w, s, i, j

\* What can be cited has lines.
LEMMA CitationsFacts == ASSUME IndexOK, NEW c \in Citations PROVE c.start \in Nat /\ c.end \in Nat
<1>1. PICK f \in DOMAIN src : c \in [file : {f}, start : LinesOf(f), end : LinesOf(f)]
  BY DEF Citations
<1>2. c.start \in LinesOf(f) /\ c.end \in LinesOf(f)
  BY <1>1
<1>3. ASSUME NEW l \in LinesOf(f) PROVE l \in Nat
  <2>1. PICK n \in ToSet(src[f]) : l \in 1..n.last
    BY DEF LinesOf
  <2>2. PICK k \in DOMAIN src[f] : src[f][k] = n
    BY DEF ToSet
  <2>3. n.last \in Nat
    BY <2>2, SourcesFacts, SourceFacts DEF IndexOK
  <2>4. QED
    BY <2>1, <2>3
<1>4. QED
  BY <1>2, <1>3

\* A valid citation is of a block of the prompt that has it.
LEMMA BlockOfFacts ==
  ASSUME prompt.blocks \in Seq(Res), NEW c, Valid(c)
  PROVE  BlockOf(c) \in ToSet(prompt.blocks) /\ Contained(c, BlockOf(c))
<1> DEFINE s == prompt.blocks
           I == {i \in 1..Len(s) : Contained(c, s[i])}
<1>1. Len(s) \in Nat /\ DOMAIN s = 1..Len(s)
  BY LenProperties
<1>2. I \in SUBSET Nat /\ I # {}
  <2>1. PICK b \in ToSet(s) : Contained(c, b)
    BY DEF Valid
  <2>2. PICK i \in DOMAIN s : s[i] = b
    BY DEF ToSet
  <2>3. i \in I
    BY <1>1, <2>1, <2>2
  <2>4. QED
    BY <1>1, <2>3
<1>3. BlockOf(c) = s[Min(I)]
  BY <1>2 DEF BlockOf, SelectInSeq
<1>4. Min(I) \in I
  <2> HIDE DEF I
  <2>1. QED
    BY <1>2, MinFacts
<1>5. QED
  BY <1>1, <1>3, <1>4 DEF ToSet

\* In an answered question, a citation that validate_citations finds valid cites only lines
\* that were retrieved; and where the results of its file hold just their lines, the snippet
\* cut from the merged block is those lines (citation.py:267-300, context_assembler.py:112-173).
THEOREM CitationsCorrect == Spec => []CitationsSound
<1>1. ASSUME SearchInv, BuildInv, pc = "done", NEW c \in Citations, Valid(c)
      PROVE  LET of == {r \in ToSet(results) : r.file = c.file}
             IN  /\ c.start..c.end \subseteq UNION {r.start..r.end : r \in of}
                 /\ (\A r \in of : Exact(r)) => Snippet(c) = Lines(c.start, c.end)
  <2> DEFINE b == BlockOf(c)
             R == ToSet(results)
  <2>1. prompt \in Prompts /\ context \in Seq(Accounted)
    BY <1>1 DEF BuildInv
  <2>2. prompt.blocks \in Seq(Res)
    BY <2>1 DEF Prompts
  <2>3. IsPrefix(prompt.blocks, context)
    <3>1. IsPrefix(context, context)
      BY <2>1, PrefixFacts
    <3>2. QED
      BY <1>1, <3>1 DEF BuildInv, AsAsked
  <2>4. ToSet(prompt.blocks) \subseteq Accounted
    BY <2>1, <2>2, <2>3, PrefixIn
  <2>5. b \in Accounted /\ Contained(c, b)
    BY <1>1, <2>2, <2>4, BlockOfFacts
  <2> HIDE DEF b
  <2>6. b \in Res /\ Grounded(R, b)
    BY <2>5 DEF Accounted
  <2>7. b.start \in Nat /\ b.end \in Nat /\ b.text \in Seq(Nat)
    BY <2>6 DEF Res
  <2>8. b.file = c.file /\ b.start <= c.start /\ c.start <= c.end /\ c.end <= b.end
    BY <2>5 DEF Contained
  <2>9. c.start \in Nat /\ c.end \in Nat
    BY <1>1, CitationsFacts DEF SearchInv
  <2>10. c.start..c.end \subseteq Cover(R, c.file)
    <3>1. b.start..b.end \subseteq Cover(R, c.file)
      BY <2>6, <2>8 DEF Grounded
    <3>2. c.start..c.end \subseteq b.start..b.end
      BY <2>7, <2>8, <2>9
    <3>3. QED
      BY <3>1, <3>2
  <2>11. ASSUME \A r \in R : r.file = c.file => Exact(r) PROVE Snippet(c) = Lines(c.start, c.end)
    <3>1. b.text = Lines(b.start, b.end)
      BY <2>6, <2>8, <2>11 DEF Grounded, Exact
    <3>2. Snippet(c) = Within(b.text, b.start, c.start, c.end)
      BY DEF Snippet, Within, b
    <3>3. Within(Lines(b.start, b.end), b.start, c.start, c.end) = Lines(c.start, c.end)
      BY <2>7, <2>8, <2>9, LinesWithin
    <3>4. QED
      BY <3>1, <3>2, <3>3
  <2>12. QED
    BY <2>10, <2>11 DEF Cover
<1>2. SearchInv /\ BuildInv => CitationsSound
  BY <1>1 DEF CitationsSound
<1>3. QED
  BY <1>2, Building, PTL
=============================================================================
