--------------------------- MODULE EmbedCacheProofs ---------------------------
(***************************************************************************)
(* The properties of EmbedCache for any number of threads, any batches and *)
(* any size of the cache.  PlaceInv follows each place of a batch from the *)
(* scan through the misses and the pass to its vector.                     *)
(***************************************************************************)
EXTENDS EmbedCache, FiniteSetTheorems, SequenceTheorems, TLAPS

\* The parts of the type of a thread's variables that the steps rely on.
ThreadTypes(t) ==
  /\ batch[t] \in Seq(Texts)
  /\ at[t] \in Nat \ {0}
  /\ misses[t] \in Seq(Keys) /\ pass[t] \in Seq(Keys)
  /\ results[t] \in Seq(Texts \cup {Zero, None})
  /\ Len(results[t]) = Len(batch[t])

\* A place has its vector, is still to be looked up, or its text is computed.
PlaceInv(t) ==
  \A i \in 1..Len(batch[t]) :
    \/ results[t][i] = Vector(batch[t][i])
    \/ i >= at[t]
    \/ batch[t][i] \in ToSet(misses[t]) \cup ToSet(pass[t])

\* What a thread has behind it at each label.
StageInv(t) ==
  /\ pc[t] = "touch" =>
       /\ at[t] <= Len(batch[t]) /\ Text(t) \in Keys
       /\ results[t][at[t]] = Text(t)
  /\ pc[t] \in {"get", "touch"} => pass[t] = <<>>
  /\ pc[t] \in {"forward", "store", "check", "pop", "done"} => at[t] > Len(batch[t])
  /\ pc[t] \in {"forward", "done"} => pass[t] = <<>>
  /\ pc[t] = "done" => misses[t] = <<>>

Distinct == \A i, j \in 1..Len(cache) : cache[i] = cache[j] => i = j

Local(t) == ThreadTypes(t) /\ PlaceInv(t) /\ StageInv(t)

AnswerInv == TypeOK /\ \A t \in Threads : Local(t)

-----------------------------------------------------------------------------
(* Sequences *)

LEMMA SeqRange ==
  ASSUME NEW S, NEW s \in Seq(S)
  PROVE  ToSet(s) = {s[i] : i \in 1..Len(s)} /\ ToSet(s) \subseteq S
  BY DEF ToSet

LEMMA AppendRange ==
  ASSUME NEW S, NEW s \in Seq(S), NEW e \in S
  PROVE  /\ Append(s, e) \in Seq(S) /\ Len(Append(s, e)) = Len(s) + 1
         /\ ToSet(Append(s, e)) = ToSet(s) \cup {e}
<1>1. /\ Append(s, e) \in Seq(S) /\ Len(Append(s, e)) = Len(s) + 1
      /\ \A i \in 1..Len(s) : Append(s, e)[i] = s[i]
      /\ Append(s, e)[Len(s) + 1] = e
  OBVIOUS
<1>2. ToSet(Append(s, e)) = {Append(s, e)[i] : i \in 1..(Len(s) + 1)}
  BY <1>1, SeqRange
<1>3. ToSet(s) = {s[i] : i \in 1..Len(s)}
  BY SeqRange
<1>4. Len(s) \in Nat
  OBVIOUS
<1>5. QED
  BY <1>1, <1>2, <1>3, <1>4

LEMMA TailRange ==
  ASSUME NEW S, NEW s \in Seq(S), s # <<>>
  PROVE  /\ Head(s) \in S /\ Tail(s) \in Seq(S) /\ Len(Tail(s)) = Len(s) - 1
         /\ \A i \in 1..(Len(s) - 1) : Tail(s)[i] = s[i + 1]
         /\ ToSet(s) = {Head(s)} \cup ToSet(Tail(s))
<1>1. /\ Head(s) \in S /\ Head(s) = s[1]
      /\ Tail(s) \in Seq(S) /\ Len(Tail(s)) = Len(s) - 1
      /\ \A i \in 1..(Len(s) - 1) : Tail(s)[i] = s[i + 1]
      /\ Len(s) \in Nat \ {0}
  OBVIOUS
<1>2. /\ ToSet(s) = {s[i] : i \in 1..Len(s)}
      /\ ToSet(Tail(s)) = {Tail(s)[i] : i \in 1..(Len(s) - 1)}
  BY <1>1, SeqRange
<1>3. ASSUME NEW i \in 1..Len(s) PROVE s[i] \in {Head(s)} \cup ToSet(Tail(s))
  <2>1. CASE i = 1
    BY <2>1, <1>1
  <2>2. CASE i # 1
    <3>1. i - 1 \in 1..(Len(s) - 1) /\ Tail(s)[i - 1] = s[i]
      BY <2>2, <1>1
    <3>2. QED
      BY <3>1, <1>2
  <2>3. QED
    BY <2>1, <2>2
<1>4. ASSUME NEW i \in 1..(Len(s) - 1) PROVE Tail(s)[i] \in ToSet(s)
  BY <1>1, <1>2
<1>5. Head(s) \in ToSet(s)
  BY <1>1, <1>2
<1>6. QED
  BY <1>1, <1>2, <1>3, <1>4, <1>5

\* What a pass takes and what it leaves make up the misses.
LEMMA SplitRange ==
  ASSUME NEW S, NEW s \in Seq(S), NEW n \in 0..Len(s)
  PROVE  /\ SubSeq(s, 1, n) \in Seq(S) /\ SubSeq(s, n + 1, Len(s)) \in Seq(S)
         /\ ToSet(s) = ToSet(SubSeq(s, 1, n)) \cup ToSet(SubSeq(s, n + 1, Len(s)))
<1> DEFINE u == SubSeq(s, 1, n)
           v == SubSeq(s, n + 1, Len(s))
<1>1. /\ u \in Seq(S) /\ Len(u) = n /\ \A i \in 1..n : u[i] = s[i]
      /\ v \in Seq(S) /\ Len(v) = Len(s) - n
      /\ \A i \in 1..(Len(s) - n) : v[i] = s[n + i]
      /\ Len(s) \in Nat /\ n \in Nat /\ n <= Len(s)
  OBVIOUS
<1> HIDE DEF u, v
<1>2. /\ ToSet(s) = {s[i] : i \in 1..Len(s)}
      /\ ToSet(u) = {u[i] : i \in 1..n} /\ ToSet(v) = {v[i] : i \in 1..(Len(s) - n)}
  BY <1>1, SeqRange
<1>3. ASSUME NEW i \in 1..Len(s) PROVE s[i] \in ToSet(u) \cup ToSet(v)
  <2>1. CASE i <= n
    BY <2>1, <1>1, <1>2
  <2>2. CASE i > n
    <3>1. i - n \in 1..(Len(s) - n) /\ v[i - n] = s[i]
      BY <2>2, <1>1
    <3>2. QED
      BY <3>1, <1>2
  <2>3. QED
    BY <2>1, <2>2, <1>1
<1>4. ASSUME NEW i \in 1..n PROVE u[i] \in ToSet(s)
  BY <1>1, <1>2
<1>5. ASSUME NEW i \in 1..(Len(s) - n) PROVE v[i] \in ToSet(s)
  BY <1>1, <1>2
<1>6. QED
  BY <1>1, <1>2, <1>3, <1>4, <1>5 DEF u, v

-----------------------------------------------------------------------------
(* Types *)

LEMMA KeyTypes ==
  /\ Keys \subseteq Texts /\ IsFiniteSet(Keys) /\ IsFiniteSet(Threads)
  /\ Zero \notin Texts /\ None \notin Texts
<1>1. Keys \subseteq Texts
  BY DEF Keys
<1>2. QED
  BY <1>1, EmbedCacheAssumption, FS_Subset

\* A sequence m with the same entries as s, each as often.
SameEntries(S, s, m) ==
  /\ m \in Seq(S) /\ Len(m) = Len(s) /\ ToSet(m) = ToSet(s)
  /\ (\A i, j \in 1..Len(s) : s[i] = s[j] => i = j) =>
       \A i, j \in 1..Len(m) : m[i] = m[j] => i = j

\* What move_to_end does to a sequence.
MoveToEnd(s, p) == Append(RemoveAt(s, p), s[p])

\* move_to_end keeps the cached texts and their number.
LEMMA TouchCache ==
  ASSUME NEW S, NEW s \in Seq(S), NEW p \in 1..Len(s)
  PROVE  SameEntries(S, s, MoveToEnd(s, p))
<1> DEFINE moved == MoveToEnd(s, p)
<1> DEFINE x == SubSeq(s, 1, p - 1)
           y == SubSeq(s, p + 1, Len(s))
           u == x \o y
<1>0. moved = Append(u, s[p])
  BY DEF MoveToEnd, RemoveAt
<1> HIDE DEF moved
<1>1. Len(s) \in Nat /\ p \in Nat /\ 1 <= p /\ p <= Len(s) /\ s[p] \in S
  OBVIOUS
<1>2. x \in Seq(S) /\ Len(x) = p - 1 /\ \A i \in 1..(p - 1) : x[i] = s[i]
  BY <1>1
<1>3. y \in Seq(S) /\ Len(y) = Len(s) - p /\ \A i \in 1..(Len(s) - p) : y[i] = s[p + i]
  BY <1>1
<1> HIDE DEF x, y
<1>4. /\ u \in Seq(S) /\ Len(u) = Len(s) - 1
      /\ \A i \in 1..(Len(s) - 1) : u[i] = IF i < p THEN s[i] ELSE s[i + 1]
  <2>1. /\ u \in Seq(S) /\ Len(u) = Len(x) + Len(y)
        /\ \A i \in 1..(Len(x) + Len(y)) : u[i] = IF i <= Len(x) THEN x[i] ELSE y[i - Len(x)]
    BY <1>2, <1>3, ConcatProperties
  <2>2. Len(x) + Len(y) = Len(s) - 1
    BY <1>1, <1>2, <1>3
  <2>3. ASSUME NEW i \in 1..(Len(s) - 1), i < p PROVE u[i] = s[i]
    BY <2>1, <2>2, <2>3, <1>1, <1>2
  <2>4. ASSUME NEW i \in 1..(Len(s) - 1), ~(i < p) PROVE u[i] = s[i + 1]
    <3>1. /\ i - (p - 1) \in 1..(Len(s) - p) /\ ~(i <= p - 1)
          /\ p + (i - (p - 1)) = i + 1
      BY <2>4, <1>1
    <3>2. u[i] = y[i - (p - 1)]
      BY <3>1, <2>1, <2>2, <1>2
    <3>3. QED
      BY <3>1, <3>2, <1>3
  <2>5. QED
    BY <2>1, <2>2, <2>3, <2>4
<1> HIDE DEF u
<1>5. /\ moved \in Seq(S) /\ Len(moved) = Len(s)
      /\ \A i \in 1..(Len(s) - 1) : moved[i] = IF i < p THEN s[i] ELSE s[i + 1]
      /\ moved[Len(s)] = s[p]
  BY <1>0, <1>1, <1>4
<1>a. ToSet(moved) = {moved[i] : i \in 1..Len(moved)}
  <2>1. DOMAIN moved = 1..Len(moved)
    BY <1>5, LenProperties
  <2>2. QED
    BY <2>1, Zenon DEF ToSet
<1>b. ToSet(s) = {s[i] : i \in 1..Len(s)}
  BY SeqRange
<1>6. ToSet(moved) = {moved[i] : i \in 1..Len(s)} /\ ToSet(s) = {s[i] : i \in 1..Len(s)}
  BY <1>5, <1>a, <1>b
<1>7. ASSUME NEW i \in 1..Len(s) PROVE moved[i] \in ToSet(s)
  BY <1>1, <1>5, <1>6
<1>8. ASSUME NEW i \in 1..Len(s) PROVE s[i] \in ToSet(moved)
  <2>1. CASE i < p
    BY <2>1, <1>1, <1>5, <1>6
  <2>2. CASE i = p
    BY <2>2, <1>1, <1>5, <1>6
  <2>3. CASE i > p
    <3>1. i - 1 \in 1..(Len(s) - 1) /\ ~(i - 1 < p) /\ (i - 1) + 1 = i /\ i - 1 \in 1..Len(s)
      BY <2>3, <1>1
    <3>2. moved[i - 1] = s[i]
      BY <3>1, <1>5
    <3>3. QED
      BY <3>1, <3>2, <1>6
  <2>4. QED
    BY <2>1, <2>2, <2>3, <1>1
<1>9. ASSUME \A i, j \in 1..Len(s) : s[i] = s[j] => i = j,
             NEW i \in 1..Len(s), NEW j \in 1..Len(s), moved[i] = moved[j]
      PROVE  i = j
  <2> DEFINE at0(n) == IF n = Len(s) THEN p ELSE IF n < p THEN n ELSE n + 1
  <2>1. \A n \in 1..Len(s) : at0(n) \in 1..Len(s) /\ moved[n] = s[at0(n)]
    <3> TAKE n \in 1..Len(s)
    <3>1. CASE n = Len(s)
      BY <3>1, <1>1, <1>5
    <3>2. CASE n # Len(s)
      BY <3>2, <1>1, <1>5
    <3>3. QED
      BY <3>1, <3>2
  <2>2. at0(i) = at0(j)
    <3> HIDE DEF at0
    <3>1. at0(i) \in 1..Len(s) /\ at0(j) \in 1..Len(s) /\ s[at0(i)] = s[at0(j)]
      BY <2>1, <1>9
    <3>2. QED
      BY <3>1, <1>9
  <2>3. QED
    BY <2>2, <1>1
<1>10. ToSet(moved) = ToSet(s)
  BY <1>6, <1>7, <1>8
<1>11. (\A i, j \in 1..Len(s) : s[i] = s[j] => i = j) =>
          \A i, j \in 1..Len(moved) : moved[i] = moved[j] => i = j
  BY <1>5, <1>9
<1>12. SameEntries(S, s, moved)
  BY <1>5, <1>10, <1>11 DEF SameEntries
<1>13. QED
  BY <1>12 DEF moved

-----------------------------------------------------------------------------
(* A thread's own variables *)

\* What a thread holds does not depend on the others, nor on the cache.
LEMMA OthersKept ==
  ASSUME NEW u \in Threads, Local(u),
         pc'[u] = pc[u], batch'[u] = batch[u], at'[u] = at[u],
         misses'[u] = misses[u], pass'[u] = pass[u], results'[u] = results[u]
  PROVE  Local(u)'
  BY DEF Local, ThreadTypes, PlaceInv, StageInv, Text

LEMMA VectorOfKey ==
  ASSUME NEW text \in Keys
  PROVE  Vector(text) = text /\ text \in Texts
  BY DEF Vector, Keys

LEMMA LocalInit == Init => AnswerInv
<1> SUFFICES ASSUME Init PROVE AnswerInv
  OBVIOUS
<1>1. TypeOK
  <2>1. <<>> \in Seq(Keys) /\ <<>> \in Seq(Texts \cup {Zero, None}) /\ 1 \in Nat
    OBVIOUS
  <2>2. QED
    BY <2>1, Zenon DEF Init, TypeOK
<1>2. ASSUME NEW t \in Threads PROVE Local(t)
  BY <1>2 DEF Init, Local, ThreadTypes, PlaceInv, StageInv
<1>3. QED
  BY <1>1, <1>2 DEF AnswerInv

\* The steps that store nothing in the results.
LEMMA BeginLocal ==
  ASSUME AnswerInv, NEW t \in Threads, Begin(t)
  PROVE  Local(t)'
<1>1. PICK b \in Batches : /\ batch'[t] = b /\ results'[t] = [i \in DOMAIN b |-> None]
                          /\ at'[t] = 1 /\ misses'[t] = <<>> /\ pass'[t] = <<>> /\ pc'[t] = "get"
  BY DEF AnswerInv, TypeOK, Begin, GoTo
<1>2. b \in Seq(Texts)
  BY EmbedCacheAssumption
<1>3. results'[t] \in Seq(Texts \cup {Zero, None}) /\ Len(results'[t]) = Len(b)
  BY <1>1, <1>2
<1>4. ThreadTypes(t)'
  BY <1>1, <1>2, <1>3 DEF ThreadTypes
<1>5. PlaceInv(t)'
  BY <1>1, <1>2 DEF PlaceInv
<1>6. QED
  BY <1>1, <1>4, <1>5 DEF Local, StageInv

\* A vector at the place the thread is at.
LEMMA PlaceFilled ==
  ASSUME AnswerInv, NEW t \in Threads, Looking(t), NEW v \in Texts \cup {Zero, None},
         results' = [results EXCEPT ![t][at[t]] = v], batch'[t] = batch[t]
  PROVE  /\ results'[t] \in Seq(Texts \cup {Zero, None}) /\ Len(results'[t]) = Len(batch[t])
         /\ results'[t][at[t]] = v
         /\ \A i \in 1..Len(batch[t]) : i # at[t] => results'[t][i] = results[t][i]
         /\ at[t] \in 1..Len(batch[t]) /\ Text(t) \in Texts
<1>1. /\ results[t] \in Seq(Texts \cup {Zero, None}) /\ Len(results[t]) = Len(batch[t])
      /\ at[t] \in 1..Len(batch[t]) /\ batch[t] \in Seq(Texts)
  BY DEF AnswerInv, Local, ThreadTypes, Looking
<1>2. results'[t] = [results[t] EXCEPT ![at[t]] = v]
  BY DEF AnswerInv, TypeOK
<1> DEFINE S == Texts \cup {Zero, None}
           seq == results[t]
           k == at[t]
           m == Len(batch[t])
<1>3. seq \in Seq(S) /\ Len(seq) = m /\ k \in 1..m /\ v \in S /\ results'[t] = [seq EXCEPT ![k] = v]
  BY <1>1, <1>2
<1> HIDE DEF S, seq, k, m
<1>4. /\ [seq EXCEPT ![k] = v] \in Seq(S) /\ Len([seq EXCEPT ![k] = v]) = m
      /\ \A i \in 1..m : [seq EXCEPT ![k] = v][i] = IF i = k THEN v ELSE seq[i]
  BY <1>3, ExceptSeq
<1>5. /\ results'[t] \in Seq(S) /\ Len(results'[t]) = m /\ results'[t][k] = v
      /\ \A i \in 1..m : i # k => results'[t][i] = seq[i]
  BY <1>3, <1>4
<1>6. QED
  BY <1>1, <1>5 DEF Text, S, seq, k, m

LEMMA GetBlankLocal ==
  ASSUME AnswerInv, NEW t \in Threads, GetBlank(t)
  PROVE  Local(t)'
<1>1. /\ Looking(t) /\ Text(t) \in Blank
      /\ at'[t] = at[t] + 1 /\ pc'[t] = "get" /\ batch'[t] = batch[t]
      /\ misses'[t] = misses[t] /\ pass'[t] = pass[t]
  BY DEF AnswerInv, TypeOK, GetBlank, Looking
<1>2. /\ results'[t] \in Seq(Texts \cup {Zero, None}) /\ Len(results'[t]) = Len(batch[t])
      /\ results'[t][at[t]] = Zero
      /\ \A i \in 1..Len(batch[t]) : i # at[t] => results'[t][i] = results[t][i]
      /\ at[t] \in 1..Len(batch[t])
  BY <1>1, PlaceFilled DEF GetBlank
<1>3. ThreadTypes(t)'
  BY <1>1, <1>2 DEF AnswerInv, Local, ThreadTypes
<1>4. PlaceInv(t)'
  <2>1. at[t] \in Nat \ {0} /\ PlaceInv(t)
    BY DEF AnswerInv, Local, ThreadTypes
  <2>2. batch[t][at[t]] \in Blank
    BY <1>1 DEF Text
  <2>3. QED
    BY <1>1, <1>2, <2>1, <2>2 DEF PlaceInv, Vector
<1>5. StageInv(t)'
  BY <1>1 DEF AnswerInv, Local, StageInv, Looking
<1>6. QED
  BY <1>3, <1>4, <1>5 DEF Local

LEMMA GetHitLocal ==
  ASSUME AnswerInv, NEW t \in Threads, GetHit(t)
  PROVE  Local(t)'
<1>1. /\ Looking(t) /\ Text(t) \in ToSet(cache)
      /\ pc'[t] = "touch" /\ batch'[t] = batch[t] /\ at'[t] = at[t]
      /\ misses'[t] = misses[t] /\ pass'[t] = pass[t]
  BY DEF AnswerInv, TypeOK, GetHit, Looking, GoTo
<1>2. Text(t) \in Keys /\ Vector(Text(t)) = Text(t) /\ Text(t) \in Texts
  <2>1. cache \in Seq(Keys)
    BY DEF AnswerInv, TypeOK
  <2>2. QED
    BY <1>1, <2>1, SeqRange, VectorOfKey
<1>3. /\ results'[t] \in Seq(Texts \cup {Zero, None}) /\ Len(results'[t]) = Len(batch[t])
      /\ results'[t][at[t]] = Text(t)
      /\ \A i \in 1..Len(batch[t]) : i # at[t] => results'[t][i] = results[t][i]
      /\ at[t] \in 1..Len(batch[t])
  BY <1>1, <1>2, PlaceFilled DEF GetHit
<1>4. ThreadTypes(t)'
  BY <1>1, <1>3 DEF AnswerInv, Local, ThreadTypes
<1>5. PlaceInv(t)'
  <2> SUFFICES ASSUME NEW i \in 1..Len(batch[t])
               PROVE  \/ results'[t][i] = Vector(batch[t][i]) \/ i >= at[t]
                      \/ batch[t][i] \in ToSet(misses[t]) \cup ToSet(pass[t])
    BY <1>1 DEF PlaceInv, Vector
  <2>1. CASE i = at[t]
    BY <2>1, <1>3
  <2>2. CASE i # at[t]
    BY <2>2, <1>3 DEF AnswerInv, Local, PlaceInv
  <2>3. QED
    BY <2>1, <2>2
<1>6. StageInv(t)'
  BY <1>1, <1>2, <1>3 DEF AnswerInv, Local, StageInv, Looking, Text
<1>7. QED
  BY <1>4, <1>5, <1>6 DEF Local

LEMMA GetMissLocal ==
  ASSUME AnswerInv, NEW t \in Threads, GetMiss(t)
  PROVE  Local(t)' /\ misses'[t] \in Seq(Keys)
<1>1. /\ Looking(t) /\ Text(t) \notin Blank
      /\ at'[t] = at[t] + 1 /\ pc'[t] = "get" /\ batch'[t] = batch[t]
      /\ misses'[t] = (IF Text(t) \in ToSet(misses[t]) THEN misses[t] ELSE Append(misses[t], Text(t)))
      /\ pass'[t] = pass[t] /\ results'[t] = results[t]
  BY DEF AnswerInv, TypeOK, GetMiss, Looking
<1>2. /\ misses[t] \in Seq(Keys) /\ batch[t] \in Seq(Texts) /\ at[t] \in 1..Len(batch[t])
      /\ pass[t] \in Seq(Keys)
  BY <1>1 DEF AnswerInv, Local, ThreadTypes, Looking
<1>3. Text(t) \in Keys
  BY <1>1, <1>2 DEF Keys, Text
<1>4. misses'[t] \in Seq(Keys) /\ ToSet(misses'[t]) = ToSet(misses[t]) \cup {Text(t)}
  <2>1. CASE Text(t) \in ToSet(misses[t])
    BY <2>1, <1>1, <1>2
  <2>2. CASE Text(t) \notin ToSet(misses[t])
    BY <2>2, <1>1, <1>2, <1>3, AppendRange
  <2>3. QED
    BY <2>1, <2>2
<1>5. ThreadTypes(t)'
  BY <1>1, <1>4 DEF AnswerInv, Local, ThreadTypes
<1>6. PlaceInv(t)'
  <2> SUFFICES ASSUME NEW i \in 1..Len(batch[t])
               PROVE  \/ results[t][i] = Vector(batch[t][i]) \/ i >= at[t] + 1
                      \/ batch[t][i] \in ToSet(misses'[t]) \cup ToSet(pass[t])
    BY <1>1 DEF PlaceInv, Vector
  <2>1. CASE i = at[t]
    BY <2>1, <1>4 DEF Text
  <2>2. CASE i # at[t]
    BY <2>2, <1>2, <1>4 DEF AnswerInv, Local, PlaceInv
  <2>3. QED
    BY <2>1, <2>2
<1>7. StageInv(t)'
  BY <1>1 DEF AnswerInv, Local, StageInv, Looking
<1>8. QED
  BY <1>4, <1>5, <1>6, <1>7 DEF Local

LEMMA ForwardLocal ==
  ASSUME AnswerInv, NEW t \in Threads, Forward(t)
  PROVE  Local(t)'
<1> DEFINE n == IF Len(misses[t]) < BatchSize THEN Len(misses[t]) ELSE BatchSize
<1>1. /\ pc[t] = "forward" /\ misses[t] # <<>> /\ pc'[t] = "store"
      /\ pass'[t] = SubSeq(misses[t], 1, n)
      /\ misses'[t] = SubSeq(misses[t], n + 1, Len(misses[t]))
      /\ batch'[t] = batch[t] /\ at'[t] = at[t] /\ results'[t] = results[t]
  BY DEF AnswerInv, TypeOK, Forward, GoTo
<1>2. misses[t] \in Seq(Keys) /\ n \in 0..Len(misses[t])
  BY EmbedCacheAssumption DEF AnswerInv, Local, ThreadTypes
<1> HIDE DEF n
<1>3. /\ pass'[t] \in Seq(Keys) /\ misses'[t] \in Seq(Keys)
      /\ ToSet(misses[t]) = ToSet(pass'[t]) \cup ToSet(misses'[t])
  BY <1>1, <1>2, SplitRange
<1>4. ThreadTypes(t)'
  BY <1>1, <1>3 DEF AnswerInv, Local, ThreadTypes
<1>5. pass[t] = <<>> /\ ToSet(pass[t]) = {}
  BY <1>1 DEF AnswerInv, Local, StageInv, ToSet
<1>6. PlaceInv(t)'
  BY <1>1, <1>3, <1>5 DEF AnswerInv, Local, PlaceInv, Vector
<1>7. StageInv(t)'
  BY <1>1 DEF AnswerInv, Local, StageInv
<1>8. QED
  BY <1>4, <1>6, <1>7 DEF Local

LEMMA StoreLocal ==
  ASSUME AnswerInv, NEW t \in Threads, Store(t)
  PROVE  Local(t)'
<1> DEFINE text == Head(pass[t])
<1>1. /\ pc[t] = "store" /\ pass[t] # <<>> /\ pc'[t] = "check"
      /\ results'[t] = [i \in DOMAIN results[t] |-> IF batch[t][i] = text THEN text ELSE results[t][i]]
      /\ pass'[t] = Tail(pass[t])
      /\ batch'[t] = batch[t] /\ at'[t] = at[t] /\ misses'[t] = misses[t]
  BY DEF AnswerInv, TypeOK, Store, GoTo
<1>2. /\ pass[t] \in Seq(Keys) /\ results[t] \in Seq(Texts \cup {Zero, None})
      /\ Len(results[t]) = Len(batch[t])
  BY DEF AnswerInv, Local, ThreadTypes
<1>3. /\ text \in Keys /\ pass'[t] \in Seq(Keys)
      /\ ToSet(pass[t]) = {text} \cup ToSet(pass'[t])
  BY <1>1, <1>2, TailRange
<1>4. Vector(text) = text /\ text \in Texts
  BY <1>3, VectorOfKey
<1> HIDE DEF text
<1>5. /\ results'[t] \in Seq(Texts \cup {Zero, None}) /\ Len(results'[t]) = Len(batch[t])
      /\ \A i \in 1..Len(batch[t]) :
           results'[t][i] = IF batch[t][i] = text THEN text ELSE results[t][i]
  BY <1>1, <1>2, <1>4
<1>6. ThreadTypes(t)'
  BY <1>1, <1>3, <1>5 DEF AnswerInv, Local, ThreadTypes
<1>7. PlaceInv(t)'
  <2> SUFFICES ASSUME NEW i \in 1..Len(batch[t])
               PROVE  \/ results'[t][i] = Vector(batch[t][i]) \/ i >= at[t]
                      \/ batch[t][i] \in ToSet(misses[t]) \cup ToSet(pass'[t])
    BY <1>1 DEF PlaceInv, Vector
  <2>1. CASE batch[t][i] = text
    BY <2>1, <1>4, <1>5
  <2>2. CASE batch[t][i] # text
    BY <2>2, <1>3, <1>5 DEF AnswerInv, Local, PlaceInv
  <2>3. QED
    BY <2>1, <2>2
<1>8. StageInv(t)'
  BY <1>1 DEF AnswerInv, Local, StageInv
<1>9. QED
  BY <1>6, <1>7, <1>8 DEF Local

\* The steps that leave batch, misses, pass and results alone.
LEMMA WalkLocal ==
  ASSUME AnswerInv, NEW t \in Threads,
         \/ Touch(t) \/ Scanned(t) \/ ForwardRaises(t)
         \/ Check(t) \/ Pop(t) \/ Stored(t) \/ Return(t)
  PROVE  Local(t)'
<1>1. /\ batch'[t] = batch[t] /\ misses'[t] = misses[t]
      /\ pass'[t] = pass[t] /\ results'[t] = results[t]
  BY DEF Touch, Scanned, ForwardRaises, Check, Pop, Stored, Return
<1>2. \/ at'[t] = at[t]
      \/ pc[t] = "touch" /\ at'[t] = at[t] + 1 /\ pc'[t] = "get"
  BY DEF AnswerInv, TypeOK, Touch, Scanned, ForwardRaises, Check, Pop, Stored, Return, GoTo
<1>3. ThreadTypes(t)'
  BY <1>1, <1>2 DEF AnswerInv, Local, ThreadTypes
<1>4. PlaceInv(t)'
  <2> SUFFICES ASSUME NEW i \in 1..Len(batch[t])
               PROVE  \/ results[t][i] = Vector(batch[t][i]) \/ i >= at'[t]
                      \/ batch[t][i] \in ToSet(misses[t]) \cup ToSet(pass[t])
    BY <1>1 DEF PlaceInv, Vector
  <2>1. at[t] \in Nat /\ Len(batch[t]) \in Nat
    BY DEF AnswerInv, Local, ThreadTypes
  <2>2. CASE at'[t] = at[t]
    BY <2>2 DEF AnswerInv, Local, PlaceInv
  <2>3. CASE pc[t] = "touch" /\ at'[t] = at[t] + 1
    <3>1. Text(t) \in Keys /\ results[t][at[t]] = Text(t)
      BY <2>3 DEF AnswerInv, Local, StageInv
    <3>2. CASE i = at[t]
      BY <3>1, <3>2, VectorOfKey DEF Text
    <3>3. CASE i # at[t]
      BY <2>1, <2>3, <3>3 DEF AnswerInv, Local, PlaceInv
    <3>4. QED
      BY <3>2, <3>3
  <2>4. QED
    BY <1>2, <2>2, <2>3
<1>5. StageInv(t)'
  <2>1. Local(t) /\ pc \in [Threads -> {"idle", "get", "touch", "forward", "store", "check", "pop", "done", "failed"}]
    BY DEF AnswerInv, TypeOK
  <2>2. CASE Touch(t)
    BY <2>1, <2>2, <1>1 DEF Touch, GoTo, Local, StageInv
  <2>3. CASE Scanned(t) \/ ForwardRaises(t) \/ Check(t)
    BY <2>1, <2>3, <1>1 DEF Scanned, ForwardRaises, Check, GoTo, Local, StageInv
  <2>4. CASE Pop(t) \/ Stored(t) \/ Return(t)
    BY <2>1, <2>4, <1>1 DEF Pop, Stored, Return, GoTo, Local, StageInv
  <2>5. QED
    BY <2>2, <2>3, <2>4
<1>6. QED
  BY <1>3, <1>4, <1>5 DEF Local

\* Where the text to move is cached, it is at its place.
LEMMA Placed ==
  ASSUME TypeOK, NEW text \in ToSet(cache)
  PROVE  PlaceOf(text) \in 1..Len(cache) /\ cache[PlaceOf(text)] = text
<1>1. DOMAIN cache = 1..Len(cache)
  BY DEF TypeOK
<1>2. \E i \in DOMAIN cache : cache[i] = text
  BY DEF ToSet
<1>3. PlaceOf(text) \in DOMAIN cache /\ cache[PlaceOf(text)] = text
  BY <1>2 DEF PlaceOf
<1>4. QED
  BY <1>1, <1>3

\* A text that is not cached yet goes to the end.
LEMMA StoreCache ==
  ASSUME TypeOK, NEW t \in Threads, Store(t)
  PROVE  LET text == Head(pass[t])
         IN  /\ text \in Keys
             /\ \/ cache' = cache
                \/ /\ text \notin ToSet(cache) /\ cache' = Append(cache, text)
                   /\ cache' \in Seq(Keys) /\ Len(cache') = Len(cache) + 1
                   /\ ToSet(cache') = ToSet(cache) \cup {text}
<1>1. cache \in Seq(Keys) /\ pass[t] \in Seq(Keys) /\ pass[t] # <<>>
  BY DEF TypeOK, Store
<1>2. Head(pass[t]) \in Keys
  BY <1>1, TailRange
<1>3. QED
  BY <1>1, <1>2, AppendRange DEF Store

LEMMA TouchMoves ==
  ASSUME TypeOK, NEW t \in Threads, Touch(t)
  PROVE  /\ cache' \in Seq(Keys) /\ Len(cache') = Len(cache) /\ ToSet(cache') = ToSet(cache)
         /\ Distinct => Distinct'
<1>1. cache \in Seq(Keys)
  BY DEF TypeOK
<1>2. CASE Text(t) \notin ToSet(cache)
  <2>1. cache' = cache
    BY <1>2 DEF Touch
  <2>2. QED
    BY <1>1, <2>1 DEF Distinct
<1>3. CASE Text(t) \in ToSet(cache)
  <2> DEFINE p == PlaceOf(Text(t))
  <2>1. p \in 1..Len(cache) /\ cache[p] = Text(t)
    BY <1>3, Placed
  <2>2. cache' = MoveToEnd(cache, p)
    BY <1>3, <2>1 DEF Touch, MoveToEnd
  <2> HIDE DEF p
  <2>3. /\ cache' \in Seq(Keys) /\ Len(cache') = Len(cache) /\ ToSet(cache') = ToSet(cache)
        /\ (\A i, j \in 1..Len(cache) : cache[i] = cache[j] => i = j) =>
             \A i, j \in 1..Len(cache') : cache'[i] = cache'[j] => i = j
    BY <1>1, <2>1, <2>2, TouchCache DEF SameEntries
  <2>4. QED
    BY <2>3, Zenon DEF Distinct
<1>4. QED
  BY <1>2, <1>3

LEMMA PopDrops ==
  ASSUME TypeOK, NEW t \in Threads, Pop(t)
  PROVE  /\ cache' \in Seq(Keys) /\ Len(cache') <= Len(cache)
         /\ cache = <<>> \/ Len(cache') = Len(cache) - 1
         /\ Distinct => Distinct'
<1>1. cache \in Seq(Keys) /\ Len(cache) \in Nat
  BY DEF TypeOK
<1>2. CASE cache = <<>>
  <2>1. cache' = cache
    BY <1>2 DEF Pop
  <2>2. QED
    BY <1>1, <1>2, <2>1 DEF Distinct
<1>3. CASE cache # <<>>
  <2>1. cache' = Tail(cache)
    BY <1>3 DEF Pop
  <2>2. /\ cache' \in Seq(Keys) /\ Len(cache') = Len(cache) - 1
        /\ \A i \in 1..(Len(cache) - 1) : cache'[i] = cache[i + 1]
    BY <1>1, <1>3, <2>1, TailRange
  <2>3. ASSUME Distinct PROVE Distinct'
    <3> SUFFICES ASSUME NEW i \in 1..(Len(cache) - 1), NEW j \in 1..(Len(cache) - 1),
                        cache[i + 1] = cache[j + 1]
                 PROVE  i = j
      BY <2>2 DEF Distinct
    <3>1. i + 1 \in 1..Len(cache) /\ j + 1 \in 1..Len(cache)
      BY <1>1
    <3>2. i + 1 = j + 1
      BY <3>1, <2>3 DEF Distinct
    <3>3. QED
      BY <3>2
  <2>4. QED
    BY <1>1, <2>2, <2>3
<1>4. QED
  BY <1>2, <1>3

LEMMA TypeStep == AnswerInv /\ [Next]_vars => TypeOK'
<1> SUFFICES ASSUME AnswerInv, [Next]_vars PROVE TypeOK'
  OBVIOUS
<1> USE DEF GoTo
<1>0. TypeOK
  BY DEF AnswerInv
<1>1. CASE UNCHANGED vars
  BY <1>0, <1>1 DEF vars, thread, TypeOK
<1>2. CASE ClearCache
  <2>1. cache' \in Seq(Keys)
    BY <1>2, EmptySeq DEF ClearCache
  <2>2. QED
    BY <1>0, <1>2, <2>1 DEF ClearCache, thread, TypeOK
<1>3. ASSUME NEW t \in Threads, Begin(t) PROVE TypeOK'
  <2>1. PICK b \in Batches : /\ batch' = [batch EXCEPT ![t] = b]
                            /\ results' = [results EXCEPT ![t] = [i \in DOMAIN b |-> None]]
    BY <1>3 DEF Begin
  <2>2. [i \in DOMAIN b |-> None] \in Seq(Texts \cup {Zero, None})
    <3>1. b \in Seq(Texts)
      BY EmbedCacheAssumption
    <3>2. QED
      BY <3>1
  <2>3. <<>> \in Seq(Keys)
    BY EmptySeq
  <2>4. QED
    BY <1>0, <1>3, <2>1, <2>2, <2>3 DEF Begin, TypeOK
<1>4. ASSUME NEW t \in Threads, Local(t)',
             /\ UNCHANGED <<limit, cleared>> /\ cache' \in Seq(Keys)
             /\ pc' \in [Threads -> {"idle", "get", "touch", "forward", "store", "check", "pop", "done", "failed"}]
             /\ batch' = batch
             /\ at' = [at EXCEPT ![t] = at'[t]] /\ misses' = [misses EXCEPT ![t] = misses'[t]]
             /\ pass' = [pass EXCEPT ![t] = pass'[t]] /\ results' = [results EXCEPT ![t] = results'[t]]
      PROVE  TypeOK'
  BY <1>0, <1>4 DEF TypeOK, Local, ThreadTypes
<1>5. ASSUME NEW t \in Threads, GetBlank(t) \/ GetHit(t) \/ GetMiss(t) PROVE TypeOK'
  <2>1. Local(t)'
    BY <1>5, GetBlankLocal, GetHitLocal, GetMissLocal
  <2>2. /\ UNCHANGED <<limit, cleared, cache, batch, pass>>
        /\ pc' = pc \/ pc' = [pc EXCEPT ![t] = "touch"]
    BY <1>5 DEF GetBlank, GetHit, GetMiss, GoTo
  <2>3. /\ at' = at \/ \E v : at' = [at EXCEPT ![t] = v]
        /\ results' = results \/ \E v : results' = [results EXCEPT ![t] = v]
        /\ misses' = misses \/ \E v : misses' = [misses EXCEPT ![t] = v]
    BY <1>5 DEF GetBlank, GetHit, GetMiss
  <2>4. /\ at' = [at EXCEPT ![t] = at'[t]] /\ pass' = [pass EXCEPT ![t] = pass'[t]]
        /\ results' = [results EXCEPT ![t] = results'[t]]
        /\ misses' = [misses EXCEPT ![t] = misses'[t]]
    BY <1>0, <2>2, <2>3 DEF TypeOK
  <2>5. /\ cache' \in Seq(Keys)
        /\ pc' \in [Threads -> {"idle", "get", "touch", "forward", "store", "check", "pop", "done", "failed"}]
    BY <1>0, <2>2 DEF TypeOK
  <2>6. QED
    BY <1>4, <2>1, <2>2, <2>4, <2>5
<1>6. ASSUME NEW t \in Threads, Forward(t) PROVE TypeOK'
  <2>1. Local(t)'
    BY <1>6, ForwardLocal
  <2>2. QED
    BY <1>0, <1>4, <1>6, <2>1 DEF Forward, TypeOK
<1>7. ASSUME NEW t \in Threads, Store(t) PROVE TypeOK'
  <2>1. Local(t)'
    BY <1>7, StoreLocal
  <2>2. cache' \in Seq(Keys)
    BY <1>0, <1>7, StoreCache DEF TypeOK
  <2>3. QED
    BY <1>0, <1>4, <1>7, <2>1, <2>2 DEF Store, TypeOK
<1>8. ASSUME NEW t \in Threads, Touch(t) PROVE TypeOK'
  <2>1. Local(t)'
    BY <1>8, WalkLocal
  <2>2. cache' \in Seq(Keys)
    BY <1>0, <1>8, TouchMoves
  <2>3. QED
    BY <1>0, <1>4, <1>8, <2>1, <2>2 DEF Touch, TypeOK
<1>9. ASSUME NEW t \in Threads, Pop(t) PROVE TypeOK'
  <2>1. Local(t)'
    BY <1>9, WalkLocal
  <2>2. cache' \in Seq(Keys)
    BY <1>0, <1>9, PopDrops
  <2>3. QED
    BY <1>0, <1>4, <1>9, <2>1, <2>2 DEF Pop, TypeOK
<1>10. ASSUME NEW t \in Threads,
              Scanned(t) \/ ForwardRaises(t) \/ Check(t) \/ Stored(t) \/ Return(t)
       PROVE  TypeOK'
  BY <1>0, <1>10 DEF Scanned, ForwardRaises, Check, Stored, Return, TypeOK
<1>11. QED
  BY <1>1, <1>2, <1>3, <1>5, <1>6, <1>7, <1>8, <1>9, <1>10 DEF Next, Embed

LEMMA AnswerStep == AnswerInv /\ [Next]_vars => AnswerInv'
<1> SUFFICES ASSUME AnswerInv, [Next]_vars PROVE AnswerInv'
  OBVIOUS
<1>1. TypeOK'
  BY TypeStep
<1>2. TypeOK
  BY DEF AnswerInv
<1>3. ASSUME NEW u \in Threads PROVE Local(u)'
  <2>1. Local(u)
    BY DEF AnswerInv
  <2>2. CASE UNCHANGED vars \/ ClearCache
    BY <2>1, <2>2, OthersKept DEF vars, thread, ClearCache
  <2>3. ASSUME NEW t \in Threads, Embed(t) PROVE Local(u)'
    <3>1. CASE u = t
      BY <2>3, <3>1, BeginLocal, GetBlankLocal, GetHitLocal, GetMissLocal, ForwardLocal,
         StoreLocal, WalkLocal DEF Embed
    <3>2. CASE u # t
      <4>1. /\ pc'[u] = pc[u] /\ batch'[u] = batch[u] /\ at'[u] = at[u]
            /\ misses'[u] = misses[u] /\ pass'[u] = pass[u] /\ results'[u] = results[u]
        <5>1. CASE Begin(t) \/ GetBlank(t) \/ GetHit(t) \/ GetMiss(t) \/ Touch(t)
          BY <1>2, <3>2, <5>1 DEF TypeOK, Begin, GetBlank, GetHit, GetMiss, Touch, GoTo
        <5>2. CASE Scanned(t) \/ Forward(t) \/ ForwardRaises(t) \/ Store(t) \/ Check(t)
          BY <1>2, <3>2, <5>2 DEF TypeOK, Scanned, Forward, ForwardRaises, Store, Check, GoTo
        <5>3. CASE Pop(t) \/ Stored(t) \/ Return(t)
          BY <1>2, <3>2, <5>3 DEF TypeOK, Pop, Stored, Return, GoTo
        <5>4. QED
          BY <2>3, <5>1, <5>2, <5>3 DEF Embed
      <4>2. QED
        BY <2>1, <4>1, OthersKept
    <3>3. QED
      BY <3>1, <3>2
  <2>4. QED
    BY <2>2, <2>3 DEF Next
<1>4. QED
  BY <1>1, <1>3 DEF AnswerInv

-----------------------------------------------------------------------------
(* The shared cache *)

Bounded == limit # 0 => Len(cache) <= limit + Cardinality(Evicting)

\* A cache with room for every text evicts none.
Roomy == limit = 0 \/ Cardinality(Keys) <= limit
RoomInv ==
  Roomy /\ ~cleared =>
    \A t \in Threads : pc[t] # "pop" /\ (pc[t] = "touch" => Text(t) \in ToSet(cache))

CacheInv == Distinct /\ Bounded /\ RoomInv

LEMMA EvictingFinite ==
  /\ IsFiniteSet(Evicting) /\ Cardinality(Evicting) \in Nat
  /\ IsFiniteSet(Evicting') /\ Cardinality(Evicting') \in Nat
<1>1. IsFiniteSet(Threads) /\ Evicting \subseteq Threads /\ Evicting' \subseteq Threads
  BY KeyTypes DEF Evicting
<1>2. QED
  BY <1>1, FS_Subset, FS_CardinalityType

\* No text is cached twice, so there are never more than there are texts.
LEMMA CacheFitsKeys ==
  ASSUME cache \in Seq(Keys), Distinct
  PROVE  Len(cache) <= Cardinality(Keys)
<1>1. cache \in [1..Len(cache) -> Keys] /\ Len(cache) \in Nat
  OBVIOUS
<1>2. cache \in Injection(1..Len(cache), Keys)
  BY <1>1 DEF Distinct, Injection, IsInjective
<1>3. Cardinality(1..Len(cache)) <= Cardinality(Keys)
  BY <1>2, KeyTypes, FS_Injection
<1>4. Cardinality(1..Len(cache)) = Len(cache)
  <2>1. /\ 1 \in Int /\ Len(cache) \in Int /\ (1 > Len(cache) => Len(cache) = 0)
        /\ Len(cache) - 1 + 1 = Len(cache)
    BY <1>1
  <2>2. Cardinality(1..Len(cache)) = IF 1 > Len(cache) THEN 0 ELSE Len(cache) - 1 + 1
    BY <2>1, FS_Interval
  <2>3. QED
    BY <2>1, <2>2
<1>5. QED
  BY <1>3, <1>4

LEMMA CacheInit == Init => CacheInv
<1> SUFFICES ASSUME Init PROVE CacheInv
  OBVIOUS
<1>1. Len(cache) = 0
  BY DEF Init
<1>2. limit \in Nat
  BY EmbedCacheAssumption DEF Init
<1>3. Bounded
  BY <1>1, <1>2, EvictingFinite DEF Bounded
<1>4. QED
  BY <1>1, <1>3 DEF Init, CacheInv, Distinct, RoomInv

LEMMA DistinctStep == TypeOK /\ Distinct /\ [Next]_vars => Distinct'
<1> SUFFICES ASSUME TypeOK, Distinct, [Next]_vars PROVE Distinct'
  OBVIOUS
<1>1. CASE cache' = cache
  BY <1>1 DEF Distinct
<1>2. CASE ClearCache
  BY <1>2 DEF ClearCache, Distinct
<1>3. ASSUME NEW t \in Threads, Store(t) PROVE Distinct'
  <2>1. CASE cache' = cache
    BY <2>1 DEF Distinct
  <2>2. CASE cache' # cache
    <3> DEFINE text == Head(pass[t])
    <3>1. /\ text \notin ToSet(cache) /\ cache' = Append(cache, text)
          /\ Len(cache') = Len(cache) + 1
      BY <1>3, <2>2, StoreCache
    <3> HIDE DEF text
    <3>2. cache \in Seq(Keys) /\ Len(cache) \in Nat
      BY DEF TypeOK
    <3>3. /\ \A i \in 1..Len(cache) : cache'[i] = cache[i] /\ cache[i] # text
          /\ cache'[Len(cache) + 1] = text
      BY <3>1, <3>2, SeqRange
    <3>4. QED
      BY <3>1, <3>2, <3>3 DEF Distinct
  <2>3. QED
    BY <2>1, <2>2
<1>4. ASSUME NEW t \in Threads, Touch(t) \/ Pop(t) PROVE Distinct'
  BY <1>4, TouchMoves, PopDrops
<1>5. ASSUME NEW t \in Threads, Embed(t) PROVE cache' = cache \/ Store(t) \/ Touch(t) \/ Pop(t)
  BY <1>5 DEF Embed, Begin, GetBlank, GetHit, GetMiss, Scanned, Forward, ForwardRaises,
     Check, Stored, Return
<1>6. QED
  BY <1>1, <1>2, <1>3, <1>4, <1>5 DEF Next, vars

\* Who evicts changes by one thread at most, and only at check and pop.
LEMMA EvictingStep ==
  ASSUME TypeOK, NEW t \in Threads, Embed(t)
  PROVE  /\ \/ Store(t) /\ Evicting' = Evicting \cup {t} /\ t \notin Evicting
            \/ Check(t) \/ Pop(t)
            \/ Evicting' = Evicting /\ ~Store(t)
         /\ Check(t) => \/ limit # 0 /\ Len(cache) > limit /\ Evicting' = Evicting
                        \/ limit = 0 \/ ~(Len(cache) > limit)
         /\ Pop(t) => Evicting' = Evicting \ {t} /\ t \in Evicting
<1> USE DEF TypeOK, Evicting, GoTo
<1>1. CASE Begin(t) \/ GetBlank(t) \/ GetHit(t) \/ GetMiss(t)
  BY <1>1 DEF Begin, GetBlank, GetHit, GetMiss, Looking, Store, Check, Pop
<1>2. CASE Touch(t) \/ Scanned(t) \/ Forward(t) \/ ForwardRaises(t)
  BY <1>2 DEF Touch, Scanned, Forward, ForwardRaises, Store, Check, Pop
<1>3. CASE Stored(t) \/ Return(t)
  BY <1>3 DEF Stored, Return, Store, Check, Pop
<1>4. CASE Store(t)
  BY <1>4 DEF Store, Check, Pop
<1>5. CASE Check(t)
  BY <1>5 DEF Check, Pop
<1>6. CASE Pop(t)
  BY <1>6 DEF Check, Pop
<1>7. QED
  BY <1>1, <1>2, <1>3, <1>4, <1>5, <1>6 DEF Embed

LEMMA BoundedStep == TypeOK /\ Bounded /\ [Next]_vars => Bounded'
<1> SUFFICES ASSUME TypeOK, Bounded, [Next]_vars PROVE Bounded'
  OBVIOUS
<1>1. /\ limit \in Nat /\ Len(cache) \in Nat /\ limit' = limit
  BY EmbedCacheAssumption DEF TypeOK, Next, Embed, vars, ClearCache, Begin, GetBlank, GetHit,
     GetMiss, Touch, Scanned, Forward, ForwardRaises, Store, Check, Pop, Stored, Return
<1>2. CASE UNCHANGED vars
  BY <1>2 DEF vars, thread, Bounded, Evicting
<1>3. CASE ClearCache
  <2>1. Len(cache') = 0
    BY <1>3 DEF ClearCache
  <2>2. QED
    BY <1>1, <2>1, EvictingFinite DEF Bounded
<1>4. ASSUME NEW t \in Threads, Embed(t) PROVE Bounded'
  <2>1. CASE Store(t)
    <3>1. Len(cache') \in {Len(cache), Len(cache) + 1}
      BY <2>1, StoreCache
    <3>2. Cardinality(Evicting') = Cardinality(Evicting) + 1
      <4>1. Evicting' = Evicting \cup {t} /\ t \notin Evicting
        BY <1>4, <2>1, EvictingStep DEF Store, Check, Pop
      <4>2. QED
        BY <4>1, EvictingFinite, FS_AddElement
    <3>3. QED
      BY <1>1, <3>1, <3>2, EvictingFinite DEF Bounded
  <2>2. CASE Check(t)
    <3>1. cache' = cache
      BY <2>2 DEF Check
    <3>2. \/ limit # 0 /\ Len(cache) > limit /\ Evicting' = Evicting
          \/ limit = 0 \/ ~(Len(cache) > limit)
      BY <1>4, <2>2, EvictingStep
    <3>3. CASE Evicting' = Evicting
      BY <1>1, <3>1, <3>3 DEF Bounded
    <3>4. CASE limit = 0 \/ ~(Len(cache) > limit)
      BY <1>1, <3>1, <3>4, EvictingFinite DEF Bounded
    <3>5. QED
      BY <3>2, <3>3, <3>4
  <2>3. CASE Pop(t)
    <3>1. Cardinality(Evicting') = Cardinality(Evicting) - 1
      <4>1. Evicting' = Evicting \ {t} /\ t \in Evicting
        BY <1>4, <2>3, EvictingStep
      <4>2. QED
        BY <4>1, EvictingFinite, FS_RemoveElement
    <3>2. CASE cache = <<>>
      <4>1. Len(cache') = 0
        BY <2>3, <3>2 DEF Pop
      <4>2. QED
        BY <1>1, <4>1, EvictingFinite DEF Bounded
    <3>3. CASE Len(cache') = Len(cache) - 1
      BY <1>1, <3>1, <3>3, EvictingFinite DEF Bounded
    <3>4. QED
      BY <2>3, <3>2, <3>3, PopDrops
  <2>4. CASE ~Store(t) /\ ~Check(t) /\ ~Pop(t)
    <3>1. Evicting' = Evicting
      BY <1>4, <2>4, EvictingStep
    <3>2. Len(cache') = Len(cache)
      <4>1. CASE Touch(t)
        BY <4>1, TouchMoves
      <4>2. CASE ~Touch(t)
        BY <1>4, <2>4, <4>2 DEF Embed, Begin, GetBlank, GetHit, GetMiss, Scanned, Forward,
           ForwardRaises, Stored, Return
      <4>3. QED
        BY <4>1, <4>2
    <3>3. QED
      BY <1>1, <3>1, <3>2 DEF Bounded
  <2>5. QED
    BY <2>1, <2>2, <2>3, <2>4
<1>5. QED
  BY <1>2, <1>3, <1>4 DEF Next

LEMMA RoomStep == TypeOK /\ Distinct /\ RoomInv /\ [Next]_vars => RoomInv'
<1> SUFFICES ASSUME TypeOK, Distinct, RoomInv, [Next]_vars, Roomy', ~cleared', NEW u \in Threads
             PROVE  pc'[u] # "pop" /\ (pc'[u] = "touch" => Text(u)' \in ToSet(cache'))
  BY DEF RoomInv
<1>1. limit' = limit /\ (cleared' = cleared \/ cleared' = TRUE)
  BY DEF Next, Embed, vars, ClearCache, Begin, GetBlank, GetHit,
     GetMiss, Touch, Scanned, Forward, ForwardRaises, Store, Check, Pop, Stored, Return
<1>2. Roomy /\ ~cleared
  <2>1. ~cleared
    BY <1>1, Zenon
  <2>2. Roomy
    BY <1>1 DEF Roomy
  <2>3. QED
    BY <2>1, <2>2
<1>3. \A t \in Threads : pc[t] # "pop" /\ (pc[t] = "touch" => Text(t) \in ToSet(cache))
  BY <1>2 DEF RoomInv
<1>4. CASE UNCHANGED vars
  BY <1>3, <1>4 DEF vars, thread, Text
<1>5. CASE ClearCache
  BY <1>5 DEF ClearCache
<1>6. ASSUME NEW t \in Threads, Embed(t)
      PROVE  pc'[u] # "pop" /\ (pc'[u] = "touch" => Text(u)' \in ToSet(cache'))
  <2>1. ToSet(cache) \subseteq ToSet(cache')
    <3>1. ~Pop(t)
      BY <1>3 DEF Pop
    <3>2. CASE Store(t)
      BY <3>2, StoreCache
    <3>3. CASE Touch(t)
      BY <3>3, TouchMoves
    <3>4. CASE ~Store(t) /\ ~Touch(t)
      BY <1>6, <3>1, <3>4 DEF Embed, Begin, GetBlank, GetHit, GetMiss, Scanned, Forward,
         ForwardRaises, Check, Stored, Return
    <3>5. QED
      BY <3>2, <3>3, <3>4
  <2>2. ASSUME Check(t) PROVE pc'[t] = "store"
    <3>1. cache \in Seq(Keys) /\ Len(cache) \in Nat /\ limit \in Nat
      BY EmbedCacheAssumption DEF TypeOK
    <3>2. Len(cache) <= Cardinality(Keys) /\ Cardinality(Keys) \in Nat
      BY <3>1, CacheFitsKeys, KeyTypes, FS_CardinalityType
    <3>3. ~(limit # 0 /\ Len(cache) > limit)
      BY <1>2, <3>1, <3>2 DEF Roomy
    <3>4. QED
      BY <2>2, <3>3 DEF TypeOK, Check, GoTo
  <2>3. CASE u = t
    <3>1. pc'[t] # "pop"
      BY <1>3, <1>6, <2>2 DEF TypeOK, Embed, Begin, GetBlank, GetHit, GetMiss, Touch, Scanned,
         Forward, ForwardRaises, Store, Pop, Stored, Return, GoTo
    <3>2. ASSUME pc'[t] = "touch" PROVE GetHit(t)
      BY <1>3, <1>6, <2>2, <3>2 DEF TypeOK, Embed, Begin, GetBlank, GetMiss, Touch, Scanned,
         Forward, ForwardRaises, Store, Pop, Stored, Return, GoTo, Looking
    <3>3. ASSUME GetHit(t) PROVE Text(t)' \in ToSet(cache')
      BY <3>3 DEF GetHit, Text
    <3>4. QED
      BY <2>3, <3>1, <3>2, <3>3
  <2>4. CASE u # t
    <3>1. pc'[u] = pc[u] /\ Text(u)' = Text(u)
      <4>1. CASE Begin(t) \/ GetBlank(t) \/ GetHit(t) \/ GetMiss(t) \/ Touch(t)
        BY <2>4, <4>1 DEF TypeOK, Begin, GetBlank, GetHit, GetMiss, Touch, GoTo, Text
      <4>2. CASE Scanned(t) \/ Forward(t) \/ ForwardRaises(t) \/ Store(t) \/ Check(t)
        BY <2>4, <4>2 DEF TypeOK, Scanned, Forward, ForwardRaises, Store, Check, GoTo, Text
      <4>3. CASE Pop(t) \/ Stored(t) \/ Return(t)
        BY <2>4, <4>3 DEF TypeOK, Pop, Stored, Return, GoTo, Text
      <4>4. QED
        BY <1>6, <4>1, <4>2, <4>3 DEF Embed
    <3>2. QED
      BY <1>3, <2>1, <3>1
  <2>5. QED
    BY <2>3, <2>4
<1>7. QED
  BY <1>4, <1>5, <1>6 DEF Next

-----------------------------------------------------------------------------
IInv == AnswerInv /\ CacheInv

LEMMA Invariance == Spec => []IInv
<1>1. Init => IInv
  BY LocalInit, CacheInit DEF IInv
<1>2. IInv /\ [Next]_vars => IInv'
  <2> SUFFICES ASSUME IInv, [Next]_vars PROVE IInv'
    OBVIOUS
  <2>1. AnswerInv /\ TypeOK /\ Distinct /\ Bounded /\ RoomInv
    BY DEF IInv, CacheInv, AnswerInv
  <2>2. AnswerInv' /\ Distinct' /\ Bounded' /\ RoomInv'
    BY <2>1, AnswerStep, DistinctStep, BoundedStep, RoomStep
  <2>3. QED
    BY <2>2 DEF IInv, CacheInv
<1>3. QED
  BY <1>1, <1>2, PTL DEF Spec

\* Every variable keeps its type.
THEOREM TypeCorrect == Spec => []TypeOK
<1>1. IInv => TypeOK
  BY DEF IInv, AnswerInv
<1>2. QED
  BY <1>1, Invariance, PTL

\* A batch that is answered has the vector of each of its texts at its place
\* (embed_batch), for any number of threads, batches and cache size.
THEOREM VectorsCorrect == Spec => []VectorsMatch
<1>1. IInv => VectorsMatch
  <2> SUFFICES ASSUME IInv, NEW t \in Threads, pc[t] = "done"
               PROVE  results[t] = [i \in DOMAIN batch[t] |-> Vector(batch[t][i])]
    BY DEF VectorsMatch
  <2>1. ThreadTypes(t) /\ PlaceInv(t) /\ StageInv(t)
    BY DEF IInv, AnswerInv, Local
  <2>2. at[t] > Len(batch[t]) /\ ToSet(misses[t]) = {} /\ ToSet(pass[t]) = {}
    BY <2>1 DEF StageInv, ToSet
  <2>3. \A i \in 1..Len(batch[t]) : results[t][i] = Vector(batch[t][i])
    BY <2>1, <2>2 DEF PlaceInv, ThreadTypes
  <2>4. /\ batch[t] \in Seq(Texts) /\ results[t] \in Seq(Texts \cup {Zero, None})
        /\ Len(results[t]) = Len(batch[t])
    BY <2>1 DEF ThreadTypes
  <2>5. QED
    BY <2>3, <2>4
<1>2. QED
  BY <1>1, Invariance, PTL

\* A text is cached once, and the cache exceeds cache_maxsize only by those that
\* threads are about to evict (the check and popitem of embed_batch).
THEOREM BoundCorrect == Spec => []CacheBounded
<1>1. IInv => CacheBounded
  <2> SUFFICES ASSUME IInv PROVE CacheBounded
    OBVIOUS
  <2>1. Distinct /\ Bounded /\ DOMAIN cache = 1..Len(cache)
    BY DEF IInv, AnswerInv, TypeOK, CacheInv
  <2>2. QED
    BY <2>1 DEF Distinct, Bounded, CacheBounded
<1>2. QED
  BY <1>1, Invariance, PTL

\* With room for every text and no clear_cache, move_to_end and popitem never
\* meet an entry that another thread has taken away.
THEOREM RoomCorrect == Spec => []FailsOnlyWhenFull
<1>1. IInv => FailsOnlyWhenFull
  BY DEF IInv, CacheInv, RoomInv, Roomy, FailsOnlyWhenFull, Racing
<1>2. QED
  BY <1>1, Invariance, PTL
=============================================================================
