----------------------------- MODULE DataLemmas -----------------------------
(***************************************************************************)
(* Facts about naturals, sequences and finite sums that the proofs about   *)
(* several components need.                                                *)
(***************************************************************************)
EXTENDS Naturals, Sequences, FiniteSets, SequencesExt, FiniteSetsExt, FiniteSetTheorems, WellFoundedInduction, TLAPS

Less == OpToRel(<, Nat)

LEMMA LeastNatural ==
    ASSUME NEW T, T \subseteq Nat, T # {}
    PROVE  \E m \in T : \A n \in T : m <= n
<1>1. IsWellFoundedOn(Less, Nat)
  BY NatLessThanWellFounded, Zenon DEF Less
<1>2. PICK m \in T : \A n \in T : ~ (<<n, m>> \in Less)
  BY <1>1, WFMin, Zenon
<1>3. \A n \in T : ~ (n < m)
  BY <1>2 DEF Less, OpToRel
<1> QED
  BY <1>3

LEMMA GreatestBelow ==
    ASSUME NEW n \in Nat, NEW T, T \subseteq 0..n, T # {}
    PROVE  \E m \in T : \A k \in T : k <= m
<1> DEFINE Left == {n - i : i \in T}
<1>1. \A i \in T : i \in Nat /\ n - i \in Nat
  OBVIOUS
<1>2. Left # {} /\ Left \subseteq Nat
  BY <1>1
<1>3. PICK l \in Left : \A k \in Left : l <= k
  <2> HIDE DEF Left
  <2> QED
    BY <1>2, LeastNatural
<1>4. PICK m \in T : l = n - m
  BY <1>3
<1>5. \A k \in T : n - m <= n - k
  BY <1>3, <1>4
<1>6. \A k \in T : k <= m
  BY <1>1, <1>5
<1> QED
  BY <1>6

-----------------------------------------------------------------------------
(* Sequences                                                               *)

LEMMA RangeOfBoth ==
    ASSUME NEW S, NEW s \in Seq(S), NEW t \in Seq(S)
    PROVE  Range(s) \subseteq Range(s \o t) /\ Range(t) \subseteq Range(s \o t)
<1>1. \A i \in DOMAIN s : i \in DOMAIN (s \o t) /\ (s \o t)[i] = s[i]
  OBVIOUS
<1>2. \A i \in DOMAIN t : Len(s) + i \in DOMAIN (s \o t) /\ (s \o t)[Len(s) + i] = t[i]
  OBVIOUS
<1> QED
  BY <1>1, <1>2 DEF Range

(* Sequences laid end to end make a sequence of the same elements. *)
LEMMA FlattenType ==
    ASSUME NEW S, NEW seqs \in Seq(Seq(S))
    PROVE  /\ FlattenSeq(seqs) \in Seq(S)
           /\ \A i \in 1..Len(seqs) : Range(seqs[i]) \subseteq Range(FlattenSeq(seqs))
<1> DEFINE n == Len(seqs)
           Link(g, i) == IF i = 1 THEN seqs[i] ELSE g[i - 1] \o seqs[i]
           Lays(g, m) == g \in [1..m -> Seq(S)] /\ \A i \in 1..m : g[i] = Link(g, i)
           T == {m \in 0..n : ~ \E g : Lays(g, m)}
<1>1. n \in Nat /\ \A i \in 1..n : seqs[i] \in Seq(S)
  OBVIOUS
<1>2. ASSUME T # {} PROVE FALSE
  <2>1. PICK m \in T : \A k \in T : m <= k
    <3>1. T \subseteq Nat
      BY <1>1
    <3> HIDE DEF T
    <3> QED
      BY <3>1, <1>2, LeastNatural
  <2>2. m # 0
    <3>1. Lays([i \in 1..0 |-> <<>>], 0)
      OBVIOUS
    <3> QED
      BY <2>1, <3>1
  <2>3. m - 1 \in 0..n /\ m - 1 \notin T /\ m \in 1..n
    <3>1. m \in 0..n
      BY <2>1
    <3>2. m - 1 \in 0..n /\ m \in 1..n /\ ~ (m <= m - 1)
      BY <3>1, <2>2, <1>1
    <3> HIDE DEF T
    <3> QED
      BY <3>2, <2>1
  <2>4. PICK g : Lays(g, m - 1)
    BY <2>3
  <2>11. \A i \in 1..m : i # m => i \in 1..(m - 1)
    BY <2>3, <1>1
  <2>12. \A i \in 1..m : i # m => g[i] = Link(g, i)
    <3> HIDE DEF Link
    <3> QED
      BY <2>11, <2>4
  <2> DEFINE h == [i \in 1..m |-> IF i = m THEN Link(g, m) ELSE g[i]]
  <2>5. Link(g, m) \in Seq(S)
    <3>1. m # 1 => g[m - 1] \in Seq(S)
      BY <2>3, <2>4, <1>1
    <3>2. seqs[m] \in Seq(S)
      BY <2>3, <1>1
    <3> QED
      BY <3>1, <3>2
  <2>6. h \in [1..m -> Seq(S)]
    <3>1. \A i \in 1..m : i # m => g[i] \in Seq(S)
      BY <2>3, <2>4, <1>1
    <3> HIDE DEF Link
    <3> QED
      BY <3>1, <2>5
  <2>7. \A i \in 1..m : h[i] = Link(h, i)
    <3> TAKE i \in 1..m
    <3>1. CASE i = 1 /\ i = m
      BY <3>1
    <3>2. CASE i = 1 /\ i # m
      <4>1. g[1] = seqs[1]
        BY <2>12, <3>2
      <4> QED
        BY <3>2, <4>1
    <3>3. CASE i # 1
      <4>1. i - 1 \in 1..m /\ i - 1 # m /\ h[i - 1] = g[i - 1]
        BY <3>3, <2>3, <1>1
      <4>2. CASE i = m
        BY <4>1, <4>2, <3>3
      <4>3. CASE i # m
        <5>1. g[i] = g[i - 1] \o seqs[i]
          BY <2>12, <3>3, <4>3
        <5> QED
          BY <5>1, <4>1, <4>3, <3>3
      <4> QED
        BY <4>2, <4>3
    <3> QED
      BY <3>1, <3>2, <3>3
  <2>8. Lays(h, m)
    BY <2>6, <2>7
  <2> QED
    BY <2>8, <2>1
<1>3. PICK laid : Lays(laid, n)
  <2>1. n \in 0..n
    BY <1>1
  <2> HIDE DEF Lays
  <2> QED
    BY <2>1, <1>2
<1> DEFINE flat == CHOOSE g : g = [i \in 1..n |-> Link(g, i)]
<1>4. flat = [i \in 1..n |-> Link(flat, i)]
  <2>1. laid = [i \in 1..n |-> Link(laid, i)]
    <3> HIDE DEF Link
    <3> QED
      BY <1>3
  <2> QED
    BY <2>1, Zenon
<1>5. \A i \in 1..n : flat[i] = Link(flat, i)
  <2> HIDE DEF Link, flat
  <2> QED
    BY <1>4
<1> HIDE DEF flat
<1> DEFINE U == {i \in 1..n : flat[i] \notin Seq(S)}
<1>6. ASSUME U # {} PROVE FALSE
  <2>1. PICK m \in U : \A k \in U : m <= k
    <3>1. U \subseteq Nat
      BY <1>1
    <3> HIDE DEF U
    <3> QED
      BY <3>1, <1>6, LeastNatural
  <2>2. m \in 1..n /\ seqs[m] \in Seq(S)
    BY <2>1, <1>1
  <2>3. m # 1 => flat[m - 1] \in Seq(S)
    BY <2>1, <1>1
  <2>4. flat[m] = Link(flat, m)
    BY <2>2, <1>5
  <2>5. CASE m = 1
    BY <2>1, <2>2, <2>4, <2>5
  <2>6. CASE m # 1
    <3>1. flat[m] = flat[m - 1] \o seqs[m]
      BY <2>4, <2>6
    <3>2. flat[m - 1] \o seqs[m] \in Seq(S)
      BY <2>2, <2>3, <2>6
    <3> QED
      BY <2>1, <3>1, <3>2
  <2> QED
    BY <2>5, <2>6
<1>7. \A i \in 1..n : flat[i] \in Seq(S)
  BY <1>6
<1> DEFINE V == {i \in 1..n : \E j \in 1..i : ~ (Range(seqs[j]) \subseteq Range(flat[i]))}
<1>8. ASSUME V # {} PROVE FALSE
  <2>1. PICK m \in V : \A k \in V : m <= k
    <3>1. V \subseteq Nat
      BY <1>1
    <3> HIDE DEF V
    <3> QED
      BY <3>1, <1>8, LeastNatural
  <2>2. m \in 1..n /\ seqs[m] \in Seq(S)
    BY <2>1, <1>1
  <2>3. PICK j \in 1..m : ~ (Range(seqs[j]) \subseteq Range(flat[m]))
    BY <2>1
  <2>4. flat[m] = Link(flat, m)
    BY <2>2, <1>5
  <2>5. CASE m = 1
    BY <2>3, <2>4, <2>5
  <2>6. CASE m # 1
    <3>1. flat[m] = flat[m - 1] \o seqs[m]
      BY <2>4, <2>6
    <3>2. m - 1 \in 1..n /\ ~ (m <= m - 1)
      BY <2>2, <2>6, <1>1
    <3>3. flat[m - 1] \in Seq(S) /\ \A k \in 1..(m - 1) : Range(seqs[k]) \subseteq Range(flat[m - 1])
      <4>1. m - 1 \notin V
        <5> HIDE DEF V
        <5> QED
          BY <2>1, <3>2
      <4> QED
        BY <3>2, <4>1, <1>7
    <3>4. Range(flat[m - 1]) \subseteq Range(flat[m]) /\ Range(seqs[m]) \subseteq Range(flat[m])
      BY <3>1, <3>3, <2>2, RangeOfBoth
    <3>5. j = m \/ j \in 1..(m - 1)
      BY <2>2, <2>3, <1>1
    <3> QED
      BY <2>3, <3>3, <3>4, <3>5
  <2> QED
    BY <2>5, <2>6
<1>9. n # 0 => flat[n] \in Seq(S) /\ \A i \in 1..n : Range(seqs[i]) \subseteq Range(flat[n])
  <2>1. n # 0 => n \in 1..n
    BY <1>1
  <2>2. n # 0 => n \notin V
    BY <1>8
  <2> QED
    BY <2>1, <2>2, <1>7
<1>10. n # 0 => FlattenSeq(seqs) = flat[n]
  BY Zenon DEF FlattenSeq, flat
<1>11. n = 0 => FlattenSeq(seqs) = seqs /\ seqs = <<>> /\ 1..n = {}
  <2>1. n = 0 => FlattenSeq(seqs) = seqs
    BY Zenon DEF FlattenSeq
  <2> QED
    BY <2>1
<1> HIDE DEF n
<1>12. FlattenSeq(seqs) \in Seq(S)
  BY <1>9, <1>10, <1>11
<1>13. \A i \in 1..n : Range(seqs[i]) \subseteq Range(FlattenSeq(seqs))
  BY <1>9, <1>10, <1>11
<1> QED
  BY <1>12, <1>13 DEF n

(* What is in a sequence with one element less, or one more. *)
LEMMA RangeOfTail ==
    ASSUME NEW S, NEW s \in Seq(S), s # <<>>
    PROVE  /\ Tail(s) \in Seq(S) /\ Head(s) \in S
           /\ Range(s) = {Head(s)} \cup Range(Tail(s))
<1>1. Tail(s) \in Seq(S) /\ Head(s) \in S /\ Head(s) = s[1] /\ 1 \in DOMAIN s
  OBVIOUS
<1>2. \A i \in DOMAIN Tail(s) : i + 1 \in DOMAIN s /\ Tail(s)[i] = s[i + 1]
  OBVIOUS
<1>3. \A i \in DOMAIN s : i = 1 \/ (i - 1 \in DOMAIN Tail(s) /\ s[i] = Tail(s)[i - 1])
  OBVIOUS
<1>4. \A x : x \in Range(s) => x = Head(s) \/ x \in Range(Tail(s))
  BY <1>1, <1>3 DEF Range
<1>5. \A x : x = Head(s) \/ x \in Range(Tail(s)) => x \in Range(s)
  BY <1>1, <1>2 DEF Range
<1> QED
  BY <1>1, <1>4, <1>5

LEMMA RangeOfRest ==
    ASSUME NEW S, NEW s \in Seq(S), NEW n \in 0..Len(s)
    PROVE  /\ SubSeq(s, n + 1, Len(s)) \in Seq(S)
           /\ Range(s) = {s[i] : i \in 1..n} \cup Range(SubSeq(s, n + 1, Len(s)))
           /\ SubSeq(s, n + 1, Len(s)) = <<>> <=> n = Len(s)
<1> DEFINE rest == SubSeq(s, n + 1, Len(s))
<1>1. rest \in Seq(S) /\ Len(rest) = Len(s) - n
  OBVIOUS
<1>2. \A i \in DOMAIN rest : i + n \in DOMAIN s /\ rest[i] = s[i + n]
  OBVIOUS
<1>3. \A i \in DOMAIN s : i \in 1..n \/ (i - n \in DOMAIN rest /\ s[i] = rest[i - n])
  OBVIOUS
<1>4. \A i \in 1..n : i \in DOMAIN s
  OBVIOUS
<1>5. rest = <<>> <=> n = Len(s)
  <2>1. Len(s) \in Nat /\ n \in Nat
    OBVIOUS
  <2>2. rest = <<>> <=> Len(rest) = 0
    BY <1>1
  <2> HIDE DEF rest
  <2> QED
    BY <1>1, <2>1, <2>2
<1> HIDE DEF rest
<1>6. \A x : x \in Range(s) => x \in {s[i] : i \in 1..n} \/ x \in Range(rest)
  BY <1>3 DEF Range
<1>7. \A x : x \in {s[i] : i \in 1..n} \/ x \in Range(rest) => x \in Range(s)
  BY <1>2, <1>4 DEF Range
<1>8. Range(s) = {s[i] : i \in 1..n} \cup Range(rest)
  BY <1>6, <1>7
<1> QED
  BY <1>1, <1>5, <1>8 DEF rest

LEMMA ElementsOfSeq ==
    ASSUME NEW S, NEW s \in Seq(S)
    PROVE  Range(s) \subseteq S /\ IsFiniteSet(Range(s))
<1>1. DOMAIN s = 1..Len(s) /\ Len(s) \in Nat
  OBVIOUS
<1>2. \A x \in Range(s) : x \in S
  BY DEF Range
<1>3. IsFiniteSet(Range(s))
  <2>1. IsFiniteSet(DOMAIN s)
    BY <1>1, FS_Interval
  <2>2. s \in Surjection(DOMAIN s, Range(s))
    BY <1>1 DEF Surjection, Range
  <2> QED
    BY <2>1, <2>2, FS_Surjection
<1> QED
  BY <1>2, <1>3

LEMMA RangeOfNone == ASSUME NEW S, NEW s \in Seq(S) PROVE s = <<>> <=> Range(s) = {}
  BY DEF Range

(* The elements of a finite set in some order. *)
LEMMA InSomeOrder ==
    ASSUME NEW S, IsFiniteSet(S)
    PROVE  SetToSeq(S) \in Seq(S) /\ Range(SetToSeq(S)) = S
<1> DEFINE n == Cardinality(S)
           s == SetToSeq(S)
<1>1. n \in Nat /\ ExistsBijection(1..n, S)
  BY FS_CardinalityType
<1>2. \E f \in [1..n -> S] : IsInjective(f)
  BY <1>1 DEF ExistsBijection, Bijection, Injection
<1>3. s \in [1..n -> S] /\ IsInjective(s)
  BY <1>2 DEF SetToSeq
<1> HIDE DEF s
<1>4. s \in Injection(1..n, S)
  BY <1>3 DEF Injection
<1>5. Cardinality(1..n) = n
  BY <1>1, FS_Interval
<1>6. s \in Surjection(1..n, S)
  <2> HIDE DEF n
  <2> QED
    BY <1>4, <1>5, FS_Injection DEF n
<1>7. s \in Seq(S)
  BY <1>1, <1>3
<1>8. Range(s) = S
  BY <1>3, <1>6 DEF Surjection, Range
<1> QED
  BY <1>7, <1>8 DEF s

-----------------------------------------------------------------------------
(* Sums over finite sets                                                   *)

\* g gives the sum of the weights w of each part of S, whichever element is taken first.
SumsUp(g, w, S) ==
    /\ (\A x \in S : w[x] \in Nat) /\ g \in [SUBSET S -> Nat] /\ g[{}] = 0
    /\ \A s \in SUBSET S : \A x \in s : g[s] = w[x] + g[s \ {x}]

(* One more element adds its weight. *)
LEMMA SumOfOneMore ==
    ASSUME NEW S, NEW a, a \notin S, NEW w, w[a] \in Nat, NEW g, SumsUp(g, w, S)
    PROVE  SumsUp([s \in SUBSET (S \cup {a}) |-> IF a \in s THEN w[a] + g[s \ {a}] ELSE g[s]],
                  w, S \cup {a})
<1> DEFINE h == [s \in SUBSET (S \cup {a}) |-> IF a \in s THEN w[a] + g[s \ {a}] ELSE g[s]]
<1>0. /\ (\A x \in S : w[x] \in Nat) /\ g \in [SUBSET S -> Nat] /\ g[{}] = 0
      /\ \A s \in SUBSET S : \A x \in s : g[s] = w[x] + g[s \ {x}]
  BY DEF SumsUp
<1>1. \A s \in SUBSET (S \cup {a}) : (a \in s => s \ {a} \in SUBSET S) /\ (a \notin s => s \in SUBSET S)
  OBVIOUS
<1>2. \A s \in SUBSET (S \cup {a}) : (IF a \in s THEN w[a] + g[s \ {a}] ELSE g[s]) \in Nat
  BY <1>0, <1>1
<1>3. h \in [SUBSET (S \cup {a}) -> Nat] /\ h[{}] = 0
  BY <1>0, <1>2
<1>4. ASSUME NEW s \in SUBSET (S \cup {a}), NEW x \in s PROVE h[s] = w[x] + h[s \ {x}]
  <2>1. s \ {x} \in SUBSET (S \cup {a})
    OBVIOUS
  <2>2. /\ h[s] = IF a \in s THEN w[a] + g[s \ {a}] ELSE g[s]
        /\ h[s \ {x}] = IF a \in s \ {x} THEN w[a] + g[(s \ {x}) \ {a}] ELSE g[s \ {x}]
    BY <2>1
  <2> HIDE DEF h
  <2>3. CASE a \notin s
    BY <2>2, <2>3, <1>0, <1>1
  <2>4. CASE x = a
    BY <2>2, <2>4
  <2>5. CASE a \in s /\ x # a
    <3>1. s \ {a} \in SUBSET S /\ x \in s \ {a} /\ (s \ {a}) \ {x} = (s \ {x}) \ {a}
      BY <2>5, <1>1
    <3>2. (s \ {a}) \ {x} \in SUBSET S
      BY <3>1
    <3>3. g[s \ {a}] = w[x] + g[(s \ {x}) \ {a}]
      <4>1. \A y \in s \ {a} : g[s \ {a}] = w[y] + g[(s \ {a}) \ {y}]
        BY <3>1, <1>0
      <4> QED
        BY <4>1, <3>1
    <3>4. w[x] \in Nat /\ g[s \ {a}] \in Nat /\ g[(s \ {x}) \ {a}] \in Nat
      <4>1. x \in S /\ (s \ {x}) \ {a} \in SUBSET S
        BY <2>5
      <4> QED
        BY <4>1, <3>1, <1>0
    <3>5. h[s] = w[a] + g[s \ {a}] /\ h[s \ {x}] = w[a] + g[(s \ {x}) \ {a}]
      BY <2>2, <2>5
    <3> QED
      BY <3>3, <3>4, <3>5
  <2> QED
    BY <2>3, <2>4, <2>5
<1> QED
  BY <1>0, <1>3, <1>4 DEF SumsUp

\* h takes the elements of each part of S one at a time, in some order.
OneAtATime(h, w, S) ==
    /\ h[{}] = 0
    /\ \A s \in SUBSET S : s # {} => \E x \in s : h[s] = w[x] + h[s \ {x}]

(* Every finite set with natural weights has its sums. *)
LEMMA SumsExist ==
    ASSUME NEW S, IsFiniteSet(S), NEW w, \A x \in S : w[x] \in Nat
    PROVE  \E g : SumsUp(g, w, S)
<1> DEFINE Bad == {s \in SUBSET S : ~ \E g : SumsUp(g, w, s)}
           T == {Cardinality(s) : s \in Bad}
<1>1. \A s \in SUBSET S : IsFiniteSet(s) /\ Cardinality(s) \in Nat
  BY FS_Subset, FS_CardinalityType
<1>2. ASSUME Bad # {} PROVE FALSE
  <2>1. T \subseteq Nat /\ T # {}
    BY <1>1, <1>2
  <2>2. PICK m \in T : \A k \in T : m <= k
    <3> HIDE DEF T
    <3> QED
      BY <2>1, LeastNatural
  <2>3. PICK s \in Bad : m = Cardinality(s)
    BY <2>2
  <2>4. s # {}
    <3>1. SumsUp([t \in SUBSET {} |-> 0], w, {})
      BY DEF SumsUp
    <3> QED
      BY <3>1, <2>3
  <2>5. PICK a \in s : TRUE
    BY <2>4
  <2>6. s \ {a} \in SUBSET S /\ Cardinality(s \ {a}) = m - 1 /\ m \in Nat
    BY <1>1, <2>3, <2>5, FS_RemoveElement
  <2>7. s \ {a} \notin Bad
    <3>1. s \ {a} \in Bad => m <= m - 1
      BY <2>2, <2>6
    <3> QED
      BY <3>1, <2>6
  <2>8. PICK g : SumsUp(g, w, s \ {a})
    BY <2>6, <2>7
  <2>9. (s \ {a}) \cup {a} = s /\ w[a] \in Nat
    BY <2>3, <2>5
  <2>10. \E h : SumsUp(h, w, (s \ {a}) \cup {a})
    <3>1. a \notin s \ {a}
      OBVIOUS
    <3> QED
      BY <3>1, <2>8, <2>9, SumOfOneMore
  <2> QED
    BY <2>3, <2>9, <2>10
<1>3. S \in SUBSET S
  OBVIOUS
<1> QED
  BY <1>2, <1>3

(* Every function that takes the elements one at a time, in whatever order, *)
(* computes the sums.                                                       *)
LEMMA SumIsUnique ==
    ASSUME NEW S, IsFiniteSet(S), NEW w, NEW g, SumsUp(g, w, S), NEW h,
           OneAtATime(h, w, S)
    PROVE  h[S] = g[S]
<1> DEFINE Bad == {s \in SUBSET S : h[s] # g[s]}
           T == {Cardinality(s) : s \in Bad}
<1>1. \A s \in SUBSET S : IsFiniteSet(s) /\ Cardinality(s) \in Nat
  BY FS_Subset, FS_CardinalityType
<1>2. ASSUME Bad # {} PROVE FALSE
  <2>1. T \subseteq Nat /\ T # {}
    BY <1>1, <1>2
  <2>2. PICK m \in T : \A k \in T : m <= k
    <3> HIDE DEF T
    <3> QED
      BY <2>1, LeastNatural
  <2>3. PICK s \in Bad : m = Cardinality(s)
    BY <2>2
  <2>4. s # {}
    BY <2>3 DEF SumsUp, OneAtATime
  <2>5. PICK x \in s : h[s] = w[x] + h[s \ {x}]
    BY <2>3, <2>4 DEF OneAtATime
  <2>6. s \ {x} \in SUBSET S /\ Cardinality(s \ {x}) = m - 1 /\ m \in Nat
    BY <1>1, <2>3, <2>5, FS_RemoveElement
  <2>7. s \ {x} \notin Bad
    <3>1. s \ {x} \in Bad => m <= m - 1
      BY <2>2, <2>6
    <3> QED
      BY <3>1, <2>6
  <2>8. h[s \ {x}] = g[s \ {x}]
    BY <2>6, <2>7
  <2>9. g[s] = w[x] + g[s \ {x}]
    BY <2>3, <2>5 DEF SumsUp
  <2> QED
    BY <2>3, <2>5, <2>8, <2>9
<1>3. S \in SUBSET S
  OBVIOUS
<1> QED
  BY <1>2, <1>3
=============================================================================
