--------------------------- MODULE LeastNumbers ---------------------------
(***************************************************************************)
(* The principle that the proofs about sequences rest on: a set of natural *)
(* numbers has a least member, and one that is bounded a greatest. So a    *)
(* recursion on numbers has a function, and a sequence of sequences can be *)
(* joined.                                                                 *)
(***************************************************************************)
EXTENDS Integers, SequencesExt, SequenceTheorems, WellFoundedInduction, TLAPS

\* A set of natural numbers has a least member.
LEMMA LeastNat ==
  ASSUME NEW T \in SUBSET Nat, T # {}
  PROVE  \E n \in T : \A k \in T : n <= k
<1>1. IsWellFoundedOn(OpToRel(<, Nat), Nat)
  BY NatLessThanWellFounded, Zenon
<1>2. PICK x \in T : \A y \in T : ~ (<<y, x>> \in OpToRel(<, Nat))
  BY <1>1, WFMin, Zenon
<1>3. \A y \in T : ~(y < x)
  BY <1>2 DEF OpToRel
<1> QED
  BY <1>3

\* ... and one that is bounded a greatest.
LEMMA GreatestNat ==
  ASSUME NEW n \in Nat, NEW T \in SUBSET (1..n), T # {}
  PROVE  \E i \in T : \A j \in T : j <= i
<1> DEFINE U == {n - i : i \in T}
<1>1. U \in SUBSET Nat /\ U # {}
  <2>1. \A i \in T : n - i \in Nat
    OBVIOUS
  <2> QED
    BY <2>1
<1>2. PICK u \in U : \A v \in U : u <= v
  <2> HIDE DEF U
  <2> QED
    BY <1>1, LeastNat
<1>3. PICK i \in T : u = n - i
  BY <1>2
<1>4. ASSUME NEW j \in T PROVE j <= i
  <2>1. n - i <= n - j
    BY <1>2, <1>3
  <2> QED
    BY <2>1
<1> QED
  BY <1>4

\* f begins with base and goes on, n times, as step says.
GoesOn(f, n, base, step) == f[0] = base /\ \A i \in 1 .. n : f[i] = step[i][f[i - 1]]

\* A definition by recursion on the numbers up to n has a function.
LEMMA Recursion ==
  ASSUME NEW V, NEW n \in Nat, NEW base \in V, NEW step \in [1 .. n -> [V -> V]]
  PROVE  \E f \in [0 .. n -> V] : GoesOn(f, n, base, step)
<1> USE DEF GoesOn
<1> DEFINE Made(f, m) == f[0] = base /\ \A i \in 1 .. m : f[i] = step[i][f[i - 1]]
           Bad == {m \in 0 .. n : ~ \E f \in [0 .. m -> V] : Made(f, m)}
<1>1. SUFFICES ASSUME Bad # {} PROVE FALSE
  <2>1. n \in 0 .. n
    OBVIOUS
  <2> QED
    BY <1>1, <2>1
<1>2. PICK m \in Bad : \A k \in Bad : m <= k
  <2>1. Bad \in SUBSET Nat
    OBVIOUS
  <2> HIDE DEF Bad
  <2> QED
    BY <1>1, <2>1, LeastNat
<1>3. m \in 0 .. n /\ ~ \E f \in [0 .. m -> V] : Made(f, m)
  BY <1>2
<1>4. m # 0
  <2> DEFINE f == [i \in 0 .. 0 |-> base]
  <2>1. f \in [0 .. 0 -> V] /\ Made(f, 0)
    OBVIOUS
  <2> QED
    BY <1>3, <2>1
<1>5. m \in 1 .. n /\ m - 1 \in 0 .. n /\ m - 1 \notin Bad
  <2>1. m \in 1 .. n /\ m - 1 \in 0 .. n /\ ~(m <= m - 1)
    BY <1>3, <1>4
  <2> HIDE DEF Bad
  <2> QED
    BY <1>2, <2>1
<1>6. PICK f \in [0 .. m - 1 -> V] : Made(f, m - 1)
  BY <1>5
<1> DEFINE g == [i \in 0 .. m |-> IF i = m THEN step[m][f[m - 1]] ELSE f[i]]
<1>7. g \in [0 .. m -> V]
  <2>1. m - 1 \in 0 .. m - 1
    BY <1>5
  <2>2. step[m][f[m - 1]] \in V
    BY <1>5, <2>1
  <2>3. \A i \in 0 .. m : i # m => i \in 0 .. m - 1
    BY <1>5
  <2> QED
    BY <2>2, <2>3
<1>8. Made(g, m)
  <2>1. g[0] = base
    BY <1>5, <1>6
  <2>2. ASSUME NEW i \in 1 .. m PROVE g[i] = step[i][g[i - 1]]
    <3>1. g[i - 1] = f[i - 1]
      BY <1>5
    <3>2. CASE i = m
      BY <1>5, <3>1, <3>2
    <3>3. CASE i # m
      <4>1. i \in 1 .. m - 1 /\ g[i] = f[i]
        BY <1>5, <3>3
      <4> QED
        BY <1>6, <3>1, <4>1
    <3> QED
      BY <3>2, <3>3
  <2> QED
    BY <2>1, <2>2
<1> QED
  BY <1>3, <1>7, <1>8

\* f has what the first ones of seqs are when put together.
Joins(f, seqs, n) == f[1] = seqs[1] /\ \A i \in 2 .. n : f[i] = f[i - 1] \o seqs[i]

\* What a flattened sequence is put together from, one sequence at a time.
LEMMA Flattened ==
  ASSUME NEW S, NEW n \in Nat \ {0}, NEW seqs \in [1 .. n -> Seq(S)]
  PROVE  \E f \in [1 .. n -> Seq(S)] : Joins(f, seqs, n) /\ FlattenSeq(seqs) = f[n]
<1> DEFINE V == Seq(S)
           step == [i \in 1 .. n |-> [v \in V |-> v \o seqs[i]]]
           Rule(f) == f = [i \in 1 .. n |-> IF i = 1 THEN seqs[i] ELSE f[i - 1] \o seqs[i]]
<1>1. PICK f \in [0 .. n -> V] : f[0] = <<>> /\ \A i \in 1 .. n : f[i] = step[i][f[i - 1]]
  <2>1. PICK empty \in V : empty = <<>>
    BY EmptySeq
  <2>2. n \in Nat /\ step \in [1 .. n -> [V -> V]]
    OBVIOUS
  <2> HIDE DEF V, step
  <2>3. \E f \in [0 .. n -> V] : GoesOn(f, n, empty, step)
    BY <2>2, Recursion
  <2> QED
    BY <2>1, <2>3 DEF GoesOn
<1>2. \A i \in 1 .. n : f[i] = f[i - 1] \o seqs[i]
  <2> SUFFICES ASSUME NEW i \in 1 .. n PROVE f[i] = f[i - 1] \o seqs[i]
    OBVIOUS
  <2>1. i - 1 \in 0 .. n
    OBVIOUS
  <2>2. f[i - 1] \in V
    BY <2>1
  <2> QED
    BY <1>1, <2>2
<1>3. f[1] = seqs[1]
  <2>1. 1 \in 1 .. n
    OBVIOUS
  <2>2. seqs[1] \in Seq(S) /\ 1 - 1 = 0
    BY <2>1
  <2> HIDE DEF V, step
  <2>3. f[1] = f[0] \o seqs[1]
    BY <1>2, <2>1, <2>2
  <2> QED
    BY <1>1, <2>2, <2>3, ConcatEmptySeq
<1> DEFINE h == [i \in 1 .. n |-> f[i]]
<1>4. Rule(h)
  <2>1. \A i \in 1 .. n : i # 1 => i - 1 \in 1 .. n
    OBVIOUS
  <2> QED
    BY <1>2, <1>3, <2>1
<1>5. Len(seqs) = n
  <2>1. seqs \in Seq(Seq(S))
    OBVIOUS
  <2>2. DOMAIN seqs = 1 .. Len(seqs) /\ Len(seqs) \in Nat
    BY <2>1, LenProperties
  <2>3. 1 .. n = 1 .. Len(seqs)
    BY <2>2
  <2> QED
    BY <2>2, <2>3
<1>6. PICK g : Rule(g) /\ FlattenSeq(seqs) = g[n]
  <2> HIDE DEF h
  <2> QED
    BY <1>4, <1>5 DEF FlattenSeq
<1>7. \A i \in 1 .. n : g[i] = f[i]
  <2> DEFINE Bad == {i \in 1 .. n : g[i] # f[i]}
  <2>1. SUFFICES ASSUME Bad # {} PROVE FALSE
    OBVIOUS
  <2>2. PICK i \in Bad : \A k \in Bad : i <= k
    <3>1. Bad \in SUBSET Nat
      OBVIOUS
    <3> HIDE DEF Bad
    <3> QED
      BY <2>1, <3>1, LeastNat
  <2>3. i \in 1 .. n /\ g[i] # f[i]
    BY <2>2
  <2>4. g[i] = IF i = 1 THEN seqs[i] ELSE g[i - 1] \o seqs[i]
    BY <1>6, <2>3
  <2>5. i # 1
    BY <1>3, <2>3, <2>4
  <2>6. i - 1 \in 1 .. n /\ i - 1 \notin Bad
    BY <2>2, <2>3, <2>5
  <2>7. g[i - 1] = f[i - 1]
    BY <2>6
  <2> QED
    BY <1>2, <2>3, <2>4, <2>5, <2>7
<1>8. h \in [1 .. n -> Seq(S)] /\ \A i \in 1 .. n : h[i] = f[i]
  OBVIOUS
<1>9. \A i \in 2 .. n : h[i] = h[i - 1] \o seqs[i]
  <2>1. \A i \in 2 .. n : i \in 1 .. n /\ i - 1 \in 1 .. n
    OBVIOUS
  <2> HIDE DEF h
  <2> QED
    BY <1>2, <1>8, <2>1
<1>10. FlattenSeq(seqs) = h[n] /\ h[1] = seqs[1]
  <2>1. n \in 1 .. n /\ 1 \in 1 .. n
    OBVIOUS
  <2> HIDE DEF h
  <2> QED
    BY <1>3, <1>6, <1>7, <1>8, <2>1
<1> QED
  <2> HIDE DEF h
  <2> QED
    BY <1>8, <1>9, <1>10 DEF Joins

\* What division gives.
LEMMA Division ==
  ASSUME NEW a \in Nat, NEW d \in Nat \ {0}
  PROVE  /\ a \div d \in Nat
         /\ d * (a \div d) <= a /\ a < d * (a \div d) + d
         /\ a = d * (a \div d) + (a % d)
OBVIOUS

\* What an element at the end adds to a sequence.
LEMMA OneMore ==
  ASSUME NEW S, NEW s \in Seq(S), NEW e \in S, NEW t, t = Append(s, e)
  PROVE  /\ t \in Seq(S) /\ Len(t) = Len(s) + 1 /\ Len(s) \in Nat
         /\ \A i \in 1 .. Len(s) : t[i] = s[i]
         /\ t[Len(s) + 1] = e
         /\ \A i \in 1 .. Len(t) : i \in 1 .. Len(s) \/ i = Len(s) + 1
OBVIOUS
=============================================================================
