--------------------------- MODULE SequenceLemmas ---------------------------
(***************************************************************************)
(* Induction and recursion for the proofs, and with them the lemmas about  *)
(* the folds of the community modules that the models are built from.      *)
(*                                                                         *)
(* The library states induction for a predicate.  Here it is stated for a  *)
(* set, which a proof can give: {n \in Nat : P(n)}.                        *)
(***************************************************************************)
EXTENDS Integers, SequencesExt, FiniteSetsExt, WellFoundedInduction, SequenceTheorems,
        FiniteSetTheorems, TLAPS

(* Every set of natural numbers that is not empty has a smallest element.   *)
LEMMA LeastNatural ==
    ASSUME NEW S, S \subseteq Nat, S # {}
    PROVE  \E n \in S : \A m \in S : n =< m
<1>1. PICK n \in S : \A m \in S : <<m, n>> \notin OpToRel(<, Nat)
  BY WFMin, NatLessThanWellFounded, Zenon
<1>2. \A m \in S : ~(m < n)
  BY <1>1 DEF OpToRel
<1> QED
  BY <1>2

(* Induction over the natural numbers.                                      *)
LEMMA Induction ==
    ASSUME NEW S, 0 \in S, \A n \in Nat : n \in S => n + 1 \in S
    PROVE  Nat \subseteq S
<1> SUFFICES ASSUME Nat \ S # {} PROVE FALSE
  OBVIOUS
<1>1. PICK n \in Nat \ S : \A m \in Nat \ S : n =< m
  BY LeastNatural, Zenon
<1>2. n - 1 \in Nat /\ n - 1 \in S
  BY <1>1
<1> QED
  BY <1>1, <1>2

(* Induction over sequences, by what is appended.                           *)
LEMMA SequenceInduction ==
    ASSUME NEW X, NEW S, <<>> \in S,
           \A s \in Seq(X), x \in X : s \in S => Append(s, x) \in S
    PROVE  Seq(X) \subseteq S
<1> DEFINE Good == {n \in Nat : \A s \in Seq(X) : Len(s) = n => s \in S}
<1>1. 0 \in Good
  BY EmptySeq
<1>2. ASSUME NEW n \in Nat, n \in Good
      PROVE  n + 1 \in Good
  <2> SUFFICES ASSUME NEW s \in Seq(X), Len(s) = n + 1
               PROVE  s \in S
    OBVIOUS
  <2> DEFINE front == SubSeq(s, 1, n)
  <2>1. front \in Seq(X) /\ Len(front) = n /\ s[n + 1] \in X /\ s = Append(front, s[n + 1])
    OBVIOUS
  <2> QED
    BY <1>2, <2>1
<1>3. Nat \subseteq Good
  <2> HIDE DEF Good
  <2> QED
    BY <1>1, <1>2, Induction, Zenon
<1> QED
  BY <1>3, LenProperties

(* What starts alike and goes on alike is alike.                            *)
LEMMA SameSteps ==
    ASSUME NEW f, NEW g, NEW k \in Nat, f[0] = g[0],
           \A n \in 0 .. k - 1 : f[n] = g[n] => f[n + 1] = g[n + 1]
    PROVE  \A n \in 0 .. k : f[n] = g[n]
<1> DEFINE Good == {n \in Nat : n =< k => f[n] = g[n]}
<1>1. 0 \in Good
  OBVIOUS
<1>2. \A n \in Nat : n \in Good => n + 1 \in Good
  OBVIOUS
<1>3. Nat \subseteq Good
  <2> HIDE DEF Good
  <2> QED
    BY <1>1, <1>2, Induction, Zenon
<1> QED
  BY <1>3

(* A function that takes the steps of another one up to n.                  *)
Starts(V, b, step, f, n) ==
    /\ f \in [0 .. n -> V] /\ f[0] = b
    /\ \A m \in 0 .. n - 1 : f[m + 1] = step[m][f[m]]

LEMMA OneStepMore ==
    ASSUME NEW V, NEW b \in V, NEW step \in [Nat -> [V -> V]], NEW n \in Nat, NEW f,
           Starts(V, b, step, f, n)
    PROVE  \E g : Starts(V, b, step, g, n + 1)
<1> DEFINE g == [m \in 0 .. n + 1 |-> IF m =< n THEN f[m] ELSE step[n][f[n]]]
<1>1. f[n] \in V /\ step[n] \in [V -> V]
  BY DEF Starts
<1>2. step[n][f[n]] \in V
  BY <1>1
<1>3. g \in [0 .. n + 1 -> V] /\ g[0] = b
  BY <1>2 DEF Starts
<1>4. ASSUME NEW m \in 0 .. n
      PROVE  g[m + 1] = step[m][g[m]]
  <2>1. CASE m = n
    BY <2>1
  <2>2. CASE m < n
    BY <2>2 DEF Starts
  <2> QED
    BY <2>1, <2>2
<1> HIDE DEF g
<1>5. Starts(V, b, step, g, n + 1)
  BY <1>3, <1>4 DEF Starts
<1> QED
  BY <1>5

(* Two that start do so alike.                                              *)
LEMMA StartsAlike ==
    ASSUME NEW V, NEW b \in V, NEW step \in [Nat -> [V -> V]], NEW n \in Nat, NEW f, NEW g,
           Starts(V, b, step, f, n), Starts(V, b, step, g, n + 1)
    PROVE  g[n] = f[n]
<1>1. f[0] = g[0]
  BY DEF Starts
<1>2. \A m \in 0 .. n - 1 : f[m] = g[m] => f[m + 1] = g[m + 1]
  <2>1. \A m \in 0 .. n - 1 : f[m + 1] = step[m][f[m]] /\ m \in 0 .. n + 1 - 1
    BY DEF Starts
  <2>2. \A m \in 0 .. n + 1 - 1 : g[m + 1] = step[m][g[m]]
    BY DEF Starts
  <2> QED
    BY <2>1, <2>2
<1>3. \A m \in 0 .. n : f[m] = g[m]
  BY <1>1, <1>2, SameSteps
<1> QED
  BY <1>3

(* One that takes all of them.                                              *)
Follows(V, b, step, f) ==
    f \in [Nat -> V] /\ f[0] = b /\ \A n \in Nat : f[n + 1] = step[n][f[n]]

(* A function is defined by its first value and its steps.                  *)
LEMMA Recursion ==
    ASSUME NEW V, NEW b \in V, NEW step \in [Nat -> [V -> V]]
    PROVE  \E f : Follows(V, b, step, f)
<1> DEFINE Good == {n \in Nat : \E f : Starts(V, b, step, f, n)}
           start(n) == CHOOSE f : Starts(V, b, step, f, n)
           all == [n \in Nat |-> start(n)[n]]
<1>1. 0 \in Good
  <2>1. Starts(V, b, step, [m \in 0 .. 0 |-> b], 0)
    BY DEF Starts
  <2> QED
    BY <2>1
<1>2. \A n \in Nat : n \in Good => n + 1 \in Good
  BY OneStepMore
<1>3. Nat \subseteq Good
  <2> HIDE DEF Good
  <2> QED
    BY <1>1, <1>2, Induction, Zenon
<1>4. \A n \in Nat : Starts(V, b, step, start(n), n)
  BY <1>3, Zenon
<1> HIDE DEF start
<1>5. \A n \in Nat : start(n + 1)[n] = start(n)[n]
  <2> SUFFICES ASSUME NEW n \in Nat
               PROVE  start(n + 1)[n] = start(n)[n]
    OBVIOUS
  <2>1. n + 1 \in Nat
    OBVIOUS
  <2> QED
    BY <1>4, <2>1, StartsAlike
<1>6. all \in [Nat -> V] /\ all[0] = b
  BY <1>4 DEF Starts
<1>7. \A n \in Nat : all[n + 1] = step[n][all[n]]
  <2> SUFFICES ASSUME NEW n \in Nat
               PROVE  start(n + 1)[n + 1] = step[n][start(n)[n]]
    OBVIOUS
  <2>1. start(n + 1)[n + 1] = step[n][start(n + 1)[n]]
    BY <1>4 DEF Starts
  <2> QED
    BY <2>1, <1>5
<1> QED
  <2> HIDE DEF all
  <2>1. Follows(V, b, step, all)
    BY <1>6, <1>7 DEF Follows
  <2> QED
    BY <2>1

-----------------------------------------------------------------------------
(* FlattenSeq.                                                              *)

(* The concatenations of the first sequences, one more each time.           *)
Concatenates(X, ss, k, f) ==
    /\ f \in [0 .. k -> Seq(X)] /\ f[0] = <<>>
    /\ \A n \in 0 .. k - 1 : f[n + 1] = f[n] \o ss[n + 1]

LEMMA ConcatenationsExist ==
    ASSUME NEW X, NEW k \in Nat, NEW ss \in [1 .. k -> Seq(X)]
    PROVE  \E f : Concatenates(X, ss, k, f)
<1> DEFINE V == Seq(X)
           at(n) == IF n + 1 \in 1 .. k THEN ss[n + 1] ELSE <<>>
           step == [n \in Nat |-> [v \in V |-> v \o at(n)]]
           nil == <<>>
<1>1. nil \in V /\ (\A n \in Nat : at(n) \in V) /\ \A v, w \in V : v \o w \in V
  OBVIOUS
<1>2. step \in [Nat -> [V -> V]]
  <2> HIDE DEF at, V
  <2> QED
    BY <1>1
<1>3. \A n \in Nat, v \in V : step[n][v] = v \o at(n)
  <2> HIDE DEF at, V
  <2> QED
    OBVIOUS
<1>4. PICK f : Follows(V, nil, step, f)
  <2>1. nil \in V
    BY <1>1
  <2> HIDE DEF step, V, at, nil
  <2> QED
    BY <1>2, <2>1, Recursion
<1> DEFINE g == [n \in 0 .. k |-> f[n]]
<1>5. \A n \in 0 .. k - 1 : f[n + 1] = f[n] \o ss[n + 1]
  <2> SUFFICES ASSUME NEW n \in 0 .. k - 1
               PROVE  f[n + 1] = f[n] \o ss[n + 1]
    OBVIOUS
  <2>1. n \in Nat /\ at(n) = ss[n + 1]
    OBVIOUS
  <2> HIDE DEF step, V, at
  <2> QED
    BY <1>3, <1>4, <2>1 DEF Follows
<1>6. Concatenates(X, ss, k, g)
  <2>1. g \in [0 .. k -> Seq(X)] /\ g[0] = <<>>
    <3>1. f \in [Nat -> V] /\ f[0] = <<>>
      BY <1>4 DEF Follows
    <3> QED
      BY <3>1
  <2>2. \A n \in 0 .. k - 1 : g[n + 1] = g[n] \o ss[n + 1]
    <3>1. \A n \in 0 .. k - 1 : g[n] = f[n] /\ g[n + 1] = f[n + 1]
      OBVIOUS
    <3> HIDE DEF g
    <3> QED
      BY <1>5, <3>1
  <2> HIDE DEF g
  <2> QED
    BY <2>1, <2>2 DEF Concatenates
<1> QED
  BY <1>6, Zenon

(* FlattenSeq gives the last of them.                                       *)
LEMMA FlattenLast ==
    ASSUME NEW X, NEW ss \in Seq(Seq(X)), NEW k \in Nat, k = Len(ss), NEW f,
           Concatenates(X, ss, k, f)
    PROVE  FlattenSeq(ss) = f[k]
<1>1. CASE k = 0
  <2>1. FlattenSeq(ss) = ss
    BY <1>1, Zenon DEF FlattenSeq
  <2>2. ss = <<>>
    BY <1>1, EmptySeq
  <2> QED
    BY <1>1, <2>1, <2>2 DEF Concatenates
<1>2. CASE k # 0
  <2> DEFINE Is(g) == g = [i \in 1 .. Len(ss) |->
                              IF i = 1 THEN ss[i] ELSE g[i - 1] \o ss[i]]
             g0 == [i \in 1 .. Len(ss) |-> f[i]]
             g1 == CHOOSE g : Is(g)
             h == [i \in 0 .. k |-> IF i = 0 THEN <<>> ELSE g1[i]]
  <2>1. Is(g0)
    <3>1. f[1] = ss[1]
      <4>1. 0 \in 0 .. k - 1
        BY <1>2
      <4>3. f[0 + 1] = f[0] \o ss[0 + 1] /\ f[0] = <<>>
        BY <4>1 DEF Concatenates
      <4>2. ss[1] \in Seq(X)
        BY <1>2
      <4> QED
        BY <4>2, <4>3
    <3>2. ASSUME NEW i \in 1 .. k, i # 1
          PROVE  f[i] = g0[i - 1] \o ss[i]
      <4>1. i - 1 \in 0 .. k - 1 /\ i - 1 \in 1 .. Len(ss) /\ i - 1 + 1 = i
        BY <3>2
      <4>2. f[i] = f[i - 1] \o ss[i]
        BY <4>1 DEF Concatenates
      <4> QED
        BY <4>1, <4>2
    <3>3. \A i \in 1 .. Len(ss) : f[i] = IF i = 1 THEN ss[i] ELSE g0[i - 1] \o ss[i]
      <4> HIDE DEF g0
      <4> QED
        BY <3>1, <3>2
    <3>4. g0 = [i \in 1 .. Len(ss) |-> IF i = 1 THEN ss[i] ELSE g0[i - 1] \o ss[i]]
      <4>1. g0 = [i \in 1 .. Len(ss) |-> f[i]]
        OBVIOUS
      <4> HIDE DEF g0
      <4> QED
        BY <3>3, <4>1
    <3> QED
      BY <3>4
  <2>2. Is(g1)
    <3> HIDE DEF Is
    <3> QED
      BY <2>1, Zenon
  <2>3. FlattenSeq(ss) = g1[k]
    BY <1>2 DEF FlattenSeq
  <2> HIDE DEF g1
  <2>4. \A i \in 1 .. k : g1[i] = IF i = 1 THEN ss[i] ELSE g1[i - 1] \o ss[i]
    BY <2>2
  <2>5. \A n \in 0 .. k - 1 : h[n + 1] = h[n] \o ss[n + 1]
    <3> SUFFICES ASSUME NEW n \in 0 .. k - 1
                 PROVE  h[n + 1] = h[n] \o ss[n + 1]
      OBVIOUS
    <3>1. n + 1 \in 1 .. k /\ n + 1 - 1 = n /\ n \in 0 .. k /\ n + 1 \in 0 .. k
      OBVIOUS
    <3>2. h[n + 1] = IF n + 1 = 1 THEN ss[n + 1] ELSE g1[n] \o ss[n + 1]
      BY <2>4, <3>1
    <3>3. CASE n = 0
      <4>1. ss[n + 1] \in Seq(X)
        BY <3>1
      <4> QED
        BY <3>1, <3>2, <3>3, <4>1
    <3>4. CASE n # 0
      <4>1. h[n + 1] = g1[n + 1] /\ h[n] = g1[n] /\ n + 1 # 1
        BY <3>1, <3>4
      <4> HIDE DEF h
      <4> QED
        BY <3>2, <4>1
    <3> QED
      BY <3>3, <3>4
  <2>6. h[0] = f[0]
    BY DEF Concatenates
  <2> HIDE DEF h
  <2>7. \A n \in 0 .. k - 1 : h[n] = f[n] => h[n + 1] = f[n + 1]
    BY <2>5 DEF Concatenates
  <2>8. \A n \in 0 .. k : h[n] = f[n]
    BY <2>6, <2>7, SameSteps
  <2> QED
    BY <1>2, <2>3, <2>8 DEF h
<1> QED
  BY <1>1, <1>2

(* Of nothing it is nothing.                                                *)
LEMMA FlattenEmpty == FlattenSeq(<<>>) = <<>>
  BY DEF FlattenSeq

(* It is a sequence of what the sequences are of.                           *)
LEMMA FlattenType ==
    ASSUME NEW X, NEW ss \in Seq(Seq(X))
    PROVE  FlattenSeq(ss) \in Seq(X)
<1>1. Len(ss) \in Nat /\ ss \in [1 .. Len(ss) -> Seq(X)]
  OBVIOUS
<1>2. PICK f : Concatenates(X, ss, Len(ss), f)
  BY <1>1, ConcatenationsExist
<1>3. FlattenSeq(ss) = f[Len(ss)]
  BY <1>1, <1>2, FlattenLast
<1> QED
  BY <1>1, <1>2, <1>3 DEF Concatenates

(* One more sequence comes at the end.                                      *)
LEMMA FlattenAppend ==
    ASSUME NEW X, NEW ss \in Seq(Seq(X)), NEW s \in Seq(X)
    PROVE  FlattenSeq(Append(ss, s)) = FlattenSeq(ss) \o s
<1> DEFINE more == Append(ss, s)
           k == Len(ss)
<1>1. /\ k \in Nat /\ ss \in [1 .. k -> Seq(X)]
      /\ more \in Seq(Seq(X)) /\ Len(more) = k + 1 /\ more[k + 1] = s
      /\ \A n \in 1 .. k : more[n] = ss[n]
  OBVIOUS
<1> HIDE DEF more, k
<1>2. more \in [1 .. k + 1 -> Seq(X)]
  BY <1>1
<1>3. PICK f : Concatenates(X, ss, k, f)
  BY <1>1, ConcatenationsExist
<1>4. PICK g : Concatenates(X, more, k + 1, g)
  BY <1>1, <1>2, ConcatenationsExist
<1>5. FlattenSeq(ss) = f[k]
  BY <1>1, <1>3, FlattenLast DEF k
<1>6. FlattenSeq(more) = g[k + 1]
  BY <1>1, <1>4, FlattenLast
<1>7. f[0] = g[0] /\ k + 1 - 1 = k
  BY <1>1, <1>3, <1>4 DEF Concatenates
<1>8. \A n \in 0 .. k : g[n + 1] = g[n] \o more[n + 1]
  <2>1. \A n \in 0 .. (k + 1) - 1 : g[n + 1] = g[n] \o more[n + 1]
    BY <1>4, Zenon DEF Concatenates
  <2>2. 0 .. (k + 1) - 1 = 0 .. k
    BY <1>1
  <2> QED
    BY <2>1, <2>2, Zenon
<1>9. \A n \in 0 .. k - 1 : f[n + 1] = f[n] \o ss[n + 1]
  BY <1>3 DEF Concatenates
<1>10. \A n \in 0 .. k - 1 : f[n] = g[n] => f[n + 1] = g[n + 1]
  <2> SUFFICES ASSUME NEW n \in 0 .. k - 1, f[n] = g[n]
               PROVE  f[n + 1] = g[n + 1]
    OBVIOUS
  <2>1. n \in 0 .. k /\ n + 1 \in 1 .. k
    BY <1>1
  <2>2. more[n + 1] = ss[n + 1]
    BY <1>1, <2>1
  <2> QED
    BY <1>8, <1>9, <2>1, <2>2
<1>11. f[k] = g[k]
  <2>1. \A n \in 0 .. k : f[n] = g[n]
    BY <1>1, <1>7, <1>10, SameSteps
  <2>2. k \in 0 .. k
    BY ONLY <1>1
  <2> QED
    BY <2>1, <2>2, Zenon
<1>12. g[k + 1] = g[k] \o s
  <2>1. k \in 0 .. k /\ more[k + 1] = s
    BY <1>1
  <2> QED
    BY <1>8, <2>1
<1> QED
  BY <1>5, <1>6, <1>11, <1>12 DEF more

-----------------------------------------------------------------------------
(* MapThenSumSet, for the sum of weights w of the elements of a sequence s. *)
Total(w, s) == MapThenSumSet(LAMBDA i : w[s[i]], DOMAIN s)

Pick(set) == CHOOSE i \in set : TRUE

(* The function that MapThenFoldSet recurses with, over subsets of S.       *)
Sums(w, s, S, g) ==
    g = [set \in SUBSET S |-> IF set = {} THEN 0
                              ELSE w[s[Pick(set)]] + g[set \ {Pick(set)}]]

LEMMA PickOne ==
    ASSUME NEW S, IsFiniteSet(S), NEW set \in SUBSET S, set # {}
    PROVE  /\ Pick(set) \in set /\ set \ {Pick(set)} \in SUBSET S
           /\ IsFiniteSet(set) /\ Cardinality(set) \in Nat \ {0}
           /\ Cardinality(set \ {Pick(set)}) = Cardinality(set) - 1
<1>1. Pick(set) \in set
  BY DEF Pick
<1>2. IsFiniteSet(set) /\ Cardinality(set) \in Nat /\ Cardinality(set) # 0
  BY FS_Subset, FS_CardinalityType, FS_EmptySet
<1>3. Cardinality(set \ {Pick(set)}) = Cardinality(set) - 1
  BY <1>1, <1>2, FS_RemoveElement
<1> QED
  BY <1>1, <1>2, <1>3

LEMMA NoneLeft ==
    ASSUME NEW S, IsFiniteSet(S), NEW set \in SUBSET S, Cardinality(set) =< 0
    PROVE  set = {}
<1>1. set # {} => Cardinality(set) \in Nat \ {0}
  BY PickOne
<1> QED
  BY <1>1

LEMMA SumsExist ==
    ASSUME NEW S, IsFiniteSet(S), NEW w, NEW s, \A i \in S : w[s[i]] \in Nat
    PROVE  \E g \in [SUBSET S -> Nat] : Sums(w, s, S, g)
<1> DEFINE V == [SUBSET S -> Nat]
           next(h) == [set \in SUBSET S |-> IF set = {} THEN 0
                                            ELSE w[s[Pick(set)]] + h[set \ {Pick(set)}]]
           step == [n \in Nat |-> [h \in V |-> next(h)]]
           zero == [set \in SUBSET S |-> 0]
<1>1. zero \in V
  OBVIOUS
<1>2. \A h \in V : next(h) \in V
  <2> SUFFICES ASSUME NEW h \in V, NEW set \in SUBSET S, set # {}
               PROVE  w[s[Pick(set)]] + h[set \ {Pick(set)}] \in Nat
    OBVIOUS
  <2>1. Pick(set) \in S /\ set \ {Pick(set)} \in SUBSET S
    BY PickOne
  <2>2. w[s[Pick(set)]] \in Nat /\ h[set \ {Pick(set)}] \in Nat
    BY <2>1
  <2> QED
    BY <2>2
<1>3. step \in [Nat -> [V -> V]]
  <2> HIDE DEF next, V
  <2> QED
    BY <1>2
<1>4. PICK f : Follows(V, zero, step, f)
  <2> HIDE DEF zero, V, step
  <2> QED
    BY <1>1, <1>3, Recursion
<1>5. \A n \in Nat : f[n] \in V /\ f[n + 1] = next(f[n])
  <2> HIDE DEF V, next
  <2> QED
    BY <1>4 DEF Follows
<1> DEFINE Good == {n \in Nat : \A set \in SUBSET S :
                                   Cardinality(set) =< n => f[n + 1][set] = f[n][set]}
<1>6. 0 \in Good
  <2> SUFFICES ASSUME NEW set \in SUBSET S, Cardinality(set) =< 0
               PROVE  f[0 + 1][set] = f[0][set]
    OBVIOUS
  <2>1. set = {}
    BY NoneLeft
  <2>2. f[0] = zero /\ f[0 + 1] = next(f[0])
    BY <1>4, <1>5 DEF Follows
  <2> QED
    BY <2>1, <2>2
<1>7. ASSUME NEW n \in Nat, n \in Good
      PROVE  n + 1 \in Good
  <2> SUFFICES ASSUME NEW set \in SUBSET S, Cardinality(set) =< n + 1
               PROVE  f[n + 1 + 1][set] = f[n + 1][set]
    OBVIOUS
  <2>1. f[n + 1 + 1] = next(f[n + 1]) /\ f[n + 1] = next(f[n])
    <3> HIDE DEF next, V
    <3>1. n + 1 \in Nat
      OBVIOUS
    <3> QED
      BY <1>5, <3>1
  <2>2. CASE set = {}
    BY <2>1, <2>2
  <2>3. CASE set # {}
    <3> DEFINE less == set \ {Pick(set)}
    <3>1. less \in SUBSET S /\ Cardinality(less) =< n
      BY <2>3, PickOne
    <3>2. f[n + 1][less] = f[n][less]
      BY <1>7, <3>1
    <3> QED
      BY <2>1, <2>3, <3>2
  <2> QED
    BY <2>2, <2>3
<1>8. Nat \subseteq Good
  <2> HIDE DEF Good
  <2> QED
    BY <1>6, <1>7, Induction, Zenon
<1> DEFINE k == Cardinality(S)
<1>9. k \in Nat /\ \A set \in SUBSET S : Cardinality(set) =< k
  BY FS_CardinalityType, FS_Subset
<1>10. f[k] = f[k + 1]
  <2>1. \A set \in SUBSET S : f[k + 1][set] = f[k][set]
    BY <1>8, <1>9
  <2>2. f[k] \in V /\ f[k + 1] \in V
    <3>1. k \in Nat /\ k + 1 \in Nat
      BY <1>9
    <3> HIDE DEF next, V, k
    <3> QED
      BY <1>5, <3>1
  <2> QED
    BY <2>1, <2>2
<1>11. f[k] = next(f[k]) /\ f[k] \in V
  BY <1>5, <1>9, <1>10
<1> QED
  BY <1>11 DEF Sums

(* The order in which the elements are taken does not matter.               *)
NaturalSums(w, s, S, g) ==
    (\A i \in S : w[s[i]] \in Nat) /\ g \in [SUBSET S -> Nat] /\ Sums(w, s, S, g)

TakesAny(w, s, S, g) == \A t \in SUBSET S : \A j \in t : g[t] = w[s[j]] + g[t \ {j}]

LEMMA SumsTakeAny ==
    ASSUME NEW S, IsFiniteSet(S), NEW w, NEW s, NEW g,
           NaturalSums(w, s, S, g)
    PROVE  TakesAny(w, s, S, g)
<1>0. (\A i \in S : w[s[i]] \in Nat) /\ g \in [SUBSET S -> Nat] /\ Sums(w, s, S, g)
  BY DEF NaturalSums
<1> SUFFICES ASSUME NEW set \in SUBSET S, NEW i \in set
             PROVE  g[set] = w[s[i]] + g[set \ {i}]
  BY DEF TakesAny
<1> USE <1>0
<1> DEFINE Good == {n \in Nat : \A t \in SUBSET S : Cardinality(t) =< n =>
                                   \A j \in t : g[t] = w[s[j]] + g[t \ {j}]}
<1>1. \A t \in SUBSET S : t # {} => g[t] = w[s[Pick(t)]] + g[t \ {Pick(t)}]
  BY DEF Sums
<1>2. \A t \in SUBSET S : Cardinality(t) =< 0 => t = {}
  BY NoneLeft
<1>3. 0 \in Good
  BY <1>2
<1>4. ASSUME NEW n \in Nat, n \in Good
      PROVE  n + 1 \in Good
  <2> SUFFICES ASSUME NEW t \in SUBSET S, Cardinality(t) =< n + 1, NEW j \in t
               PROVE  g[t] = w[s[j]] + g[t \ {j}]
    OBVIOUS
  <2> DEFINE p == Pick(t)
  <2>1. p \in t /\ Cardinality(t) \in Nat /\ Cardinality(t \ {p}) = Cardinality(t) - 1
        /\ IsFiniteSet(t)
    BY PickOne
  <2>2. Cardinality(t \ {j}) = Cardinality(t) - 1
    BY <2>1, FS_RemoveElement
  <2>3. g[t] = w[s[p]] + g[t \ {p}]
    BY <1>1
  <2>4. CASE j = p
    BY <2>3, <2>4
  <2>5. CASE j # p
    <3> HIDE DEF p
    <3> DEFINE rest == (t \ {p}) \ {j}
    <3>1. t \ {p} \in SUBSET S /\ Cardinality(t \ {p}) =< n /\ j \in t \ {p}
      BY <2>1, <2>5
    <3>2. g[t \ {p}] = w[s[j]] + g[rest]
      BY <1>4, <3>1
    <3>3. t \ {j} \in SUBSET S /\ Cardinality(t \ {j}) =< n /\ p \in t \ {j}
      BY <2>1, <2>2, <2>5
    <3>4. g[t \ {j}] = w[s[p]] + g[(t \ {j}) \ {p}]
      BY <1>4, <3>3
    <3>5. (t \ {j}) \ {p} = rest
      OBVIOUS
    <3>6. rest \in SUBSET S /\ p \in S /\ j \in S
      BY <2>1
    <3> HIDE DEF rest
    <3>7. w[s[p]] \in Nat /\ w[s[j]] \in Nat /\ g[rest] \in Nat
      BY <3>6
    <3>8. \A a, b, c \in Nat : a + (b + c) = b + (a + c)
      OBVIOUS
    <3>9. g[t] = w[s[p]] + (w[s[j]] + g[rest])
      BY <2>3, <3>2
    <3>10. g[t \ {j}] = w[s[p]] + g[rest]
      BY <3>4, <3>5
    <3> QED
      BY <3>7, <3>8, <3>9, <3>10
  <2> QED
    BY <2>4, <2>5
<1>5. Nat \subseteq Good
  <2> HIDE DEF Good
  <2> QED
    BY <1>3, <1>4, Induction, Zenon
<1>6. Cardinality(set) \in Nat
  BY FS_Subset, FS_CardinalityType
<1> QED
  BY <1>5, <1>6

(* Sums over a part are the same within any whole that agrees on it.        *)
LEMMA SumsOfAPart ==
    ASSUME NEW S, NEW S2, S \subseteq S2, IsFiniteSet(S2), NEW w, NEW s, NEW s2,
           \A i \in S : s[i] = s2[i],
           NEW g, Sums(w, s, S, g), NEW g2, Sums(w, s2, S2, g2)
    PROVE  g[S] = g2[S]
<1> DEFINE Good == {n \in Nat : \A t \in SUBSET S : Cardinality(t) =< n => g[t] = g2[t]}
<1>1. IsFiniteSet(S)
  BY FS_Subset
<1>2. 0 \in Good
  <2> SUFFICES ASSUME NEW t \in SUBSET S, Cardinality(t) =< 0
               PROVE  g[t] = g2[t]
    OBVIOUS
  <2>1. t = {}
    BY <1>1, NoneLeft
  <2> QED
    BY <2>1 DEF Sums
<1>3. ASSUME NEW n \in Nat, n \in Good
      PROVE  n + 1 \in Good
  <2> SUFFICES ASSUME NEW t \in SUBSET S, Cardinality(t) =< n + 1
               PROVE  g[t] = g2[t]
    OBVIOUS
  <2>0. CASE t = {}
    BY <2>0 DEF Sums
  <2> SUFFICES ASSUME t # {} PROVE g[t] = g2[t]
    BY <2>0
  <2>1. /\ Pick(t) \in t /\ t \ {Pick(t)} \in SUBSET S
        /\ Cardinality(t \ {Pick(t)}) =< n
    BY <1>1, PickOne
  <2>2. g[t] = w[s[Pick(t)]] + g[t \ {Pick(t)}]
    BY DEF Sums
  <2>3. g2[t] = w[s2[Pick(t)]] + g2[t \ {Pick(t)}]
    BY DEF Sums
  <2>4. g[t \ {Pick(t)}] = g2[t \ {Pick(t)}]
    BY <1>3, <2>1
  <2> QED
    BY <2>1, <2>2, <2>3, <2>4
<1>4. Nat \subseteq Good
  <2> HIDE DEF Good
  <2> QED
    BY <1>2, <1>3, Induction, Zenon
<1>5. Cardinality(S) \in Nat
  BY <1>1, FS_CardinalityType
<1> QED
  BY <1>4, <1>5

(* A function that recurses so over a sequence, and says its total.         *)
IsTotal(w, s, g) ==
    /\ g \in [SUBSET (DOMAIN s) -> Nat]
    /\ Sums(w, s, DOMAIN s, g)
    /\ Total(w, s) = g[DOMAIN s]

LEMMA TotalIsSum ==
    ASSUME NEW X, NEW w \in [X -> Nat], NEW s \in Seq(X)
    PROVE  \E g : IsTotal(w, s, g)
<1> DEFINE chosen == CHOOSE g : Sums(w, s, DOMAIN s, g)
<1>1. IsFiniteSet(DOMAIN s)
  BY FS_Interval
<1>2. \A i \in DOMAIN s : w[s[i]] \in Nat
  OBVIOUS
<1>3. PICK g \in [SUBSET (DOMAIN s) -> Nat] : Sums(w, s, DOMAIN s, g)
  BY <1>1, <1>2, SumsExist
<1>4. Sums(w, s, DOMAIN s, chosen)
  BY <1>3, Zenon
<1>5. Total(w, s) = chosen[DOMAIN s]
  BY Zenon DEF Total, MapThenSumSet, MapThenFoldSet, Sums, Pick
<1> HIDE DEF chosen
<1>6. chosen[DOMAIN s] = g[DOMAIN s]
  BY <1>1, <1>3, <1>4, SumsOfAPart
<1>7. IsTotal(w, s, g)
  BY <1>3, <1>5, <1>6, Zenon DEF IsTotal
<1> QED
  BY <1>7

LEMMA TotalEmpty ==
    ASSUME NEW X, NEW w \in [X -> Nat]
    PROVE  Total(w, <<>>) = 0
<1> DEFINE none == <<>>
<1>1. none \in Seq(X) /\ DOMAIN none = {}
  OBVIOUS
<1> HIDE DEF none
<1>2. PICK g : IsTotal(w, none, g)
  BY <1>1, TotalIsSum
<1>3. g[{}] = 0
  BY <1>2 DEF IsTotal, Sums
<1> QED
  BY <1>1, <1>2, <1>3 DEF none, IsTotal

LEMMA TotalType ==
    ASSUME NEW X, NEW w \in [X -> Nat], NEW s \in Seq(X)
    PROVE  Total(w, s) \in Nat
<1>1. PICK g : IsTotal(w, s, g)
  BY TotalIsSum
<1> QED
  BY <1>1 DEF IsTotal

LEMMA TotalAppend ==
    ASSUME NEW X, NEW w \in [X -> Nat], NEW s \in Seq(X), NEW x \in X
    PROVE  Total(w, Append(s, x)) = Total(w, s) + w[x]
<1> DEFINE more == Append(s, x)
           n == Len(s)
<1>1. /\ n \in Nat /\ DOMAIN s = 1 .. n
      /\ more \in Seq(X) /\ DOMAIN more = 1 .. n + 1 /\ more[n + 1] = x
      /\ \A i \in 1 .. n : s[i] = more[i]
      /\ \A i \in 1 .. n + 1 : more[i] \in X
  OBVIOUS
<1> HIDE DEF more, n
<1>2. PICK g : IsTotal(w, s, g)
  BY TotalIsSum
<1>3. PICK h : IsTotal(w, more, h)
  BY <1>1, TotalIsSum
<1> DEFINE part == DOMAIN s
           whole == DOMAIN more
<1>4. /\ IsFiniteSet(whole) /\ part \subseteq whole
      /\ whole \ {n + 1} = part /\ n + 1 \in whole
  <2>1. IsFiniteSet(1 .. n + 1)
    BY <1>1, FS_Interval
  <2> QED
    BY <1>1, <2>1
<1>5. (\A i \in part : s[i] = more[i]) /\ (\A i \in whole : w[more[i]] \in Nat)
  BY <1>1
<1>6. /\ g \in [SUBSET part -> Nat] /\ Sums(w, s, part, g) /\ Total(w, s) = g[part]
      /\ h \in [SUBSET whole -> Nat] /\ Sums(w, more, whole, h) /\ Total(w, more) = h[whole]
  BY <1>2, <1>3 DEF IsTotal
<1> HIDE DEF part, whole
<1>61. g[part] = h[part]
  BY <1>4, <1>5, <1>6, SumsOfAPart
<1>62. h[whole] = w[more[n + 1]] + h[whole \ {n + 1}]
  <2>1. NaturalSums(w, more, whole, h)
    BY <1>5, <1>6, Zenon DEF NaturalSums
  <2>2. TakesAny(w, more, whole, h)
    BY <1>4, <2>1, SumsTakeAny, Zenon
  <2> QED
    BY <1>4, <2>2, Zenon DEF TakesAny
<1>7. Total(w, more) = w[x] + Total(w, s)
  BY <1>1, <1>4, <1>6, <1>61, <1>62
<1>8. w[x] \in Nat /\ Total(w, s) \in Nat
  BY TotalType
<1> QED
  BY <1>7, <1>8 DEF more

(* The total of a concatenation.                                            *)
LEMMA TotalConcat ==
    ASSUME NEW X, NEW w \in [X -> Nat], NEW s \in Seq(X), NEW t \in Seq(X)
    PROVE  Total(w, s \o t) = Total(w, s) + Total(w, t)
<1> DEFINE Good == {u \in Seq(X) : Total(w, s \o u) = Total(w, s) + Total(w, u)}
<1>1. <<>> \in Good
  <2>1. s \o <<>> = s /\ <<>> \in Seq(X)
    OBVIOUS
  <2>2. Total(w, <<>>) = 0 /\ Total(w, s) \in Nat
    BY TotalEmpty, TotalType
  <2>3. Total(w, s) + 0 = Total(w, s)
    BY <2>2
  <2>4. Total(w, s \o <<>>) = Total(w, s) + Total(w, <<>>)
    BY <2>1, <2>2, <2>3
  <2> QED
    BY <2>1, <2>4
<1>2. ASSUME NEW u \in Seq(X), NEW x \in X, u \in Good
      PROVE  Append(u, x) \in Good
  <2>1. s \o Append(u, x) = Append(s \o u, x) /\ s \o u \in Seq(X) /\ Append(u, x) \in Seq(X)
    OBVIOUS
  <2>2. Total(w, Append(s \o u, x)) = Total(w, s \o u) + w[x]
    BY <2>1, TotalAppend
  <2>3. Total(w, Append(u, x)) = Total(w, u) + w[x]
    BY TotalAppend
  <2>4. Total(w, s \o u) = Total(w, s) + Total(w, u)
    BY <1>2
  <2>5. Total(w, s) \in Nat /\ Total(w, u) \in Nat /\ w[x] \in Nat
    BY TotalType
  <2>6. \A a, b, c \in Nat : (a + b) + c = a + (b + c)
    OBVIOUS
  <2> QED
    <3>1. Total(w, s \o Append(u, x)) = (Total(w, s) + Total(w, u)) + w[x]
      BY <2>1, <2>2, <2>4
    <3>2. Total(w, s) + Total(w, Append(u, x)) = Total(w, s) + (Total(w, u) + w[x])
      BY <2>3
    <3> QED
      BY <2>1, <2>5, <2>6, <3>1, <3>2
<1>3. Seq(X) \subseteq Good
  <2> HIDE DEF Good
  <2> QED
    BY <1>1, <1>2, SequenceInduction
<1> QED
  BY <1>3

(* A sequence around one of its elements.                                   *)
Around(X, s, k, p, q) ==
    /\ p \in Seq(X) /\ s[k] \in X /\ q \in Seq(X)
    /\ s = Append(p, s[k]) \o q

LEMMA SplitAt ==
    ASSUME NEW X, NEW s \in Seq(X), NEW k \in DOMAIN s
    PROVE  Around(X, s, k, SubSeq(s, 1, k - 1), SubSeq(s, k + 1, Len(s)))
<1> DEFINE p == SubSeq(s, 1, k - 1)
           q == SubSeq(s, k + 1, Len(s))
<1>1. /\ Len(s) \in Nat /\ k \in 1 .. Len(s) /\ s[k] \in X
      /\ \A i \in 1 .. Len(s) : s[i] \in X
  OBVIOUS
<1>2. /\ p \in Seq(X) /\ Len(p) = k - 1
      /\ \A i \in 1 .. k - 1 : p[i] = s[i]
  BY <1>1
<1>3. /\ q \in Seq(X) /\ Len(q) = Len(s) - k
      /\ \A i \in 1 .. Len(s) - k : q[i] = s[i + k]
  BY <1>1
<1> HIDE DEF p, q
<1> DEFINE front == Append(p, s[k])
<1>4. /\ front \in Seq(X) /\ Len(front) = k
      /\ \A i \in 1 .. k - 1 : front[i] = s[i]
      /\ front[k] = s[k]
  BY <1>1, <1>2
<1> HIDE DEF front
<1> DEFINE all == front \o q
<1>5. /\ all \in Seq(X) /\ Len(all) = Len(s)
      /\ \A i \in 1 .. k : all[i] = front[i]
      /\ \A i \in 1 .. Len(s) - k : all[i + k] = q[i]
  <2>2. k + (Len(s) - k) = Len(s)
    BY <1>1
  <2>0. Len(front) \in Nat /\ Len(q) \in Nat /\ front \in Seq(X) /\ q \in Seq(X)
    BY <1>3, <1>4
  <2>00. \A i \in 1 .. Len(front) + Len(q) :
            (front \o q)[i] = IF i =< Len(front) THEN front[i] ELSE q[i - Len(front)]
    BY <2>0, ConcatProperties
  <2>1. all \in Seq(X) /\ Len(all) = Len(front) + Len(q)
    BY <2>0, ConcatProperties
  <2>3. \A i \in 1 .. Len(front) : all[i] = front[i]
    BY <2>0, <2>00
  <2>4. ASSUME NEW i \in 1 .. Len(q)
        PROVE  all[Len(front) + i] = q[i]
    <3>1. /\ Len(front) + i \in 1 .. Len(front) + Len(q)
          /\ ~(Len(front) + i =< Len(front)) /\ (Len(front) + i) - Len(front) = i
      BY <2>0
    <3> QED
      BY <2>00, <3>1
  <2>5. \A i \in 1 .. Len(q) : Len(front) + i = i + k
    BY <1>1, <1>3, <1>4
  <2> QED
    BY <1>3, <1>4, <2>1, <2>2, <2>3, <2>4, <2>5
<1>6. ASSUME NEW i \in 1 .. Len(s)
      PROVE  all[i] = s[i]
  <2>1. CASE i =< k
    <3>1. i \in 1 .. k /\ (i = k \/ i \in 1 .. k - 1)
      BY <1>1, <2>1
    <3> QED
      BY <1>4, <1>5, <3>1
  <2>2. CASE ~(i =< k)
    <3>1. i - k \in 1 .. Len(s) - k /\ (i - k) + k = i
      BY <1>1, <2>2
    <3> QED
      BY <1>3, <1>5, <3>1
  <2> QED
    BY <2>1, <2>2
<1>7. all = s
  <2> HIDE DEF all
  <2> QED
    BY <1>5, <1>6, SeqEqual
<1> QED
  BY <1>1, <1>2, <1>3, <1>7 DEF front, p, q, Around

(* What one element fewer takes from the total.                             *)
LEMMA TotalRemoveAt ==
    ASSUME NEW X, NEW w \in [X -> Nat], NEW s \in Seq(X), NEW k \in DOMAIN s
    PROVE  /\ RemoveAt(s, k) \in Seq(X)
           /\ Total(w, RemoveAt(s, k)) =< Total(w, s)
<1> DEFINE p == SubSeq(s, 1, k - 1)
           q == SubSeq(s, k + 1, Len(s))
<1>0. p = SubSeq(s, 1, k - 1) /\ q = SubSeq(s, k + 1, Len(s)) /\ RemoveAt(s, k) = p \o q
  BY DEF RemoveAt
<1> HIDE DEF p, q
<1>1. /\ p \in Seq(X) /\ q \in Seq(X) /\ s[k] \in X
      /\ s = Append(p, s[k]) \o q
  <2>1. Around(X, s, k, p, q)
    BY <1>0, SplitAt
  <2> QED
    BY <2>1 DEF Around
<1>2. Append(p, s[k]) \in Seq(X) /\ p \o q \in Seq(X)
  BY <1>1
<1>3. Total(w, Append(p, s[k]) \o q) = Total(w, Append(p, s[k])) + Total(w, q)
  BY <1>1, <1>2, TotalConcat
<1>4. Total(w, Append(p, s[k])) = Total(w, p) + w[s[k]]
  BY <1>1, TotalAppend
<1>5. Total(w, p \o q) = Total(w, p) + Total(w, q)
  BY <1>1, TotalConcat
<1>6. Total(w, p) \in Nat /\ Total(w, q) \in Nat /\ w[s[k]] \in Nat
  BY <1>1, TotalType
<1>7. \A a, b, c \in Nat : a + c =< (a + b) + c
  OBVIOUS
<1>8. Total(w, p) + Total(w, q) =< (Total(w, p) + w[s[k]]) + Total(w, q)
  BY <1>6, <1>7
<1>9. Total(w, s) = (Total(w, p) + w[s[k]]) + Total(w, q)
  BY <1>1, <1>3, <1>4
<1> QED
  BY <1>0, <1>1, <1>2, <1>5, <1>8, <1>9

-----------------------------------------------------------------------------
(* The sequences f gives for the elements of s, one after another.          *)
FlatMap(f, s) == FlattenSeq([k \in DOMAIN s |-> f[s[k]]])

LEMMA FlatMapEmpty == ASSUME NEW f PROVE FlatMap(f, <<>>) = <<>>
<1>1. [k \in DOMAIN <<>> |-> f[<<>>[k]]] = <<>>
  <2> DEFINE g == [k \in DOMAIN <<>> |-> f[<<>>[k]]]
  <2>1. DOMAIN <<>> = 1 .. 0 /\ 1 .. 0 = {}
    OBVIOUS
  <2>2. g \in [1 .. 0 -> {}]
    BY <2>1
  <2> HIDE DEF g
  <2>3. g \in Seq({}) /\ Len(g) = 0
    BY <2>2
  <2>4. g = <<>>
    BY <2>3, EmptySeq
  <2> QED
    BY <2>4 DEF g
<1> QED
  BY <1>1, FlattenEmpty DEF FlatMap

LEMMA FlatMapType ==
    ASSUME NEW X, NEW Y, NEW f \in [X -> Seq(Y)], NEW s \in Seq(X)
    PROVE  FlatMap(f, s) \in Seq(Y)
<1>1. [k \in DOMAIN s |-> f[s[k]]] \in Seq(Seq(Y))
  <2>1. DOMAIN s = 1 .. Len(s) /\ Len(s) \in Nat /\ \A k \in DOMAIN s : f[s[k]] \in Seq(Y)
    OBVIOUS
  <2> QED
    BY <2>1
<1> QED
  BY <1>1, FlattenType DEF FlatMap

LEMMA FlatMapAppend ==
    ASSUME NEW X, NEW Y, NEW f \in [X -> Seq(Y)], NEW s \in Seq(X), NEW x \in X
    PROVE  FlatMap(f, Append(s, x)) = FlatMap(f, s) \o f[x]
<1> DEFINE ss == [k \in DOMAIN s |-> f[s[k]]]
<1>1. ss \in Seq(Seq(Y)) /\ f[x] \in Seq(Y)
  OBVIOUS
<1>2. [k \in DOMAIN Append(s, x) |-> f[Append(s, x)[k]]] = Append(ss, f[x])
  OBVIOUS
<1> QED
  BY <1>1, <1>2, FlattenAppend DEF FlatMap

Distributes(f, s, t) == FlatMap(f, s \o t) = FlatMap(f, s) \o FlatMap(f, t)

LEMMA FlatMapConcat ==
    ASSUME NEW X, NEW Y, NEW f \in [X -> Seq(Y)], NEW s \in Seq(X), NEW t \in Seq(X)
    PROVE  Distributes(f, s, t)
<1> DEFINE Good == {u \in Seq(X) : FlatMap(f, s \o u) = FlatMap(f, s) \o FlatMap(f, u)}
<1>1. <<>> \in Good
  <2>1. s \o <<>> = s /\ <<>> \in Seq(X)
    OBVIOUS
  <2>2. FlatMap(f, s) \in Seq(Y)
    BY FlatMapType
  <2>3. FlatMap(f, s) \o <<>> = FlatMap(f, s)
    BY <2>2
  <2> QED
    BY <2>1, <2>3, FlatMapEmpty
<1>2. ASSUME NEW u \in Seq(X), NEW x \in X, u \in Good
      PROVE  Append(u, x) \in Good
  <2>1. s \o Append(u, x) = Append(s \o u, x) /\ s \o u \in Seq(X) /\ Append(u, x) \in Seq(X)
    OBVIOUS
  <2>2. FlatMap(f, Append(s \o u, x)) = FlatMap(f, s \o u) \o f[x]
    BY <2>1, FlatMapAppend
  <2>3. FlatMap(f, Append(u, x)) = FlatMap(f, u) \o f[x]
    BY FlatMapAppend
  <2>4. FlatMap(f, s \o u) = FlatMap(f, s) \o FlatMap(f, u)
    BY <1>2
  <2>5. FlatMap(f, s) \in Seq(Y) /\ FlatMap(f, u) \in Seq(Y) /\ f[x] \in Seq(Y)
    BY FlatMapType
  <2>6. \A a, b, c \in Seq(Y) : (a \o b) \o c = a \o (b \o c)
    OBVIOUS
  <2>7. FlatMap(f, s \o Append(u, x)) = (FlatMap(f, s) \o FlatMap(f, u)) \o f[x]
    BY <2>1, <2>2, <2>4
  <2>8. FlatMap(f, s) \o FlatMap(f, Append(u, x)) = FlatMap(f, s) \o (FlatMap(f, u) \o f[x])
    BY <2>3
  <2>9. (FlatMap(f, s) \o FlatMap(f, u)) \o f[x] = FlatMap(f, s) \o (FlatMap(f, u) \o f[x])
    BY <2>5, <2>6
  <2> QED
    BY <2>1, <2>7, <2>8, <2>9
<1>3. Seq(X) \subseteq Good
  <2> HIDE DEF Good
  <2> QED
    BY <1>1, <1>2, SequenceInduction
<1> QED
  BY <1>3 DEF Distributes

(* It is as long as the sequences it is made of together.                   *)
Measures(w, f, X) == w \in [X -> Nat] /\ \A x \in X : Len(f[x]) = w[x]

LEMMA FlatMapLength ==
    ASSUME NEW X, NEW Y, NEW f \in [X -> Seq(Y)], NEW w, Measures(w, f, X), NEW s \in Seq(X)
    PROVE  Len(FlatMap(f, s)) = Total(w, s)
<1> USE DEF Measures
<1> DEFINE Good == {u \in Seq(X) : Len(FlatMap(f, u)) = Total(w, u)}
<1>1. <<>> \in Good
  BY FlatMapEmpty, TotalEmpty, EmptySeq
<1>2. ASSUME NEW u \in Seq(X), NEW x \in X, u \in Good
      PROVE  Append(u, x) \in Good
  <2>1. FlatMap(f, Append(u, x)) = FlatMap(f, u) \o f[x]
    BY FlatMapAppend
  <2>2. FlatMap(f, u) \in Seq(Y) /\ f[x] \in Seq(Y)
    BY FlatMapType
  <2>3. Len(FlatMap(f, u) \o f[x]) = Len(FlatMap(f, u)) + Len(f[x])
    BY <2>2
  <2>4. Total(w, Append(u, x)) = Total(w, u) + w[x]
    BY TotalAppend
  <2>5. Append(u, x) \in Seq(X)
    OBVIOUS
  <2> QED
    BY <1>2, <2>1, <2>3, <2>4, <2>5
<1>3. Seq(X) \subseteq Good
  <2> HIDE DEF Good
  <2> QED
    BY <1>1, <1>2, SequenceInduction
<1> QED
  BY <1>3

(* The part of it that comes from one element stands where the parts before *)
(* it end.                                                                  *)
PartAt(f, s, k, n) ==
    /\ n \in Nat
    /\ n + Len(f[s[k]]) =< Len(FlatMap(f, s))
    /\ SubSeq(FlatMap(f, s), n + 1, n + Len(f[s[k]])) = f[s[k]]

LEMMA FlatMapSlice ==
    ASSUME NEW X, NEW Y, NEW f \in [X -> Seq(Y)], NEW s \in Seq(X), NEW k \in DOMAIN s
    PROVE  PartAt(f, s, k, Len(FlatMap(f, SubSeq(s, 1, k - 1))))
<1> DEFINE n == Len(FlatMap(f, SubSeq(s, 1, k - 1)))
<1> DEFINE p == SubSeq(s, 1, k - 1)
           q == SubSeq(s, k + 1, Len(s))
<1>0. p = SubSeq(s, 1, k - 1) /\ q = SubSeq(s, k + 1, Len(s)) /\ n = Len(FlatMap(f, p))
  OBVIOUS
<1> HIDE DEF p, q, n
<1>1. /\ p \in Seq(X) /\ q \in Seq(X) /\ s[k] \in X
      /\ s = Append(p, s[k]) \o q
  <2>1. Around(X, s, k, p, q)
    BY <1>0, SplitAt
  <2> QED
    BY <2>1 DEF Around
<1> DEFINE a == FlatMap(f, p)
           b == f[s[k]]
           c == FlatMap(f, q)
<1>2. a \in Seq(Y) /\ b \in Seq(Y) /\ c \in Seq(Y) /\ n = Len(a)
  BY <1>0, <1>1, FlatMapType
<1>3. FlatMap(f, s) = (a \o b) \o c
  <2> DEFINE front == Append(p, s[k])
  <2>1. front \in Seq(X) /\ q \in Seq(X) /\ s = front \o q
    BY <1>1
  <2>2. FlatMap(f, front) = a \o b
    BY <1>1, FlatMapAppend
  <2> HIDE DEF front
  <2>3. FlatMap(f, front \o q) = FlatMap(f, front) \o FlatMap(f, q)
    <3>1. Distributes(f, front, q)
      BY <2>1, FlatMapConcat
    <3> QED
      BY <3>1 DEF Distributes
  <2> QED
    BY <2>1, <2>2, <2>3
<1> HIDE DEF a, b, c
<1>4. SubSeq((a \o b) \o c, Len(a) + 1, Len(a) + Len(b)) = b
  BY <1>2
<1>5. Len((a \o b) \o c) = (Len(a) + Len(b)) + Len(c)
  BY <1>2
<1> QED
  <2>1. \A i, j, l \in Nat : i + j =< (i + j) + l
    OBVIOUS
  <2>2. Len(a) \in Nat /\ Len(b) \in Nat /\ Len(c) \in Nat
    BY <1>2
  <2>3. Len(a) + Len(b) =< Len((a \o b) \o c)
    BY <1>5, <2>1, <2>2
  <2> QED
    BY <1>2, <1>3, <1>4, <2>2, <2>3 DEF b, PartAt, n

-----------------------------------------------------------------------------
(* Prefixes, element by element.                                            *)
LEMMA PrefixByElement ==
    ASSUME NEW X, NEW s \in Seq(X), NEW t \in Seq(X)
    PROVE  IsPrefix(s, t) <=> Len(s) =< Len(t) /\ \A i \in 1 .. Len(s) : s[i] = t[i]
<1>0. Len(s) \in Nat /\ Len(t) \in Nat
  OBVIOUS
<1>1. SubSeq(s, 1, Len(s)) = s
  OBVIOUS
<1>2. CASE Len(s) =< Len(t)
  <2> DEFINE part == SubSeq(t, 1, Len(s))
  <2>1. part \in Seq(X) /\ Len(part) = Len(s) /\ \A i \in 1 .. Len(s) : part[i] = t[i]
    BY <1>0, <1>2
  <2> HIDE DEF part
  <2>2. s = part <=> \A i \in 1 .. Len(s) : s[i] = part[i]
    BY <2>1
  <2> QED
    BY <1>1, <1>2, <2>1, <2>2 DEF IsPrefix, part
<1>3. CASE ~(Len(s) =< Len(t))
  BY <1>3 DEF IsPrefix
<1> QED
  BY <1>2, <1>3

LEMMA PrefixOfConcat ==
    ASSUME NEW X, NEW s \in Seq(X), NEW t \in Seq(X)
    PROVE  IsPrefix(s, s \o t)
<1>1. s \o t \in Seq(X) /\ Len(s) =< Len(s \o t) /\ \A i \in 1 .. Len(s) : (s \o t)[i] = s[i]
  OBVIOUS
<1> QED
  BY <1>1, PrefixByElement

LEMMA PrefixTransitive ==
    ASSUME NEW X, NEW s \in Seq(X), NEW t \in Seq(X), NEW u \in Seq(X),
           IsPrefix(s, t), IsPrefix(t, u)
    PROVE  IsPrefix(s, u)
<1>1. Len(s) \in Nat /\ Len(t) \in Nat /\ Len(u) \in Nat
  OBVIOUS
<1>2. /\ Len(s) =< Len(t) /\ \A i \in 1 .. Len(s) : s[i] = t[i]
      /\ Len(t) =< Len(u) /\ \A i \in 1 .. Len(t) : t[i] = u[i]
  BY PrefixByElement
<1>3. Len(s) =< Len(u) /\ \A i \in 1 .. Len(s) : s[i] = u[i]
  BY <1>1, <1>2
<1> QED
  BY <1>3, PrefixByElement

(* The first n elements of a sequence are those of what it is a prefix of.  *)
LEMMA PrefixPart ==
    ASSUME NEW X, NEW s \in Seq(X), NEW t \in Seq(X), IsPrefix(s, t), NEW n \in 0 .. Len(s)
    PROVE  /\ SubSeq(s, 1, n) \in Seq(X) /\ Len(SubSeq(s, 1, n)) = n
           /\ SubSeq(s, 1, n) = SubSeq(t, 1, n)
           /\ IsPrefix(SubSeq(s, 1, n), t)
<1>1. /\ Len(s) \in Nat /\ Len(t) \in Nat /\ n \in Nat /\ n =< Len(s)
      /\ Len(s) =< Len(t) /\ \A i \in 1 .. Len(s) : s[i] = t[i]
  BY PrefixByElement
<1> DEFINE a == SubSeq(s, 1, n)
           b == SubSeq(t, 1, n)
<1>2. a \in Seq(X) /\ Len(a) = n /\ \A i \in 1 .. n : a[i] = s[i]
  BY <1>1
<1>3. b \in Seq(X) /\ Len(b) = n /\ \A i \in 1 .. n : b[i] = t[i]
  BY <1>1
<1> HIDE DEF a, b
<1>4. \A i \in 1 .. n : a[i] = t[i]
  BY <1>1, <1>2
<1>5. a = b
  BY <1>2, <1>3, <1>4
<1>6. IsPrefix(a, t)
  BY <1>1, <1>2, <1>4, PrefixByElement
<1> QED
  BY <1>2, <1>5, <1>6 DEF a, b

-----------------------------------------------------------------------------
(* The concatenation of the first i sequences.                              *)
Upto(ss, i) == FlattenSeq(SubSeq(ss, 1, i))

OneMore(ss, i) == Upto(ss, i) = Upto(ss, i - 1) \o ss[i]

Accumulates(X, ss) ==
    /\ \A i \in 0 .. Len(ss) : Upto(ss, i) \in Seq(X)
    /\ Upto(ss, 0) = <<>> /\ Upto(ss, Len(ss)) = FlattenSeq(ss)
    /\ \A i \in 1 .. Len(ss) : OneMore(ss, i)

LEMMA FlattenUpto ==
    ASSUME NEW X, NEW ss \in Seq(Seq(X))
    PROVE  Accumulates(X, ss)
<1>0. Len(ss) \in Nat
  OBVIOUS
<1>1. \A i \in 0 .. Len(ss) : SubSeq(ss, 1, i) \in Seq(Seq(X)) /\ Len(SubSeq(ss, 1, i)) = i
  BY <1>0
<1>2. SubSeq(ss, 1, 0) = <<>> /\ SubSeq(ss, 1, Len(ss)) = ss
  OBVIOUS
<1>3. ASSUME NEW i \in 1 .. Len(ss) PROVE OneMore(ss, i)
  <2>1. SubSeq(ss, 1, i) = Append(SubSeq(ss, 1, i - 1), ss[i])
    OBVIOUS
  <2>2. SubSeq(ss, 1, i - 1) \in Seq(Seq(X)) /\ ss[i] \in Seq(X)
    BY <1>0, <1>1
  <2> DEFINE t == SubSeq(ss, 1, i - 1)
  <2>3. FlattenSeq(Append(t, ss[i])) = FlattenSeq(t) \o ss[i]
    <3> HIDE DEF t
    <3> QED
      BY <2>2, FlattenAppend DEF t
  <2> QED
    BY <2>1, <2>3 DEF Upto, OneMore
<1> QED
  BY <1>1, <1>2, <1>3, FlattenType, FlattenEmpty DEF Upto, Accumulates

LEMMA UptoPrefix ==
    ASSUME NEW X, NEW ss \in Seq(Seq(X))
    PROVE  \A i \in 0 .. Len(ss) : IsPrefix(Upto(ss, i), Upto(ss, Len(ss)))
<1> DEFINE all == Upto(ss, Len(ss))
           Good == {k \in Nat : k =< Len(ss) => IsPrefix(Upto(ss, Len(ss) - k), all)}
<1> Accumulates(X, ss)
  BY FlattenUpto
<1>0. Len(ss) \in Nat /\ \A i \in 0 .. Len(ss) : Upto(ss, i) \in Seq(X)
  BY DEF Accumulates
<1>1. 0 \in Good
  <2>1. all \in Seq(X) /\ Len(ss) - 0 = Len(ss)
    BY <1>0
  <2> HIDE DEF all
  <2>2. IsPrefix(all, all)
    BY <2>1, PrefixByElement
  <2> QED
    BY <2>1, <2>2 DEF all
<1>2. ASSUME NEW k \in Nat, k \in Good PROVE k + 1 \in Good
  <2> SUFFICES ASSUME k + 1 =< Len(ss)
               PROVE  IsPrefix(Upto(ss, Len(ss) - (k + 1)), all)
    OBVIOUS
  <2> DEFINE m == Len(ss) - k
  <2>1. /\ m \in 1 .. Len(ss) /\ m \in 0 .. Len(ss) /\ m - 1 \in 0 .. Len(ss)
        /\ Len(ss) - (k + 1) = m - 1 /\ Len(ss) \in 0 .. Len(ss)
    BY <1>0
  <2>2. IsPrefix(Upto(ss, m), all)
    BY <1>0, <1>2
  <2> HIDE DEF m
  <2>3. OneMore(ss, m)
    BY ONLY <2>1, Accumulates(X, ss) DEF Accumulates
  <2>4. ss[m] \in Seq(X) /\ Upto(ss, m - 1) \in Seq(X) /\ Upto(ss, m) \in Seq(X)
    BY <1>0, <2>1
  <2>5. IsPrefix(Upto(ss, m - 1), Upto(ss, m))
    BY ONLY <2>3, <2>4, PrefixOfConcat DEF OneMore
  <2>6. IsPrefix(Upto(ss, m - 1), all)
    BY <1>0, <2>1, <2>2, <2>4, <2>5, PrefixTransitive
  <2> QED
    BY <2>1, <2>6
<1> HIDE DEF Good
<1>3. Nat \subseteq Good
  BY <1>1, <1>2, Induction
<1>4. ASSUME NEW i \in 0 .. Len(ss) PROVE IsPrefix(Upto(ss, i), all)
  <2>1. Len(ss) - i \in Nat /\ Len(ss) - (Len(ss) - i) = i /\ Len(ss) - i =< Len(ss)
    BY <1>0
  <2> QED
    BY <1>3, <2>1 DEF Good
<1> QED
  BY <1>4

(* Where the elements of the i-th sequence are.                             *)
LEMMA FlattenAt ==
    ASSUME NEW X, NEW ss \in Seq(Seq(X)), NEW i \in 1 .. Len(ss), NEW k \in 1 .. Len(ss[i])
    PROVE  /\ Len(Upto(ss, i - 1)) + k \in 1 .. Len(FlattenSeq(ss))
           /\ FlattenSeq(ss)[Len(Upto(ss, i - 1)) + k] = ss[i][k]
<1> DEFINE a == Upto(ss, i - 1)
           b == Upto(ss, i)
           all == FlattenSeq(ss)
<1>0. Len(ss) \in Nat /\ i - 1 \in 0 .. Len(ss) /\ i \in 0 .. Len(ss) /\ Len(ss) \in 0 .. Len(ss)
  OBVIOUS
<1>1. a \in Seq(X) /\ b \in Seq(X) /\ all \in Seq(X) /\ all = Upto(ss, Len(ss))
  BY <1>0, FlattenUpto DEF Accumulates
<1>2. OneMore(ss, i)
  BY FlattenUpto DEF Accumulates
<1>3. b = a \o ss[i]
  BY <1>2 DEF OneMore
<1>4. IsPrefix(b, all)
  BY <1>0, <1>1, UptoPrefix
<1>5. ss[i] \in Seq(X)
  OBVIOUS
<1> HIDE DEF a, b, all
<1>6. Len(b) = Len(a) + Len(ss[i]) /\ b[Len(a) + k] = ss[i][k] /\ Len(a) \in Nat
  BY ONLY <1>1, <1>3, <1>5, k \in 1 .. Len(ss[i])
<1>7. Len(b) =< Len(all) /\ \A n \in 1 .. Len(b) : b[n] = all[n]
  BY ONLY <1>1, <1>4, PrefixByElement
<1>8. Len(b) \in Nat /\ Len(all) \in Nat /\ Len(ss[i]) \in Nat
  BY ONLY <1>1, <1>5
<1>9. Len(a) + k \in 1 .. Len(b) /\ Len(a) + k \in 1 .. Len(all)
  BY ONLY <1>6, <1>7, <1>8, k \in 1 .. Len(ss[i])
<1> QED
  BY <1>6, <1>7, <1>9 DEF a, all

(* Where the parts of a concatenation end.                                  *)
EndsAt(ss, at) ==
    /\ at \in [0 .. Len(ss) -> Nat] /\ at[0] = 0
    /\ \A i \in 1 .. Len(ss) : at[i] = at[i - 1] + Len(ss[i])

LEMMA EndsOfParts ==
    ASSUME NEW X, NEW ss \in Seq(Seq(X)), NEW at, EndsAt(ss, at)
    PROVE  \A i \in 0 .. Len(ss) : Len(Upto(ss, i)) = at[i]
<1> DEFINE Good == {k \in Nat : k =< Len(ss) => Len(Upto(ss, k)) = at[k]}
<1>0. Len(ss) \in Nat /\ Accumulates(X, ss)
  BY FlattenUpto
<1>1. 0 \in Good
  BY <1>0 DEF Accumulates, EndsAt
<1>2. ASSUME NEW k \in Nat, k \in Good PROVE k + 1 \in Good
  <2> SUFFICES ASSUME k + 1 =< Len(ss) PROVE Len(Upto(ss, k + 1)) = at[k + 1]
    OBVIOUS
  <2>1. /\ k + 1 \in 1 .. Len(ss) /\ k \in 0 .. Len(ss) /\ k + 1 - 1 = k /\ k =< Len(ss)
    BY <1>0
  <2>2. OneMore(ss, k + 1)
    BY <1>0, <2>1 DEF Accumulates
  <2>3. Upto(ss, k + 1) = Upto(ss, k) \o ss[k + 1]
    BY <2>1, <2>2 DEF OneMore
  <2>4. Upto(ss, k) \in Seq(X) /\ ss[k + 1] \in Seq(X)
    BY <1>0, <2>1 DEF Accumulates
  <2>5. Len(Upto(ss, k + 1)) = Len(Upto(ss, k)) + Len(ss[k + 1])
    BY ONLY <2>3, <2>4
  <2>6. Len(Upto(ss, k)) = at[k]
    BY <1>2, <2>1
  <2>7. at[k + 1] = at[k] + Len(ss[k + 1])
    BY <2>1 DEF EndsAt
  <2> QED
    BY ONLY <2>5, <2>6, <2>7
<1> HIDE DEF Good
<1>3. Nat \subseteq Good
  BY <1>1, <1>2, Induction
<1> QED
  BY <1>0, <1>3 DEF Good

(* A sequence is a concatenation if and only if its pieces are the parts.   *)
Piece(s, at, i) == SubSeq(s, at[i - 1] + 1, at[i])

LEMMA ConcatenatedPieces ==
    ASSUME NEW X, NEW ss \in Seq(Seq(X)), NEW s \in Seq(X), NEW at, EndsAt(ss, at)
    PROVE  FlattenSeq(ss) = s <=>
              Len(s) = at[Len(ss)] /\ \A i \in 1 .. Len(ss) : ss[i] = Piece(s, at, i)
<1> DEFINE all == FlattenSeq(ss)
           n == Len(ss)
<1>0. n \in Nat /\ Accumulates(X, ss) /\ at \in [0 .. n -> Nat] /\ at[0] = 0
  BY FlattenUpto DEF EndsAt
<1>1. all \in Seq(X) /\ Len(all) = at[n]
  <2>1. n \in 0 .. n /\ Upto(ss, n) \in Seq(X) /\ Upto(ss, n) = all
    BY <1>0 DEF Accumulates
  <2>2. Len(Upto(ss, n)) = at[n]
    BY <2>1, EndsOfParts
  <2> QED
    BY <2>1, <2>2
<1>2. ASSUME NEW i \in 1 .. n
      PROVE  /\ ss[i] \in Seq(X) /\ at[i - 1] \in Nat /\ at[i] = at[i - 1] + Len(ss[i])
             /\ Len(Upto(ss, i - 1)) = at[i - 1]
             /\ \A k \in 1 .. Len(ss[i]) :
                   at[i - 1] + k \in 1 .. at[n] /\ all[at[i - 1] + k] = ss[i][k]
  <2>1. i - 1 \in 0 .. n /\ i \in 0 .. n
    BY <1>0
  <2>2. ss[i] \in Seq(X) /\ at[i - 1] \in Nat /\ at[i] = at[i - 1] + Len(ss[i])
    <3>1. ss[i] \in Seq(X)
      OBVIOUS
    <3>2. at[i - 1] \in Nat
      BY ONLY <1>0, <2>1
    <3> QED
      BY <3>1, <3>2 DEF EndsAt
  <2>3. Len(Upto(ss, i - 1)) = at[i - 1]
    BY <2>1, EndsOfParts
  <2>4. \A k \in 1 .. Len(ss[i]) : /\ Len(Upto(ss, i - 1)) + k \in 1 .. Len(all)
                                   /\ all[Len(Upto(ss, i - 1)) + k] = ss[i][k]
    BY FlattenAt
  <2> HIDE DEF all, n
  <2> QED
    BY <1>1, <2>2, <2>3, <2>4
<1> HIDE DEF all
<1>3. ASSUME NEW i \in 1 .. n, Len(s) = at[n]
      PROVE  /\ at[i] =< Len(s)
             /\ Piece(s, at, i) \in Seq(X) /\ Len(Piece(s, at, i)) = Len(ss[i])
             /\ \A k \in 1 .. Len(ss[i]) : Piece(s, at, i)[k] = s[at[i - 1] + k]
  <2>1. at[i] =< Len(s)
    <3>1. CASE Len(ss[i]) = 0
      <4>1. Len(Upto(ss, i)) = at[i] /\ IsPrefix(Upto(ss, i), Upto(ss, n))
        BY <1>0, EndsOfParts, UptoPrefix
      <4>2. Upto(ss, i) \in Seq(X) /\ Upto(ss, n) \in Seq(X) /\ Upto(ss, n) = all
        BY <1>0 DEF Accumulates, all
      <4> QED
        BY <1>1, <1>3, <4>1, <4>2, PrefixByElement
    <3>2. CASE Len(ss[i]) # 0
      <4>1. Len(ss[i]) \in 1 .. Len(ss[i])
        BY <1>2, <3>2
      <4>2. at[i - 1] + Len(ss[i]) \in 1 .. at[n]
        BY <1>2, <4>1
      <4> QED
        BY <1>2, <1>3, <4>2
    <3> QED
      BY <3>1, <3>2
  <2> DEFINE a == at[i - 1]
             m == Len(ss[i])
  <2>2. a \in Nat /\ m \in Nat /\ at[i] = a + m /\ a + m =< Len(s)
    BY <1>2, <2>1
  <2> HIDE DEF a, m
  <2>3. /\ SubSeq(s, a + 1, a + m) \in Seq(X) /\ Len(SubSeq(s, a + 1, a + m)) = m
        /\ \A k \in 1 .. m : SubSeq(s, a + 1, a + m)[k] = s[a + k]
    BY ONLY <2>2, s \in Seq(X)
  <2> QED
    BY <2>1, <2>2, <2>3 DEF Piece, a, m
<1>4. ASSUME all = s PROVE Len(s) = at[n] /\ \A i \in 1 .. n : ss[i] = Piece(s, at, i)
  <2>1. Len(s) = at[n]
    BY <1>1, <1>4
  <2>2. ASSUME NEW i \in 1 .. n PROVE ss[i] = Piece(s, at, i)
    <3> DEFINE p == Piece(s, at, i)
               q == ss[i]
    <3>1. p \in Seq(X) /\ q \in Seq(X) /\ Len(p) = Len(q)
      BY <1>2, <1>3, <2>1
    <3>2. \A k \in 1 .. Len(q) : p[k] = q[k]
      BY <1>2, <1>3, <1>4, <2>1
    <3> HIDE DEF p, q
    <3>3. p = q
      BY ONLY <3>1, <3>2, SeqEqual
    <3> QED
      BY <3>3 DEF p, q
  <2> QED
    BY <2>1, <2>2
<1>5. ASSUME Len(s) = at[n], \A i \in 1 .. n : ss[i] = Piece(s, at, i) PROVE all = s
  <2> DEFINE Good == {k \in Nat : k =< n => \A j \in 1 .. at[k] : all[j] = s[j]}
  <2>1. 0 \in Good
    BY <1>0
  <2>2. ASSUME NEW k \in Nat, k \in Good PROVE k + 1 \in Good
    <3> SUFFICES ASSUME k + 1 =< n, NEW j \in 1 .. at[k + 1] PROVE all[j] = s[j]
      OBVIOUS
    <3>1. k + 1 \in 1 .. n /\ k + 1 - 1 = k /\ k =< n
      BY <1>0
    <3>2. /\ at[k] \in Nat /\ at[k + 1] = at[k] + Len(ss[k + 1]) /\ Len(ss[k + 1]) \in Nat
          /\ \A i \in 1 .. Len(ss[k + 1]) : all[at[k] + i] = ss[k + 1][i]
      BY <1>2, <3>1
    <3>3. \A i \in 1 .. Len(ss[k + 1]) : ss[k + 1][i] = s[at[k] + i]
      <4>1. \A i \in 1 .. Len(ss[k + 1]) : Piece(s, at, k + 1)[i] = s[at[k] + i]
        BY <1>3, <1>5, <3>1
      <4> QED
        BY <1>5, <3>1, <4>1
    <3>4. CASE j =< at[k]
      BY <2>2, <3>1, <3>2, <3>4
    <3>5. CASE j > at[k]
      <4>1. j - at[k] \in 1 .. Len(ss[k + 1]) /\ at[k] + (j - at[k]) = j
        BY <3>2, <3>5
      <4> QED
        BY <3>2, <3>3, <4>1
    <3> QED
      BY <3>2, <3>4, <3>5
  <2> HIDE DEF Good
  <2>3. Nat \subseteq Good
    BY <2>1, <2>2, Induction
  <2>4. \A j \in 1 .. at[n] : all[j] = s[j]
    BY <1>0, <2>3 DEF Good
  <2> QED
    BY ONLY <1>1, <1>5, <2>4, s \in Seq(X), SeqEqual
<1> QED
  BY <1>4, <1>5 DEF all

-----------------------------------------------------------------------------
(* Recursive functions from lo to hi.                                       *)
Runs(V, b, step, f, lo, hi) ==
    /\ f \in [lo .. hi -> V] /\ f[lo] = b
    /\ \A i \in lo + 1 .. hi : f[i] = step[i][f[i - 1]]

LEMMA RecursionBetween ==
    ASSUME NEW V, NEW b \in V, NEW lo \in Nat, NEW hi \in Nat, lo =< hi,
           NEW step \in [lo + 1 .. hi -> [V -> V]]
    PROVE  \E f : Runs(V, b, step, f, lo, hi)
<1> DEFINE same == [v \in V |-> v]
           from0 == [n \in Nat |-> IF lo + n + 1 =< hi THEN step[lo + n + 1] ELSE same]
<1>1. same \in [V -> V]
  OBVIOUS
<1>2. from0 \in [Nat -> [V -> V]]
  <2> HIDE DEF same
  <2>1. \A n \in Nat : lo + n + 1 =< hi => lo + n + 1 \in lo + 1 .. hi
    OBVIOUS
  <2> QED
    BY <1>1, <2>1
<1>3. \A n \in Nat : lo + n + 1 =< hi => from0[n] = step[lo + n + 1]
  OBVIOUS
<1> HIDE DEF from0
<1>4. PICK g : Follows(V, b, from0, g)
  BY <1>2, Recursion
<1> DEFINE f == [i \in lo .. hi |-> g[i - lo]]
<1>5. f \in [lo .. hi -> V] /\ f[lo] = b
  <2>1. \A i \in lo .. hi : i - lo \in Nat
    OBVIOUS
  <2>2. lo - lo = 0 /\ lo \in lo .. hi
    OBVIOUS
  <2> QED
    BY <1>4, <2>1, <2>2 DEF Follows
<1>6. ASSUME NEW i \in lo + 1 .. hi PROVE f[i] = step[i][f[i - 1]]
  <2> DEFINE n == i - 1 - lo
  <2>1. n \in Nat /\ n + 1 = i - lo /\ lo + n + 1 = i /\ lo + n + 1 =< hi
        /\ i \in lo .. hi /\ i - 1 \in lo .. hi
    OBVIOUS
  <2>2. f[i] = g[n + 1] /\ f[i - 1] = g[n]
    BY <2>1
  <2> HIDE DEF n, f
  <2>3. g[n + 1] = from0[n][g[n]] /\ from0[n] = step[i]
    BY <1>3, <1>4, <2>1 DEF Follows
  <2> QED
    BY <2>2, <2>3
<1> HIDE DEF f
<1>7. Runs(V, b, step, f, lo, hi)
  BY <1>5, <1>6 DEF Runs
<1> QED
  BY <1>7

(* What never falls from one to the next does not fall at all.              *)
LEMMA NeverFalls ==
    ASSUME NEW n \in Nat, NEW f \in [0 .. n -> Nat], \A i \in 0 .. n - 1 : f[i] =< f[i + 1]
    PROVE  \A x \in 0 .. n : \A y \in x .. n : f[x] =< f[y]
<1> SUFFICES ASSUME NEW x \in 0 .. n PROVE \A y \in x .. n : f[x] =< f[y]
  OBVIOUS
<1> DEFINE Good == {k \in Nat : x + k =< n => f[x] =< f[x + k]}
<1>1. 0 \in Good
  OBVIOUS
<1>2. ASSUME NEW k \in Nat, k \in Good PROVE k + 1 \in Good
  <2> SUFFICES ASSUME x + (k + 1) =< n PROVE f[x] =< f[x + (k + 1)]
    OBVIOUS
  <2>1. x + k \in 0 .. n - 1 /\ x + k \in 0 .. n /\ x + k + 1 \in 0 .. n
        /\ x + (k + 1) = x + k + 1 /\ x + k =< n
    OBVIOUS
  <2>2. f[x] =< f[x + k] /\ f[x + k] =< f[x + k + 1]
    BY <1>2, <2>1
  <2>3. f[x] \in Nat /\ f[x + k] \in Nat /\ f[x + k + 1] \in Nat
    BY <2>1
  <2> QED
    BY <2>1, <2>2, <2>3
<1> HIDE DEF Good
<1>3. Nat \subseteq Good
  BY <1>1, <1>2, Induction
<1>4. ASSUME NEW y \in x .. n PROVE f[x] =< f[y]
  <2>1. y - x \in Nat /\ x + (y - x) = y /\ x + (y - x) =< n
    OBVIOUS
  <2> QED
    BY <1>3, <2>1 DEF Good
<1> QED
  BY <1>4

=============================================================================
