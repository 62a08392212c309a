--------------------------- MODULE SamplerProofs ---------------------------
(***************************************************************************)
(* What sample_token promises, for every vocabulary, history, parameters,  *)
(* logits and falling exponential: the penalty is applied once, a token    *)
(* always comes back, and with top_k in range it is in the nucleus.        *)
(*                                                                         *)
(* The model's recursive functions and sums are handled by induction over  *)
(* the numbers with a set in the place of a predicate (Induction); that a  *)
(* fold over a finite set does not depend on the order in which it takes   *)
(* the elements (FoldSums) makes Mass and Cum sums that can be compared.   *)
(* The invariant Drawing follows the data: the heap is the best of what    *)
(* was scanned (Heaped), whatever is above a candidate that may be drawn   *)
(* is before it (Ranking), and what is before a kept candidate does not    *)
(* pass top_p (Cut).                                                       *)
(***************************************************************************)
EXTENDS Sampler, FiniteSetTheorems, SequenceTheorems, WellFoundedInduction, TLAPS

-----------------------------------------------------------------------------
(* Induction, with a set in the place of a predicate.                      *)

\* The least element of a nonempty set of numbers is one of them.
LEMMA LeastNat ==
    ASSUME NEW S, S \subseteq Nat, S # {}
    PROVE  Min(S) \in S /\ \A y \in S : Min(S) <= y
<1>1. \E x \in S : \A y \in S : ~(<<y, x>> \in OpToRel(<, Nat))
  BY NatLessThanWellFounded, WFMin, Zenon
<1>2. PICK x \in S : \A y \in S : ~(y < x)
  BY <1>1, Zenon DEF OpToRel
<1>3. \A y \in S : x <= y
  BY <1>2
<1> QED
  BY <1>3 DEF Min

\* Induction over the numbers, for the members of a set.
LEMMA Induction ==
    ASSUME NEW P, 0 \in P, \A n \in Nat : n \in P => n + 1 \in P
    PROVE  Nat \subseteq P
<1> DEFINE B == { n \in Nat : n \notin P }
<1> SUFFICES ASSUME B # {} PROVE FALSE
  OBVIOUS
<1>1. PICK m \in B : \A y \in B : m <= y
  BY LeastNat
<1>2. m \in Nat /\ m # 0 /\ m \notin P
  BY <1>1
<1>3. m - 1 \in Nat /\ m - 1 \notin B
  BY <1>1, <1>2
<1> QED
  BY <1>2, <1>3

\* f is the recursive function over the first N numbers.
Iterates(f, V, v, step, N) ==
    f \in [0..N -> V] /\ f[0] = v /\ \A m \in 1..N : f[m] = step[<<f[m - 1], m>>]

\* There is one.
LEMMA Iteration ==
    ASSUME NEW V, NEW v \in V, NEW step \in [V \X Nat -> V], NEW N \in Nat
    PROVE  \E f : Iterates(f, V, v, step, N)
<1> DEFINE Is(f, n) == f[0] = v /\ \A m \in 1..n : f[m] = step[<<f[m - 1], m>>]
           P == { n \in Nat : \E f \in [0..n -> V] : Is(f, n) }
<1>1. 0 \in P
  <2>1. [m \in 0..0 |-> v] \in [0..0 -> V] /\ Is([m \in 0..0 |-> v], 0)
    OBVIOUS
  <2> QED
    BY <2>1
<1>2. ASSUME NEW n \in Nat, n \in P PROVE n + 1 \in P
  <2>1. PICK f \in [0..n -> V] : Is(f, n)
    BY <1>2
  <2> DEFINE g == [m \in 0..(n + 1) |-> IF m <= n THEN f[m] ELSE step[<<f[n], n + 1>>]]
  <2>2. f[n] \in V
    OBVIOUS
  <2>3. <<f[n], n + 1>> \in V \X Nat
    BY <2>2
  <2>4. g \in [0..(n + 1) -> V]
    BY <2>3
  <2>5. g[0] = v
    BY <2>1
  <2>6. ASSUME NEW m \in 1..(n + 1) PROVE g[m] = step[<<g[m - 1], m>>]
    <3>1. CASE m <= n
      <4>1. m \in 1..n /\ m - 1 \in 0..n /\ m \in 0..n
        BY <3>1
      <4>2. g[m] = f[m] /\ g[m - 1] = f[m - 1]
        BY <4>1
      <4> QED
        BY <2>1, <4>1, <4>2
    <3>2. CASE m = n + 1
      <4>1. m - 1 = n /\ m - 1 \in 0..(n + 1) /\ ~(m <= n) /\ m \in 0..(n + 1)
        BY <3>2
      <4>2. g[m - 1] = f[n] /\ g[m] = step[<<f[n], n + 1>>]
        BY <4>1
      <4> QED
        BY <3>2, <4>2
    <3> QED
      BY <3>1, <3>2
  <2>7. Is(g, n + 1)
    BY <2>5, <2>6
  <2> HIDE DEF g, Is
  <2> QED
    BY <2>4, <2>7
<1>3. N \in P
  <2> HIDE DEF P
  <2> QED
    BY <1>1, <1>2, Induction
<1> QED
  BY <1>3 DEF Iterates

-----------------------------------------------------------------------------
(* Sums over finite sets.                                                  *)

\* The element that the library's folds take out next.
Pick(s) == CHOOSE x \in s : TRUE

\* g is the sum of w over the subsets of U.
Sums(g, U, w) ==
    /\ g \in [SUBSET U -> Nat]
    /\ g[{}] = 0
    /\ \A s \in SUBSET U : \A x \in s : g[s] = w[x] + g[s \ {x}]

\* The same by taking out elements in a fixed order.
Folds(g, U, w) ==
    g = [s \in SUBSET U |-> IF s = {} THEN 0 ELSE w[Pick(s)] + g[s \ {Pick(s)}]]

\* The subsets of at most n elements.
UpTo(U, n) == { s \in SUBSET U : Cardinality(s) <= n }

\* What is picked from a set is in it.
LEMMA Picked == ASSUME NEW s, s # {} PROVE Pick(s) \in s
BY DEF Pick

\* Taking an element out of a subset of U takes one off its size.
LEMMA Smaller ==
    ASSUME NEW U, IsFiniteSet(U), NEW s \in SUBSET U, NEW x \in s, NEW n \in Nat
    PROVE  /\ s \ {x} \in SUBSET U
           /\ s \in UpTo(U, n + 1) <=> s \ {x} \in UpTo(U, n)
<1>1. IsFiniteSet(s)
  BY FS_Subset
<1>2. Cardinality(s) \in Nat /\ Cardinality(s \ {x}) = Cardinality(s) - 1
  BY <1>1, FS_CardinalityType, FS_RemoveElement
<1> QED
  BY <1>2 DEF UpTo

\* The recursive function that a fold is exists.
LEMMA FoldExists ==
    ASSUME NEW U, IsFiniteSet(U), NEW w \in [U -> Nat]
    PROVE  \E g \in [SUBSET U -> Nat] : Folds(g, U, w)
<1> DEFINE body(g, s) == IF s = {} THEN 0 ELSE w[Pick(s)] + g[s \ {Pick(s)}]
           P == { n \in Nat : \E g \in [UpTo(U, n) -> Nat] :
                                 \A s \in UpTo(U, n) : g[s] = body(g, s) }
<1>0. \A s \in SUBSET U : IsFiniteSet(s) /\ Cardinality(s) \in Nat
                          /\ (Cardinality(s) = 0 <=> s = {})
  BY FS_Subset, FS_CardinalityType, FS_EmptySet
<1>1. 0 \in P
  <2>1. UpTo(U, 0) = {{}}
    BY <1>0, FS_EmptySet DEF UpTo
  <2> DEFINE z == [s \in UpTo(U, 0) |-> 0]
  <2>2. z \in [UpTo(U, 0) -> Nat] /\ \A s \in UpTo(U, 0) : z[s] = body(z, s)
    BY <2>1
  <2> QED
    BY <2>2
<1>2. ASSUME NEW n \in Nat, n \in P PROVE n + 1 \in P
  <2>1. PICK g \in [UpTo(U, n) -> Nat] : \A s \in UpTo(U, n) : g[s] = body(g, s)
    BY <1>2
  <2> DEFINE h == [s \in UpTo(U, n + 1) |-> body(g, s)]
  <2>2. ASSUME NEW s \in UpTo(U, n + 1), s # {}
        PROVE  /\ Pick(s) \in s /\ w[Pick(s)] \in Nat
               /\ s \ {Pick(s)} \in UpTo(U, n) /\ s \ {Pick(s)} \in UpTo(U, n + 1)
               /\ g[s \ {Pick(s)}] \in Nat
    <3>1. s \in SUBSET U /\ Pick(s) \in s
      BY <2>2, Picked DEF UpTo
    <3>2. s \ {Pick(s)} \in UpTo(U, n)
      BY <2>2, <3>1, Smaller
    <3>3. s \ {Pick(s)} \in UpTo(U, n + 1)
      BY <1>0, <3>2 DEF UpTo
    <3> QED
      BY <3>1, <3>2, <3>3
  <2>3. h \in [UpTo(U, n + 1) -> Nat]
    BY <2>2
  <2>4. \A s \in UpTo(U, n) : s \in UpTo(U, n + 1) /\ h[s] = g[s]
    <3>1. \A s \in UpTo(U, n) : s \in UpTo(U, n + 1)
      BY <1>0 DEF UpTo
    <3> QED
      BY <2>1, <3>1
  <2>5. ASSUME NEW s \in UpTo(U, n + 1) PROVE h[s] = body(h, s)
    <3>1. CASE s = {}
      BY <3>1
    <3>2. CASE s # {}
      <4>1. h[s \ {Pick(s)}] = g[s \ {Pick(s)}]
        BY <2>2, <2>4, <3>2
      <4>2. h[s] = w[Pick(s)] + g[s \ {Pick(s)}]
        BY <3>2
      <4> QED
        BY <3>2, <4>1, <4>2
    <3> QED
      BY <3>1, <3>2
  <2> HIDE DEF h, body
  <2>6. n + 1 \in Nat
    OBVIOUS
  <2> QED
    BY <2>3, <2>5, <2>6, Zenon
<1>3. Cardinality(U) \in P
  <2> HIDE DEF P
  <2>1. Cardinality(U) \in Nat
    BY FS_CardinalityType
  <2> QED
    BY <1>1, <1>2, <2>1, Induction
<1>4. UpTo(U, Cardinality(U)) = SUBSET U
  BY FS_Subset DEF UpTo
<1>5. PICK g \in [SUBSET U -> Nat] : \A s \in SUBSET U : g[s] = body(g, s)
  BY <1>3, <1>4
<1>6. g = [s \in SUBSET U |-> body(g, s)]
  BY <1>5
<1> QED
  BY <1>6 DEF Folds

\* The order does not matter.
LEMMA FoldSums ==
    ASSUME NEW U, IsFiniteSet(U), NEW w \in [U -> Nat], NEW g \in [SUBSET U -> Nat],
           Folds(g, U, w)
    PROVE  Sums(g, U, w)
<1>0. \A s \in SUBSET U : g[s] = IF s = {} THEN 0 ELSE w[Pick(s)] + g[s \ {Pick(s)}]
  BY DEF Folds
<1>1. g[{}] = 0
  BY <1>0
<1> DEFINE P == { n \in Nat : \A s \in UpTo(U, n) : \A x \in s : g[s] = w[x] + g[s \ {x}] }
<1>2. 0 \in P
  <2>1. \A s \in UpTo(U, 0) : s = {}
    <3>1. \A s \in SUBSET U : IsFiniteSet(s) /\ Cardinality(s) \in Nat
      BY FS_Subset, FS_CardinalityType
    <3> QED
      BY <3>1, FS_EmptySet DEF UpTo
  <2> QED
    BY <2>1
<1>3. ASSUME NEW n \in Nat, n \in P PROVE n + 1 \in P
  <2>0. n + 1 \in Nat
    OBVIOUS
  <2> SUFFICES ASSUME NEW s \in UpTo(U, n + 1), NEW x \in s
               PROVE  g[s] = w[x] + g[s \ {x}]
    BY <2>0, Zenon
  <2> DEFINE y == Pick(s)
  <2>1. s \in SUBSET U /\ y \in s /\ x \in U /\ y \in U
    BY Picked DEF UpTo
  <2>2. g[s] = w[y] + g[s \ {y}]
    BY <1>0, <2>1
  <2> HIDE DEF y
  <2>3. CASE x = y
    BY <2>2, <2>3
  <2>4. CASE x # y
    <3>1. s \ {x} \in UpTo(U, n) /\ s \ {y} \in UpTo(U, n)
      BY <2>1, Smaller
    <3>2. g[s \ {y}] = w[x] + g[(s \ {y}) \ {x}]
      BY <1>3, <2>4, <3>1
    <3>3. g[s \ {x}] = w[y] + g[(s \ {x}) \ {y}]
      BY <1>3, <2>1, <2>4, <3>1
    <3>4. (s \ {y}) \ {x} = (s \ {x}) \ {y}
      OBVIOUS
    <3>5. g[(s \ {x}) \ {y}] \in Nat /\ w[x] \in Nat /\ w[y] \in Nat
      BY <2>1
    <3>6. ASSUME NEW a \in Nat, NEW b \in Nat, NEW c \in Nat PROVE a + (b + c) = b + (a + c)
      OBVIOUS
    <3>7. w[y] + (w[x] + g[(s \ {x}) \ {y}]) = w[x] + (w[y] + g[(s \ {x}) \ {y}])
      BY <3>5, <3>6
    <3>8. g[s \ {y}] = w[x] + g[(s \ {x}) \ {y}]
      BY <3>2, <3>4, Zenon
    <3> QED
      BY <2>2, <3>3, <3>7, <3>8, Zenon
  <2> QED
    BY <2>3, <2>4
<1>4. Cardinality(U) \in P
  <2> HIDE DEF P
  <2>1. Cardinality(U) \in Nat
    BY FS_CardinalityType
  <2> QED
    BY <1>2, <1>3, <2>1, Induction
<1>5. UpTo(U, Cardinality(U)) = SUBSET U
  BY FS_Subset DEF UpTo
<1> QED
  BY <1>1, <1>4, <1>5 DEF Sums

\* A fold over part of U is the sum.
LEMMA FoldIs ==
    ASSUME NEW U, IsFiniteSet(U), NEW w \in [U -> Nat], NEW g, Sums(g, U, w),
           NEW S \in SUBSET U, NEW h, Folds(h, S, w)
    PROVE  h[S] = g[S]
<1>0. \A s \in SUBSET S : h[s] = IF s = {} THEN 0 ELSE w[Pick(s)] + h[s \ {Pick(s)}]
  BY DEF Folds
<1>1. IsFiniteSet(S)
  BY FS_Subset
<1> DEFINE P == { n \in Nat : \A s \in UpTo(S, n) : h[s] = g[s] }
<1>2. 0 \in P
  <2>1. \A s \in UpTo(S, 0) : s = {}
    <3>1. \A s \in SUBSET S : IsFiniteSet(s) /\ Cardinality(s) \in Nat
      BY <1>1, FS_Subset, FS_CardinalityType
    <3> QED
      BY <3>1, FS_EmptySet DEF UpTo
  <2>2. h[{}] = 0 /\ g[{}] = 0
    BY <1>0 DEF Sums
  <2> QED
    BY <2>1, <2>2
<1>3. ASSUME NEW n \in Nat, n \in P PROVE n + 1 \in P
  <2> SUFFICES ASSUME NEW s \in UpTo(S, n + 1) PROVE h[s] = g[s]
    OBVIOUS
  <2>1. CASE s = {}
    BY <1>0, <2>1 DEF Sums
  <2>2. CASE s # {}
    <3> DEFINE y == Pick(s)
    <3>1. s \in SUBSET S /\ s \in SUBSET U /\ y \in s
      BY <2>2, Picked DEF UpTo
    <3>2. h[s] = w[y] + h[s \ {y}]
      BY <1>0, <2>2, <3>1
    <3> HIDE DEF y
    <3>3. s \ {y} \in UpTo(S, n)
      BY <1>1, <3>1, Smaller
    <3>4. g[s] = w[y] + g[s \ {y}]
      BY <3>1 DEF Sums
    <3> QED
      BY <1>3, <3>2, <3>3, <3>4
  <2> QED
    BY <2>1, <2>2
<1>4. Cardinality(S) \in P
  <2> HIDE DEF P
  <2>1. Cardinality(S) \in Nat
    BY <1>1, FS_CardinalityType
  <2> QED
    BY <1>2, <1>3, <2>1, Induction
<1>5. UpTo(S, Cardinality(S)) = SUBSET S
  BY <1>1, FS_Subset DEF UpTo
<1> QED
  BY <1>4, <1>5

-----------------------------------------------------------------------------
(* The repeat penalty as a function of the occurrences.                    *)

\* A logit after the penalty need not be one of Values any more.
Value == Int \cup {Bad}
Array == [Token -> Value]

\* A penalised logit is one.
LEMMA PenaltyType ==
    ASSUME NEW p \in Nat, ~(p <= 1), NEW v \in Value
    PROVE  Penalty(p, v) \in Value
<1>1. \A a \in Int : a \div p \in Int /\ a * p \in Int
  OBVIOUS
<1> QED
  BY <1>1, SamplerAssumption DEF Penalty, Value

\* Repeated is the recursive function its definition says.
LEMMA RepeatedSteps ==
    ASSUME NEW p \in Nat, NEW v \in Value, NEW N \in Nat
    PROVE  \E f \in [0..N -> Value] :
             /\ f[0] = v
             /\ \A m \in 1..N : f[m] = IF p <= 1 THEN v ELSE Penalty(p, f[m - 1])
             /\ \A n \in 0..N : Repeated(p, v, n) = f[n]
<1> DEFINE step == [z \in Value \X Nat |-> IF p <= 1 THEN v ELSE Penalty(p, z[1])]
<1>1. step \in [Value \X Nat -> Value]
  BY PenaltyType
<1>5. PICK f : Iterates(f, Value, v, step, N)
  <2> HIDE DEF step
  <2> QED
    BY <1>1, Iteration
<1>2. f \in [0..N -> Value] /\ f[0] = v /\ \A m \in 1..N : f[m] = step[<<f[m - 1], m>>]
  <2> HIDE DEF step
  <2> QED
    BY <1>5 DEF Iterates
<1>3. ASSUME NEW m \in 1..N PROVE f[m] = IF p <= 1 THEN v ELSE Penalty(p, f[m - 1])
  <2>1. f[m - 1] \in Value /\ <<f[m - 1], m>> \in Value \X Nat
    BY <1>2
  <2>2. step[<<f[m - 1], m>>] = IF p <= 1 THEN v ELSE Penalty(p, f[m - 1])
    BY <2>1
  <2> QED
    BY <1>2, <2>2
<1> HIDE DEF step
<1>4. ASSUME NEW n \in 0..N PROVE Repeated(p, v, n) = f[n]
  <2> DEFINE body(h) == [m \in 0..n |-> IF m = 0 \/ p <= 1 THEN v ELSE Penalty(p, h[m - 1])]
             h0 == CHOOSE h : h = body(h)
             r == [m \in 0..n |-> f[m]]
  <2>1. Repeated(p, v, n) = h0[n]
    BY Zenon DEF Repeated
  <2>2. r = body(r)
    <3>1. ASSUME NEW m \in 0..n
          PROVE  r[m] = IF m = 0 \/ p <= 1 THEN v ELSE Penalty(p, r[m - 1])
      <4>1. CASE m = 0
        BY <1>2, <4>1
      <4>2. CASE m # 0
        <5>1. m \in 1..N /\ m - 1 \in 0..n /\ m \in 0..n
          BY <4>2
        <5>2. r[m] = f[m] /\ r[m - 1] = f[m - 1]
          BY <5>1
        <5> QED
          BY <1>3, <4>2, <5>1, <5>2
      <4> QED
        BY <4>1, <4>2
    <3> QED
      BY <3>1
  <2>3. h0 = body(h0)
    <3> HIDE DEF r, body
    <3> QED
      BY <2>2, Zenon
  <2> HIDE DEF h0
  <2> DEFINE P == { m \in Nat : m <= n => h0[m] = f[m] }
  <2>4. 0 \in P
    <3>1. h0[0] = v
      BY <2>3
    <3> QED
      BY <1>2, <3>1
  <2>5. ASSUME NEW m \in Nat, m \in P PROVE m + 1 \in P
    <3> SUFFICES ASSUME m + 1 <= n PROVE h0[m + 1] = f[m + 1]
      OBVIOUS
    <3>1. m + 1 \in 0..n /\ m + 1 # 0 /\ (m + 1) - 1 = m /\ m + 1 \in 1..N /\ m <= n
      OBVIOUS
    <3>2. h0[m + 1] = IF p <= 1 THEN v ELSE Penalty(p, h0[m])
      BY <2>3, <3>1
    <3>3. f[m + 1] = IF p <= 1 THEN v ELSE Penalty(p, f[m])
      BY <1>3, <3>1
    <3>4. h0[m] = f[m]
      BY <2>5, <3>1
    <3> QED
      BY <3>2, <3>3, <3>4
  <2>6. n \in P
    <3> HIDE DEF P
    <3> QED
      BY <2>4, <2>5, Induction
  <2> QED
    BY <2>1, <2>6
<1> QED
  BY <1>2, <1>3, <1>4

\* One occurrence more is one penalty more; a penalty up to 1 is none.
LEMMA RepeatedOnce ==
    ASSUME NEW p \in Nat, NEW v \in Value, NEW n \in Nat
    PROVE  /\ Repeated(p, v, 0) = v
           /\ Repeated(p, v, n) \in Value
           /\ p <= 1 => Repeated(p, v, n) = v
           /\ ~(p <= 1) => Repeated(p, v, n + 1) = Penalty(p, Repeated(p, v, n))
<1>1. PICK f \in [0..(n + 1) -> Value] :
             /\ f[0] = v
             /\ \A m \in 1..(n + 1) : f[m] = IF p <= 1 THEN v ELSE Penalty(p, f[m - 1])
             /\ \A m \in 0..(n + 1) : Repeated(p, v, m) = f[m]
  <2>1. n + 1 \in Nat
    OBVIOUS
  <2> QED
    BY <2>1, RepeatedSteps, Zenon
<1>2. 0 \in 0..(n + 1) /\ n \in 0..(n + 1) /\ n + 1 \in 1..(n + 1) /\ n + 1 \in 0..(n + 1)
      /\ (n + 1) - 1 = n
  OBVIOUS
<1>3. Repeated(p, v, 0) = v /\ Repeated(p, v, n) = f[n] /\ f[n] \in Value
  BY <1>1, <1>2
<1>4. ~(p <= 1) => Repeated(p, v, n + 1) = Penalty(p, f[n])
  BY <1>1, <1>2
<1>5. p <= 1 => f[n] = v
  BY <1>1, <1>2
<1> QED
  BY <1>3, <1>4, <1>5

\* How often t occurs among the first m.
Occurs(r, t, m) == Cardinality({ j \in 1..m : r[j] = t })

\* Counting occurrences from the front.
LEMMA OccursStep ==
    ASSUME NEW r, NEW t, NEW m \in Nat
    PROVE  /\ Occurs(r, t, 0) = 0
           /\ Occurs(r, t, m) \in Nat
           /\ r[m + 1] = t => Occurs(r, t, m + 1) = Occurs(r, t, m) + 1
           /\ r[m + 1] # t => Occurs(r, t, m + 1) = Occurs(r, t, m)
<1> DEFINE C(n) == { j \in 1..n : r[j] = t }
<1>1. C(0) = {} /\ Cardinality(C(0)) = 0
  BY FS_EmptySet
<1>2. IsFiniteSet(C(m)) /\ Cardinality(C(m)) \in Nat
  <2>1. IsFiniteSet(1..m) /\ C(m) \in SUBSET (1..m)
    BY FS_Interval
  <2> HIDE DEF C
  <2> QED
    BY <2>1, FS_Subset, FS_CardinalityType
<1>3. CASE r[m + 1] = t
  <2>1. C(m + 1) = C(m) \cup {m + 1} /\ m + 1 \notin C(m)
    BY <1>3
  <2> HIDE DEF C
  <2>2. Cardinality(C(m + 1)) = Cardinality(C(m)) + 1
    BY <1>2, <2>1, FS_AddElement
  <2> QED
    BY <1>1, <1>2, <1>3, <2>2 DEF Occurs, C
<1>4. CASE r[m + 1] # t
  <2>1. C(m + 1) = C(m)
    BY <1>4
  <2> QED
    BY <1>1, <1>2, <1>4, <2>1 DEF Occurs
<1> QED
  BY <1>3, <1>4

\* apply_repeat_penalty penalises a logit once for every occurrence of its token.
LEMMA Penalised ==
    ASSUME NEW lg \in Array, par \in Param, recent \in Seq(Token)
    PROVE  /\ apply_repeat_penalty(lg) \in Array
           /\ \A t \in Token : apply_repeat_penalty(lg)[t]
                                 = Repeated(par.penalty, lg[t], Occurs(recent, t, Len(recent)))
<1> DEFINE p == par.penalty
           N == Len(recent)
<1>0. p \in Nat /\ N \in Nat /\ \A m \in 1..N : recent[m] \in Token
  BY DEF Param
<1>1. CASE p <= 1
  <2>1. apply_repeat_penalty(lg) = lg
    BY <1>1 DEF apply_repeat_penalty
  <2>2. ASSUME NEW t \in Token PROVE lg[t] = Repeated(p, lg[t], Occurs(recent, t, N))
    <3> HIDE DEF p, N
    <3>1. lg[t] \in Value /\ Occurs(recent, t, N) \in Nat
      BY <1>0, OccursStep DEF Array
    <3> QED
      BY <1>0, <1>1, <3>1, RepeatedOnce
  <2> QED
    BY <2>1, <2>2
<1>2. CASE ~(p <= 1)
  <2> DEFINE body(h) == [m \in 0..N |-> IF m = 0 THEN lg
                 ELSE [h[m - 1] EXCEPT ![recent[m]] = Penalty(p, h[m - 1][recent[m]])]]
             h0 == CHOOSE h : h = body(h)
             push(a, m) == [a EXCEPT ![recent[m]] = Penalty(p, a[recent[m]])]
             step == [z \in Array \X Nat |-> IF z[2] \in 1..N THEN push(z[1], z[2]) ELSE z[1]]
  <2>1. apply_repeat_penalty(lg) = h0[N]
    BY <1>2, Zenon DEF apply_repeat_penalty
  <2> HIDE DEF p, N
  <2>2. ASSUME NEW a \in Array, NEW m \in 1..N
        PROVE  /\ push(a, m) \in Array
               /\ \A t \in Token : push(a, m)[t] = IF recent[m] = t THEN Penalty(p, a[t]) ELSE a[t]
    <3>1. recent[m] \in Token /\ a[recent[m]] \in Value
      BY <1>0 DEF Array
    <3>2. Penalty(p, a[recent[m]]) \in Value
      BY <1>0, <1>2, <3>1, PenaltyType
    <3> QED
      BY <3>1, <3>2 DEF Array
  <2> HIDE DEF push
  <2>3. step \in [Array \X Nat -> Array]
    BY <2>2
  <2>12. PICK f : Iterates(f, Array, lg, step, N)
    <3> HIDE DEF step
    <3> QED
      BY <1>0, <2>3, Iteration
  <2>4. f \in [0..N -> Array] /\ f[0] = lg /\ \A m \in 1..N : f[m] = step[<<f[m - 1], m>>]
    <3> HIDE DEF step
    <3> QED
      BY <2>12 DEF Iterates
  <2>5. ASSUME NEW m \in 1..N PROVE f[m] = push(f[m - 1], m)
    <3>1. f[m - 1] \in Array /\ <<f[m - 1], m>> \in Array \X Nat
      BY <1>0, <2>4
    <3>2. step[<<f[m - 1], m>>] = push(f[m - 1], m)
      BY <3>1
    <3> QED
      BY <2>4, <3>2
  <2> HIDE DEF step
  <2>6. f = body(f)
    <3>1. ASSUME NEW m \in 0..N PROVE f[m] = IF m = 0 THEN lg ELSE push(f[m - 1], m)
      <4>1. CASE m = 0
        BY <2>4, <4>1
      <4>2. CASE m # 0
        <5>1. m \in 1..N
          BY <1>0, <4>2
        <5> QED
          BY <2>5, <4>2, <5>1
      <4> QED
        BY <4>1, <4>2
    <3> QED
      BY <2>4, <3>1 DEF push
  <2>7. h0 = body(h0)
    <3> HIDE DEF body
    <3> QED
      BY <2>6, Zenon
  <2> HIDE DEF h0
  <2>8. h0[0] = lg /\ \A m \in 1..N : h0[m] = push(h0[m - 1], m)
    <3>1. h0[0] = lg
      BY <1>0, <2>7
    <3>2. ASSUME NEW m \in 1..N PROVE h0[m] = push(h0[m - 1], m)
      <4>1. m \in 0..N /\ m # 0
        BY <1>0
      <4> QED
        BY <2>7, <4>1 DEF push
    <3> QED
      BY <3>1, <3>2
  <2> HIDE DEF body
  <2> DEFINE P == { m \in Nat : m <= N =>
                      /\ h0[m] \in Array
                      /\ \A t \in Token : h0[m][t] = Repeated(p, lg[t], Occurs(recent, t, m)) }
  <2>9. 0 \in P
    <3>1. ASSUME NEW t \in Token PROVE lg[t] = Repeated(p, lg[t], Occurs(recent, t, 0))
      <4>1. lg[t] \in Value /\ Occurs(recent, t, 0) = 0
        BY OccursStep DEF Array
      <4> QED
        BY <1>0, <4>1, RepeatedOnce
    <3> QED
      BY <2>8, <3>1
  <2>10. ASSUME NEW m \in Nat, m \in P PROVE m + 1 \in P
    <3>0. m + 1 \in Nat
      OBVIOUS
    <3> SUFFICES ASSUME m + 1 <= N
                 PROVE  /\ h0[m + 1] \in Array
                        /\ \A t \in Token : h0[m + 1][t]
                              = Repeated(p, lg[t], Occurs(recent, t, m + 1))
      BY <3>0, Zenon
    <3>1. m <= N /\ m + 1 \in 1..N /\ (m + 1) - 1 = m
      BY <1>0
    <3>2. h0[m] \in Array /\ \A t \in Token : h0[m][t] = Repeated(p, lg[t], Occurs(recent, t, m))
      BY <2>10, <3>1
    <3>3. h0[m + 1] = push(h0[m], m + 1)
      BY <2>8, <3>1
    <3> HIDE DEF P
    <3>4. h0[m + 1] \in Array
      BY <2>2, <3>1, <3>2, <3>3
    <3>5. ASSUME NEW t \in Token
          PROVE  h0[m + 1][t] = Repeated(p, lg[t], Occurs(recent, t, m + 1))
      <4>1. h0[m + 1][t] = IF recent[m + 1] = t THEN Penalty(p, h0[m][t]) ELSE h0[m][t]
        BY <2>2, <3>1, <3>2, <3>3
      <4>2. lg[t] \in Value /\ Occurs(recent, t, m) \in Nat
        BY OccursStep DEF Array
      <4>3. CASE recent[m + 1] = t
        <5>1. Occurs(recent, t, m + 1) = Occurs(recent, t, m) + 1
          BY <4>3, OccursStep
        <5>2. Repeated(p, lg[t], Occurs(recent, t, m) + 1)
                = Penalty(p, Repeated(p, lg[t], Occurs(recent, t, m)))
          BY <1>0, <1>2, <4>2, RepeatedOnce
        <5> QED
          BY <3>2, <4>1, <4>3, <5>1, <5>2
      <4>4. CASE recent[m + 1] # t
        <5>1. Occurs(recent, t, m + 1) = Occurs(recent, t, m)
          BY <4>4, OccursStep
        <5> QED
          BY <3>2, <4>1, <4>4, <5>1
      <4> QED
        BY <4>3, <4>4
    <3> QED
      BY <3>4, <3>5
  <2>11. N \in P
    <3> HIDE DEF P
    <3> QED
      BY <1>0, <2>9, <2>10, Induction
  <2> QED
    BY <1>0, <2>1, <2>11 DEF p, N
<1> QED
  BY <1>1, <1>2

-----------------------------------------------------------------------------
(* The penalty.                                                            *)

\* The arguments and the array have their types.
TypeOK ==
    /\ par \in Param /\ recent \in Seq(Token) /\ given \in Array /\ logits \in Array
    /\ penalized \in BOOLEAN

\* Until the penalty is applied the logits are the given ones; after it each
\* is penalised as often as its token occurs; a sampler that reads them runs
\* after it.
Penalising ==
    /\ ~penalized => logits = given
    /\ penalized => \A t \in Token :
           logits[t] = Repeated(par.penalty, given[t], Occurs(recent, t, Len(recent)))
    /\ pc = "start" => ~penalized
    /\ pc \in {"fast", "softmax", "top_p", "draw"} => penalized

\* It holds of what sample_token is called with.
LEMMA InitPenalising == Init => TypeOK /\ Penalising
<1> SUFFICES ASSUME Init PROVE TypeOK /\ Penalising
  OBVIOUS
<1>1. Logit \subseteq Value
  BY SamplerAssumption DEF Logit, Value
<1> QED
  BY <1>1, SamplerAssumption DEF Init, TypeOK, Penalising, Array

\* Every step keeps it: the penalty is applied to the given logits only.
LEMMA NextPenalising == TypeOK /\ Penalising /\ [Next]_vars => TypeOK' /\ Penalising'
<1> SUFFICES ASSUME TypeOK, Penalising, [Next]_vars PROVE TypeOK' /\ Penalising'
  OBVIOUS
<1> DEFINE Same == UNCHANGED <<par, recent, given, logits, penalized>>
           Applies == /\ logits = given /\ logits' = apply_repeat_penalty(logits)
                      /\ penalized' = TRUE /\ UNCHANGED <<par, recent, given>>
<1>1. ASSUME Same, pc' = "start" => pc = "start",
             pc' \in {"fast", "softmax", "top_p", "draw"} => penalized
      PROVE  TypeOK' /\ Penalising'
  BY <1>1 DEF TypeOK, Penalising
<1>2. ASSUME Applies, pc' # "start" PROVE TypeOK' /\ Penalising'
  <2>1. /\ apply_repeat_penalty(given) \in Array
        /\ \A t \in Token : apply_repeat_penalty(given)[t]
                              = Repeated(par.penalty, given[t], Occurs(recent, t, Len(recent)))
    BY Penalised DEF TypeOK
  <2>2. logits' = apply_repeat_penalty(given)
    BY <1>2
  <2> QED
    BY <1>2, <2>1, <2>2 DEF TypeOK, Penalising
<1>3. CASE Start
  <2>1. CASE ~par.debug /\ par.invT > 0
    <3>1. Applies /\ pc' # "start"
      BY <1>3, <2>1 DEF Start, Penalising, input, TypeOK, Param
    <3> QED
      BY <1>2, <3>1
  <2>2. CASE par.debug \/ par.invT = 0
    <3>1. Same /\ pc' \notin {"start", "fast", "softmax", "top_p", "draw"}
      BY <1>3, <2>2 DEF Start, Returns, input, TypeOK, Param
    <3> QED
      BY <1>1, <3>1
  <2> QED
    BY <1>3, <2>1, <2>2 DEF Start
<1>4. CASE Sanitize
  <2>1. CASE par.invT > 0 /\ ~penalized
    <3>1. Applies /\ pc' # "start"
      BY <1>4, <2>1 DEF Sanitize, Penalising, input, TypeOK, Param
    <3> QED
      BY <1>2, <3>1
  <2>2. CASE par.invT > 0 /\ penalized
    <3>1. penalized = TRUE /\ par.invT # 0
      <4>1. par.invT # 0
        BY <2>2 DEF TypeOK, Param
      <4> QED
        BY <2>2, <4>1, Zenon DEF TypeOK
    <3>2. logits' = logits /\ penalized' = TRUE /\ UNCHANGED <<par, recent, given>>
      BY <1>4, <2>2, <3>1, Zenon DEF Sanitize, input
    <3>3. pc' # "start"
      BY <1>4 DEF Sanitize, Returns
    <3>4. Same
      BY <3>1, <3>2
    <3> QED
      BY <1>1, <2>2, <3>3, <3>4
  <2>3. CASE par.invT = 0
    <3>1. Same /\ pc' = "done"
      BY <1>4, <2>3 DEF Sanitize, Returns, input, TypeOK, Param
    <3> QED
      BY <1>1, <3>1
  <2> QED
    BY <1>4, <2>1, <2>2, <2>3 DEF Sanitize
<1>5. CASE Decline
  BY <1>1, <1>5 DEF Decline, input, Penalising
<1>6. CASE Scan
  BY <1>1, <1>6 DEF Scan, input, Penalising
<1>7. CASE FastSoftmax
  BY <1>1, <1>7 DEF FastSoftmax, input, Penalising, Returns
<1>8. CASE Softmax
  BY <1>1, <1>8 DEF Softmax, input, Penalising, Returns
<1>9. CASE TopP
  BY <1>1, <1>9 DEF TopP, input, Penalising
<1>10. CASE sample_from
  BY <1>1, <1>10 DEF sample_from, input, Penalising, Returns
<1>11. CASE UNCHANGED vars
  BY <1>1, <1>11 DEF vars, input, Penalising
<1> QED
  BY <1>3, <1>4, <1>5, <1>6, <1>7, <1>8, <1>9, <1>10, <1>11 DEF Next

\* The repeat penalty is applied once for every occurrence of a token among
\* the recent ones, for every vocabulary, parameters, logits and history:
\* also when the fast sampler declines and sample_token goes on with the
\* array it has already penalised.
THEOREM PenaltyIsOnce == Spec => []PenaltyOnce
<1>1. TypeOK /\ Penalising => PenaltyOnce
  <2> SUFFICES ASSUME TypeOK, Penalising,
                      pc \in {"fast", "softmax", "top_p", "draw"}, NEW t \in Token
               PROVE  logits[t] = Repeated(par.penalty, given[t],
                                           Cardinality({ j \in DOMAIN recent : recent[j] = t }))
    BY DEF PenaltyOnce
  <2>1. DOMAIN recent = 1..Len(recent)
    BY DEF TypeOK
  <2> QED
    BY <2>1 DEF Penalising, Occurs
<1> QED
  BY <1>1, InitPenalising, NextPenalising, PTL DEF Spec

-----------------------------------------------------------------------------
(* Extremes and weights.                                                   *)

\* A function has a greatest value over a nonempty set of tokens.
LEMMA Peak ==
    ASSUME NEW U, NEW f \in [U -> Int], NEW S \in SUBSET U, S \subseteq Token, S # {}
    PROVE  \E m \in S : \A y \in S : f[y] <= f[m]
<1> DEFINE P == { n \in Nat : \A T \in SUBSET S : T # {} /\ (\A t \in T : t < n) =>
                                 \E m \in T : \A y \in T : f[y] <= f[m] }
<1>0. S \subseteq Nat /\ VocabSize \in Nat /\ \A t \in S : t < VocabSize /\ f[t] \in Int
  BY SamplerAssumption DEF Token
<1>1. 0 \in P
  <2>1. ASSUME NEW T \in SUBSET S, T # {}, \A t \in T : t < 0 PROVE FALSE
    <3>1. PICK t \in T : t \in Nat /\ t < 0
      BY <1>0, <2>1
    <3> QED
      BY <3>1
  <2> QED
    BY <2>1
<1>2. ASSUME NEW n \in Nat, n \in P PROVE n + 1 \in P
  <2>0. n + 1 \in Nat
    OBVIOUS
  <2> SUFFICES ASSUME NEW T \in SUBSET S, T # {}, \A t \in T : t < n + 1
               PROVE  \E m \in T : \A y \in T : f[y] <= f[m]
    BY <2>0, Zenon
  <2>1. CASE T \ {n} = {}
    <3>1. PICK m \in T : TRUE
      OBVIOUS
    <3>2. m = n /\ \A y \in T : y = n
      BY <2>1
    <3>3. f[n] \in Int
      BY <1>0, <3>1, <3>2
    <3> QED
      BY <3>1, <3>2, <3>3
  <2>2. CASE T \ {n} # {}
    <3>1. T \ {n} \in SUBSET S /\ \A t \in T \ {n} : t < n
      BY <1>0
    <3>2. PICK m \in T \ {n} : \A y \in T \ {n} : f[y] <= f[m]
      BY <1>2, <2>2, <3>1
    <3>3. f[m] \in Int /\ \A y \in T : f[y] \in Int
      BY <1>0
    <3> HIDE DEF P
    <3>4. CASE n \in T /\ f[m] < f[n]
      <4>1. \A y \in T : f[y] <= f[n]
        BY <3>2, <3>3, <3>4
      <4> QED
        BY <3>4, <4>1
    <3>5. CASE n \notin T \/ ~(f[m] < f[n])
      <4>1. \A y \in T : f[y] <= f[m]
        BY <3>2, <3>3, <3>5
      <4> QED
        BY <4>1
    <3> QED
      BY <3>4, <3>5
  <2> QED
    BY <2>1, <2>2
<1>3. VocabSize \in P
  <2> HIDE DEF P
  <2> QED
    BY <1>0, <1>1, <1>2, Induction
<1> QED
  BY <1>0, <1>3

\* Greatest is the logit of some token and bounds the others.
LEMMA GreatestIs ==
    ASSUME NEW lg \in Array, NEW S \in SUBSET Finite(lg), S # {}
    PROVE  /\ Greatest(lg, S) \in Int
           /\ \E t \in S : lg[t] = Greatest(lg, S)
           /\ \A t \in S : lg[t] <= Greatest(lg, S)
<1> DEFINE f == [t \in Finite(lg) |-> lg[t]]
           V == { lg[t] : t \in S }
<1>1. f \in [Finite(lg) -> Int] /\ S \subseteq Token
  BY DEF Finite, Array, Value
<1>2. PICK m \in S : \A y \in S : f[y] <= f[m]
  <2> HIDE DEF f
  <2> QED
    BY <1>1, Peak
<1>3. V \subseteq Int
  BY <1>1
<1>4. lg[m] \in V /\ \A v \in V : lg[m] >= v
  BY <1>1, <1>2
<1>5. Max(V) \in V /\ \A v \in V : Max(V) >= v
  <2> HIDE DEF V
  <2> QED
    BY <1>4 DEF Max
<1> QED
  BY <1>3, <1>5 DEF Greatest

\* The front of the heap is one of the least.
LEMMA LeastIs ==
    ASSUME logits \in Array, NEW S \in SUBSET Finite(logits), NEW t \in Least(S)
    PROVE  t \in S /\ \A s \in S : logits[t] <= logits[s]
<1> DEFINE f == [u \in Finite(logits) |-> 0 - logits[u]]
           V == { logits[s] : s \in S }
<1>1. f \in [Finite(logits) -> Int] /\ S \subseteq Token
      /\ \A u \in Finite(logits) : logits[u] \in Int
  BY DEF Finite, Array, Value
<1>0. t \in S /\ S # {} /\ logits[t] = Min(V)
  BY DEF Least
<1>2. PICK m \in S : \A y \in S : f[y] <= f[m]
  <2> HIDE DEF f
  <2> QED
    BY <1>0, <1>1, Peak
<1>3. V \subseteq Int
  BY <1>1
<1>4. logits[m] \in V /\ \A v \in V : logits[m] <= v
  <2>1. ASSUME NEW y \in S PROVE logits[m] <= logits[y]
    <3>1. 0 - logits[y] <= 0 - logits[m] /\ logits[y] \in Int /\ logits[m] \in Int
      BY <1>1, <1>2
    <3> QED
      BY <3>1
  <2> QED
    BY <2>1
<1>5. Min(V) \in V /\ \A v \in V : Min(V) <= v
  <2> HIDE DEF V
  <2> QED
    BY <1>4 DEF Min
<1> QED
  BY <1>0, <1>5

\* top is at least every finite logit.
Tops(top, lg) == top \in Int /\ \A t \in Finite(lg) : lg[t] <= top

\* max bounds the finite logits and is one of them.
LEMMA MaxTops ==
    ASSUME logits \in Array, Finite(logits) # {}
    PROVE  Tops(max, logits) /\ \E t \in Finite(logits) : logits[t] = max
BY GreatestIs DEF Tops, max

\* Products of naturals.
LEMMA Times ==
    ASSUME NEW a \in Nat, NEW b \in Nat
    PROVE  a * b \in Nat
OBVIOUS

\* A product grows with its factor.
LEMMA TimesGrows ==
    ASSUME NEW a \in Nat, NEW b \in Nat, NEW c \in Nat, a <= b
    PROVE  a * c <= b * c
<1>1. b * c = a * c + (b - a) * c
  OBVIOUS
<1>2. (b - a) * c \in Nat /\ a * c \in Nat /\ b * c \in Nat
  BY Times
<1> QED
  BY <1>1, <1>2

\* A weight is a natural number.
LEMMA WeightType ==
    ASSUME NEW n \in Nat, NEW lg \in Array, NEW top, Tops(top, lg), NEW t \in Token
    PROVE  Weight(n, lg, top, t) \in Nat
<1>1. CASE lg[t] = Bad
  BY <1>1 DEF Weight
<1>2. CASE lg[t] # Bad
  <2>1. lg[t] \in Int /\ top \in Int /\ lg[t] <= top
    BY <1>2 DEF Tops, Finite, Array, Value
  <2>2. (top - lg[t]) * n \in Nat
    BY <2>1, Times
  <2> DEFINE d == (top - lg[t]) * n
  <2> HIDE DEF d
  <2>3. ~(d > Depth) => d \in 0..Depth
    BY <2>2, SamplerAssumption DEF d
  <2>4. Weight(n, lg, top, t) = IF d > Depth THEN 0 ELSE Exp[d]
    BY <1>2 DEF Weight, d
  <2> QED
    BY <2>3, <2>4, SamplerAssumption
<1> QED
  BY <1>1, <1>2

\* The likeliest have weight.
LEMMA TopWeight ==
    ASSUME NEW n \in Nat, NEW lg \in Array, NEW t \in Finite(lg)
    PROVE  Weight(n, lg, lg[t], t) > 0
<1>1. lg[t] \in Int /\ lg[t] # Bad
  BY DEF Finite, Array, Value
<1>2. (lg[t] - lg[t]) * n = 0
  BY <1>1
<1>3. 0 \in 0..Depth /\ ~(0 > Depth)
  BY SamplerAssumption
<1>4. Weight(n, lg, lg[t], t) = Exp[0]
  BY <1>1, <1>2, <1>3 DEF Weight
<1> QED
  BY <1>3, <1>4, SamplerAssumption

\* A token above another that has weight has more of it.
LEMMA AboveWeight ==
    ASSUME NEW n \in Nat \ {0}, NEW lg \in Array, NEW top, Tops(top, lg),
           NEW s \in Token, NEW t \in Token, Above(lg, s, t), Weight(n, lg, top, t) > 0
    PROVE  Weight(n, lg, top, s) > Weight(n, lg, top, t)
<1>1. lg[t] # Bad /\ lg[s] # Bad
  BY DEF Weight, Above
<1>2. lg[t] \in Int /\ lg[s] \in Int /\ top \in Int /\ lg[s] > lg[t] /\ lg[s] <= top
  BY <1>1 DEF Above, Tops, Finite, Array, Value
<1> DEFINE d == (top - lg[t]) * n
           e == (top - lg[s]) * n
<1>3. d = e + (lg[s] - lg[t]) * n
  BY <1>2
<1>4. e \in Nat
  BY <1>2, Times
<1>5. (lg[s] - lg[t]) * n \in Nat /\ (lg[s] - lg[t]) * n # 0
  BY <1>2, Times
<1>6. Weight(n, lg, top, t) = IF d > Depth THEN 0 ELSE Exp[d]
  BY <1>1 DEF Weight
<1>7. Weight(n, lg, top, s) = IF e > Depth THEN 0 ELSE Exp[e]
  BY <1>1 DEF Weight
<1> HIDE DEF d, e
<1>8. d \in Nat /\ e < d
  BY <1>3, <1>4, <1>5
<1>9. ~(d > Depth)
  BY <1>6
<1>10. d \in 0..Depth /\ e \in 0..Depth /\ ~(e > Depth)
  BY <1>4, <1>8, <1>9, SamplerAssumption
<1>11. Exp[e] > Exp[d]
  BY <1>8, <1>10, SamplerAssumption
<1> QED
  BY <1>6, <1>7, <1>9, <1>10, <1>11

\* Over part of U too the fold exists.
LEMMA FoldExistsIn ==
    ASSUME NEW U, IsFiniteSet(U), NEW w \in [U -> Nat], NEW S \in SUBSET U
    PROVE  \E h : Folds(h, S, w)
<1> DEFINE ws == [x \in S |-> w[x]]
<1>1. IsFiniteSet(S) /\ ws \in [S -> Nat]
  BY FS_Subset
<1>2. PICK h \in [SUBSET S -> Nat] : Folds(h, S, ws)
  <2> HIDE DEF ws
  <2> QED
    BY <1>1, FoldExists
<1>3. \A s \in SUBSET S : s # {} => ws[Pick(s)] = w[Pick(s)]
  BY Picked
<1> HIDE DEF ws
<1>4. Folds(h, S, w)
  BY <1>2, <1>3 DEF Folds
<1> QED
  BY <1>4

\* There is a sum over the subsets of a finite set.
LEMMA SumExists ==
    ASSUME NEW U, IsFiniteSet(U), NEW w \in [U -> Nat]
    PROVE  \E g : Sums(g, U, w)
BY FoldExists, FoldSums

\* The vocabulary is finite.
LEMMA TokenFinite == IsFiniteSet(Token) /\ Cardinality(Token) = VocabSize
<1>1. /\ 0 \in Int /\ VocabSize - 1 \in Int /\ ~(0 > VocabSize - 1)
      /\ VocabSize - 1 - 0 + 1 = VocabSize
  BY SamplerAssumption
<1> QED
  BY <1>1, FS_Interval DEF Token

\* Mass is the sum of the weights.
LEMMA MassIs ==
    ASSUME NEW n, NEW lg, NEW top, NEW g, NEW w \in [Token -> Nat], Sums(g, Token, w),
           w = [t \in Token |-> Weight(n, lg, top, t)], NEW S \in SUBSET Token
    PROVE  Mass(n, lg, top, S) = g[S]
<1> DEFINE body(h) == [s \in SUBSET S |-> IF s = {} THEN 0
                         ELSE Weight(n, lg, top, Pick(s)) + h[s \ {Pick(s)}]]
           h0 == CHOOSE h : h = body(h)
<1>1. Mass(n, lg, top, S) = h0[S]
  BY Zenon DEF Mass, MapThenSumSet, MapThenFoldSet, Pick
<1>2. PICK h : Folds(h, S, w)
  BY TokenFinite, FoldExistsIn
<1>3. \A s \in SUBSET S : s # {} => Weight(n, lg, top, Pick(s)) = w[Pick(s)]
  BY Picked
<1>4. h = body(h)
  BY <1>2, <1>3 DEF Folds
<1>5. h0 = body(h0)
  <2> HIDE DEF body
  <2> QED
    BY <1>4, Zenon
<1> HIDE DEF h0
<1>6. Folds(h0, S, w)
  BY <1>3, <1>5 DEF Folds
<1>7. h0[S] = g[S]
  BY <1>6, TokenFinite, FoldIs
<1> QED
  BY <1>1, <1>7

\* Cum is the sum of the weights of the first candidates.
LEMMA CumIs ==
    ASSUME NEW U, IsFiniteSet(U), NEW g, NEW w \in [U -> Nat], Sums(g, U, w),
           w = [j \in U |-> CandWeight(j)], NEW m, 1..m \in SUBSET U
    PROVE  Cum(m) = g[1..m]
<1> DEFINE S == 1..m
           body(h) == [s \in SUBSET S |-> IF s = {} THEN 0
                         ELSE CandWeight(Pick(s)) + h[s \ {Pick(s)}]]
           h0 == CHOOSE h : h = body(h)
<1>1. Cum(m) = h0[S]
  BY Zenon DEF Cum, MapThenSumSet, MapThenFoldSet, Pick
<1>0. S \in SUBSET U
  OBVIOUS
<1> HIDE DEF S
<1>2. PICK h : Folds(h, S, w)
  BY <1>0, FoldExistsIn
<1>3. \A s \in SUBSET S : s # {} => CandWeight(Pick(s)) = w[Pick(s)]
  BY <1>0, Picked
<1>4. h = body(h)
  BY <1>2, <1>3 DEF Folds
<1>5. h0 = body(h0)
  <2> HIDE DEF body
  <2> QED
    BY <1>4, Zenon
<1> HIDE DEF h0
<1>6. Folds(h0, S, w)
  BY <1>3, <1>5 DEF Folds
<1>7. h0[S] = g[S]
  BY <1>0, <1>6, FoldIs
<1> QED
  BY <1>1, <1>7 DEF S

\* Mass is a natural number, 0 for no tokens.
LEMMA MassType ==
    ASSUME NEW n \in Nat, NEW lg \in Array, NEW top, Tops(top, lg), NEW S \in SUBSET Token
    PROVE  Mass(n, lg, top, S) \in Nat /\ Mass(n, lg, top, {}) = 0
<1> DEFINE w == [t \in Token |-> Weight(n, lg, top, t)]
<1>1. w \in [Token -> Nat]
  BY WeightType
<1>2. PICK g : Sums(g, Token, w)
  <2> HIDE DEF w
  <2> QED
    BY <1>1, TokenFinite, SumExists
<1>3. Mass(n, lg, top, S) = g[S] /\ Mass(n, lg, top, {}) = g[{}]
  <2>1. \A T \in SUBSET Token : Mass(n, lg, top, T) = g[T]
    BY <1>1, <1>2, MassIs
  <2> QED
    BY <2>1
<1> QED
  BY <1>2, <1>3 DEF Sums

\* The tokens among the first m candidates weigh no more than the candidates.
LEMMA Prefix ==
    ASSUME logits \in Array, par.invT \in Nat, Finite(logits) # {}, NEW N \in Nat,
           \A a \in 1..N : cand[a] \in Token,
           NEW m \in 0..N, NEW S \in SUBSET { cand[a] : a \in 1..m }
    PROVE  Cum(m) \in Nat /\ Mass(par.invT, logits, max, S) <= Cum(m)
<1> DEFINE w == [t \in Token |-> Weight(par.invT, logits, max, t)]
           v == [j \in 1..N |-> CandWeight(j)]
<1>0. Tops(max, logits)
  BY MaxTops
<1>1. w \in [Token -> Nat]
  BY <1>0, WeightType
<1>2. v \in [1..N -> Nat] /\ \A j \in 1..N : v[j] = w[cand[j]]
  <2>1. \A j \in 1..N : CandWeight(j) \in Nat
    BY <1>0, WeightType DEF CandWeight
  <2> QED
    BY <2>1 DEF CandWeight
<1>3. PICK g : Sums(g, Token, w)
  <2> HIDE DEF w
  <2> QED
    BY <1>1, TokenFinite, SumExists
<1>4. PICK c : Sums(c, 1..N, v)
  <2> HIDE DEF v
  <2>1. IsFiniteSet(1..N)
    BY FS_Interval
  <2> QED
    BY <1>2, <2>1, SumExists
<1>5. \A T \in SUBSET Token : Mass(par.invT, logits, max, T) = g[T]
  BY <1>1, <1>3, MassIs
<1>6. \A a \in 0..N : Cum(a) = c[1..a]
  <2>1. IsFiniteSet(1..N) /\ \A a \in 0..N : 1..a \in SUBSET (1..N)
    BY FS_Interval
  <2> QED
    BY <1>2, <1>4, <2>1, CumIs
<1> HIDE DEF w, v
<1> DEFINE First(a) == { cand[b] : b \in 1..a }
           P == { a \in Nat : a <= N =>
                    c[1..a] \in Nat /\ \A T \in SUBSET First(a) : g[T] <= c[1..a] }
<1>7. 0 \in P
  <2>1. 1..0 = {} /\ First(0) = {}
    OBVIOUS
  <2>2. c[{}] = 0 /\ g[{}] = 0
    BY <1>3, <1>4 DEF Sums
  <2>3. \A T \in SUBSET First(0) : T = {}
    BY <2>1
  <2> QED
    BY <2>1, <2>2, <2>3
<1>8. ASSUME NEW a \in Nat, a \in P PROVE a + 1 \in P
  <2>0. a + 1 \in Nat
    OBVIOUS
  <2> SUFFICES ASSUME a + 1 <= N
               PROVE  c[1..(a + 1)] \in Nat /\ \A T \in SUBSET First(a + 1) : g[T] <= c[1..(a + 1)]
    BY <2>0, Zenon
  <2>1. a <= N /\ a + 1 \in 1..N /\ 1..(a + 1) \in SUBSET (1..N)
        /\ (1..(a + 1)) \ {a + 1} = 1..a /\ a + 1 \in 1..(a + 1)
    OBVIOUS
  <2>2. c[1..a] \in Nat /\ \A T \in SUBSET First(a) : g[T] <= c[1..a]
    BY <1>8, <2>1
  <2>3. c[1..(a + 1)] = v[a + 1] + c[1..a]
    BY <1>4, <2>1 DEF Sums
  <2> DEFINE x == cand[a + 1]
  <2>4. v[a + 1] = w[x] /\ w[x] \in Nat /\ x \in Token
    BY <1>1, <1>2, <2>1
  <2>5. First(a + 1) = First(a) \cup {x} /\ First(a + 1) \subseteq Token
    <3>1. ASSUME NEW t \in First(a + 1) PROVE t \in First(a) \cup {x} /\ t \in Token
      <4>1. PICK b \in 1..(a + 1) : t = cand[b]
        OBVIOUS
      <4>2. b \in 1..N /\ (b \in 1..a \/ b = a + 1)
        BY <2>1
      <4> QED
        BY <4>1, <4>2
    <3>2. ASSUME NEW t \in First(a) \cup {x} PROVE t \in First(a + 1)
      <4>1. \A b \in 1..a : b \in 1..(a + 1)
        OBVIOUS
      <4> QED
        BY <2>1, <4>1
    <3> QED
      BY <3>1, <3>2
  <2> HIDE DEF x, First, P
  <2>6. ASSUME NEW T \in SUBSET First(a + 1) PROVE g[T] <= c[1..(a + 1)]
    <3>1. T \in SUBSET Token /\ T \ {x} \in SUBSET First(a) /\ g[T \ {x}] \in Nat /\ g[T] \in Nat
      BY <1>3, <2>5 DEF Sums
    <3>2. g[T \ {x}] <= c[1..a]
      BY <2>2, <3>1
    <3>3. CASE x \in T
      <4>1. g[T] = w[x] + g[T \ {x}]
        BY <1>3, <3>1, <3>3 DEF Sums
      <4> QED
        BY <2>2, <2>3, <2>4, <3>1, <3>2, <4>1
    <3>4. CASE x \notin T
      <4>1. T \ {x} = T
        BY <3>4
      <4> QED
        BY <2>2, <2>3, <2>4, <3>1, <3>2, <4>1
    <3> QED
      BY <3>3, <3>4
  <2> QED
    BY <2>2, <2>3, <2>4, <2>6
<1>9. m \in P
  <2> HIDE DEF P
  <2>1. m \in Nat
    OBVIOUS
  <2> QED
    BY <1>7, <1>8, <2>1, Induction
<1>10. S \in SUBSET Token /\ S \in SUBSET First(m)
  OBVIOUS
<1> QED
  BY <1>5, <1>6, <1>9, <1>10

\* A sort lists every element, the greater keys first.
LEMMA SortedIs ==
    ASSUME NEW key, NEW S, IsFiniteSet(S), NEW q \in Sorted(key, S)
    PROVE  /\ q \in [1..Cardinality(S) -> S]
           /\ \A s \in S : \E a \in 1..Cardinality(S) : q[a] = s
           /\ \A a, b \in 1..Cardinality(S) : a < b => key[q[a]] >= key[q[b]]
<1> DEFINE D == 1..Cardinality(S)
<1>1. q \in [D -> S] /\ IsInjective(q) /\ DOMAIN q = D
  BY DEF Sorted
<1>2. Cardinality(S) \in Nat
  BY FS_CardinalityType
<1>3. IsFiniteSet(D) /\ Cardinality(D) = Cardinality(S)
  BY <1>2, FS_Interval
<1>4. q \in Injection(D, S)
  BY <1>1 DEF Injection
<1>5. q \in Surjection(D, S)
  <2> HIDE DEF D
  <2> QED
    BY <1>3, <1>4, FS_Injection
<1>6. \A s \in S : \E a \in D : q[a] = s
  BY <1>5 DEF Surjection
<1> QED
  BY <1>1, <1>6 DEF Sorted

-----------------------------------------------------------------------------
(* The nucleus.                                                            *)

\* The scan has kept the best of the finite logits it has seen.
Heaped ==
    /\ heap \subseteq { t \in Finite(logits) : t < i }
    /\ Cardinality(heap) <= par.topK
    /\ \A t \in Finite(logits) : t < i /\ t \notin heap =>
          /\ Cardinality(heap) = par.topK
          /\ \A s \in heap : logits[s] >= logits[t]

\* Whatever is above the j-th candidate is before it.
Ranked(j) ==
    /\ cand[j] \in Finite(logits)
    /\ \A t \in Token : Above(logits, t, cand[j]) => \E a \in 1..(j - 1) : t = cand[a]

\* Every candidate that may be drawn is ranked, and there are at most k.
Ranking ==
    /\ Finite(logits) # {} /\ mass \in Nat
    /\ cand \in Seq(Token) /\ Len(cand) \in 1..par.topK
    /\ \A j \in 1..Len(cand) :
         j = 1 \/ Weight(par.invT, logits, max, cand[j]) > 0 => Ranked(j)

\* What is before a kept candidate does not pass top_p.
Cut ==
    /\ kept \in 1..Len(cand)
    /\ \A j \in 1..kept : \A S \in SUBSET { cand[a] : a \in 1..(j - 1) } :
         Mass(par.invT, logits, max, S) * par.den <= par.num * mass

\* The invariant of sample_token.
Drawing ==
    /\ i \in 0..VocabSize
    /\ pc \in {"start", "sanitize"} /\ InRange => heap = {} /\ i = 0
    /\ pc \in {"fast", "softmax", "top_p", "draw"} => par.invT > 0
    /\ pc = "fast" /\ InRange => Heaped
    /\ pc \in {"top_p", "draw"} /\ InRange => Ranking
    /\ pc = "draw" /\ InRange => Cut
    /\ Nucleus

\* sample_greedy takes a finite logit that none is above.
LEMMA Greedy ==
    ASSUME logits \in Array, Finite(logits) # {}
    PROVE  /\ sample_greedy(logits) \in Finite(logits)
           /\ { t \in Token : Above(logits, t, sample_greedy(logits)) } = {}
<1> DEFINE F == Finite(logits)
           G == { t \in F : logits[t] = Greatest(logits, F) }
<1>1. /\ \E t \in F : logits[t] = Greatest(logits, F)
      /\ \A t \in F : logits[t] <= Greatest(logits, F)
  BY GreatestIs
<1>2. G # {} /\ G \subseteq Nat
  <2>1. F \subseteq Nat
    BY SamplerAssumption DEF Finite, Token
  <2> HIDE DEF F
  <2> QED
    BY <1>1, <2>1
<1>3. sample_greedy(logits) \in G
  <2>1. sample_greedy(logits) = Min(G)
    BY DEF sample_greedy
  <2> HIDE DEF G
  <2> QED
    BY <1>2, <2>1, LeastNat
<1>4. \A t \in F : logits[t] \in Int
  BY DEF Finite, Array, Value
<1>5. \A t \in Token : Above(logits, t, sample_greedy(logits)) =>
          t \in F /\ logits[t] > Greatest(logits, F)
  BY <1>3 DEF Above, Finite
<1>6. Greatest(logits, F) \in Int
  BY <1>1, <1>4
<1>7. ASSUME NEW t \in Token, Above(logits, t, sample_greedy(logits)) PROVE FALSE
  <2>1. t \in F /\ logits[t] > Greatest(logits, F) /\ logits[t] <= Greatest(logits, F)
    BY <1>1, <1>5, <1>7
  <2> QED
    BY <1>4, <1>6, <2>1
<1> QED
  BY <1>3, <1>7

\* A step of the scan keeps the heap the best of what was seen.
LEMMA ScanKeeps ==
    ASSUME TypeOK, InRange, Heaped, i \in 0..VocabSize, Scan
    PROVE  Heaped'
<1> DEFINE F == Finite(logits)
           K == par.topK
<1>0. /\ logits' = logits /\ par' = par /\ i' = i + 1 /\ i \in Token
      /\ K \in Int /\ VocabSize \in Nat
  BY SamplerAssumption DEF Scan, input, TypeOK, Param, Token
<1>1. /\ heap \subseteq F /\ \A t \in heap : t < i
      /\ Cardinality(heap) <= K
      /\ \A t \in F : t < i /\ t \notin heap =>
            Cardinality(heap) = K /\ \A s \in heap : logits[s] >= logits[t]
  BY DEF Heaped
<1>2. F \subseteq Token /\ \A t \in F : t \in Nat /\ logits[t] \in Int
  BY SamplerAssumption DEF Finite, Token, TypeOK, Array, Value
<1>3. IsFiniteSet(heap) /\ Cardinality(heap) \in Nat /\ i \notin heap
  <2>1. heap \in SUBSET Token
    BY <1>1, <1>2
  <2>2. i \notin heap
    BY <1>1, <1>0
  <2> QED
    BY <2>1, <2>2, TokenFinite, FS_Subset, FS_CardinalityType
<1> SUFFICES /\ heap' \subseteq F /\ \A t \in heap' : t < i + 1
             /\ Cardinality(heap') <= K
             /\ \A t \in F : t < i + 1 /\ t \notin heap' =>
                   Cardinality(heap') = K /\ \A s \in heap' : logits[s] >= logits[t]
  BY <1>0 DEF Heaped
<1>4. \A t \in F : (t < i + 1 => t < i \/ t = i) /\ (t < i => t < i + 1)
  BY <1>0, <1>2 DEF Token
<1>5. i < i + 1
  BY <1>0 DEF Token
<1> HIDE DEF F, K
<1>6. CASE logits[i] = Bad /\ heap' = heap
  <2>1. i \notin F
    BY <1>6 DEF F, Finite
  <2> QED
    BY <1>1, <1>4, <1>6, <2>1
<1>7. CASE logits[i] # Bad /\ Cardinality(heap) < K /\ heap' = heap \cup {i}
  <2>1. i \in F
    BY <1>0, <1>7 DEF F, Finite
  <2>2. Cardinality(heap') = Cardinality(heap) + 1
    BY <1>3, <1>7, FS_AddElement
  <2>3. Cardinality(heap') <= K /\ Cardinality(heap) # K
    BY <1>0, <1>3, <1>7, <2>2
  <2>4. heap' \subseteq F /\ \A t \in heap' : t < i + 1
    BY <1>1, <1>4, <1>5, <1>7, <2>1
  <2>5. \A t \in F : t < i + 1 => t \in heap'
    BY <1>1, <1>4, <1>7, <2>3
  <2> QED
    BY <2>3, <2>4, <2>5
<1>8. ASSUME logits[i] # Bad, Cardinality(heap) = K, NEW t0 \in Least(heap),
             heap' = IF logits[i] > logits[t0] THEN (heap \ {t0}) \cup {i} ELSE heap
      PROVE  /\ heap' \subseteq F /\ \A t \in heap' : t < i + 1
             /\ Cardinality(heap') <= K
             /\ \A t \in F : t < i + 1 /\ t \notin heap' =>
                   Cardinality(heap') = K /\ \A s \in heap' : logits[s] >= logits[t]
  <2>1. i \in F
    BY <1>0, <1>8 DEF F, Finite
  <2>2. t0 \in heap /\ \A s \in heap : logits[t0] <= logits[s]
    BY <1>1, <1>8, LeastIs DEF F, TypeOK
  <2>3. t0 \in F /\ logits[t0] \in Int /\ logits[i] \in Int
    BY <1>1, <1>2, <2>1, <2>2
  <2>4. CASE logits[i] > logits[t0]
    <3>1. heap' = (heap \ {t0}) \cup {i}
      BY <1>8, <2>4
    <3>2. Cardinality(heap') = K
      <4>1. IsFiniteSet(heap \ {t0}) /\ Cardinality(heap \ {t0}) = K - 1
        BY <1>3, <1>8, <2>2, FS_RemoveElement
      <4>2. i \notin heap \ {t0}
        BY <1>3
      <4>3. Cardinality(heap') = (K - 1) + 1
        BY <3>1, <4>1, <4>2, FS_AddElement
      <4> QED
        BY <1>0, <4>3
    <3>3. heap' \subseteq F /\ \A t \in heap' : t < i + 1
      BY <1>1, <1>4, <1>5, <2>1, <3>1
    <3>4. ASSUME NEW t \in F, t < i + 1, t \notin heap', NEW s \in heap'
          PROVE  logits[s] >= logits[t]
      <4>1. t = t0 \/ (t < i /\ t \notin heap)
        BY <1>4, <3>1, <3>4
      <4>2. logits[t] \in Int /\ logits[s] \in Int
        BY <1>2, <3>3
      <4>3. logits[t0] >= logits[t]
        BY <1>1, <2>2, <2>3, <4>1
      <4>4. logits[s] >= logits[t0]
        <5>1. CASE s = i
          BY <2>3, <2>4, <5>1
        <5>2. CASE s \in heap
          BY <2>2, <2>3, <4>2, <5>2
        <5> QED
          BY <3>1, <5>1, <5>2
      <4> QED
        BY <2>3, <4>2, <4>3, <4>4
    <3> QED
      BY <1>0, <3>2, <3>3, <3>4
  <2>5. CASE ~(logits[i] > logits[t0])
    <3>1. heap' = heap
      BY <1>8, <2>5
    <3>2. ASSUME NEW t \in F, t < i + 1, t \notin heap', NEW s \in heap'
          PROVE  logits[s] >= logits[t]
      <4>1. t = i \/ (t < i /\ t \notin heap)
        BY <1>4, <3>1, <3>2
      <4>2. CASE t = i
        <5>1. logits[s] \in Int /\ logits[t0] <= logits[s]
          BY <1>1, <1>2, <2>2, <3>1
        <5> QED
          BY <2>3, <2>5, <4>2, <5>1
      <4>3. CASE t < i /\ t \notin heap
        BY <1>1, <3>1, <4>3
      <4> QED
        BY <4>1, <4>2, <4>3
    <3>3. heap' \subseteq F /\ \A t \in heap' : t < i + 1
      BY <1>1, <1>4, <3>1
    <3> QED
      <4>1. Cardinality(heap') = K /\ K <= K
        BY <1>0, <1>8, <3>1
      <4> QED
        BY <3>2, <3>3, <4>1
  <2> QED
    BY <2>4, <2>5
<1> QED
  <2>1. \/ logits[i] = Bad /\ heap' = heap
        \/ logits[i] # Bad /\ Cardinality(heap) < K /\ heap' = heap \cup {i}
        \/ /\ logits[i] # Bad /\ Cardinality(heap) = K
           /\ \E t \in Least(heap) :
               heap' = IF logits[i] > logits[t] THEN (heap \ {t}) \cup {i} ELSE heap
    BY Zenon DEF Scan, K
  <2> QED
    BY <1>6, <1>7, <1>8, <2>1

\* A function on 1..n is a sequence.
LEMMA SeqOf ==
    ASSUME NEW S, NEW n \in Nat, NEW q \in [1..n -> S]
    PROVE  q \in Seq(S) /\ Len(q) = n
<1>1. q \in Seq(S)
  BY SeqDef
<1>2. DOMAIN q = 1..Len(q) /\ Len(q) \in Nat
  BY <1>1, LenProperties
<1>3. DOMAIN q = 1..n
  OBVIOUS
<1> QED
  BY <1>1, <1>2, <1>3

\* The candidates of the fast sampler: the sorted heap.
LEMMA FastRanking ==
    ASSUME TypeOK, par.invT > 0, InRange, Heaped, FastSoftmax, heap # {}
    PROVE  Ranking'
<1> DEFINE F == Finite(logits)
           n == Cardinality(heap)
<1>0. /\ logits' = logits /\ par' = par /\ i = VocabSize
      /\ cand' \in Sorted(logits, heap) /\ mass' = Mass(par.invT, logits, max, heap)
      /\ par.invT \in Nat /\ par.topK \in Int
  BY DEF FastSoftmax, input, TypeOK, Param
<1>1. /\ heap \subseteq F /\ n <= par.topK
      /\ \A t \in F : t < i /\ t \notin heap => \A s \in heap : logits[s] >= logits[t]
  BY DEF Heaped
<1>2. F \subseteq Token /\ \A t \in F : t < i /\ logits[t] \in Int
  BY <1>0, SamplerAssumption DEF Finite, Token, TypeOK, Array, Value
<1>3. heap \in SUBSET Token /\ IsFiniteSet(heap) /\ n \in Nat /\ n # 0
  BY <1>1, <1>2, TokenFinite, FS_Subset, FS_CardinalityType, FS_EmptySet
<1>4. /\ cand' \in [1..n -> heap]
      /\ \A s \in heap : \E a \in 1..n : cand'[a] = s
      /\ \A a, b \in 1..n : a < b => logits[cand'[a]] >= logits[cand'[b]]
  BY <1>0, <1>3, SortedIs
<1>5. mass' \in Nat /\ F # {}
  <2>1. F # {}
    BY <1>1
  <2> QED
    BY <1>0, <1>3, <2>1, MaxTops, MassType DEF TypeOK
<1> HIDE DEF n
<1>6. cand' \in Seq(Token) /\ Len(cand') = n
  <2>1. cand' \in [1..n -> Token]
    BY <1>3, <1>4
  <2> QED
    BY <1>3, <2>1, SeqOf
<1>7. ASSUME NEW j \in 1..n
      PROVE  /\ cand'[j] \in F
             /\ \A t \in Token : Above(logits, t, cand'[j]) => \E a \in 1..(j - 1) : t = cand'[a]
  <2>1. cand'[j] \in heap /\ cand'[j] \in F /\ logits[cand'[j]] \in Int
    BY <1>1, <1>2, <1>4
  <2>2. ASSUME NEW t \in Token, Above(logits, t, cand'[j])
        PROVE  \E a \in 1..(j - 1) : t = cand'[a]
    <3>1. t \in F /\ logits[t] > logits[cand'[j]] /\ logits[t] \in Int
      BY <1>2, <2>1, <2>2 DEF Above, Finite
    <3>2. t \in heap
      <4>1. ASSUME t \notin heap PROVE FALSE
        <5>1. logits[cand'[j]] >= logits[t]
          BY <1>1, <1>2, <2>1, <3>1, <4>1
        <5> QED
          BY <2>1, <3>1, <5>1
      <4> QED
        BY <4>1
    <3>3. PICK a \in 1..n : cand'[a] = t
      BY <1>4, <3>2
    <3>4. a < j
      <4>1. ASSUME ~(a < j) PROVE FALSE
        <5>1. a = j \/ j < a
          BY <1>3, <4>1
        <5>2. logits[cand'[j]] >= logits[cand'[a]]
          BY <1>4, <2>1, <5>1
        <5> QED
          BY <2>1, <3>1, <3>3, <5>2
      <4> QED
        BY <4>1
    <3>5. a \in 1..(j - 1)
      BY <1>3, <3>4
    <3> QED
      BY <3>3, <3>5
  <2> QED
    BY <2>1, <2>2
<1>8. n \in 1..par.topK
  BY <1>0, <1>1, <1>3 DEF n
<1> QED
  BY <1>0, <1>5, <1>6, <1>7, <1>8 DEF Ranking, Ranked

\* Those of the other one: the heaviest of the vocabulary.
LEMMA SoftmaxRanking ==
    ASSUME TypeOK, par.invT > 0, InRange, Softmax, Finite(logits) # {}
    PROVE  Ranking'
<1> DEFINE F == Finite(logits)
           K == par.topK
           w == [t \in Token |-> Weight(par.invT, logits, max, t)]
<1>0. /\ logits' = logits /\ par' = par /\ mass' = Mass(par.invT, logits, max, Token)
      /\ par.invT \in Nat \ {0} /\ K \in 1..VocabSize /\ VocabSize \in Nat
      /\ logits \in Array
  BY SamplerAssumption DEF Softmax, input, TypeOK, Param, InRange
<1>1. PICK q \in Sorted(w, Token) : cand' = SubSeq(q, 1, K)
  BY DEF Softmax
<1>2. Tops(max, logits) /\ \E t \in F : logits[t] = max
  BY <1>0, MaxTops
<1>3. w \in [Token -> Nat]
  BY <1>0, <1>2, WeightType
<1>4. mass' \in Nat
  BY <1>0, <1>2, MassType
<1>5. /\ q \in [1..VocabSize -> Token]
      /\ \A s \in Token : \E a \in 1..VocabSize : q[a] = s
      /\ \A a, b \in 1..VocabSize : a < b => w[q[a]] >= w[q[b]]
  <2> HIDE DEF w
  <2> QED
    BY <1>1, TokenFinite, SortedIs
<1>6. q \in Seq(Token) /\ Len(q) = VocabSize
  BY <1>0, <1>5, SeqOf
<1>7. cand' \in Seq(Token) /\ Len(cand') = K /\ \A j \in 1..K : cand'[j] = q[j]
  <2>1. SubSeq(q, 1, K) \in Seq(Token) /\ Len(SubSeq(q, 1, K)) = K
        /\ \A j \in 1..K : SubSeq(q, 1, K)[j] = q[j]
    BY <1>0, <1>6, SubSeqProperties
  <2> QED
    BY <1>1, <2>1
<1>8. ASSUME NEW j \in 1..K, j = 1 \/ Weight(par.invT, logits, max, cand'[j]) > 0
      PROVE  /\ cand'[j] \in F
             /\ \A t \in Token : Above(logits, t, cand'[j]) => \E a \in 1..(j - 1) : t = cand'[a]
  <2>0. j \in 1..VocabSize /\ cand'[j] = q[j] /\ q[j] \in Token /\ w[q[j]] \in Nat
    <3>1. j \in 1..VocabSize /\ cand'[j] = q[j]
      BY <1>0, <1>7
    <3>2. q[j] \in Token
      BY <1>5, <3>1
    <3> HIDE DEF w
    <3> QED
      BY <1>3, <3>1, <3>2
  <2>1. w[q[j]] > 0
    <3>1. CASE j = 1
      <4>1. PICK t \in F : logits[t] = max
        BY <1>2
      <4>2. t \in Token /\ w[t] > 0
        BY <1>0, <4>1, TopWeight DEF Finite
      <4>3. PICK a \in 1..VocabSize : q[a] = t
        BY <1>5, <4>2
      <4>4. a = 1 \/ 1 < a
        BY <1>0
      <4> HIDE DEF w
      <4>5. w[q[a]] \in Nat
        BY <1>3, <1>5
      <4>6. w[q[1]] >= w[q[a]]
        BY <1>5, <2>0, <3>1, <4>4, <4>5
      <4> QED
        BY <2>0, <3>1, <4>2, <4>3, <4>5, <4>6
    <3>2. CASE Weight(par.invT, logits, max, cand'[j]) > 0
      BY <2>0, <3>2
    <3> QED
      BY <1>8, <3>1, <3>2
  <2>2. Weight(par.invT, logits, max, q[j]) > 0
    BY <2>0, <2>1
  <2>3. q[j] \in F
    BY <2>0, <2>2 DEF Weight, Finite
  <2>4. ASSUME NEW t \in Token, Above(logits, t, q[j])
        PROVE  \E a \in 1..(j - 1) : t = cand'[a]
    <3>1. w[t] > w[q[j]]
      BY <1>0, <1>2, <2>0, <2>2, <2>4, AboveWeight
    <3>2. PICK a \in 1..VocabSize : q[a] = t
      BY <1>5
    <3> HIDE DEF w
    <3>3. w[t] \in Nat
      BY <1>3
    <3>4. ~(a = j) /\ ~(j < a)
      BY <1>5, <2>0, <3>1, <3>2, <3>3
    <3>5. a \in 1..(j - 1) /\ a \in 1..K
      BY <1>0, <2>0, <3>4
    <3>6. cand'[a] = q[a]
      BY <1>7, <3>5
    <3> QED
      BY <3>2, <3>5, <3>6
  <2> QED
    BY <2>0, <2>3, <2>4
<1>9. K \in 1..K
  BY <1>0
<1> QED
  BY <1>0, <1>4, <1>7, <1>8, <1>9 DEF Ranking, Ranked, max

\* top_p_filter keeps at least the first candidate, and no more than up to
\* the first that passes top_p.
LEMMA TopPRange ==
    ASSUME cand \in Seq(Token), Len(cand) # 0
    PROVE  /\ top_p_filter \in 1..Len(cand)
           /\ \A j \in 1..Len(cand) :
                j < top_p_filter => ~(Cum(j) * par.den > par.num * mass)
<1> DEFINE n == Len(cand)
           over == { j \in 1..n : Cum(j) * par.den > par.num * mass }
<1>1. n \in Nat /\ n # 0
  OBVIOUS
<1>2. top_p_filter = IF over = {} THEN n ELSE Min(over)
  BY Zenon DEF top_p_filter
<1>3. CASE over = {}
  BY <1>1, <1>2, <1>3
<1>4. CASE over # {}
  <2>1. over \subseteq Nat /\ over \subseteq 1..n
    OBVIOUS
  <2>2. Min(over) \in over /\ \A y \in over : Min(over) <= y
    <3> HIDE DEF over
    <3> QED
      BY <1>4, <2>1, LeastNat
  <2>3. top_p_filter = Min(over)
    BY <1>2, <1>4
  <2>4. top_p_filter \in 1..n /\ \A y \in over : top_p_filter <= y
    <3> HIDE DEF over
    <3> QED
      BY <2>1, <2>2, <2>3
  <2>5. ASSUME NEW j \in 1..n, j < top_p_filter PROVE j \notin over
    <3>1. j \in Nat /\ top_p_filter \in Nat
      BY <2>4
    <3> HIDE DEF over
    <3> QED
      BY <2>4, <2>5, <3>1
  <2> QED
    BY <2>4, <2>5
<1> QED
  BY <1>3, <1>4

\* top_p_filter leaves no candidate whose predecessors pass top_p.
LEMMA TopPCuts ==
    ASSUME TypeOK, Ranking, TopP
    PROVE  Cut'
<1> DEFINE n == Len(cand)
           M(S) == Mass(par.invT, logits, max, S)
<1>0. /\ logits' = logits /\ par' = par /\ cand' = cand /\ mass' = mass
      /\ kept' = top_p_filter
      /\ par.invT \in Nat /\ par.num \in Nat /\ par.den \in Nat /\ mass \in Nat
      /\ logits \in Array /\ Finite(logits) # {} /\ par.topK \in Int
  BY DEF TopP, input, TypeOK, Param, Ranking
<1>1. n \in Nat /\ n # 0 /\ \A a \in 1..n : cand[a] \in Token
  BY <1>0 DEF Ranking
<1>3. kept' \in 1..n /\ \A j \in 1..n : j < kept' => ~(Cum(j) * par.den > par.num * mass)
  BY <1>0, <1>1, TopPRange DEF Ranking
<1>4. ASSUME NEW j \in 1..kept', NEW S \in SUBSET { cand[a] : a \in 1..(j - 1) }
      PROVE  M(S) * par.den <= par.num * mass
  <2>0. j - 1 \in 0..n /\ j \in Nat
    BY <1>1, <1>3
  <2>1. CASE j = 1
    <3>1. S = {}
      BY <2>1
    <3>2. M(S) = 0
      BY <1>0, <3>1, MaxTops, MassType
    <3>3. par.num * mass \in Nat
      BY <1>0, Times
    <3>4. M(S) * par.den = 0
      BY <1>0, <3>2
    <3> QED
      BY <3>3, <3>4
  <2>2. CASE j # 1
    <3>1. j - 1 \in 1..n /\ j - 1 < kept'
      BY <1>1, <1>3, <2>0, <2>2
    <3>2. ~(Cum(j - 1) * par.den > par.num * mass)
      BY <1>3, <3>1
    <3>3. Cum(j - 1) \in Nat /\ M(S) <= Cum(j - 1)
      BY <1>0, <1>1, <2>0, Prefix
    <3>4. M(S) \in Nat
      <4>1. S \in SUBSET Token
        BY <1>1, <3>1
      <4> QED
        BY <1>0, <4>1, MaxTops, MassType
    <3> HIDE DEF M
    <3>5. M(S) * par.den <= Cum(j - 1) * par.den
      BY <1>0, <3>3, <3>4, TimesGrows
    <3>6. M(S) * par.den \in Nat /\ Cum(j - 1) * par.den \in Nat /\ par.num * mass \in Nat
      BY <1>0, <3>3, <3>4, Times
    <3> QED
      BY <3>2, <3>5, <3>6
  <2> QED
    BY <2>1, <2>2
<1> QED
  BY <1>0, <1>3, <1>4 DEF Cut, max

\* What is drawn is in the nucleus.
LEMMA DrawsRanked ==
    ASSUME TypeOK, InRange, par.invT > 0, Ranking, Cut, sample_from
    PROVE  Nucleus'
<1>0. /\ logits' = logits /\ par' = par /\ mass' = mass
      /\ par.topK \in Int /\ par.invT \in Nat
  BY DEF sample_from, input, TypeOK, Param
<1>1. PICK j \in 1..kept : (j = 1 \/ CandWeight(j) > 0) /\ out' = cand[j]
  BY DEF sample_from, Returns
<1>2. j \in 1..Len(cand) /\ Len(cand) \in 1..par.topK
  BY DEF Cut, Ranking
<1>3. Ranked(j)
  BY <1>1, <1>2 DEF Ranking, CandWeight
<1> DEFINE better == { t \in Token : Above(logits, t, out') }
           C == { cand[a] : a \in 1..(j - 1) }
<1>4. out' \in Finite(logits) /\ better \in SUBSET C
  BY <1>1, <1>3 DEF Ranked
<1>5. Mass(par.invT, logits, max, better) * par.den <= par.num * mass
  <2> HIDE DEF better
  <2> QED
    BY <1>4 DEF Cut
<1>6. Cardinality(better) < par.topK
  <2> DEFINE D == 1..(j - 1)
             f == [a \in D |-> cand[a]]
  <2>1. f \in Surjection(D, C)
    <3>1. f \in [D -> C] /\ \A c \in C : \E a \in D : f[a] = c
      OBVIOUS
    <3> QED
      BY <3>1 DEF Surjection
  <2>2. IsFiniteSet(D) /\ Cardinality(D) = j - 1
    <3>1. 1 \in Int /\ j - 1 \in Int /\ (1 > j - 1 => j - 1 = 0) /\ (j - 1) - 1 + 1 = j - 1
      OBVIOUS
    <3> QED
      BY <3>1, FS_Interval
  <2> HIDE DEF D, f, C, better
  <2>3. IsFiniteSet(C) /\ Cardinality(C) <= j - 1
    BY <2>1, <2>2, FS_Surjection
  <2>4. Cardinality(better) <= Cardinality(C) /\ Cardinality(C) \in Nat /\ Cardinality(better) \in Nat
    BY <1>4, <2>3, FS_Subset, FS_CardinalityType
  <2>5. j \in Int /\ j <= par.topK
    BY <1>0, <1>2
  <2> QED
    BY <1>0, <2>3, <2>4, <2>5
<1> QED
  BY <1>0, <1>4, <1>5, <1>6 DEF Nucleus, max

\* The invariant holds at the start.
LEMMA InitDrawing == Init => Drawing
<1> SUFFICES ASSUME Init PROVE Drawing
  OBVIOUS
<1> QED
  BY SamplerAssumption DEF Init, Drawing, Nucleus

\* Every step of sample_token keeps it.
LEMMA NextDrawing == TypeOK /\ Drawing /\ [Next]_vars => Drawing'
<1> SUFFICES ASSUME TypeOK, Drawing, [Next]_vars PROVE Drawing'
  OBVIOUS
<1>0. par.invT \in Nat /\ par.topK \in Int /\ VocabSize \in Nat /\ logits \in Array
  BY SamplerAssumption DEF TypeOK, Param
<1>1. ASSUME heap' = {}, i' = 0, par' = par, InRange PROVE Heaped'
  <2>1. Cardinality(heap') <= par'.topK
    BY <1>0, <1>1, FS_EmptySet DEF InRange
  <2>2. \A t \in Token : ~(t < i')
    BY <1>1, SamplerAssumption DEF Token
  <2> QED
    BY <1>1, <2>1, <2>2 DEF Heaped, Finite
<1>2. ASSUME par.invT = 0, par' = par, logits' = logits, out' = sample_greedy(logits)
      PROVE  Nucleus'
  <2>1. CASE Finite(logits) = {}
    BY <1>2, <2>1 DEF Nucleus
  <2>2. CASE Finite(logits) # {}
    <3>1. /\ out' \in Finite(logits')
          /\ { t \in Token : Above(logits', t, out') } = {}
      BY <1>0, <1>2, <2>2, Greedy
    <3> QED
      BY <1>2, <3>1 DEF Nucleus
  <2> QED
    BY <2>1, <2>2
<1>3. CASE Start
  <2>1. par' = par /\ UNCHANGED <<i, heap>> /\ pc = "start"
        /\ (InRange => heap = {} /\ i = 0) /\ i \in 0..VocabSize
    BY <1>3 DEF Start, input, Drawing
  <2>2. CASE par.invT = 0 /\ ~par.debug
    <3>1. pc' = "done" /\ out' = sample_greedy(logits) /\ logits' = logits
      BY <1>3, <2>2 DEF Start, Returns
    <3>2. Nucleus'
      BY <1>2, <2>1, <2>2, <3>1
    <3> QED
      BY <2>1, <3>1, <3>2 DEF Drawing
  <2>3. CASE par.invT > 0 /\ ~par.debug
    <3>1. pc' \in {"fast", "sanitize"}
      BY <1>0, <1>3, <2>3 DEF Start
    <3>2. InRange => Heaped'
      BY <1>1, <2>1
    <3> QED
      BY <2>1, <2>3, <3>1, <3>2 DEF Drawing, InRange, Nucleus
  <2>4. CASE par.debug
    <3>1. pc' = "sanitize"
      BY <1>3, <2>4 DEF Start
    <3> QED
      BY <2>1, <3>1 DEF Drawing, InRange, Nucleus
  <2> QED
    BY <1>3, <2>2, <2>3, <2>4 DEF Start
<1>4. CASE Sanitize
  <2>1. par' = par /\ UNCHANGED <<i, heap>> /\ pc = "sanitize"
        /\ (InRange => heap = {} /\ i = 0) /\ i \in 0..VocabSize
    BY <1>4 DEF Sanitize, input, Drawing
  <2>2. CASE par.invT = 0
    <3>1. pc' = "done" /\ out' = sample_greedy(logits) /\ logits' = logits
      BY <1>4, <2>2 DEF Sanitize, Returns
    <3>2. Nucleus'
      BY <1>2, <2>1, <2>2, <3>1
    <3> QED
      BY <2>1, <3>1, <3>2 DEF Drawing
  <2>3. CASE par.invT > 0
    <3>1. pc' \in {"fast", "softmax"}
      BY <1>0, <1>4, <2>3 DEF Sanitize
    <3>2. InRange => Heaped'
      BY <1>1, <2>1
    <3> QED
      BY <2>1, <2>3, <3>1, <3>2 DEF Drawing, InRange, Nucleus
  <2> QED
    BY <1>4, <2>2, <2>3 DEF Sanitize
<1>5. CASE Decline
  <2>1. /\ par' = par /\ ~InRange /\ i' = VocabSize /\ pc' \in {"sanitize", "softmax"}
        /\ par.invT > 0
    BY <1>5 DEF Decline, input, Drawing
  <2> QED
    BY <1>0, <2>1 DEF Drawing, InRange, Nucleus
<1>6. CASE Scan
  <2>1. /\ par' = par /\ InRange /\ i' = i + 1 /\ pc' = "fast" /\ par.invT > 0
        /\ i \in 0..VocabSize /\ i < VocabSize /\ Heaped
    BY <1>6 DEF Scan, input, Drawing
  <2>2. Heaped'
    BY <1>6, <2>1, ScanKeeps
  <2>3. i' \in 0..VocabSize
    BY <1>0, <2>1
  <2> QED
    BY <2>1, <2>2, <2>3 DEF Drawing, InRange, Nucleus
<1>7. CASE FastSoftmax
  <2>1. /\ par' = par /\ logits' = logits /\ InRange /\ i' = i /\ par.invT > 0
        /\ i \in 0..VocabSize /\ i = VocabSize /\ Heaped
    BY <1>7 DEF FastSoftmax, input, Drawing
  <2>2. CASE heap = {}
    <3>1. pc' = "done"
      BY <1>7, <2>2 DEF FastSoftmax, Returns
    <3>2. ASSUME NEW t \in Finite(logits) PROVE FALSE
      <4>1. t < i
        BY <2>1, SamplerAssumption DEF Finite, Token
      <4>2. Cardinality(heap) = par.topK
        BY <2>1, <2>2, <4>1 DEF Heaped
      <4> QED
        BY <1>0, <2>1, <2>2, <4>2, FS_EmptySet DEF InRange
    <3>3. Finite(logits) = {}
      BY <3>2
    <3> QED
      BY <2>1, <3>1, <3>3 DEF Drawing, Nucleus
  <2>3. CASE heap # {}
    <3>1. pc' = "top_p"
      BY <1>7, <2>3 DEF FastSoftmax
    <3>2. Ranking'
      BY <1>7, <2>1, <2>3, FastRanking
    <3> QED
      BY <2>1, <3>1, <3>2 DEF Drawing, Nucleus
  <2> QED
    BY <2>2, <2>3
<1>8. CASE Softmax
  <2>1. /\ par' = par /\ logits' = logits /\ i' = i /\ par.invT > 0 /\ i \in 0..VocabSize
    BY <1>8 DEF Softmax, input, Drawing
  <2>2. CASE Finite(logits) = {}
    <3>1. pc' = "done"
      BY <1>8, <2>2 DEF Softmax, Returns
    <3> QED
      BY <2>1, <2>2, <3>1 DEF Drawing, Nucleus
  <2>3. CASE Finite(logits) # {}
    <3>1. pc' = "top_p"
      BY <1>8, <2>3 DEF Softmax
    <3>2. InRange => Ranking'
      BY <1>8, <2>1, <2>3, SoftmaxRanking
    <3> QED
      BY <2>1, <3>1, <3>2 DEF Drawing, Nucleus, InRange
  <2> QED
    BY <2>2, <2>3
<1>9. CASE TopP
  <2>1. /\ UNCHANGED <<par, logits, cand, mass, i>> /\ pc' = "draw" /\ par.invT > 0
        /\ i \in 0..VocabSize /\ (InRange => Ranking)
    BY <1>9 DEF TopP, input, Drawing
  <2>2. InRange => Cut'
    BY <1>9, <2>1, TopPCuts
  <2>3. Ranking => Ranking'
    BY <2>1 DEF Ranking, Ranked, max
  <2> QED
    BY <2>1, <2>2, <2>3 DEF Drawing, Nucleus, InRange
<1>10. CASE sample_from
  <2>1. /\ UNCHANGED <<par, logits, i>> /\ pc' = "done" /\ par.invT > 0
        /\ i \in 0..VocabSize /\ (InRange => Ranking /\ Cut)
    BY <1>10 DEF sample_from, Returns, input, Drawing
  <2>2. InRange => Nucleus'
    BY <1>10, <2>1, DrawsRanked
  <2>3. ~InRange => Nucleus'
    BY <1>0, <2>1 DEF Nucleus, InRange
  <2> QED
    BY <2>1, <2>2, <2>3 DEF Drawing
<1>11. CASE UNCHANGED vars
  <2>1. UNCHANGED <<par, logits, i, heap, pc, cand, mass, kept, out>>
    BY <1>11 DEF vars, input
  <2>2. (Heaped => Heaped') /\ (Ranking => Ranking') /\ (Cut => Cut') /\ (Nucleus => Nucleus')
        /\ (InRange <=> InRange')
    BY <2>1 DEF Heaped, Ranking, Ranked, Cut, Nucleus, InRange, max
  <2> QED
    BY <2>1, <2>2 DEF Drawing
<1> QED
  BY <1>3, <1>4, <1>5, <1>6, <1>7, <1>8, <1>9, <1>10, <1>11 DEF Next

\* A token is drawn from the k likeliest and from the nucleus, whichever of
\* the two samplers did it and however equals were ordered, for every
\* vocabulary, logits, parameters and falling exponential.
THEOREM DrawsFromNucleus == Spec => []Nucleus
<1>1. Drawing => Nucleus
  BY DEF Drawing
<1> QED
  BY <1>1, InitPenalising, NextPenalising, InitDrawing, NextDrawing, PTL DEF Spec

-----------------------------------------------------------------------------
(* A token comes back.                                                     *)

\* There is a candidate to draw from, with or without top_k.
Candidates ==
    /\ pc \in {"top_p", "draw"} => cand \in Seq(Token) /\ Len(cand) # 0
    /\ pc = "draw" => kept \in 1..Len(cand)
    /\ pc = "done" => out \in Token

\* sample_greedy returns a token also when no logit is finite.
LEMMA GreedyToken ==
    ASSUME logits \in Array
    PROVE  sample_greedy(logits) \in Token
<1>1. CASE Finite(logits) = {}
  BY <1>1, SamplerAssumption DEF sample_greedy, Token
<1>2. CASE Finite(logits) # {}
  BY <1>2, Greedy DEF Finite
<1> QED
  BY <1>1, <1>2

\* Every step keeps a candidate to draw from.
LEMMA NextCandidates ==
    TypeOK /\ Drawing /\ Drawing' /\ Candidates /\ [Next]_vars => Candidates'
<1> SUFFICES ASSUME TypeOK, Drawing, Drawing', Candidates, [Next]_vars PROVE Candidates'
  OBVIOUS
<1>0. logits \in Array /\ par.topK \in Int /\ VocabSize \in Nat \ {0}
      /\ sample_greedy(logits) \in Token
  BY GreedyToken, SamplerAssumption DEF TypeOK, Param
<1>1. ASSUME InRange', pc' = "top_p" PROVE Candidates'
  <2>1. cand' \in Seq(Token) /\ Len(cand') \in 1..par'.topK
    BY <1>1 DEF Drawing, Ranking
  <2>2. Len(cand') # 0
    BY <2>1
  <2> QED
    BY <1>1, <2>1, <2>2 DEF Candidates
<1>2. CASE Start
  <2>1. pc' \in {"fast", "sanitize"} \/ (pc' = "done" /\ out' = sample_greedy(logits))
    BY <1>2 DEF Start, Returns
  <2> QED
    BY <1>0, <2>1 DEF Candidates
<1>3. CASE Sanitize
  <2>1. pc' \in {"fast", "softmax"} \/ (pc' = "done" /\ out' = sample_greedy(logits))
    BY <1>3 DEF Sanitize, Returns
  <2> QED
    BY <1>0, <2>1 DEF Candidates
<1>4. CASE Decline
  <2>1. pc' \in {"sanitize", "softmax"}
    BY <1>4 DEF Decline
  <2> QED
    BY <2>1 DEF Candidates
<1>5. CASE Scan
  <2>1. pc' = "fast"
    BY <1>5 DEF Scan
  <2> QED
    BY <2>1 DEF Candidates
<1>6. CASE FastSoftmax
  <2>1. /\ InRange' /\ par' = par
        /\ pc' = "top_p" \/ (pc' = "done" /\ out' = sample_greedy(logits))
    BY <1>6 DEF FastSoftmax, Returns, input, InRange
  <2>2. CASE pc' = "top_p"
    BY <1>1, <2>1, <2>2
  <2>3. CASE pc' = "done" /\ out' = sample_greedy(logits)
    BY <1>0, <2>3 DEF Candidates
  <2> QED
    BY <2>1, <2>2, <2>3
<1>7. CASE Softmax
  <2>1. par' = par /\ (InRange' <=> InRange)
    BY <1>7 DEF Softmax, input, InRange
  <2>2. CASE Finite(logits) = {}
    <3>1. pc' = "done" /\ out' = 0
      BY <1>7, <2>2 DEF Softmax, Returns
    <3>2. 0 \in Token
      BY <1>0 DEF Token
    <3> QED
      BY <3>1, <3>2 DEF Candidates
  <2>3. CASE Finite(logits) # {} /\ InRange
    <3>1. pc' = "top_p"
      BY <1>7, <2>3 DEF Softmax
    <3> QED
      BY <1>1, <2>1, <2>3, <3>1
  <2>4. CASE Finite(logits) # {} /\ ~InRange
    <3>1. pc' = "top_p" /\ cand' = [j \in 1..VocabSize |-> j - 1]
      BY <1>7, <2>4 DEF Softmax
    <3>2. cand' \in [1..VocabSize -> Token]
      BY <1>0, <3>1 DEF Token
    <3>3. cand' \in Seq(Token) /\ Len(cand') = VocabSize
      BY <1>0, <3>2, SeqOf
    <3> QED
      BY <1>0, <3>1, <3>3 DEF Candidates
  <2> QED
    BY <2>2, <2>3, <2>4
<1>8. CASE TopP
  <2>1. cand' = cand /\ pc' = "draw" /\ kept' = top_p_filter /\ cand \in Seq(Token) /\ Len(cand) # 0
    BY <1>8 DEF TopP, Candidates
  <2>2. kept' \in 1..Len(cand)
    BY <2>1, TopPRange
  <2> QED
    BY <2>1, <2>2 DEF Candidates
<1>9. CASE sample_from
  <2>1. cand \in Seq(Token) /\ kept \in 1..Len(cand) /\ pc' = "done"
    BY <1>9 DEF sample_from, Returns, Candidates
  <2>2. PICK j \in 1..kept : out' = cand[j]
    BY <1>9 DEF sample_from, Returns
  <2>3. j \in 1..Len(cand)
    BY <2>1
  <2>4. out' \in Token
    BY <2>1, <2>2, <2>3
  <2> QED
    BY <2>1, <2>4 DEF Candidates
<1>10. CASE UNCHANGED vars
  BY <1>10 DEF vars, Candidates
<1> QED
  BY <1>2, <1>3, <1>4, <1>5, <1>6, <1>7, <1>8, <1>9, <1>10 DEF Next

\* sample_token never returns the -1 of a sampler that declined, and never a
\* number outside the vocabulary.
THEOREM ReturnsToken == Spec => [](pc = "done" => out \in Token)
<1>1. Init => Candidates
  BY DEF Init, Candidates
<1>2. Candidates => (pc = "done" => out \in Token)
  BY DEF Candidates
<1> QED
  BY <1>1, <1>2, InitPenalising, NextPenalising, InitDrawing, NextDrawing, NextCandidates, PTL
  DEF Spec

=============================================================================
