-------------------------- MODULE ThinkSplitProofs --------------------------
(***************************************************************************)
(* Proofs about ThinkSplit for every alphabet, every two tags and every    *)
(* way a text of any length is cut into chunks.                            *)
(*                                                                         *)
(* The argument needs no induction over texts beyond "a set of positions   *)
(* has a least one" (LeastNat): find is characterised by its first         *)
(* occurrence, and what the parser must know is how occurrences of a tag   *)
(* in a text relate to those in a longer text (OccursLeft, OccursRight).   *)
(* The heart of it is AtThinking: once some reasoning has been emitted at  *)
(* least Len(Close) - 1 characters are held back, so a closing tag that a  *)
(* later chunk completes cannot begin in the text that is gone, and the    *)
(* parser finds in its buffer the very occurrence that a search of the     *)
(* whole text would find (FindLater).                                      *)
(***************************************************************************)
EXTENDS ThinkSplit, SequenceTheorems, WellFoundedInduction, TLAPS

Text == Seq(Char)

-----------------------------------------------------------------------------
(* Parts of texts.                                                         *)

\* The least element of a nonempty set of numbers is one of them.
LEMMA LeastNat ==
    ASSUME NEW S, S \subseteq Nat, S # {}
    PROVE  Min(S) \in S /\ \A y \in S : Min(S) <= y
<1>1. \E x \in S : \A y \in S : ~(<<y, x>> \in OpToRel(<, Nat))
  BY NatLessThanWellFounded, WFMin, Zenon
<1>2. PICK x \in S : \A y \in S : ~(y < x)
  BY <1>1, Zenon DEF OpToRel
<1>3. \A y \in S : x <= y
  BY <1>2
<1> QED
  BY <1>3 DEF Min

LEMMA TextLen == \A s \in Text : Len(s) \in Nat
BY DEF Text

LEMMA Dropped ==
    ASSUME NEW s \in Text, NEW n \in 0..Len(s)
    PROVE  /\ Drop(s, n) \in Text /\ Len(Drop(s, n)) = Len(s) - n
           /\ \A i \in 1..(Len(s) - n) : Drop(s, n)[i] = s[n + i]
BY DEF Drop, Text

LEMMA Taken ==
    ASSUME NEW s \in Text, NEW n \in 0..Len(s)
    PROVE  /\ SubSeq(s, 1, n) \in Text /\ Len(SubSeq(s, 1, n)) = n
           /\ \A i \in 1..n : SubSeq(s, 1, n)[i] = s[i]
BY DEF Text

LEMMA Joined ==
    ASSUME NEW s \in Text, NEW t \in Text
    PROVE  /\ s \o t \in Text /\ Len(s \o t) = Len(s) + Len(t)
           /\ \A i \in 1..Len(s) : (s \o t)[i] = s[i]
           /\ \A i \in 1..Len(t) : (s \o t)[Len(s) + i] = t[i]
BY ConcatProperties DEF Text

LEMMA TakenDropped ==
    ASSUME NEW s \in Text, NEW n \in 0..Len(s)
    PROVE  SubSeq(s, 1, n) \o Drop(s, n) = s
<1> DEFINE t == SubSeq(s, 1, n)
           u == Drop(s, n)
<1>1. t \in Text /\ Len(t) = n /\ \A i \in 1..n : t[i] = s[i]
  BY Taken
<1>2. u \in Text /\ Len(u) = Len(s) - n /\ \A i \in 1..(Len(s) - n) : u[i] = s[n + i]
  BY Dropped
<1> HIDE DEF t, u
<1>3. t \o u \in Text /\ Len(t \o u) = Len(s)
  <2>1. t \o u \in Text /\ Len(t \o u) = Len(t) + Len(u)
    BY <1>1, <1>2, Joined
  <2> QED
    BY <1>1, <1>2, <2>1, TextLen
<1>4. ASSUME NEW i \in 1..Len(s) PROVE (t \o u)[i] = s[i]
  <2>1. CASE i <= n
    BY <1>1, <1>2, <2>1, Joined
  <2>2. CASE ~(i <= n)
    <3>1. i - n \in 1..Len(u) /\ i = Len(t) + (i - n)
      BY <1>1, <1>2, <2>2 DEF Text
    <3>2. (t \o u)[Len(t) + (i - n)] = u[i - n]
      BY <1>1, <1>2, <3>1, Joined
    <3> QED
      BY <1>1, <1>2, <3>1, <3>2
  <2> QED
    BY <2>1, <2>2
<1>5. t \o u = s
  BY <1>3, <1>4, SeqEqual DEF Text
<1> QED
  BY <1>5 DEF t, u

-----------------------------------------------------------------------------
(* Where a tag occurs.                                                     *)

\* t occurs in s from its i-th character on.
Occurs(s, t, i) ==
    /\ i \in Nat /\ i >= 1 /\ i + Len(t) - 1 <= Len(s)
    /\ \A k \in 1..Len(t) : s[i + k - 1] = t[k]

\* Equality with a tag, character by character.
LEMMA OccursSub ==
    ASSUME NEW s \in Text, NEW t \in Text, NEW i \in 1..(Len(s) - Len(t) + 1)
    PROVE  SubSeq(s, i, i + Len(t) - 1) = t <=> Occurs(s, t, i)
<1> DEFINE n == Len(t)
           u == SubSeq(s, i, i + n - 1)
<1>1. Len(s) \in Nat /\ n \in Nat /\ i \in Nat /\ i >= 1 /\ i + n - 1 <= Len(s)
  BY TextLen
<1>2. u \in Text /\ Len(u) = n /\ \A k \in 1..n : u[k] = s[i + k - 1]
  <2>1. \A k \in i..(i + n - 1) : s[k] \in Char
    BY <1>1 DEF Text
  <2>2. /\ u \in Seq(Char)
        /\ Len(u) = IF i <= i + n - 1 THEN (i + n - 1) - i + 1 ELSE 0
        /\ \A k \in 1..((i + n - 1) - i + 1) : u[k] = s[i + k - 1]
    BY <1>1, <2>1, SubSeqProperties
  <2>3. (i + n - 1) - i + 1 = n
    BY <1>1
  <2> HIDE DEF u
  <2> QED
    BY <1>1, <2>2, <2>3 DEF Text
<1> HIDE DEF u
<1>3. u = t <=> \A k \in 1..n : u[k] = t[k]
  BY <1>1, <1>2, SeqEqual DEF Text
<1>4. u = t <=> Occurs(s, t, i)
  BY <1>1, <1>2, <1>3 DEF Occurs
<1> QED
  BY <1>4 DEF u

LEMMA FindFirst ==
    ASSUME NEW s \in Text, NEW t \in Text, t # << >>
    PROVE  /\ Find(s, t) \in Nat
           /\ Find(s, t) = 0 => \A i : ~Occurs(s, t, i)
           /\ Find(s, t) # 0 => /\ Occurs(s, t, Find(s, t))
                                /\ \A i : Occurs(s, t, i) => Find(s, t) <= i
<1> DEFINE at == {i \in 1..(Len(s) - Len(t) + 1) : SubSeq(s, i, i + Len(t) - 1) = t}
<1>1. Len(s) \in Nat /\ Len(t) \in Nat
  BY TextLen
<1>2. \A i : i \in at <=> Occurs(s, t, i)
  <2>1. ASSUME NEW i, Occurs(s, t, i)
        PROVE  i \in 1..(Len(s) - Len(t) + 1)
    BY <1>1, <2>1 DEF Occurs
  <2> QED
    BY <2>1, OccursSub
<1>3. Find(s, t) = IF at = {} THEN 0 ELSE Min(at)
  BY DEF Find
<1>4. at \subseteq Nat /\ 0 \notin at
  BY <1>1
<1> HIDE DEF at
<1>5. at # {} => Min(at) \in at /\ \A y \in at : Min(at) <= y
  BY <1>4, LeastNat
<1>6. CASE at = {}
  BY <1>2, <1>3, <1>6
<1>7. CASE at # {}
  <2>1. Find(s, t) = Min(at)
    BY <1>3, <1>7
  <2>2. Find(s, t) \in at /\ \A y \in at : Find(s, t) <= y
    BY <1>5, <1>7, <2>1
  <2>3. Find(s, t) \in Nat /\ Find(s, t) # 0
    BY <1>4, <2>2
  <2> QED
    BY <1>2, <2>2, <2>3
<1> QED
  BY <1>6, <1>7

\* The first occurrence is the only number of which that is true.
LEMMA FindIs ==
    ASSUME NEW s \in Text, NEW t \in Text, t # << >>, NEW i,
           Occurs(s, t, i), \A j : Occurs(s, t, j) => i <= j
    PROVE  Find(s, t) = i
<1>1. i \in Nat
  BY DEF Occurs
<1>2. Find(s, t) # 0 /\ Find(s, t) \in Nat
  BY FindFirst
<1>3. /\ Occurs(s, t, Find(s, t))
      /\ \A j : Occurs(s, t, j) => Find(s, t) <= j
  BY <1>2, FindFirst
<1>4. Find(s, t) <= i /\ i <= Find(s, t)
  BY <1>3
<1> QED
  BY <1>1, <1>2, <1>4

LEMMA FindNone ==
    ASSUME NEW s \in Text, NEW t \in Text, t # << >>, \A j : ~Occurs(s, t, j)
    PROVE  Find(s, t) = 0
BY FindFirst

\* Occurrences in the first and in the second part of a text.
LEMMA OccursLeft ==
    ASSUME NEW s \in Text, NEW c \in Text, NEW t \in Text, NEW i \in Nat,
           i + Len(t) - 1 <= Len(s)
    PROVE  Occurs(s \o c, t, i) <=> Occurs(s, t, i)
<1>1. Len(s) \in Nat /\ Len(t) \in Nat /\ Len(c) \in Nat
  BY TextLen
<1>2. Len(s \o c) = Len(s) + Len(c) /\ \A k \in 1..Len(s) : (s \o c)[k] = s[k]
  BY Joined
<1>3. CASE i >= 1
  <2>1. ASSUME NEW k \in 1..Len(t) PROVE (s \o c)[i + k - 1] = s[i + k - 1]
    <3>1. i + k - 1 \in 1..Len(s)
      BY <1>1, <1>3
    <3> QED
      BY <1>2, <3>1
  <2>2. i + Len(t) - 1 <= Len(s \o c)
    BY <1>1, <1>2
  <2> QED
    BY <2>1, <2>2 DEF Occurs
<1>4. CASE ~(i >= 1)
  BY <1>4 DEF Occurs
<1> QED
  BY <1>3, <1>4

LEMMA OccursRight ==
    ASSUME NEW r \in Text, NEW b \in Text, NEW t \in Text, NEW i \in Nat, i >= 1
    PROVE  Occurs(r \o b, t, Len(r) + i) <=> Occurs(b, t, i)
<1>1. Len(r) \in Nat /\ Len(t) \in Nat /\ Len(b) \in Nat
  BY TextLen
<1>2. Len(r \o b) = Len(r) + Len(b) /\ \A k \in 1..Len(b) : (r \o b)[Len(r) + k] = b[k]
  BY Joined
<1>3. i + Len(t) - 1 <= Len(b) <=> (Len(r) + i) + Len(t) - 1 <= Len(r \o b)
  BY <1>1, <1>2
<1>4. ASSUME i + Len(t) - 1 <= Len(b), NEW k \in 1..Len(t)
      PROVE  (r \o b)[(Len(r) + i) + k - 1] = b[i + k - 1]
  <2>1. i + k - 1 \in 1..Len(b) /\ (Len(r) + i) + k - 1 = Len(r) + (i + k - 1)
    BY <1>1, <1>4
  <2> QED
    BY <1>2, <2>1
<1>5. CASE i + Len(t) - 1 <= Len(b)
  <2>1. /\ Len(r) + i \in Nat /\ Len(r) + i >= 1
        /\ (Len(r) + i) + Len(t) - 1 <= Len(r \o b)
    BY <1>1, <1>3, <1>5
  <2> QED
    BY <1>4, <1>5, <2>1 DEF Occurs
<1>6. CASE ~(i + Len(t) - 1 <= Len(b))
  BY <1>3, <1>6 DEF Occurs
<1> QED
  BY <1>5, <1>6

\* More text does not move the first occurrence.
LEMMA FindStays ==
    ASSUME NEW s \in Text, NEW c \in Text, NEW t \in Text, t # << >>,
           Find(s, t) # 0
    PROVE  Find(s \o c, t) = Find(s, t)
<1> DEFINE f == Find(s, t)
<1>1. f \in Nat /\ Occurs(s, t, f) /\ \A i : Occurs(s, t, i) => f <= i
  BY FindFirst
<1> HIDE DEF f
<1>2. Len(s) \in Nat /\ Len(t) \in Nat /\ s \o c \in Text
  BY TextLen, Joined
<1>3. f + Len(t) - 1 <= Len(s)
  BY <1>1 DEF Occurs
<1>4. Occurs(s \o c, t, f)
  BY <1>1, <1>3, OccursLeft
<1>5. ASSUME NEW j, Occurs(s \o c, t, j) PROVE f <= j
  <2> SUFFICES ASSUME ~(f <= j) PROVE FALSE
    OBVIOUS
  <2>1. j \in Nat /\ j + Len(t) - 1 <= Len(s)
    BY <1>1, <1>2, <1>3, <1>5 DEF Occurs
  <2>2. Occurs(s, t, j)
    BY <1>5, <2>1, OccursLeft
  <2> QED
    BY <1>1, <2>2
<1>6. Find(s \o c, t) = f
  BY <1>2, <1>4, <1>5, FindIs
<1> QED
  BY <1>6 DEF f

\* A tag that is not in the first part r of r \o b, nor begins there, is found
\* by looking for it in b.
LEMMA FindLater ==
    ASSUME NEW r \in Text, NEW b \in Text, NEW t \in Text, t # << >>,
           \A i : Occurs(r \o b, t, i) => i > Len(r)
    PROVE  Find(r \o b, t) = IF Find(b, t) = 0 THEN 0 ELSE Len(r) + Find(b, t)
<1>1. Len(r) \in Nat /\ Len(t) \in Nat /\ r \o b \in Text
  BY TextLen, Joined
<1>2. ASSUME NEW i, Occurs(r \o b, t, i)
      PROVE  i - Len(r) \in Nat /\ Occurs(b, t, i - Len(r))
  <2> DEFINE k == i - Len(r)
  <2>1. i \in Nat /\ i > Len(r)
    BY <1>2 DEF Occurs
  <2>2. k \in Nat /\ k >= 1 /\ i = Len(r) + k
    BY <1>1, <2>1
  <2> HIDE DEF k
  <2>3. Occurs(b, t, k)
    BY <1>2, <2>2, OccursRight
  <2> QED
    BY <2>2, <2>3 DEF k
<1>3. CASE Find(b, t) = 0
  <2>1. \A i : ~Occurs(r \o b, t, i)
    BY <1>2, <1>3, FindFirst
  <2> QED
    BY <1>1, <1>3, <2>1, FindNone
<1>4. CASE Find(b, t) # 0
  <2> DEFINE f == Find(b, t)
  <2>1. f \in Nat /\ Occurs(b, t, f) /\ \A i : Occurs(b, t, i) => f <= i
    BY <1>4, FindFirst
  <2> HIDE DEF f
  <2>2. f >= 1
    BY <2>1 DEF Occurs
  <2>3. Occurs(r \o b, t, Len(r) + f)
    BY <2>1, <2>2, OccursRight
  <2>4. ASSUME NEW j, Occurs(r \o b, t, j) PROVE Len(r) + f <= j
    <3>1. f <= j - Len(r) /\ j \in Nat
      BY <1>2, <2>1, <2>4 DEF Occurs
    <3> QED
      BY <1>1, <2>1, <3>1
  <2>5. Find(r \o b, t) = Len(r) + f
    BY <1>1, <2>3, <2>4, FindIs
  <2> QED
    BY <1>4, <2>5 DEF f
<1> QED
  BY <1>3, <1>4

-----------------------------------------------------------------------------
(* Joined texts.                                                           *)

LEMMA SameText ==
    ASSUME NEW s \in Text, NEW t \in Text, Len(s) = Len(t),
           \A i \in 1..Len(s) : s[i] = t[i]
    PROVE  s = t
BY SeqEqual DEF Text

LEMMA Associative ==
    ASSUME NEW r \in Text, NEW s \in Text, NEW t \in Text
    PROVE  (r \o s) \o t = r \o (s \o t)
BY ConcatAssociative DEF Text

LEMMA Empty ==
    /\ << >> \in Text /\ Len(<< >>) = 0
    /\ \A s \in Text : s \o << >> = s /\ << >> \o s = s /\ (Len(s) = 0 => s = << >>)
BY ConcatEmptySeq, EmptySeq DEF Text

\* What is dropped from a joined text is within its first part, or all of it
\* and a part of the second.
LEMMA DropLeft ==
    ASSUME NEW s \in Text, NEW c \in Text, NEW n \in 0..Len(s)
    PROVE  Drop(s \o c, n) = Drop(s, n) \o c
<1> DEFINE u == Drop(s, n)
           v == Drop(s \o c, n)
<1>1. Len(s) \in Nat /\ Len(c) \in Nat
  BY TextLen
<1>2. /\ s \o c \in Text /\ Len(s \o c) = Len(s) + Len(c)
      /\ \A i \in 1..Len(s) : (s \o c)[i] = s[i]
      /\ \A i \in 1..Len(c) : (s \o c)[Len(s) + i] = c[i]
  BY Joined
<1>3. u \in Text /\ Len(u) = Len(s) - n /\ \A i \in 1..(Len(s) - n) : u[i] = s[n + i]
  BY Dropped
<1>4. /\ v \in Text /\ Len(v) = Len(s) + Len(c) - n
      /\ \A i \in 1..(Len(s) + Len(c) - n) : v[i] = (s \o c)[n + i]
  <2> DEFINE w == s \o c
  <2>1. w \in Text /\ n \in 0..Len(w) /\ Len(w) = Len(s) + Len(c)
    BY <1>1, <1>2
  <2> HIDE DEF w
  <2>2. /\ Drop(w, n) \in Text /\ Len(Drop(w, n)) = Len(w) - n
        /\ \A i \in 1..(Len(w) - n) : Drop(w, n)[i] = w[n + i]
    BY <2>1, Dropped
  <2>3. /\ Drop(w, n) \in Text /\ Len(Drop(w, n)) = Len(s) + Len(c) - n
        /\ \A i \in 1..(Len(s) + Len(c) - n) : Drop(w, n)[i] = w[n + i]
    BY <2>1, <2>2
  <2> QED
    BY <2>3 DEF w
<1> HIDE DEF u, v
<1>5. /\ u \o c \in Text /\ Len(u \o c) = Len(u) + Len(c)
      /\ \A i \in 1..Len(u) : (u \o c)[i] = u[i]
      /\ \A i \in 1..Len(c) : (u \o c)[Len(u) + i] = c[i]
  BY <1>3, Joined
<1>6. Len(v) = Len(u \o c)
  BY <1>1, <1>3, <1>4, <1>5
<1>7. ASSUME NEW i \in 1..Len(v) PROVE v[i] = (u \o c)[i]
  <2>1. CASE i <= Len(u)
    <3>1. i \in 1..Len(u) /\ n + i \in 1..Len(s)
      BY <1>1, <1>3, <1>4, <2>1
    <3> QED
      BY <1>2, <1>3, <1>4, <1>5, <3>1
  <2>2. CASE ~(i <= Len(u))
    <3> DEFINE k == i - Len(u)
    <3>1. k \in 1..Len(c) /\ i = Len(u) + k /\ n + i = Len(s) + k
      BY <1>1, <1>3, <1>4, <2>2
    <3> HIDE DEF k
    <3>2. v[i] = (s \o c)[n + i]
      BY <1>4
    <3> QED
      BY <1>2, <1>5, <3>1, <3>2
  <2> QED
    BY <2>1, <2>2
<1>8. v = u \o c
  BY <1>4, <1>5, <1>6, <1>7, SameText
<1> QED
  BY <1>8 DEF u, v

LEMMA DropRight ==
    ASSUME NEW s \in Text, NEW c \in Text, NEW n \in 0..Len(c)
    PROVE  Drop(s \o c, Len(s) + n) = Drop(c, n)
<1> DEFINE u == Drop(c, n)
           v == Drop(s \o c, Len(s) + n)
<1>1. Len(s) \in Nat /\ Len(c) \in Nat
  BY TextLen
<1>2. /\ s \o c \in Text /\ Len(s \o c) = Len(s) + Len(c)
      /\ \A i \in 1..Len(c) : (s \o c)[Len(s) + i] = c[i]
  BY Joined
<1>3. u \in Text /\ Len(u) = Len(c) - n /\ \A i \in 1..(Len(c) - n) : u[i] = c[n + i]
  BY Dropped
<1> DEFINE d == Len(s) + n
<1>4. d \in 0..Len(s \o c) /\ Len(s \o c) - d = Len(c) - n
  BY <1>1, <1>2
<1> HIDE DEF d
<1>5. /\ Drop(s \o c, d) \in Text /\ Len(Drop(s \o c, d)) = Len(c) - n
      /\ \A i \in 1..(Len(c) - n) : Drop(s \o c, d)[i] = (s \o c)[d + i]
  BY <1>2, <1>4, Dropped
<1>6. ASSUME NEW i \in 1..(Len(c) - n) PROVE Drop(s \o c, d)[i] = u[i]
  <2>1. n + i \in 1..Len(c) /\ d + i = Len(s) + (n + i)
    BY <1>1 DEF d
  <2> HIDE DEF u
  <2> QED
    BY <1>2, <1>3, <1>5, <2>1
<1> HIDE DEF u
<1>7. Drop(s \o c, d) = u
  BY <1>3, <1>5, <1>6, SameText
<1> QED
  BY <1>7 DEF u, d

LEMMA TakeLeft ==
    ASSUME NEW s \in Text, NEW c \in Text, NEW n \in 0..Len(s)
    PROVE  SubSeq(s \o c, 1, n) = SubSeq(s, 1, n)
<1> DEFINE u == SubSeq(s, 1, n)
           v == SubSeq(s \o c, 1, n)
<1>1. Len(s) \in Nat /\ Len(c) \in Nat
  BY TextLen
<1>2. /\ s \o c \in Text /\ Len(s \o c) = Len(s) + Len(c)
      /\ \A i \in 1..Len(s) : (s \o c)[i] = s[i]
  BY Joined
<1>3. u \in Text /\ Len(u) = n /\ \A i \in 1..n : u[i] = s[i]
  BY Taken
<1>4. v \in Text /\ Len(v) = n /\ \A i \in 1..n : v[i] = (s \o c)[i]
  <2>1. n \in 0..Len(s \o c)
    BY <1>1, <1>2
  <2> QED
    BY <1>2, <2>1, Taken
<1> HIDE DEF u, v
<1>5. \A i \in 1..n : i \in 1..Len(s)
  BY <1>1
<1>6. \A i \in 1..Len(v) : v[i] = u[i]
  BY <1>2, <1>3, <1>4, <1>5
<1>7. v = u
  BY <1>3, <1>4, <1>6, SameText
<1> QED
  BY <1>7 DEF u, v

LEMMA TakeRight ==
    ASSUME NEW r \in Text, NEW b \in Text, NEW n \in 0..Len(b)
    PROVE  SubSeq(r \o b, 1, Len(r) + n) = r \o SubSeq(b, 1, n)
<1> DEFINE t == SubSeq(b, 1, n)
           u == Drop(b, n)
<1>1. t \in Text /\ u \in Text /\ Len(t) = n /\ t \o u = b
  BY Taken, Dropped, TakenDropped
<1> HIDE DEF t, u
<1>2. r \o t \in Text /\ Len(r \o t) = Len(r) + n /\ Len(r) \in Nat
  BY <1>1, Joined, TextLen
<1>3. (r \o t) \o u = r \o b
  BY <1>1, Associative
<1> DEFINE d == Len(r) + n
<1>4. d \in 0..Len(r \o t) /\ d = Len(r \o t)
  BY <1>2
<1> HIDE DEF d
<1>5. SubSeq((r \o t) \o u, 1, d) = SubSeq(r \o t, 1, d)
  BY <1>1, <1>2, <1>4, TakeLeft
<1>6. SubSeq(r \o t, 1, d) = r \o t
  BY <1>2, <1>4, SubSeqFull DEF Text
<1>7. SubSeq(r \o b, 1, d) = r \o t
  BY <1>3, <1>5, <1>6
<1> QED
  BY <1>7 DEF d, t

-----------------------------------------------------------------------------
(* Separators in front of a text.                                          *)

LEMMA EatAll ==
    ASSUME NEW s \in Text, \A i \in 1..Len(s) : s[i] \in Sep
    PROVE  EatSeparators(s) = << >>
BY DEF EatSeparators

LEMMA EatUpTo ==
    ASSUME NEW s \in Text, NEW m \in 1..Len(s), s[m] \notin Sep,
           \A i \in 1..(m - 1) : s[i] \in Sep
    PROVE  EatSeparators(s) = Drop(s, m - 1)
<1> DEFINE text == {i \in 1..Len(s) : s[i] \notin Sep}
<1>1. Len(s) \in Nat
  BY TextLen
<1>2. m \in text /\ text \subseteq Nat
  BY <1>1
<1>3. Min(text) \in text /\ \A y \in text : Min(text) <= y
  BY <1>2, LeastNat
<1>4. \A y \in text : m <= y
  <2> SUFFICES ASSUME NEW y \in text, ~(m <= y) PROVE FALSE
    OBVIOUS
  <2>1. y \in 1..(m - 1)
    BY <1>1
  <2> QED
    BY <2>1
<1>5. EatSeparators(s) = Drop(s, Min(text) - 1)
  BY <1>2 DEF EatSeparators
<1> HIDE DEF text
<1>6. Min(text) = m
  <2>1. Min(text) \in Nat /\ m \in Nat
    BY <1>2, <1>3
  <2>2. Min(text) <= m /\ m <= Min(text)
    BY <1>2, <1>3, <1>4
  <2> QED
    BY <2>1, <2>2
<1> QED
  BY <1>5, <1>6

\* A text that is not all separators has a first character that is not.
LEMMA FirstText ==
    ASSUME NEW s \in Text, ~\A i \in 1..Len(s) : s[i] \in Sep
    PROVE  \E m \in 1..Len(s) : s[m] \notin Sep /\ \A i \in 1..(m - 1) : s[i] \in Sep
<1> DEFINE text == {i \in 1..Len(s) : s[i] \notin Sep}
<1>1. Len(s) \in Nat
  BY TextLen
<1>2. text # {} /\ text \subseteq Nat
  BY <1>1
<1>3. Min(text) \in text /\ \A y \in text : Min(text) <= y
  BY <1>2, LeastNat
<1> DEFINE m == Min(text)
<1>4. m \in 1..Len(s) /\ s[m] \notin Sep
  BY <1>3
<1>5. \A i \in 1..(m - 1) : s[i] \in Sep
  <2> SUFFICES ASSUME NEW i \in 1..(m - 1), s[i] \notin Sep PROVE FALSE
    OBVIOUS
  <2>1. m \in Nat /\ \A y \in text : m <= y
    BY <1>2, <1>3
  <2>2. i \in text
    BY <1>1, <1>4
  <2> HIDE DEF m
  <2> QED
    BY <2>1, <2>2
<1> QED
  BY <1>4, <1>5

\* Separators in front of a joined text.
LEMMA EatJoined ==
    ASSUME NEW a \in Text, NEW c \in Text
    PROVE  EatSeparators(a \o c) =
             IF EatSeparators(a) = << >> THEN EatSeparators(c)
             ELSE EatSeparators(a) \o c
<1>1. Len(a) \in Nat /\ Len(c) \in Nat
  BY TextLen
<1>2. /\ a \o c \in Text /\ Len(a \o c) = Len(a) + Len(c)
      /\ \A i \in 1..Len(a) : (a \o c)[i] = a[i]
      /\ \A i \in 1..Len(c) : (a \o c)[Len(a) + i] = c[i]
  BY Joined
<1>3. CASE \A i \in 1..Len(a) : a[i] \in Sep
  <2>1. EatSeparators(a) = << >>
    BY <1>3, EatAll
  <2>2. CASE \A i \in 1..Len(c) : c[i] \in Sep
    <3>1. ASSUME NEW i \in 1..Len(a \o c) PROVE (a \o c)[i] \in Sep
      <4>1. CASE i \in 1..Len(a)
        BY <1>2, <1>3, <4>1
      <4>2. CASE ~(i \in 1..Len(a))
        <5>1. i - Len(a) \in 1..Len(c) /\ i = Len(a) + (i - Len(a))
          BY <1>1, <1>2, <4>2
        <5> QED
          BY <1>2, <2>2, <5>1
      <4> QED
        BY <4>1, <4>2
    <3> QED
      BY <1>2, <2>1, <2>2, <3>1, EatAll
  <2>3. CASE ~\A i \in 1..Len(c) : c[i] \in Sep
    <3>1. PICK m \in 1..Len(c) : c[m] \notin Sep /\ \A i \in 1..(m - 1) : c[i] \in Sep
      BY <2>3, FirstText
    <3>2. EatSeparators(c) = Drop(c, m - 1)
      BY <3>1, EatUpTo
    <3> DEFINE n == Len(a) + m
    <3>3. n \in 1..Len(a \o c) /\ (a \o c)[n] \notin Sep
      BY <1>1, <1>2, <3>1
    <3>4. ASSUME NEW i \in 1..(n - 1) PROVE (a \o c)[i] \in Sep
      <4>1. CASE i \in 1..Len(a)
        BY <1>2, <1>3, <4>1
      <4>2. CASE ~(i \in 1..Len(a))
        <5>1. i - Len(a) \in 1..(m - 1) /\ i - Len(a) \in 1..Len(c)
              /\ i = Len(a) + (i - Len(a))
          BY <1>1, <4>2
        <5> QED
          BY <1>2, <3>1, <5>1
      <4> QED
        BY <4>1, <4>2
    <3>5. m - 1 \in 0..Len(c) /\ n - 1 = Len(a) + (m - 1)
      BY <1>1
    <3> HIDE DEF n
    <3>6. EatSeparators(a \o c) = Drop(a \o c, n - 1)
      BY <1>2, <3>3, <3>4, EatUpTo
    <3>7. Drop(a \o c, Len(a) + (m - 1)) = Drop(c, m - 1)
      BY <3>5, DropRight
    <3> QED
      BY <2>1, <3>2, <3>5, <3>6, <3>7
  <2> QED
    BY <2>2, <2>3
<1>4. CASE ~\A i \in 1..Len(a) : a[i] \in Sep
  <2>1. PICK m \in 1..Len(a) : a[m] \notin Sep /\ \A i \in 1..(m - 1) : a[i] \in Sep
    BY <1>4, FirstText
  <2>2. EatSeparators(a) = Drop(a, m - 1) /\ m - 1 \in 0..Len(a)
    BY <1>1, <2>1, EatUpTo
  <2>3. EatSeparators(a) # << >>
    <3>1. Len(Drop(a, m - 1)) = Len(a) - (m - 1)
      BY <2>2, Dropped
    <3> QED
      BY <1>1, <2>2, <3>1, Empty
  <2>4. m \in 1..Len(a \o c) /\ (a \o c)[m] \notin Sep
    BY <1>1, <1>2, <2>1
  <2>5. \A i \in 1..(m - 1) : i \in 1..Len(a) /\ (a \o c)[i] \in Sep
    BY <1>1, <1>2, <2>1
  <2>6. EatSeparators(a \o c) = Drop(a \o c, m - 1)
    BY <1>2, <2>4, <2>5, EatUpTo
  <2>7. Drop(a \o c, m - 1) = Drop(a, m - 1) \o c
    BY <2>2, DropLeft
  <2> QED
    BY <2>2, <2>3, <2>6, <2>7
<1> QED
  BY <1>3, <1>4

\* Eating separators a second time changes nothing.
LEMMA EatTwice ==
    ASSUME NEW s \in Text
    PROVE  /\ EatSeparators(s) \in Text
           /\ EatSeparators(EatSeparators(s)) = EatSeparators(s)
<1>1. CASE \A i \in 1..Len(s) : s[i] \in Sep
  <2>1. EatSeparators(s) = << >>
    BY <1>1, EatAll
  <2>2. EatSeparators(<< >>) = << >>
    BY Empty, EatAll
  <2> QED
    BY <2>1, <2>2, Empty
<1>2. CASE ~\A i \in 1..Len(s) : s[i] \in Sep
  <2>1. PICK m \in 1..Len(s) : s[m] \notin Sep /\ \A i \in 1..(m - 1) : s[i] \in Sep
    BY <1>2, FirstText
  <2> DEFINE u == Drop(s, m - 1)
  <2>2. EatSeparators(s) = u
    BY <2>1, EatUpTo
  <2>3. Len(s) \in Nat /\ m - 1 \in 0..Len(s)
    BY TextLen
  <2>4. u \in Text /\ Len(u) = Len(s) - (m - 1) /\ u[1] = s[m]
    <3>1. /\ u \in Text /\ Len(u) = Len(s) - (m - 1)
          /\ \A i \in 1..(Len(s) - (m - 1)) : u[i] = s[(m - 1) + i]
      BY <2>3, Dropped
    <3>2. 1 \in 1..(Len(s) - (m - 1)) /\ (m - 1) + 1 = m
      BY <2>3
    <3> HIDE DEF u
    <3> QED
      BY <3>1, <3>2
  <2> HIDE DEF u
  <2>5. EatSeparators(u) = Drop(u, 1 - 1)
    <3> DEFINE one == 1
    <3>1. one \in 1..Len(u) /\ u[one] \notin Sep /\ \A i \in 1..(one - 1) : u[i] \in Sep
      BY <2>1, <2>3, <2>4
    <3> HIDE DEF one
    <3>2. EatSeparators(u) = Drop(u, one - 1)
      BY <2>4, <3>1, EatUpTo
    <3> QED
      BY <3>2 DEF one
  <2>6. Drop(u, 1 - 1) = u
    BY <2>4, SubSeqFull DEF Drop, Text
  <2> QED
    BY <2>2, <2>4, <2>5, <2>6
<1> QED
  BY <1>1, <1>2

-----------------------------------------------------------------------------
(* Prefixes.                                                               *)

LEMMA PrefixIs ==
    ASSUME NEW s \in Text, NEW t \in Text
    PROVE  IsPrefix(s, t) <=> Len(s) <= Len(t) /\ \A i \in 1..Len(s) : s[i] = t[i]
<1>1. Len(s) \in Nat /\ Len(t) \in Nat
  BY TextLen
<1>2. CASE Len(s) <= Len(t)
  <2> DEFINE n == Len(s)
             u == SubSeq(t, 1, n)
  <2>1. n \in 0..Len(t)
    BY <1>1, <1>2
  <2>2. u \in Text /\ Len(u) = n /\ \A i \in 1..n : u[i] = t[i]
    BY <2>1, Taken
  <2>3. SubSeq(s, 1, n) = s
    BY <1>1, SubSeqFull DEF Text
  <2>4. IsPrefix(s, t) <=> s = u
    BY <1>2, <2>3 DEF IsPrefix
  <2> HIDE DEF u
  <2>5. s = u <=> \A i \in 1..n : s[i] = u[i]
    BY <2>2, SameText
  <2> QED
    BY <1>2, <2>2, <2>4, <2>5
<1>3. CASE ~(Len(s) <= Len(t))
  BY <1>3 DEF IsPrefix
<1> QED
  BY <1>2, <1>3

\* A text that may still become the tag does not begin with it.
LEMMA StrictlyShorter ==
    ASSUME NEW s \in Text, NEW t \in Text, IsStrictPrefix(s, t)
    PROVE  Len(s) < Len(t) /\ ~IsPrefix(t, s)
<1>1. Len(s) \in Nat /\ Len(t) \in Nat
  BY TextLen
<1>2. s # t /\ Len(s) <= Len(t) /\ \A i \in 1..Len(s) : s[i] = t[i]
  BY PrefixIs DEF IsStrictPrefix
<1>3. Len(s) # Len(t)
  BY <1>2, SameText
<1>4. Len(s) < Len(t)
  BY <1>1, <1>2, <1>3
<1> QED
  BY <1>1, <1>4, PrefixIs

LEMMA PrefixKept ==
    ASSUME NEW s \in Text, NEW c \in Text, NEW t \in Text, IsPrefix(t, s)
    PROVE  IsPrefix(t, s \o c)
<1>1. Len(s) \in Nat /\ Len(t) \in Nat /\ Len(c) \in Nat
  BY TextLen
<1>2. Len(t) <= Len(s) /\ \A i \in 1..Len(t) : t[i] = s[i]
  BY PrefixIs
<1>3. /\ s \o c \in Text /\ Len(s \o c) = Len(s) + Len(c)
      /\ \A i \in 1..Len(s) : (s \o c)[i] = s[i]
  BY Joined
<1>4. Len(t) <= Len(s \o c) /\ \A i \in 1..Len(t) : t[i] = (s \o c)[i]
  <2>1. \A i \in 1..Len(t) : i \in 1..Len(s)
    BY <1>1, <1>2
  <2> QED
    BY <1>1, <1>2, <1>3, <2>1
<1> QED
  BY <1>3, <1>4, PrefixIs

\* A text that neither begins with t nor can become one that does differs from
\* t somewhere, and still does when more is added to it.
LEMMA PrefixNever ==
    ASSUME NEW s \in Text, NEW c \in Text, NEW t \in Text,
           ~IsPrefix(t, s), ~IsStrictPrefix(s, t)
    PROVE  ~IsPrefix(t, s \o c) /\ ~IsStrictPrefix(s \o c, t)
<1>1. Len(s) \in Nat /\ Len(t) \in Nat /\ Len(c) \in Nat
  BY TextLen
<1>2. PICK i \in 1..Len(s) : i <= Len(t) /\ s[i] # t[i]
  <2>1. CASE Len(t) <= Len(s)
    <3>1. PICK i \in 1..Len(t) : t[i] # s[i]
      BY <2>1, PrefixIs
    <3> QED
      BY <1>1, <2>1, <3>1
  <2>2. CASE ~(Len(t) <= Len(s))
    <3>1. ~IsPrefix(s, t)
      BY <1>1, <2>2 DEF IsStrictPrefix
    <3>2. PICK i \in 1..Len(s) : s[i] # t[i]
      BY <1>1, <2>2, <3>1, PrefixIs
    <3> QED
      BY <1>1, <2>2, <3>2
  <2> QED
    BY <2>1, <2>2
<1> DEFINE w == s \o c
<1>3. w \in Text /\ i \in 1..Len(w) /\ w[i] = s[i]
  BY <1>1, Joined
<1> HIDE DEF w
<1>4. i \in 1..Len(t)
  BY <1>1, <1>2
<1>5. ~IsPrefix(t, w) /\ ~IsPrefix(w, t)
  BY <1>2, <1>3, <1>4, PrefixIs
<1> QED
  BY <1>5 DEF w, IsStrictPrefix

-----------------------------------------------------------------------------
(* The division of a text that grows.                                      *)

LEMMA Tags ==
    /\ Open \in Text /\ Open # << >> /\ Len(Open) \in Nat /\ Len(Open) >= 1
    /\ Close \in Text /\ Close # << >> /\ Len(Close) \in Nat /\ Len(Close) >= 1
<1>1. Open \in Text /\ Close \in Text /\ Close # << >> /\ Open # << >>
  BY ConstAssumption DEF Text
<1>2. Len(Open) \in Nat /\ Len(Close) \in Nat /\ Len(Open) # 0 /\ Len(Close) # 0
  BY <1>1, TextLen, Empty
<1> QED
  BY <1>1, <1>2

LEMMA ChunkText == Chunks \subseteq Text
BY DEF Chunks, Text

LEMMA BodyGrows ==
    ASSUME NEW s \in Text, NEW c \in Text, Thinks(s)
    PROVE  /\ Thinks(s \o c) /\ Body(s) \in Text
           /\ Body(s \o c) = Body(s) \o c
<1>1. Thinks(s \o c)
  BY Tags, PrefixKept DEF Thinks
<1>2. Len(Open) \in 0..Len(s)
  BY Tags, PrefixIs, TextLen DEF Thinks
<1>3. Drop(s \o c, Len(Open)) = Drop(s, Len(Open)) \o c
  BY <1>2, DropLeft
<1> QED
  BY <1>1, <1>2, <1>3, Dropped DEF Body

\* Once there is a closing tag, more text only adds to the content.
LEMMA EndGrows ==
    ASSUME NEW s \in Text, NEW c \in Text, Thinks(s), End(s) # 0
    PROVE  /\ End(s \o c) = End(s)
           /\ Reasoning(s \o c) = Reasoning(s)
           /\ Content(s) \in Text
           /\ Content(s \o c) = Content(s) \o c
<1> DEFINE x == Body(s)
           p == Find(x, Close)
<1>1. Thinks(s \o c) /\ x \in Text /\ Body(s \o c) = x \o c
  BY BodyGrows
<1> HIDE DEF x
<1>2. p # 0 /\ End(s) = p
  BY DEF End, x
<1>3. p \in Nat /\ p >= 1 /\ p + Len(Close) - 1 <= Len(x)
  <2>1. p \in Nat /\ Occurs(x, Close, p)
    BY <1>1, <1>2, Tags, FindFirst
  <2> QED
    BY <2>1 DEF Occurs
<1>4. End(s \o c) = p
  BY <1>1, <1>2, Tags, FindStays DEF End
<1> HIDE DEF p
<1> DEFINE n == p - 1
           d == p - 1 + Len(Close)
<1>5. n \in 0..Len(x) /\ d \in 0..Len(x)
  BY <1>1, <1>3, Tags, TextLen
<1> HIDE DEF n, d
<1>6. SubSeq(x \o c, 1, n) = SubSeq(x, 1, n) /\ Drop(x \o c, d) = Drop(x, d) \o c
  BY <1>1, <1>5, TakeLeft, DropLeft
<1>7. Drop(x, d) \in Text
  BY <1>1, <1>5, Dropped
<1>8. /\ Reasoning(s) = SubSeq(x, 1, n) /\ Reasoning(s \o c) = SubSeq(x \o c, 1, n)
      /\ Content(s) = Drop(x, d) /\ Content(s \o c) = Drop(x \o c, d)
  BY <1>1, <1>2, <1>4 DEF Reasoning, Content, n, d, x
<1> QED
  BY <1>2, <1>4, <1>6, <1>7, <1>8

-----------------------------------------------------------------------------
(* The inductive invariant.                                                *)

\* Nothing has been decided: all the text is held back, and it may become the
\* opening tag.
AtInit ==
    /\ buf = fed /\ reasoning = << >> /\ content = << >>
    /\ IsStrictPrefix(fed, Open)

\* There is no closing tag yet, and once reasoning has been emitted enough of
\* the text is held back for none to begin in what was emitted.
AtThinking ==
    /\ Thinks(fed) /\ End(fed) = 0 /\ Body(fed) = reasoning \o buf
    /\ content = << >>
    /\ Len(buf) <= Len(Close)
    /\ reasoning # << >> => Len(buf) >= Len(Close) - 1

AtContent ==
    /\ buf = << >>
    /\ \/ /\ ~Thinks(fed) /\ ~IsStrictPrefix(fed, Open)
          /\ reasoning = << >> /\ content = fed
       \/ /\ Thinks(fed) /\ End(fed) # 0
          /\ reasoning = Reasoning(fed)
          /\ EatSeparators(content) = EatSeparators(Content(fed))

Divided ==
    /\ TypeOK
    /\ ~flushed => /\ mode = "INIT" => AtInit
                   /\ mode = "THINKING" => AtThinking
                   /\ mode = "CONTENT" => AtContent
    /\ ChunksDoNotMatter

LEMMA DividedInit == Init => Divided
<1> SUFFICES ASSUME Init PROVE Divided
  OBVIOUS
<1>1. TypeOK /\ ChunksDoNotMatter
  BY Empty DEF Init, TypeOK, Text, ChunksDoNotMatter
<1>2. IsStrictPrefix(<< >>, Open)
  BY Tags, Empty, PrefixIs DEF IsStrictPrefix
<1> QED
  BY <1>1, <1>2 DEF Init, Divided, AtInit

\* The turn of the loop in THINKING, on what was held back and the chunk.
LEMMA ThinkingStep ==
    ASSUME NEW b \in Text, TypeOK, fed' \in Text, ~flushed, flushed' = flushed,
           Thinks(fed)', Body(fed)' = reasoning \o b, content = << >>,
           \A i : Occurs(reasoning \o b, Close, i) => i > Len(reasoning),
           reasoning # << >> => Len(b) >= Len(Close) - 1,
           InThinking(b)
    PROVE  Divided'
<1> DEFINE r == reasoning
           p == Find(b, Close)
<1>1. r \in Text /\ Len(r) \in Nat /\ Len(b) \in Nat
  BY TextLen DEF TypeOK, Text
<1>2. p \in Nat /\ (p # 0 => Occurs(b, Close, p))
  BY Tags, FindFirst
<1>3. Find(r \o b, Close) = IF p = 0 THEN 0 ELSE Len(r) + p
  BY <1>1, Tags, FindLater
<1> HIDE DEF p
<1>4. End(fed)' = IF p = 0 THEN 0 ELSE Len(r) + p
  BY <1>3 DEF End
<1>5. ChunksDoNotMatter'
  BY DEF ChunksDoNotMatter, TypeOK
<1>6. CASE p > 0
  <2> DEFINE n == p - 1
             d == p - 1 + Len(Close)
             e == EatSeparators(Drop(b, d))
  <2>1. n \in 0..Len(b) /\ d \in 0..Len(b)
    BY <1>1, <1>2, <1>6, Tags DEF Occurs
  <2>2. /\ reasoning' = r \o SubSeq(b, 1, n)
        /\ mode' = "CONTENT" /\ content' = content \o e /\ buf' = << >>
    BY <1>6 DEF InThinking, InContent, p
  <2>3. Len(r) + n = (Len(r) + p) - 1 /\ Len(r) + d = (Len(r) + p) - 1 + Len(Close)
    BY <1>1, <1>2, Tags
  <2>4. End(fed)' = Len(r) + p /\ End(fed)' # 0
    BY <1>1, <1>2, <1>4, <1>6
  <2> HIDE DEF n, d
  <2>5. /\ SubSeq(r \o b, 1, Len(r) + n) = r \o SubSeq(b, 1, n)
        /\ Drop(r \o b, Len(r) + d) = Drop(b, d)
    BY <1>1, <2>1, TakeRight, DropRight
  <2>6. Reasoning(fed)' = reasoning'
    BY <2>2, <2>3, <2>4, <2>5 DEF Reasoning
  <2>7. Content(fed)' = Drop(b, d)
    BY <2>3, <2>4, <2>5 DEF Content
  <2>8. SubSeq(b, 1, n) \in Text /\ Drop(b, d) \in Text
    BY <2>1, Taken, Dropped
  <2>9. e \in Text /\ EatSeparators(e) = e
    BY <2>8, EatTwice
  <2>10. reasoning' \in Text
    BY <1>1, <2>2, <2>8, Joined
  <2>11. content' = e
    BY <2>2, <2>9, Empty
  <2>12. TypeOK'
    BY <2>2, <2>9, <2>10, <2>11, Empty DEF TypeOK, Text
  <2>13. EatSeparators(content)' = EatSeparators(Content(fed))'
    BY <2>7, <2>9, <2>11
  <2>14. AtContent'
    BY <2>2, <2>4, <2>6, <2>13 DEF AtContent
  <2> QED
    BY <1>5, <2>2, <2>12, <2>14 DEF Divided
<1>7. CASE ~(p > 0)
  <2>1. mode' = "THINKING" /\ content' = content
    BY <1>7 DEF InThinking, p
  <2>2. End(fed)' = 0
    BY <1>2, <1>4, <1>7
  <2>3. CASE Len(b) > Len(Close)
    <3> DEFINE safe == Len(b) - (Len(Close) - 1)
    <3>1. reasoning' = r \o SubSeq(b, 1, safe) /\ buf' = Drop(b, safe)
      BY <1>7, <2>3 DEF InThinking, p
    <3>2. safe \in 0..Len(b) /\ Len(b) - safe = Len(Close) - 1
      BY <1>1, <2>3, Tags
    <3> HIDE DEF safe
    <3> DEFINE t == SubSeq(b, 1, safe)
               u == Drop(b, safe)
    <3>3. t \in Text /\ u \in Text /\ Len(u) = Len(b) - safe /\ t \o u = b
      BY <3>2, Taken, Dropped, TakenDropped
    <3> HIDE DEF t, u
    <3>4. reasoning' = r \o t /\ buf' = u
      BY <3>1 DEF t, u
    <3>5. r \o t \in Text /\ (r \o t) \o u = r \o b
      <4>1. r \o t \in Text
        BY <1>1, <3>3, Joined
      <4>2. (r \o t) \o u = r \o (t \o u)
        BY <1>1, <3>3, Associative
      <4> QED
        BY <3>3, <4>1, <4>2
    <3>6. TypeOK'
      BY <2>1, <3>3, <3>4, <3>5 DEF TypeOK, Text
    <3>7. AtThinking'
      BY <2>1, <2>2, <3>2, <3>3, <3>4, <3>5, Tags DEF AtThinking
    <3> QED
      BY <1>5, <2>1, <3>6, <3>7 DEF Divided
  <2>4. CASE ~(Len(b) > Len(Close))
    <3>1. reasoning' = r /\ buf' = b
      BY <1>7, <2>4 DEF InThinking, p
    <3>2. TypeOK'
      BY <2>1, <3>1 DEF TypeOK, Text
    <3>3. Len(b) <= Len(Close)
      BY <1>1, <2>4, Tags
    <3>4. AtThinking'
      BY <2>1, <2>2, <3>1, <3>3 DEF AtThinking
    <3> QED
      BY <1>5, <2>1, <3>2, <3>4 DEF Divided
  <2> QED
    BY <2>3, <2>4
<1> QED
  BY <1>6, <1>7

LEMMA FeedInit ==
    ASSUME Divided, ~flushed, mode = "INIT", NEW c \in Text, feed(c)
    PROVE  Divided'
<1>1. TypeOK /\ AtInit /\ fed \in Text
  BY DEF Divided, TypeOK, Text
<1>2. fed' = fed \o c /\ fed' \in Text /\ flushed' = flushed /\ ~flushed'
  BY <1>1, Joined DEF feed
<1>3. InInit(fed')
  BY <1>1, <1>2 DEF feed, AtInit
<1>4. ChunksDoNotMatter'
  BY <1>2 DEF ChunksDoNotMatter
<1>5. CASE IsStrictPrefix(fed', Open)
  <2>1. buf' = fed' /\ UNCHANGED <<mode, reasoning, content>>
    BY <1>3, <1>5 DEF InInit
  <2>2. TypeOK'
    BY <1>1, <1>2, <2>1 DEF TypeOK, Text
  <2>3. AtInit'
    BY <1>1, <1>5, <2>1 DEF AtInit
  <2> QED
    BY <1>4, <2>1, <2>2, <2>3 DEF Divided
<1>6. CASE ~IsStrictPrefix(fed', Open) /\ IsPrefix(Open, fed')
  <2> DEFINE b == Drop(fed', Len(Open))
  <2>1. InThinking(b)
    BY <1>3, <1>6 DEF InInit
  <2>2. Thinks(fed)' /\ Body(fed)' = b
    BY <1>6 DEF Thinks, Body
  <2>3. b \in Text
    <3>1. Len(fed') \in Nat /\ Len(Open) \in Nat /\ Len(Open) <= Len(fed')
      BY <1>2, <1>6, Tags, TextLen DEF IsPrefix
    <3>2. Len(Open) \in 0..Len(fed')
      BY <3>1
    <3> QED
      BY <1>2, <3>2, Dropped
  <2> HIDE DEF b
  <2>4. reasoning = << >> /\ content = << >> /\ reasoning \o b = b /\ Len(reasoning) = 0
    BY <1>1, <2>3, Empty DEF AtInit
  <2>5. \A i : Occurs(reasoning \o b, Close, i) => i > Len(reasoning)
    BY <2>4 DEF Occurs
  <2> QED
    BY <1>1, <1>2, <2>1, <2>2, <2>3, <2>4, <2>5, ThinkingStep
<1>7. CASE ~IsStrictPrefix(fed', Open) /\ ~IsPrefix(Open, fed')
  <2>1. mode' = "CONTENT" /\ content' = content \o fed' /\ buf' = << >> /\ reasoning' = reasoning
    BY <1>3, <1>7 DEF InInit, InContent
  <2>2. content' = fed' /\ reasoning' = << >>
    BY <1>1, <1>2, <2>1, Empty DEF AtInit
  <2>3. TypeOK'
    BY <1>1, <1>2, <2>1, <2>2, Empty DEF TypeOK, Text
  <2>4. AtContent'
    BY <1>7, <2>1, <2>2 DEF AtContent, Thinks
  <2> QED
    BY <1>4, <2>1, <2>3, <2>4 DEF Divided
<1> QED
  BY <1>5, <1>6, <1>7

LEMMA FeedThinking ==
    ASSUME Divided, ~flushed, mode = "THINKING", NEW c \in Text, feed(c)
    PROVE  Divided'
<1> DEFINE b == buf \o c
           r == reasoning
<1>1. TypeOK /\ AtThinking /\ fed \in Text /\ buf \in Text /\ r \in Text
  BY DEF Divided, TypeOK, Text
<1>2. fed' = fed \o c /\ fed' \in Text /\ flushed' = flushed /\ ~flushed'
  BY <1>1, Joined DEF feed
<1>3. InThinking(b)
  BY DEF feed
<1>4. b \in Text /\ Len(b) = Len(buf) + Len(c)
  BY <1>1, Joined
<1>5. Len(r) \in Nat /\ Len(buf) \in Nat /\ Len(c) \in Nat
  BY <1>1, TextLen
<1>6. Thinks(fed \o c) /\ Body(fed) \in Text /\ Body(fed \o c) = Body(fed) \o c
  BY <1>1, BodyGrows DEF AtThinking
<1>7. Body(fed) = r \o buf /\ Body(fed) \o c = r \o b
  <2>1. Body(fed) = r \o buf
    BY <1>1 DEF AtThinking
  <2>2. (r \o buf) \o c = r \o (buf \o c)
    BY <1>1, Associative
  <2> QED
    BY <2>1, <2>2
<1>8. Thinks(fed)' /\ Body(fed)' = r \o b
  BY <1>2, <1>6, <1>7 DEF Thinks, Body
<1>9. ASSUME NEW i, Occurs(r \o b, Close, i) PROVE i > Len(r)
  <2>1. Occurs(Body(fed) \o c, Close, i) /\ i \in Nat /\ i >= 1
    BY <1>7, <1>9 DEF Occurs
  <2>2. ~Occurs(Body(fed), Close, i)
    BY <1>1, <1>6, Tags, FindFirst DEF AtThinking, End
  <2>3. ~(i + Len(Close) - 1 <= Len(Body(fed)))
    BY <1>6, <2>1, <2>2, Tags, OccursLeft
  <2>4. Len(Body(fed)) = Len(r) + Len(buf)
    BY <1>1, <1>7, Joined
  <2>5. CASE r = << >>
    BY <2>1, <2>5, Empty
  <2>6. CASE r # << >>
    <3>1. Len(buf) >= Len(Close) - 1
      BY <1>1, <2>6 DEF AtThinking
    <3> QED
      BY <1>5, <2>1, <2>3, <2>4, <3>1, Tags
  <2> QED
    BY <2>5, <2>6
<1>10. content = << >> /\ (r # << >> => Len(b) >= Len(Close) - 1)
  BY <1>1, <1>4, <1>5, Tags DEF AtThinking
<1> HIDE DEF b
<1> QED
  BY <1>1, <1>2, <1>3, <1>4, <1>8, <1>9, <1>10, ThinkingStep

LEMMA FeedContent ==
    ASSUME Divided, ~flushed, mode = "CONTENT", NEW c \in Text, feed(c)
    PROVE  Divided'
<1>1. TypeOK /\ AtContent /\ fed \in Text /\ content \in Text
  BY DEF Divided, TypeOK, Text
<1>2. fed' = fed \o c /\ fed' \in Text /\ flushed' = flushed /\ ~flushed'
  BY <1>1, Joined DEF feed
<1>3. /\ mode' = "CONTENT" /\ content' = content \o c /\ buf' = << >>
      /\ reasoning' = reasoning
  <2>1. buf \o c = c
    BY <1>1, Empty DEF AtContent
  <2> QED
    BY <2>1 DEF feed, InContent
<1>4. ChunksDoNotMatter'
  BY <1>2 DEF ChunksDoNotMatter
<1>5. TypeOK'
  <2>1. content' \in Text
    BY <1>1, <1>3, Joined
  <2> QED
    BY <1>1, <1>2, <1>3, <2>1, Empty DEF TypeOK, Text
<1>6. CASE ~Thinks(fed)
  <2>1. ~IsStrictPrefix(fed, Open) /\ reasoning = << >> /\ content = fed
    BY <1>1, <1>6 DEF AtContent
  <2>2. ~IsPrefix(Open, fed \o c) /\ ~IsStrictPrefix(fed \o c, Open)
    BY <1>1, <1>6, <2>1, Tags, PrefixNever DEF Thinks
  <2>3. ~Thinks(fed)'
    BY <1>2, <2>2 DEF Thinks
  <2>4. AtContent'
    BY <1>2, <1>3, <2>1, <2>2, <2>3 DEF AtContent
  <2> QED
    BY <1>3, <1>4, <1>5, <2>4 DEF Divided
<1>7. CASE Thinks(fed)
  <2> DEFINE k == Content(fed)
  <2>1. End(fed) # 0 /\ reasoning = Reasoning(fed) /\ EatSeparators(content) = EatSeparators(k)
    BY <1>1, <1>7 DEF AtContent
  <2>2. /\ End(fed \o c) = End(fed) /\ Reasoning(fed \o c) = Reasoning(fed)
        /\ k \in Text /\ Content(fed \o c) = k \o c
    BY <1>1, <1>7, <2>1, EndGrows
  <2>3. Thinks(fed \o c)
    BY <1>1, <1>7, BodyGrows
  <2> HIDE DEF k
  <2>4. EatSeparators(content \o c) = EatSeparators(k \o c)
    <3>1. EatSeparators(content \o c) =
            IF EatSeparators(content) = << >> THEN EatSeparators(c)
            ELSE EatSeparators(content) \o c
      BY <1>1, EatJoined
    <3>2. EatSeparators(k \o c) =
            IF EatSeparators(k) = << >> THEN EatSeparators(c)
            ELSE EatSeparators(k) \o c
      BY <2>2, EatJoined
    <3> QED
      BY <2>1, <3>1, <3>2
  <2>5. /\ End(fed)' = End(fed \o c) /\ Reasoning(fed)' = Reasoning(fed \o c)
        /\ Content(fed)' = Content(fed \o c) /\ Thinks(fed)' = Thinks(fed \o c)
    BY <1>2 DEF End, Reasoning, Content, Thinks, Body
  <2>6. EatSeparators(content)' = EatSeparators(Content(fed))'
    BY <1>3, <2>2, <2>4, <2>5
  <2>7. AtContent'
    BY <1>3, <2>1, <2>2, <2>3, <2>5, <2>6 DEF AtContent
  <2> QED
    BY <1>3, <1>4, <1>5, <2>7 DEF Divided
<1> QED
  BY <1>6, <1>7

LEMMA FlushStep ==
    ASSUME Divided, flush
    PROVE  Divided'
<1>1. /\ TypeOK /\ ~flushed /\ flushed' = TRUE /\ buf' = << >> /\ mode' = mode /\ fed' = fed
      /\ fed \in Text /\ buf \in Text /\ reasoning \in Text /\ content \in Text
  BY DEF Divided, flush, TypeOK, Text
<1>2. /\ Thinks(fed)' = Thinks(fed) /\ End(fed)' = End(fed)
      /\ Reasoning(fed)' = Reasoning(fed) /\ Content(fed)' = Content(fed)
  BY <1>1 DEF Thinks, End, Reasoning, Content, Body
<1>3. reasoning' \in Text /\ content' \in Text
  BY <1>1, Joined DEF flush
<1>4. TypeOK'
  BY <1>1, <1>3, Empty DEF TypeOK, Text
<1>5. CASE mode = "INIT"
  <2>1. reasoning' = reasoning /\ content' = content \o buf
    BY <1>5 DEF flush
  <2>2. AtInit
    BY <1>1, <1>5 DEF Divided
  <2>3. reasoning' = << >> /\ content' = fed /\ ~Thinks(fed)
    BY <1>1, <2>1, <2>2, Empty, Tags, StrictlyShorter DEF AtInit, Thinks
  <2>4. ChunksDoNotMatter'
    BY <1>1, <1>2, <2>3 DEF ChunksDoNotMatter, Reasoning
  <2> QED
    BY <1>1, <1>4, <2>4 DEF Divided
<1>6. CASE mode = "THINKING"
  <2>1. reasoning' = reasoning \o buf /\ content' = content
    BY <1>6 DEF flush
  <2>2. AtThinking
    BY <1>1, <1>6 DEF Divided
  <2>3. /\ Thinks(fed) /\ Reasoning(fed) = reasoning' /\ Content(fed) = << >>
        /\ content' = << >>
    BY <2>1, <2>2 DEF AtThinking, Reasoning, Content
  <2>4. ChunksDoNotMatter'
    BY <1>1, <1>2, <2>3 DEF ChunksDoNotMatter
  <2> QED
    BY <1>1, <1>4, <2>4 DEF Divided
<1>7. CASE mode = "CONTENT"
  <2>1. reasoning' = reasoning /\ content' = content \o buf
    BY <1>7 DEF flush
  <2>2. AtContent
    BY <1>1, <1>7 DEF Divided
  <2>3. content' = content
    BY <1>1, <2>1, <2>2, Empty DEF AtContent
  <2>4. /\ reasoning' = Reasoning(fed)
        /\ IF Thinks(fed) THEN EatSeparators(content) = EatSeparators(Content(fed))
           ELSE content = fed
    BY <2>1, <2>2 DEF AtContent, Reasoning
  <2>5. ChunksDoNotMatter'
    BY <1>1, <1>2, <2>3, <2>4 DEF ChunksDoNotMatter
  <2> QED
    BY <1>1, <1>4, <2>5 DEF Divided
<1> QED
  BY <1>1, <1>5, <1>6, <1>7 DEF TypeOK

LEMMA DividedStep == Divided /\ [Next]_vars => Divided'
<1> SUFFICES ASSUME Divided, [Next]_vars PROVE Divided'
  OBVIOUS
<1>1. ASSUME NEW c \in Chunks, feed(c) PROVE Divided'
  <2>1. c \in Text /\ ~flushed /\ mode \in {"INIT", "THINKING", "CONTENT"}
    BY <1>1, ChunkText DEF Divided, TypeOK, feed
  <2> QED
    BY <1>1, <2>1, FeedInit, FeedThinking, FeedContent
<1>2. ASSUME UNCHANGED vars PROVE Divided'
  BY <1>2 DEF vars, Divided, TypeOK, AtInit, AtThinking, AtContent, ChunksDoNotMatter,
              Thinks, End, Body, Reasoning, Content
<1> QED
  BY <1>1, <1>2, FlushStep DEF Next

\* Divided holds in every reachable state: what has been emitted, together
\* with what feed() holds back, is always the division of the text so far.
THEOREM Invariance == Spec => []Divided
<1> QED
  BY DividedInit, DividedStep, PTL DEF Spec

\* However a text is cut into the chunks given to feed(), after flush() the
\* reasoning is the text between the tags and the content the text after them,
\* up to the separators in front of it.
THEOREM ChunkingIrrelevant == Spec => []ChunksDoNotMatter
<1>1. Divided => ChunksDoNotMatter
  BY DEF Divided
<1> QED
  BY <1>1, Invariance, PTL

\* What feed() has emitted is never wrong in the light of later text, and it
\* holds back less than an opening tag or at most as much as a closing one.
THEOREM EmitsAtOnce == Spec => []EmitsEarly
<1>1. Divided => EmitsEarly
  <2> SUFFICES ASSUME Divided, ~flushed PROVE EmitsEarly
    BY DEF EmitsEarly
  <2>1. /\ mode \in {"INIT", "THINKING", "CONTENT"}
        /\ fed \in Text /\ buf \in Text /\ reasoning \in Text
    BY DEF Divided, TypeOK, Text
  <2>2. reasoning \o << >> = reasoning
    BY <2>1, Empty
  <2>3. CASE mode = "INIT"
    <3>1. AtInit
      BY <2>3 DEF Divided
    <3>2. Len(fed) < Len(Open) /\ ~Thinks(fed)
      BY <2>1, <3>1, Tags, StrictlyShorter DEF AtInit, Thinks
    <3>3. Len(buf) <= Len(Open) - 1
      BY <2>1, <3>1, <3>2, Tags, TextLen DEF AtInit
    <3>4. Reasoning(fed) = << >> /\ reasoning = << >>
      BY <3>1, <3>2 DEF AtInit, Reasoning
    <3> QED
      BY <2>2, <2>3, <3>3, <3>4 DEF EmitsEarly
  <2>4. CASE mode = "THINKING"
    <3>1. AtThinking
      BY <2>4 DEF Divided
    <3>2. Reasoning(fed) = reasoning \o buf
      BY <3>1 DEF AtThinking, Reasoning
    <3> QED
      BY <2>4, <3>1, <3>2 DEF EmitsEarly, AtThinking
  <2>5. CASE mode = "CONTENT"
    <3>1. AtContent
      BY <2>5 DEF Divided
    <3>2. Reasoning(fed) = reasoning /\ buf = << >> /\ Len(buf) = 0
      BY <3>1, Empty DEF AtContent, Reasoning
    <3> QED
      BY <2>2, <2>5, <3>2 DEF EmitsEarly
  <2> QED
    BY <2>1, <2>3, <2>4, <2>5
<1> QED
  BY <1>1, Invariance, PTL

=============================================================================
