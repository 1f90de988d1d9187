----------------------------- MODULE DataLemmas -----------------------------
(***************************************************************************)
(* What the proofs need of sequences: their elements as a set, and the     *)
(* suffixes of a sequence.  And of the sums that MapThenSumSet and         *)
(* SumFunction make over a finite set: there are such sums, what one       *)
(* summand changes, and that sums of larger summands are larger.           *)
(***************************************************************************)
EXTENDS Integers, Sequences, SequencesExt, FiniteSetTheorems, WellFoundedInduction, TLAPS

\* Sequences and their elements.
LEMMA Elements ==
  ASSUME NEW S, NEW s \in Seq(S)
  PROVE  \A x : x \in ToSet(s) <=> \E i \in 1..Len(s) : s[i] = x
BY DEF ToSet

LEMMA ElementsOfSeq ==
  ASSUME NEW S, NEW s \in Seq(S)
  PROVE  /\ ToSet(s) \subseteq S
         /\ \A e \in S : ToSet(Append(s, e)) = ToSet(s) \cup {e}
         /\ \A t \in Seq(S) : ToSet(s \o t) = ToSet(s) \cup ToSet(t)
<1>1. ToSet(s) \subseteq S
  BY DEF ToSet
<1>2. \A e \in S : ToSet(Append(s, e)) = ToSet(s) \cup {e}
  <2> TAKE e \in S
  <2> DEFINE n == Len(s)
             t == Append(s, e)
  <2>1. Len(t) = n + 1 /\ n \in Nat /\ t[n + 1] = e /\ \A i \in 1..n : t[i] = s[i]
    OBVIOUS
  <2>2. t \in Seq(S)
    OBVIOUS
  <2>4. \A x : x \in ToSet(s) <=> \E i \in 1..n : s[i] = x
    BY Elements
  <2> HIDE DEF n, t
  <2>3. \A x : x \in ToSet(t) <=> \E i \in 1..(n + 1) : t[i] = x
    BY <2>1, <2>2, Elements
  <2>5. \A x : x \in ToSet(t) <=> x \in ToSet(s) \/ x = e
    BY <2>1, <2>3, <2>4
  <2> QED
    BY <2>5 DEF t
<1>3. \A t \in Seq(S) : ToSet(s \o t) = ToSet(s) \cup ToSet(t)
  <2> TAKE t \in Seq(S)
  <2> DEFINE n == Len(s)
             m == Len(t)
             u == s \o t
  <2>1. /\ n \in Nat /\ m \in Nat /\ Len(u) = n + m
        /\ \A i \in 1..n : u[i] = s[i]
        /\ \A i \in 1..m : u[n + i] = t[i]
    OBVIOUS
  <2>2. /\ \A x : x \in ToSet(s) <=> \E i \in 1..n : s[i] = x
        /\ \A x : x \in ToSet(t) <=> \E i \in 1..m : t[i] = x
    BY Elements
  <2>8. u \in Seq(S)
    OBVIOUS
  <2> HIDE DEF n, m, u
  <2>9. \A x : x \in ToSet(u) <=> \E i \in 1..Len(u) : u[i] = x
    BY <2>8, Elements
  <2>3. \A x : x \in ToSet(u) <=> \E i \in 1..(n + m) : u[i] = x
    BY <2>1, <2>9
  <2>4. ASSUME NEW k \in 1..(n + m) PROVE u[k] \in ToSet(s) \cup ToSet(t)
    <3>1. CASE k \in 1..n
      BY <2>1, <2>2, <3>1
    <3>2. CASE k \notin 1..n
      <4>1. k - n \in 1..m /\ u[n + (k - n)] = t[k - n] /\ n + (k - n) = k
        BY <2>1, <3>2
      <4> QED
        BY <2>2, <4>1
    <3> QED
      BY <3>1, <3>2
  <2>5. ASSUME NEW k \in 1..n PROVE s[k] \in ToSet(u)
    <3>1. k \in 1..(n + m) /\ u[k] = s[k]
      BY <2>1
    <3> QED
      BY <2>3, <3>1
  <2>6. ASSUME NEW k \in 1..m PROVE t[k] \in ToSet(u)
    <3>1. n + k \in 1..(n + m) /\ u[n + k] = t[k]
      BY <2>1
    <3> QED
      BY <2>3, <3>1
  <2>7. ToSet(u) = ToSet(s) \cup ToSet(t)
    BY <2>2, <2>3, <2>4, <2>5, <2>6
  <2> QED
    BY <2>7 DEF u
<1> QED
  BY <1>1, <1>2, <1>3

LEMMA HeadAndTail ==
  ASSUME NEW S, NEW s \in Seq(S), s # <<>>
  PROVE  /\ Head(s) \in S /\ Tail(s) \in Seq(S)
         /\ ToSet(s) = {Head(s)} \cup ToSet(Tail(s))
<1> DEFINE n == Len(s)
           t == Tail(s)
<1>1. /\ Head(s) \in S /\ t \in Seq(S) /\ Head(s) = s[1]
      /\ n \in Nat /\ n > 0 /\ Len(t) = n - 1 /\ \A i \in 1..(n - 1) : t[i] = s[i + 1]
  OBVIOUS
<1>7. \A x : x \in ToSet(s) <=> \E i \in 1..n : s[i] = x
  BY Elements
<1> HIDE DEF n, t
<1>2. /\ \A x : x \in ToSet(s) <=> \E i \in 1..n : s[i] = x
      /\ \A x : x \in ToSet(t) <=> \E i \in 1..(n - 1) : t[i] = x
  BY <1>1, <1>7, Elements
<1>3. ASSUME NEW k \in 1..n PROVE s[k] = Head(s) \/ s[k] \in ToSet(t)
  <2>1. CASE k = 1
    BY <1>1, <2>1
  <2>2. CASE k # 1
    <3>1. k - 1 \in 1..(n - 1) /\ t[k - 1] = s[(k - 1) + 1] /\ (k - 1) + 1 = k
      BY <1>1, <2>2
    <3> QED
      BY <1>2, <3>1
  <2> QED
    BY <2>1, <2>2
<1>4. ASSUME NEW k \in 1..(n - 1) PROVE t[k] \in ToSet(s)
  <2>1. k + 1 \in 1..n /\ t[k] = s[k + 1]
    BY <1>1
  <2> QED
    BY <1>2, <2>1
<1>5. Head(s) \in ToSet(s)
  <2>1. 1 \in 1..n
    BY <1>1
  <2> QED
    BY <1>1, <1>2, <2>1
<1>6. ToSet(s) = {Head(s)} \cup ToSet(t)
  BY <1>2, <1>3, <1>4, <1>5
<1> QED
  BY <1>1, <1>6 DEF t

\* A suffix, without the reversals of its definition.
Ends(s, t) == /\ Len(s) <= Len(t)
              /\ \A i \in 1..Len(s) : s[i] = t[Len(t) - Len(s) + i]

LEMMA SuffixByIndex ==
  ASSUME NEW S, NEW s \in Seq(S), NEW t \in Seq(S)
  PROVE  IsSuffix(s, t) <=> Ends(s, t)
<1> DEFINE n == Len(s)
           m == Len(t)
<1>1. n \in Nat /\ m \in Nat
  OBVIOUS
<1>2. Len(Reverse(s)) = n /\ Len(Reverse(t)) = m
  BY DEF Reverse
<1>3. ASSUME n <= m
      PROVE  SubSeq(Reverse(s), 1, n) = SubSeq(Reverse(t), 1, n)
               <=> \A i \in 1..n : s[n - i + 1] = t[m - i + 1]
  <2>1. SubSeq(Reverse(s), 1, n) = [i \in 1..n |-> s[n - i + 1]]
    BY <1>1 DEF Reverse
  <2>2. SubSeq(Reverse(t), 1, n) = [i \in 1..n |-> t[m - i + 1]]
    BY <1>1, <1>3 DEF Reverse
  <2> QED
    BY <2>1, <2>2
<1>4. (\A i \in 1..n : s[n - i + 1] = t[m - i + 1]) <=> (\A i \in 1..n : s[i] = t[m - n + i])
  <2>1. ASSUME \A i \in 1..n : s[n - i + 1] = t[m - i + 1], NEW i \in 1..n
        PROVE  s[i] = t[m - n + i]
    <3>1. /\ n - i + 1 \in 1..n /\ n - (n - i + 1) + 1 = i
          /\ m - (n - i + 1) + 1 = m - n + i
      BY <1>1
    <3>2. s[n - (n - i + 1) + 1] = t[m - (n - i + 1) + 1]
      BY <2>1, <3>1
    <3> QED
      BY <3>1, <3>2
  <2>2. ASSUME \A i \in 1..n : s[i] = t[m - n + i], NEW i \in 1..n
        PROVE  s[n - i + 1] = t[m - i + 1]
    <3>1. n - i + 1 \in 1..n /\ m - n + (n - i + 1) = m - i + 1
      BY <1>1
    <3>2. s[n - i + 1] = t[m - n + (n - i + 1)]
      BY <2>2, <3>1
    <3> QED
      BY <3>1, <3>2
  <2> QED
    BY <2>1, <2>2
<1> QED
  BY <1>1, <1>2, <1>3, <1>4 DEF IsSuffix, IsPrefix, Ends

LEMMA SuffixOfItself ==
  ASSUME NEW S, NEW t \in Seq(S)
  PROVE  IsSuffix(<<>>, t) /\ IsSuffix(t, t)
<1> DEFINE e == <<>>
<1>1. e \in Seq(S) /\ Len(e) = 0 /\ Len(t) \in Nat
  OBVIOUS
<1> HIDE DEF e
<1>2. Ends(e, t) /\ Ends(t, t)
  BY <1>1 DEF Ends
<1>3. IsSuffix(e, t) /\ IsSuffix(t, t)
  BY <1>1, <1>2, SuffixByIndex
<1> QED
  BY <1>3 DEF e

LEMMA SuffixOfConcat ==
  ASSUME NEW S, NEW t \in Seq(S), NEW s \in Seq(S)
  PROVE  IsSuffix(s, t \o s)
<1> DEFINE u == t \o s
<1>1. /\ u \in Seq(S) /\ Len(u) = Len(t) + Len(s) /\ Len(t) \in Nat /\ Len(s) \in Nat
      /\ \A i \in 1..Len(s) : u[Len(t) + i] = s[i]
  OBVIOUS
<1> HIDE DEF u
<1>2. Ends(s, u)
  BY <1>1 DEF Ends
<1>3. IsSuffix(s, u)
  BY <1>1, <1>2, SuffixByIndex
<1> QED
  BY <1>3 DEF u

LEMMA SuffixTail ==
  ASSUME NEW S, NEW t \in Seq(S), NEW s \in Seq(S), IsSuffix(s, t), s # <<>>
  PROVE  IsSuffix(Tail(s), t)
<1> DEFINE r == Tail(s)
<1>1. /\ r \in Seq(S) /\ Len(s) \in Nat \ {0} /\ Len(r) = Len(s) - 1 /\ Len(t) \in Nat
      /\ \A i \in 1..(Len(s) - 1) : r[i] = s[i + 1]
  OBVIOUS
<1> HIDE DEF r
<1>2. Ends(s, t)
  BY SuffixByIndex
<1>3. \A i \in 1..Len(r) : r[i] = t[Len(t) - Len(r) + i]
  <2> TAKE i \in 1..Len(r)
  <2>1. /\ i \in 1..(Len(s) - 1) /\ i + 1 \in 1..Len(s)
        /\ Len(t) - Len(s) + (i + 1) = Len(t) - Len(r) + i
    BY <1>1
  <2> QED
    BY <1>1, <1>2, <2>1 DEF Ends
<1>4. Ends(r, t)
  BY <1>1, <1>2, <1>3 DEF Ends
<1>5. IsSuffix(r, t)
  BY <1>1, <1>4, SuffixByIndex
<1> QED
  BY <1>5 DEF r

\* The entries of a concatenation.
LEMMA ConcatEntries ==
  ASSUME NEW S, NEW s \in Seq(S), NEW t \in Seq(S), NEW u, u = s \o t
  PROVE  /\ u \in Seq(S) /\ Len(u) = Len(s) + Len(t)
         /\ \A i \in 1..Len(s) : u[i] = s[i]
         /\ \A i \in 1..Len(t) : u[Len(s) + i] = t[i]
OBVIOUS

\* A sequence keeps its elements when its entries may be more.
LEMMA SeqOfMore ==
  ASSUME NEW S, NEW e, NEW s \in Seq(S)
  PROVE  s \in Seq(S \cup {e})
OBVIOUS

\* A sequence without repetitions is no longer than what it is made of.
LEMMA DistinctIsShort ==
  ASSUME NEW S, IsFiniteSet(S), NEW s \in Seq(S),
         \A i, j \in 1..Len(s) : s[i] = s[j] => i = j
  PROVE  Len(s) <= Cardinality(S)
<1> DEFINE n == Len(s)
           f == [i \in 1..n |-> s[i]]
<1>1. n \in Nat /\ f \in [1..n -> S] /\ \A i, j \in 1..n : f[i] = f[j] => i = j
  OBVIOUS
<1> HIDE DEF n, f
<1>2. Cardinality(1..n) = n /\ IsFiniteSet(1..n)
  BY <1>1, FS_Interval
<1>3. Cardinality(S) \in Nat
  BY FS_CardinalityType
<1>4. ~(Cardinality(S) < Cardinality(1..n))
  BY <1>1, <1>2, FS_PigeonHole
<1> QED
  BY <1>1, <1>2, <1>3, <1>4 DEF n

-----------------------------------------------------------------------------
\* A set of numbers has a least one.
LEMMA Least ==
  ASSUME NEW N \in SUBSET Nat, N # {}
  PROVE  \E n \in N : \A m \in N : n <= m
<1> DEFINE R == OpToRel(<, Nat)
<1>1. R = {p \in Nat \X Nat : p[1] < p[2]}
  BY Zenon DEF OpToRel
<1>2. IsWellFoundedOn(R, Nat)
  BY NatLessThanWellFounded, Zenon
<1> HIDE DEF R
<1>3. PICK n \in N : \A m \in N : <<m, n>> \notin R
  BY <1>2, WFMin
<1>4. ASSUME NEW m \in N PROVE ~(m < n)
  BY <1>1, <1>3
<1> QED
  BY <1>4

\* The choice that the sums of FiniteSetsExt make.
Some(s) == CHOOSE x \in s : TRUE

LEMMA SomeIsIn == ASSUME NEW s, s # {} PROVE Some(s) \in s
BY DEF Some

\* i sums up f over every subset of S.
Sums(i, f, S) ==
  i = [s \in SUBSET S |-> IF s = {} THEN 0 ELSE f[Some(s)] + i[s \ {Some(s)}]]

LEMMA SmallerSubset ==
  ASSUME NEW S, NEW s \in SUBSET S, IsFiniteSet(S), s # {}
  PROVE  /\ Some(s) \in S /\ s \ {Some(s)} \in SUBSET S
         /\ Cardinality(s) \in Nat \ {0} /\ Cardinality(s \ {Some(s)}) = Cardinality(s) - 1
<1>1. Some(s) \in s
  BY SomeIsIn
<1>2. IsFiniteSet(s)
  BY FS_Subset
<1> QED
  BY <1>1, <1>2, FS_RemoveElement, FS_CardinalityType, FS_EmptySet

\* i sums up f over the subsets of S that have at most n elements.
SumsUpTo(i, f, S, n) ==
  \A s \in SUBSET S : Cardinality(s) <= n =>
     i[s] = IF s = {} THEN 0 ELSE f[Some(s)] + i[s \ {Some(s)}]

\* One more element.
LEMMA OneMoreElement ==
  ASSUME NEW S, NEW f \in [S -> Int], NEW n \in Nat \ {0}, NEW i \in [SUBSET S -> Int],
         IsFiniteSet(S), SumsUpTo(i, f, S, n - 1)
  PROVE  \E j \in [SUBSET S -> Int] : SumsUpTo(j, f, S, n)
<1> DEFINE j == [s \in SUBSET S |-> IF s = {} THEN 0 ELSE f[Some(s)] + i[s \ {Some(s)}]]
<1>1. j \in [SUBSET S -> Int]
  <2>1. ASSUME NEW s \in SUBSET S
        PROVE  (IF s = {} THEN 0 ELSE f[Some(s)] + i[s \ {Some(s)}]) \in Int
    <3>1. CASE s # {}
      <4>1. Some(s) \in S /\ s \ {Some(s)} \in SUBSET S
        BY <3>1, SmallerSubset
      <4>2. f[Some(s)] \in Int /\ i[s \ {Some(s)}] \in Int
        BY <4>1
      <4> QED
        BY <3>1, <4>2
    <3> QED
      BY <3>1
  <2> QED
    BY <2>1
<1>2. ASSUME NEW s \in SUBSET S, Cardinality(s) <= n - 1 PROVE j[s] = i[s]
  BY <1>2 DEF SumsUpTo
<1>3. ASSUME NEW s \in SUBSET S, Cardinality(s) <= n
      PROVE  j[s] = IF s = {} THEN 0 ELSE f[Some(s)] + j[s \ {Some(s)}]
  <2>1. CASE s = {}
    BY <2>1
  <2>2. CASE s # {}
    <3>0. /\ s \ {Some(s)} \in SUBSET S /\ Cardinality(s) \in Nat \ {0}
          /\ Cardinality(s \ {Some(s)}) = Cardinality(s) - 1
      BY <2>2, SmallerSubset
    <3>1. s \ {Some(s)} \in SUBSET S /\ Cardinality(s \ {Some(s)}) <= n - 1
      BY <1>3, <3>0
    <3>2. j[s \ {Some(s)}] = i[s \ {Some(s)}]
      BY <1>2, <3>1
    <3>3. j[s] = f[Some(s)] + i[s \ {Some(s)}]
      BY <2>2
    <3> HIDE DEF j
    <3> QED
      BY <2>2, <3>2, <3>3
  <2> QED
    BY <2>1, <2>2
<1>4. SumsUpTo(j, f, S, n)
  BY <1>3 DEF SumsUpTo
<1> HIDE DEF j
<1> QED
  BY <1>1, <1>4

\* Up to any size there are such sums ...
LEMMA SumsToAnySize ==
  ASSUME NEW S, NEW f \in [S -> Int], NEW n \in Nat, IsFiniteSet(S)
  PROVE  \E i \in [SUBSET S -> Int] : SumsUpTo(i, f, S, n)
<1> DEFINE Bad == {m \in Nat : ~\E i \in [SUBSET S -> Int] : SumsUpTo(i, f, S, m)}
<1>1. SUFFICES ASSUME Bad # {} PROVE FALSE
  OBVIOUS
<1>2. PICK m \in Nat : m \in Bad /\ \A k \in Bad : m <= k
  BY <1>1, Least
<1>3. m # 0
  <2>1. ASSUME NEW s \in SUBSET S, Cardinality(s) <= 0 PROVE s = {}
    <3>1. s # {} => Cardinality(s) \in Nat \ {0}
      BY SmallerSubset
    <3> QED
      BY <2>1, <3>1
  <2>2. SumsUpTo([s \in SUBSET S |-> 0], f, S, 0)
    BY <2>1 DEF SumsUpTo
  <2>3. [s \in SUBSET S |-> 0] \in [SUBSET S -> Int]
    OBVIOUS
  <2> QED
    BY <1>2, <2>2, <2>3
<1>4. m - 1 \in Nat /\ m - 1 \notin Bad
  <2> HIDE DEF Bad
  <2> QED
    BY <1>2, <1>3
<1>5. PICK i \in [SUBSET S -> Int] : SumsUpTo(i, f, S, m - 1)
  BY <1>4
<1> QED
  BY <1>2, <1>3, <1>5, OneMoreElement

\* ... and so there is one for all subsets of a finite set.
LEMMA SumsExist ==
  ASSUME NEW S, NEW f \in [S -> Int], IsFiniteSet(S)
  PROVE  \E i \in [SUBSET S -> Int] : Sums(i, f, S)
<1>1. Cardinality(S) \in Nat /\ \A s \in SUBSET S : Cardinality(s) <= Cardinality(S)
  BY FS_CardinalityType, FS_Subset
<1>2. PICK i \in [SUBSET S -> Int] : SumsUpTo(i, f, S, Cardinality(S))
  BY <1>1, SumsToAnySize
<1>3. \A s \in SUBSET S : i[s] = IF s = {} THEN 0 ELSE f[Some(s)] + i[s \ {Some(s)}]
  BY <1>1, <1>2 DEF SumsUpTo
<1> QED
  BY <1>3 DEF Sums

\* Sums of integers are integers.
LEMMA SumsType ==
  ASSUME NEW S, NEW f \in [S -> Int], NEW i, IsFiniteSet(S), Sums(i, f, S)
  PROVE  i \in [SUBSET S -> Int]
<1> DEFINE Bad == {m \in Nat : \E s \in SUBSET S : Cardinality(s) = m /\ i[s] \notin Int}
<1>1. \A s \in SUBSET S : Cardinality(s) \in Nat
  BY FS_Subset, FS_CardinalityType
<1>2. \A s \in SUBSET S : i[s] = IF s = {} THEN 0 ELSE f[Some(s)] + i[s \ {Some(s)}]
  BY DEF Sums
<1>3. i = [s \in SUBSET S |-> i[s]]
  BY DEF Sums
<1>4. SUFFICES ASSUME Bad # {} PROVE FALSE
  <2>1. CASE Bad = {}
    <3>1. \A s \in SUBSET S : i[s] \in Int
      BY <1>1, <2>1
    <3> QED
      BY <1>3, <3>1
  <2> QED
    BY <1>4, <2>1
<1>5. PICK m \in Bad : \A k \in Bad : m <= k
  BY <1>4, Least
<1>6. PICK s \in SUBSET S : Cardinality(s) = m /\ i[s] \notin Int
  BY <1>5
<1>7. s # {}
  <2> SUFFICES ASSUME s = {} PROVE FALSE
    OBVIOUS
  <2>1. i[s] = 0
    BY <1>2
  <2> QED
    BY <1>6, <2>1
<1>8. /\ Some(s) \in S /\ s \ {Some(s)} \in SUBSET S
      /\ Cardinality(s \ {Some(s)}) = m - 1 /\ m \in Nat \ {0}
  BY <1>6, <1>7, SmallerSubset
<1>9. i[s \ {Some(s)}] \in Int
  <2>1. m - 1 \notin Bad
    BY <1>5, <1>8
  <2> QED
    BY <1>8, <2>1
<1>10. f[Some(s)] \in Int
  BY <1>8
<1>11. i[s] = f[Some(s)] + i[s \ {Some(s)}]
  BY <1>2, <1>6, <1>7
<1> QED
  BY <1>6, <1>9, <1>10, <1>11

\* The same of integers, over a finite set.
IntSums(i, f, S) ==
  IsFiniteSet(S) /\ f \in [S -> Int] /\ i \in [SUBSET S -> Int] /\ Sums(i, f, S)

\* f and g are the same but at t.
SameBut(f, g, S, t) == \A x \in S \ {t} : f[x] = g[x]

\* Where two functions differ in one place, so do their sums.
LEMMA SumsDiffer ==
  ASSUME NEW S, NEW f, NEW g, NEW i, NEW j, NEW t \in S,
         IntSums(i, f, S), IntSums(j, g, S), SameBut(f, g, S, t)
  PROVE  j[S] = i[S] + (g[t] - f[t])
<1> USE DEF IntSums
<1> DEFINE d(s) == IF t \in s THEN g[t] - f[t] ELSE 0
           Bad == {m \in Nat : \E s \in SUBSET S : Cardinality(s) = m /\ j[s] # i[s] + d(s)}
<1>1. \A s \in SUBSET S : Cardinality(s) \in Nat
  BY FS_Subset, FS_CardinalityType
<1>2. SUFFICES ASSUME Bad # {} PROVE FALSE
  <2>1. CASE Bad = {}
    <3>1. Cardinality(S) \in Nat /\ j[S] = i[S] + d(S)
      BY <1>1, <2>1
    <3> QED
      BY <3>1
  <2> QED
    BY <1>2, <2>1
<1>3. PICK m \in Bad : \A k \in Bad : m <= k
  BY <1>2, Least
<1>4. PICK s \in SUBSET S : Cardinality(s) = m /\ j[s] # i[s] + d(s)
  BY <1>3
<1>5. s # {}
  <2> SUFFICES ASSUME s = {} PROVE FALSE
    OBVIOUS
  <2>1. j[s] = 0 /\ i[s] = 0
    BY DEF Sums
  <2>2. d(s) = 0
    OBVIOUS
  <2> HIDE DEF d
  <2> QED
    BY <1>4, <2>1, <2>2
<1> DEFINE x == Some(s)
           r == s \ {x}
<1>6. x \in s /\ r \in SUBSET S /\ Cardinality(r) = m - 1 /\ m \in Nat \ {0}
  BY <1>4, <1>5, SmallerSubset, SomeIsIn
<1>7. j[s] = g[x] + j[r] /\ i[s] = f[x] + i[r]
  BY <1>5 DEF Sums
<1>8. d(r) = IF t \in s /\ t # x THEN g[t] - f[t] ELSE 0
  OBVIOUS
<1> HIDE DEF r, x
<1>9. j[r] = i[r] + d(r)
  <2>1. m - 1 \notin Bad
    BY <1>3, <1>6
  <2> QED
    BY <1>6, <2>1
<1>10. j[s] = i[s] + d(s)
  <2>0. g[x] \in Int /\ f[x] \in Int /\ g[t] \in Int /\ f[t] \in Int /\ i[r] \in Int /\ x \in S
    BY <1>6
  <2>1. CASE x = t
    BY <1>6, <1>7, <1>8, <1>9, <2>0, <2>1
  <2>2. CASE x # t
    BY <1>6, <1>7, <1>8, <1>9, <2>0, <2>2 DEF SameBut
  <2> QED
    BY <2>1, <2>2
<1> QED
  BY <1>4, <1>10

\* Equal functions have equal sums.
LEMMA SumsSame ==
  ASSUME NEW S, NEW f, NEW i, NEW j, IntSums(i, f, S), IntSums(j, f, S)
  PROVE  i[S] = j[S]
<1>1. CASE S = {}
  BY <1>1 DEF Sums, IntSums
<1>2. CASE S # {}
  <2>1. PICK t \in S : TRUE
    BY <1>2
  <2>2. j[S] = i[S] + (f[t] - f[t])
    <3>1. SameBut(f, f, S, t)
      BY DEF SameBut
    <3> QED
      BY <3>1, SumsDiffer
  <2> QED
    BY <2>2 DEF IntSums
<1> QED
  BY <1>1, <1>2

\* A function that is zero everywhere sums up to zero.
LEMMA SumsZero ==
  ASSUME NEW S, NEW f, NEW i \in [SUBSET S -> Int], IsFiniteSet(S),
         \A x \in S : f[x] = 0, Sums(i, f, S)
  PROVE  i[S] = 0
<1> DEFINE Bad == {m \in Nat : \E s \in SUBSET S : Cardinality(s) = m /\ i[s] # 0}
<1>1. \A s \in SUBSET S : Cardinality(s) \in Nat
  BY FS_Subset, FS_CardinalityType
<1>2. SUFFICES ASSUME Bad # {} PROVE FALSE
  BY <1>1
<1>3. PICK m \in Bad : \A k \in Bad : m <= k
  BY <1>2, Least
<1>4. PICK s \in SUBSET S : Cardinality(s) = m /\ i[s] # 0
  BY <1>3
<1>5. s # {}
  BY <1>4 DEF Sums
<1>6. /\ Some(s) \in S /\ s \ {Some(s)} \in SUBSET S
      /\ Cardinality(s \ {Some(s)}) = m - 1 /\ m \in Nat \ {0}
  BY <1>4, <1>5, SmallerSubset
<1>7. i[s] = f[Some(s)] + i[s \ {Some(s)}]
  BY <1>5 DEF Sums
<1>8. i[s \ {Some(s)}] = 0
  <2>1. m - 1 \notin Bad
    BY <1>3, <1>6
  <2> QED
    BY <1>6, <2>1
<1> QED
  BY <1>4, <1>6, <1>7, <1>8

\* The sum over a function is such a sum.
LEMMA FunctionSum ==
  ASSUME NEW S, NEW f \in [S -> Int], IsFiniteSet(S)
  PROVE  \E i : IntSums(i, f, S) /\ SumFunction(f) = i[S]
<1> DEFINE P(i) == i = [s \in SUBSET S |-> IF s = {} THEN 0
                          ELSE f[CHOOSE x \in s : TRUE] + i[s \ {CHOOSE x \in s : TRUE}]]
           it == CHOOSE i : P(i)
<1>1. SumFunction(f) = it[S]
  <2>1. DOMAIN f = S
    OBVIOUS
  <2> QED
    BY <2>1, Zenon DEF SumFunction, SumFunctionOnSet, FoldFunctionOnSet, MapThenFoldSet
<1>2. PICK i \in [SUBSET S -> Int] : Sums(i, f, S)
  BY SumsExist
<1>3. \A j : P(j) <=> Sums(j, f, S)
  BY DEF Sums, Some
<1>4. P(it)
  <2> HIDE DEF P
  <2> QED
    BY <1>2, <1>3, Zenon
<1>5. Sums(it, f, S)
  BY <1>3, <1>4, Zenon
<1> HIDE DEF P, it
<1>6. IntSums(it, f, S)
  BY <1>5, SumsType DEF IntSums
<1> QED
  BY <1>1, <1>6

\* Of two functions the one that is nowhere less has the greater sum.
LEMMA SumsOrdered ==
  ASSUME NEW S, NEW f, NEW g, NEW i, NEW j, IntSums(i, f, S), IntSums(j, g, S),
         \A x \in S : f[x] <= g[x]
  PROVE  i[S] <= j[S]
<1> USE DEF IntSums
<1> DEFINE Bad == {m \in Nat : \E s \in SUBSET S : Cardinality(s) = m /\ ~(i[s] <= j[s])}
<1>1. \A s \in SUBSET S : Cardinality(s) \in Nat
  BY FS_Subset, FS_CardinalityType
<1>2. SUFFICES ASSUME Bad # {} PROVE FALSE
  BY <1>1
<1>3. PICK m \in Bad : \A k \in Bad : m <= k
  BY <1>2, Least
<1>4. PICK s \in SUBSET S : Cardinality(s) = m /\ ~(i[s] <= j[s])
  BY <1>3
<1>5. s # {}
  <2> SUFFICES ASSUME s = {} PROVE FALSE
    OBVIOUS
  <2>1. i[s] = 0 /\ j[s] = 0
    BY DEF Sums
  <2> QED
    BY <1>4, <2>1
<1> DEFINE x == Some(s)
           r == s \ {x}
<1>6. x \in S /\ r \in SUBSET S /\ Cardinality(r) = m - 1 /\ m \in Nat \ {0}
  BY <1>4, <1>5, SmallerSubset
<1>7. i[s] = f[x] + i[r] /\ j[s] = g[x] + j[r]
  BY <1>5 DEF Sums
<1> HIDE DEF r, x
<1>8. i[r] <= j[r]
  <2>1. m - 1 \notin Bad
    BY <1>3, <1>6
  <2> QED
    BY <1>6, <2>1
<1>9. f[x] \in Int /\ g[x] \in Int /\ i[r] \in Int /\ j[r] \in Int /\ f[x] <= g[x]
  BY <1>6
<1> QED
  BY <1>4, <1>7, <1>8, <1>9
=============================================================================
