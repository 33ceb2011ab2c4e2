---------------------------- MODULE ListsAndSums ----------------------------
(***************************************************************************)
(* Numbers, finite sets, lists, loops and sums: what the proofs of the      *)
(* other modules keep needing.                                              *)
(***************************************************************************)
EXTENDS Selection, SequencesExt, SequenceTheorems, FiniteSetTheorems, WellFoundedInduction, TLAPS

\* A set of numbers has a least one.
LEMMA LeastOf ==
    ASSUME NEW T \in SUBSET Nat, T # {}
    PROVE  \E n \in T : \A k \in T : n <= k
<1>1. IsWellFoundedOn(OpToRel(<, Nat), Nat)
  BY NatLessThanWellFounded
<1>2. PICK n \in T : \A k \in T : ~(<<k, n>> \in OpToRel(<, Nat))
  BY <1>1, WFMin
<1>3. \A k \in T : ~(k < n)
  BY <1>2 DEF OpToRel
<1> QED
  BY <1>3

\* Numbers among which 0 is, and with each one the next, are all numbers.
LEMMA Counting ==
    ASSUME NEW P \in SUBSET Nat, 0 \in P, \A n \in P : n + 1 \in P
    PROVE  P = Nat
<1> SUFFICES ASSUME Nat \ P # {}
             PROVE  FALSE
  OBVIOUS
<1>1. PICK n \in Nat \ P : \A k \in Nat \ P : n <= k
  BY LeastOf
<1>2. n # 0 /\ n - 1 \in Nat /\ n - 1 < n
  BY <1>1
<1>3. n - 1 \in P
  BY <1>1, <1>2
<1> QED
  BY <1>1, <1>2, <1>3

\* A finite set of numbers has a greatest one.
LEMMA MostOf ==
    ASSUME NEW T \in SUBSET Nat, IsFiniteSet(T), T # {}
    PROVE  \E n \in T : \A k \in T : k <= n
<1> DEFINE Has(S) == \E n \in S : \A k \in S : k <= n
           P == {c \in Nat : \A S \in SUBSET Nat : IsFiniteSet(S) /\ S # {} /\ Cardinality(S) <= c => Has(S)}
<1>1. 0 \in P
  BY FS_EmptySet, FS_CardinalityType
<1>2. ASSUME NEW c \in P
      PROVE  c + 1 \in P
  <2> SUFFICES ASSUME NEW S \in SUBSET Nat, IsFiniteSet(S), S # {}, Cardinality(S) <= c + 1
               PROVE  Has(S)
    BY <1>2
  <2>1. PICK x \in S : TRUE
    OBVIOUS
  <2>2. IsFiniteSet(S \ {x}) /\ Cardinality(S \ {x}) <= c
    <3>1. IsFiniteSet(S \ {x}) /\ Cardinality(S \ {x}) = Cardinality(S) - 1 /\ Cardinality(S) \in Nat
      BY <2>1, FS_RemoveElement, FS_CardinalityType
    <3>2. c \in Nat
      BY <1>2
    <3> QED
      BY <3>1, <3>2
  <2>3. CASE S \ {x} = {}
    BY <2>1, <2>3
  <2>4. CASE S \ {x} # {}
    <3>1. PICK n \in S \ {x} : \A k \in S \ {x} : k <= n
      BY <2>2, <2>4, <1>2
    <3>2. CASE n <= x
      BY <2>1, <3>1, <3>2
    <3>3. CASE ~(n <= x)
      BY <2>1, <3>1, <3>3
    <3> QED
      BY <3>2, <3>3
  <2> QED
    BY <2>3, <2>4
<1> HIDE DEF Has, P
<1>3. P = Nat
  <2>1. P \in SUBSET Nat
    BY DEF P
  <2> QED
    BY <1>1, <1>2, <2>1, Counting
<1>4. Cardinality(T) \in P
  BY <1>3, FS_CardinalityType
<1> QED
  BY <1>4, FS_CardinalityType DEF P, Has

\* The values that a finite set is mapped to.
Values(f, S) == {f[x] : x \in S}

\* A function has no more values than arguments.
LEMMA ValuesOf ==
    ASSUME NEW S, IsFiniteSet(S), NEW f
    PROVE  IsFiniteSet(Values(f, S)) /\ Cardinality(Values(f, S)) <= Cardinality(S)
<1> DEFINE T == Values(f, S)
           g == [x \in S |-> f[x]]
<1>1. g \in Surjection(S, T)
  BY DEF Surjection, Values
<1> QED
  BY <1>1, FS_Surjection

\* The values of a function on a finite set.
LEMMA ValuesIn ==
    ASSUME NEW S, IsFiniteSet(S), NEW f, NEW T, \A x \in S : f[x] \in T
    PROVE  IsFiniteSet(Values(f, S)) /\ Values(f, S) \subseteq T
<1>1. IsFiniteSet(Values(f, S))
  BY ValuesOf
<1> QED
  BY <1>1 DEF Values

-----------------------------------------------------------------------------
(* Lists.                                                                  *)

\* A sequence, of whatever it may be.
Sequential(s) == \E S : s \in Seq(S)

\* The places of a sequence.
LEMMA Places ==
    ASSUME NEW s, Sequential(s)
    PROVE  Len(s) \in Nat /\ DOMAIN s = 1..Len(s)
  BY LenProperties DEF Sequential

\* The lengths of sequences, whatever they are of.
LEMMA Lengths ==
    ASSUME NEW s, Sequential(s)
    PROVE  Len(s) \in Nat /\ DOMAIN s = 1..Len(s) /\ (s = <<>> <=> Len(s) = 0)
<1>1. PICK S : s \in Seq(S)
  BY DEF Sequential
<1> QED
  BY <1>1, LenProperties, EmptySeq

\* Where two intervals are the same, so are their lengths.
LEMMA SameLength ==
    ASSUME NEW m \in Nat, NEW n \in Nat, 1..m = 1..n
    PROVE  m = n
<1>1. m <= n
  <2>1. CASE m = 0
    BY <2>1
  <2>2. CASE m > 0
    BY <2>2
  <2> QED
    BY <2>1, <2>2
<1>2. n <= m
  <2>1. CASE n = 0
    BY <2>1
  <2>2. CASE n > 0
    BY <2>2
  <2> QED
    BY <2>1, <2>2
<1> QED
  BY <1>1, <1>2

\* A function of the first n numbers is a list of n things.
LEMMA Listed ==
    ASSUME NEW n \in Nat, NEW f, f = [i \in 1..n |-> f[i]]
    PROVE  Sequential(f) /\ Len(f) = n
<1> DEFINE S == {f[i] : i \in 1..n}
<1>1. f \in [1..n -> S]
  OBVIOUS
<1>2. f \in Seq(S)
  BY <1>1, SeqDef
<1>3. Len(f) \in Nat /\ DOMAIN f = 1..Len(f) /\ DOMAIN f = 1..n
  BY <1>1, <1>2, LenProperties
<1>4. Len(f) = n
  <2> DEFINE k == Len(f)
  <2>1. k \in Nat /\ 1..k = 1..n
    BY <1>3
  <2> HIDE DEF k
  <2>2. k = n
    BY <2>1, SameLength
  <2> QED
    BY <2>2 DEF k
<1> QED
  BY <1>2, <1>4 DEF Sequential

\* A list is one of its members.
LEMMA OfItsMembers ==
    ASSUME NEW s, Sequential(s)
    PROVE  s \in Seq(ToSet(s))
<1>1. PICK S : s \in Seq(S)
  BY DEF Sequential
<1>2. Len(s) \in Nat /\ s \in [1..Len(s) -> S]
  BY <1>1, LenProperties
<1> DEFINE n == Len(s)
<1> HIDE DEF n
<1>3. n \in Nat /\ s \in [1..n -> ToSet(s)]
  BY <1>2 DEF n, ToSet
<1> QED
  BY <1>3, SeqDef

\* Appending to a sequence.
LEMMA Appending ==
    ASSUME NEW s, Sequential(s), NEW x
    PROVE  /\ Sequential(Append(s, x))
           /\ Len(s) \in Nat /\ DOMAIN s = 1..Len(s)
           /\ DOMAIN Append(s, x) = 1..Len(Append(s, x))
           /\ Len(Append(s, x)) = Len(s) + 1
           /\ Append(s, x)[Len(s) + 1] = x
           /\ Last(Append(s, x)) = x
           /\ \A i \in 1..Len(s) : Append(s, x)[i] = s[i]
<1>1. PICK S : s \in Seq(S)
  BY DEF Sequential
<1>2. s \in Seq(S \cup {x}) /\ x \in S \cup {x}
  BY <1>1, SeqMonotonic
<1> DEFINE t == Append(s, x)
<1>3. /\ t \in Seq(S \cup {x}) /\ Len(s) \in Nat /\ Len(t) = Len(s) + 1
      /\ DOMAIN s = 1..Len(s) /\ DOMAIN t = 1..Len(t)
      /\ \A i \in 1..Len(s) : t[i] = s[i]
      /\ t[Len(s) + 1] = x
  BY <1>2, AppendProperties
<1> QED
  BY <1>3 DEF Sequential, Last

\* Taking the head off a sequence.
LEMMA Heading ==
    ASSUME NEW s, Sequential(s), s # <<>>
    PROVE  /\ Len(s) \in Nat \ {0} /\ Head(s) = s[1]
           /\ Sequential(Tail(s)) /\ Len(Tail(s)) = Len(s) - 1
           /\ \A i \in 1..Len(Tail(s)) : Tail(s)[i] = s[i + 1]
<1>1. PICK S : s \in Seq(S)
  BY DEF Sequential
<1>2. Len(s) \in Nat \ {0} /\ Head(s) = s[1]
  BY <1>1, EmptySeq, LenProperties
<1>3. /\ Tail(s) \in Seq(S) /\ Len(Tail(s)) = Len(s) - 1
      /\ \A i \in 1..Len(Tail(s)) : Tail(s)[i] = s[i + 1]
  BY <1>1, <1>2, HeadTailProperties
<1> QED
  BY <1>2, <1>3 DEF Sequential

\* The members of two sequences joined.
LEMMA Joining ==
    ASSUME NEW s, NEW t, Sequential(s), Sequential(t)
    PROVE  /\ Sequential(s \o t) /\ Len(s \o t) = Len(s) + Len(t)
           /\ \A i \in DOMAIN (s \o t) :
                 \/ i \in DOMAIN s /\ (s \o t)[i] = s[i]
                 \/ i \notin DOMAIN s /\ i - Len(s) \in DOMAIN t /\ (s \o t)[i] = t[i - Len(s)]
<1>1. PICK S : s \in Seq(S)
  BY DEF Sequential
<1>2. PICK T : t \in Seq(T)
  BY DEF Sequential
<1>3. s \in Seq(S \cup T) /\ t \in Seq(S \cup T)
  BY <1>1, <1>2, SeqMonotonic
<1> DEFINE u == s \o t
<1>4. /\ u \in Seq(S \cup T) /\ Len(u) = Len(s) + Len(t)
      /\ \A i \in 1..Len(s) + Len(t) : u[i] = IF i <= Len(s) THEN s[i] ELSE t[i - Len(s)]
  BY <1>3, ConcatProperties
<1>5. /\ Len(s) \in Nat /\ Len(t) \in Nat /\ DOMAIN s = 1..Len(s) /\ DOMAIN t = 1..Len(t)
      /\ DOMAIN u = 1..Len(s) + Len(t)
  BY <1>3, <1>4, LenProperties
<1>6. Sequential(u)
  BY <1>4 DEF Sequential
<1> HIDE DEF u
<1>7. \A i \in DOMAIN u : \/ i \in DOMAIN s /\ u[i] = s[i]
                          \/ i \notin DOMAIN s /\ i - Len(s) \in DOMAIN t /\ u[i] = t[i - Len(s)]
  BY <1>4, <1>5
<1> QED
  BY <1>4, <1>6, <1>7 DEF u

\* A finite set is the list of its members.
LEMMA ListOfSet ==
    ASSUME NEW S, IsFiniteSet(S)
    PROVE  Sequential(SetToSeq(S)) /\ ToSet(SetToSeq(S)) = S
<1> DEFINE n == Cardinality(S)
           f == SetToSeq(S)
<1>1. n \in Nat /\ ExistsBijection(1..n, S)
  BY FS_CardinalityType
<1>2. \E g \in [1..n -> S] : IsInjective(g)
  BY <1>1 DEF ExistsBijection, Bijection, Injection
<1>3. f \in [1..n -> S] /\ IsInjective(f)
  BY <1>2 DEF SetToSeq
<1> HIDE DEF f, n
<1>4. Sequential(f)
  <2>1. f = [i \in 1..n |-> f[i]]
    BY <1>3
  <2> QED
    BY <1>1, <2>1, Listed
<1> DEFINE I == 1..n
<1>5. IsFiniteSet(I) /\ Cardinality(I) = n
  <2> DEFINE z == 1
  <2>1. z \in Int /\ n \in Int /\ z = 1
    BY <1>1
  <2> HIDE DEF z
  <2>2. IsFiniteSet(z..n) /\ Cardinality(z..n) = IF z > n THEN 0 ELSE n - z + 1
    BY <2>1, FS_Interval
  <2> QED
    BY <1>1, <2>1, <2>2
<1>6. f \in Injection(I, S)
  BY <1>3 DEF Injection
<1>7. \A x \in S : \E i \in I : f[i] = x
  <2> HIDE DEF I
  <2>1. f \in Surjection(I, S)
    BY <1>5, <1>6, FS_Injection DEF n
  <2> QED
    BY <2>1 DEF Surjection
<1>8. DOMAIN f = I /\ \A i \in I : f[i] \in S
  BY <1>3
<1>9. ToSet(f) = S
  <2> HIDE DEF I
  <2> QED
    BY <1>7, <1>8 DEF ToSet
<1> QED
  BY <1>4, <1>9 DEF f

-----------------------------------------------------------------------------
(* What is chosen of a list.                                               *)

\* Ranked lists the members of a finite set of integers, each once, from the
\* least to the greatest.
LEMMA RankedLists ==
    ASSUME NEW S \in SUBSET Int, IsFiniteSet(S)
    PROVE  /\ Cardinality(S) \in Nat
           /\ Ranked(S) \in [1..Cardinality(S) -> S]
           /\ \A i \in S : \E n \in 1..Cardinality(S) : Ranked(S)[n] = i
           /\ \A n, m \in 1..Cardinality(S) : n < m <=> Ranked(S)[n] < Ranked(S)[m]
<1> DEFINE c == Cardinality(S)
           rank == [i \in S |-> Cardinality(UpTo(S, i))]
<1>1. c \in Nat
  BY FS_CardinalityType
<1>2. \A i \in S : IsFiniteSet(UpTo(S, i)) /\ rank[i] \in 1..c
  <2> SUFFICES ASSUME NEW i \in S
               PROVE  IsFiniteSet(UpTo(S, i)) /\ rank[i] \in 1..c
    OBVIOUS
  <2>1. UpTo(S, i) \subseteq S /\ i \in UpTo(S, i)
    BY DEF UpTo
  <2>2. IsFiniteSet(UpTo(S, i)) /\ Cardinality(UpTo(S, i)) <= c
    BY <2>1, FS_Subset
  <2>3. Cardinality(UpTo(S, i)) \in Nat /\ Cardinality(UpTo(S, i)) # 0
    BY <2>1, <2>2, FS_EmptySet, FS_CardinalityType
  <2>4. rank[i] = Cardinality(UpTo(S, i))
    OBVIOUS
  <2> HIDE DEF rank, c
  <2> QED
    BY <2>2, <2>3, <2>4, <1>1
<1>3. \A i, k \in S : i < k => rank[i] < rank[k]
  <2> SUFFICES ASSUME NEW i \in S, NEW j \in S, i < j
               PROVE  rank[i] < rank[j]
    OBVIOUS
  <2>0. i \in Int /\ j \in Int /\ \A h \in S : h \in Int
    OBVIOUS
  <2>1. UpTo(S, i) \subseteq UpTo(S, j) /\ j \in UpTo(S, j) /\ j \notin UpTo(S, i)
    <3>1. j <= j /\ ~(j <= i) /\ \A h \in S : h <= i => h <= j
      BY <2>0
    <3> QED
      BY <3>1, Zenon DEF UpTo
  <2>2. Cardinality(UpTo(S, i)) <= Cardinality(UpTo(S, j)) /\ Cardinality(UpTo(S, i)) # Cardinality(UpTo(S, j))
    BY <2>1, <1>2, FS_Subset
  <2>3. rank[i] = Cardinality(UpTo(S, i)) /\ rank[j] = Cardinality(UpTo(S, j))
    OBVIOUS
  <2>4. rank[i] \in 1..c /\ rank[j] \in 1..c
    BY <1>2
  <2> HIDE DEF rank, c
  <2> QED
    BY <2>2, <2>3, <2>4, <1>1
<1>4. rank \in Surjection(S, 1..c)
  <2>1. rank \in Injection(S, 1..c)
    <3>1. rank \in [S -> 1..c]
      BY <1>2
    <3>2. \A i, k \in S : rank[i] = rank[k] => i = k
      <4> SUFFICES ASSUME NEW i \in S, NEW k \in S, rank[i] = rank[k]
                   PROVE  i = k
        OBVIOUS
      <4>1. i \in Int /\ k \in Int /\ rank[i] \in Int /\ rank[k] \in Int
        BY <3>1
      <4> HIDE DEF rank
      <4> QED
        BY <4>1, <1>3
    <3> HIDE DEF rank
    <3> QED
      BY <3>1, <3>2 DEF Injection, IsInjective
  <2>2. IsFiniteSet(1..c) /\ Cardinality(1..c) = c
    BY <1>1, FS_Interval
  <2> HIDE DEF rank
  <2> QED
    BY <2>1, <2>2, FS_Injection
<1>5. \A n \in 1..c : Ranked(S)[n] \in S /\ rank[Ranked(S)[n]] = n
  <2> SUFFICES ASSUME NEW n \in 1..c
               PROVE  Ranked(S)[n] \in S /\ rank[Ranked(S)[n]] = n
    OBVIOUS
  <2>1. \E i \in S : Cardinality(UpTo(S, i)) = n
    BY <1>4 DEF Surjection
  <2>2. Ranked(S)[n] = CHOOSE i \in S : Cardinality(UpTo(S, i)) = n
    BY DEF Ranked, Nth
  <2>3. Ranked(S)[n] \in S /\ Cardinality(UpTo(S, Ranked(S)[n])) = n
    BY <2>1, <2>2
  <2> QED
    BY <2>3
<1>6. \A n \in 1..c : Ranked(S)[n] = Nth(S, n)
  BY DEF Ranked
<1>7. Ranked(S) \in [1..c -> S]
  BY <1>5, <1>6 DEF Ranked
<1>0. \A j \in S : j \in Int
  OBVIOUS
<1> HIDE DEF rank, c
<1>8. \A i \in S : \E n \in 1..c : Ranked(S)[n] = i
  <2> SUFFICES ASSUME NEW i \in S
               PROVE  \E n \in 1..c : Ranked(S)[n] = i
    OBVIOUS
  <2>1. rank[i] \in 1..c
    BY <1>2
  <2>2. Ranked(S)[rank[i]] \in S /\ rank[Ranked(S)[rank[i]]] = rank[i]
    BY <2>1, <1>5
  <2>3. ~(Ranked(S)[rank[i]] < i) /\ ~(i < Ranked(S)[rank[i]])
    <3>1. rank[i] \in Int
      BY <2>1, <1>1
    <3>2. \A k \in S : rank[k] = rank[i] => ~(k < i) /\ ~(i < k)
      BY <3>1, <1>3
    <3> QED
      BY <3>2, <2>2
  <2>4. i \in Int /\ Ranked(S)[rank[i]] \in Int
    BY <2>2, <1>0
  <2> QED
    BY <2>1, <2>2, <2>3, <2>4
<1>9. \A n, m \in 1..c : n < m <=> Ranked(S)[n] < Ranked(S)[m]
  <2> SUFFICES ASSUME NEW n \in 1..c, NEW m \in 1..c
               PROVE  n < m <=> Ranked(S)[n] < Ranked(S)[m]
    OBVIOUS
  <2>1. Ranked(S)[n] \in S /\ Ranked(S)[m] \in S /\ rank[Ranked(S)[n]] = n /\ rank[Ranked(S)[m]] = m
    BY <1>5
  <2>2. Ranked(S)[n] < Ranked(S)[m] => n < m
    BY <2>1, <1>3
  <2>3. Ranked(S)[m] < Ranked(S)[n] => m < n
    BY <2>1, <1>3
  <2>4. Ranked(S)[n] = Ranked(S)[m] => n = m
    BY <2>1
  <2>5. Ranked(S)[n] \in Int /\ Ranked(S)[m] \in Int
    BY <2>1, <1>0
  <2>6. n \in Int /\ m \in Int
    BY <1>1
  <2> QED
    BY <2>1, <2>2, <2>3, <2>4, <2>5, <2>6
<1> QED
  BY <1>1, <1>7, <1>8, <1>9 DEF c

\* Chosen is a list of as many elements as there are positions, and has the
\* element of each of them.
LEMMA ChosenLists ==
    ASSUME NEW s, NEW S \in SUBSET Int, IsFiniteSet(S)
    PROVE  /\ Len(Chosen(s, S)) = Cardinality(S) /\ Cardinality(S) \in Nat
           /\ DOMAIN Chosen(s, S) = 1..Cardinality(S)
           /\ \A n \in DOMAIN Chosen(s, S) : Chosen(s, S)[n] = s[Ranked(S)[n]] /\ Ranked(S)[n] \in S
           /\ \A i \in S : \E n \in DOMAIN Chosen(s, S) : Ranked(S)[n] = i /\ Chosen(s, S)[n] = s[i]
           /\ \A n, m \in DOMAIN Chosen(s, S) : n < m <=> Ranked(S)[n] < Ranked(S)[m]
<1>1. DOMAIN Chosen(s, S) = 1..Cardinality(S) /\ \A n \in 1..Cardinality(S) : Chosen(s, S)[n] = s[Ranked(S)[n]]
  BY DEF Chosen
<1>2. Cardinality(S) \in Nat
  BY RankedLists
<1>3. Len(Chosen(s, S)) = Cardinality(S)
  BY <1>1, <1>2
<1> QED
  BY <1>1, <1>2, <1>3, RankedLists

\* What is chosen of a list is a list of the same things.
LEMMA ChosenOfList ==
    ASSUME NEW T, NEW s \in Seq(T), NEW S, S \subseteq DOMAIN s
    PROVE  /\ S \in SUBSET Int /\ IsFiniteSet(S)
           /\ Chosen(s, S) \in Seq(T)
<1>1. DOMAIN s = 1..Len(s) /\ Len(s) \in Nat
  OBVIOUS
<1>2. IsFiniteSet(DOMAIN s)
  BY <1>1, FS_Interval
<1>3. S \in SUBSET Int /\ IsFiniteSet(S)
  BY <1>1, <1>2, FS_Subset
<1>4. \A n \in DOMAIN Chosen(s, S) : Chosen(s, S)[n] \in T
  BY <1>1, <1>3, ChosenLists
<1>5. Chosen(s, S) = [n \in 1..Cardinality(S) |-> Chosen(s, S)[n]]
  <2>1. \A n \in 1..Cardinality(S) : Chosen(s, S)[n] = s[Ranked(S)[n]]
    BY DEF Chosen
  <2> QED
    BY <2>1, Zenon DEF Chosen
<1>6. Cardinality(S) \in Nat /\ DOMAIN Chosen(s, S) = 1..Cardinality(S)
  BY <1>3, ChosenLists
<1> QED
  BY <1>3, <1>4, <1>5, <1>6

\* The elements of t are at distinct places of s.
Extracted(t, s) ==
    /\ Sequential(t)
    /\ \A n \in DOMAIN t : \E i \in DOMAIN s : t[n] = s[i]
    /\ \A n, m \in DOMAIN t : n # m => \E i, k \in DOMAIN s : i # k /\ t[n] = s[i] /\ t[m] = s[k]

\* What is chosen of a list is extracted from it.
LEMMA ChosenIsExtracted ==
    ASSUME NEW s, Sequential(s), NEW S, S \subseteq DOMAIN s
    PROVE  /\ Extracted(Chosen(s, S), s)
           /\ \A n \in DOMAIN Chosen(s, S) : \E i \in S : Chosen(s, S)[n] = s[i]
           /\ \A n, m \in DOMAIN Chosen(s, S) : n # m =>
                 \E i, k \in S : i # k /\ Chosen(s, S)[n] = s[i] /\ Chosen(s, S)[m] = s[k]
<1>1. PICK T : s \in Seq(T)
  BY DEF Sequential
<1>2. S \in SUBSET Int /\ IsFiniteSet(S) /\ Chosen(s, S) \in Seq(T)
  BY <1>1, ChosenOfList
<1>3. /\ DOMAIN Chosen(s, S) = 1..Cardinality(S) /\ Cardinality(S) \in Nat
      /\ \A n \in DOMAIN Chosen(s, S) : Chosen(s, S)[n] = s[Ranked(S)[n]] /\ Ranked(S)[n] \in S
      /\ \A n, m \in DOMAIN Chosen(s, S) : n < m <=> Ranked(S)[n] < Ranked(S)[m]
  BY <1>2, ChosenLists
<1>4. \A n, m \in DOMAIN Chosen(s, S) : n # m => Ranked(S)[n] # Ranked(S)[m]
  <2> SUFFICES ASSUME NEW n \in DOMAIN Chosen(s, S), NEW m \in DOMAIN Chosen(s, S), n # m,
                      Ranked(S)[n] = Ranked(S)[m]
               PROVE  FALSE
    OBVIOUS
  <2>1. n \in Nat /\ m \in Nat /\ Ranked(S)[n] \in Int
    BY <1>2, <1>3
  <2>2. ~(n < m) /\ ~(m < n)
    BY <1>3, <2>1
  <2> QED
    BY <2>1, <2>2
<1>5. /\ \A n \in DOMAIN Chosen(s, S) : \E i \in S : Chosen(s, S)[n] = s[i]
      /\ \A n, m \in DOMAIN Chosen(s, S) : n # m =>
                 \E i, k \in S : i # k /\ Chosen(s, S)[n] = s[i] /\ Chosen(s, S)[m] = s[k]
  BY <1>3, <1>4
<1>6. Sequential(Chosen(s, S))
  BY <1>2 DEF Sequential
<1> QED
  BY <1>5, <1>6 DEF Extracted

-----------------------------------------------------------------------------
(* What a loop makes of a value.                                           *)

\* The values of a loop of N steps.
Iterates(f, N, x, step) == f[0] = x /\ \A k \in 1..N : f[k] = step[k][f[k - 1]]

\* A loop of N steps over the members of D has a value after each step.
LEMMA Looping ==
    ASSUME NEW D, NEW x \in D, NEW N \in Nat, NEW step \in [1..N -> [D -> D]]
    PROVE  \E f : f \in [0..N -> D] /\ Iterates(f, N, x, step)
<1> DEFINE Upto(n, f) == f \in [0..n -> D] /\ f[0] = x /\ \A k \in 1..n : f[k] = step[k][f[k - 1]]
           P == {n \in Nat : n <= N => \E f : Upto(n, f)}
<1>1. 0 \in P
  <2> DEFINE f == [k \in 0..0 |-> x]
  <2>1. Upto(0, f)
    OBVIOUS
  <2> HIDE DEF f
  <2> QED
    BY <2>1
<1>2. ASSUME NEW n \in P
      PROVE  n + 1 \in P
  <2> SUFFICES ASSUME n + 1 <= N
               PROVE  \E f : Upto(n + 1, f)
    OBVIOUS
  <2>1. PICK f : Upto(n, f)
    OBVIOUS
  <2> DEFINE h == [k \in 0..(n + 1) |-> IF k <= n THEN f[k] ELSE step[n + 1][f[n]]]
  <2>2. n + 1 \in 1..N /\ f[n] \in D
    BY <2>1
  <2>3. step[n + 1][f[n]] \in D
    BY <2>2
  <2>4. h \in [0..(n + 1) -> D] /\ h[0] = x
    BY <2>1, <2>3
  <2>5. \A k \in 1..(n + 1) : h[k] = step[k][h[k - 1]]
    <3> SUFFICES ASSUME NEW k \in 1..(n + 1)
                 PROVE  h[k] = step[k][h[k - 1]]
      OBVIOUS
    <3>1. k - 1 \in 0..(n + 1) /\ k - 1 <= n /\ h[k - 1] = f[k - 1]
      OBVIOUS
    <3>2. CASE k <= n
      BY <2>1, <3>1, <3>2
    <3>3. CASE k = n + 1
      <4>1. h[k] = step[n + 1][f[n]] /\ f[k - 1] = f[n]
        BY <3>3
      <4> HIDE DEF h
      <4> QED
        BY <3>1, <3>3, <4>1
    <3> QED
      BY <3>2, <3>3
  <2> HIDE DEF h
  <2> QED
    BY <2>4, <2>5
<1>3. P = Nat
  <2> HIDE DEF P
  <2>1. P \in SUBSET Nat
    BY DEF P
  <2> QED
    BY <1>1, <1>2, <2>1, Counting
<1>4. N \in P
  BY <1>3
<1>5. PICK f : Upto(N, f)
  BY <1>4
<1>6. Iterates(f, N, x, step)
  BY <1>5 DEF Iterates
<1> QED
  BY <1>5, <1>6

\* What the first value has and each step keeps, the last value has.
LEMMA KeptByLoop ==
    ASSUME NEW N \in Nat, NEW S \in SUBSET Nat, 0 \in S, \A k \in S : k < N => k + 1 \in S
    PROVE  N \in S
<1> DEFINE P == {n \in Nat : n <= N => n \in S}
<1>1. 0 \in P /\ \A n \in P : n + 1 \in P
  OBVIOUS
<1>2. P = Nat
  <2> HIDE DEF P
  <2>1. P \in SUBSET Nat
    BY DEF P
  <2> QED
    BY <1>1, <2>1, Counting
<1> QED
  BY <1>2

-----------------------------------------------------------------------------
(* The sums of the community modules.  SumFunctionOnSet folds by a recursion *)
(* over the subsets of its index set, in an order that nobody knows.  The    *)
(* function that it recurs by exists (Recurs), it is the only one (Agrees),  *)
(* and so a sum is any of its terms and the sum of the rest (SumTakesOut).   *)

\* One unfolding of the recursion, over the subsets of S.
Unfolded(f, S, g) ==
    [s \in SUBSET S |-> IF s = {} THEN 0 ELSE LET x == CHOOSE y \in s : TRUE IN f[x] + g[s \ {x}]]

\* A sum is what a function that is its own unfolding has at the whole set.
LEMMA SumIsFolded ==
    ASSUME NEW f, NEW S
    PROVE  SumFunctionOnSet(f, S) = (CHOOSE g : g = Unfolded(f, S, g))[S]
BY DEF SumFunctionOnSet, FoldFunctionOnSet, MapThenFoldSet, Unfolded

\* Taking the chosen element out of a set.
LEMMA ChosenOut ==
    ASSUME NEW s, IsFiniteSet(s), s # {}
    PROVE  LET x == CHOOSE y \in s : TRUE
           IN  /\ x \in s /\ IsFiniteSet(s \ {x})
               /\ Cardinality(s) \in Nat /\ Cardinality(s \ {x}) \in Nat
               /\ Cardinality(s) = Cardinality(s \ {x}) + 1
<1> DEFINE x == CHOOSE y \in s : TRUE
<1>1. x \in s
  OBVIOUS
<1> HIDE DEF x
<1>2. IsFiniteSet(s \ {x}) /\ Cardinality(s \ {x}) = Cardinality(s) - 1
  BY <1>1, FS_RemoveElement
<1>3. Cardinality(s) \in Nat /\ Cardinality(s \ {x}) \in Nat
  BY <1>2, FS_CardinalityType
<1> QED
  BY <1>1, <1>2, <1>3 DEF x

\* There is such a function.
LEMMA Recurs ==
    ASSUME NEW f, NEW S, IsFiniteSet(S)
    PROVE  \E g : g = Unfolded(f, S, g)
<1> DEFINE Right(g, n) == /\ DOMAIN g = SUBSET S
                          /\ g = [s \in SUBSET S |-> g[s]]
                          /\ \A s \in SUBSET S : Cardinality(s) <= n => g[s] = Unfolded(f, S, g)[s]
           P == {n \in Nat : \E g : Right(g, n)}
<1>1. \A s \in SUBSET S : IsFiniteSet(s) /\ Cardinality(s) \in Nat /\ Cardinality(s) <= Cardinality(S)
  BY FS_Subset, FS_CardinalityType
<1>2. 0 \in P
  <2> DEFINE g == [s \in SUBSET S |-> 0]
  <2>1. \A s \in SUBSET S : Cardinality(s) <= 0 => s = {}
    BY <1>1, FS_EmptySet
  <2>2. {} \in SUBSET S /\ g[{}] = 0 /\ Unfolded(f, S, g)[{}] = 0
    BY DEF Unfolded
  <2>3. DOMAIN g = SUBSET S /\ g = [s \in SUBSET S |-> g[s]]
    OBVIOUS
  <2> HIDE DEF g
  <2>4. Right(g, 0)
    BY <2>1, <2>2, <2>3
  <2> QED
    BY <2>4
<1>3. ASSUME NEW n \in P
      PROVE  n + 1 \in P
  <2>1. PICK g : Right(g, n)
    OBVIOUS
  <2> DEFINE h == Unfolded(f, S, g)
  <2>2. DOMAIN h = SUBSET S /\ h = [s \in SUBSET S |-> h[s]]
    BY DEF Unfolded
  <2>3. \A s \in SUBSET S : Cardinality(s) <= n => h[s] = g[s]
    BY <2>1
  <2>4. ASSUME NEW s \in SUBSET S, Cardinality(s) <= n + 1
        PROVE  h[s] = Unfolded(f, S, h)[s]
    <3>1. CASE s = {}
      BY <3>1 DEF Unfolded
    <3>2. CASE s # {}
      <4> DEFINE x == CHOOSE y \in s : TRUE
      <4>1. x \in s /\ Cardinality(s) \in Nat /\ Cardinality(s \ {x}) \in Nat
            /\ Cardinality(s) = Cardinality(s \ {x}) + 1
        BY <1>1, <3>2, ChosenOut
      <4>2. s \ {x} \in SUBSET S /\ Cardinality(s \ {x}) <= n
        BY <2>4, <4>1
      <4>3. h[s \ {x}] = g[s \ {x}]
        BY <2>3, <4>2
      <4>4. h[s] = f[x] + g[s \ {x}]
        BY <3>2 DEF Unfolded
      <4>5. Unfolded(f, S, h)[s] = f[x] + h[s \ {x}]
        BY <3>2 DEF Unfolded
      <4> QED
        BY <4>3, <4>4, <4>5
    <3> QED
      BY <3>1, <3>2
  <2> HIDE DEF h
  <2>5. Right(h, n + 1)
    BY <2>2, <2>4
  <2>6. n + 1 \in Nat /\ \E k : Right(k, n + 1)
    <3> HIDE DEF Right
    <3> QED
      BY <2>5
  <2> HIDE DEF Right
  <2> QED
    BY <2>6
<1>4. P = Nat
  <2> HIDE DEF P
  <2>1. P \in SUBSET Nat
    BY DEF P
  <2> QED
    BY <1>2, <1>3, <2>1, Counting
<1>5. Cardinality(S) \in P
  BY <1>1, <1>4
<1>6. PICK g : Right(g, Cardinality(S))
  BY <1>5
<1>7. \A s \in SUBSET S : g[s] = Unfolded(f, S, g)[s]
  BY <1>1, <1>6
<1>8. Unfolded(f, S, g) = [s \in SUBSET S |-> Unfolded(f, S, g)[s]]
  BY DEF Unfolded
<1>9. g = Unfolded(f, S, g)
  BY <1>6, <1>7, <1>8
<1> QED
  BY <1>9

\* Two of them agree wherever the terms do.
LEMMA Agrees ==
    ASSUME NEW f, NEW S, NEW g, g = Unfolded(f, S, g),
           NEW e, NEW T, NEW h, h = Unfolded(e, T, h),
           NEW U, U \subseteq S, U \subseteq T, IsFiniteSet(U), \A x \in U : f[x] = e[x]
    PROVE  g[U] = h[U]
<1> DEFINE Same(n) == \A s \in SUBSET U : Cardinality(s) = n => g[s] = h[s]
           P == {n \in Nat : Same(n)}
<1>1. \A s \in SUBSET U : IsFiniteSet(s) /\ Cardinality(s) \in Nat
  BY FS_Subset, FS_CardinalityType
<1>2. 0 \in P
  <2>1. \A s \in SUBSET U : Cardinality(s) = 0 => s = {}
    BY <1>1, FS_EmptySet
  <2>2. Unfolded(f, S, g)[{}] = 0 /\ Unfolded(e, T, h)[{}] = 0
    BY DEF Unfolded
  <2>3. g[{}] = h[{}]
    BY <2>2
  <2> QED
    BY <2>1, <2>3
<1>3. ASSUME NEW n \in P
      PROVE  n + 1 \in P
  <2>1. ASSUME NEW s \in SUBSET U, Cardinality(s) = n + 1
        PROVE  g[s] = h[s]
    <3> DEFINE x == CHOOSE y \in s : TRUE
    <3>1. s # {}
      BY <2>1, FS_EmptySet
    <3>2. /\ x \in s /\ Cardinality(s) \in Nat /\ Cardinality(s \ {x}) \in Nat
          /\ Cardinality(s) = Cardinality(s \ {x}) + 1
      BY <1>1, <3>1, ChosenOut
    <3>3. s \ {x} \in SUBSET U /\ Cardinality(s \ {x}) = n
      BY <2>1, <3>2
    <3>4. g[s \ {x}] = h[s \ {x}]
      BY <3>3
    <3>5. Unfolded(f, S, g)[s] = f[x] + g[s \ {x}]
      BY <3>1 DEF Unfolded
    <3>6. Unfolded(e, T, h)[s] = e[x] + h[s \ {x}]
      BY <3>1 DEF Unfolded
    <3>7. f[x] = e[x]
      BY <3>2
    <3> QED
      BY <3>4, <3>5, <3>6, <3>7
  <2> QED
    BY <2>1
<1>4. P = Nat
  <2> HIDE DEF P
  <2>1. P \in SUBSET Nat
    BY DEF P
  <2> QED
    BY <1>2, <1>3, <2>1, Counting
<1>5. Cardinality(U) \in P
  BY <1>1, <1>4
<1> QED
  BY <1>5

-----------------------------------------------------------------------------

\* Nothing sums to nothing.
LEMMA SumOfNone == ASSUME NEW f PROVE SumFunctionOnSet(f, {}) = 0
<1> DEFINE g == CHOOSE g : g = Unfolded(f, {}, g)
<1>1. g = Unfolded(f, {}, g)
  BY FS_EmptySet, Recurs
<1>2. Unfolded(f, {}, g)[{}] = 0
  BY DEF Unfolded
<1> QED
  BY <1>1, <1>2, SumIsFolded

\* A sum looks at the terms and at nothing else.
LEMMA SumOfSame ==
    ASSUME NEW S, IsFiniteSet(S), NEW f, NEW e, \A x \in S : f[x] = e[x]
    PROVE  SumFunctionOnSet(f, S) = SumFunctionOnSet(e, S)
<1> DEFINE g == CHOOSE g : g = Unfolded(f, S, g)
           h == CHOOSE h : h = Unfolded(e, S, h)
<1>1. g = Unfolded(f, S, g) /\ h = Unfolded(e, S, h)
  BY Recurs
<1> HIDE DEF g, h
<1>2. g[S] = h[S]
  BY <1>1, Agrees
<1> QED
  BY <1>2, SumIsFolded DEF g, h

\* The term that the recursion takes first, and the sum of the rest.
LEMMA SumTakesFirst ==
    ASSUME NEW S, IsFiniteSet(S), S # {}, NEW f
    PROVE  LET x == CHOOSE y \in S : TRUE
           IN  SumFunctionOnSet(f, S) = f[x] + SumFunctionOnSet(f, S \ {x})
<1> DEFINE x == CHOOSE y \in S : TRUE
           R == S \ {x}
           g == CHOOSE g : g = Unfolded(f, S, g)
           h == CHOOSE h : h = Unfolded(f, R, h)
<1>1. IsFiniteSet(R) /\ R \in SUBSET S
  BY ChosenOut
<1>2. g = Unfolded(f, S, g)
  BY Recurs
<1>3. h = Unfolded(f, R, h)
  BY <1>1, Recurs
<1> HIDE DEF g, h
<1>4. Unfolded(f, S, g)[S] = f[x] + g[R]
  BY DEF Unfolded
<1> HIDE DEF R
<1>5. g[R] = h[R]
  BY <1>1, <1>2, <1>3, Agrees
<1>6. g[S] = f[x] + h[R]
  BY <1>2, <1>4, <1>5
<1>7. SumFunctionOnSet(f, S) = g[S] /\ SumFunctionOnSet(f, R) = h[R]
  BY SumIsFolded DEF g, h
<1> QED
  BY <1>6, <1>7 DEF R

\* A sum of numbers is one, and any of its terms and the sum of the rest.
LEMMA SumTakesOut ==
    ASSUME NEW S, IsFiniteSet(S), NEW f, \A x \in S : f[x] \in Nat
    PROVE  /\ SumFunctionOnSet(f, S) \in Nat
           /\ \A x \in S : SumFunctionOnSet(f, S) = f[x] + SumFunctionOnSet(f, S \ {x})
<1> DEFINE Sum(s) == SumFunctionOnSet(f, s)
           Fair(s) == Sum(s) \in Nat /\ \A x \in s : Sum(s) = f[x] + Sum(s \ {x})
           P == {n \in Nat : \A s \in SUBSET S : Cardinality(s) <= n => Fair(s)}
<1>1. \A s \in SUBSET S : IsFiniteSet(s) /\ Cardinality(s) \in Nat
  BY FS_Subset, FS_CardinalityType
<1>2. 0 \in P
  <2>1. \A s \in SUBSET S : Cardinality(s) <= 0 => s = {}
    BY <1>1, FS_EmptySet
  <2>2. Fair({})
    BY SumOfNone
  <2> HIDE DEF Fair
  <2> QED
    BY <2>1, <2>2
<1>3. ASSUME NEW n \in P
      PROVE  n + 1 \in P
  <2>1. ASSUME NEW s \in SUBSET S, Cardinality(s) <= n + 1
        PROVE  Fair(s)
    <3>1. CASE s = {}
      BY <3>1, SumOfNone
    <3>2. CASE s # {}
      <4> DEFINE c == CHOOSE y \in s : TRUE
      <4>1. /\ c \in s /\ Cardinality(s) \in Nat /\ Cardinality(s \ {c}) \in Nat
            /\ Cardinality(s) = Cardinality(s \ {c}) + 1 /\ IsFiniteSet(s)
        BY <1>1, <3>2, ChosenOut
      <4>2. Sum(s) = f[c] + Sum(s \ {c})
        BY <3>2, <4>1, SumTakesFirst
      <4> HIDE DEF c, Sum
      <4>3. s \ {c} \in SUBSET S /\ Cardinality(s \ {c}) <= n
        BY <2>1, <4>1
      <4>4. Fair(s \ {c})
        BY <4>3
      <4>5. ASSUME NEW x \in s, x # c
            PROVE  Sum(s) = f[x] + Sum(s \ {x})
        <5>1. Sum(s \ {c}) = f[x] + Sum((s \ {c}) \ {x})
          BY <4>4, <4>5
        <5>2. Cardinality(s \ {x}) = Cardinality(s) - 1
          BY <4>1, <4>5, FS_RemoveElement
        <5>3. s \ {x} \in SUBSET S /\ Cardinality(s \ {x}) <= n
          BY <2>1, <4>1, <5>2
        <5>4. Sum(s \ {x}) = f[c] + Sum((s \ {x}) \ {c})
          BY <4>1, <4>5, <5>3
        <5>5. Cardinality((s \ {c}) \ {x}) <= n
          <6>1. (s \ {c}) \ {x} \in SUBSET (s \ {x}) /\ IsFiniteSet(s \ {x})
            BY <1>1, <5>3
          <6>2. Cardinality((s \ {c}) \ {x}) <= Cardinality(s \ {x})
            BY <6>1, FS_Subset
          <6>3. Cardinality((s \ {c}) \ {x}) \in Nat /\ Cardinality(s \ {x}) \in Nat
            BY <1>1, <5>3, <6>1
          <6> QED
            BY <5>3, <6>2, <6>3
        <5>6. (s \ {c}) \ {x} = (s \ {x}) \ {c} /\ Sum((s \ {c}) \ {x}) \in Nat
          <6>1. (s \ {c}) \ {x} = (s \ {x}) \ {c} /\ (s \ {c}) \ {x} \in SUBSET S
            OBVIOUS
          <6> QED
            BY <5>5, <6>1
        <5>7. f[c] \in Nat /\ f[x] \in Nat
          BY <4>1, <4>5
        <5> QED
          BY <4>2, <5>1, <5>4, <5>6, <5>7
      <4>6. f[c] \in Nat /\ Sum(s \ {c}) \in Nat
        BY <4>1, <4>4
      <4> QED
        BY <4>2, <4>5, <4>6
    <3> QED
      BY <3>1, <3>2
  <2> HIDE DEF Fair
  <2> QED
    BY <2>1
<1>4. P = Nat
  <2> HIDE DEF P
  <2>1. P \in SUBSET Nat
    BY DEF P
  <2> QED
    BY <1>2, <1>3, <2>1, Counting
<1>5. Cardinality(S) \in P /\ Cardinality(S) <= Cardinality(S)
  BY <1>1, <1>4
<1>6. Fair(S)
  <2> HIDE DEF Fair
  <2> QED
    BY <1>5
<1> QED
  BY <1>6

\* One more term.
LEMMA SumPutsIn ==
    ASSUME NEW S, IsFiniteSet(S), NEW x, x \notin S, NEW f, \A y \in S \cup {x} : f[y] \in Nat
    PROVE  SumFunctionOnSet(f, S \cup {x}) = SumFunctionOnSet(f, S) + f[x]
<1>1. IsFiniteSet(S \cup {x}) /\ (S \cup {x}) \ {x} = S
  BY FS_AddElement
<1>2. SumFunctionOnSet(f, S \cup {x}) = f[x] + SumFunctionOnSet(f, S)
  BY <1>1, SumTakesOut
<1>3. SumFunctionOnSet(f, S) \in Nat /\ f[x] \in Nat
  BY SumTakesOut
<1> QED
  BY <1>2, <1>3

\* Fewer terms.
LEMMA SumOfFewer ==
    ASSUME NEW S, IsFiniteSet(S), NEW f, \A x \in S : f[x] \in Nat, NEW T \in SUBSET S
    PROVE  SumFunctionOnSet(f, T) \in Nat /\ SumFunctionOnSet(f, T) <= SumFunctionOnSet(f, S)
<1> DEFINE Sum(s) == SumFunctionOnSet(f, s)
           P == {n \in Nat : \A R \in SUBSET S : Cardinality(R) = n => Sum(S \ R) <= Sum(S)}
<1>1. \A R \in SUBSET S : IsFiniteSet(R) /\ Cardinality(R) \in Nat
  BY FS_Subset, FS_CardinalityType
<1>2. \A R \in SUBSET S : /\ Sum(R) \in Nat
                         /\ \A x \in R : Sum(R) = f[x] + Sum(R \ {x})
  BY <1>1, SumTakesOut
<1> HIDE DEF Sum
<1>3. 0 \in P
  <2>1. \A R \in SUBSET S : Cardinality(R) = 0 => R = {}
    BY <1>1, FS_EmptySet
  <2>2. S \ {} = S /\ Sum(S) <= Sum(S)
    BY <1>2
  <2> QED
    BY <2>1, <2>2
<1>4. ASSUME NEW n \in P
      PROVE  n + 1 \in P
  <2>1. ASSUME NEW R \in SUBSET S, Cardinality(R) = n + 1
        PROVE  Sum(S \ R) <= Sum(S)
    <3>1. R # {}
      BY <2>1, FS_EmptySet
    <3>2. PICK c \in R : Cardinality(R \ {c}) = n
      <4>1. PICK c \in R : TRUE
        BY <3>1
      <4>2. Cardinality(R \ {c}) = Cardinality(R) - 1
        BY <1>1, FS_RemoveElement
      <4>3. n \in Nat /\ (n + 1) - 1 = n
        OBVIOUS
      <4> QED
        BY <2>1, <4>2, <4>3
    <3>3. Sum(S \ (R \ {c})) <= Sum(S)
      BY <3>2
    <3>4. (S \ (R \ {c})) \ {c} = S \ R /\ c \in S \ (R \ {c})
      OBVIOUS
    <3>5. Sum(S \ (R \ {c})) = f[c] + Sum(S \ R) /\ f[c] \in Nat
      BY <1>2, <3>4
    <3>6. Sum(S \ R) \in Nat /\ Sum(S) \in Nat
      BY <1>2
    <3> QED
      BY <3>3, <3>5, <3>6
  <2> QED
    BY <2>1
<1>5. P = Nat
  <2> HIDE DEF P
  <2>1. P \in SUBSET Nat
    BY DEF P
  <2> QED
    BY <1>3, <1>4, <2>1, Counting
<1>6. S \ (S \ T) = T /\ S \ T \in SUBSET S
  OBVIOUS
<1>7. Cardinality(S \ T) \in P
  BY <1>1, <1>5
<1>8. Sum(T) <= Sum(S)
  BY <1>6, <1>7
<1> QED
  BY <1>2, <1>8 DEF Sum

=============================================================================
