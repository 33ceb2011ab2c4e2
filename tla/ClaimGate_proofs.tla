-------------------------- MODULE ClaimGate_proofs --------------------------
(***************************************************************************)
(* What the verdict of the gate stands on, whatever the sources, the rows  *)
(* and the texts.                                                          *)
(***************************************************************************)
EXTENDS ClaimGate, ListsAndSums

-----------------------------------------------------------------------------
(* Sources that echo each other.                                           *)

\* Echoes are mutual.
LEMMA EchoIsMutual ==
    ASSUME NEW a, NEW b, Echo(a, b)
    PROVE  Echo(b, a)
<1>1. Fingerprint(a) \cap Fingerprint(b) = Fingerprint(b) \cap Fingerprint(a)
  OBVIOUS
<1>2. Fingerprint(a) \cup Fingerprint(b) = Fingerprint(b) \cup Fingerprint(a)
  OBVIOUS
<1> QED
  BY <1>1, <1>2 DEF Echo, JaccardAbove

\* A text has finitely many shingles.
LEMMA FingerprintsAreFinite ==
    ASSUME NEW id \in DOMAIN Source
    PROVE  IsFiniteSet(Fingerprint(id))
<1> DEFINE text == Source[id].text
           words == NormalizeForMatch(text)
           n == Len(words) - ShingleSize + 1
           part == [i \in 1..n |-> SubSeq(words, i, i + ShingleSize - 1)]
<1>1. text \in Seq(ToSet(text))
  BY GateAssumption
<1>2. Len(text) \in Nat /\ DOMAIN text = 1..Len(text)
  <2> DEFINE S == ToSet(text)
  <2>1. text \in Seq(S)
    BY <1>1
  <2> HIDE DEF S, text
  <2> QED
    BY <2>1, LenProperties
<1>3. words = [i \in 1..Len(text) |-> words[i]]
  BY <1>2 DEF NormalizeForMatch
<1>4. Len(words) \in Nat
  <2> DEFINE m == Len(text)
  <2>1. m \in Nat /\ words = [i \in 1..m |-> words[i]]
    BY <1>2, <1>3
  <2> HIDE DEF words, m
  <2> QED
    BY <2>1, Listed
<1>5. n \in Int
  BY <1>4, GateAssumption
<1>6. {SubSeq(words, i, i + ShingleSize - 1) : i \in 1..n} = Values(part, 1..n)
  <2>1. \A i \in 1..n : part[i] = SubSeq(words, i, i + ShingleSize - 1)
    OBVIOUS
  <2> HIDE DEF part
  <2> QED
    BY <2>1 DEF Values
<1>7. IsFiniteSet(Values(part, 1..n))
  <2> HIDE DEF n, part
  <2>1. IsFiniteSet(1..n)
    BY <1>5, FS_Interval
  <2> QED
    BY <2>1, ValuesOf
<1>8. IsFiniteSet({words} \ {<<>>})
  <2> HIDE DEF words
  <2>1. IsFiniteSet({words}) /\ {words} \ {<<>>} \in SUBSET {words}
    BY FS_Singleton
  <2> QED
    BY <2>1, FS_Subset
<1>9. Fingerprint(id) = IF Len(words) <= ShingleSize THEN {words} \ {<<>>}
                        ELSE {SubSeq(words, i, i + ShingleSize - 1) : i \in 1..n}
  BY DEF Fingerprint, ContentShingles
<1> HIDE DEF words, n, part
<1> QED
  BY <1>6, <1>7, <1>8, <1>9

\* A source that counts echoes itself.
LEMMA EchoOfItself ==
    ASSUME NEW id \in DOMAIN Source, Counts(id)
    PROVE  Echo(id, id)
<1> DEFINE F == Fingerprint(id)
<1>1. CASE F # {}
  <2>1. F \cap F = F /\ F \cup F = F
    OBVIOUS
  <2>2. IsFiniteSet(F)
    BY FingerprintsAreFinite
  <2> DEFINE n == Cardinality(F)
  <2>3. n \in Nat /\ n # 0
    <3> HIDE DEF F
    <3> QED
      BY <1>1, <2>2, FS_CardinalityType, FS_EmptySet
  <2>4. 10 * Cardinality(F \cap F) > 6 * Cardinality(F \cup F)
    <3>1. Cardinality(F \cap F) = n /\ Cardinality(F \cup F) = n
      BY <2>1
    <3> HIDE DEF n
    <3> QED
      BY <2>3, <3>1
  <2> QED
    BY <2>4 DEF Echo, JaccardAbove
<1>2. CASE DomainOf(id) # <<>>
  BY <1>2 DEF Echo
<1> QED
  BY <1>1, <1>2 DEF Counts

\* A deal of the sources that gives echoes one place.
Respects(ids, d) == \A a, b \in DOMAIN ids : Echo(ids[a], ids[b]) => d[a] = d[b]

\* Groups that every such deal leaves whole.
Whole(ids, g) ==
    /\ g \in [DOMAIN ids -> DOMAIN ids]
    /\ \A d : Respects(ids, d) => \A a, b \in DOMAIN ids : g[a] = g[b] => d[a] = d[b]

\* Groups of h hold those of g.
Holds(ids, g, h) == \A a, b \in DOMAIN ids : g[a] = g[b] => h[a] = h[b]

\* Joining the groups of two sources that echo each other keeps them whole.
LEMMA UnionKeeps ==
    ASSUME NEW ids, NEW g, Whole(ids, g), NEW i \in DOMAIN ids, NEW k \in DOMAIN ids, Echo(ids[i], ids[k])
    PROVE  /\ Whole(ids, Union(g, i, k)) /\ Holds(ids, g, Union(g, i, k))
           /\ Union(g, i, k)[i] = Union(g, i, k)[k]
<1> DEFINE h == Union(g, i, k)
<1>1. DOMAIN g = DOMAIN ids /\ \A n \in DOMAIN ids : g[n] \in DOMAIN ids
  BY DEF Whole
<1>2. \A n \in DOMAIN ids : h[n] = IF g[n] = g[i] THEN g[k] ELSE g[n]
  BY <1>1 DEF Union
<1>3. h \in [DOMAIN ids -> DOMAIN ids]
  BY <1>1 DEF Union
<1> HIDE DEF h
<1>4. ASSUME NEW d, Respects(ids, d), NEW a \in DOMAIN ids, NEW b \in DOMAIN ids, h[a] = h[b]
      PROVE  d[a] = d[b]
  <2>1. \A x, y \in DOMAIN ids : g[x] = g[y] => d[x] = d[y]
    BY <1>4 DEF Whole
  <2>2. d[i] = d[k]
    BY <1>4 DEF Respects
  <2> QED
    BY <1>2, <1>4, <2>1, <2>2
<1>5. Whole(ids, h)
  BY <1>3, <1>4 DEF Whole
<1>6. Holds(ids, g, h) /\ h[i] = h[k]
  BY <1>2 DEF Holds
<1> QED
  BY <1>5, <1>6 DEF h

\* Comparing a source with the later ones joins it with each that it echoes.
LEMMA ComparingJoins ==
    ASSUME NEW ids, Sequential(ids), NEW g, Whole(ids, g), NEW i \in DOMAIN ids
    PROVE  LET h == CompareWithLater(ids, g, i)
           IN  /\ Whole(ids, h) /\ Holds(ids, g, h)
               /\ \A k \in DOMAIN ids : i < k /\ Echo(ids[i], ids[k]) => h[i] = h[k]
<1> DEFINE N == Len(ids)
           D == {h \in [DOMAIN ids -> DOMAIN ids] : Whole(ids, h)}
           one(k, h) == IF i < k /\ Echo(ids[i], ids[k]) THEN Union(h, i, k) ELSE h
           step == [k \in 1..N |-> [h \in D |-> one(k, h)]]
           Loop(f) == [k \in 0..N |-> IF k = 0 THEN g ELSE one(k, f[k - 1])]
<1>1. N \in Nat /\ DOMAIN ids = 1..N
  BY Places
<1>2. g \in D
  BY DEF Whole
<1>3. ASSUME NEW k \in 1..N, NEW h \in D
      PROVE  one(k, h) \in D /\ Holds(ids, h, one(k, h))
             /\ (i < k /\ Echo(ids[i], ids[k]) => one(k, h)[i] = one(k, h)[k])
  <2>1. CASE i < k /\ Echo(ids[i], ids[k])
    <3>1. Whole(ids, Union(h, i, k)) /\ Holds(ids, h, Union(h, i, k)) /\ Union(h, i, k)[i] = Union(h, i, k)[k]
      BY <1>1, <2>1, UnionKeeps
    <3> QED
      BY <2>1, <3>1 DEF Whole
  <2>2. CASE ~(i < k /\ Echo(ids[i], ids[k]))
    BY <2>2 DEF Holds
  <2> QED
    BY <2>1, <2>2
<1>4. \E f : f = Loop(f)
  <2>1. step \in [1..N -> [D -> D]]
    BY <1>3
  <2>2. \A k \in 1..N : \A h \in D : step[k][h] = one(k, h)
    OBVIOUS
  <2> HIDE DEF N, D, step, one, Loop
  <2>3. PICK f : f \in [0..N -> D] /\ Iterates(f, N, g, step)
    <3>1. N \in Nat
      BY <1>1
    <3> QED
      BY <3>1, <1>2, <2>1, Looping
  <2>4. \A k \in 0..N : k # 0 => k \in 1..N /\ k - 1 \in 0..N
    BY <1>1
  <2>5. \A k \in 0..N : f[k] = IF k = 0 THEN g ELSE one(k, f[k - 1])
    BY <2>2, <2>3, <2>4 DEF Iterates
  <2>6. f = Loop(f)
    BY <2>3, <2>5 DEF Loop
  <2> QED
    BY <2>6
<1> DEFINE after == CHOOSE f : f = Loop(f)
<1>5. after = Loop(after)
  BY <1>4
<1>6. CompareWithLater(ids, g, i) = after[N]
  BY DEF CompareWithLater
<1> HIDE DEF after
<1>7. after[0] = g /\ \A k \in 0..N : k < N => after[k + 1] = one(k + 1, after[k])
  <2>1. 0 \in 0..N /\ \A k \in 0..N : k < N => k + 1 \in 0..N /\ k + 1 # 0 /\ k + 1 - 1 = k
    BY <1>1
  <2> HIDE DEF N, one
  <2> QED
    BY <1>5, <2>1
<1> DEFINE Good(k) == /\ after[k] \in D /\ Holds(ids, g, after[k])
                      /\ \A m \in DOMAIN ids : m <= k /\ i < m /\ Echo(ids[i], ids[m]) => after[k][i] = after[k][m]
           S == {k \in 0..N : Good(k)}
<1>8. 0 \in S
  <2>1. Holds(ids, g, g)
    BY DEF Holds
  <2>2. \A m \in DOMAIN ids : ~(m <= 0)
    BY <1>1
  <2> HIDE DEF D
  <2> QED
    BY <1>1, <1>2, <1>7, <2>1, <2>2
<1>9. ASSUME NEW k \in S, k < N
      PROVE  k + 1 \in S
  <2>1. k \in 0..N /\ k + 1 \in 1..N /\ k + 1 \in 0..N
    BY <1>1, <1>9
  <2>2. after[k] \in D /\ after[k + 1] = one(k + 1, after[k])
    BY <1>7, <1>9, <2>1
  <2> DEFINE h == after[k]
             j == after[k + 1]
  <2>3. j \in D /\ Holds(ids, h, j) /\ (i < k + 1 /\ Echo(ids[i], ids[k + 1]) => j[i] = j[k + 1])
    <3> HIDE DEF D, one, Holds
    <3> QED
      BY <1>3, <2>1, <2>2
  <2>4. Holds(ids, g, h) /\ \A m \in DOMAIN ids : m <= k /\ i < m /\ Echo(ids[i], ids[m]) => h[i] = h[m]
    BY <1>9
  <2>5. Holds(ids, g, j)
    <3> HIDE DEF h, j
    <3> QED
      BY <2>3, <2>4 DEF Holds
  <2>6. ASSUME NEW m \in DOMAIN ids, m <= k + 1, i < m, Echo(ids[i], ids[m])
        PROVE  j[i] = j[m]
    <3>1. CASE m <= k
      <4> HIDE DEF h, j, D
      <4> QED
        BY <2>3, <2>4, <2>6, <3>1 DEF Holds
    <3>2. CASE ~(m <= k)
      <4>1. m = k + 1
        BY <1>1, <2>1, <2>6, <3>2
      <4> HIDE DEF j, D
      <4> QED
        BY <2>3, <2>6, <4>1
    <3> QED
      BY <3>1, <3>2
  <2>7. Good(k + 1)
    <3> HIDE DEF D, Holds
    <3> QED
      BY <2>3, <2>5, <2>6
  <2> HIDE DEF Good
  <2> QED
    BY <2>1, <2>7
<1>10. N \in S
  <2> HIDE DEF Good
  <2>1. S \in SUBSET Nat
    BY <1>1
  <2> HIDE DEF S, N
  <2> QED
    BY <1>1, <1>8, <1>9, <2>1, KeptByLoop
<1>11. Good(N)
  BY <1>10
<1>12. \A m \in DOMAIN ids : m <= N
  BY <1>1
<1>13. Whole(ids, after[N])
  BY <1>11
<1> HIDE DEF N
<1> QED
  BY <1>6, <1>11, <1>12, <1>13

\* The groups are whole, and sources that echo each other share one.
LEMMA GroupsAreWhole ==
    ASSUME NEW ids, Sequential(ids)
    PROVE  Whole(ids, Groups(ids)) /\ Respects(ids, Groups(ids))
<1> DEFINE N == Len(ids)
           D == {h \in [DOMAIN ids -> DOMAIN ids] : Whole(ids, h)}
           step == [i \in 1..N |-> [h \in D |-> CompareWithLater(ids, h, i)]]
           first == [n \in DOMAIN ids |-> n]
           Loop(f) == [i \in 0..N |-> IF i = 0 THEN first ELSE CompareWithLater(ids, f[i - 1], i)]
<1>1. N \in Nat /\ DOMAIN ids = 1..N
  BY Places
<1>2. first \in D
  BY DEF Whole
<1>3. ASSUME NEW i \in 1..N, NEW h \in D
      PROVE  LET j == CompareWithLater(ids, h, i)
             IN  /\ j \in D /\ Holds(ids, h, j)
                 /\ \A k \in DOMAIN ids : i < k /\ Echo(ids[i], ids[k]) => j[i] = j[k]
  <2> DEFINE j == CompareWithLater(ids, h, i)
  <2>1. i \in DOMAIN ids /\ Whole(ids, h)
    BY <1>1
  <2>2. Whole(ids, j) /\ Holds(ids, h, j) /\ \A k \in DOMAIN ids : i < k /\ Echo(ids[i], ids[k]) => j[i] = j[k]
    BY <2>1, ComparingJoins
  <2>3. j \in [DOMAIN ids -> DOMAIN ids]
    BY <2>2 DEF Whole
  <2> QED
    BY <2>2, <2>3
<1>4. \E f : f = Loop(f)
  <2>1. step \in [1..N -> [D -> D]]
    BY <1>3
  <2>2. \A i \in 1..N : \A h \in D : step[i][h] = CompareWithLater(ids, h, i)
    OBVIOUS
  <2> HIDE DEF N, D, step, first, Loop
  <2>3. PICK f : f \in [0..N -> D] /\ Iterates(f, N, first, step)
    <3>1. N \in Nat
      BY <1>1
    <3> QED
      BY <3>1, <1>2, <2>1, Looping
  <2>4. \A i \in 0..N : i # 0 => i \in 1..N /\ i - 1 \in 0..N
    BY <1>1
  <2>5. \A i \in 0..N : f[i] = IF i = 0 THEN first ELSE CompareWithLater(ids, f[i - 1], i)
    BY <2>2, <2>3, <2>4 DEF Iterates
  <2>6. f = Loop(f)
    BY <2>3, <2>5 DEF Loop
  <2> QED
    BY <2>6
<1> DEFINE after == CHOOSE f : f = Loop(f)
<1>5. after = Loop(after)
  BY <1>4
<1>6. Groups(ids) = after[N]
  BY DEF Groups
<1> HIDE DEF after
<1>7. after[0] = first /\ \A i \in 0..N : i < N => after[i + 1] = CompareWithLater(ids, after[i], i + 1)
  <2>1. 0 \in 0..N /\ \A i \in 0..N : i < N => i + 1 \in 0..N /\ i + 1 # 0 /\ i + 1 - 1 = i
    BY <1>1
  <2> HIDE DEF N, first
  <2> QED
    BY <1>5, <2>1
<1> DEFINE Good(i) == /\ after[i] \in D
                      /\ \A a, b \in DOMAIN ids : a <= i /\ a < b /\ Echo(ids[a], ids[b]) => after[i][a] = after[i][b]
           S == {i \in 0..N : Good(i)}
<1>8. 0 \in S
  <2>1. \A a \in DOMAIN ids : ~(a <= 0)
    BY <1>1
  <2> HIDE DEF D
  <2> QED
    BY <1>1, <1>2, <1>7, <2>1
<1>9. ASSUME NEW i \in S, i < N
      PROVE  i + 1 \in S
  <2>1. i \in 0..N /\ i + 1 \in 1..N /\ i + 1 \in 0..N
    BY <1>1, <1>9
  <2>2. after[i] \in D /\ after[i + 1] = CompareWithLater(ids, after[i], i + 1)
    BY <1>7, <1>9, <2>1
  <2> DEFINE h == after[i]
             j == after[i + 1]
  <2>3. j \in D /\ Holds(ids, h, j) /\ \A k \in DOMAIN ids : i + 1 < k /\ Echo(ids[i + 1], ids[k]) => j[i + 1] = j[k]
    <3> HIDE DEF D, Holds
    <3> QED
      BY <1>3, <2>1, <2>2
  <2>4. \A a, b \in DOMAIN ids : a <= i /\ a < b /\ Echo(ids[a], ids[b]) => h[a] = h[b]
    BY <1>9
  <2>5. ASSUME NEW a \in DOMAIN ids, NEW b \in DOMAIN ids, a <= i + 1, a < b, Echo(ids[a], ids[b])
        PROVE  j[a] = j[b]
    <3>1. CASE a <= i
      <4> HIDE DEF h, j, D
      <4> QED
        BY <2>3, <2>4, <2>5, <3>1 DEF Holds
    <3>2. CASE ~(a <= i)
      <4>1. a = i + 1
        BY <1>1, <2>1, <2>5, <3>2
      <4> HIDE DEF j, D
      <4> QED
        BY <2>3, <2>5, <4>1
    <3> QED
      BY <3>1, <3>2
  <2>6. Good(i + 1)
    <3> HIDE DEF D
    <3> QED
      BY <2>3, <2>5
  <2> HIDE DEF Good
  <2> QED
    BY <2>1, <2>6
<1>10. N \in S
  <2> HIDE DEF Good
  <2>1. S \in SUBSET Nat
    BY <1>1
  <2> HIDE DEF S, N
  <2> QED
    BY <1>1, <1>8, <1>9, <2>1, KeptByLoop
<1>11. Good(N)
  BY <1>10
<1>12. ASSUME NEW a \in DOMAIN ids, NEW b \in DOMAIN ids, Echo(ids[a], ids[b])
       PROVE  after[N][a] = after[N][b]
  <2>1. a <= N /\ b <= N /\ (a < b \/ b < a \/ a = b)
    BY <1>1
  <2>2. CASE a < b
    <3> HIDE DEF D
    <3> QED
      BY <1>11, <1>12, <2>1, <2>2
  <2>3. CASE b < a
    <3>1. Echo(ids[b], ids[a])
      BY <1>12, EchoIsMutual
    <3> HIDE DEF D
    <3> QED
      BY <1>11, <2>1, <2>3, <3>1
  <2> QED
    BY <2>1, <2>2, <2>3
<1>13. Whole(ids, after[N])
  BY <1>11
<1> QED
  BY <1>6, <1>12, <1>13 DEF Respects

\* Places of sources that count, and the groups they are in.
Counted(ids) == {k \in DOMAIN ids : Counts(ids[k])}

\* How many groups there are is how many values they have.
LEMMA GroupsCounted ==
    ASSUME NEW ids, Sequential(ids)
    PROVE  LET V == Values(Groups(ids), Counted(ids))
           IN  /\ IndependentSourceGroups(ids) = Cardinality(V) /\ IsFiniteSet(V) /\ V \in SUBSET Int
               /\ Cardinality(V) \in Nat
<1> DEFINE G == Groups(ids)
           C == Counted(ids)
<1>1. Len(ids) \in Nat /\ DOMAIN ids = 1..Len(ids)
  BY Places
<1>2. IsFiniteSet(C) /\ C \subseteq DOMAIN ids
  <2>1. IsFiniteSet(DOMAIN ids)
    BY <1>1, FS_Interval
  <2>2. C \in SUBSET DOMAIN ids
    BY DEF Counted
  <2> QED
    BY <2>1, <2>2, FS_Subset
<1>3. \A k \in C : G[k] \in DOMAIN ids
  BY <1>2, GroupsAreWhole DEF Whole
<1>4. IsFiniteSet(Values(G, C)) /\ Values(G, C) \subseteq DOMAIN ids
  <2> HIDE DEF G, C
  <2> QED
    BY <1>2, <1>3, ValuesIn
<1>5. IndependentSourceGroups(ids) = Cardinality(Values(G, C))
  BY DEF IndependentSourceGroups, Values, Counted
<1>6. Values(G, C) \in SUBSET Int
  BY <1>1, <1>4
<1> QED
  BY <1>4, <1>5, <1>6, FS_CardinalityType

\* Sources that can be dealt out to n groups are in n groups or more.
LEMMA DealtOut ==
    ASSUME NEW ids, Sequential(ids), NEW n \in Nat \ {0}, Separable(ToSet(ids), n)
    PROVE  IndependentSourceGroups(ids) >= n
<1> DEFINE G == Groups(ids)
           C == Counted(ids)
           V == Values(G, C)
<1>1. PICK deal \in [ToSet(ids) -> 1..n] :
        /\ \A k \in 1..n : \E id \in ToSet(ids) : deal[id] = k /\ Counts(id)
        /\ \A a, b \in ToSet(ids) : Echo(a, b) => deal[a] = deal[b]
  BY DEF Separable
<1> DEFINE d == [k \in DOMAIN ids |-> deal[ids[k]]]
<1>2. \A k \in DOMAIN ids : ids[k] \in ToSet(ids)
  BY DEF ToSet
<1>3. Respects(ids, d)
  BY <1>1, <1>2 DEF Respects
<1>4. \A a, b \in DOMAIN ids : G[a] = G[b] => d[a] = d[b]
  BY <1>3, GroupsAreWhole DEF Whole
<1>5. \A k \in 1..n : \E a \in C : d[a] = k
  <2> TAKE k \in 1..n
  <2>1. PICK id \in ToSet(ids) : deal[id] = k /\ Counts(id)
    BY <1>1
  <2>2. PICK a \in DOMAIN ids : ids[a] = id
    BY DEF ToSet
  <2> QED
    BY <2>1, <2>2 DEF Counted
<1>6. C \subseteq DOMAIN ids
  BY DEF Counted
<1> DEFINE one(k) == CHOOSE a \in C : d[a] = k
           f == [k \in 1..n |-> G[one(k)]]
<1>7. \A k \in 1..n : one(k) \in C /\ d[one(k)] = k
  <2> HIDE DEF C, d
  <2> QED
    BY <1>5
<1>8. f \in Injection(1..n, V)
  <2>1. \A k \in 1..n : f[k] \in V
    <3> HIDE DEF C, G, one
    <3> QED
      BY <1>7 DEF Values
  <2>2. \A k, m \in 1..n : f[k] = f[m] => k = m
    <3> HIDE DEF C, G, one, d
    <3> QED
      BY <1>4, <1>6, <1>7
  <2>3. f \in [1..n -> V]
    <3> HIDE DEF V, one, G
    <3> QED
      BY <2>1
  <2> HIDE DEF f, V
  <2> QED
    BY <2>2, <2>3 DEF Injection, IsInjective
<1>9. IsFiniteSet(V) /\ Cardinality(V) \in Nat /\ IndependentSourceGroups(ids) = Cardinality(V)
  BY GroupsCounted
<1>10. Cardinality(1..n) = n
  <2>1. n >= 1 /\ 1 \in Int /\ n \in Int
    OBVIOUS
  <2> DEFINE z == 1
  <2>2. z \in Int /\ n \in Int /\ z = 1
    OBVIOUS
  <2> HIDE DEF z
  <2>3. Cardinality(z..n) = IF z > n THEN 0 ELSE n - z + 1
    BY <2>2, FS_Interval
  <2> QED
    BY <2>1, <2>2, <2>3
<1>11. Cardinality(1..n) <= Cardinality(V)
  <2> DEFINE I == 1..n
  <2> HIDE DEF I, V, f
  <2>1. f \in Injection(I, V)
    BY <1>8 DEF I
  <2> USE DEF I
  <2> HIDE DEF I
  <2>2. Cardinality(I) <= Cardinality(V)
    BY <1>9, <2>1, FS_Injection
  <2> QED
    BY <2>2 DEF I
<1> HIDE DEF V
<1> QED
  BY <1>9, <1>10, <1>11

\* Sources that are in n groups or more can be dealt out to n of them.
LEMMA CanBeDealt ==
    ASSUME NEW ids, Sequential(ids), ToSet(ids) \subseteq DOMAIN Source,
           NEW n \in Nat \ {0}, IndependentSourceGroups(ids) >= n
    PROVE  Separable(ToSet(ids), n)
<1> DEFINE G == Groups(ids)
           C == Counted(ids)
           V == Values(G, C)
           m == Cardinality(V)
           R == Ranked(V)
           place(id) == CHOOSE a \in DOMAIN ids : ids[a] = id
           rank(g) == CHOOSE r \in 1..m : R[r] = g
           dealt(id) == IF G[place(id)] \in V /\ rank(G[place(id)]) <= n THEN rank(G[place(id)]) ELSE 1
           deal == [id \in ToSet(ids) |-> dealt(id)]
<1>1. IsFiniteSet(V) /\ V \in SUBSET Int /\ m \in Nat /\ m >= n
  BY GroupsCounted
<1>2. /\ R \in [1..m -> V]
      /\ \A g \in V : \E r \in 1..m : R[r] = g
      /\ \A r, s \in 1..m : r < s <=> R[r] < R[s]
  <2> HIDE DEF V
  <2> QED
    BY <1>1, RankedLists
<1>3. \A r, s \in 1..m : R[r] = R[s] => r = s
  <2> SUFFICES ASSUME NEW r \in 1..m, NEW s \in 1..m, R[r] = R[s]
               PROVE  r = s
    OBVIOUS
  <2>1. R[r] \in Int /\ R[s] \in Int
    <3> HIDE DEF V, m, R
    <3> QED
      BY <1>1, <1>2
  <2>2. r \in Int /\ s \in Int
    OBVIOUS
  <2>3. ~(r < s) /\ ~(s < r)
    <3> HIDE DEF V, m, R
    <3> QED
      BY <1>2, <2>1
  <2> QED
    BY <2>2, <2>3
<1>4. \A g \in V : rank(g) \in 1..m /\ R[rank(g)] = g
  <2> HIDE DEF V, m, R
  <2> QED
    BY <1>2
<1>5. \A id \in ToSet(ids) : place(id) \in DOMAIN ids /\ ids[place(id)] = id
  BY DEF ToSet
<1>6. Respects(ids, G)
  BY GroupsAreWhole
<1> HIDE DEF place
<1>7. \A a, b \in ToSet(ids) : Echo(a, b) => deal[a] = deal[b]
  <2> SUFFICES ASSUME NEW a \in ToSet(ids), NEW b \in ToSet(ids), Echo(a, b)
               PROVE  deal[a] = deal[b]
    OBVIOUS
  <2>1. G[place(a)] = G[place(b)]
    <3> HIDE DEF G
    <3> QED
      BY <1>5, <1>6 DEF Respects
  <2> HIDE DEF rank, V, G
  <2> QED
    BY <2>1
<1>8. ASSUME NEW k \in 1..n
      PROVE  \E id \in ToSet(ids) : deal[id] = k /\ Counts(id)
  <2>1. k \in 1..m /\ k <= n
    <3> HIDE DEF m
    <3> QED
      BY <1>1
  <2>2. R[k] \in V
    <3> HIDE DEF R, V, m
    <3> QED
      BY <1>2, <2>1
  <2>3. PICK i \in C : G[i] = R[k]
    <3> HIDE DEF G, C, R
    <3> QED
      BY <2>2 DEF Values
  <2>4. i \in DOMAIN ids /\ Counts(ids[i])
    BY <2>3 DEF Counted
  <2> DEFINE id == ids[i]
  <2>5. id \in ToSet(ids) /\ id \in DOMAIN Source
    BY <2>4 DEF ToSet
  <2>6. Echo(id, id)
    BY <2>4, <2>5, EchoOfItself
  <2>7. G[place(id)] = G[i]
    <3>1. Echo(ids[place(id)], ids[i])
      BY <1>5, <2>5, <2>6
    <3>2. place(id) \in DOMAIN ids
      BY <1>5, <2>5
    <3> HIDE DEF G, id
    <3> QED
      BY <1>6, <2>4, <3>1, <3>2 DEF Respects
  <2>8. rank(R[k]) = k
    <3> HIDE DEF R, V, m, rank
    <3> QED
      BY <1>3, <1>4, <2>1, <2>2
  <2>9. dealt(id) = k
    <3> HIDE DEF R, V, m, rank, G, id
    <3> QED
      BY <2>1, <2>2, <2>3, <2>7, <2>8
  <2>10. deal[id] = k
    <3> HIDE DEF dealt
    <3> QED
      BY <2>5, <2>9
  <2> HIDE DEF deal
  <2> QED
    BY <2>4, <2>5, <2>10
<1>9. deal \in [ToSet(ids) -> 1..n]
  <2>1. ASSUME NEW id \in ToSet(ids)
        PROVE  dealt(id) \in 1..n
    <3> DEFINE g == G[place(id)]
               r == rank(g)
    <3>1. CASE g \in V /\ r <= n
      <4>1. r \in 1..m
        <5> HIDE DEF g, V, rank, m
        <5> QED
          BY <1>4, <3>1
      <4>2. dealt(id) = r
        BY <3>1
      <4> HIDE DEF dealt, r, m
      <4> QED
        BY <1>1, <3>1, <4>1, <4>2
    <3>2. CASE ~(g \in V /\ r <= n)
      <4>1. dealt(id) = 1
        BY <3>2
      <4> HIDE DEF dealt
      <4> QED
        BY <4>1
    <3> QED
      BY <3>1, <3>2
  <2> HIDE DEF dealt
  <2> QED
    BY <2>1
<1> HIDE DEF deal
<1> QED
  BY <1>7, <1>8, <1>9 DEF Separable

\* How many groups there are is how far the sources can be dealt out.
LEMMA GroupsAreSeparable ==
    ASSUME NEW ids, Sequential(ids), ToSet(ids) \subseteq DOMAIN Source, NEW n \in Nat \ {0}
    PROVE  IndependentSourceGroups(ids) >= n <=> Separable(ToSet(ids), n)
BY DealtOut, CanBeDealt

\* The greater of 2 and another number.
LEMMA MaxOfTwo ==
    ASSUME NEW a \in Int
    PROVE  Max({2, a}) = IF a >= 2 THEN a ELSE 2
<1> DEFINE m == IF a >= 2 THEN a ELSE 2
<1>1. m \in {2, a} /\ \A y \in {2, a} : m >= y
  OBVIOUS
<1>2. \A x \in {2, a} : (\A y \in {2, a} : x >= y) => x = m
  OBVIOUS
<1> HIDE DEF m
<1>3. Max({2, a}) = m
  BY <1>1, <1>2 DEF Max
<1> QED
  BY <1>3 DEF m

\* What a claim cites.
CitedBy(c) == {c.artifact} \cup {s.artifact : s \in ToSet(c.sources)}

\* The list of the sources of a claim has those that it cites.
LEMMA SourcesOfClaim ==
    ASSUME NEW c, IsClaim(c)
    PROVE  LET all == <<c.artifact>> \o [n \in DOMAIN c.sources |-> c.sources[n].artifact]
           IN  Sequential(all) /\ ToSet(all) = CitedBy(c)
<1> DEFINE a == <<c.artifact>>
           b == [n \in DOMAIN c.sources |-> c.sources[n].artifact]
           N == Len(c.sources)
<1>1. c.sources \in Seq(ToSet(c.sources))
  BY DEF IsClaim
<1>2. N \in Nat /\ DOMAIN c.sources = 1..N
  <2> DEFINE s == c.sources
             S == ToSet(s)
  <2>1. s \in Seq(S)
    BY <1>1
  <2> HIDE DEF s, S
  <2>2. Sequential(s)
    BY <2>1 DEF Sequential
  <2>3. Len(s) \in Nat /\ DOMAIN s = 1..Len(s)
    BY <2>2, Places
  <2> QED
    BY <2>3 DEF s
<1>3. Sequential(b) /\ Len(b) = N /\ DOMAIN b = 1..N /\ \A n \in 1..N : b[n] = c.sources[n].artifact
  <2>1. b = [n \in 1..N |-> b[n]]
    BY <1>2
  <2>2. DOMAIN b = 1..N /\ \A n \in 1..N : b[n] = c.sources[n].artifact
    BY <1>2
  <2> HIDE DEF b, N
  <2> QED
    BY <1>2, <2>1, <2>2, Listed
<1>4. Sequential(a) /\ Len(a) = 1 /\ DOMAIN a = {1} /\ a[1] = c.artifact
  <2>1. a \in Seq({c.artifact})
    OBVIOUS
  <2>2. Sequential(a)
    BY <2>1 DEF Sequential
  <2> QED
    BY <2>2
<1> DEFINE all == a \o b
<1> HIDE DEF a, b, N
<1>5. /\ Sequential(all) /\ Len(all) = 1 + N
      /\ \A i \in DOMAIN all : \/ i \in DOMAIN a /\ all[i] = a[i]
                               \/ i \notin DOMAIN a /\ i - 1 \in DOMAIN b /\ all[i] = b[i - 1]
  <2>1. /\ Sequential(all) /\ Len(all) = Len(a) + Len(b)
        /\ \A i \in DOMAIN all : \/ i \in DOMAIN a /\ all[i] = a[i]
                                 \/ i \notin DOMAIN a /\ i - Len(a) \in DOMAIN b /\ all[i] = b[i - Len(a)]
    BY <1>3, <1>4, Joining
  <2> HIDE DEF all
  <2> QED
    BY <1>3, <1>4, <2>1
<1> HIDE DEF all
<1>6. DOMAIN all = 1..(1 + N)
  BY <1>5, Places
<1>7. \A x \in CitedBy(c) : x \in ToSet(all)
  <2>1. 1 \in DOMAIN all /\ all[1] = c.artifact
    BY <1>2, <1>4, <1>5, <1>6
  <2>2. ASSUME NEW n \in 1..N
        PROVE  n + 1 \in DOMAIN all /\ all[n + 1] = c.sources[n].artifact
    <3>1. n + 1 \in DOMAIN all /\ n + 1 \notin DOMAIN a /\ n + 1 - 1 = n
      BY <1>2, <1>4, <1>6
    <3>2. all[n + 1] = b[n + 1 - 1]
      BY <1>5, <3>1
    <3> QED
      BY <1>3, <3>1, <3>2
  <2> QED
    BY <1>2, <2>1, <2>2 DEF ToSet, CitedBy
<1>8. \A x \in ToSet(all) : x \in CitedBy(c)
  <2> SUFFICES ASSUME NEW i \in DOMAIN all
               PROVE  all[i] \in CitedBy(c)
    BY DEF ToSet
  <2>1. CASE i \in DOMAIN a /\ all[i] = a[i]
    BY <1>4, <2>1 DEF CitedBy
  <2>2. CASE i - 1 \in DOMAIN b /\ all[i] = b[i - 1]
    <3>1. all[i] = c.sources[i - 1].artifact /\ i - 1 \in DOMAIN c.sources
      BY <1>2, <1>3, <2>2
    <3> QED
      BY <3>1 DEF CitedBy, ToSet
  <2> QED
    BY <1>5, <2>1, <2>2
<1> QED
  BY <1>5, <1>7, <1>8 DEF all, a, b

\* A claim is corroborated by as many independent sources as it needs.
LEMMA ClaimsAreCorroborated ==
    ASSUME NEW c, IsClaim(c), registered \subseteq DOMAIN Source, c.sources # <<>>, CitedBy(c) \subseteq registered
    PROVE  Corroborated(c) <=> /\ \A s \in ToSet(c.sources) : Quotes(s.artifact, s.quote)
                               /\ Separable(CitedBy(c), Max({2, c.min}))
<1> DEFINE all == <<c.artifact>> \o [n \in DOMAIN c.sources |-> c.sources[n].artifact]
           m == Required(c.min, 2)
           I == IndependentSourceGroups(all)
<1>1. c.min \in Int
  BY DEF IsClaim
<1>2. m \in Nat \ {0} /\ m = Max({2, c.min})
  <2>1. Max({2, c.min}) = IF c.min >= 2 THEN c.min ELSE 2
    BY <1>1, MaxOfTwo
  <2> QED
    BY <1>1, <2>1 DEF Required
<1>3. Sequential(all) /\ ToSet(all) = CitedBy(c)
  BY SourcesOfClaim
<1> HIDE DEF all, m
<1>4. I >= m <=> Separable(ToSet(all), m)
  BY <1>2, <1>3, GroupsAreSeparable
<1>5. \A s \in ToSet(c.sources) : s.artifact \in registered
  BY DEF CitedBy
<1>6. Corroborated(c) <=> (\A s \in ToSet(c.sources) : s.artifact \in registered /\ Quotes(s.artifact, s.quote)) /\ I >= m
  BY Zenon DEF Corroborated, all, m
<1> HIDE DEF I
<1> QED
  BY <1>2, <1>3, <1>4, <1>5, <1>6, Zenon

-----------------------------------------------------------------------------
(* Judgments.                                                              *)

\* A supported judgment has as many independent sources as it needs.
LEMMA JudgmentsAreSupported ==
    ASSUME NEW j, IsJudgment(j), registered \subseteq DOMAIN Source, j.verdict = "supported",
           \A s \in j.support \cup j.refute : SpanOk(s)
    PROVE  JudgmentOk(j) <=> /\ j.refute = {}
                             /\ Separable({s.artifact : s \in j.support}, Required(j.min, 1))
<1> DEFINE S == {s.artifact : s \in j.support}
           m == Required(j.min, 1)
           I == IndependentSourceGroups(SetToSeq(S))
<1>1. j.min \in Int /\ IsFiniteSet(j.support)
  BY DEF IsJudgment
<1>2. m \in Nat \ {0}
  BY <1>1 DEF Required
<1>3. VerifiedSpans(j.support) = S /\ (VerifiedSpans(j.refute) = {} <=> j.refute = {})
  <2>1. {t \in j.support : SpanOk(t)} = j.support /\ {t \in j.refute : SpanOk(t)} = j.refute
    OBVIOUS
  <2>2. VerifiedSpans(j.support) = S /\ VerifiedSpans(j.refute) = {s.artifact : s \in j.refute}
    BY <2>1 DEF VerifiedSpans
  <2>3. \A s \in j.refute : s.artifact \in {t.artifact : t \in j.refute}
    OBVIOUS
  <2>4. j.refute = {} => {t.artifact : t \in j.refute} = {}
    OBVIOUS
  <2> QED
    BY <2>2, <2>3, <2>4, Zenon
<1>4. IsFiniteSet(S)
  <2> DEFINE f == [s \in j.support |-> s.artifact]
  <2>1. S = Values(f, j.support)
    <3>1. \A s \in j.support : f[s] = s.artifact
      OBVIOUS
    <3> HIDE DEF f
    <3> QED
      BY <3>1 DEF Values
  <2> HIDE DEF f, S
  <2> QED
    BY <1>1, <2>1, ValuesOf
<1>5. Sequential(SetToSeq(S)) /\ ToSet(SetToSeq(S)) = S
  <2> HIDE DEF S
  <2> QED
    BY <1>4, ListOfSet
<1>6. S \subseteq DOMAIN Source
  BY DEF SpanOk
<1> HIDE DEF S, m
<1>7. I >= m <=> Separable(S, m)
  BY <1>2, <1>5, <1>6, GroupsAreSeparable
<1>8. Separable(S, m) => S # {}
  BY <1>2 DEF Separable
<1>9. JudgmentOk(j) <=> S # {} /\ VerifiedSpans(j.refute) = {} /\ I >= m
  <2>1. JudgmentOk(j) <=> /\ VerifiedSpans(j.support) # {} /\ VerifiedSpans(j.refute) = {}
                          /\ IndependentSourceGroups(SetToSeq(VerifiedSpans(j.support))) >= Required(j.min, 1)
    BY DEF JudgmentOk
  <2> QED
    BY <1>3, <2>1 DEF m
<1> HIDE DEF I
<1> QED
  BY <1>3, <1>7, <1>8, <1>9 DEF S, m

-----------------------------------------------------------------------------
(* The tokens of a derived claim.                                          *)

\* at lists places of a text, from left to right.
Rising(at, text, M) ==
    /\ M \in Nat /\ at \in [1..M -> DOMAIN text] /\ DOMAIN text \subseteq Nat
    /\ \A n, m \in 1..M : n <= m => at[n] <= at[m]

\* The places from l to r have every token.
Covering(text, tokens, at, l, r) == tokens \subseteq {text[at[n]] : n \in l..r}

\* A window whose width is that of the whole text, or of places with every token.
Fits(text, tokens, at, M, w) ==
    /\ w.left \in Nat \ {0} /\ w.best \in Nat
    /\ \/ w.best = Len(text) + 1
       \/ \E r \in 1..M : \E l \in 1..r : w.best = at[r] - at[l] + 1 /\ Covering(text, tokens, at, l, r)

\* A window that grows fits as before.
LEMMA GrowingFits ==
    ASSUME NEW text, NEW tokens, NEW at, NEW M, Rising(at, text, M), NEW w, Fits(text, tokens, at, M, w),
           NEW r \in 1..M
    PROVE  Fits(text, tokens, at, M, Grow(text, tokens, at, w, r))
<1> DEFINE C == {left \in w.left..r : tokens \subseteq {text[at[n]] : n \in left..r}}
           B == {w.best} \cup {at[r] - at[left] + 1 : left \in C}
           new == Grow(text, tokens, at, w, r)
<1>1. w.left \in Nat \ {0} /\ w.best \in Nat /\ M \in Nat /\ r \in 1..M
  BY DEF Fits, Rising
<1>2. C \in SUBSET Nat /\ \A l \in C : l \in 1..r /\ Covering(text, tokens, at, l, r)
  BY <1>1 DEF Covering
<1>3. IsFiniteSet(C)
  <2>1. \A l \in C : l <= r
    BY <1>1
  <2> HIDE DEF C
  <2> QED
    BY <1>1, <1>2, <2>1, FS_BoundedSetOfNaturals
<1>4. CASE C = {}
  <2>1. new = w
    BY <1>4 DEF Grow
  <2> QED
    BY <2>1
<1>5. CASE C # {}
  <2>1. new = [left |-> Max(C) + 1, best |-> Min(B)]
    BY <1>5 DEF Grow
  <2>2. Max(C) \in C
    <3> HIDE DEF C
    <3>1. PICK n \in C : \A k \in C : k <= n
      BY <1>2, <1>3, <1>5, MostOf
    <3>2. \A k \in C : n >= k
      BY <1>2, <3>1
    <3> QED
      BY <3>1, <3>2 DEF Max
  <2>3. \A l \in C : at[r] - at[l] + 1 \in Nat
    <3> SUFFICES ASSUME NEW l \in C
                 PROVE  at[r] - at[l] + 1 \in Nat
      OBVIOUS
    <3>1. l \in 1..M /\ l <= r
      BY <1>1, <1>2
    <3>2. at[l] \in Nat /\ at[r] \in Nat /\ at[l] <= at[r]
      BY <1>1, <3>1 DEF Rising
    <3> QED
      BY <3>2
  <2>4. B \in SUBSET Nat /\ B # {}
    <3> HIDE DEF C
    <3> QED
      BY <1>1, <2>3
  <2>5. Min(B) \in B
    <3> HIDE DEF B
    <3>1. \E n \in B : \A k \in B : n <= k
      BY <2>4, LeastOf
    <3> QED
      BY <3>1 DEF Min
  <2> DEFINE b == Min(B)
             m == Max(C)
  <2>6. b = w.best \/ \E l \in C : b = at[r] - at[l] + 1
    <3> HIDE DEF C, b
    <3> QED
      BY <2>5 DEF b
  <2>7. b \in Nat
    BY <2>4, <2>5
  <2>8. b = Len(text) + 1 \/ \E q \in 1..M : \E l \in 1..q : b = at[q] - at[l] + 1 /\ Covering(text, tokens, at, l, q)
    <3>1. CASE b = w.best
      <4> HIDE DEF b
      <4> QED
        BY <3>1 DEF Fits
    <3>2. CASE \E l \in C : b = at[r] - at[l] + 1
      <4> HIDE DEF b, C
      <4>1. PICK l \in C : b = at[r] - at[l] + 1
        BY <3>2
      <4>2. l \in 1..r /\ Covering(text, tokens, at, l, r)
        BY <1>2
      <4> QED
        BY <1>1, <4>1, <4>2
    <3> QED
      BY <2>6, <3>1, <3>2
  <2>9. m + 1 \in Nat \ {0}
    <3> HIDE DEF m
    <3>1. m \in Nat
      BY <1>2, <2>2 DEF m
    <3> QED
      BY <3>1
  <2>10. new.left = m + 1 /\ new.best = b
    BY <2>1
  <2>11. Fits(text, tokens, at, M, new)
    <3> HIDE DEF m, b, new
    <3> QED
      BY <2>7, <2>8, <2>9, <2>10 DEF Fits
  <2> QED
    BY <2>11
<1> QED
  BY <1>4, <1>5

\* The narrowest window found is as wide as the text, or has every token.
LEMMA WindowsFound ==
    ASSUME NEW text, Sequential(text), NEW tokens
    PROVE  LET best == MinWindowCover(text, tokens)
           IN  /\ best \in Nat
               /\ \/ best = Len(text) + 1
                  \/ \E from \in DOMAIN text : tokens \subseteq {text[i] : i \in DOMAIN text \cap (from..from + best - 1)}
<1> DEFINE P == {i \in DOMAIN text : text[i] \in tokens}
           at == Ranked(P)
           M == Len(at)
           n == Len(text)
<1>1. n \in Nat /\ DOMAIN text = 1..n
  BY Places
<1>2. P \in SUBSET Int /\ IsFiniteSet(P) /\ P \subseteq DOMAIN text
  <2>1. IsFiniteSet(DOMAIN text)
    BY <1>1, FS_Interval
  <2>2. P \in SUBSET DOMAIN text
    OBVIOUS
  <2> HIDE DEF n, P
  <2>3. IsFiniteSet(P)
    BY <2>1, <2>2, FS_Subset
  <2> QED
    BY <1>1, <2>2, <2>3
<1>3. /\ Cardinality(P) \in Nat /\ at \in [1..Cardinality(P) -> P]
      /\ \A a, b \in 1..Cardinality(P) : a < b <=> at[a] < at[b]
  <2> HIDE DEF P
  <2> QED
    BY <1>2, RankedLists
<1>4. M = Cardinality(P)
  <2> DEFINE k == Cardinality(P)
  <2>1. k \in Nat /\ at = [i \in 1..k |-> at[i]]
    BY <1>3
  <2> HIDE DEF k, at
  <2>2. Len(at) = k
    BY <2>1, Listed
  <2> QED
    BY <2>2 DEF k
<1>5. Rising(at, text, M)
  <2>1. M \in Nat /\ at \in [1..M -> P] /\ \A a, b \in 1..M : a < b <=> at[a] < at[b]
    BY <1>3, <1>4
  <2>2. DOMAIN text \subseteq Nat
    BY <1>1
  <2> HIDE DEF M, at, P
  <2>3. at \in [1..M -> DOMAIN text]
    BY <1>2, <2>1
  <2>4. ASSUME NEW a \in 1..M, NEW b \in 1..M, a <= b
        PROVE  at[a] <= at[b]
    <3>1. at[a] \in Nat /\ at[b] \in Nat
      BY <2>2, <2>3
    <3>2. CASE a < b
      BY <2>1, <3>1, <3>2
    <3>3. CASE a = b
      BY <3>1, <3>3
    <3> QED
      BY <2>4, <3>2, <3>3
  <2> QED
    BY <2>1, <2>2, <2>3, <2>4 DEF Rising
<1> HIDE DEF P
<1> DEFINE first == [left |-> 1, best |-> n + 1]
           D == {w \in [left : Nat, best : Nat] : Fits(text, tokens, at, M, w)}
           step == [r \in 1..M |-> [w \in D |-> Grow(text, tokens, at, w, r)]]
           Loop(f) == [r \in 0..M |-> IF r = 0 THEN first ELSE Grow(text, tokens, at, f[r - 1], r)]
<1>6. first \in D
  <2>1. first \in [left : Nat, best : Nat] /\ first.left = 1 /\ first.best = n + 1
    BY <1>1
  <2>2. Fits(text, tokens, at, M, first)
    <3>1. n + 1 \in Nat
      BY <1>1
    <3> HIDE DEF first, M, at
    <3> QED
      BY <2>1, <3>1 DEF Fits
  <2> QED
    BY <2>1, <2>2
<1>7. ASSUME NEW r \in 1..M, NEW w \in D
      PROVE  Grow(text, tokens, at, w, r) \in D
  <2> DEFINE g == Grow(text, tokens, at, w, r)
  <2>1. Fits(text, tokens, at, M, g)
    <3>1. Fits(text, tokens, at, M, w)
      OBVIOUS
    <3> HIDE DEF M, at, D
    <3> QED
      BY <1>5, <3>1, GrowingFits
  <2>2. g = [left |-> g.left, best |-> g.best]
    <3>1. w = [left |-> w.left, best |-> w.best]
      OBVIOUS
    <3> QED
      BY <3>1 DEF Grow
  <2>3. g.left \in Nat /\ g.best \in Nat
    BY <2>1 DEF Fits
  <2>4. g \in [left : Nat, best : Nat]
    <3> HIDE DEF g
    <3> QED
      BY <2>2, <2>3
  <2> QED
    BY <2>1, <2>4
<1> DEFINE window == CHOOSE f : f = Loop(f)
<1>8. M \in Nat
  BY <1>5 DEF Rising
<1>9. window = Loop(window)
  <2>1. step \in [1..M -> [D -> D]]
    <3> HIDE DEF M, at, D
    <3> QED
      BY <1>7
  <2>2. \A r \in 1..M : \A w \in D : step[r][w] = Grow(text, tokens, at, w, r)
    OBVIOUS
  <2> HIDE DEF M, at, D, step, first, Loop
  <2>3. PICK f : f \in [0..M -> D] /\ Iterates(f, M, first, step)
    BY <1>6, <1>8, <2>1, Looping
  <2>4. \A r \in 0..M : r # 0 => r \in 1..M /\ r - 1 \in 0..M
    BY <1>8
  <2>5. \A r \in 0..M : f[r] = IF r = 0 THEN first ELSE Grow(text, tokens, at, f[r - 1], r)
    BY <2>2, <2>3, <2>4 DEF Iterates
  <2>6. f = Loop(f)
    BY <2>3, <2>5 DEF Loop
  <2> QED
    BY <2>6
<1>10. MinWindowCover(text, tokens) = window[M].best
  BY DEF MinWindowCover, P
<1> HIDE DEF window, at, M, n, first
<1>11. window[0] = first /\ \A r \in 0..M : r < M => window[r + 1] = Grow(text, tokens, at, window[r], r + 1)
  <2>1. 0 \in 0..M /\ \A r \in 0..M : r < M => r + 1 \in 0..M /\ r + 1 # 0 /\ r + 1 - 1 = r
    BY <1>8
  <2> QED
    BY <1>9, <2>1
<1> DEFINE S == {r \in 0..M : window[r] \in D}
<1>12. M \in S
  <2> HIDE DEF D
  <2>1. 0 \in S /\ S \in SUBSET Nat
    BY <1>6, <1>8, <1>11
  <2>2. ASSUME NEW r \in S, r < M
        PROVE  r + 1 \in S
    <3>1. r \in 0..M /\ r + 1 \in 1..M /\ r + 1 \in 0..M
      BY <1>8, <2>2
    <3> QED
      BY <1>7, <1>11, <2>2, <3>1
  <2> HIDE DEF S
  <2> QED
    BY <1>8, <2>1, <2>2, KeptByLoop
<1> DEFINE w == window[M]
<1>13. Fits(text, tokens, at, M, w)
  BY <1>12
<1> HIDE DEF w
<1>14. ASSUME NEW r \in 1..M, NEW l \in 1..r, w.best = at[r] - at[l] + 1, Covering(text, tokens, at, l, r)
       PROVE  \E from \in DOMAIN text : tokens \subseteq {text[i] : i \in DOMAIN text \cap (from..from + w.best - 1)}
  <2> DEFINE from == at[l]
  <2>1. l \in 1..M /\ r \in 1..M
    BY <1>8
  <2>2. from \in DOMAIN text /\ at[r] \in DOMAIN text /\ DOMAIN text \subseteq Nat
    BY <1>5, <2>1 DEF Rising
  <2>3. \A k \in l..r : at[k] \in DOMAIN text /\ at[k] \in from..from + w.best - 1
    <3> SUFFICES ASSUME NEW k \in l..r
                 PROVE  at[k] \in DOMAIN text /\ at[k] \in from..from + w.best - 1
      OBVIOUS
    <3>1. k \in 1..M /\ l <= k /\ k <= r
      BY <1>8, <2>1
    <3>2. at[l] <= at[k] /\ at[k] <= at[r] /\ at[k] \in DOMAIN text /\ at[k] \in Nat
      BY <1>5, <2>1, <3>1 DEF Rising
    <3>3. at[l] \in Nat /\ at[r] \in Nat
      BY <2>2
    <3> QED
      BY <1>14, <3>2, <3>3
  <2>4. tokens \subseteq {text[i] : i \in DOMAIN text \cap (from..from + w.best - 1)}
    <3> HIDE DEF from
    <3> QED
      BY <1>14, <2>3 DEF Covering
  <2> QED
    BY <2>2, <2>4
<1>15. w.best \in Nat /\ (w.best = n + 1 \/ \E r \in 1..M : \E l \in 1..r : w.best = at[r] - at[l] + 1 /\ Covering(text, tokens, at, l, r))
  BY <1>13 DEF Fits, n
<1> QED
  BY <1>10, <1>14, <1>15 DEF n, w

\* A text in lower case has the places of the text.
LEMMA LowerCase ==
    ASSUME NEW text, Sequential(text)
    PROVE  LET low == NormalizeForMatch(text)
           IN  /\ Sequential(low) /\ Len(low) = Len(text) /\ DOMAIN low = DOMAIN text
               /\ \A i \in DOMAIN text : low[i] = Lower(text[i])
<1> DEFINE low == NormalizeForMatch(text)
           n == Len(text)
<1>1. n \in Nat /\ DOMAIN text = 1..n
  BY Places
<1>2. DOMAIN low = DOMAIN text /\ \A i \in DOMAIN text : low[i] = Lower(text[i])
  BY DEF NormalizeForMatch
<1>3. low = [i \in 1..n |-> low[i]]
  BY <1>1 DEF NormalizeForMatch
<1> HIDE DEF low, n
<1>4. Sequential(low) /\ Len(low) = n
  BY <1>1, <1>3, Listed
<1> QED
  BY <1>2, <1>4 DEF low, n

\* Texts are lists of words.
LEMMA SourceTexts ==
    ASSUME NEW id \in DOMAIN Source
    PROVE  Sequential(Source[id].text)
<1>1. Source[id].text \in Seq(ToSet(Source[id].text))
  BY GateAssumption
<1> QED
  BY <1>1, Zenon DEF Sequential

\* A claim may always be as wide as one word.
LEMMA WidthOfClaim ==
    ASSUME NEW c, IsClaim(c)
    PROVE  Widest(c) \in Nat \ {0}
<1> DEFINE q == c.anchor.quote
           m == 6 * Len(q)
<1>1. Sequential(q)
  BY Zenon DEF IsClaim, Sequential
<1>2. Len(q) \in Nat
  BY <1>1, Places
<1>3. m \in Nat /\ ScatterFloor \in Nat \ {0}
  <2> HIDE DEF q
  <2> QED
    BY <1>2, GateAssumption
<1> HIDE DEF m
<1>4. \E x \in {ScatterFloor, m} : \A y \in {ScatterFloor, m} : x >= y
  BY <1>3
<1>5. Max({ScatterFloor, m}) \in {ScatterFloor, m} /\ \A y \in {ScatterFloor, m} : Max({ScatterFloor, m}) >= y
  BY <1>4 DEF Max
<1>6. Max({ScatterFloor, m}) \in Nat \ {0}
  BY <1>3, <1>5
<1> QED
  BY <1>6 DEF Widest, m

\* An unwarned claim that is derived from a text has its tokens close together.
LEMMA TokensAreClose ==
    ASSUME NEW c, IsClaim(c), c.artifact \in DOMAIN Source, c.anchor.type = "text_span", c.taxonomy # "quote",
           Grounded(c), Warnings(c) = {}
    PROVE  LET text == NormalizeForMatch(Source[c.artifact].text)
           IN  \E from \in 1..Len(text) + 1 : Tokens(c) \subseteq
                   {text[i] : i \in DOMAIN text \cap (from..from + Widest(c) - 1)}
<1> DEFINE text == NormalizeForMatch(Source[c.artifact].text)
           T == Tokens(c)
           W == Widest(c)
           n == Len(text)
           Near(from) == T \subseteq {text[i] : i \in DOMAIN text \cap (from..from + W - 1)}
<1>1. Sequential(text) /\ n \in Nat /\ DOMAIN text = 1..n
  <2>1. Sequential(Source[c.artifact].text)
    BY SourceTexts
  <2>2. Sequential(text)
    BY <2>1, LowerCase
  <2> HIDE DEF text
  <2> QED
    BY <2>2, Places
<1>2. W \in Nat \ {0}
  BY WidthOfClaim
<1>3. T \subseteq ToSet(text)
  <2>1. c.anchor.type \notin DOMAIN AnchorKind /\ c.anchor.type # "none"
    BY DEF AnchorKind
  <2> QED
    BY <2>1 DEF Grounded
<1>4. ~Scattered(c)
  <2>1. Scattered(c) => "scattered" \in Warnings(c)
    BY DEF Warnings
  <2> QED
    BY <2>1
<1>5. Cardinality(T) >= 2 => ~(MinWindowCover(text, T) > W)
  BY <1>4 DEF Scattered
<1> HIDE DEF text, T, W, n
<1>6. IsFiniteSet(T) /\ Cardinality(T) \in Nat
  <2>1. ToSet(text) = Values(text, DOMAIN text)
    BY DEF ToSet, Values
  <2>2. IsFiniteSet(DOMAIN text)
    <3> DEFINE z == 1
    <3>1. z \in Int /\ n \in Int /\ DOMAIN text = z..n
      BY <1>1
    <3> HIDE DEF z
    <3> QED
      BY <3>1, FS_Interval
  <2>3. IsFiniteSet(ToSet(text))
    BY <2>1, <2>2, ValuesOf
  <2> QED
    BY <1>3, <2>3, FS_Subset, FS_CardinalityType
<1>7. CASE Cardinality(T) >= 2
  <2> DEFINE best == MinWindowCover(text, T)
  <2>1. /\ best \in Nat
        /\ best = n + 1 \/ \E from \in DOMAIN text : T \subseteq {text[i] : i \in DOMAIN text \cap (from..from + best - 1)}
    BY <1>1, WindowsFound DEF n
  <2>2. best <= W
    <3> HIDE DEF best
    <3>1. ~(best > W)
      BY <1>5, <1>7 DEF best
    <3> QED
      BY <1>2, <2>1, <3>1
  <2> HIDE DEF best
  <2>3. CASE best = n + 1
    <3>1. 1 \in 1..n + 1 /\ \A i \in DOMAIN text : i \in 1..1 + W - 1
      BY <1>1, <1>2, <2>2, <2>3
    <3>2. Near(1)
      BY <1>3, <3>1 DEF ToSet
    <3> QED
      BY <3>1, <3>2 DEF text, T, W, n
  <2>4. CASE \E from \in DOMAIN text : T \subseteq {text[i] : i \in DOMAIN text \cap (from..from + best - 1)}
    <3>1. PICK from \in DOMAIN text : T \subseteq {text[i] : i \in DOMAIN text \cap (from..from + best - 1)}
      BY <2>4
    <3>2. from \in 1..n + 1 /\ \A i \in Int : i \in from..from + best - 1 => i \in from..from + W - 1
      BY <1>1, <1>2, <2>1, <2>2
    <3>3. Near(from)
      BY <1>1, <3>1, <3>2
    <3> QED
      BY <3>2, <3>3 DEF text, T, W, n
  <2> QED
    BY <2>1, <2>3, <2>4
<1>8. CASE Cardinality(T) < 2
  <2>1. T = {} \/ \E t : T = {t}
    <3>1. Cardinality(T) = 0 \/ Cardinality(T) = 1
      BY <1>6, <1>8
    <3> QED
      BY <1>6, <3>1, FS_EmptySet, FS_Singleton
  <2>2. CASE T = {}
    <3>1. 1 \in 1..n + 1 /\ Near(1)
      BY <1>1, <2>2
    <3> QED
      BY <3>1 DEF text, T, W, n
  <2>3. CASE \E t : T = {t}
    <3>1. PICK t : T = {t}
      BY <2>3
    <3>2. PICK i \in DOMAIN text : text[i] = t
      BY <1>3, <3>1 DEF ToSet
    <3>3. i \in 1..n + 1 /\ i \in i..i + W - 1
      BY <1>1, <1>2
    <3>4. Near(i)
      BY <3>1, <3>2, <3>3
    <3> QED
      BY <3>3, <3>4 DEF text, T, W, n
  <2> QED
    BY <2>1, <2>2, <2>3
<1> QED
  BY <1>6, <1>7, <1>8

-----------------------------------------------------------------------------
(* What extraction proposes.                                               *)

\* Part of a text in lower case is part of the text in lower case.
LEMMA QuotesOfText ==
    ASSUME NEW text, Sequential(text), NEW quote \in SubSeqs(text)
    PROVE  Sequential(quote) /\ Includes(NormalizeForMatch(text), NormalizeForMatch(quote))
<1> DEFINE low == NormalizeForMatch(text)
           N == Len(text)
<1>1. N \in Nat /\ DOMAIN text = 1..N
  BY Places
<1>2. DOMAIN low = 1..N /\ Len(low) = N /\ \A i \in 1..N : low[i] = Lower(text[i])
  BY <1>1, LowerCase
<1>3. PICK i \in 0..N, j \in 0..N : quote = SubSeq(text, i + 1, j)
  BY DEF SubSeqs
<1> DEFINE L == IF i + 1 <= j THEN j - (i + 1) + 1 ELSE 0
           b == i + 1
<1>4. b \in Int /\ j \in Int /\ \A k \in b..j : text[k] \in ToSet(text) /\ low[k] \in ToSet(low)
  <2>1. \A k \in b..j : k \in 1..N
    BY <1>1
  <2> QED
    BY <1>1, <1>2, <2>1 DEF ToSet
<1> DEFINE part == SubSeq(low, b, j)
<1> HIDE DEF low, N, b
<1>5. /\ quote \in Seq(ToSet(text)) /\ Len(quote) = IF b <= j THEN j - b + 1 ELSE 0
      /\ \A k \in 1..(j - b + 1) : quote[k] = text[b + k - 1]
  <2>1. quote = SubSeq(text, b, j)
    BY <1>3 DEF b
  <2> QED
    BY <1>4, <2>1, SubSeqProperties
<1>6. /\ part \in Seq(ToSet(low)) /\ Len(part) = IF b <= j THEN j - b + 1 ELSE 0
      /\ \A k \in 1..(j - b + 1) : part[k] = low[b + k - 1]
  BY <1>4, SubSeqProperties
<1>7. Sequential(quote) /\ Sequential(part)
  BY <1>5, <1>6 DEF Sequential
<1> DEFINE lowquote == NormalizeForMatch(quote)
<1>8. /\ Sequential(lowquote) /\ Len(lowquote) = Len(quote) /\ DOMAIN lowquote = DOMAIN quote
      /\ \A k \in DOMAIN quote : lowquote[k] = Lower(quote[k])
  BY <1>7, LowerCase
<1> DEFINE M == Len(quote)
<1>9. M \in Nat /\ DOMAIN quote = 1..M /\ DOMAIN part = 1..M
  BY <1>5, <1>6, <1>7, Places
<1>10. \A k \in 1..M : lowquote[k] = part[k]
  <2> SUFFICES ASSUME NEW k \in 1..M
               PROVE  lowquote[k] = part[k]
    OBVIOUS
  <2>1. k \in 1..(j - b + 1) /\ k \in DOMAIN quote
    BY <1>4, <1>5, <1>9
  <2>2. b + k - 1 \in 1..N
    BY <1>1, <1>3, <1>4, <2>1 DEF b
  <2> HIDE DEF part, lowquote
  <2> QED
    BY <1>2, <1>5, <1>6, <1>8, <2>1, <2>2
<1>11. lowquote = part
  <2>1. lowquote = [k \in 1..M |-> lowquote[k]] /\ part = [k \in 1..M |-> part[k]]
    <3>1. DOMAIN lowquote = 1..M
      BY <1>8, <1>9
    <3>2. lowquote = [k \in DOMAIN lowquote |-> lowquote[k]]
      BY DEF NormalizeForMatch
    <3>3. part = [k \in DOMAIN part |-> part[k]]
      <4> HIDE DEF part
      <4>1. part \in [1..Len(part) -> ToSet(low)]
        BY <1>6, LenProperties
      <4> QED
        BY <4>1
    <3> HIDE DEF part, lowquote, M
    <3> QED
      BY <1>9, <3>1, <3>2, <3>3
  <2> HIDE DEF lowquote, part, M
  <2> QED
    BY <1>10, <2>1
<1>12. N \in Nat /\ Len(low) = N /\ j \in 0..N /\ b \in 1..(N + 1)
  BY <1>1, <1>2, <1>3 DEF b
<1>13. Len(lowquote) = M /\ M = IF b <= j THEN j - b + 1 ELSE 0
  BY <1>5, <1>8
<1> HIDE DEF M, lowquote
<1>14. \E k \in 0..(Len(low) - M) : SubSeq(low, k + 1, k + M) = lowquote
  <2>1. CASE b <= j
    <3>1. b - 1 \in 0..(Len(low) - M) /\ (b - 1) + 1 = b /\ (b - 1) + M = j
      BY <1>12, <1>13, <2>1
    <3>2. SubSeq(low, (b - 1) + 1, (b - 1) + M) = lowquote
      BY <1>11, <3>1
    <3> QED
      BY <3>1, <3>2
  <2>2. CASE ~(b <= j)
    <3>1. M = 0 /\ 0 \in 0..(Len(low) - M)
      BY <1>12, <1>13, <2>2
    <3> DEFINE none == SubSeq(low, 0 + 1, 0 + 0)
    <3>2. none \in Seq(ToSet(low)) /\ Len(none) = 0
      <4> DEFINE from == 0 + 1
                 to == 0 + 0
      <4>1. from \in Int /\ to \in Int /\ to < from /\ \A k \in from..to : low[k] \in ToSet(low)
        OBVIOUS
      <4> HIDE DEF from, to
      <4> QED
        BY <4>1, SubSeqProperties
    <3>3. none = <<>> /\ part = <<>>
      <4>1. part \in Seq(ToSet(low)) /\ Len(part) = 0
        BY <1>6, <2>2
      <4> HIDE DEF none, part
      <4> QED
        BY <3>2, <4>1, EmptySeq
    <3> QED
      BY <1>11, <3>1, <3>3
  <2> QED
    BY <2>1, <2>2
<1>15. Includes(low, lowquote)
  BY <1>13, <1>14 DEF Includes
<1> QED
  BY <1>7, <1>15 DEF low, lowquote

\* A claim that quotes the text it rests on, and cites nothing else.
Quotation(p) ==
    /\ IsClaim(p) /\ p.sources = <<>> /\ p.type = "text" /\ p.kind = Source[p.artifact].kind
    /\ p.anchor.type = "text_span" /\ p.taxonomy = "quote" /\ Quotes(p.artifact, p.anchor.quote)

\* What is grounded in a text is quoted from it.
LEMMA ProposalsQuote ==
    ASSUME NEW e \in Extractions, e.text \in DOMAIN Source
    PROVE  LET made == ProposeGroundedClaims(e)
           IN  /\ Sequential(made)
               /\ \A n \in DOMAIN made : Quotation(made[n]) /\ made[n].artifact = e.text
<1> DEFINE text == Source[e.text].text
           S == {n \in DOMAIN e.values : LiteralForms(text, e.values[n]) # {}}
           grounded == Chosen(e.values, S)
           quote(forms) == forms[Min(LiteralForms(text, forms))]
           row(n) == [artifact |-> e.text, type |-> "text", kind |-> Source[e.text].kind, stamped |-> FALSE,
                      anchor |-> [type |-> "text_span", quote |-> quote(grounded[n]), tokens |-> <<>>],
                      taxonomy |-> "quote", sources |-> <<>>, min |-> 2]
           made == [n \in DOMAIN grounded |-> row(n)]
<1>1. /\ e.values \in Seq(ToSet(e.values))
      /\ \A forms \in ToSet(e.values) : forms \in Seq(ToSet(forms))
  BY GateAssumption
<1>2. Sequential(e.values) /\ Sequential(text)
  BY <1>1, SourceTexts DEF Sequential
<1>3. /\ Sequential(grounded)
      /\ \A n \in DOMAIN grounded : \E i \in S : grounded[n] = e.values[i]
  <2>1. S \subseteq DOMAIN e.values
    OBVIOUS
  <2> HIDE DEF S
  <2> QED
    BY <1>2, <2>1, ChosenIsExtracted DEF Extracted
<1>4. Len(grounded) \in Nat /\ DOMAIN grounded = 1..Len(grounded)
  <2> HIDE DEF grounded
  <2> QED
    BY <1>3, Places
<1>5. ProposeGroundedClaims(e) = made
  BY DEF ProposeGroundedClaims
<1>6. Sequential(made)
  <2> DEFINE m == Len(grounded)
  <2>1. m \in Nat /\ made = [n \in 1..m |-> made[n]]
    BY <1>4
  <2> HIDE DEF made, m
  <2> QED
    BY <2>1, Listed
<1>7. ASSUME NEW forms \in ToSet(e.values), LiteralForms(text, forms) # {}
      PROVE  quote(forms) \in SubSeqs(text)
  <2> DEFINE F == LiteralForms(text, forms)
  <2>1. forms \in Seq(ToSet(forms))
    BY <1>1
  <2>2. DOMAIN forms \subseteq Nat
    <3>1. Sequential(forms)
      BY <2>1, Zenon DEF Sequential
    <3> QED
      BY <3>1, Places
  <2>3. F \in SUBSET Nat /\ F # {}
    BY <1>7, <2>2 DEF LiteralForms
  <2>4. Min(F) \in F
    <3> HIDE DEF F
    <3> QED
      BY <2>3, LeastOf DEF Min
  <2> QED
    BY <2>4 DEF LiteralForms
<1> HIDE DEF text, grounded
<1>8. ASSUME NEW n \in DOMAIN grounded
      PROVE  Quotation(made[n]) /\ made[n].artifact = e.text
  <2> DEFINE q == quote(grounded[n])
             p == made[n]
  <2>1. PICK i \in S : grounded[n] = e.values[i]
    BY <1>3
  <2>2. grounded[n] \in ToSet(e.values) /\ LiteralForms(text, grounded[n]) # {}
    BY <2>1 DEF ToSet
  <2>3. q \in SubSeqs(text)
    BY <1>7, <2>2
  <2> HIDE DEF q
  <2>4. Sequential(q) /\ Includes(NormalizeForMatch(text), NormalizeForMatch(q))
    BY <1>2, <2>3, QuotesOfText
  <2>5. p = [artifact |-> e.text, type |-> "text", kind |-> Source[e.text].kind, stamped |-> FALSE,
             anchor |-> [type |-> "text_span", quote |-> q, tokens |-> <<>>],
             taxonomy |-> "quote", sources |-> <<>>, min |-> 2]
    BY DEF q
  <2> HIDE DEF p
  <2>6. q \in Seq(ToSet(q))
    BY <2>4, OfItsMembers
  <2>7. <<>> \in Seq(ToSet(<<>>))
    OBVIOUS
  <2>8. IsClaim(p)
    <3>1. p.sources = <<>> /\ p.min = 2 /\ p.anchor.quote = q
      BY <2>5
    <3>2. DOMAIN p = {"artifact", "type", "kind", "stamped", "anchor", "taxonomy", "sources", "min"}
      BY <2>5
    <3>3. p.sources \in Seq(ToSet(p.sources)) /\ p.min \in Int
      BY <2>7, <3>1
    <3>4. p.anchor.quote \in Seq(ToSet(p.anchor.quote))
      BY <2>6, <3>1
    <3> QED
      BY <3>2, <3>3, <3>4 DEF IsClaim
  <2>9. Quotes(e.text, q)
    BY <2>4 DEF Quotes, text
  <2>10. Quotation(p) /\ p.artifact = e.text
    BY <2>5, <2>8, <2>9 DEF Quotation
  <2> QED
    BY <2>10 DEF p
<1>9. DOMAIN made = DOMAIN grounded
  OBVIOUS
<1> HIDE DEF made
<1> QED
  BY <1>5, <1>6, <1>8, <1>9

\* A quotation is refused only for the kind of its source.
LEMMA QuotationsHold ==
    ASSUME NEW p, Quotation(p), p.artifact \in registered
    PROVE  ClaimOk(p) <=> p.kind \in TextGroundable
<1>1. WellTyped(p)
  BY DEF Quotation, WellTyped
<1>2. Corroborated(p)
  BY DEF Quotation, Corroborated
<1>3. Grounded(p) <=> p.kind \in TextGroundable
  <2>1. p.anchor.type = "text_span" /\ p.taxonomy = "quote" /\ Quotes(p.artifact, p.anchor.quote) /\ p.kind = Source[p.artifact].kind
    BY DEF Quotation
  <2>2. p.anchor.type # "none" /\ p.anchor.type \notin DOMAIN AnchorKind
    BY <2>1 DEF AnchorKind
  <2> QED
    BY <2>1, <2>2 DEF Grounded
<1>4. p.kind \in TextGroundable => ProvenanceCited(p)
  BY DEF ProvenanceCited, ProvenanceKinds, TextGroundable
<1> QED
  BY <1>1, <1>2, <1>3, <1>4 DEF ClaimOk

-----------------------------------------------------------------------------
(* The gate.                                                               *)

\* What the gate makes of a claim and of a judgment when R is registered.
ClaimFits(c, R) ==
    /\ c.artifact \in R
    /\ WellTyped(c) /\ ProvenanceCited(c) /\ Grounded(c)
    /\ c.sources # <<>> =>
        /\ \A s \in ToSet(c.sources) : s.artifact \in R /\ Quotes(s.artifact, s.quote)
        /\ IndependentSourceGroups(<<c.artifact>> \o [n \in DOMAIN c.sources |-> c.sources[n].artifact])
               >= Required(c.min, 2)

SpanFits(s, R) == s.artifact \in R /\ Quotes(s.artifact, s.quote)
FittingSpans(spans, R) == {s.artifact : s \in {t \in spans : SpanFits(t, R)}}

JudgmentFits(j, R) ==
    LET support == FittingSpans(j.support, R)
    IN  /\ \A s \in j.support \cup j.refute : SpanFits(s, R)
        /\ CASE j.verdict = "supported" ->
                   /\ support # {} /\ FittingSpans(j.refute, R) = {}
                   /\ IndependentSourceGroups(SetToSeq(support)) >= Required(j.min, 1)
             [] j.verdict = "refuted" -> FittingSpans(j.refute, R) # {}
             [] j.verdict = "insufficient" -> TRUE

Spans(j) == {s.artifact : s \in j.support \cup j.refute}

\* The gate asks what is registered now.
LEMMA FitsAsRegistered ==
    /\ \A c : ClaimOk(c) <=> ClaimFits(c, registered)
    /\ \A j : JudgmentOk(j) <=> JudgmentFits(j, registered)
<1>1. ASSUME NEW c
      PROVE  ClaimOk(c) <=> ClaimFits(c, registered)
  BY DEF ClaimOk, ClaimFits, Corroborated
<1>2. ASSUME NEW j
      PROVE  JudgmentOk(j) <=> JudgmentFits(j, registered)
  <2>1. \A s : SpanOk(s) <=> SpanFits(s, registered)
    BY DEF SpanOk, SpanFits
  <2>2. \A spans : VerifiedSpans(spans) = FittingSpans(spans, registered)
    BY <2>1 DEF VerifiedSpans, FittingSpans
  <2> QED
    BY <2>1, <2>2, Zenon DEF JudgmentOk, JudgmentFits
<1> QED
  BY <1>1, <1>2

\* What more is registered does not change what is made of a row.
LEMMA FitsForGood ==
    ASSUME NEW R, NEW Q, R \subseteq Q
    PROVE  /\ \A c : CitedBy(c) \subseteq R => (ClaimFits(c, R) <=> ClaimFits(c, Q))
           /\ \A j : Spans(j) \subseteq R => (JudgmentFits(j, R) <=> JudgmentFits(j, Q))
<1>1. ASSUME NEW c, CitedBy(c) \subseteq R
      PROVE  ClaimFits(c, R) <=> ClaimFits(c, Q)
  <2>1. c.artifact \in R /\ c.artifact \in Q /\ \A s \in ToSet(c.sources) : s.artifact \in R /\ s.artifact \in Q
    BY <1>1 DEF CitedBy
  <2> QED
    BY <2>1 DEF ClaimFits
<1>2. ASSUME NEW j, Spans(j) \subseteq R
      PROVE  JudgmentFits(j, R) <=> JudgmentFits(j, Q)
  <2>1. \A s \in j.support \cup j.refute : s.artifact \in R /\ s.artifact \in Q
    BY <1>2 DEF Spans
  <2>2. \A s \in j.support \cup j.refute : SpanFits(s, R) <=> SpanFits(s, Q)
    BY <2>1 DEF SpanFits
  <2>3. FittingSpans(j.support, R) = FittingSpans(j.support, Q) /\ FittingSpans(j.refute, R) = FittingSpans(j.refute, Q)
    BY <2>2 DEF FittingSpans
  <2> QED
    BY <2>2, <2>3, Zenon DEF JudgmentFits
<1> QED
  BY <1>1, <1>2

\* A row that a call appended is one of its ledger, cites what is registered, and
\* was judged as it is judged now; the gate answered ok only for a fit one.
ToldRight(t) ==
    /\ \/ /\ IsClaim(t.row) /\ t.row \in claims /\ CitedBy(t.row) \subseteq registered
          /\ t.fit = ClaimFits(t.row, registered)
       \/ /\ IsJudgment(t.row) /\ t.row \in judgments /\ Spans(t.row) \subseteq registered
          /\ t.fit = JudgmentFits(t.row, registered)
    /\ t.ok => t.fit

GateInv ==
    /\ registered \subseteq DOMAIN Source
    /\ \A c \in claims : IsClaim(c)
    /\ \A j \in judgments : IsJudgment(j)
    /\ Sequential(proposals)
    /\ \A n \in DOMAIN proposals : Quotation(proposals[n]) /\ proposals[n].artifact \in registered
    /\ \A t \in told : ToldRight(t)

\* The invariant holds of every run directory written elsewhere,
LEMMA GateBegins == GateInit => GateInv
<1> SUFFICES ASSUME GateInit
             PROVE  GateInv
  OBVIOUS
<1>1. proposals = <<>> /\ told = {}
  BY DEF GateInit
<1>2. registered \subseteq DOMAIN Source /\ (\A c \in claims : IsClaim(c)) /\ \A j \in judgments : IsJudgment(j)
  BY GateAssumption DEF GateInit
<1>3. Sequential(proposals) /\ DOMAIN proposals = {}
  <2>1. <<>> \in Seq({}) /\ DOMAIN <<>> = {}
    OBVIOUS
  <2> QED
    BY <1>1, <2>1 DEF Sequential
<1> QED
  BY <1>1, <1>2, <1>3 DEF GateInv

\* Rows told before stay told right as ledgers grow.
LEMMA StaysRight ==
    ASSUME GateInv, registered \subseteq registered', claims \subseteq claims', judgments \subseteq judgments',
           NEW t \in told
    PROVE  ToldRight(t)'
<1>1. ToldRight(t)
  BY DEF GateInv
<1>2. CASE /\ IsClaim(t.row) /\ t.row \in claims /\ CitedBy(t.row) \subseteq registered
           /\ t.fit = ClaimFits(t.row, registered)
  <2>1. ClaimFits(t.row, registered) <=> ClaimFits(t.row, registered')
    BY <1>2, FitsForGood
  <2>2. ClaimFits(t.row, registered) \in BOOLEAN /\ ClaimFits(t.row, registered') \in BOOLEAN
    BY DEF ClaimFits
  <2>3. t.fit = ClaimFits(t.row, registered')
    BY <1>2, <2>1, <2>2
  <2>4. t.row \in claims' /\ CitedBy(t.row) \subseteq registered'
    BY <1>2
  <2>5. t.ok => t.fit
    BY <1>1 DEF ToldRight
  <2> QED
    BY <1>2, <2>3, <2>4, <2>5 DEF ToldRight
<1>3. CASE /\ IsJudgment(t.row) /\ t.row \in judgments /\ Spans(t.row) \subseteq registered
           /\ t.fit = JudgmentFits(t.row, registered)
  <2>1. JudgmentFits(t.row, registered) <=> JudgmentFits(t.row, registered')
    BY <1>3, FitsForGood
  <2>2. JudgmentFits(t.row, registered) \in BOOLEAN /\ JudgmentFits(t.row, registered') \in BOOLEAN
    BY DEF JudgmentFits
  <2>3. t.fit = JudgmentFits(t.row, registered')
    BY <1>3, <2>1, <2>2
  <2>4. t.row \in judgments' /\ Spans(t.row) \subseteq registered'
    BY <1>3
  <2>5. t.ok => t.fit
    BY <1>1 DEF ToldRight
  <2> QED
    BY <1>3, <2>3, <2>4, <2>5 DEF ToldRight
<1> QED
  BY <1>1, <1>2, <1>3 DEF ToldRight

\* A claim that cites what is registered may be appended.
LEMMA ClaimKeeps ==
    ASSUME GateInv, NEW c, IsClaim(c), CitedBy(c) \subseteq registered, Claims(c),
           Sequential(proposals'),
           \A n \in DOMAIN proposals' : Quotation(proposals'[n]) /\ proposals'[n].artifact \in registered
    PROVE  GateInv'
<1> DEFINE ok == GateOk(claims \cup {c}, judgments, FALSE)
           new == [row |-> c, fit |-> ClaimOk(c), ok |-> ok]
<1>1. claims' = claims \cup {c} /\ told' = told \cup {new} /\ registered' = registered /\ judgments' = judgments
  BY DEF Claims
<1>2. ok => ClaimOk(c)
  BY DEF GateOk
<1>3. ClaimOk(c) = ClaimFits(c, registered)
  <2>1. ClaimOk(c) \in BOOLEAN /\ ClaimFits(c, registered) \in BOOLEAN
    BY DEF ClaimOk, ClaimFits
  <2> QED
    BY <2>1, FitsAsRegistered
<1> HIDE DEF ok
<1>4. new.row = c /\ new.fit = ClaimFits(c, registered) /\ (new.ok => new.fit)
  BY <1>2, <1>3
<1>5. PICK row : row = new
  OBVIOUS
<1> HIDE DEF new
<1>6. ToldRight(row)'
  BY <1>1, <1>4, <1>5 DEF ToldRight
<1>7. \A t \in told : ToldRight(t)'
  BY <1>1, StaysRight
<1> QED
  BY <1>1, <1>5, <1>6, <1>7 DEF GateInv

\* A judgment that cites what is registered may be appended too.
LEMMA JudgeKeeps ==
    ASSUME GateInv, NEW j \in JudgmentForms, JudgeClaim(j)
    PROVE  GateInv'
<1> DEFINE ok == GateOk(claims, judgments \cup {j}, FALSE)
           new == [row |-> j, fit |-> JudgmentOk(j), ok |-> ok]
<1>1. /\ judgments' = judgments \cup {j} /\ told' = told \cup {new} /\ registered' = registered
      /\ claims' = claims /\ proposals' = proposals
      /\ Spans(j) \subseteq registered
  BY DEF JudgeClaim, Spans
<1>2. ok => JudgmentOk(j)
  BY DEF GateOk
<1>3. JudgmentOk(j) = JudgmentFits(j, registered)
  <2>1. JudgmentOk(j) \in BOOLEAN /\ JudgmentFits(j, registered) \in BOOLEAN
    BY DEF JudgmentOk, JudgmentFits
  <2> QED
    BY <2>1, FitsAsRegistered
<1>4. IsJudgment(j)
  BY GateAssumption
<1> HIDE DEF ok
<1>5. new.row = j /\ new.fit = JudgmentFits(j, registered) /\ (new.ok => new.fit)
  BY <1>2, <1>3
<1>6. PICK row : row = new
  OBVIOUS
<1> HIDE DEF new
<1>7. ToldRight(row)'
  BY <1>1, <1>4, <1>5, <1>6 DEF ToldRight
<1>8. \A t \in told : ToldRight(t)'
  BY <1>1, StaysRight
<1> QED
  BY <1>1, <1>4, <1>6, <1>7, <1>8 DEF GateInv

\* and every call keeps it.
LEMMA GateStep == GateInv /\ [GateNext]_gateVars => GateInv'
<1> SUFFICES ASSUME GateInv, [GateNext]_gateVars
             PROVE  GateInv'
  OBVIOUS
<1>1. ASSUME NEW id \in DOMAIN Source, RegisterEvidence(id)
      PROVE  GateInv'
  <2>1. /\ registered' = registered \cup {id} /\ claims' = claims /\ judgments' = judgments
        /\ proposals' = proposals /\ told' = told
    BY <1>1 DEF RegisterEvidence
  <2>2. \A t \in told : ToldRight(t)'
    BY <2>1, StaysRight
  <2> QED
    BY <2>1, <2>2 DEF GateInv
<1>2. ASSUME NEW c \in ClaimForms, AddClaim(c)
      PROVE  GateInv'
  <2>1. IsClaim(c) /\ CitedBy(c) \subseteq registered /\ Claims(c) /\ proposals' = proposals
    BY <1>2, GateAssumption DEF AddClaim, CitedBy
  <2>2. /\ Sequential(proposals')
        /\ \A n \in DOMAIN proposals' : Quotation(proposals'[n]) /\ proposals'[n].artifact \in registered
    BY <2>1 DEF GateInv
  <2> QED
    BY <2>1, <2>2, ClaimKeeps
<1>3. ASSUME NEW j \in JudgmentForms, JudgeClaim(j)
      PROVE  GateInv'
  BY <1>3, JudgeKeeps
<1>4. ASSUME NEW e \in Extractions, GroundExtractedClaims(e)
      PROVE  GateInv'
  <2>1. /\ e.text \in registered /\ proposals' = ProposeGroundedClaims(e)
        /\ registered' = registered /\ claims' = claims /\ judgments' = judgments /\ told' = told
    BY <1>4 DEF GroundExtractedClaims
  <2>2. e.text \in DOMAIN Source
    BY <2>1 DEF GateInv
  <2> DEFINE made == ProposeGroundedClaims(e)
  <2>3. Sequential(made) /\ \A n \in DOMAIN made : Quotation(made[n]) /\ made[n].artifact = e.text
    BY <2>2, ProposalsQuote
  <2>4. \A t \in told : ToldRight(t)'
    BY <2>1, StaysRight
  <2> HIDE DEF made
  <2>5. /\ Sequential(proposals)'
        /\ (\A n \in DOMAIN proposals : Quotation(proposals[n]) /\ proposals[n].artifact \in registered)'
    BY <2>1, <2>3 DEF made
  <2> QED
    BY <2>1, <2>4, <2>5 DEF GateInv
<1>5. ASSUME AddProposal
      PROVE  GateInv'
  <2>1. PICK S : proposals \in Seq(S)
    BY DEF GateInv, Sequential
  <2>2. proposals # <<>> /\ proposals' = Tail(proposals) /\ Claims(Head(proposals))
    BY <1>5 DEF AddProposal
  <2>3. /\ Tail(proposals) \in Seq(S) /\ Len(proposals) \in Nat /\ Len(Tail(proposals)) = Len(proposals) - 1
        /\ DOMAIN proposals = 1..Len(proposals) /\ Len(proposals) # 0
        /\ \A n \in 1..Len(Tail(proposals)) : Tail(proposals)[n] = proposals[n + 1]
    BY <2>1, <2>2, HeadTailProperties, LenProperties, EmptySeq
  <2>4. DOMAIN Tail(proposals) = 1..Len(Tail(proposals))
    BY <2>3, LenProperties
  <2>5. Head(proposals) = proposals[1] /\ 1 \in DOMAIN proposals
    BY <2>1, <2>3
  <2> DEFINE c == proposals[1]
  <2>6. Quotation(c) /\ c.artifact \in registered
    BY <2>5 DEF GateInv
  <2>7. IsClaim(c) /\ CitedBy(c) \subseteq registered
    <3>1. c.sources = <<>>
      BY <2>6 DEF Quotation
    <3>2. ToSet(c.sources) = {}
      BY <3>1 DEF ToSet
    <3> QED
      BY <2>6, <3>2 DEF Quotation, CitedBy
  <2>8. Sequential(Tail(proposals))
    BY <2>3 DEF Sequential
  <2>9. \A n \in DOMAIN Tail(proposals) : /\ Quotation(Tail(proposals)[n])
                                           /\ Tail(proposals)[n].artifact \in registered
    <3> SUFFICES ASSUME NEW n \in DOMAIN Tail(proposals)
                 PROVE  /\ Quotation(Tail(proposals)[n])
                        /\ Tail(proposals)[n].artifact \in registered
      OBVIOUS
    <3>1. n + 1 \in DOMAIN proposals /\ Tail(proposals)[n] = proposals[n + 1]
      BY <2>3, <2>4
    <3> QED
      BY <3>1 DEF GateInv
  <2>10. \E d : d = c
    OBVIOUS
  <2>11. PICK d : d = c
    BY <2>10
  <2>12. IsClaim(d) /\ CitedBy(d) \subseteq registered /\ Claims(d)
    BY <2>2, <2>5, <2>7, <2>11
  <2> QED
    BY <2>2, <2>8, <2>9, <2>12, ClaimKeeps
<1>6. CASE UNCHANGED gateVars
  <2>1. /\ registered' = registered /\ claims' = claims /\ judgments' = judgments
        /\ proposals' = proposals /\ told' = told
    BY <1>6 DEF gateVars
  <2>2. \A t \in told : ToldRight(t)'
    BY <2>1, StaysRight
  <2> QED
    BY <2>1, <2>2 DEF GateInv
<1> QED
  BY <1>1, <1>2, <1>3, <1>4, <1>5, <1>6 DEF GateNext

\* Where it holds, verdicts stand.
LEMMA NowStand == GateInv => VerdictsStand
<1> SUFFICES ASSUME GateInv
             PROVE  VerdictsStand
  OBVIOUS
<1>1. ASSUME NEW c \in claims, c.sources # <<>>, CitedBy(c) \subseteq registered
      PROVE  Corroborated(c) <=> /\ \A s \in ToSet(c.sources) : Quotes(s.artifact, s.quote)
                                 /\ Separable(CitedBy(c), Max({2, c.min}))
  BY <1>1, ClaimsAreCorroborated DEF GateInv
<1>2. ASSUME NEW j \in judgments, j.verdict = "supported", \A s \in j.support \cup j.refute : SpanOk(s)
      PROVE  JudgmentOk(j) <=> j.refute = {} /\ Separable({s.artifact : s \in j.support}, Required(j.min, 1))
  BY <1>2, JudgmentsAreSupported DEF GateInv
<1>3. ASSUME NEW c \in claims, c.anchor.type = "text_span", c.taxonomy # "quote", ClaimOk(c), Warnings(c) = {}
      PROVE  LET text == NormalizeForMatch(Source[c.artifact].text)
             IN  \E from \in 1..Len(text) + 1 : Tokens(c) \subseteq
                     {text[i] : i \in DOMAIN text \cap (from..from + Widest(c) - 1)}
  <2>1. Grounded(c) /\ c.artifact \in registered
    BY <1>3 DEF ClaimOk
  <2> QED
    BY <1>3, <2>1, TokensAreClose DEF GateInv
<1>4. ASSUME NEW n \in DOMAIN proposals
      PROVE  ClaimOk(proposals[n]) <=> proposals[n].kind \in TextGroundable
  BY QuotationsHold DEF GateInv
<1>5. ASSUME NEW t \in told
      PROVE  /\ t.fit = IF t.row \in claims THEN ClaimOk(t.row) ELSE JudgmentOk(t.row)
             /\ GateOk(claims, judgments, FALSE) \/ t.ok => t.fit
  <2>1. ToldRight(t)
    BY DEF GateInv
  <2>2. CASE /\ IsClaim(t.row) /\ t.row \in claims /\ t.fit = ClaimFits(t.row, registered)
    <3>1. ClaimOk(t.row) \in BOOLEAN /\ ClaimFits(t.row, registered) \in BOOLEAN
      BY DEF ClaimOk, ClaimFits
    <3>2. t.fit = ClaimOk(t.row)
      BY <2>2, <3>1, FitsAsRegistered
    <3>3. GateOk(claims, judgments, FALSE) => ClaimOk(t.row)
      BY <2>2 DEF GateOk
    <3> QED
      BY <2>1, <2>2, <3>2, <3>3 DEF ToldRight
  <2>3. CASE /\ IsJudgment(t.row) /\ t.row \in judgments /\ t.fit = JudgmentFits(t.row, registered)
    <3>1. JudgmentOk(t.row) \in BOOLEAN /\ JudgmentFits(t.row, registered) \in BOOLEAN
      BY DEF JudgmentOk, JudgmentFits
    <3>2. t.fit = JudgmentOk(t.row)
      BY <2>3, <3>1, FitsAsRegistered
    <3>3. GateOk(claims, judgments, FALSE) => JudgmentOk(t.row)
      BY <2>3 DEF GateOk
    <3>4. t.row \notin claims
      <4>1. "verdict" \in DOMAIN t.row
        BY <2>3 DEF IsJudgment
      <4>2. \A c \in claims : "verdict" \notin DOMAIN c
        BY DEF GateInv, IsClaim
      <4> QED
        BY <4>1, <4>2
    <3> QED
      BY <2>1, <3>2, <3>3, <3>4 DEF ToldRight
  <2> QED
    BY <2>1, <2>2, <2>3 DEF ToldRight
<1> QED
  BY <1>1, <1>2, <1>3, <1>4, <1>5 DEF VerdictsStand, CitedBy

\* The calls of the gate, without the fairness of the run.
GateSpec == GateInit /\ [][GateNext]_gateVars

\* Whatever is captured, claimed and judged, a verdict stands on enough sources
\* that do not echo each other, and a row is judged the same for good.
THEOREM VerdictsAlwaysStand == GateSpec => []VerdictsStand
<1>1. GateSpec => []GateInv
  <2>1. GateInv /\ [GateNext]_gateVars => GateInv'
    BY GateStep
  <2> QED
    BY <2>1, GateBegins, PTL DEF GateSpec
<1> QED
  BY <1>1, NowStand, PTL

=============================================================================
