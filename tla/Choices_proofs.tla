--------------------------- MODULE Choices_proofs ---------------------------
(***************************************************************************)
(* What a run chooses to look at, whatever the constants: the destinations *)
(* of a result page, the advice a recovery plan hands over, the moments of *)
(* a film, and the pages that are followed up after a search.              *)
(***************************************************************************)
EXTENDS DestinationRecovery, FrameSampling, SearchFollowups, ListsAndSums

-----------------------------------------------------------------------------
(* The destinations of a result page.  Candidates are in the order of    *)
(* Before; a budget is spent on the first few of them.                     *)

\* Candidates that can be ordered: each has a score, and the rank of its place.
Ordered(c) == \A i \in DOMAIN c : i \in Nat \ {0} /\ c[i].score \in Int /\ c[i].rank = i

\* The order of candidates is strict and total.
LEMMA BeforeIsAnOrder ==
    ASSUME NEW c, Ordered(c), NEW i \in DOMAIN c, NEW j \in DOMAIN c
    PROVE  /\ ~Before(c[i], c[i])
           /\ Before(c[i], c[j]) => ~Before(c[j], c[i])
           /\ i # j => Before(c[i], c[j]) \/ Before(c[j], c[i])
           /\ \A k \in DOMAIN c : Before(c[i], c[j]) /\ Before(c[j], c[k]) => Before(c[i], c[k])
<1>1. \A k \in DOMAIN c : k \in Nat /\ c[k].score \in Int /\ c[k].rank = k
  BY DEF Ordered
<1>2. c[i].score \in Int /\ c[i].rank \in Int /\ c[j].score \in Int /\ c[j].rank \in Int
  BY <1>1
<1>3. i # j => c[i].rank # c[j].rank
  BY <1>1
<1>4. \A k \in DOMAIN c : c[k].score \in Int /\ c[k].rank \in Int
  BY <1>1
<1> QED
  BY <1>2, <1>3, <1>4 DEF Before

\* The members of a set that come before i.
Better(c, S, i) == {k \in S : Before(c[k], c[i])}
Position(c, S, i) == Cardinality(Better(c, S, i)) + 1

\* In a finite set of candidates each has a position of its own.
LEMMA Positions ==
    ASSUME NEW c, Ordered(c), NEW S \in SUBSET DOMAIN c, IsFiniteSet(S)
    PROVE  /\ Cardinality(S) \in Nat
           /\ \A i \in S : Position(c, S, i) \in 1..Cardinality(S)
           /\ \A i, j \in S : Before(c[i], c[j]) <=> Position(c, S, i) < Position(c, S, j)
           /\ \A i, j \in S : Position(c, S, i) = Position(c, S, j) => i = j
<1> DEFINE n == Cardinality(S)
<1>1. n \in Nat
  BY FS_CardinalityType
<1>2. ASSUME NEW i \in S
      PROVE  /\ IsFiniteSet(Better(c, S, i)) /\ Cardinality(Better(c, S, i)) \in Nat
             /\ Cardinality(Better(c, S, i)) < n
  <2>1. Better(c, S, i) \subseteq S /\ i \notin Better(c, S, i)
    BY BeforeIsAnOrder DEF Better
  <2>2. IsFiniteSet(Better(c, S, i)) /\ Cardinality(Better(c, S, i)) <= n /\ Cardinality(Better(c, S, i)) # n
    BY <2>1, FS_Subset
  <2>3. Cardinality(Better(c, S, i)) \in Nat
    BY <2>2, FS_CardinalityType
  <2> HIDE DEF n
  <2> QED
    BY <1>1, <2>2, <2>3
<1>3. ASSUME NEW i \in S, NEW j \in S, Before(c[i], c[j])
      PROVE  Position(c, S, i) < Position(c, S, j)
  <2>1. Better(c, S, i) \subseteq Better(c, S, j)
    BY <1>3, BeforeIsAnOrder DEF Better
  <2>2. i \in Better(c, S, j) /\ i \notin Better(c, S, i)
    BY <1>3, BeforeIsAnOrder DEF Better
  <2>3. /\ Cardinality(Better(c, S, i)) <= Cardinality(Better(c, S, j))
        /\ Cardinality(Better(c, S, i)) # Cardinality(Better(c, S, j))
    BY <1>2, <2>1, <2>2, FS_Subset
  <2>4. Cardinality(Better(c, S, i)) \in Nat /\ Cardinality(Better(c, S, j)) \in Nat
    BY <1>2
  <2> QED
    BY <2>3, <2>4 DEF Position
<1>4. \A i \in S : Position(c, S, i) \in 1..n
  <2> SUFFICES ASSUME NEW i \in S
               PROVE  Position(c, S, i) \in 1..n
    OBVIOUS
  <2> DEFINE b == Cardinality(Better(c, S, i))
  <2>1. b \in Nat /\ b < n
    BY <1>2
  <2> HIDE DEF n, b
  <2>2. b + 1 \in 1..n
    BY <1>1, <2>1
  <2> QED
    BY <2>2 DEF Position, b
<1>5. \A i \in S : Position(c, S, i) \in Nat
  BY <1>2 DEF Position
<1>6. ASSUME NEW i \in S, NEW j \in S
      PROVE  /\ Before(c[i], c[j]) <=> Position(c, S, i) < Position(c, S, j)
             /\ Position(c, S, i) = Position(c, S, j) => i = j
  <2>1. i = j \/ Before(c[i], c[j]) \/ Before(c[j], c[i])
    BY BeforeIsAnOrder
  <2>2. Before(c[i], c[j]) => Position(c, S, i) < Position(c, S, j)
    BY <1>3
  <2>3. Before(c[j], c[i]) => Position(c, S, j) < Position(c, S, i)
    BY <1>3
  <2>4. Position(c, S, i) \in Nat /\ Position(c, S, j) \in Nat
    BY <1>5
  <2> QED
    BY <2>1, <2>2, <2>3, <2>4
<1> QED
  BY <1>1, <1>4, <1>6

\* Sorted lists every member of the set once, the best first.
LEMMA SortedLists ==
    ASSUME NEW c, Ordered(c), NEW S \in SUBSET DOMAIN c, IsFiniteSet(S)
    PROVE  /\ Sorted(c, S) \in Seq(S) /\ Len(Sorted(c, S)) = Cardinality(S)
           /\ \A n \in 1..Cardinality(S) : Sorted(c, S)[n] \in S /\ Position(c, S, Sorted(c, S)[n]) = n
<1> DEFINE N == Cardinality(S)
           place == [i \in S |-> Position(c, S, i)]
<1>1. N \in Nat
  BY FS_CardinalityType
<1>2. /\ \A i \in S : place[i] = Position(c, S, i) /\ place[i] \in 1..N
      /\ \A i, j \in S : place[i] = place[j] => i = j
  BY Positions
<1>3. place \in Surjection(S, 1..N)
  <2>1. place \in [S -> 1..N]
    BY <1>2
  <2>2. place \in Injection(S, 1..N)
    <3> HIDE DEF place
    <3> QED
      BY <1>2, <2>1 DEF Injection, IsInjective
  <2>3. IsFiniteSet(1..N) /\ Cardinality(1..N) = N
    <3> HIDE DEF N
    <3> QED
      BY <1>1, FS_Interval
  <2> HIDE DEF place
  <2> QED
    BY <2>2, <2>3, FS_Injection
<1>4. \A n \in 1..N : Sorted(c, S)[n] = CHOOSE i \in S : Position(c, S, i) = n
  BY DEF Sorted, Position, Better
<1>5. \A n \in 1..N : \E i \in S : Position(c, S, i) = n
  BY <1>2, <1>3 DEF Surjection
<1>6. \A n \in 1..N : Sorted(c, S)[n] \in S /\ Position(c, S, Sorted(c, S)[n]) = n
  BY <1>4, <1>5
<1>7. Sorted(c, S) = [n \in 1..N |-> Sorted(c, S)[n]]
  BY DEF Sorted
<1>8. Sorted(c, S) \in [1..N -> S]
  BY <1>6, <1>7
<1> HIDE DEF N
<1>9. Sorted(c, S) \in Seq(S)
  BY <1>1, <1>8, SeqDef
<1>10. Len(Sorted(c, S)) \in Nat /\ DOMAIN Sorted(c, S) = 1..Len(Sorted(c, S)) /\ DOMAIN Sorted(c, S) = 1..N
  BY <1>8, <1>9, LenProperties
<1>11. Len(Sorted(c, S)) = N
  <2> DEFINE m == Len(Sorted(c, S))
  <2>1. m \in Nat /\ 1..m = 1..N
    BY <1>10
  <2> HIDE DEF m
  <2>2. m = N
    BY <1>1, <2>1
  <2> QED
    BY <2>2 DEF m
<1> QED
  BY <1>6, <1>9, <1>11 DEF N

-----------------------------------------------------------------------------
\* Of those in the order p, the ones with fewer than K before them: all of them
\* if they are fewer than K, and no fewer than K otherwise.
Few(A, p, K) == {m \in A : Cardinality({k \in A : p[k] < p[m]}) < K}

\* Of the members of a finite set that have fewer than K before them there are K,
\* unless the set itself is smaller.
LEMMA TheFirstFew ==
    ASSUME NEW A, IsFiniteSet(A), NEW p, \A i \in A : p[i] \in Nat, NEW K \in Int
    PROVE  /\ Cardinality(A) \in Nat /\ Cardinality(Few(A, p, K)) \in Nat
           /\ Cardinality(Few(A, p, K)) >= K <=> Cardinality(A) >= K
           /\ Cardinality(A) < K => Few(A, p, K) = A
<1> DEFINE G == Few(A, p, K)
           Under(m) == {k \in A : p[k] < p[m]}
<1>1. G \subseteq A /\ \A m \in A : m \in G <=> Cardinality(Under(m)) < K
  BY DEF Few
<1>2. \A m \in A : Under(m) \subseteq A
  OBVIOUS
<1>3. IsFiniteSet(G) /\ Cardinality(G) <= Cardinality(A) /\ Cardinality(A) \in Nat /\ Cardinality(G) \in Nat
  BY <1>1, FS_Subset, FS_CardinalityType
<1>4. \A m \in A : Cardinality(Under(m)) <= Cardinality(A) /\ Cardinality(Under(m)) \in Nat
  <2> SUFFICES ASSUME NEW m \in A
               PROVE  Cardinality(Under(m)) <= Cardinality(A) /\ Cardinality(Under(m)) \in Nat
    OBVIOUS
  <2>1. Under(m) \in SUBSET A
    OBVIOUS
  <2> HIDE DEF Under
  <2> QED
    BY <2>1, FS_Subset, FS_CardinalityType
<1> HIDE DEF G
<1>5. Cardinality(A) < K => G = A
  <2> HIDE DEF Under
  <2> SUFFICES ASSUME Cardinality(A) < K
               PROVE  A \subseteq G
    BY <1>1
  <2> QED
    BY <1>1, <1>3, <1>4
<1>6. ASSUME Cardinality(A) >= K
      PROVE  Cardinality(G) >= K
  <2>1. CASE G = A
    BY <1>6, <2>1
  <2>2. CASE G # A
    <3> DEFINE T == {p[i] : i \in A \ G}
    <3>1. T \in SUBSET Nat /\ T # {}
      BY <1>1, <2>2
    <3>2. PICK t \in T : \A k \in T : t <= k
      BY <3>1, LeastOf
    <3>3. PICK m \in A \ G : p[m] = t
      BY <3>2
    <3>4. \A k \in A \ G : p[m] <= p[k]
      BY <3>2, <3>3
    <3>5. Under(m) \subseteq G
      <4> SUFFICES ASSUME NEW k \in A, p[k] < p[m]
                   PROVE  k \in G
        OBVIOUS
      <4>1. p[k] \in Nat /\ p[m] \in Nat
        OBVIOUS
      <4> QED
        BY <3>4, <4>1
    <3> HIDE DEF Under
    <3>6. Cardinality(Under(m)) <= Cardinality(G)
      BY <1>3, <3>5, FS_Subset
    <3>7. ~(Cardinality(Under(m)) < K)
      BY <1>1
    <3> QED
      BY <1>3, <1>4, <3>6, <3>7
  <2> QED
    BY <2>1, <2>2
<1>7. Cardinality(G) >= K => Cardinality(A) >= K
  BY <1>3
<1> QED
  BY <1>3, <1>5, <1>6, <1>7 DEF G

-----------------------------------------------------------------------------
\* The recursion that spends the budgets has a value.

\* One unfolding of the recursion by which the budgets are spent.
Spent(c, s, K, D, g) ==
    [n \in 0..Len(s) |-> IF n = 0 THEN [picked |-> {}, limited |-> {}] ELSE Consider(c, g[n - 1], s[n], K, D)]

\* So what is selected is the value of the last unfolding.
LEMMA BudgetsAreSpent ==
    ASSUME NEW c, NEW s, Len(s) \in Nat, NEW K, NEW D
    PROVE  \E g : g = Spent(c, s, K, D, g) /\ SelectWithinBudgets(c, s, K, D) = g[Len(s)]
<1> DEFINE N == Len(s)
           Right(g, n) == /\ g = [m \in 0..N |-> g[m]]
                          /\ \A m \in 0..N : m <= n => g[m] = Spent(c, s, K, D, g)[m]
           P == {n \in Nat : \E g : Right(g, n)}
<1>1. 0 \in P
  <2> DEFINE g == [m \in 0..N |-> [picked |-> {}, limited |-> {}]]
  <2>1. 0 \in 0..N /\ \A m \in 0..N : m <= 0 => m = 0
    OBVIOUS
  <2>2. g[0] = [picked |-> {}, limited |-> {}] /\ Spent(c, s, K, D, g)[0] = [picked |-> {}, limited |-> {}]
    BY <2>1 DEF Spent
  <2>3. g = [m \in 0..N |-> g[m]]
    OBVIOUS
  <2> HIDE DEF g, N
  <2>4. Right(g, 0)
    BY <2>1, <2>2, <2>3
  <2> QED
    BY <2>4
<1>2. ASSUME NEW n \in P
      PROVE  n + 1 \in P
  <2>1. PICK g : Right(g, n)
    OBVIOUS
  <2> DEFINE h == Spent(c, s, K, D, g)
  <2>2. h = [m \in 0..N |-> h[m]]
    BY DEF Spent
  <2>3. \A m \in 0..N : m <= n => h[m] = g[m]
    BY <2>1
  <2>4. ASSUME NEW m \in 0..N, m <= n + 1
        PROVE  h[m] = Spent(c, s, K, D, h)[m]
    <3>1. CASE m = 0
      BY <3>1 DEF Spent
    <3>2. CASE m # 0
      <4>1. m - 1 \in 0..N /\ m - 1 <= n
        BY <2>4, <3>2
      <4>2. h[m - 1] = g[m - 1]
        BY <2>3, <4>1
      <4>3. h[m] = Consider(c, g[m - 1], s[m], K, D)
        BY <3>2 DEF Spent
      <4>4. Spent(c, s, K, D, h)[m] = Consider(c, h[m - 1], s[m], K, D)
        BY <3>2 DEF Spent
      <4> QED
        BY <4>2, <4>3, <4>4
    <3> QED
      BY <3>1, <3>2
  <2> HIDE DEF h
  <2>5. Right(h, n + 1)
    BY <2>2, <2>4
  <2>6. n + 1 \in Nat /\ \E k : Right(k, n + 1)
    <3> HIDE DEF Right
    <3> QED
      BY <2>5
  <2> HIDE DEF Right
  <2> QED
    BY <2>6
<1>3. P = Nat
  <2> HIDE DEF P
  <2>1. P \in SUBSET Nat
    BY DEF P
  <2> QED
    BY <1>1, <1>2, <2>1, Counting
<1>4. N \in P
  BY <1>3
<1>5. PICK g : Right(g, N)
  BY <1>4
<1>6. g = Spent(c, s, K, D, g)
  <2>1. \A m \in 0..N : m <= N /\ g[m] = Spent(c, s, K, D, g)[m]
    BY <1>5
  <2>2. Spent(c, s, K, D, g) = [m \in 0..N |-> Spent(c, s, K, D, g)[m]]
    BY DEF Spent
  <2> QED
    BY <1>5, <2>1, <2>2
<1> DEFINE after == CHOOSE f : f = Spent(c, s, K, D, f)
<1>7. after = Spent(c, s, K, D, after)
  BY <1>6
<1>8. SelectWithinBudgets(c, s, K, D) = after[N]
  BY DEF SelectWithinBudgets, Spent
<1> QED
  BY <1>7, <1>8

-----------------------------------------------------------------------------
\* Whose domain has room, and who has room among these.
DomainRoom(c, S, D, i) == Cardinality({k \in S : Before(c[k], c[i]) /\ c[k].host = c[i].host}) < D
TopKRoom(c, S, K, D, i) == Cardinality({k \in S : Before(c[k], c[i]) /\ DomainRoom(c, S, D, k)}) < K

\* What has been decided of those considered so far, F.
Decided(c, S, K, D, F, r) ==
    /\ r = [picked |-> r.picked, limited |-> r.limited]
    /\ r.picked = {i \in F : TopKRoom(c, S, K, D, i) /\ DomainRoom(c, S, D, i)}
    /\ r.limited = {i \in F : TopKRoom(c, S, K, D, i) /\ ~DomainRoom(c, S, D, i)}

\* Considering the next candidate decides of it what the budgets say.
LEMMA OneIsConsidered ==
    ASSUME NEW c, Ordered(c), NEW S \in SUBSET DOMAIN c, IsFiniteSet(S), NEW K \in Int, NEW D \in Int,
           NEW j \in S, NEW F, F = Better(c, S, j), NEW r, Decided(c, S, K, D, F, r)
    PROVE  Decided(c, S, K, D, F \cup {j}, Consider(c, r, j, K, D))
<1> DEFINE p == [i \in S |-> Position(c, S, i)]
           A == {k \in F : DomainRoom(c, S, D, k)}
           B == SameHost(c, F, j)
<1>1. /\ \A i \in S : p[i] \in Nat
      /\ \A i, k \in S : Before(c[i], c[k]) <=> p[i] < p[k]
  BY Positions
<1> HIDE DEF p
<1>2. /\ F \subseteq S /\ j \notin F /\ \A i \in S : i \in F <=> Before(c[i], c[j])
      /\ \A i \in F, k \in S : Before(c[k], c[i]) => k \in F
  BY BeforeIsAnOrder DEF Better
<1>3. IsFiniteSet(F) /\ IsFiniteSet(A) /\ IsFiniteSet(B)
  <2>1. A \subseteq S /\ B \subseteq S
    BY <1>2 DEF SameHost
  <2> HIDE DEF A, B
  <2> QED
    BY <1>2, <2>1, FS_Subset
<1>4. r.picked = Few(A, p, K)
  <2>1. \A i \in F : {k \in S : Before(c[k], c[i]) /\ DomainRoom(c, S, D, k)} = {k \in A : p[k] < p[i]}
    BY <1>1, <1>2
  <2>2. r.picked = {i \in F : TopKRoom(c, S, K, D, i) /\ DomainRoom(c, S, D, i)}
    BY DEF Decided
  <2>3. \A i \in F : TopKRoom(c, S, K, D, i) <=> Cardinality({k \in A : p[k] < p[i]}) < K
    BY <2>1 DEF TopKRoom
  <2> QED
    BY <2>2, <2>3 DEF Few
<1>5. {i \in B : DomainRoom(c, S, D, i)} = Few(B, p, D)
  <2>1. \A i \in B : {k \in S : Before(c[k], c[i]) /\ c[k].host = c[i].host} = {k \in B : p[k] < p[i]}
    BY <1>1, <1>2 DEF SameHost
  <2>2. \A i \in B : DomainRoom(c, S, D, i) <=> Cardinality({k \in B : p[k] < p[i]}) < D
    BY <2>1 DEF DomainRoom
  <2> QED
    BY <2>2 DEF Few
<1>6. /\ Cardinality(A) \in Nat /\ Cardinality(r.picked) \in Nat
      /\ Cardinality(r.picked) >= K <=> Cardinality(A) >= K
      /\ Cardinality(A) < K => r.picked = A
  <2>1. \A i \in A : p[i] \in Nat
    BY <1>1, <1>2
  <2> HIDE DEF A
  <2> QED
    BY <1>3, <1>4, <2>1, TheFirstFew
<1>7. /\ Cardinality(B) \in Nat /\ Cardinality(Few(B, p, D)) \in Nat
      /\ Cardinality(Few(B, p, D)) >= D <=> Cardinality(B) >= D
  <2>1. \A i \in B : p[i] \in Nat
    BY <1>1, <1>2 DEF SameHost
  <2> HIDE DEF B
  <2> QED
    BY <1>3, <2>1, TheFirstFew
<1>8. TopKRoom(c, S, K, D, j) <=> Cardinality(A) < K
  <2>1. {k \in S : Before(c[k], c[j]) /\ DomainRoom(c, S, D, k)} = A
    BY <1>2
  <2> QED
    BY <2>1 DEF TopKRoom
<1>9. DomainRoom(c, S, D, j) <=> Cardinality(B) < D
  <2>1. {k \in S : Before(c[k], c[j]) /\ c[k].host = c[j].host} = B
    BY <1>2 DEF SameHost
  <2> QED
    BY <2>1 DEF DomainRoom
<1>10. r.picked = A => SameHost(c, r.picked, j) = Few(B, p, D)
  BY <1>5 DEF SameHost
<1> DEFINE full == Cardinality(r.picked) >= K
           spent == Cardinality(SameHost(c, r.picked, j)) >= D
<1>11. full <=> ~TopKRoom(c, S, K, D, j)
  BY <1>6, <1>8
<1>12. ~full => (spent <=> ~DomainRoom(c, S, D, j))
  <2> SUFFICES ASSUME ~full
               PROVE  spent <=> ~DomainRoom(c, S, D, j)
    OBVIOUS
  <2>1. r.picked = A
    BY <1>6
  <2>2. SameHost(c, r.picked, j) = Few(B, p, D)
    BY <1>10, <2>1
  <2> HIDE DEF A, B
  <2> QED
    BY <1>7, <1>9, <2>2
<1>13. /\ r = [picked |-> r.picked, limited |-> r.limited]
       /\ r.picked = {i \in F : TopKRoom(c, S, K, D, i) /\ DomainRoom(c, S, D, i)}
       /\ r.limited = {i \in F : TopKRoom(c, S, K, D, i) /\ ~DomainRoom(c, S, D, i)}
  BY DEF Decided
<1>14. CASE full
  <2>1. Consider(c, r, j, K, D) = r
    BY <1>14 DEF Consider
  <2>2. ~TopKRoom(c, S, K, D, j)
    BY <1>11, <1>14
  <2> QED
    BY <1>13, <2>1, <2>2 DEF Decided
<1>15. CASE ~full /\ spent
  <2>1. Consider(c, r, j, K, D) = [r EXCEPT !.limited = @ \cup {j}]
    BY <1>15 DEF Consider
  <2>2. TopKRoom(c, S, K, D, j) /\ ~DomainRoom(c, S, D, j)
    BY <1>11, <1>12, <1>15
  <2>3. [r EXCEPT !.limited = @ \cup {j}] = [picked |-> r.picked, limited |-> r.limited \cup {j}]
    BY <1>13
  <2> DEFINE q == [picked |-> r.picked, limited |-> r.limited \cup {j}]
  <2>4. /\ q.picked = {i \in F \cup {j} : TopKRoom(c, S, K, D, i) /\ DomainRoom(c, S, D, i)}
        /\ q.limited = {i \in F \cup {j} : TopKRoom(c, S, K, D, i) /\ ~DomainRoom(c, S, D, i)}
    BY <1>13, <2>2
  <2> QED
    BY <2>1, <2>3, <2>4 DEF Decided
<1>16. CASE ~full /\ ~spent
  <2>1. Consider(c, r, j, K, D) = [r EXCEPT !.picked = @ \cup {j}]
    BY <1>16 DEF Consider
  <2>2. TopKRoom(c, S, K, D, j) /\ DomainRoom(c, S, D, j)
    BY <1>11, <1>12, <1>16
  <2>3. [r EXCEPT !.picked = @ \cup {j}] = [picked |-> r.picked \cup {j}, limited |-> r.limited]
    BY <1>13
  <2> DEFINE q == [picked |-> r.picked \cup {j}, limited |-> r.limited]
  <2>4. /\ q.picked = {i \in F \cup {j} : TopKRoom(c, S, K, D, i) /\ DomainRoom(c, S, D, i)}
        /\ q.limited = {i \in F \cup {j} : TopKRoom(c, S, K, D, i) /\ ~DomainRoom(c, S, D, i)}
    BY <1>13, <2>2
  <2> QED
    BY <2>1, <2>3, <2>4 DEF Decided
<1> QED
  BY <1>14, <1>15, <1>16

\* So the budgets go to the best candidates, in every list and with every budget.
LEMMA TheBestAreSelected ==
    ASSUME NEW c, Ordered(c), NEW S \in SUBSET DOMAIN c, IsFiniteSet(S), NEW K \in Int, NEW D \in Int
    PROVE  Decided(c, S, K, D, S, SelectWithinBudgets(c, Sorted(c, S), K, D))
<1> DEFINE s == Sorted(c, S)
           N == Cardinality(S)
           Upto(n) == {i \in S : Position(c, S, i) <= n}
<1>1. /\ N \in Nat /\ Len(s) = N
      /\ \A n \in 1..N : s[n] \in S /\ Position(c, S, s[n]) = n
  BY SortedLists, Positions
<1>2. /\ \A i \in S : Position(c, S, i) \in 1..N
      /\ \A i, j \in S : Before(c[i], c[j]) <=> Position(c, S, i) < Position(c, S, j)
      /\ \A i, j \in S : Position(c, S, i) = Position(c, S, j) => i = j
  BY Positions
<1> HIDE DEF s, N
<1>3. PICK g : g = Spent(c, s, K, D, g) /\ SelectWithinBudgets(c, s, K, D) = g[N]
  BY <1>1, BudgetsAreSpent
<1>4. g[0] = [picked |-> {}, limited |-> {}] /\ \A n \in 1..N : g[n] = Consider(c, g[n - 1], s[n], K, D)
  <2>1. g = [n \in 0..N |-> IF n = 0 THEN [picked |-> {}, limited |-> {}] ELSE Consider(c, g[n - 1], s[n], K, D)]
    BY <1>1, <1>3 DEF Spent
  <2>2. 0 \in 0..N /\ \A n \in 1..N : n \in 0..N /\ n # 0
    BY <1>1
  <2> QED
    BY <2>1, <2>2
<1> DEFINE Right(n) == Decided(c, S, K, D, Upto(n), g[n])
           P == {n \in Nat : n <= N => Right(n)}
<1>5. 0 \in P
  <2>1. \A i \in S : ~(Position(c, S, i) <= 0)
    BY <1>1, <1>2
  <2>2. Upto(0) = {}
    BY <2>1
  <2>3. Decided(c, S, K, D, {}, g[0])
    BY <1>4 DEF Decided
  <2> QED
    BY <2>2, <2>3
<1>6. ASSUME NEW n \in P
      PROVE  n + 1 \in P
  <2> SUFFICES ASSUME n + 1 <= N
               PROVE  Right(n + 1)
    OBVIOUS
  <2>1. n \in Nat /\ n <= N /\ n + 1 \in 1..N /\ (n + 1) - 1 = n
    BY <1>1
  <2>2. Right(n)
    BY <2>1
  <2> DEFINE j == s[n + 1]
  <2>3. j \in S /\ Position(c, S, j) = n + 1
    BY <1>1, <2>1
  <2> HIDE DEF j
  <2>4. Upto(n) = Better(c, S, j)
    <3>1. \A i \in S : Position(c, S, i) <= n <=> Position(c, S, i) < Position(c, S, j)
      BY <1>1, <1>2, <2>1, <2>3
    <3> QED
      BY <1>2, <2>3, <3>1 DEF Better
  <2>5. Upto(n + 1) = Upto(n) \cup {j}
    <3>1. \A i \in S : Position(c, S, i) <= n + 1 <=> Position(c, S, i) <= n \/ Position(c, S, i) = n + 1
      BY <1>1, <1>2, <2>1
    <3>2. \A i \in S : Position(c, S, i) = n + 1 <=> i = j
      BY <1>2, <2>3
    <3> QED
      BY <2>3, <3>1, <3>2
  <2>6. g[n + 1] = Consider(c, g[n], j, K, D)
    BY <1>4, <2>1 DEF j
  <2> HIDE DEF Upto
  <2>7. Decided(c, S, K, D, Upto(n) \cup {j}, Consider(c, g[n], j, K, D))
    BY <2>2, <2>3, <2>4, OneIsConsidered
  <2> QED
    BY <2>5, <2>6, <2>7
<1>7. P = Nat
  <2> HIDE DEF P
  <2>1. P \in SUBSET Nat
    BY DEF P
  <2> QED
    BY <1>5, <1>6, <2>1, Counting
<1>8. N \in P
  <2> HIDE DEF P
  <2> QED
    BY <1>1, <1>7
<1>9. Right(N)
  <2> HIDE DEF Right
  <2>1. N <= N => Right(N)
    BY <1>8
  <2>2. N <= N
    BY <1>1
  <2> QED
    BY <2>1, <2>2
<1>10. Upto(N) = S
  <2>1. \A i \in S : Position(c, S, i) <= N
    BY <1>1, <1>2
  <2> QED
    BY <2>1
<1> HIDE DEF Upto
<1> QED
  BY <1>3, <1>9, <1>10 DEF s

-----------------------------------------------------------------------------
\* The first rule that holds says one of the answers.
LEMMA OneOfTheAnswers ==
    ASSUME NEW rules, NEW otherwise, DOMAIN rules \subseteq Nat
    PROVE  FirstRule(rules, otherwise) = otherwise \/ \E n \in DOMAIN rules : FirstRule(rules, otherwise) = rules[n][1]
<1> DEFINE holding == {n \in DOMAIN rules : rules[n][2]}
           first == CHOOSE n \in holding : \A k \in holding : n <= k
<1>1. CASE holding = {}
  BY <1>1 DEF FirstRule
<1>2. CASE holding # {}
  <2>1. \E n \in holding : \A k \in holding : n <= k
    BY <1>2, LeastOf
  <2>2. first \in holding
    BY <2>1
  <2>3. FirstRule(rules, otherwise) = rules[first][1]
    BY <1>2 DEF FirstRule
  <2> HIDE DEF first
  <2> QED
    BY <2>2, <2>3
<1> QED
  BY <1>1, <1>2

\* A sum of weights is a number.
LEMMA SumOverIsNumber ==
    ASSUME NEW w, IsFiniteSet(DOMAIN w), \A k \in DOMAIN w : w[k] \in Nat, NEW present
    PROVE  SumOver(w, present) \in Nat
<1>1. IsFiniteSet(DOMAIN w \cap present)
  BY FS_Subset
<1>2. SumFunctionOnSet(w, DOMAIN w \cap present) \in Nat
  BY <1>1, SumTakesOut
<1> QED
  BY <1>2 DEF SumOver

\* Every weight of a profile is a number.
LEMMA ProfilesAreNumbers ==
    ASSUME NEW s, s.family \in Families
    PROVE  LET p == Profile(s)
           IN  /\ {p.rank, p.query, p.authority, p.fresh, p.fit} \subseteq Nat
               /\ \A k \in DOMAIN p.kinds : p.kinds[k] \in Nat
<1>1. CASE s.family = "search"
  BY <1>1 DEF Profile
<1>2. CASE s.family = "map"
  BY <1>2 DEF Profile
<1>9. CASE s.family = "portal" /\ s.platform \in {"yelp", "tripadvisor"}
  BY <1>9 DEF Profile
<1>3. CASE s.family = "portal" /\ s.platform \notin {"yelp", "tripadvisor"}
  BY <1>3 DEF Profile
<1>4. CASE s.family = "blog"
  BY <1>4 DEF Profile
<1>5. CASE s.family = "travel_booking"
  BY <1>5 DEF Profile
<1>6. CASE s.family = "commerce"
  BY <1>6 DEF Profile
<1>7. CASE s.family = "video_social"
  BY <1>7 DEF Profile
<1>8. CASE s.family = "generic_web"
  BY <1>8 DEF Profile
<1> QED
  BY <1>1, <1>2, <1>3, <1>4, <1>5, <1>6, <1>7, <1>8, <1>9 DEF Families

-----------------------------------------------------------------------------
\* Scores are numbers.

\* What a query's intent adds is a number.
LEMMA IntentsScore ==
    ASSUME NEW s, NEW kind
    PROVE  QueryIntentScore(DestinationQueryIntent(s), kind) \in Nat
<1> DEFINE intent == DestinationQueryIntent(s)
           Intents_ == {"commerce_offer", "fresh_news", "experience_review", "media_content", "official_fact",
                       "local_place", "general"}
<1>1. intent \in Intents_
  <2> DEFINE words == Query(s) \cup s.address
             rules == [i \in DOMAIN IntentRules |-> <<IntentRules[i][1], IntentRules[i][2] \cap words # {}>>]
  <2>1. DOMAIN IntentRules = 1..6
    BY DEF IntentRules
  <2>2. /\ IntentRules[1][1] = "commerce_offer" /\ IntentRules[2][1] = "fresh_news"
        /\ IntentRules[3][1] = "experience_review" /\ IntentRules[4][1] = "media_content"
        /\ IntentRules[5][1] = "official_fact" /\ IntentRules[6][1] = "local_place"
    BY DEF IntentRules
  <2>3. \A n \in 1..6 : IntentRules[n][1] \in Intents_
    <3>1. \A n \in 1..6 : n = 1 \/ n = 2 \/ n = 3 \/ n = 4 \/ n = 5 \/ n = 6
      OBVIOUS
    <3> QED
      BY <2>2, <3>1
  <2>4. DOMAIN rules = 1..6 /\ \A n \in 1..6 : rules[n][1] = IntentRules[n][1]
    BY <2>1
  <2>5. intent = FirstRule(rules, "general")
    BY DEF DestinationQueryIntent
  <2>6. DOMAIN rules \subseteq Nat
    BY <2>4
  <2> HIDE DEF rules, intent
  <2>7. intent = "general" \/ \E n \in DOMAIN rules : intent = rules[n][1]
    BY <2>5, <2>6, OneOfTheAnswers
  <2> QED
    BY <2>3, <2>4, <2>7
<1> HIDE DEF intent
<1>2. \A i \in Intents_ : \A k \in DOMAIN IntentRunnersUp[i] : IntentRunnersUp[i][k] \in Nat
  <2>1. \A k \in DOMAIN IntentRunnersUp["general"] : IntentRunnersUp["general"][k] \in Nat
    BY DEF IntentRunnersUp
  <2>2. \A k \in DOMAIN IntentRunnersUp["fresh_news"] : IntentRunnersUp["fresh_news"][k] \in Nat
    BY DEF IntentRunnersUp
  <2>3. \A k \in DOMAIN IntentRunnersUp["official_fact"] : IntentRunnersUp["official_fact"][k] \in Nat
    BY DEF IntentRunnersUp
  <2>4. \A k \in DOMAIN IntentRunnersUp["experience_review"] : IntentRunnersUp["experience_review"][k] \in Nat
    BY DEF IntentRunnersUp
  <2>5. \A k \in DOMAIN IntentRunnersUp["local_place"] : IntentRunnersUp["local_place"][k] \in Nat
    BY DEF IntentRunnersUp
  <2>6. \A k \in DOMAIN IntentRunnersUp["commerce_offer"] : IntentRunnersUp["commerce_offer"][k] \in Nat
    BY DEF IntentRunnersUp
  <2>7. \A k \in DOMAIN IntentRunnersUp["media_content"] : IntentRunnersUp["media_content"][k] \in Nat
    BY DEF IntentRunnersUp
  <2> QED
    BY <2>1, <2>2, <2>3, <2>4, <2>5, <2>6, <2>7
<1> QED
  BY <1>1, <1>2 DEF QueryIntentScore, intent

\* What an authoritative source adds is a number.
LEMMA AuthorityScores ==
    ASSUME NEW kind, NEW link
    PROVE  AuthorityScore(kind, link) \in Nat
<1> DEFINE w == [authority |-> 8, official_hint |-> 12, institution |-> 10, publisher_text |-> 8, local_text |-> 6]
           signs == AuthoritySignals(kind, link)
<1>1. DOMAIN w = {"authority", "official_hint", "institution", "publisher_text", "local_text"}
      /\ \A k \in DOMAIN w : w[k] \in Nat
  OBVIOUS
<1> HIDE DEF w
<1>2. IsFiniteSet(DOMAIN w)
  <2>1. IsFiniteSet({"authority", "official_hint", "institution", "publisher_text", "local_text"})
    <3>1. IsFiniteSet({"authority"})
      BY FS_Singleton
    <3>2. IsFiniteSet({"authority"} \cup {"official_hint"})
      BY <3>1, FS_AddElement
    <3>3. IsFiniteSet({"authority", "official_hint"} \cup {"institution"})
      BY <3>2, FS_AddElement
    <3>4. IsFiniteSet({"authority", "official_hint", "institution"} \cup {"publisher_text"})
      BY <3>3, FS_AddElement
    <3>5. IsFiniteSet({"authority", "official_hint", "institution", "publisher_text"} \cup {"local_text"})
      BY <3>4, FS_AddElement
    <3> QED
      BY <3>5
  <2> QED
    BY <1>1, <2>1
<1> DEFINE total == SumOver(w, signs)
<1>3. total \in Nat
  BY <1>1, <1>2, SumOverIsNumber
<1>4. AuthorityScore(kind, link) = Min({20, total})
  BY DEF AuthorityScore, w
<1> HIDE DEF total
<1>5. \E x \in {20, total} : \A y \in {20, total} : x <= y
  BY <1>3
<1>6. Min({20, total}) \in {20, total}
  BY <1>5 DEF Min
<1> QED
  BY <1>3, <1>4, <1>6

\* What the warnings take away is a number.
LEMMA WarningScores ==
    ASSUME NEW s, NEW link
    PROVE  WarningScore(s, link) \in Int
<1> DEFINE w == [login |-> 40, stale_year |-> 8]
           a == IF link.host = s.host THEN -5 ELSE 0
           b == IF "low_value" \in link.text \/ ProviderBoilerplate(s, link) THEN -50 ELSE 0
           d == SumOver(w, link.text)
<1>1. DOMAIN w = {"login", "stale_year"} /\ \A k \in DOMAIN w : w[k] \in Nat
  OBVIOUS
<1>2. IsFiniteSet({"login"} \cup {"stale_year"}) /\ {"login"} \cup {"stale_year"} = {"login", "stale_year"}
  BY FS_Singleton, FS_AddElement
<1>3. WarningScore(s, link) = a + b - d
  BY DEF WarningScore
<1>4. a \in Int /\ b \in Int
  OBVIOUS
<1> HIDE DEF w
<1>5. d \in Nat
  BY <1>1, <1>2, SumOverIsNumber
<1> HIDE DEF a, b, d
<1> QED
  BY <1>3, <1>4, <1>5

\* What a fresh result adds is a number.
LEMMA FreshnessScores == ASSUME NEW link PROVE FreshnessScore(link) \in Int
<1> DEFINE rules == << <<8, "recent_year" \in link.text>>, <<2 - 8, "stale_year" \in link.text>>,
                       <<2, "some_year" \in link.text>> >>
<1>1. DOMAIN rules = 1..3 /\ rules[1][1] = 8 /\ rules[2][1] = 2 - 8 /\ rules[3][1] = 2
  OBVIOUS
<1>2. FreshnessScore(link) = FirstRule(rules, 0)
  BY DEF FreshnessScore
<1> HIDE DEF rules
<1>3. \A n \in 1..3 : rules[n][1] \in Int
  <2>1. \A n \in 1..3 : n = 1 \/ n = 2 \/ n = 3
    OBVIOUS
  <2> QED
    BY <1>1, <2>1
<1>4. DOMAIN rules \subseteq Nat
  BY <1>1
<1>5. FirstRule(rules, 0) = 0 \/ \E n \in DOMAIN rules : FirstRule(rules, 0) = rules[n][1]
  BY <1>4, OneOfTheAnswers
<1> QED
  BY <1>1, <1>2, <1>3, <1>5

\* A weighted position is a number.
LEMMA TimesIsNumber == ASSUME NEW a \in Int, NEW b \in Nat PROVE Times(a, b) \in Int
<1>1. a * b \in Int
  OBVIOUS
<1> DEFINE x == a * b
<1>2. x \in Int
  BY <1>1
<1> HIDE DEF x
<1>3. (x + 5) \div 10 \in Int
  BY <1>2
<1> QED
  BY <1>3 DEF Times, x

\* So the score of every candidate is a number.
LEMMA ScoresAreNumbers ==
    ASSUME NEW s, s.family \in Families, NEW link, NEW rank \in Int
    PROVE  ScoreCandidate(s, link, rank) \in Int
<1> DEFINE kind == CandidateKindFor(link)
           p == Profile(s)
           t1 == Times(Max({0, 12 - rank}), p.rank)
           t2 == KindScore(kind)
           t3 == Times(IF Overlaps(Query(s), link.text) THEN 14 ELSE 0, p.query)
           t4 == Times(AuthorityScore(kind, link), p.authority)
           t5 == Times(FreshnessScore(link), p.fresh)
           t6 == Times(IF SourceFamilyFits(s.family, kind) THEN 8 ELSE -12, p.fit)
           t7 == QueryIntentScore(DestinationQueryIntent(s), kind)
           t8 == Granted(p.kinds, kind)
           t9 == IF link.host # s.host THEN 4 ELSE 0
           t10 == WarningScore(s, link)
<1>1. /\ p.rank \in Nat /\ p.query \in Nat /\ p.authority \in Nat /\ p.fresh \in Nat /\ p.fit \in Nat
      /\ \A k \in DOMAIN p.kinds : p.kinds[k] \in Nat
  BY ProfilesAreNumbers
<1>2. ScoreCandidate(s, link, rank) = 50 + t1 + t2 + t3 + t4 + t5 + t6 + t7 + t8 + t9 + t10
  BY DEF ScoreCandidate
<1> HIDE DEF p, kind
<1>3. t1 \in Int
  <2> DEFINE m == Max({0, 12 - rank})
  <2>1. \E x \in {0, 12 - rank} : \A y \in {0, 12 - rank} : x >= y
    OBVIOUS
  <2>2. m \in {0, 12 - rank}
    BY <2>1 DEF Max
  <2>3. m \in Int
    BY <2>2
  <2> HIDE DEF m
  <2>4. Times(m, p.rank) \in Int
    BY <1>1, <2>3, TimesIsNumber
  <2> QED
    BY <2>4 DEF m
<1>4. t2 \in Int
  BY DEF KindScore
<1>5. t3 \in Int
  <2> DEFINE m == IF Overlaps(Query(s), link.text) THEN 14 ELSE 0
  <2>1. m \in Int
    OBVIOUS
  <2> HIDE DEF m
  <2>2. Times(m, p.query) \in Int
    BY <1>1, <2>1, TimesIsNumber
  <2> QED
    BY <2>2 DEF m
<1>6. t4 \in Int
  <2>1. AuthorityScore(kind, link) \in Int
    BY AuthorityScores
  <2> QED
    BY <1>1, <2>1, TimesIsNumber
<1>7. t5 \in Int
  BY <1>1, FreshnessScores, TimesIsNumber
<1>8. t6 \in Int
  <2> DEFINE m == IF SourceFamilyFits(s.family, kind) THEN 8 ELSE -12
  <2>1. m \in Int
    OBVIOUS
  <2> HIDE DEF m
  <2>2. Times(m, p.fit) \in Int
    BY <1>1, <2>1, TimesIsNumber
  <2> QED
    BY <2>2 DEF m
<1>9. t7 \in Int
  BY IntentsScore
<1>10. t8 \in Int
  BY <1>1 DEF Granted
<1>11. t9 \in Int
  OBVIOUS
<1>12. t10 \in Int
  BY WarningScores
<1> HIDE DEF t1, t2, t3, t4, t5, t6, t7, t8, t9, t10
<1> QED
  BY <1>2, <1>3, <1>4, <1>5, <1>6, <1>7, <1>8, <1>9, <1>10, <1>11, <1>12

-----------------------------------------------------------------------------
\* The triage.

\* A top-K and a per-domain budget, the latter {} when absent.
BudgetType(b) == b[1] \in Int /\ (b[2] = {} \/ \E n \in Int : b[2] = {n})

TriageInv ==
    /\ surface \in Surfaces
    /\ \E requests \in Requests : candidates = Candidates(surface, requests)
    /\ BudgetType(budget)
    /\ triage # <<>> => triage = Triage(surface, candidates, children, budget)

\* Which the lesser and the greater of two numbers are.
LEMMA LesserAndGreater ==
    ASSUME NEW a \in Int, NEW b \in Int
    PROVE  /\ Min({a, b}) = IF a <= b THEN a ELSE b
           /\ Max({a, b}) = IF a >= b THEN a ELSE b
<1>1. /\ \E x \in {a, b} : \A y \in {a, b} : x <= y
      /\ \E x \in {a, b} : \A y \in {a, b} : x >= y
  OBVIOUS
<1> DEFINE m == Min({a, b})
           M == Max({a, b})
<1>2. m \in {a, b} /\ \A y \in {a, b} : m <= y
  BY <1>1 DEF Min
<1>3. M \in {a, b} /\ \A y \in {a, b} : M >= y
  BY <1>1 DEF Max
<1> HIDE DEF m, M
<1>4. m = (IF a <= b THEN a ELSE b) /\ M = (IF a >= b THEN a ELSE b)
  BY <1>2, <1>3
<1> QED
  BY <1>4 DEF m, M

\* They are numbers.
LEMMA OneOfTwo == ASSUME NEW a \in Int, NEW b \in Int PROVE Min({a, b}) \in Int /\ Max({a, b}) \in Int
BY LesserAndGreater

\* The budgets of a triage: no domain has more than there is, and no run more than the ceiling.
LEMMA BudgetsAreBounded ==
    ASSUME NEW b, BudgetType(b)
    PROVE  LET K == NormalizeMaxSelected(b[1])
               D == NormalizeMaxPerDomain(b[2], K)
           IN  K \in Int /\ D \in Int /\ 0 <= D /\ D <= K /\ K <= TopKCeiling
<1> DEFINE K == NormalizeMaxSelected(b[1])
           D == NormalizeMaxPerDomain(b[2], K)
<1>1. b[1] \in Int /\ (b[2] = {} \/ \E n \in Int : b[2] = {n})
  BY DEF BudgetType
<1> DEFINE z == 0
<1>9. TopKCeiling \in Int /\ TopKCeiling > z
  <2>1. TopKCeiling \in Nat \ {0}
    BY TriageAssumption
  <2> QED
    BY <2>1
<1>2. K \in Int /\ 0 <= K /\ K <= TopKCeiling
  <2> DEFINE m == Min({TopKCeiling, b[1]})
  <2>1. m \in Int /\ m <= TopKCeiling
    BY <1>9, <1>1, LesserAndGreater
  <2>2. z \in Int
    OBVIOUS
  <2> HIDE DEF m, z
  <2>3. Max({z, m}) = IF z >= m THEN z ELSE m
    BY <2>1, <2>2, LesserAndGreater
  <2>4. K = IF z >= m THEN z ELSE m
    BY <2>3 DEF NormalizeMaxSelected, m, z
  <2> QED
    BY <1>9, <2>1, <2>4 DEF z
<1> HIDE DEF K
<1>3. CASE K = 0
  <2>1. D = 0
    BY <1>3 DEF NormalizeMaxPerDomain
  <2> QED
    BY <1>2, <1>3, <2>1 DEF K
<1>4. CASE K > 0 /\ b[2] = {}
  <2>1. D = Min({2, K})
    BY <1>2, <1>4 DEF NormalizeMaxPerDomain
  <2> DEFINE two == 2
  <2>2. two \in Int
    OBVIOUS
  <2> HIDE DEF two
  <2>3. Min({two, K}) = IF two <= K THEN two ELSE K
    BY <1>2, <2>2, LesserAndGreater
  <2>4. D = IF 2 <= K THEN 2 ELSE K
    BY <2>1, <2>3 DEF two
  <2> HIDE DEF D
  <2>5. D \in Int /\ 0 <= D /\ D <= K
    BY <1>2, <1>4, <2>4
  <2> QED
    BY <1>2, <2>5 DEF K, D
<1>5. CASE K > 0 /\ b[2] # {}
  <2>1. PICK n \in Int : b[2] = {n}
    BY <1>1, <1>5
  <2>2. b[2] \cup {K} = {n, K}
    BY <2>1
  <2> DEFINE m == Min({n, K})
  <2>3. D = Max({z, m})
    BY <1>2, <1>5, <2>2 DEF NormalizeMaxPerDomain
  <2>4. m \in Int /\ m <= K
    BY <1>2, <2>1, LesserAndGreater
  <2>5. z \in Int
    OBVIOUS
  <2> HIDE DEF m, z, D
  <2>6. D = IF z >= m THEN z ELSE m
    BY <2>3, <2>4, <2>5, LesserAndGreater
  <2>7. D \in Int /\ 0 <= D /\ D <= K
    BY <1>2, <1>5, <2>4, <2>6 DEF z
  <2> QED
    BY <1>2, <2>7 DEF K, D
<1> QED
  BY <1>2, <1>3, <1>4, <1>5

\* The candidates of every page can be ordered.
LEMMA CandidatesAreOrdered ==
    ASSUME TriageInv
    PROVE  Ordered(candidates) /\ IsFiniteSet(DOMAIN candidates)
<1>1. PICK requests \in Requests : candidates = Candidates(surface, requests)
  BY DEF TriageInv
<1>2. requests \in Seq(ToSet(requests)) /\ surface.family \in Families
  BY TriageAssumption DEF TriageInv
<1> DEFINE n == Len(requests)
<1>3. n \in Nat
  BY <1>2, LenProperties
<1>4. /\ DOMAIN candidates = 1..n
      /\ \A i \in 1..n : candidates[i] = BuildCandidate(surface, requests, i)
  BY <1>1 DEF Candidates
<1> HIDE DEF n
<1>5. \A i \in 1..n : candidates[i].score = ScoreCandidate(surface, requests[i], i) /\ candidates[i].rank = i
  BY <1>4 DEF BuildCandidate
<1>6. \A i \in 1..n : i \in Int /\ i \in Nat
  BY <1>3
<1>7. \A i \in 1..n : candidates[i].score \in Int
  BY <1>2, <1>5, <1>6, ScoresAreNumbers
<1>8. IsFiniteSet(1..n)
  BY <1>3, FS_Interval
<1>9. Ordered(candidates)
  BY <1>4, <1>5, <1>6, <1>7 DEF Ordered
<1> QED
  BY <1>4, <1>8, <1>9

\* The verdicts of a triage, by the room that the budgets leave.
LEMMA WhatIsTriaged ==
    ASSUME TriageInv, triage # <<>>
    PROVE  LET c == candidates
               K == triage.maxSelected
               D == triage.maxPerDomain
               S == Eligible(surface, c)
           IN  /\ K \in Int /\ D \in Int /\ S \subseteq DOMAIN c /\ IsFiniteSet(S)
               /\ triage.selected = {i \in S : TopKRoom(c, S, K, D, i) /\ DomainRoom(c, S, D, i)}
               /\ triage.domain_budget = {i \in S : TopKRoom(c, S, K, D, i) /\ ~DomainRoom(c, S, D, i)}
               /\ triage.top_k_budget = {i \in S : ~TopKRoom(c, S, K, D, i)}
               /\ triage.duplicate = {i \in DOMAIN c : Repeats(c, i)}
               /\ triage.hard = {i \in DOMAIN c : ~Repeats(c, i)} \ S
<1> DEFINE c == candidates
           K == NormalizeMaxSelected(budget[1])
           D == NormalizeMaxPerDomain(budget[2], K)
           S == Eligible(surface, c)
           r == SelectWithinBudgets(c, Sorted(c, S), K, D)
<1>1. Ordered(c) /\ IsFiniteSet(DOMAIN c)
  BY CandidatesAreOrdered
<1>2. S \subseteq DOMAIN c
  BY DEF Eligible
<1>3. IsFiniteSet(S)
  <2> HIDE DEF S
  <2> QED
    BY <1>1, <1>2, FS_Subset
<1>4. K \in Int /\ D \in Int
  BY BudgetsAreBounded DEF TriageInv
<1>5. /\ triage.maxSelected = K /\ triage.maxPerDomain = D /\ triage.selected = r.picked
      /\ triage.domain_budget = r.limited /\ triage.top_k_budget = S \ (r.picked \cup r.limited)
      /\ triage.duplicate = {i \in DOMAIN c : Repeats(c, i)}
      /\ triage.hard = {i \in DOMAIN c : ~Repeats(c, i)} \ S
  <2>1. triage = Triage(surface, candidates, children, budget)
    BY DEF TriageInv
  <2> HIDE DEF r, S, K, D
  <2>2. Triage(surface, candidates, children, budget) =
          [selected |-> r.picked,
           useful |-> {i \in r.picked :
                          ClassifyChild(surface, candidates[i].kind, children[candidates[i].dest]) = "useful"},
           domain_budget |-> r.limited,
           top_k_budget |-> S \ (r.picked \cup r.limited),
           duplicate |-> {i \in DOMAIN candidates : Repeats(candidates, i)},
           hard |-> {i \in DOMAIN candidates : ~Repeats(candidates, i)} \ S,
           maxSelected |-> K, maxPerDomain |-> D]
    BY DEF Triage, r, S, K, D
  <2> QED
    BY <2>1, <2>2
<1> HIDE DEF K, D, S
<1>6. Decided(c, S, K, D, S, r)
  BY <1>1, <1>2, <1>3, <1>4, TheBestAreSelected
<1> HIDE DEF r
<1>7. /\ r.picked = {i \in S : TopKRoom(c, S, K, D, i) /\ DomainRoom(c, S, D, i)}
      /\ r.limited = {i \in S : TopKRoom(c, S, K, D, i) /\ ~DomainRoom(c, S, D, i)}
  BY <1>6 DEF Decided
<1>8. S \ (r.picked \cup r.limited) = {i \in S : ~TopKRoom(c, S, K, D, i)}
  BY <1>7
<1> QED
  BY <1>2, <1>3, <1>4, <1>5, <1>7, <1>8 DEF S

\* So every triage selects the best.
LEMMA TriageSelectsTheBest == TriageInv => SelectsTheBest
<1> SUFFICES ASSUME TriageInv, triage # <<>>
             PROVE  SelectsTheBest
  BY DEF SelectsTheBest
<1> DEFINE c == candidates
           K == triage.maxSelected
           D == triage.maxPerDomain
           fit == {i \in DOMAIN c : HardRejectionFor(surface, c[i]) = "none" /\ ~Repeats(c, i)}
           better == [i \in fit |-> {k \in fit : Before(c[k], c[i])}]
           domainHasRoom == [i \in fit |-> Cardinality({k \in better[i] : c[k].host = c[i].host}) < D]
           topKHasRoom == [i \in fit |-> Cardinality({k \in better[i] : domainHasRoom[k]}) < K]
<1>1. fit = Eligible(surface, c)
  BY DEF Eligible
<1> HIDE DEF fit
<1>2. /\ triage.selected = {i \in fit : TopKRoom(c, fit, K, D, i) /\ DomainRoom(c, fit, D, i)}
      /\ triage.domain_budget = {i \in fit : TopKRoom(c, fit, K, D, i) /\ ~DomainRoom(c, fit, D, i)}
      /\ triage.top_k_budget = {i \in fit : ~TopKRoom(c, fit, K, D, i)}
      /\ triage.duplicate = {i \in DOMAIN c : Repeats(c, i)}
      /\ triage.hard = {i \in DOMAIN c : ~Repeats(c, i)} \ fit
  BY <1>1, WhatIsTriaged
<1>3. \A i \in fit : better[i] = {k \in fit : Before(c[k], c[i])}
  OBVIOUS
<1> HIDE DEF better
<1>4. \A i \in fit : DomainRoom(c, fit, D, i) <=> domainHasRoom[i]
  <2> SUFFICES ASSUME NEW i \in fit
               PROVE  DomainRoom(c, fit, D, i) <=> domainHasRoom[i]
    OBVIOUS
  <2> DEFINE same == {k \in better[i] : c[k].host = c[i].host}
  <2>1. {k \in fit : Before(c[k], c[i]) /\ c[k].host = c[i].host} = same
    BY <1>3
  <2>2. domainHasRoom[i] <=> Cardinality(same) < D
    BY Zenon
  <2> HIDE DEF same, domainHasRoom
  <2> QED
    BY <2>1, <2>2 DEF DomainRoom
<1>5. \A i \in fit : TopKRoom(c, fit, K, D, i) <=> topKHasRoom[i]
  <2> SUFFICES ASSUME NEW i \in fit
               PROVE  TopKRoom(c, fit, K, D, i) <=> topKHasRoom[i]
    OBVIOUS
  <2> DEFINE roomy == {k \in better[i] : domainHasRoom[k]}
  <2>1. topKHasRoom[i] <=> Cardinality(roomy) < K
    BY Zenon
  <2> HIDE DEF domainHasRoom, topKHasRoom
  <2>2. {k \in fit : Before(c[k], c[i]) /\ DomainRoom(c, fit, D, k)} = roomy
    BY <1>3, <1>4
  <2> HIDE DEF roomy
  <2> QED
    BY <2>1, <2>2 DEF TopKRoom
<1> HIDE DEF domainHasRoom, topKHasRoom
<1>6. /\ triage.selected = {i \in fit : topKHasRoom[i] /\ domainHasRoom[i]}
      /\ triage.domain_budget = {i \in fit : topKHasRoom[i] /\ ~domainHasRoom[i]}
      /\ triage.top_k_budget = {i \in fit : ~topKHasRoom[i]}
  BY <1>2, <1>4, <1>5
<1>7. ASSUME NEW i \in DOMAIN c
      PROVE  Cardinality({v \in {"selected", "domain_budget", "top_k_budget", "duplicate", "hard"} : i \in triage[v]}) = 1
  <2> DEFINE V == {v \in {"selected", "domain_budget", "top_k_budget", "duplicate", "hard"} : i \in triage[v]}
  <2>1. /\ triage["selected"] = triage.selected /\ triage["domain_budget"] = triage.domain_budget
        /\ triage["top_k_budget"] = triage.top_k_budget /\ triage["duplicate"] = triage.duplicate
        /\ triage["hard"] = triage.hard
    OBVIOUS
  <2>2. i \in fit => i \in DOMAIN c /\ ~Repeats(c, i)
    BY DEF fit
  <2>3. \E v : V = {v}
    <3>1. CASE i \in fit /\ topKHasRoom[i] /\ domainHasRoom[i]
      <4>1. V = {"selected"}
        BY <1>2, <1>6, <2>1, <2>2, <3>1
      <4> QED
        BY <4>1
    <3>2. CASE i \in fit /\ topKHasRoom[i] /\ ~domainHasRoom[i]
      <4>1. V = {"domain_budget"}
        BY <1>2, <1>6, <2>1, <2>2, <3>2
      <4> QED
        BY <4>1
    <3>3. CASE i \in fit /\ ~topKHasRoom[i]
      <4>1. V = {"top_k_budget"}
        BY <1>2, <1>6, <2>1, <2>2, <3>3
      <4> QED
        BY <4>1
    <3>4. CASE i \notin fit /\ Repeats(c, i)
      <4>1. V = {"duplicate"}
        BY <1>2, <1>6, <2>1, <3>4
      <4> QED
        BY <4>1
    <3>5. CASE i \notin fit /\ ~Repeats(c, i)
      <4>1. V = {"hard"}
        BY <1>2, <1>6, <2>1, <3>5
      <4> QED
        BY <4>1
    <3> QED
      BY <3>1, <3>2, <3>3, <3>4, <3>5
  <2> HIDE DEF V
  <2>4. Cardinality(V) = 1
    BY <2>3, FS_Singleton
  <2> QED
    BY <2>4 DEF V
<1> QED
  BY <1>6, <1>7 DEF SelectsTheBest, fit, better, domainHasRoom, topKHasRoom

\* The budgets that a triage advises are budgets again.
LEMMA AdvisedBudgets ==
    ASSUME TriageInv, triage # <<>>, RetryAdvice(triage).kind = "increase"
    PROVE  BudgetType(RetryAdvice(triage).budget)
<1> DEFINE t == triage
           downgraded == t.selected # t.useful
           topK == IF downgraded THEN Cardinality(t.top_k_budget) ELSE 0
           domain == IF downgraded THEN Cardinality(t.domain_budget) ELSE 0
           k == IF topK > 0 THEN Min({TopKCeiling, t.maxSelected + topK}) ELSE t.maxSelected
           d == IF domain > 0 THEN Min({k, t.maxPerDomain + domain}) ELSE t.maxPerDomain
<1>1. t.maxSelected \in Int /\ t.maxPerDomain \in Int
  BY WhatIsTriaged
<1>2. Cardinality(t.top_k_budget) \in Nat /\ Cardinality(t.domain_budget) \in Nat
  <2>1. IsFiniteSet(Eligible(surface, candidates))
    BY WhatIsTriaged
  <2>2. t.top_k_budget \subseteq Eligible(surface, candidates) /\ t.domain_budget \subseteq Eligible(surface, candidates)
    BY WhatIsTriaged
  <2> QED
    BY <2>1, <2>2, FS_Subset, FS_CardinalityType
<1>3. topK \in Int /\ domain \in Int
  BY <1>2
<1> HIDE DEF t, topK, domain
<1>4. k \in Int
  <2>1. TopKCeiling \in Int /\ t.maxSelected + topK \in Int
    BY <1>1, <1>3, TriageAssumption
  <2>2. Min({TopKCeiling, t.maxSelected + topK}) \in Int
    BY <2>1, OneOfTwo
  <2> QED
    BY <1>1, <2>2
<1> HIDE DEF k
<1>5. d \in Int
  <2>1. t.maxPerDomain + domain \in Int
    BY <1>1, <1>3
  <2>2. Min({k, t.maxPerDomain + domain}) \in Int
    BY <1>4, <2>1, OneOfTwo
  <2> QED
    BY <1>1, <2>2
<1> HIDE DEF d
<1>6. RetryAdvice(t) = CASE topK + domain = 0 -> [kind |-> "none"]
                         [] topK + domain > 0 /\ k = t.maxSelected /\ d = t.maxPerDomain -> [kind |-> "narrow"]
                         [] OTHER -> [kind |-> "increase", budget |-> <<k, {d}>>]
  BY DEF RetryAdvice, t, topK, domain, k, d
<1>7. RetryAdvice(t).kind = "increase"
  BY DEF t
<1>8. RetryAdvice(t) = [kind |-> "increase", budget |-> <<k, {d}>>]
  BY <1>6, <1>7
<1>9. RetryAdvice(t).budget[1] = k /\ RetryAdvice(t).budget[2] = {d}
  BY <1>8
<1> QED
  BY <1>4, <1>5, <1>9 DEF BudgetType, t

TriageSpec == TriageInit /\ [][TriageNext]_triageVars

\* The best that the budgets allow are selected, whatever the page and the
\* budgets, and every request gets one verdict (destination-triage.ts,
\* buildDestinationTriage and selectWithinBudgets).
THEOREM AlwaysSelectsTheBest == TriageSpec => []SelectsTheBest
<1>1. TriageInit => TriageInv
  <2> SUFFICES ASSUME TriageInit
               PROVE  TriageInv
    OBVIOUS
  <2>1. budget \in Budgets
    BY DEF TriageInit
  <2>2. BudgetType(budget)
    BY <2>1, TriageAssumption DEF BudgetType
  <2> QED
    BY <2>2 DEF TriageInit, TriageInv
<1>2. TriageInv /\ [TriageNext]_triageVars => TriageInv'
  <2> SUFFICES ASSUME TriageInv, [TriageNext]_triageVars
               PROVE  TriageInv'
    OBVIOUS
  <2>1. ASSUME NEW b, BudgetType(b), RunWith(b)
        PROVE  TriageInv'
    <3>1. /\ budget' = b /\ triage' = Triage(surface, candidates, children, b)
          /\ surface' = surface /\ candidates' = candidates /\ children' = children
      BY <2>1 DEF RunWith
    <3>2. triage' = Triage(surface', candidates', children', budget')
      BY <3>1
    <3>3. BudgetType(budget')
      BY <2>1, <3>1
    <3>4. surface' \in Surfaces /\ \E requests \in Requests : candidates' = Candidates(surface', requests)
      BY <3>1 DEF TriageInv
    <3> QED
      BY <3>2, <3>3, <3>4 DEF TriageInv
  <2>2. CASE FirstRun
    <3>1. BudgetType(budget) /\ RunWith(budget)
      BY <2>2 DEF FirstRun, TriageInv
    <3> QED
      BY <2>1, <3>1
  <2>3. CASE FollowAdvice
    <3>1. triage # <<>> /\ RetryAdvice(triage).kind = "increase" /\ RunWith(RetryAdvice(triage).budget)
      BY <2>3 DEF FollowAdvice
    <3>2. BudgetType(RetryAdvice(triage).budget)
      BY <3>1, AdvisedBudgets
    <3> QED
      BY <2>1, <3>1, <3>2
  <2>4. CASE UNCHANGED triageVars
    BY <2>4 DEF triageVars, TriageInv
  <2> QED
    BY <2>2, <2>3, <2>4 DEF TriageNext
<1> QED
  BY <1>1, <1>2, TriageSelectsTheBest, PTL DEF TriageSpec

-----------------------------------------------------------------------------
(* What the advice on the budgets comes to.                                *)

\* The first members of a sequence.
LEMMA Taking ==
    ASSUME NEW s, Sequential(s), NEW n \in Nat
    PROVE  /\ Sequential(Take(s, n)) /\ Len(Take(s, n)) <= n /\ Len(Take(s, n)) <= Len(s)
           /\ \A i \in DOMAIN Take(s, n) : i \in DOMAIN s /\ Take(s, n)[i] = s[i]
<1> DEFINE k == IF n < Len(s) THEN n ELSE Len(s)
           t == Take(s, n)
<1>1. PICK S : s \in Seq(S)
  BY DEF Sequential
<1>2. Len(s) \in Nat /\ DOMAIN s = 1..Len(s) /\ \A i \in 1..Len(s) : s[i] \in S
  BY <1>1, LenProperties
<1>3. k \in Nat /\ k <= n /\ k <= Len(s)
  BY <1>2
<1>4. t = SubSeq(s, 1, k)
  BY DEF Take
<1> HIDE DEF k, t
<1>5. t \in Seq(S) /\ Len(t) = k /\ \A i \in 1..k : t[i] = s[i]
  <2>1. \A i \in 1..k : s[i] \in S
    BY <1>2, <1>3
  <2>2. /\ SubSeq(s, 1, k) \in Seq(S) /\ Len(SubSeq(s, 1, k)) = IF 1 <= k THEN k - 1 + 1 ELSE 0
        /\ \A i \in 1..(k - 1 + 1) : SubSeq(s, 1, k)[i] = s[1 + i - 1]
    BY <1>3, <2>1, SubSeqProperties
  <2> QED
    BY <1>3, <1>4, <2>2
<1>6. DOMAIN t = 1..k
  BY <1>5, LenProperties
<1>7. \A i \in DOMAIN t : i \in DOMAIN s /\ t[i] = s[i]
  BY <1>2, <1>3, <1>5, <1>6
<1>8. Sequential(t) /\ Len(t) <= n /\ Len(t) <= Len(s)
  BY <1>3, <1>5 DEF Sequential
<1> QED
  BY <1>7, <1>8 DEF t

\* A pair of budgets within bounds is taken as it is.
LEMMA BoundedBudgets ==
    ASSUME NEW k \in Int, NEW d \in Int, 0 <= d, d <= k, k <= TopKCeiling
    PROVE  NormalizeMaxSelected(k) = k /\ NormalizeMaxPerDomain({d}, k) = d
<1> DEFINE z == 0
<1>1. TopKCeiling \in Int /\ z \in Int /\ k >= z /\ d >= z
  BY TriageAssumption
<1>2. Min({TopKCeiling, k}) = k
  BY <1>1, LesserAndGreater
<1>3. Min({d, k}) = d
  BY LesserAndGreater
<1> HIDE DEF z
<1>4. Max({z, k}) = k /\ Max({z, d}) = d
  BY <1>1, LesserAndGreater
<1>5. NormalizeMaxSelected(k) = k
  BY <1>2, <1>4 DEF NormalizeMaxSelected, z
<1>6. NormalizeMaxPerDomain({d}, k) = d
  <2>1. {d} \cup {k} = {d, k} /\ {d} # {}
    OBVIOUS
  <2>2. CASE k = 0
    BY <2>2 DEF NormalizeMaxPerDomain
  <2>3. CASE k # 0
    <3>1. NormalizeMaxPerDomain({d}, k) = Max({0, Min({d, k})})
      BY <2>1, <2>3 DEF NormalizeMaxPerDomain
    <3> QED
      BY <1>3, <1>4, <3>1 DEF z
  <2> QED
    BY <2>2, <2>3
<1> QED
  BY <1>5, <1>6

\* The budgets of a triage are bounded, and what is left out for them is finite.
LEMMA BudgetsOfTriage ==
    ASSUME TriageInv, triage # <<>>
    PROVE  LET K == triage.maxSelected
               D == triage.maxPerDomain
           IN  /\ K \in Int /\ D \in Int /\ 0 <= D /\ D <= K /\ K <= TopKCeiling /\ TopKCeiling \in Int
               /\ K = NormalizeMaxSelected(budget[1]) /\ D = NormalizeMaxPerDomain(budget[2], K)
               /\ IsFiniteSet(triage.top_k_budget) /\ IsFiniteSet(triage.domain_budget)
               /\ Cardinality(triage.top_k_budget) \in Nat /\ Cardinality(triage.domain_budget) \in Nat
               /\ Cardinality(triage.top_k_budget) = 0 <=> triage.top_k_budget = {}
               /\ Cardinality(triage.domain_budget) = 0 <=> triage.domain_budget = {}
               /\ triage.selected = {} => triage.useful = {}
<1>1. triage = Triage(surface, candidates, children, budget)
  BY DEF TriageInv
<1>2. /\ triage.maxSelected = NormalizeMaxSelected(budget[1])
      /\ triage.maxPerDomain = NormalizeMaxPerDomain(budget[2], NormalizeMaxSelected(budget[1]))
      /\ triage.useful \subseteq triage.selected
  BY <1>1, Zenon DEF Triage
<1>3. IsFiniteSet(triage.top_k_budget) /\ IsFiniteSet(triage.domain_budget)
  <2>1. IsFiniteSet(Eligible(surface, candidates))
    BY WhatIsTriaged
  <2>2. triage.top_k_budget \subseteq Eligible(surface, candidates) /\ triage.domain_budget \subseteq Eligible(surface, candidates)
    BY WhatIsTriaged
  <2> QED
    BY <2>1, <2>2, FS_Subset
<1>4. TopKCeiling \in Int
  BY TriageAssumption
<1>5. /\ Cardinality(triage.top_k_budget) \in Nat /\ Cardinality(triage.domain_budget) \in Nat
      /\ Cardinality(triage.top_k_budget) = 0 <=> triage.top_k_budget = {}
      /\ Cardinality(triage.domain_budget) = 0 <=> triage.domain_budget = {}
  BY <1>3, FS_CardinalityType, FS_EmptySet
<1>6. BudgetType(budget)
  BY DEF TriageInv
<1>7. /\ triage.maxSelected \in Int /\ triage.maxPerDomain \in Int /\ 0 <= triage.maxPerDomain
      /\ triage.maxPerDomain <= triage.maxSelected /\ triage.maxSelected <= TopKCeiling
  BY <1>2, <1>6, BudgetsAreBounded
<1> QED
  BY <1>2, <1>3, <1>4, <1>5, <1>7

\* Advice raises a budget for which somebody was left out, and never lowers one.
LEMMA AdviceRaises ==
    ASSUME TriageInv, triage # <<>>
    PROVE  LET K == triage.maxSelected
               D == triage.maxPerDomain
               topK == Cardinality(triage.top_k_budget)
               advice == RetryAdvice(triage)
               k == NormalizeMaxSelected(advice.budget[1])
               d == NormalizeMaxPerDomain(advice.budget[2], k)
           IN  /\ advice.kind = "increase" =>
                      /\ triage.selected # triage.useful
                      /\ k \in Int /\ d \in Int /\ K <= k /\ D <= d
                      /\ D # d => triage.domain_budget # {}
                      /\ D = d => /\ triage.domain_budget = {} /\ triage.top_k_budget # {} /\ K # k
                                  /\ k = TopKCeiling \/ k = K + topK
                      /\ K # k => triage.top_k_budget # {} /\ K # TopKCeiling
               /\ advice.kind # "increase" /\ triage.selected # triage.useful =>
                      \/ K = TopKCeiling
                      \/ triage.top_k_budget = {} /\ triage.domain_budget = {}
                      \/ K = D /\ triage.domain_budget # {}
<1> DEFINE t == triage
           K == t.maxSelected
           D == t.maxPerDomain
           downgraded == t.selected # t.useful
           topK == IF downgraded THEN Cardinality(t.top_k_budget) ELSE 0
           domain == IF downgraded THEN Cardinality(t.domain_budget) ELSE 0
           k == IF topK > 0 THEN Min({TopKCeiling, K + topK}) ELSE K
           d == IF domain > 0 THEN Min({k, D + domain}) ELSE D
           advice == RetryAdvice(t)
<1>1. /\ K \in Int /\ D \in Int /\ 0 <= D /\ D <= K /\ K <= TopKCeiling /\ TopKCeiling \in Int
      /\ Cardinality(t.top_k_budget) \in Nat /\ Cardinality(t.domain_budget) \in Nat
      /\ Cardinality(t.top_k_budget) = 0 <=> t.top_k_budget = {}
      /\ Cardinality(t.domain_budget) = 0 <=> t.domain_budget = {}
  BY BudgetsOfTriage
<1>2. topK \in Nat /\ domain \in Nat /\ (~downgraded => topK = 0 /\ domain = 0)
  BY <1>1
<1>3. downgraded => topK = Cardinality(t.top_k_budget) /\ domain = Cardinality(t.domain_budget)
  OBVIOUS
<1>4. advice = CASE topK + domain = 0 -> [kind |-> "none"]
                 [] topK + domain > 0 /\ k = K /\ d = D -> [kind |-> "narrow"]
                 [] OTHER -> [kind |-> "increase", budget |-> <<k, {d}>>]
  BY DEF RetryAdvice
<1> HIDE DEF t, topK, domain, downgraded
<1> HIDE DEF K, D
<1>5. k \in Int /\ K <= k /\ k <= TopKCeiling /\ (topK = 0 => k = K)
      /\ (topK # 0 => k = TopKCeiling \/ k = K + topK)
      /\ (k = K => topK = 0 \/ K = TopKCeiling)
  <2>1. K + topK \in Int
    BY <1>1, <1>2
  <2>2. Min({TopKCeiling, K + topK}) = IF TopKCeiling <= K + topK THEN TopKCeiling ELSE K + topK
    BY <1>1, <2>1, LesserAndGreater
  <2> QED
    BY <1>1, <1>2, <2>2
<1> HIDE DEF k
<1>6. d \in Int /\ D <= d /\ d <= k /\ (domain = 0 => d = D) /\ (d = D => domain = 0 \/ k = D)
  <2>1. D + domain \in Int
    BY <1>1, <1>2
  <2>2. Min({k, D + domain}) = IF k <= D + domain THEN k ELSE D + domain
    BY <1>5, <2>1, LesserAndGreater
  <2> QED
    BY <1>1, <1>2, <1>5, <2>2
<1> HIDE DEF d
<1>7. advice.kind = "increase" =>
          advice = [kind |-> "increase", budget |-> <<k, {d}>>] /\ topK + domain > 0 /\ ~(k = K /\ d = D)
  <2>1. CASE topK + domain = 0
    BY <1>4, <2>1
  <2>2. CASE topK + domain > 0 /\ k = K /\ d = D
    BY <1>2, <1>4, <2>2
  <2>3. CASE topK + domain > 0 /\ ~(k = K /\ d = D)
    <3>1. advice = [kind |-> "increase", budget |-> <<k, {d}>>]
      BY <1>4, <2>3
    <3> QED
      BY <2>3, <3>1
  <2> QED
    BY <1>2, <2>1, <2>2, <2>3
<1>8. advice.kind # "increase" => topK + domain = 0 \/ (k = K /\ d = D)
  <2>1. CASE topK + domain > 0 /\ ~(k = K /\ d = D)
    <3>1. advice = [kind |-> "increase", budget |-> <<k, {d}>>]
      BY <1>4, <2>1
    <3> QED
      BY <3>1
  <2> QED
    BY <1>2, <2>1
<1>9. ASSUME advice.kind = "increase"
      PROVE  /\ downgraded
             /\ NormalizeMaxSelected(advice.budget[1]) = k /\ NormalizeMaxPerDomain(advice.budget[2], k) = d
             /\ D # d => domain # 0
             /\ D = d => domain = 0 /\ topK # 0 /\ K # k /\ (k = TopKCeiling \/ k = K + topK)
             /\ K # k => topK # 0 /\ K # TopKCeiling
  <2>1. advice.budget[1] = k /\ advice.budget[2] = {d}
    BY <1>7, <1>9
  <2>2. NormalizeMaxSelected(k) = k /\ NormalizeMaxPerDomain({d}, k) = d
    BY <1>1, <1>5, <1>6, BoundedBudgets
  <2>3. topK + domain > 0 /\ ~(k = K /\ d = D)
    BY <1>7, <1>9
  <2>4. downgraded
    BY <1>2, <2>3
  <2>5. D # d => domain # 0
    BY <1>6
  <2>6. D = d => domain = 0 /\ topK # 0 /\ K # k /\ (k = TopKCeiling \/ k = K + topK)
    BY <1>1, <1>2, <1>5, <1>6, <2>3
  <2>7. K # k => topK # 0 /\ K # TopKCeiling
    BY <1>1, <1>5
  <2> QED
    BY <2>1, <2>2, <2>4, <2>5, <2>6, <2>7
<1>10. ASSUME advice.kind # "increase", downgraded
       PROVE  K = TopKCeiling \/ (topK = 0 /\ domain = 0) \/ (K = D /\ domain # 0)
  BY <1>1, <1>2, <1>5, <1>6, <1>8, <1>10
<1>11. advice.kind = "increase" =>
          /\ downgraded
          /\ NormalizeMaxSelected(advice.budget[1]) = k /\ NormalizeMaxPerDomain(advice.budget[2], k) = d
          /\ D # d => t.domain_budget # {}
          /\ D = d => t.domain_budget = {} /\ t.top_k_budget # {} /\ K # k /\ (k = TopKCeiling \/ k = K + Cardinality(t.top_k_budget))
          /\ K # k => t.top_k_budget # {} /\ K # TopKCeiling
  BY <1>1, <1>3, <1>9
<1>12. advice.kind # "increase" /\ downgraded =>
          K = TopKCeiling \/ (t.top_k_budget = {} /\ t.domain_budget = {}) \/ (K = D /\ t.domain_budget # {})
  BY <1>1, <1>3, <1>10
<1> HIDE DEF advice
<1>13. advice = RetryAdvice(triage) /\ K = triage.maxSelected /\ D = triage.maxPerDomain /\ t = triage
       /\ (downgraded <=> triage.selected # triage.useful)
  BY DEF advice, K, D, t, downgraded
<1> QED
  BY <1>5, <1>6, <1>11, <1>12, <1>13

\* Finitely many candidates have a first and a last.
LEMMA FirstAndLast ==
    ASSUME NEW c, Ordered(c), NEW T \in SUBSET DOMAIN c, IsFiniteSet(T), T # {}
    PROVE  /\ \E i \in T : \A k \in T : k # i => Before(c[i], c[k])
           /\ \E i \in T : \A k \in T : k # i => Before(c[k], c[i])
<1> DEFINE p == [i \in T |-> Position(c, T, i)]
           P == Values(p, T)
<1>1. /\ Cardinality(T) \in Nat
      /\ \A i \in T : p[i] \in 1..Cardinality(T)
      /\ \A i, j \in T : Before(c[i], c[j]) <=> p[i] < p[j]
      /\ \A i, j \in T : p[i] = p[j] => i = j
  BY Positions
<1>2. \A i \in T : p[i] \in Nat
  BY <1>1
<1> HIDE DEF p
<1>3. IsFiniteSet(P) /\ P \in SUBSET Nat /\ P # {}
  <2>1. IsFiniteSet(P) /\ P \subseteq Nat
    BY <1>2, ValuesIn
  <2>2. P # {}
    BY DEF Values
  <2> QED
    BY <2>1, <2>2
<1>4. (\E n \in P : \A k \in P : n <= k) /\ (\E n \in P : \A k \in P : k <= n)
  <2> HIDE DEF P
  <2> QED
    BY <1>3, LeastOf, MostOf
<1>5. PICK i \in T : \A k \in T : p[i] <= p[k]
  BY <1>4 DEF Values
<1>6. PICK j \in T : \A k \in T : p[k] <= p[j]
  BY <1>4 DEF Values
<1>7. \A k \in T : k # i => Before(c[i], c[k])
  <2> SUFFICES ASSUME NEW k \in T, k # i
               PROVE  Before(c[i], c[k])
    OBVIOUS
  <2>1. p[i] \in Nat /\ p[k] \in Nat /\ p[i] <= p[k] /\ p[i] # p[k]
    BY <1>1, <1>2, <1>5
  <2> QED
    BY <1>1, <2>1
<1>8. \A k \in T : k # j => Before(c[k], c[j])
  <2> SUFFICES ASSUME NEW k \in T, k # j
               PROVE  Before(c[k], c[j])
    OBVIOUS
  <2>1. p[j] \in Nat /\ p[k] \in Nat /\ p[k] <= p[j] /\ p[j] # p[k]
    BY <1>1, <1>2, <1>6
  <2> QED
    BY <1>1, <2>1
<1> QED
  BY <1>7, <1>8

\* Of the first n in some order, the last has at most n - 1 before it.
LEMMA NoMoreThan ==
    ASSUME NEW c, Ordered(c), NEW T \in SUBSET DOMAIN c, IsFiniteSet(T), NEW n \in Int, 0 <= n,
           \A i \in T : Cardinality(Better(c, T, i)) < n
    PROVE  Cardinality(T) \in Nat /\ Cardinality(T) <= n
<1>1. Cardinality(T) \in Nat
  BY FS_CardinalityType
<1>2. CASE T = {}
  BY <1>1, <1>2, FS_EmptySet
<1>3. CASE T # {}
  <2>1. PICK i \in T : \A k \in T : k # i => Before(c[k], c[i])
    BY <1>3, FirstAndLast
  <2>2. Better(c, T, i) = T \ {i}
    BY <2>1, BeforeIsAnOrder DEF Better
  <2>3. Cardinality(T \ {i}) = Cardinality(T) - 1
    BY FS_RemoveElement
  <2>4. Cardinality(T \ {i}) < n
    BY <2>2
  <2> DEFINE m == Cardinality(T)
  <2>5. m - 1 < n /\ m \in Nat
    BY <1>1, <2>3, <2>4
  <2> HIDE DEF m
  <2>6. m <= n
    BY <2>5
  <2> QED
    BY <1>1, <2>6 DEF m
<1> QED
  BY <1>2, <1>3

\* The first candidate that its domain had no room for finds room once the budget
\* of a domain is raised; and that budget was less than the budget of all.
LEMMA FirstLimited ==
    ASSUME NEW c, Ordered(c), NEW S \in SUBSET DOMAIN c, IsFiniteSet(S), NEW K \in Int, NEW D \in Int, 0 <= D,
           {i \in S : TopKRoom(c, S, K, D, i) /\ ~DomainRoom(c, S, D, i)} # {}
    PROVE  /\ D < K
           /\ \E x \in S : /\ ~DomainRoom(c, S, D, x)
                           /\ \A k, d \in Int : K <= k /\ D < d => TopKRoom(c, S, k, d, x) /\ DomainRoom(c, S, d, x)
<1> DEFINE L == {i \in S : TopKRoom(c, S, K, D, i) /\ ~DomainRoom(c, S, D, i)}
           Roomy(i, d) == {k \in S : Before(c[k], c[i]) /\ DomainRoom(c, S, d, k)}
           Same(i) == {k \in S : Before(c[k], c[i]) /\ c[k].host = c[i].host}
<1>1. L \in SUBSET DOMAIN c /\ IsFiniteSet(L) /\ L # {}
  BY FS_Subset
<1>2. PICK x \in L : \A k \in L : k # x => Before(c[x], c[k])
  <2> HIDE DEF L
  <2> QED
    BY <1>1, FirstAndLast
<1>3. x \in S /\ TopKRoom(c, S, K, D, x) /\ ~DomainRoom(c, S, D, x)
  OBVIOUS
<1>4. \A T \in SUBSET S : IsFiniteSet(T) /\ Cardinality(T) \in Nat
  BY FS_Subset, FS_CardinalityType
<1>5. ASSUME NEW k \in S, Before(c[k], c[x])
      PROVE  DomainRoom(c, S, D, k)
  <2>1. Roomy(k, D) \subseteq Roomy(x, D)
    BY <1>3, <1>5, BeforeIsAnOrder
  <2>2. Cardinality(Roomy(k, D)) <= Cardinality(Roomy(x, D))
    <3>1. Roomy(x, D) \in SUBSET S
      OBVIOUS
    <3> HIDE DEF Roomy
    <3> QED
      BY <1>4, <2>1, <3>1, FS_Subset
  <2>3. Cardinality(Roomy(x, D)) < K /\ Cardinality(Roomy(x, D)) \in Nat /\ Cardinality(Roomy(k, D)) \in Nat
    BY <1>3, <1>4 DEF TopKRoom
  <2>4. Cardinality(Roomy(k, D)) < K
    <3> HIDE DEF Roomy
    <3> QED
      BY <2>2, <2>3
  <2>5. TopKRoom(c, S, K, D, k)
    BY <2>4 DEF TopKRoom
  <2>6. k \notin L
    <3>1. k # x /\ ~Before(c[x], c[k])
      BY <1>3, <1>5, BeforeIsAnOrder
    <3> QED
      BY <1>2, <3>1
  <2> QED
    BY <2>5, <2>6
<1> DEFINE B == Better(c, S, x)
           H == Same(x)
<1>6. B = Roomy(x, D)
  BY <1>5 DEF Better
<1>7. Cardinality(B) < K
  BY <1>3, <1>6 DEF TopKRoom
<1>8. B \in SUBSET S /\ H \in SUBSET S /\ H \subseteq B
  BY DEF Better
<1>9. \A i \in H : Cardinality(Better(c, H, i)) < D
  <2> SUFFICES ASSUME NEW i \in H
               PROVE  Cardinality(Better(c, H, i)) < D
    OBVIOUS
  <2>1. DomainRoom(c, S, D, i)
    BY <1>5
  <2>2. Better(c, H, i) = Same(i)
    BY <1>3, BeforeIsAnOrder DEF Better
  <2> QED
    BY <2>1, <2>2 DEF DomainRoom
<1>10. ~(Cardinality(H) < D)
  BY <1>3 DEF DomainRoom
<1> HIDE DEF B, H
<1>11. IsFiniteSet(H) /\ Cardinality(H) \in Nat /\ Cardinality(H) <= D
  <2>1. IsFiniteSet(H) /\ H \in SUBSET DOMAIN c
    BY <1>4, <1>8
  <2> QED
    BY <1>9, <2>1, NoMoreThan
<1>12. Cardinality(B) \in Nat /\ Cardinality(H) <= Cardinality(B)
  BY <1>4, <1>8, FS_Subset
<1>13. D < K /\ Cardinality(H) = D
  BY <1>7, <1>10, <1>11, <1>12
<1>14. ASSUME NEW k \in Int, NEW d \in Int, K <= k, D < d
       PROVE  TopKRoom(c, S, k, d, x) /\ DomainRoom(c, S, d, x)
  <2>1. Cardinality(H) < d
    BY <1>13, <1>14
  <2>2. DomainRoom(c, S, d, x)
    BY <2>1 DEF DomainRoom, H
  <2>3. Roomy(x, d) \subseteq B
    BY DEF B, Better
  <2>4. Cardinality(Roomy(x, d)) <= Cardinality(B) /\ Cardinality(Roomy(x, d)) \in Nat
    <3> HIDE DEF Roomy
    <3>1. IsFiniteSet(B)
      BY <1>4, <1>8
    <3> QED
      BY <2>3, <3>1, FS_Subset, FS_CardinalityType
  <2>5. Cardinality(Roomy(x, d)) < k
    <3> HIDE DEF Roomy
    <3> QED
      BY <1>7, <1>12, <1>14, <2>4
  <2> QED
    BY <2>2, <2>5 DEF TopKRoom
<1> QED
  BY <1>3, <1>13, <1>14

\* Where no domain was short of room, there is room for all that were left out once
\* the budget is raised by their number.
LEMMA RoomForAll ==
    ASSUME NEW c, Ordered(c), NEW S \in SUBSET DOMAIN c, IsFiniteSet(S), NEW K \in Int, NEW D \in Int, 0 <= K,
           {i \in S : TopKRoom(c, S, K, D, i) /\ ~DomainRoom(c, S, D, i)} = {},
           NEW T, T = {i \in S : ~TopKRoom(c, S, K, D, i)}
    PROVE  \A i \in S : TopKRoom(c, S, K + Cardinality(T), D, i)
<1> DEFINE G == {i \in S : TopKRoom(c, S, K, D, i)}
<1>1. G \cap T = {} /\ G \cup T = S /\ G \in SUBSET DOMAIN c
  OBVIOUS
<1>2. \A i \in G : DomainRoom(c, S, D, i)
  OBVIOUS
<1>3. \A U \in SUBSET S : IsFiniteSet(U) /\ Cardinality(U) \in Nat
  BY FS_Subset, FS_CardinalityType
<1>4. \A i \in G : Cardinality(Better(c, G, i)) < K
  <2> SUFFICES ASSUME NEW i \in G
               PROVE  Cardinality(Better(c, G, i)) < K
    OBVIOUS
  <2> DEFINE R == {k \in S : Before(c[k], c[i]) /\ DomainRoom(c, S, D, k)}
             B == Better(c, G, i)
  <2>1. B \subseteq R /\ R \in SUBSET S
    BY <1>2 DEF Better
  <2>2. Cardinality(R) < K
    BY DEF TopKRoom
  <2> HIDE DEF B, R, G
  <2>3. IsFiniteSet(R) /\ Cardinality(R) \in Nat
    BY <1>3, <2>1
  <2>4. Cardinality(B) <= Cardinality(R) /\ Cardinality(B) \in Nat
    BY <2>1, <2>3, FS_Subset, FS_CardinalityType
  <2>5. Cardinality(B) < K
    BY <2>2, <2>3, <2>4
  <2> QED
    BY <2>5 DEF B
<1>5. G \in SUBSET S /\ T \in SUBSET S
  OBVIOUS
<1> HIDE DEF G
<1>6. Cardinality(G) \in Nat /\ Cardinality(G) <= K
  <2>1. IsFiniteSet(G)
    BY <1>3, <1>5
  <2> QED
    BY <1>1, <1>4, <2>1, NoMoreThan
<1>7. Cardinality(S) = Cardinality(G) + Cardinality(T)
  <2>1. IsFiniteSet(G) /\ IsFiniteSet(T)
    BY <1>3, <1>5
  <2>2. Cardinality(G \cup T) = Cardinality(G) + Cardinality(T) - Cardinality(G \cap T)
    BY <2>1, FS_Union
  <2>3. Cardinality(G \cap T) = 0 /\ Cardinality(G) \in Nat /\ Cardinality(T) \in Nat
    BY <1>1, <2>1, FS_EmptySet, FS_CardinalityType
  <2>4. Cardinality(S) = Cardinality(G \cup T)
    BY <1>1
  <2> DEFINE g == Cardinality(G)
             t == Cardinality(T)
             both == Cardinality(G \cap T)
  <2>5. Cardinality(S) = g + t - both /\ both = 0 /\ g \in Nat /\ t \in Nat
    BY <2>2, <2>3, <2>4
  <2> HIDE DEF g, t, both
  <2>6. Cardinality(S) = g + t
    BY <2>5
  <2> QED
    BY <2>6 DEF g, t
<1>8. Cardinality(S) \in Nat /\ Cardinality(T) \in Nat
  BY <1>3, <1>5
<1>9. Cardinality(S) <= K + Cardinality(T)
  BY <1>6, <1>7, <1>8
<1>10. ASSUME NEW i \in S
       PROVE  Cardinality({k \in S : Before(c[k], c[i]) /\ DomainRoom(c, S, D, k)}) < K + Cardinality(T)
  <2> DEFINE R == {k \in S : Before(c[k], c[i]) /\ DomainRoom(c, S, D, k)}
  <2>1. i \notin R /\ R \subseteq S
    BY BeforeIsAnOrder
  <2> HIDE DEF R
  <2>2. Cardinality(R) <= Cardinality(S) /\ Cardinality(R) # Cardinality(S) /\ Cardinality(R) \in Nat
    BY <1>3, <2>1, FS_Subset
  <2>3. Cardinality(R) < K + Cardinality(T)
    BY <1>8, <1>9, <2>2
  <2> QED
    BY <2>3 DEF R
<1> QED
  BY <1>10 DEF TopKRoom

\* What a triage t of the candidates c with the budgets K and D says, by the room
\* that they leave.
Verdicts(t, s, c, results, K, D) ==
    LET S == Eligible(s, c)
    IN  /\ t # <<>> /\ t.maxSelected = K /\ t.maxPerDomain = D
        /\ t.selected = {i \in S : TopKRoom(c, S, K, D, i) /\ DomainRoom(c, S, D, i)}
        /\ t.domain_budget = {i \in S : TopKRoom(c, S, K, D, i) /\ ~DomainRoom(c, S, D, i)}
        /\ t.top_k_budget = {i \in S : ~TopKRoom(c, S, K, D, i)}
        /\ t.useful = {i \in t.selected : ClassifyChild(s, c[i].kind, results[c[i].dest]) = "useful"}
        /\ t.duplicate = {i \in DOMAIN c : Repeats(c, i)}
        /\ t.hard = {i \in DOMAIN c : ~Repeats(c, i)} \ S

\* That is what every triage says.
LEMMA VerdictsOf ==
    ASSUME NEW s, NEW c, Ordered(c), IsFiniteSet(DOMAIN c), NEW results, NEW b, BudgetType(b)
    PROVE  LET K == NormalizeMaxSelected(b[1])
           IN  Verdicts(Triage(s, c, results, b), s, c, results, K, NormalizeMaxPerDomain(b[2], K))
<1> DEFINE t == Triage(s, c, results, b)
           K == NormalizeMaxSelected(b[1])
           D == NormalizeMaxPerDomain(b[2], K)
           S == Eligible(s, c)
           r == SelectWithinBudgets(c, Sorted(c, S), K, D)
<1>1. S \subseteq DOMAIN c
  BY DEF Eligible
<1>2. IsFiniteSet(S)
  <2> HIDE DEF S
  <2> QED
    BY <1>1, FS_Subset
<1>3. K \in Int /\ D \in Int
  BY BudgetsAreBounded
<1>4. t = [selected |-> r.picked,
           useful |-> {i \in r.picked : ClassifyChild(s, c[i].kind, results[c[i].dest]) = "useful"},
           domain_budget |-> r.limited,
           top_k_budget |-> S \ (r.picked \cup r.limited),
           duplicate |-> {i \in DOMAIN c : Repeats(c, i)},
           hard |-> {i \in DOMAIN c : ~Repeats(c, i)} \ S,
           maxSelected |-> K, maxPerDomain |-> D]
  BY DEF Triage
<1> HIDE DEF K, D, S
<1>5. Decided(c, S, K, D, S, r)
  BY <1>1, <1>2, <1>3, TheBestAreSelected
<1> HIDE DEF r, t
<1>6. /\ t.maxSelected = K /\ t.maxPerDomain = D /\ t.selected = r.picked
      /\ t.useful = {i \in r.picked : ClassifyChild(s, c[i].kind, results[c[i].dest]) = "useful"}
      /\ t.domain_budget = r.limited /\ t.top_k_budget = S \ (r.picked \cup r.limited)
      /\ t.duplicate = {i \in DOMAIN c : Repeats(c, i)}
      /\ t.hard = {i \in DOMAIN c : ~Repeats(c, i)} \ S
  BY <1>4
<1>7. t # <<>>
  BY <1>4
<1>8. /\ r.picked = {i \in S : TopKRoom(c, S, K, D, i) /\ DomainRoom(c, S, D, i)}
      /\ r.limited = {i \in S : TopKRoom(c, S, K, D, i) /\ ~DomainRoom(c, S, D, i)}
  BY <1>5 DEF Decided
<1>9. S \ (r.picked \cup r.limited) = {i \in S : ~TopKRoom(c, S, K, D, i)}
  BY <1>8
<1>10. t.useful = {i \in t.selected : ClassifyChild(s, c[i].kind, results[c[i].dest]) = "useful"}
  BY <1>6
<1>11. /\ t.selected = {i \in S : TopKRoom(c, S, K, D, i) /\ DomainRoom(c, S, D, i)}
       /\ t.domain_budget = {i \in S : TopKRoom(c, S, K, D, i) /\ ~DomainRoom(c, S, D, i)}
       /\ t.top_k_budget = {i \in S : ~TopKRoom(c, S, K, D, i)}
  BY <1>6, <1>8, <1>9
<1> QED
  BY <1>1, <1>2, <1>3, <1>6, <1>7, <1>10, <1>11 DEF K, D, S, t, Verdicts

\* What has been tried was within the budget of its domain; a run that captured
\* nothing new has nobody left whom more room for all would let in.
AdviceInv ==
    /\ idle \in {0, 1}
    /\ triage = <<>> => tried = {} /\ idle = 0
    /\ triage # <<>> =>
          /\ \A i \in Eligible(surface, candidates) : candidates[i].dest \in tried =>
                 DomainRoom(candidates, Eligible(surface, candidates), triage.maxPerDomain, i)
          /\ idle = 1 => triage.selected = {} \/ triage.maxSelected = TopKCeiling \/ triage.top_k_budget = {}

\* Such a state has reached all that it can.
LEMMA NothingMissed == TriageInv /\ AdviceInv => AdviceReachesAll
<1> SUFFICES ASSUME TriageInv, AdviceInv, triage # <<>>
             PROVE  /\ idle <= 1
                    /\ RetryAdvice(triage).kind # "increase" /\ triage.selected # triage.useful
                         => \/ triage.maxSelected = TopKCeiling
                            \/ {candidates[i].dest : i \in triage.top_k_budget \cup triage.domain_budget} \subseteq tried
  BY DEF AdviceReachesAll
<1>1. idle <= 1
  BY DEF AdviceInv
<1>2. ASSUME RetryAdvice(triage).kind # "increase", triage.selected # triage.useful, triage.maxSelected # TopKCeiling
      PROVE  {candidates[i].dest : i \in triage.top_k_budget \cup triage.domain_budget} \subseteq tried
  <2>1. \/ triage.top_k_budget = {} /\ triage.domain_budget = {}
        \/ triage.maxSelected = triage.maxPerDomain /\ triage.domain_budget # {}
    BY <1>2, AdviceRaises
  <2>2. ~(triage.maxSelected = triage.maxPerDomain /\ triage.domain_budget # {})
    <3> DEFINE c == candidates
               S == Eligible(surface, c)
               K == triage.maxSelected
               D == triage.maxPerDomain
    <3>1. /\ K \in Int /\ D \in Int /\ S \subseteq DOMAIN c /\ IsFiniteSet(S)
          /\ triage.domain_budget = {i \in S : TopKRoom(c, S, K, D, i) /\ ~DomainRoom(c, S, D, i)}
      BY WhatIsTriaged
    <3>2. 0 <= D
      BY BudgetsOfTriage
    <3>3. Ordered(c)
      BY CandidatesAreOrdered
    <3> HIDE DEF c, S, K, D
    <3>4. triage.domain_budget # {} => D < K
      BY <3>1, <3>2, <3>3, FirstLimited
    <3>5. triage.domain_budget # {} => K # D
      BY <3>1, <3>4
    <3> QED
      BY <3>5 DEF K, D
  <2> QED
    BY <2>1, <2>2
<1> QED
  BY <1>1, <1>2

\* A run with the budgets b, from before or after the first.
LEMMA RunsOn ==
    ASSUME TriageInv, NEW b, BudgetType(b), RunWith(b)
    PROVE  LET K == NormalizeMaxSelected(b[1])
           IN  /\ surface' = surface /\ candidates' = candidates /\ children' = children
               /\ Verdicts(triage', surface, candidates, children, K, NormalizeMaxPerDomain(b[2], K))
               /\ tried' = tried \cup {candidates[i].dest : i \in triage'.selected}
               /\ idle' = IF {candidates[i].dest : i \in triage'.selected} \subseteq tried THEN idle + 1 ELSE 0
<1> DEFINE t == Triage(surface, candidates, children, b)
           K == NormalizeMaxSelected(b[1])
<1>1. Ordered(candidates) /\ IsFiniteSet(DOMAIN candidates)
  BY CandidatesAreOrdered
<1>2. /\ triage' = t /\ surface' = surface /\ candidates' = candidates /\ children' = children
      /\ tried' = tried \cup {candidates[i].dest : i \in t.selected}
      /\ idle' = IF {candidates[i].dest : i \in t.selected} \subseteq tried THEN idle + 1 ELSE 0
  BY DEF RunWith
<1>3. Verdicts(t, surface, candidates, children, K, NormalizeMaxPerDomain(b[2], K))
  BY <1>1, VerdictsOf
<1> HIDE DEF t, K
<1>4. /\ triage' = t /\ Verdicts(triage', surface, candidates, children, K, NormalizeMaxPerDomain(b[2], K))
  BY <1>2, <1>3
<1>5. /\ tried' = tried \cup {candidates[i].dest : i \in triage'.selected}
      /\ idle' = IF {candidates[i].dest : i \in triage'.selected} \subseteq tried THEN idle + 1 ELSE 0
  BY <1>2, <1>4
<1> QED
  BY <1>2, <1>4, <1>5 DEF K

\* Two eligible candidates have two destinations.
LEMMA DestinationsDiffer ==
    ASSUME NEW s, NEW c, Ordered(c), NEW i \in Eligible(s, c), NEW j \in Eligible(s, c), c[i].dest = c[j].dest
    PROVE  i = j
<1>1. i \in DOMAIN c /\ j \in DOMAIN c /\ ~Repeats(c, i) /\ ~Repeats(c, j)
  BY DEF Eligible
<1>2. i \in Nat \ {0} /\ j \in Nat \ {0}
  BY <1>1 DEF Ordered
<1>3. j \notin 1..(i - 1) /\ i \notin 1..(j - 1)
  BY <1>1 DEF Repeats
<1> QED
  BY <1>2, <1>3

\* Whoever has been tried had room in its domain, and with larger budgets still has.
LEMMA TriedHadRoom ==
    ASSUME NEW c, NEW S, IsFiniteSet(S), \A i, j \in S : c[i].dest = c[j].dest => i = j,
           NEW D \in Int, NEW d \in Int, D <= d,
           NEW done, \A i \in S : c[i].dest \in done => DomainRoom(c, S, D, i),
           NEW fit \in SUBSET S, \A i \in fit : DomainRoom(c, S, d, i)
    PROVE  \A i \in S : c[i].dest \in done \cup {c[j].dest : j \in fit} => DomainRoom(c, S, d, i)
<1> SUFFICES ASSUME NEW i \in S, c[i].dest \in done \cup {c[j].dest : j \in fit}
             PROVE  DomainRoom(c, S, d, i)
  OBVIOUS
<1>1. CASE c[i].dest \in done
  <2> DEFINE H == {k \in S : Before(c[k], c[i]) /\ c[k].host = c[i].host}
  <2>1. Cardinality(H) < D
    BY <1>1 DEF DomainRoom
  <2>2. H \subseteq S
    OBVIOUS
  <2> HIDE DEF H
  <2>3. Cardinality(H) \in Nat
    BY <2>2, FS_Subset, FS_CardinalityType
  <2>4. Cardinality(H) < d
    BY <2>1, <2>3
  <2> QED
    BY <2>4 DEF DomainRoom, H
<1>2. CASE c[i].dest \in {c[j].dest : j \in fit}
  <2>1. i \in fit
    BY <1>2
  <2> QED
    BY <2>1
<1> QED
  BY <1>1, <1>2

\* The invariant of the triage, with what it has said and what has been tried.
LEMMA TriageSays ==
    ASSUME TriageInv, triage # <<>>
    PROVE  Verdicts(triage, surface, candidates, children, triage.maxSelected, triage.maxPerDomain)
<1> DEFINE K == NormalizeMaxSelected(budget[1])
           D == NormalizeMaxPerDomain(budget[2], K)
<1>1. triage = Triage(surface, candidates, children, budget) /\ BudgetType(budget)
  BY DEF TriageInv
<1>2. Ordered(candidates) /\ IsFiniteSet(DOMAIN candidates)
  BY CandidatesAreOrdered
<1>3. Verdicts(triage, surface, candidates, children, K, D)
  BY <1>1, <1>2, VerdictsOf
<1> HIDE DEF K, D
<1>4. triage.maxSelected = K /\ triage.maxPerDomain = D
  BY <1>3 DEF Verdicts
<1> QED
  BY <1>3, <1>4

\* The invariant holds at first.
LEMMA TriageBegins == TriageInit => TriageInv /\ AdviceInv
<1> SUFFICES ASSUME TriageInit
             PROVE  TriageInv /\ AdviceInv
  OBVIOUS
<1>1. budget \in Budgets
  BY DEF TriageInit
<1>2. BudgetType(budget)
  BY <1>1, TriageAssumption DEF BudgetType
<1> QED
  BY <1>2 DEF TriageInit, TriageInv, AdviceInv

\* A run leaves the page and what its links bring back as they are.
LEMMA RunKeepsTriage ==
    ASSUME TriageInv, NEW b, BudgetType(b), RunWith(b)
    PROVE  TriageInv'
<1>1. /\ budget' = b /\ triage' = Triage(surface, candidates, children, b)
      /\ surface' = surface /\ candidates' = candidates /\ children' = children
  BY DEF RunWith
<1>2. triage' = Triage(surface', candidates', children', budget')
  BY <1>1
<1>3. BudgetType(budget')
  BY <1>1
<1>4. surface' \in Surfaces /\ \E requests \in Requests : candidates' = Candidates(surface', requests)
  BY <1>1 DEF TriageInv
<1> QED
  BY <1>2, <1>3, <1>4 DEF TriageInv

\* The first run.
LEMMA FirstRunKeeps == TriageInv /\ AdviceInv /\ FirstRun => TriageInv' /\ AdviceInv'
<1> SUFFICES ASSUME TriageInv, AdviceInv, FirstRun
             PROVE  TriageInv' /\ AdviceInv'
  OBVIOUS
<1>1. triage = <<>> /\ RunWith(budget) /\ BudgetType(budget)
  BY DEF FirstRun, TriageInv
<1>2. TriageInv'
  BY <1>1, RunKeepsTriage
<1>3. PICK K, D : /\ Verdicts(triage', surface, candidates, children, K, D)
                  /\ K \in Int /\ D \in Int /\ 0 <= D
  <2>1. NormalizeMaxSelected(budget[1]) \in Int
        /\ NormalizeMaxPerDomain(budget[2], NormalizeMaxSelected(budget[1])) \in Int
        /\ 0 <= NormalizeMaxPerDomain(budget[2], NormalizeMaxSelected(budget[1]))
    BY <1>1, BudgetsAreBounded
  <2> QED
    BY <1>1, <2>1, RunsOn
<1>4. /\ surface' = surface /\ candidates' = candidates
      /\ tried' = tried \cup {candidates[i].dest : i \in triage'.selected}
      /\ idle' = IF {candidates[i].dest : i \in triage'.selected} \subseteq tried THEN idle + 1 ELSE 0
  BY <1>1, RunsOn
<1>5. tried = {} /\ idle = 0
  BY <1>1 DEF AdviceInv
<1>6. Ordered(candidates) /\ IsFiniteSet(DOMAIN candidates)
  BY CandidatesAreOrdered
<1>7. \A i \in Eligible(surface, candidates) : candidates[i].dest \in tried' =>
          DomainRoom(candidates, Eligible(surface, candidates), D, i)
  <2> SUFFICES ASSUME NEW i \in Eligible(surface, candidates), candidates[i].dest \in tried'
               PROVE  DomainRoom(candidates, Eligible(surface, candidates), D, i)
    OBVIOUS
  <2>1. PICK j \in triage'.selected : candidates[i].dest = candidates[j].dest
    BY <1>4, <1>5
  <2>2. j \in Eligible(surface, candidates) /\ DomainRoom(candidates, Eligible(surface, candidates), D, j)
    BY <1>3 DEF Verdicts
  <2>3. i = j
    BY <1>6, <2>1, <2>2, DestinationsDiffer
  <2> QED
    BY <2>2, <2>3
<1>8. idle' \in {0, 1} /\ (idle' = 1 => triage'.selected = {})
  <2>1. CASE triage'.selected = {}
    BY <1>4, <1>5, <2>1
  <2>2. CASE triage'.selected # {}
    <3>1. ~({candidates[i].dest : i \in triage'.selected} \subseteq tried)
      BY <1>5, <2>2
    <3> QED
      BY <1>4, <3>1
  <2> QED
    BY <2>1, <2>2
<1>9. triage' # <<>> /\ triage'.maxPerDomain = D
  BY <1>3 DEF Verdicts
<1>10. AdviceInv'
  BY <1>4, <1>7, <1>8, <1>9 DEF AdviceInv
<1> QED
  BY <1>2, <1>10

\* A run that follows the advice.
LEMMA AdviceKeeps == TriageInv /\ AdviceInv /\ FollowAdvice => TriageInv' /\ AdviceInv'
<1> SUFFICES ASSUME TriageInv, AdviceInv, FollowAdvice
             PROVE  TriageInv' /\ AdviceInv'
  OBVIOUS
<1> DEFINE b == RetryAdvice(triage).budget
<1>1. triage # <<>> /\ RetryAdvice(triage).kind = "increase" /\ RunWith(b)
  BY DEF FollowAdvice
<1>2. BudgetType(b)
  BY <1>1, AdvisedBudgets
<1>3. TriageInv'
  BY <1>1, <1>2, RunKeepsTriage
<1> DEFINE K == triage.maxSelected
           D == triage.maxPerDomain
           left == Cardinality(triage.top_k_budget)
<1>4. PICK k, d : /\ k = NormalizeMaxSelected(b[1]) /\ d = NormalizeMaxPerDomain(b[2], k)
  OBVIOUS
<1>5. /\ triage.selected # triage.useful
      /\ k \in Int /\ d \in Int /\ K <= k /\ D <= d
      /\ D # d => triage.domain_budget # {}
      /\ D = d => /\ triage.domain_budget = {} /\ triage.top_k_budget # {} /\ K # k
                  /\ k = TopKCeiling \/ k = K + left
      /\ K # k => triage.top_k_budget # {} /\ K # TopKCeiling
  BY <1>1, <1>4, AdviceRaises
<1>6. /\ surface' = surface /\ candidates' = candidates
      /\ Verdicts(triage', surface, candidates, children, k, d)
      /\ tried' = tried \cup {candidates[i].dest : i \in triage'.selected}
      /\ idle' = IF {candidates[i].dest : i \in triage'.selected} \subseteq tried THEN idle + 1 ELSE 0
  BY <1>1, <1>2, <1>4, RunsOn
<1>7. K \in Int /\ D \in Int /\ 0 <= D /\ 0 <= K /\ (triage.selected = {} => triage.useful = {})
  BY <1>1, BudgetsOfTriage
<1>8. Verdicts(triage, surface, candidates, children, K, D)
  BY <1>1, TriageSays
<1> DEFINE c == candidates
           S == Eligible(surface, candidates)
<1>9. Ordered(c) /\ S \in SUBSET DOMAIN c /\ IsFiniteSet(S)
  BY <1>1, CandidatesAreOrdered, WhatIsTriaged
<1>10. \A i, j \in S : c[i].dest = c[j].dest => i = j
  BY <1>9, DestinationsDiffer
<1>11. /\ \A i \in S : c[i].dest \in tried => DomainRoom(c, S, D, i)
       /\ idle \in {0, 1}
       /\ idle = 1 => triage.selected = {} \/ K = TopKCeiling \/ triage.top_k_budget = {}
  BY <1>1 DEF AdviceInv
<1>12. /\ triage' # <<>> /\ triage'.maxSelected = k /\ triage'.maxPerDomain = d
       /\ triage'.selected = {i \in S : TopKRoom(c, S, k, d, i) /\ DomainRoom(c, S, d, i)}
       /\ triage'.top_k_budget = {i \in S : ~TopKRoom(c, S, k, d, i)}
  BY <1>6 DEF Verdicts
<1>13. /\ triage.domain_budget = {i \in S : TopKRoom(c, S, K, D, i) /\ ~DomainRoom(c, S, D, i)}
       /\ triage.top_k_budget = {i \in S : ~TopKRoom(c, S, K, D, i)}
  BY <1>8 DEF Verdicts
<1> HIDE DEF b, K, D, left, S, c
<1>14. PICK fit : fit = {i \in S : TopKRoom(c, S, k, d, i) /\ DomainRoom(c, S, d, i)}
  OBVIOUS
<1>15. /\ \A i \in S : c[i].dest \in tried \cup {c[j].dest : j \in fit} => DomainRoom(c, S, d, i)
       /\ D # d /\ triage.domain_budget # {} => ~({c[j].dest : j \in fit} \subseteq tried)
  <2>1. /\ \A i \in S : c[i].dest \in tried => DomainRoom(c, S, D, i)
        /\ K <= k /\ D <= d /\ k \in Int /\ d \in Int
    BY <1>5, <1>11
  <2>2. fit \in SUBSET S /\ \A i \in fit : DomainRoom(c, S, d, i)
    BY <1>14
  <2>3. \A i \in S : c[i].dest \in tried \cup {c[j].dest : j \in fit} => DomainRoom(c, S, d, i)
    BY <1>7, <1>9, <1>10, <2>1, <2>2, TriedHadRoom
  <2>4. ASSUME D # d, triage.domain_budget # {}
        PROVE  ~({c[j].dest : j \in fit} \subseteq tried)
    <3>1. D < d
      BY <1>7, <2>1, <2>4
    <3>2. {i \in S : TopKRoom(c, S, K, D, i) /\ ~DomainRoom(c, S, D, i)} # {}
      BY <1>13, <2>4
    <3>3. PICK x \in S : /\ ~DomainRoom(c, S, D, x)
                         /\ \A m, n \in Int : K <= m /\ D < n => TopKRoom(c, S, m, n, x) /\ DomainRoom(c, S, n, x)
      BY <1>7, <1>9, <3>2, FirstLimited
    <3>4. TopKRoom(c, S, k, d, x) /\ DomainRoom(c, S, d, x)
      BY <2>1, <3>1, <3>3
    <3>5. x \in fit /\ c[x].dest \notin tried
      BY <1>14, <2>1, <3>3, <3>4
    <3> QED
      BY <3>5
  <2> QED
    BY <2>3, <2>4
<1>16. /\ tried' = tried \cup {c[j].dest : j \in fit}
       /\ idle' = IF {c[j].dest : j \in fit} \subseteq tried THEN idle + 1 ELSE 0
  BY <1>6, <1>12, <1>14 DEF c
<1>17. idle' \in {0, 1} /\ (idle' = 1 => k = TopKCeiling \/ triage'.top_k_budget = {})
  <2>1. CASE {c[j].dest : j \in fit} \subseteq tried
    <3>1. D = d
      BY <1>5, <1>15, <2>1
    <3>2. /\ triage.domain_budget = {} /\ triage.top_k_budget # {} /\ K # k /\ K # TopKCeiling
          /\ k = TopKCeiling \/ k = K + left
      BY <1>5, <3>1
    <3>3. triage.selected # {}
      BY <1>5, <1>7
    <3>4. idle = 0
      BY <1>11, <3>2, <3>3
    <3>5. idle' = 1
      BY <1>16, <2>1, <3>4
    <3>6. k = TopKCeiling \/ triage'.top_k_budget = {}
      <4>1. CASE k = K + left
        <5>1. \A i \in S : TopKRoom(c, S, K + Cardinality(triage.top_k_budget), D, i)
          BY <1>7, <1>9, <1>13, <3>2, RoomForAll
        <5>2. \A i \in S : TopKRoom(c, S, k, d, i)
          BY <3>1, <4>1, <5>1 DEF left
        <5> QED
          BY <1>12, <5>2
      <4> QED
        BY <3>2, <4>1
    <3> QED
      BY <3>5, <3>6
  <2>2. CASE ~({c[j].dest : j \in fit} \subseteq tried)
    BY <1>16, <2>2
  <2> QED
    BY <2>1, <2>2
<1>18. \A i \in S : c[i].dest \in tried' => DomainRoom(c, S, d, i)
  BY <1>15, <1>16
<1>19. AdviceInv'
  BY <1>6, <1>12, <1>17, <1>18 DEF AdviceInv, S, c
<1> QED
  BY <1>3, <1>19

\* The first n of a list are what is taken of it.
LEMMA FirstOfList ==
    ASSUME NEW s, Sequential(s), NEW n \in Nat
    PROVE  /\ SubSeq(s, 1, Min({n, Len(s)})) = Take(s, n)
           /\ Len(Take(s, n)) = IF n < Len(s) THEN n ELSE Len(s)
<1>1. Len(s) \in Nat /\ DOMAIN s = 1..Len(s)
  BY Places
<1> DEFINE m == Len(s)
           k == IF n < m THEN n ELSE m
<1> HIDE DEF m
<1>2. m \in Nat
  BY <1>1 DEF m
<1>3. Min({n, m}) = k
  BY <1>2, LesserAndGreater
<1>4. SubSeq(s, 1, k) = Take(s, n)
  BY DEF Take, m
<1>5. Len(SubSeq(s, 1, k)) = k
  <2>1. PICK S : s \in Seq(S)
    BY DEF Sequential
  <2>2. \A i \in 1..k : s[i] \in S
    BY <2>1, <1>2, LenProperties DEF m
  <2>3. k \in Nat
    BY <1>2
  <2> HIDE DEF k
  <2>4. Len(SubSeq(s, 1, k)) = IF 1 <= k THEN k - 1 + 1 ELSE 0
    BY <2>2, <2>3, SubSeqProperties
  <2> QED
    BY <2>3, <2>4
<1> HIDE DEF k
<1>6. SubSeq(s, 1, Min({n, Len(s)})) = Take(s, n) /\ Len(Take(s, n)) = k
  BY <1>3, <1>4, <1>5 DEF m
<1> QED
  BY <1>6 DEF k, m

\* Nothing is proposed twice, and no page leads to itself.
LEMMA DeeperDiffer ==
    ASSUME NEW page, NEW links, links \in Seq(ToSet(links))
    PROVE  LET list == DeepeningCandidates(page, links)
           IN  /\ Sequential(list)
               /\ \A n \in DOMAIN list : list[n].dest # page.dest
               /\ \A n, m \in DOMAIN list : n # m => list[n].dest # list[m].dest
<1> DEFINE first(i) == \A k \in 1..(i - 1) : links[k].dest # links[i].dest
           worthwhile(i) ==
               /\ first(i) /\ links[i].http
               /\ links[i].dest # page.dest
               /\ links[i].text \cap {"low_value", "login"} = {}
               /\ ~ProviderBoilerplate([providers |-> page.text], links[i])
           S == {i \in DOMAIN links : worthwhile(i)}
           fit == Chosen(links, S)
           list == DeepeningCandidates(page, links)
<1>1. Sequential(links)
  BY DEF Sequential
<1>2. S \subseteq DOMAIN links /\ \A i \in S : links[i].dest # page.dest
  OBVIOUS
<1>3. \A i, k \in S : i # k => links[i].dest # links[k].dest
  <2> SUFFICES ASSUME NEW i \in S, NEW k \in S, i < k
               PROVE  links[i].dest # links[k].dest
    <3>1. \A i, k \in S : i # k => i < k \/ k < i
      BY <1>1, Places
    <3> HIDE DEF S
    <3> QED
      BY <3>1
  <2>1. i \in 1..(k - 1) /\ first(k)
    BY <1>1, Places
  <2> QED
    BY <2>1
<1>4. list = SubSeq(fit, 1, Min({Caps.deeper, Len(fit)}))
  BY Zenon DEF DeepeningCandidates
<1> HIDE DEF S
<1>5. /\ Sequential(fit)
      /\ \A n \in DOMAIN fit : fit[n].dest # page.dest
      /\ \A n, m \in DOMAIN fit : n # m => fit[n].dest # fit[m].dest
  BY <1>1, <1>2, <1>3, ChosenIsExtracted DEF Extracted
<1>6. Caps.deeper \in Nat
  BY DeepeningAssumption
<1> HIDE DEF fit
<1>7. list = Take(fit, Caps.deeper)
  BY <1>4, <1>5, <1>6, FirstOfList
<1>8. Sequential(list) /\ \A i \in DOMAIN list : i \in DOMAIN fit /\ list[i] = fit[i]
  BY <1>5, <1>6, <1>7, Taking
<1> HIDE DEF list
<1>9. /\ \A n \in DOMAIN list : list[n].dest # page.dest
      /\ \A n, m \in DOMAIN list : n # m => list[n].dest # list[m].dest
  BY <1>5, <1>8
<1> QED
  BY <1>8, <1>9 DEF list

\* A list has as many names as members when no two of them share one.
LEMMA AsManyNames ==
    ASSUME NEW s, Sequential(s), \A n, m \in DOMAIN s : n # m => s[n].dest # s[m].dest
    PROVE  Cardinality({s[n].dest : n \in DOMAIN s}) = Len(s) /\ ({s[n].dest : n \in DOMAIN s} = {} <=> s = <<>>)
<1> DEFINE f == [n \in DOMAIN s |-> s[n].dest]
           T == {s[n].dest : n \in DOMAIN s}
<1>1. Len(s) \in Nat /\ DOMAIN s = 1..Len(s) /\ (s = <<>> <=> Len(s) = 0)
  BY Lengths
<1>2. f \in Surjection(DOMAIN s, T)
  BY DEF Surjection
<1>3. f \in Injection(DOMAIN s, T)
  BY DEF Injection, IsInjective
<1> DEFINE m == Len(s)
<1> HIDE DEF m, f, T
<1>4. m \in Nat /\ DOMAIN s = 1..m
  BY <1>1 DEF m
<1>5. IsFiniteSet(DOMAIN s) /\ Cardinality(DOMAIN s) = m
  BY <1>4, FS_Interval
<1>6. Cardinality(T) = m
  BY <1>2, <1>3, <1>5, FS_Surjection
<1>7. T = {} <=> DOMAIN s = {}
  BY DEF T
<1>8. DOMAIN s = {} <=> m = 0
  BY <1>4
<1> QED
  BY <1>1, <1>6, <1>7, <1>8 DEF m, T

\* The selected, the best first, each of them once.
LEMMA SelectedOnce ==
    ASSUME NEW c, Ordered(c), NEW S \in SUBSET DOMAIN c, IsFiniteSet(S)
    PROVE  LET s == Sorted(c, S)
           IN  /\ s \in Seq(S) /\ Len(s) \in Nat /\ DOMAIN s = 1..Len(s)
               /\ \A n \in DOMAIN s : s[n] \in S
               /\ \A i \in S : \E n \in DOMAIN s : s[n] = i
               /\ \A n, m \in DOMAIN s : s[n] = s[m] => n = m
<1> DEFINE s == Sorted(c, S)
           N == Cardinality(S)
<1>1. /\ s \in Seq(S) /\ Len(s) = N
      /\ \A n \in 1..N : s[n] \in S /\ Position(c, S, s[n]) = n
  BY SortedLists
<1>2. /\ N \in Nat
      /\ \A i \in S : Position(c, S, i) \in 1..N
      /\ \A i, j \in S : Position(c, S, i) = Position(c, S, j) => i = j
  BY Positions
<1> HIDE DEF s, N
<1>3. DOMAIN s = 1..N
  BY <1>1, LenProperties
<1>4. ASSUME NEW i \in S
      PROVE  \E n \in DOMAIN s : s[n] = i
  <2>1. PICK n \in 1..N : n = Position(c, S, i)
    BY <1>2
  <2>2. s[n] \in S /\ Position(c, S, s[n]) = Position(c, S, i)
    BY <1>1, <2>1
  <2>3. s[n] = i
    BY <1>2, <2>2
  <2> QED
    BY <1>3, <2>3
<1>5. \A n, m \in DOMAIN s : s[n] = s[m] => n = m
  <2> SUFFICES ASSUME NEW n \in DOMAIN s, NEW m \in DOMAIN s, s[n] = s[m]
               PROVE  n = m
    OBVIOUS
  <2>1. Position(c, S, s[n]) = n /\ Position(c, S, s[m]) = m
    BY <1>1, <1>3
  <2> QED
    BY <2>1
<1>6. /\ s \in Seq(S) /\ Len(s) \in Nat /\ DOMAIN s = 1..Len(s)
      /\ \A n \in DOMAIN s : s[n] \in S
  BY <1>1, <1>2, <1>3
<1> QED
  BY <1>4, <1>5, <1>6 DEF s

-----------------------------------------------------------------------------
(* What the children of a triage bring back.                               *)

\* The first rule that holds decides.
LEMMA FirstRuleIs ==
    ASSUME NEW rules, DOMAIN rules \subseteq Int, NEW otherwise, NEW n \in DOMAIN rules, rules[n][2],
           \A k \in DOMAIN rules : k < n => ~rules[k][2]
    PROVE  FirstRule(rules, otherwise) = rules[n][1]
<1> DEFINE holding == {k \in DOMAIN rules : rules[k][2]}
           first == CHOOSE m \in holding : \A k \in holding : m <= k
<1>1. n \in holding /\ \A k \in holding : n <= k
  OBVIOUS
<1>2. first \in holding /\ \A k \in holding : first <= k
  BY <1>1
<1>3. FirstRule(rules, otherwise) = rules[first][1]
  BY <1>1 DEF FirstRule
<1> HIDE DEF first
<1>4. first = n
  <2>1. first <= n /\ n <= first /\ first \in Int /\ n \in Int
    BY <1>1, <1>2
  <2> QED
    BY <2>1
<1> QED
  BY <1>3, <1>4

\* Where no rule holds, it is otherwise.
LEMMA NoRuleHolds ==
    ASSUME NEW rules, NEW otherwise, \A k \in DOMAIN rules : ~rules[k][2]
    PROVE  FirstRule(rules, otherwise) = otherwise
BY DEF FirstRule

\* What a child is judged to be.
LEMMA Judged ==
    ASSUME NEW s, NEW kind, NEW child, child.status \in {"absent", "ok", "failed"}
    PROVE  LET v == ClassifyChild(s, kind, child)
               shows == child.shows
           IN  /\ child.status = "absent" => v = "useful"
               /\ child.status = "failed" => v \in {"paywalled", "private", "blocked"}
               /\ child.status = "ok" /\ "unrecorded" \in shows => v = "useful"
               /\ child.status = "ok" /\ "unrecorded" \notin shows =>
                     /\ "obstructed" \in shows => v = "blocked"
                     /\ "obstructed" \notin shows => v \in {"low_value", "off_topic", "useful"}
                     /\ v = "useful" => "thin" \notin shows /\ ~(Asked(s) /\ "no_overlap" \in shows)
<1> DEFINE v == ClassifyChild(s, kind, child)
           shows == child.shows
           intent == DestinationQueryIntent(s)
           unfit == intent # "general" /\ kind \notin IntentFits[intent] /\ intent \notin shows
           failed == << <<"paywalled", "paywall" \in shows>>, <<"private", "login" \in shows>> >>
           seen == << <<"useful", "unrecorded" \in shows>>,
                      <<"blocked", "obstructed" \in shows>>,
                      <<"low_value", "thin" \in shows>>,
                      <<"off_topic", unfit \/ (Asked(s) /\ "no_overlap" \in shows)>> >>
<1>1. child.status = "absent" => v = "useful"
  BY DEF ClassifyChild
<1>2. child.status = "failed" => v = FirstRule(failed, "blocked")
  BY DEF ClassifyChild
<1>3. child.status = "ok" => v = FirstRule(seen, "useful")
  BY DEF ClassifyChild
<1> HIDE DEF unfit, v
<1>4. FirstRule(failed, "blocked") \in {"paywalled", "private", "blocked"}
  <2>1. DOMAIN failed = 1..2 /\ failed[1][1] = "paywalled" /\ failed[2][1] = "private"
    OBVIOUS
  <2>2. DOMAIN failed \subseteq Nat /\ \A n \in DOMAIN failed : n = 1 \/ n = 2
    BY <2>1
  <2> HIDE DEF failed
  <2> QED
    BY <2>1, <2>2, OneOfTheAnswers
<1>5. /\ DOMAIN seen = 1..4 /\ seen[1][1] = "useful" /\ seen[2][1] = "blocked" /\ seen[3][1] = "low_value"
      /\ seen[4][1] = "off_topic"
  OBVIOUS
<1>6. /\ seen[1][2] <=> "unrecorded" \in shows
      /\ seen[2][2] <=> "obstructed" \in shows
      /\ seen[3][2] <=> "thin" \in shows
      /\ seen[4][2] <=> unfit \/ (Asked(s) /\ "no_overlap" \in shows)
  BY Zenon
<1> HIDE DEF seen
<1>7. DOMAIN seen \subseteq Int /\ \A n \in DOMAIN seen : n \in {1, 2, 3, 4}
  BY <1>5
<1>8. "unrecorded" \in shows => FirstRule(seen, "useful") = "useful"
  <2> SUFFICES ASSUME "unrecorded" \in shows
               PROVE  FirstRule(seen, "useful") = "useful"
    OBVIOUS
  <2> DEFINE n == 1
  <2>1. n \in DOMAIN seen /\ seen[n][2] /\ seen[n][1] = "useful" /\ \A k \in DOMAIN seen : ~(k < n)
    BY <1>5, <1>6
  <2> HIDE DEF n
  <2> QED
    BY <1>7, <2>1, FirstRuleIs
<1>9. "unrecorded" \notin shows /\ "obstructed" \in shows => FirstRule(seen, "useful") = "blocked"
  <2> SUFFICES ASSUME "unrecorded" \notin shows, "obstructed" \in shows
               PROVE  FirstRule(seen, "useful") = "blocked"
    OBVIOUS
  <2> DEFINE n == 2
  <2>1. n \in DOMAIN seen /\ seen[n][2] /\ seen[n][1] = "blocked" /\ \A k \in DOMAIN seen : k < n => ~seen[k][2]
    BY <1>5, <1>6
  <2> HIDE DEF n
  <2> QED
    BY <1>7, <2>1, FirstRuleIs
<1>10. "unrecorded" \notin shows /\ "obstructed" \notin shows /\ "thin" \in shows
          => FirstRule(seen, "useful") = "low_value"
  <2> SUFFICES ASSUME "unrecorded" \notin shows, "obstructed" \notin shows, "thin" \in shows
               PROVE  FirstRule(seen, "useful") = "low_value"
    OBVIOUS
  <2> DEFINE n == 3
  <2>1. n \in DOMAIN seen /\ seen[n][2] /\ seen[n][1] = "low_value" /\ \A k \in DOMAIN seen : k < n => ~seen[k][2]
    BY <1>5, <1>6
  <2> HIDE DEF n
  <2> QED
    BY <1>7, <2>1, FirstRuleIs
<1>11. "unrecorded" \notin shows /\ "obstructed" \notin shows /\ "thin" \notin shows
       /\ (unfit \/ (Asked(s) /\ "no_overlap" \in shows))
          => FirstRule(seen, "useful") = "off_topic"
  <2> SUFFICES ASSUME "unrecorded" \notin shows, "obstructed" \notin shows, "thin" \notin shows,
                      unfit \/ (Asked(s) /\ "no_overlap" \in shows)
               PROVE  FirstRule(seen, "useful") = "off_topic"
    OBVIOUS
  <2> DEFINE n == 4
  <2>1. n \in DOMAIN seen /\ seen[n][2] /\ seen[n][1] = "off_topic" /\ \A k \in DOMAIN seen : k < n => ~seen[k][2]
    BY <1>5, <1>6
  <2> HIDE DEF n
  <2> QED
    BY <1>7, <2>1, FirstRuleIs
<1>12. "unrecorded" \notin shows /\ "obstructed" \notin shows /\ "thin" \notin shows
       /\ ~(unfit \/ (Asked(s) /\ "no_overlap" \in shows))
          => FirstRule(seen, "useful") = "useful"
  <2> SUFFICES ASSUME "unrecorded" \notin shows, "obstructed" \notin shows, "thin" \notin shows,
                      ~(unfit \/ (Asked(s) /\ "no_overlap" \in shows))
               PROVE  FirstRule(seen, "useful") = "useful"
    OBVIOUS
  <2>1. \A k \in DOMAIN seen : ~seen[k][2]
    BY <1>6, <1>7
  <2> QED
    BY <2>1, NoRuleHolds
<1>13. child.status = "failed" => v \in {"paywalled", "private", "blocked"}
  BY <1>2, <1>4
<1> HIDE DEF failed, shows
<1>14. child.status = "ok" /\ "unrecorded" \notin shows =>
          /\ "obstructed" \in shows => v = "blocked"
          /\ "obstructed" \notin shows => v \in {"low_value", "off_topic", "useful"}
          /\ v = "useful" => "thin" \notin shows /\ ~(Asked(s) /\ "no_overlap" \in shows)
  BY <1>3, <1>9, <1>10, <1>11, <1>12
<1> QED
  BY <1>1, <1>3, <1>8, <1>13, <1>14 DEF v, shows

\* The names in a set of pairs whose condition holds.
LEMMA ThoseThatHold ==
    ASSUME NEW pairs
    PROVE  \A x : x \in Those(pairs) <=> \E p \in pairs : p[1] = x /\ p[2]
BY DEF Those

\* The reasons that a verdict on a child may have.
Against == UNION Range(VerdictReason)

\* Every verdict but "useful" has one of them, and "useful" has none.
LEMMA VerdictsHaveReasons ==
    /\ Against = {"blocked_surface", "paywalled_surface", "private_or_login_surface", "thin_content", "off_topic"}
    /\ VerdictReason["useful"] = {}
    /\ \A v \in {"blocked", "paywalled", "private", "low_value", "off_topic"} : \E x \in Against : x \in VerdictReason[v]
<1> DEFINE V == VerdictReason
<1>1. /\ V["blocked"] = {"blocked_surface"} /\ V["paywalled"] = {"paywalled_surface"}
      /\ V["private"] = {"private_or_login_surface"} /\ V["low_value"] = {"thin_content"}
      /\ V["off_topic"] = {"off_topic"} /\ V["useful"] = {}
      /\ DOMAIN V = {"blocked", "paywalled", "private", "low_value", "off_topic", "useful"}
  BY DEF VerdictReason
<1> HIDE DEF V
<1>2. Range(V) = {V["blocked"], V["paywalled"], V["private"], V["low_value"], V["off_topic"], V["useful"]}
  BY <1>1 DEF Range
<1>3. Against = UNION {{"blocked_surface"}, {"paywalled_surface"}, {"private_or_login_surface"}, {"thin_content"},
                       {"off_topic"}, {}}
  BY <1>1, <1>2 DEF Against, V
<1>4. Against = {"blocked_surface", "paywalled_surface", "private_or_login_surface", "thin_content", "off_topic"}
  BY <1>3
<1> QED
  BY <1>1, <1>4 DEF V

\* A link to a login is rejected.
LEMMA LoginsAreRejected ==
    ASSUME NEW s, NEW link, HardRejectionFor(s, link) = "none"
    PROVE  "login" \notin link.text
<1> SUFFICES ASSUME "login" \in link.text
             PROVE  FALSE
  OBVIOUS
<1> DEFINE rules == << <<"private", "login" \in link.text>>,
                       <<"low_value", "low_value" \in link.text \/ ProviderBoilerplate(s, link)>>,
                       <<"unsupported", ~link.http>> >>
           n == 1
<1>1. HardRejectionFor(s, link) = FirstRule(rules, "none")
  BY DEF HardRejectionFor
<1>2. DOMAIN rules = 1..3 /\ rules[1][1] = "private"
  OBVIOUS
<1>5. rules[1][2]
  BY Zenon
<1> HIDE DEF rules
<1>3. DOMAIN rules \subseteq Int /\ n \in DOMAIN rules /\ rules[n][2] /\ \A k \in DOMAIN rules : ~(k < n)
  BY <1>2, <1>5
<1> HIDE DEF n
<1>4. FirstRule(rules, "none") = rules[n][1]
  BY <1>3, FirstRuleIs
<1> QED
  BY <1>1, <1>2, <1>4 DEF n

\* What a child may bring back to a page.
ChildType(s, child) ==
    /\ child.status \in {"absent", "ok", "failed"}
    /\ child.links \in Seq(ToSet(child.links))
    /\ "unrecorded" \in child.shows => child.shows \subseteq {"unrecorded", "paywall", "login"}
    /\ "no_overlap" \in child.shows => Asked(s)

\* Exactly the verdicts other than useful have a reason.
LEMMA ReasonsAgree ==
    ASSUME NEW i \in triage.selected, "login" \notin candidates[i].text, ChildType(surface, Child(i))
    PROVE  Verdict(i) = "useful" <=> Reasons(i).negative \cap Against = {}
<1> DEFINE c == candidates[i]
           child == Child(i)
           v == Verdict(i)
           shows == IF child.status = "absent" THEN {} ELSE child.shows \ {"unrecorded"}
           shell == <<"portal_shell", "low_value" \in c.text \/ ProviderBoilerplate(surface, c)>>
           login == <<"private_or_login_surface", "login" \in c.text>>
           stale == <<"stale_or_mismatched_source", "stale_year" \in c.text
                                                       \/ ~SourceFamilyFits(surface.family, c.kind)>>
           other == <<"unsupported_destination", ~c.http>>
           thin == <<"thin_content", "thin" \in shows>>
           blocked == <<"blocked_surface", "obstructed" \in shows>>
           off == <<"off_topic", "no_overlap" \in shows>>
           against == {shell, login, stale, other}
           shown == {thin, blocked, off}
           own == Those(against)
           seen == Those(shown)
<1>1. DecisionReasons(c).negative = own
  BY DEF DecisionReasons
<1>2. ChildReasons(child, v).negative = VerdictReason[v] \cup seen
  BY DEF ChildReasons
<1>3. Reasons(i).negative = DecisionReasons(c).negative \cup ChildReasons(child, v).negative
  BY DEF Reasons
<1>4. \A x \in own : x \notin Against
  <2>1. /\ shell[1] = "portal_shell" /\ login[1] = "private_or_login_surface"
        /\ stale[1] = "stale_or_mismatched_source" /\ other[1] = "unsupported_destination"
    OBVIOUS
  <2>2. ~login[2]
    BY Zenon
  <2> HIDE DEF shell, login, stale, other
  <2>3. \A x \in own : x = shell[1] \/ x = stale[1] \/ x = other[1]
    <3> SUFFICES ASSUME NEW x \in own
                 PROVE  x = shell[1] \/ x = stale[1] \/ x = other[1]
      OBVIOUS
    <3> HIDE DEF against
    <3>1. PICK p \in against : p[1] = x /\ p[2]
      BY ThoseThatHold
    <3> QED
      BY <2>2, <3>1, Zenon DEF against
  <2> HIDE DEF own
  <2> QED
    BY <2>1, <2>3, VerdictsHaveReasons
<1>5. \A x : x \in seen => \/ x = "thin_content" /\ "thin" \in shows
                           \/ x = "blocked_surface" /\ "obstructed" \in shows
                           \/ x = "off_topic" /\ "no_overlap" \in shows
  <2>1. thin[1] = "thin_content" /\ blocked[1] = "blocked_surface" /\ off[1] = "off_topic"
    OBVIOUS
  <2>2. (thin[2] => "thin" \in shows) /\ (blocked[2] => "obstructed" \in shows) /\ (off[2] => "no_overlap" \in shows)
    BY Zenon
  <2> HIDE DEF thin, blocked, off, shows
  <2>3. \A x : x \in seen => (x = thin[1] /\ thin[2]) \/ (x = blocked[1] /\ blocked[2]) \/ (x = off[1] /\ off[2])
    <3> SUFFICES ASSUME NEW x, x \in seen
                 PROVE  (x = thin[1] /\ thin[2]) \/ (x = blocked[1] /\ blocked[2]) \/ (x = off[1] /\ off[2])
      OBVIOUS
    <3> HIDE DEF shown
    <3>1. PICK p \in shown : p[1] = x /\ p[2]
      BY ThoseThatHold
    <3> QED
      BY <3>1, Zenon DEF shown
  <2> HIDE DEF seen
  <2> QED
    BY <2>1, <2>2, <2>3, Zenon
<1>6. v = ClassifyChild(surface, c.kind, child)
  BY DEF Verdict
<1>7. /\ child.status = "absent" => v = "useful"
      /\ child.status = "failed" => v \in {"paywalled", "private", "blocked"}
      /\ child.status = "ok" /\ "unrecorded" \in child.shows => v = "useful"
      /\ child.status = "ok" /\ "unrecorded" \notin child.shows =>
            /\ "obstructed" \in child.shows => v = "blocked"
            /\ "obstructed" \notin child.shows => v \in {"low_value", "off_topic", "useful"}
            /\ v = "useful" => "thin" \notin child.shows /\ ~(Asked(surface) /\ "no_overlap" \in child.shows)
  <2>1. child.status \in {"absent", "ok", "failed"}
    BY DEF ChildType
  <2> HIDE DEF child
  <2> QED
    BY <1>6, <2>1, Judged
<1> HIDE DEF own, seen, against, shown, c, v, child, shell, login, stale, other, thin, blocked, off
<1>8. /\ child.status \in {"absent", "ok", "failed"}
      /\ "unrecorded" \in child.shows => child.shows \subseteq {"unrecorded", "paywall", "login"}
      /\ "no_overlap" \in child.shows => Asked(surface)
  BY DEF ChildType, child
<1>9. v = "useful" => "thin" \notin shows /\ "obstructed" \notin shows /\ "no_overlap" \notin shows
  <2>1. CASE child.status = "absent"
    BY <2>1
  <2>2. CASE child.status = "failed"
    BY <1>7, <2>2
  <2>3. CASE child.status = "ok" /\ "unrecorded" \in child.shows
    BY <1>8, <2>3
  <2>4. CASE child.status = "ok" /\ "unrecorded" \notin child.shows
    BY <1>7, <1>8, <2>4
  <2> QED
    BY <1>8, <2>1, <2>2, <2>3, <2>4
<1>10. v \in {"useful", "blocked", "paywalled", "private", "low_value", "off_topic"}
  BY <1>7, <1>8
<1> HIDE DEF shows
<1>11. v = "useful" => \A x \in Reasons(i).negative : x \notin Against
  <2>1. v = "useful" => seen = {} /\ VerdictReason[v] = {}
    BY <1>5, <1>9, VerdictsHaveReasons
  <2> QED
    BY <1>1, <1>2, <1>3, <1>4, <2>1
<1>12. v # "useful" => \E x \in Against : x \in Reasons(i).negative
  <2>1. v # "useful" => \E x \in Against : x \in VerdictReason[v]
    BY <1>10, VerdictsHaveReasons
  <2> QED
    BY <1>2, <1>3, <2>1
<1> QED
  BY <1>11, <1>12 DEF v

\* The lists that come of joining N parts, one by one.
Joined(g, N, part) == g = [n \in 0..N |-> IF n = 0 THEN <<>> ELSE g[n - 1] \o part[n]]

\* Every row of lists can be joined.
LEMMA ListsCanBeJoined ==
    ASSUME NEW N \in Nat, NEW part, \A n \in 1..N : Sequential(part[n])
    PROVE  \E g : Joined(g, N, part)
<1> DEFINE T == UNION {ToSet(part[n]) : n \in 1..N}
           D == Seq(T)
           step == [n \in 1..N |-> [l \in D |-> l \o part[n]]]
           none == <<>>
<1>1. \A n \in 1..N : part[n] \in D
  <2> SUFFICES ASSUME NEW n \in 1..N
               PROVE  part[n] \in D
    OBVIOUS
  <2>1. part[n] \in Seq(ToSet(part[n])) /\ ToSet(part[n]) \subseteq T
    BY OfItsMembers
  <2> HIDE DEF T
  <2> QED
    BY <2>1, SeqMonotonic
<1>2. step \in [1..N -> [D -> D]]
  <2> SUFFICES ASSUME NEW n \in 1..N
               PROVE  [l \in D |-> l \o part[n]] \in [D -> D]
    OBVIOUS
  <2> HIDE DEF T
  <2>1. \A l \in D : l \o part[n] \in D
    BY <1>1, ConcatProperties
  <2> QED
    BY <2>1
<1>3. none \in D
  OBVIOUS
<1>6. \A n \in 1..N, l \in D : step[n][l] = l \o part[n]
  OBVIOUS
<1> HIDE DEF D, step, none
<1>4. PICK f : f \in [0..N -> D] /\ Iterates(f, N, none, step)
  BY <1>2, <1>3, Looping
<1>5. f[0] = none /\ \A n \in 1..N : f[n] = f[n - 1] \o part[n]
  <2>1. \A n \in 1..N : n - 1 \in 0..N
    OBVIOUS
  <2>2. \A n \in 1..N : f[n - 1] \in D
    BY <1>4, <2>1
  <2> QED
    BY <1>4, <1>6, <2>2 DEF Iterates
<1>7. f = [n \in 0..N |-> IF n = 0 THEN <<>> ELSE f[n - 1] \o part[n]]
  <2>1. \A n \in 0..N : f[n] = IF n = 0 THEN <<>> ELSE f[n - 1] \o part[n]
    <3> SUFFICES ASSUME NEW n \in 0..N
                 PROVE  f[n] = IF n = 0 THEN <<>> ELSE f[n - 1] \o part[n]
      OBVIOUS
    <3>1. CASE n = 0
      BY <1>5, <3>1 DEF none
    <3>2. CASE n # 0
      <4>1. n \in 1..N
        BY <3>2
      <4>2. f[n] = f[n - 1] \o part[n]
        BY <1>5, <4>1
      <4> QED
        BY <3>2, <4>2, Zenon
    <3> QED
      BY <3>1, <3>2
  <2>2. f = [n \in 0..N |-> f[n]]
    BY <1>4
  <2> QED
    BY <2>1, <2>2, Zenon
<1> QED
  BY <1>7 DEF Joined

\* A list whose length is the sum of f over S.
AsLongAs(list, f, S) == Sequential(list) /\ Len(list) = SumFunctionOnSet(f, S)

\* What is joined of different ones is as long as their parts together.
LEMMA JoinedLength ==
    ASSUME NEW N, NEW part, NEW g, NEW s, NEW w,
           N \in Nat, Joined(g, N, part),
           \A n \in 1..N : Sequential(part[n]) /\ w[s[n]] = Len(part[n]),
           \A n, m \in 1..N : s[n] = s[m] => n = m
    PROVE  AsLongAs(g[N], w, Values(s, 1..N))
<1>1. g[0] = <<>> /\ \A n \in 1..N : g[n] = g[n - 1] \o part[n]
  BY DEF Joined
<1> DEFINE V(n) == Values(s, 1..n)
           Right(n) == Sequential(g[n]) /\ Len(g[n]) = SumFunctionOnSet(w, V(n))
           P == {n \in Nat : n <= N => Right(n)}
<1>2. 0 \in P
  <2>1. V(0) = {}
    BY DEF Values
  <2>2. Sequential(<<>>) /\ Len(<<>>) = 0
    <3>1. <<>> \in Seq({})
      OBVIOUS
    <3> QED
      BY <3>1 DEF Sequential
  <2>3. SumFunctionOnSet(w, {}) = 0
    BY SumOfNone
  <2>4. Right(0)
    BY <1>1, <2>1, <2>2, <2>3
  <2> HIDE DEF Right
  <2> QED
    BY <2>4
<1>3. ASSUME NEW n \in P
      PROVE  n + 1 \in P
  <2> SUFFICES ASSUME n + 1 <= N
               PROVE  Right(n + 1)
    OBVIOUS
  <2>1. n \in Nat /\ n <= N /\ n + 1 \in 1..N /\ (n + 1) - 1 = n
    OBVIOUS
  <2>2. Right(n)
    BY <2>1
  <2> DEFINE x == s[n + 1]
             W == V(n)
             p == part[n + 1]
  <2>3. g[n + 1] = g[n] \o p /\ Sequential(p)
    BY <1>1, <2>1
  <2>4. Sequential(g[n + 1]) /\ Len(g[n + 1]) = Len(g[n]) + Len(p)
    <3> DEFINE l == g[n]
    <3>1. Sequential(l) /\ g[n + 1] = l \o p /\ Sequential(p)
      BY <2>2, <2>3
    <3> HIDE DEF l, p
    <3>2. Sequential(l \o p) /\ Len(l \o p) = Len(l) + Len(p)
      BY <3>1, Joining
    <3> QED
      BY <3>1, <3>2 DEF l
  <2>5. w[x] = Len(p)
    BY <2>1
  <2>6. x \notin W
    <3> SUFFICES ASSUME x \in W
                 PROVE  FALSE
      OBVIOUS
    <3>1. PICK k \in 1..n : s[k] = s[n + 1]
      BY DEF Values
    <3>2. k \in 1..N /\ k # n + 1
      BY <2>1
    <3> QED
      BY <2>1, <3>1, <3>2
  <2>7. \A y \in W \cup {x} : w[y] \in Nat
    <3> SUFFICES ASSUME NEW y \in W \cup {x}
                 PROVE  w[y] \in Nat
      OBVIOUS
    <3>1. PICK k \in 1..N : y = s[k]
      BY <2>1 DEF Values
    <3>2. w[y] = Len(part[k]) /\ Sequential(part[k])
      BY <3>1
    <3> QED
      BY <3>2, Lengths
  <2>8. IsFiniteSet(W)
    <3>1. IsFiniteSet(1..n)
      BY <2>1, FS_Interval
    <3> QED
      BY <3>1, ValuesOf
  <2>9. V(n + 1) = W \cup {x}
    <3>1. 1..(n + 1) = (1..n) \cup {n + 1}
      BY <2>1
    <3> QED
      BY <3>1 DEF Values
  <2>10. Len(g[n]) = SumFunctionOnSet(w, W)
    BY <2>2
  <2> HIDE DEF x, W, p
  <2>11. SumFunctionOnSet(w, W \cup {x}) = SumFunctionOnSet(w, W) + w[x]
    BY <2>6, <2>7, <2>8, SumPutsIn
  <2>12. Len(g[n + 1]) = SumFunctionOnSet(w, V(n + 1))
    BY <2>4, <2>5, <2>9, <2>10, <2>11
  <2> QED
    BY <2>4, <2>12
<1>4. N \in P
  <2> HIDE DEF P
  <2>1. P \in SUBSET Nat
    BY DEF P
  <2>2. P = Nat
    BY <1>2, <1>3, <2>1, Counting
  <2> QED
    BY <2>2
<1>5. Right(N)
  <2> HIDE DEF Right
  <2>1. N <= N => Right(N)
    BY <1>4
  <2> QED
    BY <2>1
<1> QED
  BY <1>5 DEF AsLongAs

\* The advice for recovery is as long as what the blocked children show.
LEMMA RecoveryIsCounted ==
    ASSUME NEW S, NEW N \in Nat, N = Len(Selected), S = Values(Selected, 1..N),
           \A n, m \in 1..N : Selected[n] = Selected[m] => n = m,
           NEW w, \A i \in S : Sequential(Recoverable(i)) /\ w[i] = Len(Recoverable(i))
    PROVE  AsLongAs(RecoveryCandidates, w, S)
<1> DEFINE s == Selected
           part == [n \in 1..N |-> Recoverable(s[n])]
<1>1. \A n \in 1..N : s[n] \in S
  BY DEF Values
<1>2. \A n \in 1..N : Sequential(part[n]) /\ w[s[n]] = Len(part[n])
  <2> SUFFICES ASSUME NEW n \in 1..N
               PROVE  Sequential(part[n]) /\ w[s[n]] = Len(part[n])
    OBVIOUS
  <2>1. part[n] = Recoverable(s[n])
    OBVIOUS
  <2>2. s[n] \in S
    BY <1>1
  <2> HIDE DEF s, part
  <2> QED
    BY <2>1, <2>2
<1> DEFINE Found(f) == f = [n \in 0..N |-> IF n = 0 THEN <<>> ELSE f[n - 1] \o Recoverable(s[n])]
           g == CHOOSE f : Found(f)
<1>3. RecoveryCandidates = g[N]
  BY Zenon DEF RecoveryCandidates
<1>4. \A n \in 1..N : part[n] = Recoverable(s[n])
  OBVIOUS
<1> HIDE DEF part, s
<1>5. \A f : Joined(f, N, part) <=> Found(f)
  <2> SUFFICES ASSUME NEW f
               PROVE  Joined(f, N, part) <=> Found(f)
    OBVIOUS
  <2>1. \A n \in 0..N : (IF n = 0 THEN <<>> ELSE f[n - 1] \o part[n])
                            = (IF n = 0 THEN <<>> ELSE f[n - 1] \o Recoverable(s[n]))
    <3>1. \A n \in 0..N : n # 0 => n \in 1..N
      OBVIOUS
    <3> QED
      BY <1>4, <3>1
  <2>2. [n \in 0..N |-> IF n = 0 THEN <<>> ELSE f[n - 1] \o part[n]]
            = [n \in 0..N |-> IF n = 0 THEN <<>> ELSE f[n - 1] \o Recoverable(s[n])]
    BY <2>1, Zenon
  <2> QED
    BY <2>2, Zenon DEF Joined
<1>6. \E f : Found(f)
  <2> HIDE DEF Found
  <2>1. \E f : Joined(f, N, part)
    BY <1>2, ListsCanBeJoined
  <2> QED
    BY <1>5, <2>1
<1>7. Found(g)
  <2> HIDE DEF Found
  <2> QED
    BY <1>6, Zenon
<1> HIDE DEF g, Found
<1>8. Joined(g, N, part)
  BY <1>5, <1>7
<1>9. \A n, m \in 1..N : s[n] = s[m] => n = m
  BY DEF s
<1>10. AsLongAs(g[N], w, Values(s, 1..N))
  BY <1>2, <1>8, <1>9, JoinedLength
<1> QED
  BY <1>3, <1>10 DEF s

-----------------------------------------------------------------------------
(* The links that the children offer for a second depth.                   *)

\* The names of the links that a child offers for a second depth.
LinksOf(i) == {Deeper(i)[n].dest : n \in DOMAIN Deeper(i)}

\* Each is named once, and the child's own page is not among them.
LEMMA DeeperOf ==
    ASSUME NEW i, ChildType(surface, Child(i))
    PROVE  /\ Sequential(Deeper(i)) /\ Len(Deeper(i)) \in Nat /\ DOMAIN Deeper(i) = 1..Len(Deeper(i))
           /\ Cardinality(LinksOf(i)) = Len(Deeper(i))
           /\ LinksOf(i) = {} <=> Deeper(i) = <<>>
           /\ Deeper(i) = <<>> <=> Len(Deeper(i)) = 0
           /\ candidates[i].dest \notin LinksOf(i)
<1> DEFINE d == Deeper(i)
<1>1. CASE Child(i).status = "absent" \/ "unrecorded" \in Child(i).shows
  <2>1. d = <<>>
    BY <1>1 DEF Deeper
  <2>2. <<>> \in Seq({}) /\ DOMAIN <<>> = {} /\ Len(<<>>) = 0
    OBVIOUS
  <2>3. Sequential(d) /\ DOMAIN d = {} /\ Len(d) = 0
    BY <2>1, <2>2 DEF Sequential
  <2>4. LinksOf(i) = {}
    BY <2>3 DEF LinksOf
  <2>5. Cardinality(LinksOf(i)) = 0
    BY <2>4, FS_EmptySet
  <2> HIDE DEF d
  <2>6. Len(d) \in Nat /\ DOMAIN d = 1..Len(d)
    BY <2>3, Lengths, Zenon
  <2> QED
    BY <2>1, <2>3, <2>4, <2>5, <2>6 DEF d
<1>2. CASE ~(Child(i).status = "absent" \/ "unrecorded" \in Child(i).shows)
  <2>1. d = DeepeningCandidates(candidates[i], Child(i).links)
    BY <1>2 DEF Deeper
  <2>2. Child(i).links \in Seq(ToSet(Child(i).links))
    BY DEF ChildType
  <2> DEFINE page == candidates[i]
             links == Child(i).links
  <2> HIDE DEF d, page, links
  <2>3. /\ Sequential(DeepeningCandidates(page, links))
        /\ \A n \in DOMAIN DeepeningCandidates(page, links) : DeepeningCandidates(page, links)[n].dest # page.dest
        /\ \A n, m \in DOMAIN DeepeningCandidates(page, links) :
              n # m => DeepeningCandidates(page, links)[n].dest # DeepeningCandidates(page, links)[m].dest
    BY <2>2, DeeperDiffer DEF links
  <2>4. /\ Sequential(d) /\ \A n \in DOMAIN d : d[n].dest # page.dest
        /\ \A n, m \in DOMAIN d : n # m => d[n].dest # d[m].dest
    BY <2>1, <2>3 DEF page, links
  <2>5. Cardinality({d[n].dest : n \in DOMAIN d}) = Len(d) /\ ({d[n].dest : n \in DOMAIN d} = {} <=> d = <<>>)
    BY <2>4, AsManyNames
  <2>6. LinksOf(i) = {d[n].dest : n \in DOMAIN d}
    BY DEF LinksOf, d
  <2>7. page.dest \notin LinksOf(i)
    BY <2>4, <2>6
  <2>8. Len(d) \in Nat /\ DOMAIN d = 1..Len(d) /\ (d = <<>> <=> Len(d) = 0)
    BY <2>4, Lengths
  <2> QED
    BY <2>4, <2>5, <2>6, <2>7, <2>8, Zenon DEF d, page
<1> QED
  BY <1>1, <1>2

\* The verdicts on a child whose page could not be read.
Walled == {"blocked", "paywalled", "private"}

\* Exactly the children behind a wall have links to recover.
LEMMA RecoverableOf ==
    ASSUME NEW i, ChildType(surface, Child(i))
    PROVE  /\ Sequential(Recoverable(i))
           /\ Len(Recoverable(i)) = IF Verdict(i) \in Walled THEN Cardinality(LinksOf(i)) ELSE 0
<1> DEFINE child == Child(i)
           v == Verdict(i)
           d == Deeper(i)
<1>1. /\ Sequential(d) /\ Len(d) \in Nat /\ DOMAIN d = 1..Len(d) /\ Cardinality(LinksOf(i)) = Len(d)
      /\ d = <<>> <=> Len(d) = 0
  BY DeeperOf
<1>2. BlockedChild(i) <=> v \in Walled \/ "obstructed" \in child.shows
  BY DEF BlockedChild, Walled
<1>3. child.status = "absent" \/ "unrecorded" \in child.shows => d = <<>>
  BY DEF Deeper
<1>4. v = ClassifyChild(surface, candidates[i].kind, child)
  BY DEF Verdict
<1>5. child.status \in {"absent", "ok", "failed"}
  BY DEF ChildType
<1> HIDE DEF child, v
<1>6. /\ child.status = "failed" => v \in {"paywalled", "private", "blocked"}
      /\ child.status = "ok" /\ "unrecorded" \notin child.shows => ("obstructed" \in child.shows => v = "blocked")
  BY <1>4, <1>5, Judged
<1>7. d # <<>> => (BlockedChild(i) <=> v \in Walled)
  BY <1>2, <1>3, <1>5, <1>6 DEF Walled
<1> DEFINE deeper == IF BlockedChild(i) THEN d ELSE <<>>
           r == Recoverable(i)
<1>8. r = [n \in DOMAIN deeper |-> [child |-> candidates[i].dest, url |-> deeper[n].dest, domain |-> deeper[n].host]]
  BY Zenon DEF Recoverable
<1>9. Sequential(<<>>) /\ Len(<<>>) = 0
  <2>1. <<>> \in Seq({})
    OBVIOUS
  <2> QED
    BY <2>1 DEF Sequential
<1> HIDE DEF d, r
<1>10. Sequential(deeper) /\ Len(deeper) = IF v \in Walled THEN Len(d) ELSE 0
  <2>1. CASE d = <<>>
    BY <1>9, <2>1
  <2>2. CASE d # <<>> /\ BlockedChild(i)
    BY <1>1, <1>7, <2>2
  <2>3. CASE d # <<>> /\ ~BlockedChild(i)
    BY <1>7, <1>9, <2>3
  <2> QED
    BY <2>1, <2>2, <2>3
<1> HIDE DEF deeper
<1>11. Len(deeper) \in Nat /\ DOMAIN deeper = 1..Len(deeper)
  BY <1>10, Lengths
<1>12. r = [n \in 1..Len(deeper) |-> r[n]]
  BY <1>8, <1>11
<1>13. Sequential(r) /\ Len(r) = Len(deeper)
  BY <1>11, <1>12, Listed
<1> QED
  BY <1>1, <1>10, <1>13 DEF r, v

\* The pages of a triage and what their links bring back, with the advice.
DeepInv ==
    /\ TriageInv
    /\ AdviceInv
    /\ \A i \in DOMAIN candidates : ChildType(surface, Child(i))

\* Who is selected.
LEMMA WhoIsSelected ==
    ASSUME DeepInv, triage # <<>>
    PROVE  /\ Ordered(candidates) /\ IsFiniteSet(triage.selected)
           /\ triage.selected \in SUBSET DOMAIN candidates
           /\ \A i \in triage.selected : ChildType(surface, Child(i)) /\ "login" \notin candidates[i].text
           /\ \A i, j \in triage.selected : candidates[i].dest = candidates[j].dest => i = j
           /\ triage.useful = {i \in triage.selected : Verdict(i) = "useful"}
<1>1. TriageInv
  BY DEF DeepInv
<1>2. Verdicts(triage, surface, candidates, children, triage.maxSelected, triage.maxPerDomain)
  BY <1>1, TriageSays
<1> DEFINE S == Eligible(surface, candidates)
<1>3. triage.selected \subseteq S
  BY <1>2 DEF Verdicts
<1>4. S \subseteq DOMAIN candidates /\ IsFiniteSet(S)
  BY <1>1, WhatIsTriaged
<1>5. Ordered(candidates)
  BY <1>1, CandidatesAreOrdered
<1>6. IsFiniteSet(triage.selected)
  <2> HIDE DEF S
  <2> QED
    BY <1>3, <1>4, FS_Subset
<1>7. \A i, j \in triage.selected : candidates[i].dest = candidates[j].dest => i = j
  BY <1>3, <1>5, DestinationsDiffer
<1>8. \A i \in triage.selected : "login" \notin candidates[i].text
  <2> SUFFICES ASSUME NEW i \in triage.selected
               PROVE  "login" \notin candidates[i].text
    OBVIOUS
  <2>1. HardRejectionFor(surface, candidates[i]) = "none"
    BY <1>3 DEF Eligible
  <2> QED
    BY <2>1, LoginsAreRejected
<1>9. triage.useful = {i \in triage.selected : Verdict(i) = "useful"}
  BY <1>2 DEF Verdicts, Verdict, Child
<1>10. \A i \in triage.selected : ChildType(surface, Child(i))
  BY <1>3, <1>4 DEF DeepInv
<1> HIDE DEF S
<1>11. triage.selected \in SUBSET DOMAIN candidates
  BY <1>3, <1>4
<1> QED
  BY <1>5, <1>6, <1>7, <1>8, <1>9, <1>10, <1>11

\* The elements of s at the positions P, in their order.
ChosenInOrder(s, P) ==
    /\ Cardinality(P) \in Nat
    /\ DOMAIN Chosen(s, P) = 1..Cardinality(P)
    /\ \A n \in 1..Cardinality(P) : Chosen(s, P)[n] = s[Ranked(P)[n]] /\ Ranked(P)[n] \in P
    /\ \A k \in P : \E n \in 1..Cardinality(P) : Ranked(P)[n] = k
    /\ \A n, m \in 1..Cardinality(P) : n < m <=> Ranked(P)[n] < Ranked(P)[m]

\* That is what a filter of a list leaves.
LEMMA ChosenAreInOrder ==
    ASSUME NEW s, NEW P \in SUBSET Int, IsFiniteSet(P)
    PROVE  ChosenInOrder(s, P)
<1>1. /\ Cardinality(P) \in Nat
      /\ DOMAIN Chosen(s, P) = 1..Cardinality(P)
      /\ \A n \in DOMAIN Chosen(s, P) : Chosen(s, P)[n] = s[Ranked(P)[n]] /\ Ranked(P)[n] \in P
      /\ \A i \in P : \E n \in DOMAIN Chosen(s, P) : Ranked(P)[n] = i /\ Chosen(s, P)[n] = s[i]
      /\ \A n, m \in DOMAIN Chosen(s, P) : n < m <=> Ranked(P)[n] < Ranked(P)[m]
  BY ChosenLists, Zenon
<1> QED
  BY <1>1, Zenon DEF ChosenInOrder

\* A useful child with links is proposed once, any other not at all.
LEMMA ProposedOnce ==
    ASSUME DeepInv, triage # <<>>, NEW i \in triage.selected
    PROVE  Cardinality({n \in DOMAIN Proposals : Proposals[n].child = candidates[i].dest})
               = IF Verdict(i) = "useful" /\ LinksOf(i) # {} THEN 1 ELSE 0
<1> DEFINE S == triage.selected
           s == Selected
           proposes(k) == Verdict(k) = "useful" /\ Deeper(k) # <<>>
           P == {n \in DOMAIN s : proposes(s[n])}
           proposing == Chosen(s, P)
           proposals == Proposals
           of == {n \in DOMAIN proposals : proposals[n].child = candidates[i].dest}
<1>1. /\ Ordered(candidates) /\ IsFiniteSet(S) /\ S \in SUBSET DOMAIN candidates
      /\ \A k, j \in S : candidates[k].dest = candidates[j].dest => k = j
      /\ ChildType(surface, Child(i))
  BY WhoIsSelected
<1>2. s = Sorted(candidates, S)
  BY DEF Selected
<1>3. /\ s \in Seq(S) /\ \A n \in DOMAIN s : s[n] \in S
      /\ \A k \in S : \E n \in DOMAIN s : s[n] = k
      /\ \A n, m \in DOMAIN s : s[n] = s[m] => n = m
  <2> HIDE DEF S, s
  <2> QED
    BY <1>1, <1>2, SelectedOnce
<1>4. proposals = [n \in DOMAIN proposing |->
                      [child |-> candidates[proposing[n]].dest, links |-> Deeper(proposing[n]),
                       reason |-> DeepeningReason(Deeper(proposing[n]))]]
  BY Zenon DEF Proposals
<1> HIDE DEF proposals, s
<1>5. P \subseteq DOMAIN s /\ \A n \in DOMAIN s : n \in P <=> proposes(s[n])
  OBVIOUS
<1> HIDE DEF P
<1>6. P \in SUBSET Int /\ IsFiniteSet(P)
  BY <1>3, <1>5, ChosenOfList
<1> DEFINE N == Cardinality(P)
           at == Ranked(P)
<1>7. /\ DOMAIN proposing = 1..N
      /\ \A n \in 1..N : proposing[n] = s[at[n]] /\ at[n] \in P
      /\ \A k \in P : \E n \in 1..N : at[n] = k
      /\ \A n, m \in 1..N : n < m <=> at[n] < at[m]
      /\ N \in Nat
  <2>1. ChosenInOrder(s, P)
    BY <1>6, ChosenAreInOrder, Zenon
  <2> QED
    BY <2>1, Zenon DEF ChosenInOrder
<1> HIDE DEF proposing, N, at
<1>8. \A n \in 1..N : proposing[n] \in S /\ proposes(proposing[n])
  <2> SUFFICES ASSUME NEW n \in 1..N
               PROVE  proposing[n] \in S /\ proposes(proposing[n])
    BY Zenon
  <2>1. proposing[n] = s[at[n]] /\ at[n] \in P
    BY <1>7, Zenon
  <2>2. at[n] \in DOMAIN s /\ proposes(s[at[n]])
    BY <1>5, <2>1, Zenon
  <2>3. s[at[n]] \in S
    BY <1>3, <2>2, Zenon
  <2> QED
    BY <2>1, <2>2, <2>3, Zenon
<1>9. of = {n \in 1..N : proposing[n] = i}
  <2>1. DOMAIN proposals = 1..N /\ \A n \in 1..N : proposals[n].child = candidates[proposing[n]].dest
    BY <1>4, <1>7
  <2> QED
    BY <1>1, <1>8, <2>1
<1>10. \A n, m \in 1..N : proposing[n] = i /\ proposing[m] = i => n = m
  <2> SUFFICES ASSUME NEW n \in 1..N, NEW m \in 1..N, proposing[n] = i, proposing[m] = i
               PROVE  n = m
    OBVIOUS
  <2>1. at[n] \in DOMAIN s /\ at[m] \in DOMAIN s /\ s[at[n]] = s[at[m]]
    BY <1>5, <1>7
  <2>2. at[n] = at[m]
    BY <1>3, <2>1
  <2>3. ~(n < m) /\ ~(m < n)
    <3>1. at[n] \in Int
      BY <1>6, <1>7
    <3>2. ~(at[n] < at[m]) /\ ~(at[m] < at[n])
      BY <2>2, <3>1
    <3> QED
      BY <1>7, <3>2
  <2> QED
    BY <1>7, <2>3
<1>11. CASE proposes(i)
  <2>1. PICK k \in DOMAIN s : s[k] = i
    BY <1>3
  <2>2. k \in P
    BY <1>5, <1>11, <2>1
  <2>3. PICK n \in 1..N : at[n] = k
    BY <1>7, <2>2
  <2>4. proposing[n] = i
    BY <1>7, <2>1, <2>3
  <2>5. of = {n}
    BY <1>9, <1>10, <2>4
  <2>6. Cardinality(of) = 1
    BY <2>5, FS_Singleton
  <2>7. Verdict(i) = "useful" /\ LinksOf(i) # {}
    BY <1>1, <1>11, DeeperOf
  <2> QED
    BY <2>6, <2>7 DEF proposals
<1>12. CASE ~proposes(i)
  <2>1. of = {}
    BY <1>8, <1>9, <1>12
  <2>2. Cardinality(of) = 0
    BY <2>1, FS_EmptySet
  <2>3. ~(Verdict(i) = "useful" /\ LinksOf(i) # {})
    BY <1>1, <1>12, DeeperOf
  <2> QED
    BY <2>2, <2>3 DEF proposals
<1> QED
  BY <1>11, <1>12

\* What the summary says, part by part.
Behind == {i \in triage.selected : Verdict(i) \in Walled} \cup
          {i \in triage.hard : HardRejectionFor(surface, candidates[i]) = "private"}
UsefulOnes == {i \in triage.selected : Verdict(i) = "useful"}
Disappoints == Behind # {} \/ triage.selected = {} \/ UsefulOnes # triage.selected

\* The summary counts what is to be recovered, and disappoints for no other reason.
LEMMA SummaryParts ==
    LET found == RecoveryCandidates
    IN  /\ Summary.recoverable = Len(found)
        /\ Summary.advice = RecoveryAdvice(SubSeq(found, 1, Min({Caps.samples, Len(found)})), Len(found))
        /\ \A i \in Summary.fallback : /\ i \in DOMAIN candidates \ triage.selected
                                       /\ Reasons(i).negative \cap {"domain_budget", "top_k_budget"} # {}
        /\ Summary.status = FirstRule(<< <<"no_candidates", DOMAIN candidates = {}>>, <<"partial", Disappoints>> >>,
                                      "selected")
<1> DEFINE all == DOMAIN candidates
           useful == UsefulOnes
           walled == Behind
           fallback == IF useful = triage.selected THEN {}
                       ELSE {i \in all \ triage.selected :
                                 Reasons(i).negative \cap {"domain_budget", "top_k_budget"} # {}}
           found == RecoveryCandidates
           samples == SubSeq(found, 1, Min({Caps.samples, Len(found)}))
           advice == RecoveryAdvice(samples, Len(found))
           status == FirstRule(<< <<"no_candidates", all = {}>>,
                                  <<"partial", walled # {} \/ triage.selected = {} \/ useful # triage.selected>> >>,
                               "selected")
           summary == Summary
<1>1. summary = [status |-> status, fallback |-> fallback, samples |-> samples, recoverable |-> Len(found),
                 advice |-> advice, retry |-> fallback # {} \/ advice # {}]
  BY Zenon DEF Summary, SummaryOf, UsefulOnes, Behind, Walled
<1>2. \A i \in fallback : /\ i \in all \ triage.selected
                          /\ Reasons(i).negative \cap {"domain_budget", "top_k_budget"} # {}
  <2>1. CASE useful = triage.selected
    BY <2>1
  <2>2. CASE useful # triage.selected
    BY <2>2
  <2> QED
    BY <2>1, <2>2
<1>3. status = FirstRule(<< <<"no_candidates", DOMAIN candidates = {}>>, <<"partial", Disappoints>> >>, "selected")
  BY Zenon DEF Disappoints
<1> HIDE DEF status, fallback, samples, found, advice, summary
<1>4. /\ summary.recoverable = Len(found) /\ summary.advice = advice /\ summary.fallback = fallback
      /\ summary.status = status
  BY <1>1
<1> QED
  BY <1>2, <1>3, <1>4 DEF found, samples, advice, summary

\* A summary says "selected" exactly when nothing disappoints.
LEMMA StatusOfSummary ==
    Summary.status = "selected" <=> DOMAIN candidates # {} /\ ~Disappoints
<1> DEFINE rules == << <<"no_candidates", DOMAIN candidates = {}>>, <<"partial", Disappoints>> >>
           n == 1
           m == 2
<1>1. Summary.status = FirstRule(rules, "selected")
  BY SummaryParts
<1>2. DOMAIN rules = 1..2 /\ rules[1][1] = "no_candidates" /\ rules[2][1] = "partial"
  OBVIOUS
<1>3. (rules[1][2] <=> DOMAIN candidates = {}) /\ (rules[2][2] <=> Disappoints)
  BY Zenon
<1> HIDE DEF rules
<1>4. DOMAIN rules \subseteq Int /\ n \in DOMAIN rules /\ m \in DOMAIN rules
      /\ \A k \in DOMAIN rules : ~(k < n) /\ (k < m => k = n) /\ (k = n \/ k = m)
  BY <1>2
<1>5. /\ rules[n][1] = "no_candidates" /\ rules[m][1] = "partial"
      /\ (rules[n][2] <=> DOMAIN candidates = {}) /\ (rules[m][2] <=> Disappoints)
  BY <1>2, <1>3, Zenon
<1> HIDE DEF n, m
<1>6. CASE DOMAIN candidates = {}
  <2>1. FirstRule(rules, "selected") = rules[n][1]
    BY <1>4, <1>5, <1>6, FirstRuleIs
  <2> QED
    BY <1>1, <1>5, <1>6, <2>1
<1>7. CASE DOMAIN candidates # {} /\ Disappoints
  <2>1. FirstRule(rules, "selected") = rules[m][1]
    BY <1>4, <1>5, <1>7, FirstRuleIs
  <2> QED
    BY <1>1, <1>5, <1>7, <2>1
<1>8. CASE DOMAIN candidates # {} /\ ~Disappoints
  <2>1. \A k \in DOMAIN rules : ~rules[k][2]
    BY <1>4, <1>5, <1>8
  <2>2. FirstRule(rules, "selected") = "selected"
    BY <2>1, NoRuleHolds
  <2> QED
    BY <1>1, <1>8, <2>2
<1> QED
  BY <1>6, <1>7, <1>8

\* Advice is given when there is something to recover.
LEMMA AdviceIsGiven ==
    ASSUME Sequential(RecoveryCandidates)
    PROVE  Summary.advice = {} <=> Summary.recoverable = 0
<1> DEFINE found == RecoveryCandidates
           samples == SubSeq(found, 1, Min({Caps.samples, Len(found)}))
           cap == Caps.samples
<1>1. cap \in Nat /\ cap # 0
  <2>1. Caps \in [{"deeper", "samples", "urls"} -> Nat \ {0}]
    BY DeepeningAssumption
  <2> QED
    BY <2>1
<1>2. Summary.recoverable = Len(found) /\ Summary.advice = RecoveryAdvice(samples, Len(found))
  BY SummaryParts
<1> HIDE DEF found, cap
<1>3. Sequential(found)
  BY DEF found
<1>4. samples = Take(found, cap) /\ Len(Take(found, cap)) = IF cap < Len(found) THEN cap ELSE Len(found)
  BY <1>1, <1>3, FirstOfList DEF cap
<1>5. Sequential(Take(found, cap)) /\ Len(found) \in Nat
  BY <1>1, <1>3, Taking, Lengths
<1> HIDE DEF samples
<1>6. samples = <<>> <=> Len(samples) = 0
  BY <1>4, <1>5, Lengths
<1>7. Len(samples) = 0 <=> Len(found) = 0
  BY <1>1, <1>4, <1>5
<1>8. RecoveryAdvice(samples, Len(found)) = {} <=> samples = <<>>
  BY Zenon DEF RecoveryAdvice
<1> QED
  BY <1>2, <1>6, <1>7, <1>8

\* Why a candidate was left out: the reasons that a budget has, and the one of a login.
LEMMA LeftOutFor ==
    ASSUME NEW i
    PROVE  /\ "domain_budget" \in RejectionReason(i) => i \in triage.domain_budget
           /\ "top_k_budget" \in RejectionReason(i) => i \in triage.top_k_budget
           /\ "private_or_login_surface" \in RejectionReason(i)
                 <=> i \in triage.hard /\ HardRejectionFor(surface, candidates[i]) = "private"
<1> DEFINE again == <<"duplicate", i \in triage.duplicate>>
           domain == <<"domain_budget", i \in triage.domain_budget>>
           topK == <<"top_k_budget", i \in triage.top_k_budget>>
           login == <<"private_or_login_surface",
                      i \in triage.hard /\ HardRejectionFor(surface, candidates[i]) = "private">>
           shell == <<"portal_shell", i \in triage.hard /\ HardRejectionFor(surface, candidates[i]) = "low_value">>
           other == <<"unsupported_destination",
                      i \in triage.hard /\ HardRejectionFor(surface, candidates[i]) = "unsupported">>
           pairs == {again, domain, topK, login, shell, other}
<1>1. RejectionReason(i) = Those(pairs)
  BY DEF RejectionReason
<1>2. /\ again[1] = "duplicate" /\ domain[1] = "domain_budget" /\ topK[1] = "top_k_budget"
      /\ login[1] = "private_or_login_surface" /\ shell[1] = "portal_shell" /\ other[1] = "unsupported_destination"
  OBVIOUS
<1>3. /\ domain[2] => i \in triage.domain_budget
      /\ topK[2] => i \in triage.top_k_budget
      /\ (login[2] <=> (i \in triage.hard /\ HardRejectionFor(surface, candidates[i]) = "private"))
  BY Zenon
<1>4. pairs = {again, domain, topK, login, shell, other}
  OBVIOUS
<1> HIDE DEF again, domain, topK, login, shell, other, pairs
<1>5. /\ "domain_budget" \in Those(pairs) => domain[2]
      /\ "top_k_budget" \in Those(pairs) => topK[2]
      /\ "private_or_login_surface" \in Those(pairs) => login[2]
  <2>1. ASSUME NEW x, x \in Those(pairs)
        PROVE  \/ x = again[1] \/ x = shell[1] \/ x = other[1]
               \/ (x = domain[1] /\ domain[2]) \/ (x = topK[1] /\ topK[2]) \/ (x = login[1] /\ login[2])
    <3>1. PICK p \in pairs : p[1] = x /\ p[2]
      BY <2>1, ThoseThatHold
    <3> QED
      BY <1>4, <3>1, Zenon
  <2> QED
    BY <1>2, <2>1
<1>6. login[2] => "private_or_login_surface" \in Those(pairs)
  <2> SUFFICES ASSUME login[2]
               PROVE  login[1] \in Those(pairs)
    BY <1>2
  <2>1. login \in pairs
    BY <1>4
  <2>2. \E p \in pairs : p[1] = login[1] /\ p[2]
    BY <2>1, Zenon
  <2> QED
    BY <2>2, ThoseThatHold, Zenon
<1> QED
  BY <1>1, <1>3, <1>5, <1>6, Zenon

\* The triage is recorded as a success exactly when nothing disappoints.
LEMMA RecordOfTriage ==
    ASSUME DeepInv, triage # <<>>, NEW proposals
    PROVE  <<"destination_triage", "ok">> \in Records(Summary, proposals) <=>
               /\ triage.selected # {} /\ triage.selected = triage.useful
               /\ \A i \in triage.hard : "private_or_login_surface" \notin RejectionReason(i)
<1> DEFINE status == Summary.status
           ok == <<"destination_triage", "ok">>
           record == <<"destination_triage", IF status = "selected" THEN "ok" ELSE "partial">>
           others == IF proposals = <<>> THEN {} ELSE {<<"destination_deepening_proposal", "ok">>}
<1>1. triage.useful = UsefulOnes /\ triage.selected \in SUBSET DOMAIN candidates
  BY WhoIsSelected DEF UsefulOnes
<1>2. candidates = <<>> <=> DOMAIN candidates = {}
  <2>1. PICK requests \in Requests : candidates = Candidates(surface, requests)
    BY DEF DeepInv, TriageInv
  <2>2. requests \in Seq(ToSet(requests))
    BY TriageAssumption
  <2> DEFINE n == Len(requests)
             c == candidates
  <2>3. n \in Nat
    BY <2>2, LenProperties
  <2>4. c = [i \in 1..n |-> c[i]]
    BY <2>1 DEF Candidates
  <2> HIDE DEF n, c
  <2>5. Sequential(c)
    BY <2>3, <2>4, Listed
  <2>6. Len(c) \in Nat /\ DOMAIN c = 1..Len(c) /\ (c = <<>> <=> Len(c) = 0)
    BY <2>5, Lengths
  <2>7. 1..Len(c) = {} <=> Len(c) = 0
    BY <2>6
  <2> QED
    BY <2>6, <2>7 DEF c
<1>3. status = "selected" <=> DOMAIN candidates # {} /\ ~Disappoints
  BY StatusOfSummary
<1>4. /\ ok[1] = "destination_triage" /\ ok[2] = "ok"
      /\ \A x \in others : x[1] = "destination_deepening_proposal"
      /\ <<"destination_candidate", "ok">>[1] = "destination_candidate"
  OBVIOUS
<1>5. ok = record <=> status = "selected"
  <2>1. CASE status = "selected"
    BY <2>1
  <2>2. CASE status # "selected"
    <3>1. record = <<"destination_triage", "partial">>
      BY <2>2
    <3> QED
      BY <2>2, <3>1
  <2> QED
    BY <2>1, <2>2
<1>6. Records(Summary, proposals) = IF candidates = <<>> THEN {}
                                    ELSE {<<"destination_candidate", "ok">>, record} \cup others
  BY Zenon DEF Records
<1> HIDE DEF status, record, others, ok
<1>7. ok \in Records(Summary, proposals) <=> candidates # <<>> /\ status = "selected"
  <2>1. ok # <<"destination_candidate", "ok">> /\ ok \notin others
    BY <1>4
  <2> QED
    BY <1>5, <1>6, <2>1
<1>8. Disappoints <=> \/ triage.selected = {} \/ triage.useful # triage.selected
                      \/ \E i \in triage.hard : HardRejectionFor(surface, candidates[i]) = "private"
  <2>1. triage.useful = triage.selected => \A i \in triage.selected : Verdict(i) \notin Walled
    BY <1>1 DEF UsefulOnes, Walled
  <2>2. Behind # {} <=> \/ \E i \in triage.selected : Verdict(i) \in Walled
                        \/ \E i \in triage.hard : HardRejectionFor(surface, candidates[i]) = "private"
    BY DEF Behind
  <2> QED
    BY <1>1, <2>1, <2>2 DEF Disappoints
<1>9. \A i \in triage.hard : "private_or_login_surface" \in RejectionReason(i)
                                <=> HardRejectionFor(surface, candidates[i]) = "private"
  BY LeftOutFor
<1> QED
  BY <1>1, <1>2, <1>3, <1>7, <1>8, <1>9 DEF ok

\* Nobody is a fallback whom no budget left out.
LEMMA FallbackIsLeftOut ==
    ASSUME DeepInv, triage # <<>>, NEW i \in triage.duplicate \cup triage.hard
    PROVE  i \notin Summary.fallback
<1> SUFFICES ASSUME i \in Summary.fallback
             PROVE  FALSE
  OBVIOUS
<1>1. i \in DOMAIN candidates \ triage.selected /\ Reasons(i).negative \cap {"domain_budget", "top_k_budget"} # {}
  BY SummaryParts
<1> DEFINE S == Eligible(surface, candidates)
<1>2. /\ triage.domain_budget \subseteq S /\ triage.top_k_budget \subseteq S
      /\ triage.duplicate = {k \in DOMAIN candidates : Repeats(candidates, k)}
      /\ triage.hard = {k \in DOMAIN candidates : ~Repeats(candidates, k)} \ S
  BY WhatIsTriaged DEF DeepInv
<1>3. \A k \in S : ~Repeats(candidates, k)
  BY DEF Eligible
<1> HIDE DEF S
<1>4. i \notin triage.domain_budget /\ i \notin triage.top_k_budget
  BY <1>2, <1>3
<1> DEFINE c == candidates[i]
           base == DecisionReasons(c)
           shell == <<"portal_shell", "low_value" \in c.text \/ ProviderBoilerplate(surface, c)>>
           login == <<"private_or_login_surface", "login" \in c.text>>
           stale == <<"stale_or_mismatched_source", "stale_year" \in c.text
                                                       \/ ~SourceFamilyFits(surface.family, c.kind)>>
           other == <<"unsupported_destination", ~c.http>>
           against == {shell, login, stale, other}
           own == Those(against)
<1>5. base.negative = own
  BY DEF DecisionReasons
<1>6. \A x \in own : x \notin {"domain_budget", "top_k_budget"}
  <2>1. /\ shell[1] = "portal_shell" /\ login[1] = "private_or_login_surface"
        /\ stale[1] = "stale_or_mismatched_source" /\ other[1] = "unsupported_destination"
    OBVIOUS
  <2> HIDE DEF shell, login, stale, other
  <2>2. \A p \in against : p[1] \notin {"domain_budget", "top_k_budget"}
    BY <2>1
  <2> HIDE DEF against
  <2> QED
    BY <2>2, ThoseThatHold
<1>7. Reasons(i).negative = base.negative \cup RejectionReason(i)
  <2> HIDE DEF own
  <2>1. Reasons(i) = [base EXCEPT !.negative = @ \cup RejectionReason(i)]
    BY <1>1, Zenon DEF Reasons
  <2>2. base = [positive |-> base.positive, negative |-> base.negative]
    BY DEF DecisionReasons
  <2> HIDE DEF base
  <2> QED
    BY <2>1, <2>2
<1> HIDE DEF own, base
<1>8. "domain_budget" \notin RejectionReason(i) /\ "top_k_budget" \notin RejectionReason(i)
  BY <1>4, LeftOutFor
<1> QED
  BY <1>1, <1>5, <1>6, <1>7, <1>8

\* What is to be recovered is what the blocked children show.
LEMMA RecoveryOfBlocked ==
    ASSUME DeepInv, triage # <<>>
    PROVE  AsLongAs(RecoveryCandidates,
                    [i \in triage.selected |-> IF Verdict(i) \in Walled THEN Cardinality(LinksOf(i)) ELSE 0],
                    triage.selected)
<1> DEFINE S == triage.selected
           s == Selected
           w == [i \in S |-> IF Verdict(i) \in Walled THEN Cardinality(LinksOf(i)) ELSE 0]
           N == Len(s)
<1>1. /\ Ordered(candidates) /\ IsFiniteSet(S) /\ S \in SUBSET DOMAIN candidates
      /\ \A i \in S : ChildType(surface, Child(i))
  BY WhoIsSelected
<1>2. s = Sorted(candidates, S)
  BY DEF Selected
<1>3. \A i \in S : Sequential(Recoverable(i)) /\ w[i] = Len(Recoverable(i))
  <2> SUFFICES ASSUME NEW i \in S
               PROVE  Sequential(Recoverable(i)) /\ w[i] = Len(Recoverable(i))
    OBVIOUS
  <2>1. w[i] = IF Verdict(i) \in Walled THEN Cardinality(LinksOf(i)) ELSE 0
    OBVIOUS
  <2> QED
    BY <1>1, <2>1, RecoverableOf
<1> HIDE DEF S, s, w
<1>4. /\ Len(s) \in Nat /\ DOMAIN s = 1..Len(s) /\ \A n \in DOMAIN s : s[n] \in S
      /\ \A i \in S : \E n \in DOMAIN s : s[n] = i
      /\ \A n, m \in DOMAIN s : s[n] = s[m] => n = m
  BY <1>1, <1>2, SelectedOnce
<1>5. S = Values(s, 1..N)
  BY <1>4 DEF Values
<1>6. N \in Nat /\ \A n, m \in 1..N : s[n] = s[m] => n = m
  BY <1>4
<1> HIDE DEF N
<1>7. N = Len(Selected) /\ S = Values(Selected, 1..N) /\ \A n, m \in 1..N : Selected[n] = Selected[m] => n = m
  BY <1>5, <1>6 DEF N, s
<1>8. AsLongAs(RecoveryCandidates, w, S)
  BY <1>3, <1>6, <1>7, RecoveryIsCounted
<1> QED
  BY <1>8 DEF w, S

\* So nothing is lost or offered twice.
LEMMA LinksAreAccounted == DeepInv => DeeperLinksAccounted
<1> SUFFICES ASSUME DeepInv, triage # <<>>
             PROVE  DeeperLinksAccounted
  BY DEF DeeperLinksAccounted
<1> DEFINE deeper == [i \in triage.selected |-> Deeper(i)]
           links == [i \in triage.selected |-> {deeper[i][n].dest : n \in DOMAIN deeper[i]}]
           proposals == Proposals
           of(i) == {n \in DOMAIN proposals : proposals[n].child = candidates[i].dest}
           summary == Summary
           w == [i \in triage.selected |-> IF Verdict(i) \in {"blocked", "paywalled", "private"}
                                           THEN Cardinality(links[i]) ELSE 0]
<1>1. \A i \in triage.selected : deeper[i] = Deeper(i) /\ links[i] = LinksOf(i)
  BY DEF LinksOf
<1>2. ASSUME NEW i \in triage.selected
      PROVE  /\ Cardinality(links[i]) = Len(deeper[i])
             /\ candidates[i].dest \notin links[i]
             /\ Cardinality(of(i)) = IF Verdict(i) = "useful" /\ links[i] # {} THEN 1 ELSE 0
             /\ Verdict(i) = "useful" <=> Reasons(i).negative \cap UNION Range(VerdictReason) = {}
  <2>1. ChildType(surface, Child(i)) /\ "login" \notin candidates[i].text
    BY WhoIsSelected
  <2>2. Cardinality(LinksOf(i)) = Len(Deeper(i)) /\ candidates[i].dest \notin LinksOf(i)
    BY <2>1, DeeperOf
  <2>3. Verdict(i) = "useful" <=> Reasons(i).negative \cap UNION Range(VerdictReason) = {}
    BY <2>1, ReasonsAgree DEF Against
  <2>4. Cardinality(of(i)) = IF Verdict(i) = "useful" /\ LinksOf(i) # {} THEN 1 ELSE 0
    BY ProposedOnce
  <2>5. deeper[i] = Deeper(i) /\ links[i] = LinksOf(i)
    BY <1>1
  <2> HIDE DEF deeper, links, proposals
  <2> QED
    BY <2>2, <2>3, <2>4, <2>5
<1>3. w = [i \in triage.selected |-> IF Verdict(i) \in Walled THEN Cardinality(LinksOf(i)) ELSE 0]
  <2>1. \A i \in triage.selected : (IF Verdict(i) \in {"blocked", "paywalled", "private"} THEN Cardinality(links[i]) ELSE 0)
                                     = (IF Verdict(i) \in Walled THEN Cardinality(LinksOf(i)) ELSE 0)
    <3> HIDE DEF links, deeper
    <3> QED
      BY <1>1 DEF Walled
  <2> HIDE DEF links, deeper
  <2> QED
    BY <2>1, Zenon
<1>4. AsLongAs(RecoveryCandidates, w, triage.selected)
  <2> HIDE DEF w
  <2> QED
    BY <1>3, RecoveryOfBlocked
<1>5. summary.recoverable = SumFunctionOnSet(w, triage.selected)
  <2> HIDE DEF w
  <2> QED
    BY <1>4, SummaryParts DEF AsLongAs
<1>6. summary.advice = {} <=> summary.recoverable = 0
  <2> HIDE DEF w
  <2> QED
    BY <1>4, AdviceIsGiven DEF AsLongAs
<1>7. \A i \in triage.duplicate \cup triage.hard : i \notin summary.fallback
  BY FallbackIsLeftOut
<1>8. <<"destination_triage", "ok">> \in Records(summary, proposals) <=>
          /\ triage.selected # {} /\ triage.selected = triage.useful
          /\ \A i \in triage.hard : "private_or_login_surface" \notin RejectionReason(i)
  BY RecordOfTriage
<1> HIDE DEF deeper, links, proposals, summary
<1> QED
  BY <1>2, <1>5, <1>6, <1>7, <1>8 DEF DeeperLinksAccounted, LinksAccounted, deeper, links, proposals, summary

\* What a triage tells to do next leaves nothing out, whatever the page, the budgets
\* and what the children bring back: the advice reaches every destination that it can,
\* and the links of the children are each offered once (destination-triage.ts,
\* buildDestinationTriageSummary, deepening and recovery).
THEOREM NextStepsAlwaysAccounted == TriageSpec => []NextStepsAccounted
<1>1. TriageInit => DeepInv
  <2> SUFFICES ASSUME TriageInit
               PROVE  DeepInv
    OBVIOUS
  <2>1. ASSUME NEW i \in DOMAIN candidates
        PROVE  ChildType(surface, Child(i))
    <3>1. Child(i) \in {child \in Children : "no_overlap" \in child.shows => Asked(surface)}
      BY DEF TriageInit, Child
    <3>2. Child(i) \in Children /\ ("no_overlap" \in Child(i).shows => Asked(surface))
      BY <3>1
    <3> QED
      BY <3>2, DeepeningAssumption DEF ChildType
  <2> QED
    BY <2>1, TriageBegins DEF DeepInv
<1>2. DeepInv /\ [TriageNext]_triageVars => DeepInv'
  <2> SUFFICES ASSUME DeepInv, [TriageNext]_triageVars
               PROVE  DeepInv'
    OBVIOUS
  <2>1. surface' = surface /\ candidates' = candidates /\ children' = children
    BY DEF TriageNext, FirstRun, FollowAdvice, RunWith, triageVars
  <2>2. (\A i \in DOMAIN candidates : ChildType(surface, Child(i)))'
    BY <2>1 DEF DeepInv, Child
  <2>3. TriageInv' /\ AdviceInv'
    <3>1. CASE FirstRun
      BY <3>1, FirstRunKeeps DEF DeepInv
    <3>2. CASE FollowAdvice
      BY <3>2, AdviceKeeps DEF DeepInv
    <3>3. CASE UNCHANGED triageVars
      BY <3>3 DEF triageVars, DeepInv, TriageInv, AdviceInv
    <3> QED
      BY <3>1, <3>2, <3>3 DEF TriageNext
  <2> QED
    BY <2>2, <2>3 DEF DeepInv
<1>3. DeepInv => NextStepsAccounted
  BY NothingMissed, LinksAreAccounted DEF DeepInv, NextStepsAccounted
<1> QED
  BY <1>1, <1>2, <1>3, PTL DEF TriageSpec

-----------------------------------------------------------------------------
(* The advice that is handed over.                                         *)

\* The rows of the ledger that are preferred name triages.
LEMMA PreferredPaths ==
    ASSUME NEW rows \in Seq(LedgerRow)
    PROVE  Preferred(rows) \in Seq(TriagePath)
<1> DEFINE texts == {n \in DOMAIN rows : rows[n].text}
           preferred == IF texts = {} THEN DOMAIN rows ELSE texts
           first(n) == \A k \in preferred : rows[k].path = rows[n].path => n <= k
           S == {n \in preferred : first(n)}
           kept == Chosen(rows, S)
<1>1. S \subseteq DOMAIN rows
  OBVIOUS
<1>2. Preferred(rows) = [n \in DOMAIN kept |-> kept[n].path]
  BY Zenon DEF Preferred
<1> HIDE DEF S
<1>3. kept \in Seq(LedgerRow)
  BY <1>1, ChosenOfList
<1> HIDE DEF kept
<1>4. \A n \in DOMAIN kept : kept[n].path \in TriagePath
  <2>1. \A n \in DOMAIN kept : kept[n] \in LedgerRow
    BY <1>3
  <2> QED
    BY <2>1 DEF LedgerRow
<1> QED
  BY <1>2, <1>3, <1>4

RunDirectory ==
    ledger \in Ledgers /\ walk \in Walks /\ content \in [TriagePath -> Contents]

\* So do the files found by walking the run directory.
LEMMA TriagePaths == RunDirectory => TriageArtifacts \in Seq(TriagePath)
<1> SUFFICES ASSUME RunDirectory
             PROVE  TriageArtifacts \in Seq(TriagePath)
  OBVIOUS
<1> DEFINE rows == IF ledger = {} THEN <<>> ELSE CHOOSE rows \in ledger : TRUE
           listed == {n \in DOMAIN rows : rows[n].valid /\ rows[n].triage /\ rows[n].inside}
           read == IF listed = {} THEN walk ELSE Chosen(rows, listed)
<1>1. TriageArtifacts = Preferred(read)
  BY Zenon DEF TriageArtifacts
<1>2. rows \in Seq(LedgerRow)
  <2>1. ledger \subseteq Seq(LedgerRow)
    BY RecoveryAssumption DEF RunDirectory
  <2>2. CASE ledger = {}
    BY <2>2
  <2>3. CASE ledger # {}
    BY <2>1, <2>3
  <2> QED
    BY <2>2, <2>3
<1>3. listed \subseteq DOMAIN rows
  OBVIOUS
<1> HIDE DEF rows, listed
<1>4. read \in Seq(LedgerRow)
  <2>1. walk \in Seq(LedgerRow)
    BY RecoveryAssumption DEF RunDirectory
  <2>2. Chosen(rows, listed) \in Seq(LedgerRow)
    BY <1>2, <1>3, ChosenOfList
  <2> QED
    BY <2>1, <2>2
<1> HIDE DEF read
<1> QED
  BY <1>1, <1>4, PreferredPaths



\* What is advised in the files of some paths.
LinksIn(paths) == {a.recovery : a \in UNION {AdviceIn(path) : path \in ToSet(paths)}}

Complete(full, paths) ==
    /\ DOMAIN full = 1..Len(full) /\ Len(full) \in Nat
    /\ \A n \in DOMAIN full : full[n] = [order |-> n, profile |-> full[n].profile, setup |-> full[n].setup,
                                         recovery |-> full[n].recovery]
    /\ \A n \in DOMAIN full : full[n].recovery \in LinksIn(paths)
    /\ \A url \in LinksIn(paths) : \E n \in DOMAIN full : full[n].recovery = url
    /\ \A n, m \in DOMAIN full : full[n].recovery = full[m].recovery => n = m

\* A file that advises has one piece of advice, and a link has one profile.
LEMMA OneAdvice ==
    ASSUME content \in [TriagePath -> Contents], NEW p \in TriagePath, NEW q \in TriagePath,
           NEW a \in AdviceIn(p)
    PROVE  /\ AdviceFor(p) = a /\ AdviceIn(p) = {a}
           /\ AdviceIn(q) # {} => (AdviceFor(q).recovery = a.recovery <=> SameCommand(AdviceFor(q), a))
<1>1. content[p] \in Contents /\ content[q] \in Contents
  OBVIOUS
<1>2. \A b \in AdviceIn(q) : a.recovery = b.recovery => a.profile = b.profile
  BY <1>1, AdviceAssumption DEF AdviceIn
<1>3. AdviceIn(p) = {a}
  BY <1>1, AdviceAssumption DEF AdviceIn
<1> QED
  BY <1>2, <1>3 DEF AdviceFor, SameCommand



\* The places where a command is advised for the first time.
FirstAdvised(paths) ==
    {n \in Advising(paths) :
        \A k \in Advising(paths) : SameCommand(AdviceFor(paths[k]), AdviceFor(paths[n])) => n <= k}

\* The full plan has one item for each link that the triages advise.
LEMMA PlanIsComplete ==
    ASSUME content \in [TriagePath -> Contents], NEW paths \in Seq(TriagePath)
    PROVE  Complete(RecoveryPlan(paths), paths)
<1> DEFINE S == FirstAdvised(paths)
           kept == Chosen(paths, S)
           item(n) == PlanItem(AdviceFor(kept[n]))
           full == RecoveryPlan(paths)
<1>1. DOMAIN paths = 1..Len(paths) /\ Len(paths) \in Nat /\ \A n \in DOMAIN paths : paths[n] \in TriagePath
  OBVIOUS
<1>2. S \subseteq Advising(paths) /\ S \subseteq DOMAIN paths
  BY DEF FirstAdvised, Advising
<1>3. full = Numbered([n \in DOMAIN kept |-> item(n)])
  BY Zenon DEF RecoveryPlan, FirstAdvised
<1>4. \A n \in DOMAIN kept : [k \in DOMAIN kept |-> item(k)][n] = item(n)
  OBVIOUS
<1>5. \A n \in DOMAIN kept : [item(n) EXCEPT !.order = n] =
          [order |-> n, profile |-> AdviceFor(kept[n]).profile, setup |-> AdviceFor(kept[n]).setup,
           recovery |-> AdviceFor(kept[n]).recovery]
  BY DEF PlanItem
<1>6. DOMAIN full = DOMAIN kept
  BY <1>3 DEF Numbered
<1>7. \A n \in DOMAIN kept : full[n] =
          [order |-> n, profile |-> AdviceFor(kept[n]).profile, setup |-> AdviceFor(kept[n]).setup,
           recovery |-> AdviceFor(kept[n]).recovery]
  BY <1>3, <1>4, <1>5, Zenon DEF Numbered
<1>8. full = [n \in DOMAIN kept |-> full[n]]
  BY <1>3, <1>6, Zenon DEF Numbered
<1> HIDE DEF S, full, item
<1>9. /\ S \in SUBSET Int /\ IsFiniteSet(S) /\ kept \in Seq(TriagePath)
      /\ DOMAIN kept = 1..Cardinality(S) /\ Cardinality(S) \in Nat
      /\ \A n \in DOMAIN kept : kept[n] = paths[Ranked(S)[n]] /\ Ranked(S)[n] \in S
      /\ \A i \in S : \E n \in DOMAIN kept : Ranked(S)[n] = i /\ kept[n] = paths[i]
      /\ \A n, m \in DOMAIN kept : n < m <=> Ranked(S)[n] < Ranked(S)[m]
  BY <1>1, <1>2, ChosenOfList, ChosenLists
<1>10. DOMAIN full = 1..Len(full) /\ Len(full) \in Nat
  BY <1>6, <1>8, <1>9
<1> HIDE DEF kept
<1>11. \A n \in DOMAIN full : full[n] = [order |-> n, profile |-> full[n].profile, setup |-> full[n].setup,
                                         recovery |-> full[n].recovery]
  BY <1>6, <1>7
<1>12. \A n \in DOMAIN full :
          /\ full[n].recovery = AdviceFor(paths[Ranked(S)[n]]).recovery
          /\ AdviceFor(paths[Ranked(S)[n]]) \in AdviceIn(paths[Ranked(S)[n]])
          /\ Ranked(S)[n] \in DOMAIN paths
  <2> SUFFICES ASSUME NEW n \in DOMAIN kept
               PROVE  /\ full[n].recovery = AdviceFor(paths[Ranked(S)[n]]).recovery
                      /\ AdviceFor(paths[Ranked(S)[n]]) \in AdviceIn(paths[Ranked(S)[n]])
                      /\ Ranked(S)[n] \in DOMAIN paths
    BY <1>6
  <2>1. kept[n] = paths[Ranked(S)[n]] /\ Ranked(S)[n] \in S
    BY <1>9
  <2>2. Ranked(S)[n] \in DOMAIN paths /\ AdviceIn(paths[Ranked(S)[n]]) # {}
    BY <2>1, <1>2 DEF Advising
  <2>3. full[n].recovery = AdviceFor(kept[n]).recovery
    <3>1. full[n] = [order |-> n, profile |-> AdviceFor(kept[n]).profile, setup |-> AdviceFor(kept[n]).setup,
                     recovery |-> AdviceFor(kept[n]).recovery]
      BY <1>7
    <3> QED
      BY <3>1
  <2> QED
    BY <2>1, <2>2, <2>3 DEF AdviceFor
<1>13. \A n \in DOMAIN full : full[n].recovery \in LinksIn(paths)
  BY <1>12 DEF LinksIn, ToSet
<1>14. \A url \in LinksIn(paths) : \E n \in DOMAIN full : full[n].recovery = url
  <2> SUFFICES ASSUME NEW i \in DOMAIN paths, NEW a \in AdviceIn(paths[i])
               PROVE  \E n \in DOMAIN full : full[n].recovery = a.recovery
    BY DEF LinksIn, ToSet
  <2> DEFINE T == {k \in Advising(paths) : SameCommand(AdviceFor(paths[k]), a)}
  <2>1. i \in T
    BY <1>1, OneAdvice DEF Advising, SameCommand
  <2>2. T \in SUBSET Nat
    BY <1>1 DEF Advising
  <2>3. PICK f \in T : \A k \in T : f <= k
    <3> HIDE DEF T
    <3> QED
      BY <2>1, <2>2, LeastOf
  <2>4. f \in S
    <3>1. \A k \in Advising(paths) : SameCommand(AdviceFor(paths[k]), AdviceFor(paths[f])) => k \in T
      BY DEF SameCommand
    <3> QED
      BY <2>3, <3>1 DEF S, FirstAdvised
  <2>5. PICK n \in DOMAIN kept : Ranked(S)[n] = f
    BY <2>4, <1>9
  <2>6. full[n].recovery = AdviceFor(paths[f]).recovery
    BY <2>5, <1>6, <1>12
  <2> QED
    BY <2>5, <2>6, <2>3, <1>6 DEF SameCommand
<1>15. \A n, m \in DOMAIN full : full[n].recovery = full[m].recovery => n = m
  <2> SUFFICES ASSUME NEW n \in DOMAIN full, NEW m \in DOMAIN full, full[n].recovery = full[m].recovery
               PROVE  n = m
    OBVIOUS
  <2> DEFINE i == Ranked(S)[n]
             k == Ranked(S)[m]
  <2>1. /\ i \in S /\ k \in S /\ i \in DOMAIN paths /\ k \in DOMAIN paths
        /\ AdviceFor(paths[i]) \in AdviceIn(paths[i]) /\ AdviceFor(paths[k]) \in AdviceIn(paths[k])
        /\ AdviceFor(paths[i]).recovery = AdviceFor(paths[k]).recovery
    BY <1>6, <1>9, <1>12
  <2> HIDE DEF i, k
  <2>2. /\ SameCommand(AdviceFor(paths[i]), AdviceFor(paths[k]))
        /\ SameCommand(AdviceFor(paths[k]), AdviceFor(paths[i]))
    BY <2>1, <1>1, OneAdvice
  <2>3. i <= k /\ k <= i
    BY <2>1, <2>2 DEF S, FirstAdvised
  <2>4. i = k
    BY <2>1, <2>3, <1>1
  <2>5. ~(n < m) /\ ~(m < n)
    BY <2>4, <1>6, <1>9, <1>1, <2>1 DEF i, k
  <2>6. n \in Nat /\ m \in Nat
    BY <1>10
  <2> QED
    BY <2>5, <2>6
<1> QED
  BY <1>10, <1>11, <1>13, <1>14, <1>15 DEF Complete, full

\* What a check of an item asks for.
Handy(item, known) ==
    /\ item.setup \notin Apostrophed /\ item.recovery \notin Apostrophed
    /\ known = {} \/ item.profile \in UNION known

\* The plan's check objects to an item whose command cannot be run, and only to it.
LEMMA IssuesOf ==
    ASSUME NEW items, NEW n, items[n].order = n, NEW known
    PROVE  Issues(items, n, known) = {} <=> Handy(items[n], known)
<1> DEFINE A == items[n].order # n
           B == known # {} /\ items[n].profile \notin UNION known
           C == items[n].setup \in Apostrophed
           D == items[n].recovery \in Apostrophed
<1>1. A \in BOOLEAN /\ B \in BOOLEAN /\ C \in BOOLEAN /\ D \in BOOLEAN
  OBVIOUS
<1>2. Issues(items, n, known) = Those({<<"order_mismatch", A>>, <<"profile_missing", B>>,
                                       <<"setup_command_missing_setup_url", C>>,
                                       <<"retry_command_missing_recovery_url", D>>})
  BY DEF Issues
<1>3. ~A
  OBVIOUS
<1>4. Handy(items[n], known) <=> ~B /\ ~C /\ ~D
  BY DEF Handy
<1> HIDE DEF A, B, C, D
<1> DEFINE a == <<"order_mismatch", A>>
           b == <<"profile_missing", B>>
           c == <<"setup_command_missing_setup_url", C>>
           d == <<"retry_command_missing_recovery_url", D>>
           Q == {p \in {a, b, c, d} : p[2]}
<1>5. Those({a, b, c, d}) = {} <=> Q = {}
  BY DEF Those
<1>6. (a[2] <=> A) /\ (b[2] <=> B) /\ (c[2] <=> C) /\ (d[2] <=> D)
  BY <1>1
<1> HIDE DEF a, b, c, d
<1>7. Q = {} <=> ~a[2] /\ ~b[2] /\ ~c[2] /\ ~d[2]
  BY Zenon
<1> QED
  BY <1>2, <1>3, <1>4, <1>5, <1>6, <1>7, Zenon DEF a, b, c, d

\* The filter keeps exactly the items that the check has nothing against, and
\* the check has nothing against what it keeps.
LEMMA FilterKeeps ==
    ASSUME NEW paths, NEW full, Complete(full, paths), NEW known
    PROVE  LET kept == Filtered(full, known)
           IN  /\ CheckOk(full, known) <=> \A n \in DOMAIN full : Handy(full[n], known)
               /\ CheckOk(kept, known)
               /\ \A n \in DOMAIN kept : \E i \in DOMAIN full :
                      Handy(full[i], known) /\ kept[n].recovery = full[i].recovery
               /\ \A i \in DOMAIN full : Handy(full[i], known) =>
                      \E n \in DOMAIN kept : kept[n].recovery = full[i].recovery
<1> DEFINE T == {n \in DOMAIN full : Handy(full[n], known)}
           failing == {full[n].order : n \in {k \in DOMAIN full : Issues(full, k, known) # {}}}
           list == Chosen(full, T)
           kept == Filtered(full, known)
<1>1. \A n \in DOMAIN full : full[n].order = n
  <2> SUFFICES ASSUME NEW n \in DOMAIN full
               PROVE  full[n].order = n
    OBVIOUS
  <2>1. full[n] = [order |-> n, profile |-> full[n].profile, setup |-> full[n].setup, recovery |-> full[n].recovery]
    BY DEF Complete
  <2> QED
    BY <2>1
<1>2. \A n \in DOMAIN full : Issues(full, n, known) = {} <=> Handy(full[n], known)
  BY <1>1, IssuesOf
<1>3. \A n \in DOMAIN full : full[n].order \notin failing <=> Handy(full[n], known)
  <2>1. \A n \in DOMAIN full : n \in failing <=> Issues(full, n, known) # {}
    BY <1>1, Zenon
  <2> HIDE DEF failing
  <2> QED
    BY <1>1, <1>2, <2>1
<1>4. T = {n \in DOMAIN full : full[n].order \notin failing}
  <2> HIDE DEF failing
  <2> QED
    BY <1>3
<1>5. kept = Numbered(list)
  BY <1>4, Zenon DEF Filtered
<1>6. CheckOk(full, known) <=> \A n \in DOMAIN full : Handy(full[n], known)
  BY <1>2 DEF CheckOk
<1>7. T \in SUBSET Int /\ IsFiniteSet(T)
  <2>1. IsFiniteSet(1..Len(full)) /\ T \in SUBSET (1..Len(full))
    BY FS_Interval DEF Complete
  <2> HIDE DEF T
  <2>2. T \in SUBSET Int
    BY <2>1
  <2> QED
    BY <2>1, <2>2, FS_Subset
<1>8. /\ \A n \in DOMAIN list : list[n] = full[Ranked(T)[n]] /\ Ranked(T)[n] \in T
      /\ \A i \in T : \E n \in DOMAIN list : Ranked(T)[n] = i /\ list[n] = full[i]
  <2> HIDE DEF T
  <2> QED
    BY <1>7, ChosenLists
<1>9. DOMAIN kept = DOMAIN list /\ \A n \in DOMAIN list : kept[n] = [list[n] EXCEPT !.order = n]
  BY <1>5, Zenon DEF Numbered
<1> HIDE DEF list, kept, T, failing
<1>10. \A n \in DOMAIN list : LET i == Ranked(T)[n]
           IN  /\ i \in T
               /\ kept[n] = [order |-> n, profile |-> full[i].profile, setup |-> full[i].setup,
                                          recovery |-> full[i].recovery]
  <2> SUFFICES ASSUME NEW n \in DOMAIN list
               PROVE  LET i == Ranked(T)[n]
                      IN  /\ i \in T
                          /\ kept[n] = [order |-> n, profile |-> full[i].profile, setup |-> full[i].setup,
                                                     recovery |-> full[i].recovery]
    OBVIOUS
  <2> DEFINE i == Ranked(T)[n]
  <2>1. i \in T /\ i \in DOMAIN full /\ kept[n] = [full[i] EXCEPT !.order = n]
    BY <1>8, <1>9 DEF T
  <2> HIDE DEF i
  <2>2. full[i] = [order |-> i, profile |-> full[i].profile, setup |-> full[i].setup, recovery |-> full[i].recovery]
    BY <2>1 DEF Complete
  <2>3. kept[n] = [order |-> n, profile |-> full[i].profile, setup |-> full[i].setup,
                   recovery |-> full[i].recovery]
    BY <2>1, <2>2
  <2> QED
    BY <2>1, <2>3 DEF i
<1>11. \A n \in DOMAIN kept : /\ kept[n].order = n /\ Handy(kept[n], known)
                              /\ \E i \in T : kept[n].recovery = full[i].recovery
  <2> SUFFICES ASSUME NEW n \in DOMAIN list
               PROVE  /\ kept[n].order = n /\ Handy(kept[n], known)
                      /\ \E i \in T : kept[n].recovery = full[i].recovery
    BY <1>9
  <2>1. PICK i \in T : kept[n] = [order |-> n, profile |-> full[i].profile, setup |-> full[i].setup,
                                  recovery |-> full[i].recovery]
    BY <1>10
  <2>2. Handy(full[i], known)
    BY DEF T
  <2> QED
    BY <2>1, <2>2 DEF Handy
<1>12. CheckOk(kept, known)
  BY <1>11, IssuesOf DEF CheckOk
<1>13. \A i \in T : \E n \in DOMAIN kept : kept[n].recovery = full[i].recovery
  <2> SUFFICES ASSUME NEW i \in T
               PROVE  \E n \in DOMAIN kept : kept[n].recovery = full[i].recovery
    OBVIOUS
  <2>1. PICK n \in DOMAIN list : Ranked(T)[n] = i
    BY <1>8
  <2>2. kept[n] = [order |-> n, profile |-> full[i].profile, setup |-> full[i].setup,
                   recovery |-> full[i].recovery]
    BY <2>1, <1>10
  <2> QED
    BY <2>2, <1>9
<1> QED
  BY <1>6, <1>11, <1>12, <1>13 DEF T, kept

\* So what the run directory holds is handed over.
LEMMA NowHandedOver ==
    ASSUME RunDirectory, opened \subseteq LinksIn(TriageArtifacts)
    PROVE  RecoveryHandedOver
<1> DEFINE full == RecoveryPlan(TriageArtifacts)
           advised == UNION {AdviceIn(path) : path \in ToSet(TriageArtifacts)}
           sound == {n \in DOMAIN full :
                        /\ {full[n].setup, full[n].recovery} \cap Apostrophed = {}
                        /\ KnownProfiles = {} \/ full[n].profile \in profiles}
           kept == Filtered(full, KnownProfiles)
           links == {full[n].recovery : n \in DOMAIN full}
<1>1. Complete(full, TriageArtifacts)
  BY TriagePaths, PlanIsComplete DEF RunDirectory
<1>2. {a.recovery : a \in advised} = LinksIn(TriageArtifacts)
  BY DEF LinksIn
<1> HIDE DEF full, advised
<1>3. \A n \in DOMAIN full : n \in sound <=> Handy(full[n], KnownProfiles)
  BY DEF Handy, KnownProfiles
<1>4. links = {a.recovery : a \in advised}
  BY <1>1, <1>2, SMTT(60) DEF Complete
<1>5. Cardinality(links) = Len(full)
  <2> DEFINE f == [n \in DOMAIN full |-> full[n].recovery]
  <2>1. f \in [1..Len(full) -> links] /\ Len(full) \in Nat
    BY <1>1 DEF Complete
  <2>2. f \in Bijection(1..Len(full), links)
    <3>1. IsInjective(f)
      BY <1>1 DEF Complete, IsInjective
    <3>2. \A url \in links : \E n \in 1..Len(full) : f[n] = url
      BY <1>1 DEF Complete
    <3> HIDE DEF f, links
    <3> QED
      BY <2>1, <3>1, <3>2 DEF Bijection, Injection, Surjection
  <2>3. IsFiniteSet(1..Len(full)) /\ Cardinality(1..Len(full)) = Len(full)
    <3> DEFINE c == Len(full)
    <3>1. c \in Nat
      BY <2>1
    <3> HIDE DEF c, f, links
    <3>2. IsFiniteSet(1..c) /\ Cardinality(1..c) = c
      BY <3>1, FS_Interval
    <3> QED
      BY <3>2 DEF c
  <2> HIDE DEF f, links
  <2> QED
    BY <2>2, <2>3, FS_Bijection DEF ExistsBijection
<1>6. CheckOk(full, KnownProfiles) <=> sound = DOMAIN full
  BY <1>1, <1>3, FilterKeeps
<1>7. CheckOk(kept, KnownProfiles)
  BY <1>1, FilterKeeps
<1>8. {kept[n].recovery : n \in DOMAIN kept} = {full[n].recovery : n \in sound}
  <2>1. /\ \A n \in DOMAIN kept : \E i \in DOMAIN full :
                Handy(full[i], KnownProfiles) /\ kept[n].recovery = full[i].recovery
        /\ \A i \in DOMAIN full : Handy(full[i], KnownProfiles) =>
                \E n \in DOMAIN kept : kept[n].recovery = full[i].recovery
    BY <1>1, FilterKeeps
  <2>2. sound \subseteq DOMAIN full
    OBVIOUS
  <2> HIDE DEF kept, sound
  <2> QED
    BY <2>1, <2>2, <1>3
<1> HIDE DEF kept, sound, links
<1>9. opened \subseteq {a.recovery : a \in advised}
  BY <1>2
<1> QED
  BY <1>4, <1>5, <1>6, <1>7, <1>8, <1>9 DEF RecoveryHandedOver, full, advised, kept, sound, links

RecoveryInv ==
    /\ RunDirectory
    /\ \A items \in recovery : \A n \in DOMAIN items : items[n].recovery \in LinksIn(TriageArtifacts)
    /\ opened \subseteq LinksIn(TriageArtifacts)

RecoverySpec == RecoveryInit /\ [][RecoveryNext]_recoveryVars

\* What is advised changes only with the run directory.
LEMMA SameDirectory ==
    ASSUME UNCHANGED <<ledger, walk, content>>
    PROVE  LinksIn(TriageArtifacts)' = LinksIn(TriageArtifacts) /\ RunDirectory' = RunDirectory
  BY DEF LinksIn, TriageArtifacts, AdviceIn, RunDirectory

\* Every step keeps the invariant.
LEMMA RecoveryStep == RecoveryInv /\ [RecoveryNext]_recoveryVars => RecoveryInv'
<1> SUFFICES ASSUME RecoveryInv, [RecoveryNext]_recoveryVars
             PROVE  RecoveryInv'
  OBVIOUS
<1>0. UNCHANGED <<ledger, walk, content>>
  BY DEF RecoveryNext, PrintPlan, SignIn, OpenRecovered, DropFlags, recoveryVars
<1>1. LinksIn(TriageArtifacts)' = LinksIn(TriageArtifacts) /\ RunDirectory'
  BY <1>0, SameDirectory DEF RecoveryInv
<1>2. CASE PrintPlan
  <2> DEFINE full == RecoveryPlan(TriageArtifacts)
             kept == Filtered(full, KnownProfiles)
  <2>1. Complete(full, TriageArtifacts)
    BY TriagePaths, PlanIsComplete DEF RecoveryInv, RunDirectory
  <2>2. \A n \in DOMAIN full : full[n].recovery \in LinksIn(TriageArtifacts)
    BY <2>1 DEF Complete
  <2>3. \A n \in DOMAIN kept : kept[n].recovery \in LinksIn(TriageArtifacts)
    <3> HIDE DEF full
    <3>1. \A n \in DOMAIN kept : \E i \in DOMAIN full : kept[n].recovery = full[i].recovery
      BY <2>1, FilterKeeps
    <3> QED
      BY <2>2, <3>1
  <2>4. recovery' = {IF "only-check-ok" \in flags THEN kept ELSE full} /\ opened' = opened
    BY <1>2 DEF PrintPlan
  <2> HIDE DEF full, kept
  <2> QED
    BY <1>1, <2>2, <2>3, <2>4 DEF RecoveryInv
<1>3. ASSUME NEW items \in recovery, NEW n \in DOMAIN items, SignIn(items[n])
      PROVE  RecoveryInv'
  BY <1>1, <1>3 DEF RecoveryInv, SignIn
<1>4. ASSUME NEW items \in recovery, NEW n \in DOMAIN items, OpenRecovered(items[n])
      PROVE  RecoveryInv'
  BY <1>1, <1>4 DEF RecoveryInv, OpenRecovered
<1>5. CASE DropFlags
  BY <1>1, <1>5 DEF RecoveryInv, DropFlags
<1>6. CASE UNCHANGED recoveryVars
  BY <1>1, <1>6 DEF RecoveryInv, recoveryVars
<1> QED
  BY <1>2, <1>3, <1>4, <1>5, <1>6 DEF RecoveryNext

\* Whatever the run directory holds, what its triages advise is handed over to
\* the recovery plan, one item for each link, and nothing else is opened.
\* (destination-recovery-plan.ts, buildDestinationRecoveryPlanFromRunDir
\* and checkDestinationRecoveryPlan)
THEOREM AlwaysHandedOver == RecoverySpec => []RecoveryHandedOver
<1>1. RecoveryInit => RecoveryInv
  BY DEF RecoveryInit, RecoveryInv, RunDirectory
<1>2. RecoveryInv => RecoveryHandedOver
  BY NowHandedOver DEF RecoveryInv
<1> QED
  BY <1>1, <1>2, RecoveryStep, PTL DEF RecoverySpec

-----------------------------------------------------------------------------
(* The moments of a film: those that are planned.                          *)

\* The n earliest are at most n.
LEMMA EarliestAreFew ==
    ASSUME NEW times \in SUBSET Nat, IsFiniteSet(times), NEW n \in Nat
    PROVE  /\ Earliest(times, n) \subseteq times /\ IsFiniteSet(Earliest(times, n))
           /\ Cardinality(Earliest(times, n)) <= n
           /\ Cardinality(times) <= n => Earliest(times, n) = times
<1> DEFINE E == Earliest(times, n)
           Earlier(t) == {u \in times : u < t}
<1>1. E \subseteq times /\ IsFiniteSet(E)
  BY FS_Subset DEF Earliest
<1>2. \A t \in times : IsFiniteSet(Earlier(t)) /\ Cardinality(Earlier(t)) \in Nat
  BY FS_Subset, FS_CardinalityType
<1>3. Cardinality(E) <= n
  <2>1. CASE E = {}
    BY <2>1, FS_EmptySet
  <2>2. CASE E # {}
    <3>1. PICK m \in E : \A t \in E : t <= m
      <4> HIDE DEF E
      <4> QED
        BY <1>1, <2>2, MostOf
    <3>2. E \ {m} \in SUBSET Earlier(m)
      <4>1. \A t \in E \ {m} : t \in times /\ t < m
        <5> HIDE DEF E
        <5> QED
          BY <1>1, <3>1
      <4> QED
        BY <4>1
    <3>3. Cardinality(E \ {m}) <= Cardinality(Earlier(m))
      BY <1>1, <1>2, <3>1, <3>2, FS_Subset
    <3>4. Cardinality(Earlier(m)) < n
      BY <3>1 DEF Earliest
    <3>5. Cardinality(E) \in Nat /\ Cardinality(E \ {m}) = Cardinality(E) - 1
      BY <1>1, <3>1, FS_RemoveElement, FS_CardinalityType
    <3> HIDE DEF E, Earlier
    <3> QED
      BY <1>1, <1>2, <3>1, <3>3, <3>4, <3>5
  <2> QED
    BY <2>1, <2>2
<1>4. ASSUME Cardinality(times) <= n, NEW t \in times
      PROVE  t \in E
  <2>1. Earlier(t) \in SUBSET (times \ {t})
    OBVIOUS
  <2>2. IsFiniteSet(times \ {t}) /\ Cardinality(times \ {t}) = Cardinality(times) - 1 /\ Cardinality(times) \in Nat
    BY <1>4, FS_RemoveElement, FS_CardinalityType
  <2>3. Cardinality(Earlier(t)) <= Cardinality(times \ {t})
    BY <2>1, <2>2, FS_Subset
  <2>4. Cardinality(Earlier(t)) < n
    <3> HIDE DEF Earlier
    <3> QED
      BY <1>2, <1>4, <2>2, <2>3
  <2> QED
    BY <2>4 DEF Earliest
<1> QED
  BY <1>1, <1>3, <1>4

\* The lengths a player tells.
Length(l) == l = {} \/ \E n \in l : n \in Nat /\ l = {n}

\* The default moments of a film are finitely many.
LEMMA DefaultsAreFinite ==
    ASSUME NEW l, Length(l), NEW stride \in Nat \ {0}
    PROVE  IsFiniteSet(DefaultTimestamps(l, stride)) /\ DefaultTimestamps(l, stride) \subseteq Nat
<1> DEFINE Steps(n) == {stride * k : k \in 1..(n \div stride)}
           Of(n) == {0, n} \cup Steps(n)
           All == UNION {Of(n) : n \in l}
           B == Within(BaseTimestamps, l)
<1>1. ASSUME NEW n \in Nat
      PROVE  IsFiniteSet(Of(n)) /\ Of(n) \subseteq Nat
  <2>1. n \div stride \in Int
    OBVIOUS
  <2> DEFINE q == n \div stride
  <2> HIDE DEF q
  <2>2. IsFiniteSet(1..q)
    BY <2>1, FS_Interval DEF q
  <2>3. Steps(n) = Values([k \in 1..q |-> stride * k], 1..q)
    BY DEF Values, q
  <2>4. IsFiniteSet(Steps(n))
    BY <2>2, <2>3, ValuesOf
  <2>5. IsFiniteSet({0, n})
    <3> DEFINE z == 0
    <3> HIDE DEF z
    <3>1. IsFiniteSet({z})
      BY FS_Singleton
    <3>2. IsFiniteSet({z} \cup {n})
      BY <3>1, FS_AddElement
    <3>3. {0, n} = {z} \cup {n}
      BY DEF z
    <3> QED
      BY <3>2, <3>3
  <2>6. Steps(n) \subseteq Nat
    <3>1. \A k \in 1..q : stride * k \in Nat
      BY <2>1 DEF q
    <3> QED
      BY <3>1 DEF q
  <2> HIDE DEF Steps
  <2>7. IsFiniteSet({0, n} \cup Steps(n))
    BY <2>4, <2>5, FS_Union
  <2> QED
    BY <2>6, <2>7
<1>2. IsFiniteSet(B) /\ B \subseteq Nat
  <2>1. IsFiniteSet(({0} \cup {10}) \cup {30})
    <3>1. IsFiniteSet({0})
      BY FS_Singleton
    <3>2. IsFiniteSet({0} \cup {10})
      BY <3>1, FS_AddElement
    <3> QED
      BY <3>2, FS_AddElement
  <2>2. BaseTimestamps = ({0} \cup {10}) \cup {30} /\ B \in SUBSET BaseTimestamps /\ BaseTimestamps \subseteq Nat
    BY DEF BaseTimestamps, Within
  <2> HIDE DEF B
  <2> QED
    BY <2>1, <2>2, FS_Subset
<1>3. DefaultTimestamps(l, stride) = B \cup All
  BY DEF DefaultTimestamps
<1>4. CASE l = {}
  <2>1. All = {}
    BY <1>4
  <2> HIDE DEF All, B
  <2>2. DefaultTimestamps(l, stride) = B
    BY <1>3, <2>1
  <2> QED
    BY <1>2, <2>2, Zenon
<1>5. ASSUME NEW n \in l, n \in Nat, l = {n}
      PROVE  IsFiniteSet(DefaultTimestamps(l, stride)) /\ DefaultTimestamps(l, stride) \subseteq Nat
  <2>1. All = Of(n)
    BY <1>5
  <2> HIDE DEF All, Of, B
  <2>2. DefaultTimestamps(l, stride) = B \cup Of(n)
    BY <1>3, <2>1
  <2>3. IsFiniteSet(Of(n)) /\ Of(n) \subseteq Nat
    BY <1>1, <1>5
  <2> QED
    BY <1>2, <2>2, <2>3, FS_Union
<1> QED
  BY <1>4, <1>5 DEF Length

\* What a plan is.
LEMMA PlannedTimes ==
    ASSUME NEW times \in SUBSET Nat, IsFiniteSet(times), NEW l, Length(l),
           NEW stride \in Nat \ {0}, NEW max \in Nat
    PROVE  LET p == TimestampPlan(times, l, stride, max)
           IN  /\ p.times \subseteq Nat /\ IsFiniteSet(p.times) /\ Cardinality(p.times) <= max
               /\ \A t \in p.times : \A n \in l : t <= n
               /\ p = [times |-> p.times, length |-> l, omitted |-> p.omitted] /\ p.length = l
               /\ times # {} => /\ p.times \subseteq times
                                /\ Cardinality(times) <= max /\ (\A t \in times : \A n \in l : t <= n)
                                     => p.times = times
<1> DEFINE raw == IF times = {} THEN DefaultTimestamps(l, stride) ELSE times
           bounded == Within(raw, l)
           p == TimestampPlan(times, l, stride, max)
<1>1. IsFiniteSet(raw) /\ raw \subseteq Nat
  BY DefaultsAreFinite
<1>2. bounded \in SUBSET raw /\ \A t \in bounded : \A n \in l : t <= n
  BY DEF Within
<1>3. IsFiniteSet(bounded) /\ bounded \subseteq Nat
  <2> HIDE DEF raw, bounded
  <2> QED
    BY <1>1, <1>2, FS_Subset
<1>4. p = [times |-> Earliest(bounded, max), length |-> l,
           omitted |-> Cardinality(bounded) - Cardinality(Earliest(bounded, max))]
  BY DEF TimestampPlan
<1>5. (\A t \in times : \A n \in l : t <= n) /\ times # {} => bounded = times
  BY DEF Within
<1> HIDE DEF bounded, p
<1>6. /\ Earliest(bounded, max) \subseteq bounded /\ IsFiniteSet(Earliest(bounded, max))
      /\ Cardinality(Earliest(bounded, max)) <= max
      /\ Cardinality(bounded) <= max => Earliest(bounded, max) = bounded
  BY <1>3, EarliestAreFew
<1>7. p.times = Earliest(bounded, max) /\ p.length = l /\ p = [times |-> p.times, length |-> l, omitted |-> p.omitted]
  BY <1>4
<1> QED
  BY <1>1, <1>2, <1>3, <1>5, <1>6, <1>7 DEF p

\* A dense plan has at most its cap of moments, all within the length.
LEMMA DenseTimes ==
    ASSUME NEW hits \in SUBSET Nat, IsFiniteSet(hits), NEW p, NEW s \in Samplings
    PROVE  LET d == DensePlan(p, hits, s).dense
           IN  /\ d \subseteq Nat /\ IsFiniteSet(d) /\ Cardinality(d) <= s.maxDense
               /\ \A t \in d : \A n \in p.length : t <= n
<1> DEFINE steps == {k * s.step : k \in 0..((2 * s.window) \div s.step)}
           around == {h - s.window + x : h \in hits, x \in steps}
           floored == {IF t < 0 THEN 0 ELSE t : t \in around}
           dense == Within(floored, p.length)
<1>1. s.step \in Nat \ {0} /\ s.window \in Nat /\ s.maxDense \in Nat
  BY SamplingAssumption
<1>2. IsFiniteSet(steps) /\ steps \subseteq Int
  <2> DEFINE q == (2 * s.window) \div s.step
  <2>1. q \in Int
    BY <1>1
  <2>2. steps = Values([k \in 0..q |-> k * s.step], 0..q)
    BY DEF Values
  <2> HIDE DEF q
  <2>3. IsFiniteSet(0..q)
    BY <2>1, FS_Interval
  <2>4. \A k \in 0..q : k * s.step \in Int
    BY <1>1, <2>1
  <2> DEFINE f == [k \in 0..q |-> k * s.step]
  <2>5. \A k \in 0..q : f[k] \in Int
    BY <2>4
  <2> HIDE DEF f, steps
  <2> QED
    BY <2>2, <2>3, <2>5, ValuesIn DEF f
<1>3. IsFiniteSet(around) /\ around \subseteq Int
  <2> HIDE DEF steps
  <2> DEFINE f == [hx \in hits \X steps |-> hx[1] - s.window + hx[2]]
  <2>1. around \subseteq Values(f, hits \X steps)
    <3> SUFFICES ASSUME NEW h \in hits, NEW x \in steps
                 PROVE  h - s.window + x \in Values(f, hits \X steps)
      <4>1. \A v \in around : \E h \in hits, x \in steps : v = h - s.window + x
        OBVIOUS
      <4> HIDE DEF f, around
      <4> QED
        BY <4>1
    <3>1. <<h, x>> \in hits \X steps /\ f[<<h, x>>] = h - s.window + x
      OBVIOUS
    <3> HIDE DEF f
    <3> QED
      BY <3>1 DEF Values
  <2>2. IsFiniteSet(hits \X steps)
    BY <1>2, FS_Product
  <2>3. ASSUME NEW hx \in hits \X steps
        PROVE  f[hx] \in Int
    <3>1. hx[1] \in Nat /\ hx[2] \in Int
      BY <1>2
    <3>2. f[hx] = hx[1] - s.window + hx[2]
      OBVIOUS
    <3> HIDE DEF f
    <3> QED
      BY <1>1, <3>1, <3>2
  <2> HIDE DEF f, around
  <2>4. IsFiniteSet(Values(f, hits \X steps)) /\ Values(f, hits \X steps) \subseteq Int
    BY <2>2, <2>3, ValuesIn
  <2> QED
    BY <2>1, <2>4, FS_Subset
<1>4. IsFiniteSet(floored) /\ floored \subseteq Nat
  <2> HIDE DEF around
  <2> DEFINE f == [t \in around |-> IF t < 0 THEN 0 ELSE t]
  <2>1. floored = Values(f, around)
    BY DEF Values
  <2>2. \A t \in around : f[t] \in Nat
    BY <1>3
  <2> HIDE DEF f, floored
  <2> QED
    BY <1>3, <2>1, <2>2, ValuesIn
<1>5. IsFiniteSet(dense) /\ dense \subseteq Nat /\ \A t \in dense : \A n \in p.length : t <= n
  <2> HIDE DEF floored
  <2>1. dense \in SUBSET floored
    BY DEF Within
  <2> QED
    BY <1>4, <2>1, FS_Subset DEF Within
<1>6. DensePlan(p, hits, s).dense = Earliest(dense, s.maxDense)
  BY DEF DensePlan
<1> HIDE DEF dense
<1>7. /\ Earliest(dense, s.maxDense) \subseteq dense /\ IsFiniteSet(Earliest(dense, s.maxDense))
      /\ Cardinality(Earliest(dense, s.maxDense)) <= s.maxDense
  BY <1>1, <1>5, EarliestAreFew
<1> QED
  BY <1>5, <1>6, <1>7

-----------------------------------------------------------------------------
\* The frames that are taken.

FrameType(f) == /\ f.at \in Nat /\ f.round \in 1..4 /\ f.ok \in BOOLEAN /\ IsFiniteSet(f.picture)

\* Before a round begins there are frames of earlier rounds only.
OnlyEarlier == \A f \in frames : round = "done" \/ f.round < Round(round)

SamplingInv ==
    /\ video \in Videos /\ o \in Samplings
    /\ round \in {"base", "cues", "scenes", "text", "done"}
    /\ Length(length)
    /\ round = "base" => length = video.length /\ frames = {}
    /\ round # "base" => plan.length = video.length
    /\ plan = [times |-> plan.times, length |-> plan.length, omitted |-> plan.omitted]
    /\ IsFiniteSet(frames) /\ \A f \in frames : FrameType(f)
    /\ OnlyEarlier
    /\ FramesAsPlanned

\* What one call of sampleFrames brings.
LEMMA SampledFrames ==
    ASSUME SamplingInv, NEW times \in SUBSET Nat, IsFiniteSet(times), NEW max \in Nat
    PROVE  LET p == TimestampPlan(times, length, o.stride, max)
               S == Sampled(times, max)
           IN  /\ IsFiniteSet(S) /\ Cardinality(S) <= max /\ {f.at : f \in S} = p.times
               /\ \A f \in S : FrameType(f) /\ f.round = Round(round)
               /\ \A f, g \in S : f.at = g.at => f = g
<1> DEFINE p == TimestampPlan(times, length, o.stride, max)
           S == Sampled(times, max)
<1>1. Length(length) /\ o.stride \in Nat \ {0} /\ video \in Videos
  BY SamplingAssumption DEF SamplingInv
<1>2. p.times \subseteq Nat /\ IsFiniteSet(p.times) /\ Cardinality(p.times) <= max
  <2> HIDE DEF p
  <2> QED
    BY <1>1, PlannedTimes DEF p
<1>3. S = Values([t \in p.times |-> Frame(t)], p.times)
  BY DEF Sampled, Values
<1>4. Round(round) \in 1..4
  BY DEF SamplingInv, Round
<1>5. \A t \in p.times : FrameType(Frame(t)) /\ Frame(t).round = Round(round) /\ Frame(t).at = t
  <2> SUFFICES ASSUME NEW t \in p.times
               PROVE  FrameType(Frame(t)) /\ Frame(t).round = Round(round) /\ Frame(t).at = t
    OBVIOUS
  <2>1. t \in Nat
    BY <1>2
  <2>2. IsFiniteSet(IF t \in DOMAIN video.film THEN video.film[t] ELSE {})
    BY <1>1, SamplingAssumption, FS_EmptySet
  <2> HIDE DEF p
  <2> QED
    BY <1>4, <2>1, <2>2 DEF Frame, FrameType
<1> HIDE DEF p, S
<1>6. IsFiniteSet(S) /\ Cardinality(S) <= max
  <2>1. IsFiniteSet(S) /\ Cardinality(S) <= Cardinality(p.times)
    BY <1>2, <1>3, ValuesOf
  <2>2. Cardinality(S) \in Nat /\ Cardinality(p.times) \in Nat
    BY <1>2, <2>1, FS_CardinalityType
  <2> QED
    BY <1>2, <2>1, <2>2
<1>7. S = {Frame(t) : t \in p.times}
  BY DEF S, p, Sampled
<1>8. {f.at : f \in S} = p.times
  BY <1>5, <1>7
<1>9. \A f \in S : FrameType(f) /\ f.round = Round(round)
  BY <1>5, <1>7
<1>10. \A f, g \in S : f.at = g.at => f = g
  BY <1>5, <1>7
<1> QED
  BY <1>6, <1>8, <1>9, <1>10 DEF S, p

\* A call for moments the player still has, no more than it may sample, brings
\* them all.
LEMMA SampledAll ==
    ASSUME SamplingInv, NEW times \in SUBSET Nat, IsFiniteSet(times), times # {}, NEW max \in Nat,
           Cardinality(times) <= max
    PROVE  LET p == TimestampPlan(times, length, o.stride, max)
           IN  /\ p.times \subseteq times
               /\ (\A t \in times : \A n \in length : t <= n) => p.times = times
<1>1. Length(length) /\ o.stride \in Nat \ {0}
  BY SamplingAssumption DEF SamplingInv
<1> QED
  BY <1>1, PlannedTimes

\* The plan and the frames agree: the parts of FramesAsPlanned.
Planned(fs, p, l, v) ==
    /\ \A f \in fs : f.at \in p.times /\ \A n \in p.length : f.at <= n
    /\ l = v.length => {f.at : f \in fs} = p.times

OfRound(fs, r) == {f \in fs : f.round = r}

Capped(fs, s) == \A r \in 1..4 : Cardinality(OfRound(fs, r)) <= IF r = 1 THEN s.maxFrames ELSE s.maxDense

Repeated(fs) == \A f, g \in fs : f.at = g.at => f.round = g.round \/ {f.round, g.round} = {1, 2}

\* The frames are as planned, by parts.
LEMMA AsPlanned == FramesAsPlanned <=> Planned(frames, plan, length, video) /\ Capped(frames, o) /\ Repeated(frames)
BY DEF FramesAsPlanned, Planned, Capped, OfRound, Repeated

Follows(r, next) == /\ r \in {"cues", "scenes", "text"} /\ next \in {"scenes", "text", "done"}
                    /\ next = "done" \/ Round(r) < Round(next)

\* A denser round keeps the plan and the frames in step.
LEMMA DenserKeeps ==
    ASSUME SamplingInv, NEW hits \in SUBSET Nat, IsFiniteSet(hits), NEW taken, NEW next,
           taken = Captured \/ (taken = {} /\ round = "cues"), Follows(round, next),
           Denser(hits, taken, next), UNCHANGED <<video, o, length>>
    PROVE  SamplingInv'
<1> DEFINE d == DensePlan(plan, hits, o).dense
           asked == d \ taken
           S == Sampled(asked, o.maxDense)
           P == TimestampPlan(asked, length, o.stride, o.maxDense).times
<1>1. /\ video' = video /\ o' = o /\ length' = length /\ round' = next
      /\ o \in Samplings /\ o.maxDense \in Nat
      /\ plan.length = video.length /\ Round(round) \in 2..4
      /\ \A f \in frames : f.round < Round(round)
  BY SamplingAssumption DEF SamplingInv, Denser, Follows, Round, OnlyEarlier
<1>2. /\ IsFiniteSet(frames) /\ \A f \in frames : FrameType(f)
      /\ Planned(frames, plan, length, video) /\ Capped(frames, o) /\ Repeated(frames)
      /\ plan = [times |-> plan.times, length |-> plan.length, omitted |-> plan.omitted]
  BY AsPlanned DEF SamplingInv
<1>3. /\ d \subseteq Nat /\ IsFiniteSet(d) /\ Cardinality(d) <= o.maxDense
      /\ \A t \in d : \A n \in plan.length : t <= n
  BY <1>1, DenseTimes
<1>4. /\ asked \in SUBSET Nat /\ IsFiniteSet(asked) /\ Cardinality(asked) <= o.maxDense
      /\ asked \subseteq d
  <2> HIDE DEF d
  <2>1. asked \in SUBSET d
    OBVIOUS
  <2>2. IsFiniteSet(asked) /\ Cardinality(asked) <= Cardinality(d)
    BY <1>3, <2>1, FS_Subset
  <2>3. Cardinality(asked) \in Nat /\ Cardinality(d) \in Nat
    BY <1>3, <2>2, FS_CardinalityType
  <2> HIDE DEF asked
  <2>4. Cardinality(asked) <= o.maxDense
    BY <1>1, <1>3, <2>2, <2>3
  <2> QED
    BY <1>3, <2>1, <2>2, <2>4
<1>5. CASE asked = {}
  <2>1. plan' = plan /\ frames' = frames
    BY <1>5 DEF Denser
  <2>2. FramesAsPlanned'
    BY <1>1, <2>1 DEF FramesAsPlanned, SamplingInv
  <2>3. OnlyEarlier'
    <3>1. round' = "done" \/ \A f \in frames : f.round < Round(round')
      BY <1>1, <1>2 DEF Follows, FrameType, Round
    <3> QED
      BY <2>1, <3>1 DEF OnlyEarlier, Round
  <2>4. round' \in {"base", "cues", "scenes", "text", "done"} /\ round' # "base"
    BY <1>1 DEF Follows
  <2> HIDE DEF d, asked
  <2> QED
    BY <1>1, <2>1, <2>2, <2>3, <2>4 DEF SamplingInv, Length, FrameType
<1>6. CASE asked # {}
  <2>1. /\ frames' = frames \cup S
        /\ plan' = [plan EXCEPT !.times = @ \cup d, !.omitted = @ + DensePlan(plan, hits, o).omitted]
    BY <1>6 DEF Denser
  <2>2. /\ plan'.times = plan.times \cup d /\ plan'.length = plan.length
        /\ plan' = [times |-> plan'.times, length |-> plan'.length, omitted |-> plan'.omitted]
    <3> HIDE DEF d
    <3> QED
      BY <1>2, <2>1
  <2> HIDE DEF d, asked
  <2>3. /\ IsFiniteSet(S) /\ Cardinality(S) <= o.maxDense /\ {f.at : f \in S} = P
        /\ \A f \in S : FrameType(f) /\ f.round = Round(round)
        /\ \A f, g \in S : f.at = g.at => f = g
    BY <1>1, <1>4, SampledFrames
  <2>4. P \subseteq asked /\ ((\A t \in asked : \A n \in length : t <= n) => P = asked)
    BY <1>1, <1>4, <1>6, SampledAll
  <2> HIDE DEF S, P
  <2>5. IsFiniteSet(frames') /\ \A f \in frames' : FrameType(f)
    BY <1>2, <2>1, <2>3, FS_Union
  <2>6. \A f \in S : f.at \in asked
    BY <2>3, <2>4
  <2>7. Planned(frames, plan, length, video)'
    <3>1. \A f \in frames' : f.at \in plan'.times /\ \A n \in plan'.length : f.at <= n
      BY <1>2, <1>3, <1>4, <2>1, <2>2, <2>6 DEF Planned
    <3>2. ASSUME length = video.length
          PROVE  {f.at : f \in frames'} = plan'.times
      <4>1. P = asked
        BY <1>1, <1>3, <1>4, <2>4, <3>2
      <4>2. {f.at : f \in frames} = plan.times
        BY <1>2, <3>2 DEF Planned
      <4>3. {f.at : f \in frames'} = plan.times \cup asked
        BY <2>1, <2>3, <4>1, <4>2
      <4>4. d \subseteq asked \cup plan.times
        BY <4>2 DEF asked, Captured
      <4> QED
        BY <1>4, <2>2, <4>3, <4>4
    <3> QED
      BY <1>1, <3>1, <3>2 DEF Planned
  <2>8. Capped(frames, o)'
    <3> SUFFICES ASSUME NEW r \in 1..4
                 PROVE  Cardinality(OfRound(frames', r)) <= IF r = 1 THEN o.maxFrames ELSE o.maxDense
      BY <1>1 DEF Capped
    <3>1. CASE r = Round(round)
      <4>1. OfRound(frames', r) = S
        BY <1>1, <1>2, <2>1, <2>3, <3>1 DEF OfRound, FrameType
      <4>2. r # 1
        BY <1>1, <3>1
      <4> QED
        BY <2>3, <4>1, <4>2
    <3>2. CASE r # Round(round)
      <4>1. OfRound(frames', r) = OfRound(frames, r)
        BY <2>1, <2>3, <3>2 DEF OfRound
      <4> QED
        BY <1>2, <4>1 DEF Capped
    <3> QED
      BY <3>1, <3>2
  <2>9. Repeated(frames)'
    <3>1. ASSUME NEW f \in S, NEW g \in frames, f.at = g.at
          PROVE  {f.round, g.round} = {1, 2}
      <4>1. g.at \in Captured
        BY DEF Captured
      <4>2. taken = {} /\ round = "cues"
        BY <2>6, <3>1, <4>1 DEF asked
      <4>3. f.round = 2 /\ g.round = 1
        BY <1>1, <1>2, <2>3, <4>2 DEF FrameType, Round
      <4> QED
        BY <4>3
    <3>2. ASSUME NEW f \in frames', NEW g \in frames', f.at = g.at
          PROVE  f.round = g.round \/ {f.round, g.round} = {1, 2}
      <4>1. CASE f \in S /\ g \in S
        BY <2>3, <4>1
      <4>2. CASE f \in S /\ g \in frames
        BY <3>1, <3>2, <4>2
      <4>3. CASE f \in frames /\ g \in S
        <5>1. {g.round, f.round} = {1, 2}
          BY <3>1, <3>2, <4>3
        <5> QED
          BY <5>1
      <4>4. CASE f \in frames /\ g \in frames
        BY <1>2, <3>2, <4>4 DEF Repeated
      <4> QED
        BY <2>1, <4>1, <4>2, <4>3, <4>4
    <3> QED
      BY <3>2 DEF Repeated
  <2>10. OnlyEarlier'
    <3>1. \A f \in frames' : f.round \in Nat /\ f.round <= Round(round)
      BY <1>1, <1>2, <2>1, <2>3 DEF FrameType
    <3>2. round' = "done" \/ \A f \in frames' : f.round < Round(round')
      BY <1>1, <3>1 DEF Follows, Round
    <3> QED
      BY <3>2 DEF OnlyEarlier, Round
  <2>11. round' \in {"base", "cues", "scenes", "text", "done"} /\ round' # "base"
    BY <1>1 DEF Follows
  <2>12. FramesAsPlanned'
    BY <2>7, <2>8, <2>9 DEF FramesAsPlanned, Planned, Capped, OfRound, Repeated
  <2>13. Length(length') /\ video' \in Videos /\ o' \in Samplings /\ plan'.length = video'.length
    BY <1>1, <2>2 DEF SamplingInv
  <2> QED
    BY <2>2, <2>5, <2>10, <2>11, <2>12, <2>13 DEF SamplingInv, Length, FrameType
<1> QED
  BY <1>5, <1>6

-----------------------------------------------------------------------------
\* The scene changes.

\* A pair is as far apart as a number of bits.
PairType(p) == p.d \in Nat /\ p.mid \in Nat /\ p.from \in Nat

\* The distance of two pictures is a number.
LEMMA DistanceType ==
    ASSUME NEW p, IsFiniteSet(p), NEW q, IsFiniteSet(q)
    PROVE  Distance(p, q) \in Nat
<1>1. IsFiniteSet(p \ q) /\ IsFiniteSet(q \ p)
  BY FS_Difference
<1> QED
  BY <1>1, FS_Union, FS_CardinalityType DEF Distance

\* The pairs of neighbouring frames are finitely many.
LEMMA PairsAreFinite ==
    ASSUME NEW fs, IsFiniteSet(fs), \A f \in fs : FrameType(f)
    PROVE  IsFiniteSet(Pairs(fs)) /\ \A p \in Pairs(fs) : PairType(p)
<1> DEFINE fine == {f \in fs : f.ok}
           before(f, g) == f.at < g.at \/ (f.at = g.at /\ f.round < g.round)
           adjacent == {fg \in fine \X fine : /\ before(fg[1], fg[2])
                                            /\ ~\E h \in fine : before(fg[1], h) /\ before(h, fg[2])}
           pair(fg) == [from |-> fg[1].at, to |-> fg[2].at, mid |-> (fg[1].at + fg[2].at + 1) \div 2,
                        d |-> Distance(fg[1].picture, fg[2].picture)]
<1>1. IsFiniteSet(fine) /\ IsFiniteSet(fine \X fine)
  BY FS_Subset, FS_Product
<1>2. IsFiniteSet(adjacent)
  <2>1. adjacent \in SUBSET (fine \X fine)
    OBVIOUS
  <2> HIDE DEF adjacent, fine
  <2> QED
    BY <1>1, <2>1, FS_Subset
<1>3. Pairs(fs) = {pair(fg) : fg \in adjacent}
  BY DEF Pairs
<1>4. Pairs(fs) = Values([fg \in adjacent |-> pair(fg)], adjacent)
  <2> HIDE DEF adjacent, pair
  <2> QED
    BY <1>3 DEF Values
<1>5. ASSUME NEW fg \in adjacent
      PROVE  PairType(pair(fg))
  <2>1. fg[1] \in fs /\ fg[2] \in fs
    OBVIOUS
  <2>2. FrameType(fg[1]) /\ FrameType(fg[2])
    BY <2>1
  <2>3. Distance(fg[1].picture, fg[2].picture) \in Nat
    BY <2>2, DistanceType DEF FrameType
  <2>4. fg[1].at \in Nat /\ fg[2].at \in Nat
    BY <2>2 DEF FrameType
  <2>5. (fg[1].at + fg[2].at + 1) \div 2 \in Nat
    BY <2>4
  <2> HIDE DEF adjacent
  <2> QED
    BY <2>3, <2>4, <2>5 DEF PairType
<1> HIDE DEF adjacent, pair
<1> QED
  BY <1>2, <1>3, <1>4, <1>5, ValuesOf

\* Among pairs there is one that none is stronger than.
LEMMA StrongestOf ==
    ASSUME NEW C, C # {}, IsFiniteSet(C), \A p \in C : PairType(p)
    PROVE  \E p \in C : \A q \in C : ~Stronger(q, p)
<1>1. PICK n \in Values([p \in C |-> p.d], C) : \A k \in Values([p \in C |-> p.d], C) : k <= n
  <2> DEFINE f == [p \in C |-> p.d]
  <2>1. \A p \in C : f[p] \in Nat
    BY DEF PairType
  <2> HIDE DEF f
  <2>2. IsFiniteSet(Values(f, C)) /\ Values(f, C) \subseteq Nat
    BY <2>1, ValuesIn
  <2>3. Values(f, C) # {}
    BY DEF Values
  <2> QED
    BY <2>2, <2>3, MostOf DEF f
<1> DEFINE D == {p \in C : p.d = n}
<1>2. D # {} /\ \A p \in C : p.d <= n
  BY <1>1 DEF Values
<1> DEFINE Mids == {p.mid : p \in D}
<1>3. PICK m \in Mids : \A k \in Mids : m <= k
  <2>1. Mids \in SUBSET Nat /\ Mids # {}
    BY <1>2 DEF PairType
  <2> HIDE DEF Mids
  <2> QED
    BY <2>1, LeastOf
<1> DEFINE M == {p \in D : p.mid = m}
<1>4. M # {}
  BY <1>3
<1> DEFINE Froms == {p.from : p \in M}
<1>5. PICK l \in Froms : \A k \in Froms : l <= k
  <2>1. Froms \in SUBSET Nat /\ Froms # {}
    BY <1>4 DEF PairType
  <2> HIDE DEF Froms
  <2> QED
    BY <2>1, LeastOf
<1>6. PICK p \in M : p.from = l
  BY <1>5
<1>7. ASSUME NEW q \in C
      PROVE  ~Stronger(q, p)
  <2>1. p \in C /\ p.d = n /\ p.mid = m /\ PairType(p) /\ PairType(q) /\ q.d <= n
    BY <1>2, <1>6
  <2>2. q.d = n => m <= q.mid
    BY <1>3
  <2>3. q.d = n /\ q.mid = m => l <= q.from
    BY <1>5
  <2> QED
    BY <1>6, <2>1, <2>2, <2>3 DEF Stronger, PairType
<1> QED
  BY <1>6, <1>7

Rivals(C, p) == {q \in C : Stronger(q, p)}

\* What an analysis is: where there are candidates there are hits.
LEMMA ScenesFound ==
    ASSUME NEW fs, IsFiniteSet(fs), \A f \in fs : FrameType(f), NEW t, NEW max \in Nat \ {0}
    PROVE  LET s == SceneChanges(Pairs(fs), t, max)
           IN  /\ s.pairs = Pairs(fs) /\ s.candidates = {p \in Pairs(fs) : p.d >= t}
               /\ \A p : p \in s.hits <=> p \in s.candidates /\ Cardinality(Rivals(s.candidates, p)) < max
               /\ IsFiniteSet(s.pairs) /\ IsFiniteSet(s.candidates) /\ \A p \in s.pairs : PairType(p)
               /\ s.candidates # {} => s.hits # {}
<1> DEFINE C == {p \in Pairs(fs) : p.d >= t}
           H == {p \in C : Cardinality({q \in C : Stronger(q, p)}) < max}
<1>1. IsFiniteSet(Pairs(fs)) /\ \A p \in Pairs(fs) : PairType(p)
  BY PairsAreFinite
<1>2. C \in SUBSET Pairs(fs) /\ IsFiniteSet(C)
  BY <1>1, FS_Subset
<1>3. SceneChanges(Pairs(fs), t, max) = [pairs |-> Pairs(fs), candidates |-> C, hits |-> H]
  BY DEF SceneChanges
<1>4. C # {} => H # {}
  <2> HIDE DEF C
  <2> SUFFICES ASSUME C # {}
               PROVE  H # {}
    OBVIOUS
  <2>1. PICK p \in C : \A q \in C : ~Stronger(q, p)
    BY <1>1, <1>2, StrongestOf
  <2>2. {q \in C : Stronger(q, p)} = {}
    BY <2>1
  <2>3. Cardinality({q \in C : Stronger(q, p)}) = 0
    BY <2>2, FS_EmptySet
  <2>4. p \in H
    BY <2>3
  <2> QED
    BY <2>4
<1> HIDE DEF C, H
<1> DEFINE s == SceneChanges(Pairs(fs), t, max)
<1>5. s.pairs = Pairs(fs) /\ s.candidates = C /\ s.hits = H
  BY <1>3
<1> HIDE DEF s
<1>6. \A p : p \in s.hits <=> p \in s.candidates /\ Cardinality(Rivals(s.candidates, p)) < max
  BY <1>5 DEF H, Rivals
<1>7. s.candidates = {p \in Pairs(fs) : p.d >= t}
  BY <1>5 DEF C
<1> QED
  BY <1>1, <1>2, <1>4, <1>5, <1>6, <1>7 DEF s

\* The highest and the lowest distance of pairs.
LEMMA HighestIs ==
    ASSUME NEW S, S # {}, IsFiniteSet(S), \A p \in S : PairType(p)
    PROVE  /\ \E p \in S : p.d = Highest(S)
           /\ Highest(S) \in Nat /\ \A p \in S : p.d <= Highest(S)
<1> DEFINE D == {p.d : p \in S}
<1>1. \E d \in D : \A p \in S : p.d <= d
  <2> DEFINE f == [p \in S |-> p.d]
  <2>1. \A p \in S : f[p] \in Nat
    BY DEF PairType
  <2>2. D = Values(f, S) /\ D # {}
    BY DEF Values
  <2>3. \A p \in S : p.d \in D
    OBVIOUS
  <2> HIDE DEF f, D
  <2>4. IsFiniteSet(D) /\ D \subseteq Nat
    BY <2>1, <2>2, ValuesIn
  <2>5. \E d \in D : \A k \in D : k <= d
    BY <2>2, <2>4, MostOf
  <2> QED
    BY <2>3, <2>5
<1>2. Highest(S) \in D /\ \A p \in S : p.d <= Highest(S)
  BY <1>1 DEF Highest
<1> QED
  BY <1>2 DEF PairType

\* The lowest distance is that of a pair.
LEMMA LowestIs ==
    ASSUME NEW S, S # {}, \A p \in S : PairType(p)
    PROVE  /\ \E p \in S : p.d = Lowest(S)
           /\ Lowest(S) \in Nat /\ \A p \in S : p.d >= Lowest(S)
<1> DEFINE D == {p.d : p \in S}
<1>1. \E d \in D : \A p \in S : p.d >= d
  <2>1. D \in SUBSET Nat /\ D # {}
    BY DEF PairType
  <2>2. \A p \in S : p.d \in D
    OBVIOUS
  <2>3. \E d \in D : \A k \in D : d <= k
    BY <2>1, LeastOf
  <2> HIDE DEF D
  <2>4. \A d \in D : d \in Nat
    BY <2>1
  <2> QED
    BY <2>2, <2>3, <2>4
<1>2. Lowest(S) \in D /\ \A p \in S : p.d >= Lowest(S)
  BY <1>1 DEF Lowest
<1> QED
  BY <1>2 DEF PairType

\* Whoever takes the advice gets what it promises.
LEMMA AdviceHolds ==
    ASSUME SamplingInv
    PROVE  ThresholdAdviceWorks
<1> DEFINE Then(t) == SceneChanges(Pairs(frames), t, o.maxHits)
           now == Then(o.threshold)
           omitted == now.candidates \ now.hits
           below == {p \in now.pairs : p.d < o.threshold}
           crowded == omitted # {} /\ Highest(omitted) < MaxDistance
           near == below # {} /\ o.threshold - Highest(below) <= 2
           advice == Advice(now, o.threshold)
<1>1. /\ o.threshold \in Nat \ {0} /\ o.maxHits \in Nat \ {0} /\ MaxDistance \in Nat \ {0}
      /\ IsFiniteSet(frames) /\ \A f \in frames : FrameType(f)
  BY SamplingAssumption DEF SamplingInv
<1>2. ASSUME NEW t
      PROVE  /\ Then(t).pairs = now.pairs /\ Then(t).candidates = {p \in now.pairs : p.d >= t}
             /\ \A p : p \in Then(t).hits <=>
                        p \in Then(t).candidates /\ Cardinality(Rivals(Then(t).candidates, p)) < o.maxHits
             /\ Then(t).candidates # {} => Then(t).hits # {}
  <2>1. now.pairs = Pairs(frames)
    BY <1>1, ScenesFound
  <2>2. Then(t).pairs = Pairs(frames) /\ Then(t).candidates = {p \in Pairs(frames) : p.d >= t}
    BY <1>1, ScenesFound
  <2>3. /\ \A p : p \in Then(t).hits <=>
                   p \in Then(t).candidates /\ Cardinality(Rivals(Then(t).candidates, p)) < o.maxHits
        /\ Then(t).candidates # {} => Then(t).hits # {}
    BY <1>1, ScenesFound
  <2> HIDE DEF now, Then
  <2> QED
    BY <2>1, <2>2, <2>3
<1>3. IsFiniteSet(now.pairs) /\ IsFiniteSet(now.candidates) /\ \A p \in now.pairs : PairType(p)
  BY <1>1, ScenesFound
<1>4. now.candidates = {p \in now.pairs : p.d >= o.threshold} /\ now.hits \subseteq now.candidates
      /\ (now.candidates # {} => now.hits # {})
  BY <1>2
<1> HIDE DEF Then, now
<1>13. \A p \in now.hits : Cardinality(Rivals(now.candidates, p)) < o.maxHits
  <2>1. now = Then(o.threshold)
    BY DEF now
  <2> QED
    BY <1>2, <2>1
<1>5. IsFiniteSet(omitted) /\ omitted \subseteq now.pairs
  <2>1. omitted \in SUBSET now.candidates /\ now.candidates \subseteq now.pairs
    BY <1>4
  <2> HIDE DEF omitted
  <2> QED
    BY <1>3, <2>1, FS_Subset
<1>6. omitted # {} =>
        \E p \in omitted : p.d = Highest(omitted) /\ Highest(omitted) \in Nat
        /\ \A q \in omitted : q.d <= Highest(omitted)
  <2> HIDE DEF omitted
  <2> QED
    BY <1>3, <1>5, HighestIs
<1>7. now.hits # {} =>
        \E p \in now.hits : p.d = Lowest(now.hits) /\ Lowest(now.hits) \in Nat
        /\ \A q \in now.hits : q.d >= Lowest(now.hits)
  BY <1>3, <1>4, LowestIs
<1>8. below # {} =>
        \E p \in below : p.d = Highest(below) /\ Highest(below) \in Nat
        /\ \A q \in below : q.d <= Highest(below)
  <2>1. below \in SUBSET now.pairs
    OBVIOUS
  <2> HIDE DEF below
  <2>2. IsFiniteSet(below)
    BY <1>3, <2>1, FS_Subset
  <2> QED
    BY <1>3, <2>1, <2>2, HighestIs
<1>9. now.pairs # {} => \E p \in now.pairs : p.d = Highest(now.pairs) /\ Highest(now.pairs) \in Nat
                                            /\ \A q \in now.pairs : q.d <= Highest(now.pairs)
  BY <1>3, HighestIs
<1> DEFINE Works(a) ==
        CASE a.kind = "lower" -> Then(a.to).hits # {}
          [] a.kind = "raise" -> Then(a.to).hits = now.hits /\ Then(a.to).candidates = now.hits
          [] a.kind = "near_miss" -> \/ Then(a.to).candidates \ now.candidates # {}
                                     \/ \A p \in now.pairs : p.d < o.threshold => p.d = 0
          [] a.kind = "keep" -> now.candidates = now.hits \/
                 \A t \in 1..MaxDistance : ~(Then(t).hits = now.hits /\ Then(t).candidates = now.hits)
          [] OTHER -> TRUE
<1>10. ThresholdAdviceWorks <=> Works(advice)
  BY DEF ThresholdAdviceWorks, Then, now
<1>11. CASE now.pairs = {} \/ \A p \in now.pairs : p.d = 0
  <2>1. ~\E p \in now.pairs : p.d > 0
    BY <1>11
  <2>2. advice = [kind |-> "none"]
    BY <1>11, <2>1 DEF Advice
  <2> HIDE DEF advice
  <2> QED
    BY <1>10, <2>2
<1>12. ASSUME now.pairs # {}, ~\A p \in now.pairs : p.d = 0
       PROVE  Works(advice)
  <2>1. \E p \in now.pairs : p.d > 0
    BY <1>3, <1>12 DEF PairType
  <2> DEFINE inner == CASE now.hits = {} -> [kind |-> "lower", to |-> Clamped(Highest(now.pairs))]
                        [] now.hits # {} /\ crowded ->
                             IF Highest(omitted) >= Lowest(now.hits) THEN [kind |-> "keep", to |-> Clamped(o.threshold)]
                             ELSE [kind |-> "raise", to |-> Raised(omitted)]
                        [] now.hits # {} /\ ~crowded ->
                             IF near THEN [kind |-> "near_miss", to |-> Clamped(Highest(below))]
                             ELSE [kind |-> "keep", to |-> Clamped(o.threshold)]
  <2>2. advice = inner
    BY <1>12, <2>1 DEF Advice
  <2> HIDE DEF advice
  <2>3. CASE now.hits = {}
    <3>1. advice = [kind |-> "lower", to |-> Clamped(Highest(now.pairs))]
      BY <2>2, <2>3
    <3> DEFINE t == Clamped(Highest(now.pairs))
    <3>2. \E p \in now.pairs : p.d >= t
      BY <1>1, <1>3, <1>9, <2>1 DEF Clamped, PairType
    <3> HIDE DEF t
    <3>3. Then(t).hits # {}
      BY <1>2, <3>2
    <3> QED
      BY <3>1, <3>3 DEF t
  <2>4. ASSUME now.hits # {}, crowded, Highest(omitted) >= Lowest(now.hits)
        PROVE  Works(advice)
    <3>1. advice = [kind |-> "keep", to |-> Clamped(o.threshold)]
      BY <2>2, <2>4
    <3>2. ASSUME NEW t \in 1..MaxDistance, Then(t).candidates = now.hits
          PROVE  FALSE
      <4>1. PICK p \in omitted : p.d = Highest(omitted)
        BY <1>6, <2>4
      <4>2. PICK q \in now.hits : q.d = Lowest(now.hits)
        BY <1>7, <2>4
      <4>3. q.d >= t /\ p \in now.pairs /\ p \notin now.hits /\ PairType(p) /\ PairType(q)
        BY <1>2, <1>3, <1>4, <1>5, <3>2, <4>1, <4>2
      <4>4. p.d >= t
        BY <2>4, <4>1, <4>2, <4>3 DEF PairType
      <4> QED
        BY <1>2, <3>2, <4>3, <4>4
    <3> QED
      BY <3>1, <3>2
  <2>5. ASSUME now.hits # {}, crowded, ~(Highest(omitted) >= Lowest(now.hits))
        PROVE  Works(advice)
    <3> DEFINE t == Highest(omitted) + 1
    <3>1. Highest(omitted) \in Nat /\ \A p \in omitted : p.d <= Highest(omitted) /\ p.d >= o.threshold
      BY <1>4, <1>6, <2>5
    <3>2. Lowest(now.hits) \in Nat /\ \A p \in now.hits : p.d >= Lowest(now.hits)
      BY <1>7, <2>5
    <3>3. Raised(omitted) = t
      BY <1>1, <2>5, <3>1 DEF Raised, Clamped
    <3>4. advice = [kind |-> "raise", to |-> t]
      BY <2>2, <2>5, <3>3
    <3>5. \E p \in omitted : p.d = Highest(omitted)
      BY <1>6, <2>5
    <3>6. o.threshold <= Highest(omitted)
      BY <1>1, <3>1, <3>5
    <3>7. Then(t).candidates = now.hits
      <4>1. ASSUME NEW p \in now.pairs, p.d >= t
            PROVE  p \in now.hits
        <5>1. p.d \in Nat
          BY <1>3 DEF PairType
        <5>2. p \in now.candidates
          BY <1>1, <1>4, <3>1, <3>6, <4>1, <5>1
        <5>3. p \notin omitted
          <6> HIDE DEF omitted
          <6> QED
            BY <3>1, <4>1, <5>1
        <5> QED
          BY <5>2, <5>3
      <4>2. ASSUME NEW p \in now.hits
            PROVE  p \in now.pairs /\ p.d >= t
        <5>1. p \in now.pairs /\ p.d \in Nat
          BY <1>3, <1>4 DEF PairType
        <5> QED
          BY <2>5, <3>1, <3>2, <5>1
      <4> HIDE DEF t
      <4> QED
        BY <1>2, <4>1, <4>2
    <3>8. Then(t).hits = now.hits
      <4> HIDE DEF t
      <4>1. ASSUME NEW p \in now.hits
            PROVE  Cardinality(Rivals(now.hits, p)) < o.maxHits
        <5> DEFINE Fewer == Rivals(now.hits, p)
                   Many == Rivals(now.candidates, p)
        <5>1. Fewer \in SUBSET Many
          BY <1>4 DEF Rivals
        <5>2. Many \in SUBSET now.candidates
          BY DEF Rivals
        <5>3. Cardinality(Many) < o.maxHits
          BY <1>13
        <5> HIDE DEF Fewer, Many
        <5>4. IsFiniteSet(Many) /\ IsFiniteSet(Fewer) /\ Cardinality(Fewer) <= Cardinality(Many)
          BY <1>3, <5>1, <5>2, FS_Subset
        <5>5. Cardinality(Fewer) \in Nat /\ Cardinality(Many) \in Nat
          BY <5>4, FS_CardinalityType
        <5>6. Cardinality(Fewer) < o.maxHits
          BY <1>1, <5>3, <5>4, <5>5
        <5> QED
          BY <5>6 DEF Fewer
      <4>2. \A p : p \in Then(t).hits <=> p \in now.hits /\ Cardinality(Rivals(now.hits, p)) < o.maxHits
        BY <1>2, <3>7
      <4> QED
        BY <4>1, <4>2
    <3> QED
      BY <3>4, <3>7, <3>8
  <2>6. ASSUME now.hits # {}, ~crowded, near
        PROVE  Works(advice)
    <3>1. advice = [kind |-> "near_miss", to |-> Clamped(Highest(below))]
      BY <2>2, <2>6
    <3>2. PICK p \in below : p.d = Highest(below) /\ Highest(below) \in Nat /\ \A q \in below : q.d <= Highest(below)
      BY <1>8, <2>6
    <3>3. CASE Highest(below) = 0
      <4>1. \A q \in now.pairs : q.d < o.threshold => q.d = 0
        BY <1>3, <3>2, <3>3 DEF PairType
      <4> QED
        BY <3>1, <4>1
    <3>4. CASE Highest(below) # 0
      <4>1. p.d >= Clamped(Highest(below)) /\ p \in now.pairs /\ p \notin now.candidates
        BY <1>1, <1>4, <3>2, <3>4 DEF Clamped
      <4>2. p \in Then(Clamped(Highest(below))).candidates
        BY <1>2, <4>1
      <4> QED
        BY <3>1, <4>1, <4>2
    <3> QED
      BY <3>3, <3>4
  <2>7. ASSUME now.hits # {}, ~crowded, ~near
        PROVE  Works(advice)
    <3>1. advice = [kind |-> "keep", to |-> Clamped(o.threshold)]
      BY <2>2, <2>7
    <3>2. CASE omitted = {}
      <4>1. now.candidates = now.hits
        BY <1>4, <3>2
      <4> QED
        BY <3>1, <4>1
    <3>3. CASE omitted # {}
      <4>1. PICK p \in omitted : p.d = Highest(omitted) /\ Highest(omitted) \in Nat
        BY <1>6, <3>3
      <4>2. p.d >= MaxDistance /\ p \in now.pairs /\ p \notin now.hits
        BY <1>1, <1>5, <2>7, <3>3, <4>1
      <4>3. \A t \in 1..MaxDistance : p.d >= t
        BY <1>1, <4>1, <4>2
      <4>4. \A t \in 1..MaxDistance : p \in Then(t).candidates
        BY <1>2, <4>2, <4>3
      <4> QED
        BY <3>1, <4>2, <4>4
    <3> QED
      BY <3>2, <3>3
  <2> QED
    BY <2>3, <2>4, <2>5, <2>6, <2>7
<1> QED
  BY <1>10, <1>11, <1>12

-----------------------------------------------------------------------------
\* The rounds.

\* The invariant holds before the first round.
LEMMA SamplingBegins == SamplingInit => SamplingInv
<1> SUFFICES ASSUME SamplingInit
             PROVE  SamplingInv
  OBVIOUS
<1>1. FramesAsPlanned
  <2>1. Planned(frames, plan, length, video) /\ Repeated(frames)
    BY DEF SamplingInit, Planned, Repeated
  <2>2. Capped(frames, o)
    <3>1. \A r \in 1..4 : OfRound(frames, r) = {}
      BY DEF SamplingInit, OfRound
    <3>2. o.maxFrames \in Nat /\ o.maxDense \in Nat
      BY SamplingAssumption DEF SamplingInit
    <3> QED
      BY <3>1, <3>2, FS_EmptySet DEF Capped
  <2> QED
    BY <2>1, <2>2, AsPlanned
<1>2. Length(length)
  BY SamplingAssumption DEF SamplingInit, Length
<1> QED
  BY <1>1, <1>2, FS_EmptySet DEF SamplingInit, SamplingInv, OnlyEarlier

\* Each round keeps the invariant.
LEMMA BaseKeeps == SamplingInv /\ BaseRound => SamplingInv'
<1> SUFFICES ASSUME SamplingInv, BaseRound
             PROVE  SamplingInv'
  OBVIOUS
<1> DEFINE p == TimestampPlan(o.times, length, o.stride, o.maxFrames)
           S == Sampled(o.times, o.maxFrames)
<1>1. /\ o.times \in SUBSET Nat /\ IsFiniteSet(o.times) /\ o.maxFrames \in Nat /\ o.maxDense \in Nat
      /\ o.stride \in Nat \ {0} /\ Length(length) /\ length = video.length /\ round = "base" /\ Round(round) = 1
  BY SamplingAssumption DEF SamplingInv, BaseRound, Round
<1>2. /\ IsFiniteSet(S) /\ Cardinality(S) <= o.maxFrames /\ {f.at : f \in S} = p.times
      /\ \A f \in S : FrameType(f) /\ f.round = 1
      /\ \A f, g \in S : f.at = g.at => f = g
  BY <1>1, SampledFrames
<1>3. /\ \A t \in p.times : \A n \in length : t <= n
      /\ p = [times |-> p.times, length |-> length, omitted |-> p.omitted] /\ p.length = length
  BY <1>1, PlannedTimes
<1>4. /\ plan' = p /\ frames' = S /\ round' \in {"cues", "done"} /\ video' = video /\ o' = o /\ length' = length
  BY DEF BaseRound
<1> HIDE DEF p, S
<1>5. FramesAsPlanned'
  <2>1. \A f \in S : f.at \in p.times
    BY <1>2
  <2>2. Planned(frames, plan, length, video)'
    BY <1>2, <1>3, <1>4, <2>1 DEF Planned
  <2>3. Repeated(frames)'
    BY <1>2, <1>4 DEF Repeated
  <2>4. Capped(frames, o)'
    <3>1. OfRound(S, 1) = S /\ \A r \in 2..4 : OfRound(S, r) = {}
      BY <1>2 DEF OfRound
    <3>2. \A r \in 1..4 : r = 1 \/ r \in 2..4
      OBVIOUS
    <3>3. \A r \in 1..4 : Cardinality(OfRound(S, r)) <= IF r = 1 THEN o.maxFrames ELSE o.maxDense
      <4>1. Cardinality(OfRound(S, 1)) <= o.maxFrames
        BY <1>2, <3>1
      <4>2. \A r \in 2..4 : Cardinality(OfRound(S, r)) = 0
        BY <3>1, FS_EmptySet
      <4>3. 0 <= o.maxDense /\ \A r \in 2..4 : r # 1
        BY <1>1
      <4> QED
        BY <3>2, <4>1, <4>2, <4>3
    <3> QED
      BY <1>4, <3>3 DEF Capped
  <2> QED
    BY <2>2, <2>3, <2>4 DEF FramesAsPlanned, Planned, Capped, OfRound, Repeated
<1>6. OnlyEarlier'
  BY <1>2, <1>4 DEF OnlyEarlier, Round
<1> QED
  BY <1>1, <1>2, <1>3, <1>4, <1>5, <1>6 DEF SamplingInv, Length, FrameType

\* So does the round around the cues,
LEMMA CuesKeep == SamplingInv /\ CueRound => SamplingInv'
<1> SUFFICES ASSUME SamplingInv, CueRound
             PROVE  SamplingInv'
  OBVIOUS
<1> DEFINE seen == {c \in video.cues : \E f \in frames : c[1] <= f.at /\ f.at <= c[2]}
           hits == {c[1] : c \in seen}
<1>1. hits \in SUBSET Nat /\ IsFiniteSet(hits)
  <2>1. IsFiniteSet(video.cues) /\ \A c \in video.cues : c[1] \in Nat
    BY SamplingAssumption DEF SamplingInv
  <2>2. seen \in SUBSET video.cues
    OBVIOUS
  <2> HIDE DEF seen
  <2> DEFINE f == [c \in seen |-> c[1]]
  <2>3. IsFiniteSet(seen) /\ hits = Values(f, seen) /\ \A c \in seen : f[c] \in Nat
    BY <2>1, <2>2, FS_Subset DEF Values
  <2> HIDE DEF f, hits
  <2> QED
    BY <2>3, ValuesIn
<1>2. Denser(hits, {}, "scenes") /\ round = "cues" /\ UNCHANGED <<video, o, length>>
  BY DEF CueRound
<1> HIDE DEF hits
<1>3. Follows(round, "scenes")
  BY <1>2 DEF Follows, Round
<1> QED
  BY <1>1, <1>2, <1>3, DenserKeeps

\* the one around changes of scene,
LEMMA ScenesKeep == SamplingInv /\ SceneRound => SamplingInv'
<1> SUFFICES ASSUME SamplingInv, SceneRound
             PROVE  SamplingInv'
  OBVIOUS
<1> DEFINE scenes == SceneChanges(Pairs(frames), o.threshold, o.maxHits)
           hits == {p.mid : p \in scenes.hits}
<1>1. hits \in SUBSET Nat /\ IsFiniteSet(hits)
  <2>1. o.maxHits \in Nat \ {0} /\ IsFiniteSet(frames) /\ \A f \in frames : FrameType(f)
    BY SamplingAssumption DEF SamplingInv
  <2>2. /\ IsFiniteSet(scenes.candidates) /\ scenes.hits \in SUBSET scenes.candidates
        /\ \A p \in scenes.candidates : PairType(p)
    <3>1. scenes.pairs = Pairs(frames) /\ scenes.candidates = {p \in Pairs(frames) : p.d >= o.threshold}
      BY <2>1, ScenesFound
    <3>2. \A p : p \in scenes.hits => p \in scenes.candidates
      BY <2>1, ScenesFound
    <3>3. IsFiniteSet(scenes.candidates) /\ \A p \in scenes.pairs : PairType(p)
      BY <2>1, ScenesFound
    <3> HIDE DEF scenes
    <3> QED
      BY <3>1, <3>2, <3>3
  <2> HIDE DEF scenes
  <2> DEFINE f == [p \in scenes.hits |-> p.mid]
  <2>3. IsFiniteSet(scenes.hits) /\ hits = Values(f, scenes.hits) /\ \A p \in scenes.hits : f[p] \in Nat
    BY <2>2, FS_Subset DEF Values, PairType
  <2> HIDE DEF f, hits
  <2> QED
    BY <2>3, ValuesIn
<1>2. Denser(hits, Captured, "text") /\ round = "scenes" /\ UNCHANGED <<video, o, length>>
  BY DEF SceneRound
<1> HIDE DEF hits
<1>3. Follows(round, "text")
  BY <1>2 DEF Follows, Round
<1> QED
  BY <1>1, <1>2, <1>3, DenserKeeps

\* the one around visible text,
LEMMA TextKeeps == SamplingInv /\ TextRound => SamplingInv'
<1> SUFFICES ASSUME SamplingInv, TextRound
             PROVE  SamplingInv'
  OBVIOUS
<1> DEFINE hits == {f.at : f \in {g \in frames : g.ok}} \cap video.text
<1>1. hits \in SUBSET Nat /\ IsFiniteSet(hits)
  <2> DEFINE f == [g \in frames |-> g.at]
  <2>1. IsFiniteSet(frames) /\ \A g \in frames : f[g] \in Nat
    BY DEF SamplingInv, FrameType
  <2>2. hits \in SUBSET Values(f, frames)
    BY DEF Values
  <2> HIDE DEF f, hits
  <2>3. IsFiniteSet(Values(f, frames)) /\ Values(f, frames) \subseteq Nat
    BY <2>1, ValuesIn
  <2> QED
    BY <2>2, <2>3, FS_Subset
<1>2. Denser(hits, Captured, "done") /\ round = "text" /\ UNCHANGED <<video, o, length>>
  BY DEF TextRound
<1> HIDE DEF hits
<1>3. Follows(round, "done")
  BY <1>2 DEF Follows
<1> QED
  BY <1>1, <1>2, <1>3, DenserKeeps

\* So does a player that learns the film's length.
LEMMA LengthKeeps == SamplingInv /\ LengthChanges => SamplingInv'
<1> SUFFICES ASSUME SamplingInv, LengthChanges
             PROVE  SamplingInv'
  OBVIOUS
<1>1. /\ video' = video /\ o' = o /\ round' = round /\ plan' = plan /\ frames' = frames
      /\ round # "base" /\ length = video.length
  BY DEF LengthChanges
<1>2. Length(length') /\ length' # video.length
  <2>1. CASE length \in {{}, {0}}
    <3>1. length' = {5}
      BY <2>1 DEF LengthChanges
    <3> QED
      BY <1>1, <2>1, <3>1 DEF Length
  <2>2. CASE length \notin {{}, {0}}
    <3>1. PICK n \in Nat : length = {n} /\ n # 0
      BY <2>2 DEF SamplingInv, Length
    <3>2. length' = {n - 1}
      BY <2>2, <3>1 DEF LengthChanges
    <3> QED
      BY <1>1, <3>1, <3>2 DEF Length
  <2> QED
    BY <2>1, <2>2
<1>3. FramesAsPlanned'
  <2>1. Planned(frames, plan, length, video) /\ Capped(frames, o) /\ Repeated(frames)
    BY AsPlanned DEF SamplingInv
  <2>2. Planned(frames', plan', length', video')
    BY <1>1, <1>2, <2>1 DEF Planned
  <2> QED
    BY <1>1, <2>1, <2>2 DEF FramesAsPlanned, Planned, Capped, OfRound, Repeated
<1>4. OnlyEarlier'
  BY <1>1 DEF SamplingInv, OnlyEarlier, Round
<1> QED
  BY <1>1, <1>2, <1>3, <1>4 DEF SamplingInv, FrameType

SamplingSpec == SamplingInit /\ [][SamplingNext]_samplingVars

\* For every film, player and set of options: every frame was planned, no round
\* goes over its cap, only the cue round samples a moment again, and the advice
\* about the threshold does what it promises.
\* (frame-sampler.ts:194-288, 409-469, evidence-runner.ts:719-886, 1546-1631)
THEOREM SamplingAlwaysKeepsPromises == SamplingSpec => []SamplingKeepsPromises
<1>1. SamplingInv /\ [SamplingNext]_samplingVars => SamplingInv'
  <2> SUFFICES ASSUME SamplingInv, [SamplingNext]_samplingVars
               PROVE  SamplingInv'
    OBVIOUS
  <2>1. CASE SamplingNext
    BY <2>1, BaseKeeps, CuesKeep, ScenesKeep, TextKeeps, LengthKeeps DEF SamplingNext
  <2>2. CASE UNCHANGED samplingVars
    <3>1. /\ video' = video /\ o' = o /\ length' = length /\ round' = round /\ plan' = plan /\ frames' = frames
      BY <2>2 DEF samplingVars
    <3> QED
      BY <3>1 DEF SamplingInv, OnlyEarlier, FramesAsPlanned, Round, Length, FrameType
  <2> QED
    BY <2>1, <2>2
<1>2. SamplingInv => SamplingKeepsPromises
  BY AdviceHolds DEF SamplingKeepsPromises, SamplingInv
<1> QED
  BY <1>1, <1>2, SamplingBegins, PTL DEF SamplingSpec

-----------------------------------------------------------------------------
(* What follows a search.                                                  *)

\* What was not seen is listed once.
LEMMA UnseenIsNew ==
    ASSUME NEW list, Sequential(list), NEW seen_
    PROVE  LET t == Unseen(list, seen_)
           IN  /\ Extracted(t, list)
               /\ \A n \in DOMAIN t : t[n].url \notin seen_
               /\ \A n, m \in DOMAIN t : n # m => t[n].url # t[m].url
<1> DEFINE first(i) == list[i].url \notin seen_ /\ \A k \in 1..(i - 1) : list[k].url # list[i].url
           S == {i \in DOMAIN list : first(i)}
           t == Unseen(list, seen_)
<1>1. t = Chosen(list, S)
  BY Zenon DEF Unseen
<1>2. S \subseteq DOMAIN list /\ \A i \in S : list[i].url \notin seen_
  OBVIOUS
<1>3. \A i, k \in S : i # k => list[i].url # list[k].url
  <2> SUFFICES ASSUME NEW i \in S, NEW k \in S, i < k
               PROVE  list[i].url # list[k].url
    <3>1. \A i, k \in S : i # k => i < k \/ k < i
      BY Places
    <3> HIDE DEF S
    <3> QED
      BY <3>1
  <2>1. i \in 1..(k - 1)
    BY Places
  <2> QED
    BY <2>1
<1> HIDE DEF S
<1> QED
  BY <1>1, <1>2, <1>3, ChosenIsExtracted

-----------------------------------------------------------------------------
\* The ids of arms and of candidates.

DistinctIds(list) == \A n, m \in DOMAIN list : n # m => list[n].id # list[m].id

\* The arms of an intent have different ids.
LEMMA TableIds ==
    ASSUME NEW intent
    PROVE  Sequential(ArmTable(intent)) /\ DistinctIds(ArmTable(intent))
<1> DEFINE table == ArmTable(intent)
           x == IF "korean" \in intent.wants THEN "korean_community_review" ELSE "community_review"
<1>1. /\ table[1].id = "current_surface" /\ table[2].id = "naver_view_review"
      /\ table[3].id = "naver_image_visual" /\ table[4].id = "google_cross_check"
      /\ table[5].id = "official_source_probe" /\ table[6].id = x
      /\ table[7].id = "youtube_video" /\ table[8].id = "tiktok_public_lead"
      /\ table[9].id = "x_threads_public_lead" /\ table[10].id = "dissent_probe"
  BY DEF ArmTable, Arm
<1>2. table = [i \in 1..10 |-> table[i]]
  BY DEF ArmTable
<1>3. x \in {"korean_community_review", "community_review"}
  OBVIOUS
<1> HIDE DEF table, x
<1>4. Sequential(table)
  BY <1>2, Listed
<1>5. DistinctIds(table)
  <2>1. \A n, m \in 1..10 : n # m => table[n].id # table[m].id
    BY <1>1, <1>3
  <2> QED
    BY <1>2, <2>1 DEF DistinctIds
<1> QED
  BY <1>4, <1>5 DEF table

\* What is extracted keeps its distinct ids.
LEMMA IdsStayDistinct ==
    ASSUME NEW s, NEW t, Extracted(t, s), DistinctIds(s)
    PROVE  DistinctIds(t)
  BY DEF Extracted, DistinctIds

\* So have the arms of the strategy planned for it.
LEMMA ArmsOfStrategy ==
    ASSUME NEW intent
    PROVE  Sequential(PlanArms(intent)) /\ DistinctIds(PlanArms(intent))
<1> DEFINE table == ArmTable(intent)
           W == {i \in DOMAIN table : table[i].wanted}
           arms == Chosen(table, W)
           plan_ == PlanArms(intent)
<1>1. Sequential(table) /\ DistinctIds(table)
  BY TableIds
<1>2. plan_ = [i \in DOMAIN arms |-> [id |-> arms[i].id, status |-> arms[i].status,
                                      url |-> <<arms[i].engine, arms[i].added \ intent.words>>]]
  BY DEF PlanArms
<1>3. W \subseteq DOMAIN table
  OBVIOUS
<1> HIDE DEF table, W, plan_
<1>4. Extracted(arms, table)
  BY <1>1, <1>3, ChosenIsExtracted
<1> HIDE DEF arms
<1>5. Sequential(arms) /\ DistinctIds(arms) /\ DOMAIN arms = 1..Len(arms) /\ Len(arms) \in Nat
  BY <1>1, <1>4, IdsStayDistinct, Places DEF Extracted
<1>6. DOMAIN plan_ = DOMAIN arms /\ \A i \in DOMAIN arms : plan_[i].id = arms[i].id
  BY <1>2
<1>7. plan_ = [i \in 1..Len(arms) |-> plan_[i]]
  BY <1>2, <1>5, <1>6
<1>8. Sequential(plan_)
  BY <1>5, <1>7, Listed
<1>9. DistinctIds(plan_)
  BY <1>5, <1>6 DEF DistinctIds
<1> QED
  BY <1>8, <1>9 DEF plan_

\* The decisions of a ledger are ranked by their places.
LEMMA DecisionsOfPage ==
    ASSUME NEW page \in Pages
    PROVE  LET list == PlanLedger(page, 3).decisions
           IN  /\ Sequential(list)
               /\ \A i \in DOMAIN list : list[i].rank = i
<1> DEFINE list == PlanLedger(page, 3).decisions
           decision(i) == [rank |-> i, url |-> page[i].url, selected |-> i \in SelectedResults(page, 3),
                           walled |-> "wall" \in page[i].marks,
                           next |-> NextAction(page, i, i \in SelectedResults(page, 3))]
<1>1. list = [i \in DOMAIN page |-> decision(i)]
  BY DEF PlanLedger
<1>2. DOMAIN list = DOMAIN page /\ \A i \in DOMAIN list : list[i].rank = i
  BY <1>1
<1>3. Sequential(page)
  BY FollowupsAssumption DEF Sequential
<1>4. DOMAIN page = 1..Len(page) /\ Len(page) \in Nat
  BY <1>3, Places
<1> HIDE DEF decision
<1>5. list = [i \in 1..Len(page) |-> list[i]]
  BY <1>1, <1>2, <1>4
<1> HIDE DEF list
<1>6. Sequential(list)
  BY <1>4, <1>5, Listed
<1> QED
  BY <1>2, <1>6 DEF list

Reported(list) ==
    /\ Sequential(list)
    /\ \A n \in DOMAIN list : list[n] \in Reports

\* The latest report of a kind is a strategy or a ledger that was planned.
LEMMA LatestReport ==
    ASSUME NEW list, Reported(list), NEW kind \in {"strategy", "ledger"}
    PROVE  LET report == Latest(list, kind)
           IN  \/ report = None
               \/ kind = "strategy" /\ \E i \in Intents : report = PlanArms(i)
               \/ kind = "ledger" /\ \E p \in Pages : report = PlanLedger(p, 3)
<1> DEFINE readable == {n \in DOMAIN list : list[n].kind = kind /\ list[n].report # None}
           newest == CHOOSE n \in readable : \A k \in readable : k <= n
<1>1. Latest(list, kind) = IF readable = {} THEN None ELSE list[newest].report
  BY Zenon DEF Latest
<1>2. CASE readable = {}
  BY <1>1, <1>2
<1>3. CASE readable # {}
  <2>1. DOMAIN list = 1..Len(list) /\ Len(list) \in Nat
    BY Places DEF Reported
  <2>2. readable \in SUBSET Nat /\ IsFiniteSet(readable)
    <3>1. IsFiniteSet(1..Len(list)) /\ readable \in SUBSET (1..Len(list))
      BY <2>1, FS_Interval
    <3> HIDE DEF readable
    <3>2. IsFiniteSet(readable)
      BY <3>1, FS_Subset
    <3>3. 1..Len(list) \subseteq Nat
      BY <2>1
    <3> QED
      BY <3>1, <3>2, <3>3
  <2>3. \E n \in readable : \A k \in readable : k <= n
    <3> HIDE DEF readable
    <3> QED
      BY <1>3, <2>2, MostOf
  <2>4. newest \in readable
    <3> HIDE DEF readable
    <3> QED
      BY <2>3
  <2> HIDE DEF newest
  <2>5. list[newest] \in Reports /\ list[newest].kind = kind /\ list[newest].report # None
    BY <2>4 DEF Reported
  <2>6. Latest(list, kind) = list[newest].report
    BY <1>1, <1>3
  <2> HIDE DEF readable
  <2> QED
    BY <2>5, <2>6 DEF Reports
<1> QED
  BY <1>2, <1>3

-----------------------------------------------------------------------------
\* The plan.

\* What a plan promises of its items.
PlanFits(p, total) ==
    /\ Sequential(p.items) /\ Len(p.items) <= total
    /\ \A n, m \in DOMAIN p.items : n # m =>
          p.items[n].url # p.items[m].url /\ p.items[n].id # p.items[m].id
    /\ \A n \in DOMAIN p.items : p.items[n].action = "run_evidence" => p.items[n].id \notin p.walls

\* The arms that can be run are arms of the strategy.
LEMMA RunnableArms ==
    ASSUME NEW strategy, strategy = None \/ \E i \in Intents : strategy = PlanArms(i)
    PROVE  Sequential(Runnable(strategy)) /\ DistinctIds(Runnable(strategy))
<1>1. CASE strategy = None
  <2>1. Runnable(strategy) = <<>> /\ DOMAIN <<>> = {}
    BY <1>1 DEF Runnable
  <2>2. Sequential(<<>>)
    BY EmptySeq DEF Sequential
  <2> QED
    BY <2>1, <2>2 DEF DistinctIds
<1>2. CASE strategy # None
  <2>1. Sequential(strategy) /\ DistinctIds(strategy)
    BY <1>2, ArmsOfStrategy
  <2> DEFINE S == {i \in DOMAIN strategy : strategy[i].id # "current_surface" /\ strategy[i].status = "try"}
  <2>2. Runnable(strategy) = Chosen(strategy, S)
    BY <1>2 DEF Runnable
  <2>3. S \subseteq DOMAIN strategy
    OBVIOUS
  <2> HIDE DEF S
  <2>4. Extracted(Runnable(strategy), strategy)
    BY <2>1, <2>2, <2>3, ChosenIsExtracted
  <2> QED
    BY <2>1, <2>4, IdsStayDistinct DEF Extracted
<1> QED
  BY <1>1, <1>2

\* The results that can be opened are extracted from the ledger.
LEMMA OpenableDecisions ==
    ASSUME NEW page \in Pages
    PROVE  Extracted(Openable(PlanLedger(page, 3)), PlanLedger(page, 3).decisions)
           \/ Openable(PlanLedger(page, 3)) = <<>>
<1> DEFINE ledger_ == PlanLedger(page, 3)
           S == {i \in DOMAIN ledger_.decisions : ledger_.decisions[i].selected}
<1>1. Openable(ledger_) = <<>> \/ Openable(ledger_) = Chosen(ledger_.decisions, S)
  BY DEF Openable
<1>2. Sequential(ledger_.decisions)
  BY DecisionsOfPage
<1>3. S \subseteq DOMAIN ledger_.decisions
  OBVIOUS
<1> HIDE DEF ledger_, S
<1> QED
  BY <1>1, <1>2, <1>3, ChosenIsExtracted DEF ledger_

\* What is extracted from an extract is extracted.
LEMMA ExtractedTwice ==
    ASSUME NEW s, NEW t, NEW u, Extracted(t, s), Extracted(u, t)
    PROVE  Extracted(u, s)
<1>1. \A n \in DOMAIN u : \E i \in DOMAIN s : u[n] = s[i]
  BY DEF Extracted
<1>2. ASSUME NEW n \in DOMAIN u, NEW m \in DOMAIN u, n # m
      PROVE  \E i, k \in DOMAIN s : i # k /\ u[n] = s[i] /\ u[m] = s[k]
  <2>1. PICK i \in DOMAIN t, k \in DOMAIN t : i # k /\ u[n] = t[i] /\ u[m] = t[k]
    BY <1>2 DEF Extracted
  <2>2. PICK x \in DOMAIN s, y \in DOMAIN s : x # y /\ t[i] = s[x] /\ t[k] = s[y]
    BY <2>1 DEF Extracted
  <2> QED
    BY <2>1, <2>2
<1> QED
  BY <1>1, <1>2 DEF Extracted

\* The results of a ledger that a plan opens are some of its selected ones,
\* each once.
Openings(list, decisions, seen_) ==
    /\ Sequential(list)
    /\ \A n \in DOMAIN list : list[n].url \notin seen_ /\ \E i \in DOMAIN decisions : list[n] = decisions[i]
    /\ \A n, m \in DOMAIN list : n # m => list[n].url # list[m].url /\ list[n].rank # list[m].rank

\* The results that are opened are new, each once, and none is behind a wall.
LEMMA OpenedResults ==
    ASSUME NEW page \in Pages, NEW seen_
    PROVE  Openings(Unseen(Openable(PlanLedger(page, 3)), seen_), PlanLedger(page, 3).decisions, seen_)
<1> DEFINE decisions == PlanLedger(page, 3).decisions
           openable == Openable(PlanLedger(page, 3))
           list == Unseen(openable, seen_)
<1>1. Sequential(decisions) /\ \A i \in DOMAIN decisions : decisions[i].rank = i
  BY DecisionsOfPage
<1>2. Extracted(openable, decisions) \/ openable = <<>>
  BY OpenableDecisions
<1> HIDE DEF decisions, openable
<1>3. Extracted(openable, decisions)
  <2>1. Sequential(<<>>) /\ DOMAIN <<>> = {}
    BY EmptySeq DEF Sequential
  <2> QED
    BY <1>2, <2>1 DEF Extracted
<1>4. /\ Extracted(list, openable)
      /\ \A n \in DOMAIN list : list[n].url \notin seen_
      /\ \A n, m \in DOMAIN list : n # m => list[n].url # list[m].url
  BY <1>3, UnseenIsNew DEF Extracted
<1> HIDE DEF list
<1>5. Extracted(list, decisions)
  BY <1>3, <1>4, ExtractedTwice
<1>6. \A n, m \in DOMAIN list : n # m => list[n].rank # list[m].rank
  BY <1>1, <1>5 DEF Extracted
<1> QED
  BY <1>4, <1>5, <1>6 DEF Openings, Extracted, list, openable, decisions

\* So every plan fits the limits it was made for.
LEMMA PlansFit ==
    ASSUME NEW list, Reported(list), NEW limits \in Limits
    PROVE  PlanFits(BuildPlan(list, limits), limits.total)
<1> DEFINE strategy == Latest(list, "strategy")
           ledger_ == Latest(list, "ledger")
           arms == IF limits.arms = 0 THEN <<>> ELSE Unseen(Runnable(strategy), {})
           used == {arms[i].url : i \in DOMAIN arms}
           opened_ == Unseen(Openable(ledger_), used)
           A == [i \in DOMAIN Take(arms, limits.arms) |-> ArmItem(arms[i])]
           C == [i \in DOMAIN Take(opened_, limits.candidates) |-> CandidateItem(opened_[i])]
           items == Take(A \o C, limits.total)
           walls == IF ledger_ = None THEN {}
                    ELSE {CandidateId(ledger_.decisions[i]) :
                             i \in {k \in DOMAIN ledger_.decisions : ledger_.decisions[k].walled}}
<1>1. BuildPlan(list, limits).items = items /\ BuildPlan(list, limits).walls = walls
  BY Zenon DEF BuildPlan
<1>2. limits.arms \in Nat /\ limits.candidates \in Nat /\ limits.total \in Nat
  BY FollowupsAssumption
<1>3. strategy = None \/ \E i \in Intents : strategy = PlanArms(i)
  BY LatestReport
<1>4. ledger_ = None \/ \E p \in Pages : ledger_ = PlanLedger(p, 3)
  BY LatestReport
<1>5. Sequential(<<>>) /\ DOMAIN <<>> = {}
  BY EmptySeq DEF Sequential
<1> HIDE DEF strategy, ledger_
<1>6. /\ Sequential(arms) /\ DistinctIds(arms)
      /\ \A n, m \in DOMAIN arms : n # m => arms[n].url # arms[m].url
  <2>1. CASE limits.arms = 0
    BY <1>5, <2>1 DEF DistinctIds
  <2>2. CASE limits.arms # 0
    <3>1. Sequential(Runnable(strategy)) /\ DistinctIds(Runnable(strategy))
      BY <1>3, RunnableArms
    <3>2. /\ Extracted(arms, Runnable(strategy))
          /\ \A n, m \in DOMAIN arms : n # m => arms[n].url # arms[m].url
      BY <2>2, <3>1, UnseenIsNew
    <3> QED
      BY <3>1, <3>2, IdsStayDistinct DEF Extracted
  <2> QED
    BY <2>1, <2>2
<1>7. \/ ledger_ = None /\ Openings(opened_, <<>>, used)
      \/ /\ ledger_ # None /\ Openings(opened_, ledger_.decisions, used)
         /\ \A i \in DOMAIN ledger_.decisions : ledger_.decisions[i].rank = i
  <2>1. CASE ledger_ = None
    <3>1. Openable(ledger_) = <<>>
      BY <2>1 DEF Openable
    <3>2. Extracted(opened_, <<>>)
      BY <1>5, <3>1, UnseenIsNew
    <3>3. DOMAIN opened_ = {}
      BY <1>5, <3>2 DEF Extracted
    <3> HIDE DEF opened_, used
    <3> QED
      BY <2>1, <3>2, <3>3 DEF Openings, Extracted
  <2>2. CASE ledger_ # None
    <3>1. PICK p \in Pages : ledger_ = PlanLedger(p, 3)
      BY <1>4, <2>2
    <3> HIDE DEF used
    <3> QED
      BY <2>2, <3>1, OpenedResults, DecisionsOfPage
  <2> QED
    BY <2>1, <2>2
<1> HIDE DEF arms, opened_, walls
<1>8. /\ Sequential(A) /\ \A i \in DOMAIN A : i \in DOMAIN arms /\ A[i] = ArmItem(arms[i])
  <2> DEFINE t == Take(arms, limits.arms)
  <2>1. Sequential(t) /\ \A i \in DOMAIN t : i \in DOMAIN arms
    BY <1>2, <1>6, Taking
  <2>2. A = [i \in DOMAIN t |-> ArmItem(arms[i])]
    OBVIOUS
  <2> HIDE DEF t, A
  <2>3. DOMAIN t = 1..Len(t) /\ Len(t) \in Nat
    BY <2>1, Places
  <2>4. DOMAIN A = DOMAIN t /\ \A i \in DOMAIN t : A[i] = ArmItem(arms[i])
    BY <2>2
  <2>5. A = [i \in 1..Len(t) |-> A[i]]
    BY <2>2, <2>3, <2>4
  <2>6. Sequential(A)
    BY <2>3, <2>5, Listed
  <2> QED
    BY <2>1, <2>4, <2>6
<1>9. /\ Sequential(C) /\ \A i \in DOMAIN C : i \in DOMAIN opened_ /\ C[i] = CandidateItem(opened_[i])
  <2> DEFINE t == Take(opened_, limits.candidates)
  <2>0. Sequential(opened_)
    BY <1>7 DEF Openings
  <2>1. Sequential(t) /\ \A i \in DOMAIN t : i \in DOMAIN opened_
    BY <1>2, <2>0, Taking
  <2>2. C = [i \in DOMAIN t |-> CandidateItem(opened_[i])]
    OBVIOUS
  <2> HIDE DEF t, C
  <2>3. DOMAIN t = 1..Len(t) /\ Len(t) \in Nat
    BY <2>1, Places
  <2>4. DOMAIN C = DOMAIN t /\ \A i \in DOMAIN t : C[i] = CandidateItem(opened_[i])
    BY <2>2
  <2>5. C = [i \in 1..Len(t) |-> C[i]]
    BY <2>2, <2>3, <2>4
  <2>6. Sequential(C)
    BY <2>3, <2>5, Listed
  <2> QED
    BY <2>1, <2>4, <2>6
<1> DEFINE J == A \o C
           last == Len(A)
<1>10. /\ Sequential(J) /\ last \in Nat
       /\ \A n \in DOMAIN J : n \in Nat /\
             \/ n \in DOMAIN arms /\ J[n] = ArmItem(arms[n])
             \/ n - last \in DOMAIN opened_ /\ J[n] = CandidateItem(opened_[n - last])
  <2> HIDE DEF A, C
  <2>1. /\ Sequential(J)
        /\ \A i \in DOMAIN J : \/ i \in DOMAIN A /\ J[i] = A[i]
                               \/ i \notin DOMAIN A /\ i - last \in DOMAIN C /\ J[i] = C[i - last]
    BY <1>8, <1>9, Joining
  <2>2. last \in Nat
    BY <1>8, Places
  <2> HIDE DEF J, last
  <2>3. DOMAIN J \subseteq Nat
    <3>1. DOMAIN J = 1..Len(J) /\ Len(J) \in Nat
      BY <2>1, Places
    <3> QED
      BY <3>1
  <2> QED
    BY <1>8, <1>9, <2>1, <2>2, <2>3
<1>11. \A i, k \in DOMAIN arms : i # k => arms[i].url # arms[k].url /\ arms[i].id # arms[k].id
  BY <1>6 DEF DistinctIds
<1>12. /\ \A i, k \in DOMAIN opened_ : i # k => opened_[i].url # opened_[k].url /\ opened_[i].rank # opened_[k].rank
       /\ \A i \in DOMAIN arms, k \in DOMAIN opened_ : arms[i].url # opened_[k].url
  BY <1>7 DEF Openings, used
<1>13. \A k \in DOMAIN opened_ : CandidateId(opened_[k]) \in walls => opened_[k].walled
  <2> SUFFICES ASSUME NEW k \in DOMAIN opened_, CandidateId(opened_[k]) \in walls
               PROVE  opened_[k].walled
    OBVIOUS
  <2>1. ledger_ # None
    BY DEF walls
  <2>2. /\ \E i \in DOMAIN ledger_.decisions : opened_[k] = ledger_.decisions[i]
        /\ \A i \in DOMAIN ledger_.decisions : ledger_.decisions[i].rank = i
    BY <1>7, <2>1 DEF Openings
  <2>3. PICK i \in DOMAIN ledger_.decisions : opened_[k] = ledger_.decisions[i]
    BY <2>2
  <2>4. PICK j \in DOMAIN ledger_.decisions :
          ledger_.decisions[j].walled /\ CandidateId(opened_[k]) = CandidateId(ledger_.decisions[j])
    BY <2>1 DEF walls
  <2>5. opened_[k].rank = i /\ ledger_.decisions[j].rank = j
    BY <2>2, <2>3
  <2>6. i = j
    BY <2>4, <2>5 DEF CandidateId
  <2> QED
    BY <2>3, <2>4, <2>6
<1>14. \A i \in DOMAIN arms : <<"arm", arms[i].id>> \notin walls
  BY DEF walls, CandidateId
<1> HIDE DEF A, C, J, last
<1>15. ASSUME NEW n \in DOMAIN J, NEW m \in DOMAIN J, n # m
       PROVE  J[n].url # J[m].url /\ J[n].id # J[m].id
  <2>1. CASE n \in DOMAIN arms /\ J[n] = ArmItem(arms[n]) /\ m \in DOMAIN arms /\ J[m] = ArmItem(arms[m])
    BY <1>11, <1>15, <2>1 DEF ArmItem
  <2>2. CASE /\ n \in DOMAIN arms /\ J[n] = ArmItem(arms[n])
             /\ m - last \in DOMAIN opened_ /\ J[m] = CandidateItem(opened_[m - last])
    BY <1>12, <2>2 DEF ArmItem, CandidateItem, CandidateId
  <2>3. CASE /\ m \in DOMAIN arms /\ J[m] = ArmItem(arms[m])
             /\ n - last \in DOMAIN opened_ /\ J[n] = CandidateItem(opened_[n - last])
    BY <1>12, <2>3 DEF ArmItem, CandidateItem, CandidateId
  <2>4. CASE /\ n - last \in DOMAIN opened_ /\ J[n] = CandidateItem(opened_[n - last])
             /\ m - last \in DOMAIN opened_ /\ J[m] = CandidateItem(opened_[m - last])
    <3>1. n - last # m - last
      BY <1>10, <1>15
    <3> QED
      BY <1>12, <2>4, <3>1 DEF CandidateItem, CandidateId
  <2> QED
    BY <1>10, <2>1, <2>2, <2>3, <2>4
<1>16. ASSUME NEW n \in DOMAIN J, J[n].action = "run_evidence"
       PROVE  J[n].id \notin walls
  <2>1. CASE n \in DOMAIN arms /\ J[n] = ArmItem(arms[n])
    BY <1>14, <2>1 DEF ArmItem
  <2>2. CASE n - last \in DOMAIN opened_ /\ J[n] = CandidateItem(opened_[n - last])
    <3>1. ~opened_[n - last].walled
      BY <1>16, <2>2 DEF CandidateItem
    <3> QED
      BY <1>13, <2>2, <3>1 DEF CandidateItem
  <2> QED
    BY <1>10, <2>1, <2>2
<1>17. /\ Sequential(items) /\ Len(items) <= limits.total
       /\ \A i \in DOMAIN items : i \in DOMAIN J /\ items[i] = J[i]
  BY <1>2, <1>10, Taking DEF J
<1> HIDE DEF items
<1> QED
  BY <1>1, <1>15, <1>16, <1>17 DEF PlanFits

-----------------------------------------------------------------------------
\* The outcomes are counted.

With(list, statuses) == {n \in DOMAIN list : list[n].status \in statuses}
Tally(list, statuses) == Cardinality(With(list, statuses))

\* How many outcomes have one of the statuses.
LEMMA TallyIsFinite ==
    ASSUME NEW list, Sequential(list), NEW S
    PROVE  IsFiniteSet(With(list, S)) /\ Tally(list, S) \in Nat /\ Tally(list, S) <= Len(list)
<1>1. DOMAIN list = 1..Len(list) /\ Len(list) \in Nat
  BY Places
<1>2. IsFiniteSet(1..Len(list)) /\ Cardinality(1..Len(list)) = Len(list)
  <2> DEFINE n == Len(list)
  <2>1. n \in Nat
    BY <1>1
  <2> HIDE DEF n
  <2>2. IsFiniteSet(1..n) /\ Cardinality(1..n) = n
    BY <2>1, FS_Interval
  <2> QED
    BY <2>2 DEF n
<1>3. With(list, S) \in SUBSET (1..Len(list))
  BY <1>1 DEF With
<1>4. IsFiniteSet(With(list, S)) /\ Cardinality(With(list, S)) <= Cardinality(1..Len(list))
  BY <1>2, <1>3, FS_Subset
<1>5. Cardinality(With(list, S)) \in Nat
  BY <1>4, FS_CardinalityType
<1> QED
  BY <1>2, <1>4, <1>5 DEF Tally

\* The tally after one more outcome.
LEMMA TallyOfMore ==
    ASSUME NEW list, Sequential(list), NEW x, NEW S
    PROVE  Tally(Append(list, x), S) = IF x.status \in S THEN Tally(list, S) + 1 ELSE Tally(list, S)
<1> DEFINE n == Len(list)
           T == With(list, S)
           U == With(Append(list, x), S)
<1>1. /\ n \in Nat /\ DOMAIN list = 1..n /\ DOMAIN Append(list, x) = 1..n + 1
      /\ Append(list, x)[n + 1] = x /\ \A i \in 1..n : Append(list, x)[i] = list[i]
  BY Appending
<1>2. U = IF x.status \in S THEN T \cup {n + 1} ELSE T
  BY <1>1 DEF With
<1>3. IsFiniteSet(T)
  BY TallyIsFinite
<1>5. n + 1 \notin T
  BY <1>1 DEF With
<1> HIDE DEF T, U, n
<1>4. Cardinality(T \cup {n + 1}) = Cardinality(T) + 1
  BY <1>3, <1>5, FS_AddElement
<1> QED
  BY <1>2, <1>4 DEF Tally, T, U

\* The tally of different statuses is the sum of theirs.
LEMMA TallyOfBoth ==
    ASSUME NEW list, Sequential(list), NEW S, NEW T, S \cap T = {}
    PROVE  Tally(list, S \cup T) = Tally(list, S) + Tally(list, T)
<1>1. With(list, S \cup T) = With(list, S) \cup With(list, T) /\ With(list, S) \cap With(list, T) = {}
  BY DEF With
<1>2. /\ IsFiniteSet(With(list, S)) /\ Tally(list, S) \in Nat
      /\ IsFiniteSet(With(list, T)) /\ Tally(list, T) \in Nat
  BY TallyIsFinite
<1>3. Cardinality(With(list, S) \cup With(list, T)) =
        Cardinality(With(list, S)) + Cardinality(With(list, T)) - Cardinality(With(list, S) \cap With(list, T))
  BY <1>2, FS_Union
<1>4. Cardinality(With(list, S) \cap With(list, T)) = 0
  BY <1>1, FS_EmptySet
<1>5. Cardinality(With(list, S)) \in Nat /\ Cardinality(With(list, T)) \in Nat
  BY <1>2, FS_CardinalityType
<1> DEFINE a == Cardinality(With(list, S))
           b == Cardinality(With(list, T))
           c == Cardinality(With(list, S) \cup With(list, T))
<1>6. c = a + b
  <2>1. c = a + b - 0 /\ a \in Nat /\ b \in Nat
    BY <1>3, <1>4, <1>5
  <2> HIDE DEF a, b, c
  <2> QED
    BY <2>1
<1> QED
  BY <1>1, <1>6 DEF Tally

\* The tally of all the statuses is the number of outcomes.
LEMMA TallyOfAll ==
    ASSUME NEW list, Sequential(list), NEW S, \A n \in DOMAIN list : list[n].status \in S
    PROVE  Tally(list, S) = Len(list)
<1>1. DOMAIN list = 1..Len(list) /\ Len(list) \in Nat
  BY Places
<1>2. With(list, S) = 1..Len(list)
  BY <1>1 DEF With
<1> QED
  BY <1>1, <1>2, FS_Interval DEF Tally

-----------------------------------------------------------------------------
\* What an outcome ledger has to say of its call.
LedgerHolds(r) ==
    /\ [i \in DOMAIN r.plan.items |-> r.plan.items[i].id]
         = [i \in DOMAIN r.ledger.outcomes |-> r.ledger.outcomes[i].id]
    /\ r.ledger.executed + r.ledger.failed = Len(r.children)
    /\ r.ledger.executed + r.ledger.failed + r.ledger.skipped = Len(r.plan.items)
    /\ r.ledger.status = "ok" => r.execute /\ r.ledger.failed = 0

\* A call that has its plan: the outcomes are of the plan's first items, and a
\* child is of one of these that may be run.
Proceeds(c, r) ==
    /\ PlanFits(r.plan, r.total)
    /\ Sequential(r.outcomes) /\ Len(r.outcomes) <= Len(r.plan.items)
    /\ \A n \in DOMAIN r.outcomes :
          /\ r.outcomes[n].id = r.plan.items[n].id
          /\ r.outcomes[n].status \in {"planned", "skipped", "executed", "failed"}
    /\ Sequential(r.children) /\ Len(r.children) = Tally(r.outcomes, {"executed", "failed"})
    /\ \A i \in DOMAIN r.children : \E n \in DOMAIN r.outcomes :
          /\ r.plan.items[n].action = "run_evidence"
          /\ r.children[i] = [dir |-> <<c, r.plan.items[n].id>>, url |-> r.plan.items[n].url]
    /\ \A i, k \in DOMAIN r.children : i # k =>
          r.children[i].url # r.children[k].url /\ r.children[i].dir # r.children[k].dir

IsCall(r) ==
    r = [pc |-> r.pc, execute |-> r.execute, total |-> r.total, plan |-> r.plan, outcomes |-> r.outcomes,
         children |-> r.children, ledger |-> r.ledger]

CallHolds(c, r) ==
    /\ IsCall(r)
    /\ r.pc = "idle" => r = NotCalled
    /\ r.pc # "idle" => r.total \in Nat /\ Proceeds(c, r)
    /\ r.pc # "done" => r.ledger = None
    /\ r.ledger # None => LedgerHolds(r)

FollowupInv ==
    /\ Reported(artifacts)
    /\ call = [c \in Calls |-> call[c]]
    /\ \A c \in Calls : CallHolds(c, call[c])

\* So the property follows.
LEMMA ReallyAccounted == FollowupInv => FollowupsAccounted
<1> SUFFICES ASSUME FollowupInv
             PROVE  FollowupsAccounted
  OBVIOUS
<1>1. ASSUME NEW c \in Calls
      PROVE  LET made == call[c]
             IN  /\ Len(made.children) <= made.total
                 /\ \A i, k \in DOMAIN made.children : i # k =>
                        made.children[i].url # made.children[k].url /\ made.children[i].dir # made.children[k].dir
                 /\ \A i \in DOMAIN made.children :
                        made.plan # None => made.children[i].dir[2] \notin made.plan.walls
                 /\ made.ledger # None => LedgerHolds(made)
                 /\ \A i \in DOMAIN made.children : made.children[i].dir[1] = c
  <2> DEFINE made == call[c]
  <2>1. CallHolds(c, made)
    BY DEF FollowupInv
  <2> HIDE DEF made
  <2>2. CASE made.pc = "idle"
    <3>1. made = NotCalled
      BY <2>1, <2>2 DEF CallHolds
    <3>2. made.children = <<>> /\ made.total = 0 /\ made.ledger = None
      BY <3>1 DEF NotCalled
    <3>3. Len(<<>>) = 0 /\ DOMAIN <<>> = {}
      OBVIOUS
    <3> QED
      BY <3>2, <3>3 DEF made
  <2>3. CASE made.pc # "idle"
    <3>1. made.total \in Nat /\ Proceeds(c, made) /\ (made.ledger # None => LedgerHolds(made))
      BY <2>1, <2>3 DEF CallHolds
    <3>2. Len(made.children) <= made.total
      <4>1. /\ Sequential(made.outcomes) /\ Len(made.outcomes) <= Len(made.plan.items)
            /\ Len(made.plan.items) <= made.total /\ Sequential(made.plan.items)
            /\ Len(made.children) = Tally(made.outcomes, {"executed", "failed"})
        BY <3>1 DEF Proceeds, PlanFits
      <4>2. /\ Tally(made.outcomes, {"executed", "failed"}) \in Nat
            /\ Tally(made.outcomes, {"executed", "failed"}) <= Len(made.outcomes)
        BY <4>1, TallyIsFinite
      <4>3. Len(made.outcomes) \in Nat /\ Len(made.plan.items) \in Nat
        BY <4>1, Places
      <4> QED
        BY <3>1, <4>1, <4>2, <4>3
    <3>3. ASSUME NEW i \in DOMAIN made.children
          PROVE  made.children[i].dir[2] \notin made.plan.walls /\ made.children[i].dir[1] = c
      <4>1. PICK n \in DOMAIN made.outcomes :
                /\ made.plan.items[n].action = "run_evidence"
                /\ made.children[i] = [dir |-> <<c, made.plan.items[n].id>>, url |-> made.plan.items[n].url]
        BY <3>1 DEF Proceeds
      <4>2. n \in DOMAIN made.plan.items
        <5>1. /\ Sequential(made.outcomes) /\ Sequential(made.plan.items)
              /\ Len(made.outcomes) <= Len(made.plan.items)
          BY <3>1 DEF Proceeds, PlanFits
        <5>2. /\ DOMAIN made.outcomes = 1..Len(made.outcomes) /\ Len(made.outcomes) \in Nat
              /\ DOMAIN made.plan.items = 1..Len(made.plan.items) /\ Len(made.plan.items) \in Nat
          BY <5>1, Places
        <5> QED
          BY <5>1, <5>2
      <4>3. made.plan.items[n].id \notin made.plan.walls
        BY <3>1, <4>1, <4>2 DEF Proceeds, PlanFits
      <4>4. made.children[i].dir = <<c, made.plan.items[n].id>>
        BY <4>1
      <4> QED
        BY <4>3, <4>4
    <3>4. \A i, k \in DOMAIN made.children : i # k =>
              made.children[i].url # made.children[k].url /\ made.children[i].dir # made.children[k].dir
      BY <3>1 DEF Proceeds
    <3> QED
      BY <3>1, <3>2, <3>3, <3>4 DEF made
  <2> QED
    BY <2>2, <2>3
<1>2. \A c, d \in Calls : c # d =>
          \A i \in DOMAIN call[c].children, k \in DOMAIN call[d].children :
              call[c].children[i].dir # call[d].children[k].dir
  BY <1>1
<1> QED
  BY <1>1, <1>2 DEF FollowupsAccounted, LedgerHolds

-----------------------------------------------------------------------------
\* A step of one call keeps the invariant if it keeps the call's part of it.
LEMMA OneCallSteps ==
    ASSUME FollowupInv, NEW c \in Calls, NEW r, CallHolds(c, r),
           call' = [call EXCEPT ![c] = r], UNCHANGED artifacts
    PROVE  FollowupInv'
<1>1. call' = [d \in Calls |-> IF d = c THEN r ELSE call[d]]
  BY DEF FollowupInv
<1>2. call' = [d \in Calls |-> call'[d]]
  BY <1>1
<1>3. \A d \in Calls : CallHolds(d, call'[d])
  <2> SUFFICES ASSUME NEW d \in Calls
               PROVE  CallHolds(d, call'[d])
    OBVIOUS
  <2>1. CallHolds(d, call[d]) /\ call'[d] = IF d = c THEN r ELSE call[d]
    BY <1>1 DEF FollowupInv
  <2> QED
    BY <2>1
<1>4. Reported(artifacts)'
  BY Zenon DEF FollowupInv, Reported, Reports
<1> QED
  BY <1>2, <1>3, <1>4, Zenon DEF FollowupInv, CallHolds, IsCall, LedgerHolds, Proceeds, PlanFits

-----------------------------------------------------------------------------
\* The steps of a call.

\* Each step keeps the invariant.
LEMMA ReportKeeps == FollowupInv /\ ParentReports => FollowupInv'
<1> SUFFICES ASSUME FollowupInv, ParentReports
             PROVE  FollowupInv'
  OBVIOUS
<1>1. PICK a \in Reports : artifacts' = Append(artifacts, a) /\ call' = call
  BY DEF ParentReports
<1>2. Reported(artifacts)'
  <2>1. Sequential(artifacts) /\ \A n \in DOMAIN artifacts : artifacts[n] \in Reports
    BY DEF FollowupInv, Reported
  <2>2. /\ Sequential(artifacts') /\ Len(artifacts) \in Nat /\ DOMAIN artifacts = 1..Len(artifacts)
        /\ DOMAIN artifacts' = 1..Len(artifacts') /\ Len(artifacts') = Len(artifacts) + 1
        /\ artifacts'[Len(artifacts) + 1] = a
        /\ \A i \in 1..Len(artifacts) : artifacts'[i] = artifacts[i]
    BY <1>1, <2>1, Appending
  <2>3. \A n \in DOMAIN artifacts' : n \in 1..Len(artifacts) \/ n = Len(artifacts) + 1
    BY <2>2
  <2>4. \A n \in DOMAIN artifacts' : artifacts'[n] \in Reports
    BY <2>1, <2>2, <2>3
  <2>5. Reports' = Reports
    BY DEF Reports
  <2> QED
    BY <2>2, <2>4, <2>5 DEF Reported, Sequential
<1>3. \A c \in Calls : CallHolds(c, call[c])
  BY DEF FollowupInv
<1>4. \A c \in Calls : CallHolds(c, call'[c])
  BY <1>1, <1>3
<1>5. call' = [c \in Calls |-> call'[c]]
  BY <1>1 DEF FollowupInv
<1> QED
  BY <1>2, <1>4, <1>5 DEF FollowupInv, CallHolds, IsCall, LedgerHolds, Proceeds, PlanFits

\* A plan that fits its limits keeps the invariant.
LEMMA PlansKeeps ==
    ASSUME FollowupInv, NEW c \in Calls, NEW limits \in Limits, NEW execute \in BOOLEAN,
           Plans(c, limits, execute)
    PROVE  FollowupInv'
<1> DEFINE p == BuildPlan(artifacts, limits)
           r == [pc |-> "write_plan", execute |-> execute, total |-> limits.total, plan |-> p,
                 outcomes |-> <<>>, children |-> <<>>, ledger |-> None]
<1>1. call[c] = NotCalled
  BY DEF FollowupInv, CallHolds, Plans
<1>2. call' = [call EXCEPT ![c] = r] /\ UNCHANGED artifacts
  <2>1. c \in DOMAIN call
    BY DEF FollowupInv
  <2> HIDE DEF p
  <2>2. call' = [call EXCEPT ![c].pc = "write_plan", ![c].execute = execute, ![c].total = limits.total,
                             ![c].plan = p]
    BY DEF Plans, p
  <2>3. [[[[NotCalled EXCEPT !.pc = "write_plan"] EXCEPT !.execute = execute]
             EXCEPT !.total = limits.total] EXCEPT !.plan = p] = r
    <3> DEFINE one == [NotCalled EXCEPT !.pc = "write_plan"]
               two == [one EXCEPT !.execute = execute]
               three == [two EXCEPT !.total = limits.total]
    <3>1. one = [pc |-> "write_plan", execute |-> FALSE, total |-> 0, plan |-> None, outcomes |-> <<>>,
                 children |-> <<>>, ledger |-> None]
      <4> DEFINE empty == <<>>
                 no == FALSE
                 nc == NotCalled
      <4>1. nc = [pc |-> "idle", execute |-> no, total |-> 0, plan |-> None, outcomes |-> empty,
                  children |-> empty, ledger |-> None]
        BY DEF NotCalled
      <4> HIDE DEF empty, no, nc
      <4>2. [nc EXCEPT !.pc = "write_plan"] =
              [pc |-> "write_plan", execute |-> no, total |-> 0, plan |-> None, outcomes |-> empty,
               children |-> empty, ledger |-> None]
        BY <4>1
      <4> QED
        BY <4>2 DEF empty, no, nc
    <3> HIDE DEF one
    <3>2. two = [pc |-> "write_plan", execute |-> execute, total |-> 0, plan |-> None, outcomes |-> <<>>,
                 children |-> <<>>, ledger |-> None]
      BY <3>1
    <3> HIDE DEF two
    <3>3. three = [pc |-> "write_plan", execute |-> execute, total |-> limits.total, plan |-> None,
                   outcomes |-> <<>>, children |-> <<>>, ledger |-> None]
      BY <3>2
    <3> HIDE DEF three
    <3>4. [three EXCEPT !.plan = p] = r
      BY <3>3
    <3> QED
      BY <3>4 DEF one, two, three
  <2> DEFINE more == [[[[NotCalled EXCEPT !.pc = "write_plan"] EXCEPT !.execute = execute]
                         EXCEPT !.total = limits.total] EXCEPT !.plan = p]
  <2>4. call' = [call EXCEPT ![c] = more]
    BY <1>1, <2>1, <2>2
  <2>5. more = r
    BY <2>3
  <2> HIDE DEF more, r
  <2> QED
    BY <2>4, <2>5 DEF Plans
<1>3. PlanFits(p, limits.total)
  BY PlansFit DEF FollowupInv
<1>4. limits.total \in Nat
  BY FollowupsAssumption
<1>5. Proceeds(c, r)
  <2>1. Sequential(<<>>) /\ Len(<<>>) = 0 /\ DOMAIN <<>> = {}
    BY EmptySeq DEF Sequential
  <2>2. Tally(<<>>, {"executed", "failed"}) = 0
    BY <2>1, FS_EmptySet DEF Tally, With
  <2> HIDE DEF p
  <2>3. Len(p.items) \in Nat
    BY <1>3, Places DEF PlanFits
  <2> QED
    BY <1>3, <2>1, <2>2, <2>3 DEF Proceeds
<1> HIDE DEF p
<1>6. CallHolds(c, r)
  BY <1>4, <1>5 DEF CallHolds, IsCall
<1> HIDE DEF r
<1> QED
  BY <1>2, <1>6, OneCallSteps

\* A step that only moves the pc, before the call is done.
LEMMA MovesOn ==
    ASSUME FollowupInv, NEW c \in Calls, NEW pc, pc \notin {"idle", "done"},
           call[c].pc \notin {"idle", "done"},
           call' = [call EXCEPT ![c].pc = pc], UNCHANGED artifacts
    PROVE  FollowupInv'
<1> DEFINE old == call[c]
           r == [old EXCEPT !.pc = pc]
<1>1. CallHolds(c, old) /\ c \in DOMAIN call
  BY DEF FollowupInv
<1>2. call' = [call EXCEPT ![c] = r]
  OBVIOUS
<1> HIDE DEF old
<1>3. r = [pc |-> pc, execute |-> old.execute, total |-> old.total, plan |-> old.plan, outcomes |-> old.outcomes,
           children |-> old.children, ledger |-> old.ledger]
  BY <1>1 DEF CallHolds, IsCall
<1>4. old.total \in Nat /\ Proceeds(c, old) /\ old.ledger = None
  BY <1>1 DEF CallHolds, old
<1> HIDE DEF r
<1>5. CallHolds(c, r)
  BY <1>3, <1>4 DEF CallHolds, IsCall, Proceeds
<1> QED
  BY <1>2, <1>5, OneCallSteps

\* What both ways of handling an item have in common.
LEMMA Advances ==
    ASSUME FollowupInv, NEW c \in Calls, AtWork(c), NEW status \in {"planned", "skipped", "executed", "failed"}
    PROVE  LET old == call[c]
               more == Notes(c, status)
               n == Len(old.outcomes) + 1
           IN  /\ IsCall(old) /\ old.pc = "execute" /\ old.total \in Nat /\ Proceeds(c, old) /\ old.ledger = None
               /\ n \in DOMAIN old.plan.items /\ Item(c) = old.plan.items[n]
               /\ Sequential(more) /\ Len(more) <= Len(old.plan.items)
               /\ DOMAIN more = DOMAIN old.outcomes \cup {n} /\ n \notin DOMAIN old.outcomes
               /\ \A i \in DOMAIN more :
                     /\ more[i].id = old.plan.items[i].id
                     /\ more[i].status \in {"planned", "skipped", "executed", "failed"}
               /\ DOMAIN old.outcomes \subseteq DOMAIN old.plan.items
               /\ Tally(more, {"executed", "failed"}) =
                     IF status \in {"executed", "failed"} THEN Tally(old.outcomes, {"executed", "failed"}) + 1
                     ELSE Tally(old.outcomes, {"executed", "failed"})
<1> DEFINE old == call[c]
           x == [id |-> Item(c).id, status |-> status]
           more == Append(old.outcomes, x)
           n == Len(old.outcomes) + 1
<1>1. IsCall(old) /\ old.pc = "execute" /\ old.total \in Nat /\ Proceeds(c, old) /\ old.ledger = None
  BY DEF FollowupInv, CallHolds, AtWork
<1>2. Len(old.outcomes) < Len(old.plan.items) /\ Item(c) = old.plan.items[n] /\ Notes(c, status) = more
  BY DEF AtWork, Item, Notes
<1>3. x.id = old.plan.items[n].id /\ x.status = status
  BY <1>2
<1> HIDE DEF old, x
<1>4. Sequential(old.outcomes) /\ Sequential(old.plan.items)
  BY <1>1 DEF Proceeds, PlanFits
<1>5. /\ Len(old.plan.items) \in Nat /\ DOMAIN old.plan.items = 1..Len(old.plan.items)
      /\ Sequential(more) /\ Len(old.outcomes) \in Nat /\ DOMAIN old.outcomes = 1..Len(old.outcomes)
      /\ DOMAIN more = 1..Len(more) /\ Len(more) = n /\ more[n] = x
      /\ \A i \in 1..Len(old.outcomes) : more[i] = old.outcomes[i]
  BY <1>4, Appending, Places
<1>6. Tally(more, {"executed", "failed"}) =
          IF status \in {"executed", "failed"} THEN Tally(old.outcomes, {"executed", "failed"}) + 1
          ELSE Tally(old.outcomes, {"executed", "failed"})
  BY <1>3, <1>4, TallyOfMore
<1> HIDE DEF more
<1>7. /\ n \in DOMAIN old.plan.items /\ Len(more) <= Len(old.plan.items)
      /\ DOMAIN more = DOMAIN old.outcomes \cup {n} /\ n \notin DOMAIN old.outcomes
      /\ DOMAIN old.outcomes \subseteq DOMAIN old.plan.items
  BY <1>2, <1>5
<1>8. \A i \in DOMAIN old.outcomes :
          /\ old.outcomes[i].id = old.plan.items[i].id
          /\ old.outcomes[i].status \in {"planned", "skipped", "executed", "failed"}
  BY <1>1 DEF Proceeds
<1> HIDE DEF n
<1>9. \A i \in DOMAIN more :
          /\ more[i].id = old.plan.items[i].id
          /\ more[i].status \in {"planned", "skipped", "executed", "failed"}
  BY <1>3, <1>5, <1>7, <1>8
<1> QED
  BY <1>1, <1>2, <1>5, <1>6, <1>7, <1>9 DEF old, more, n

\* So does an item that is not run,
LEMMA PassingKeeps ==
    ASSUME FollowupInv, NEW c \in Calls, PassesOver(c)
    PROVE  FollowupInv'
<1> DEFINE old == call[c]
           status == IF old.execute THEN "skipped" ELSE "planned"
           more == Notes(c, status)
           r == [old EXCEPT !.outcomes = more]
<1>1. AtWork(c) /\ status \in {"planned", "skipped", "executed", "failed"} /\ status \notin {"executed", "failed"}
  BY DEF PassesOver
<1>2. c \in DOMAIN call /\ UNCHANGED artifacts
  BY DEF FollowupInv, PassesOver
<1>3. call' = [call EXCEPT ![c] = r]
  BY <1>2 DEF PassesOver
<1> HIDE DEF status
<1>4. /\ IsCall(old) /\ old.pc = "execute" /\ old.total \in Nat /\ Proceeds(c, old) /\ old.ledger = None
      /\ Sequential(more) /\ Len(more) <= Len(old.plan.items)
      /\ DOMAIN old.outcomes \subseteq DOMAIN more
      /\ \A i \in DOMAIN more :
            /\ more[i].id = old.plan.items[i].id
            /\ more[i].status \in {"planned", "skipped", "executed", "failed"}
      /\ Tally(more, {"executed", "failed"}) = Tally(old.outcomes, {"executed", "failed"})
  BY <1>1, Advances
<1> HIDE DEF old, more
<1>5. r = [pc |-> "execute", execute |-> old.execute, total |-> old.total, plan |-> old.plan, outcomes |-> more,
           children |-> old.children, ledger |-> None]
  BY <1>4 DEF IsCall
<1> HIDE DEF r
<1>6. Proceeds(c, r)
  <2>1. \A i \in DOMAIN old.children : \E n \in DOMAIN more :
            /\ old.plan.items[n].action = "run_evidence"
            /\ old.children[i] = [dir |-> <<c, old.plan.items[n].id>>, url |-> old.plan.items[n].url]
    <3>1. \A i \in DOMAIN old.children : \E n \in DOMAIN old.outcomes :
              /\ old.plan.items[n].action = "run_evidence"
              /\ old.children[i] = [dir |-> <<c, old.plan.items[n].id>>, url |-> old.plan.items[n].url]
      BY <1>4 DEF Proceeds
    <3> QED
      BY <1>4, <3>1
  <2>2. r.outcomes = more /\ r.children = old.children /\ r.plan = old.plan /\ r.total = old.total
    BY <1>5
  <2>3. /\ PlanFits(old.plan, old.total) /\ Sequential(old.children)
        /\ Len(old.children) = Tally(old.outcomes, {"executed", "failed"})
        /\ \A i, k \in DOMAIN old.children : i # k =>
              old.children[i].url # old.children[k].url /\ old.children[i].dir # old.children[k].dir
    BY <1>4 DEF Proceeds
  <2> QED
    BY <1>4, <2>1, <2>2, <2>3 DEF Proceeds
<1>7. CallHolds(c, r)
  BY <1>4, <1>5, <1>6 DEF CallHolds, IsCall
<1> QED
  BY <1>2, <1>3, <1>7, OneCallSteps

\* a child run,
LEMMA ChildKeeps ==
    ASSUME FollowupInv, NEW c \in Calls, RunsChild(c)
    PROVE  FollowupInv'
<1>1. PICK status \in {"executed", "failed"} :
        call' = [call EXCEPT ![c].outcomes = Notes(c, status),
                             ![c].children = Append(@, [dir |-> ChildDir(c), url |-> Item(c).url])]
  BY DEF RunsChild
<1> DEFINE old == call[c]
           more == Notes(c, status)
           child == [dir |-> ChildDir(c), url |-> Item(c).url]
           all == Append(old.children, child)
           n == Len(old.outcomes) + 1
           r == [[old EXCEPT !.outcomes = more] EXCEPT !.children = all]
<1>2. AtWork(c) /\ Item(c).action = "run_evidence" /\ c \in DOMAIN call /\ UNCHANGED artifacts
  BY DEF FollowupInv, RunsChild
<1>3. /\ IsCall(old) /\ old.pc = "execute" /\ old.total \in Nat /\ Proceeds(c, old) /\ old.ledger = None
      /\ n \in DOMAIN old.plan.items /\ Item(c) = old.plan.items[n]
      /\ Sequential(more) /\ Len(more) <= Len(old.plan.items)
      /\ DOMAIN more = DOMAIN old.outcomes \cup {n} /\ n \notin DOMAIN old.outcomes
      /\ DOMAIN old.outcomes \subseteq DOMAIN old.plan.items
      /\ \A i \in DOMAIN more :
            /\ more[i].id = old.plan.items[i].id
            /\ more[i].status \in {"planned", "skipped", "executed", "failed"}
      /\ Tally(more, {"executed", "failed"}) = Tally(old.outcomes, {"executed", "failed"}) + 1
  <2>1. status \in {"planned", "skipped", "executed", "failed"}
    OBVIOUS
  <2> QED
    BY <1>2, <2>1, Advances
<1>4. r = [pc |-> "execute", execute |-> old.execute, total |-> old.total, plan |-> old.plan, outcomes |-> more,
           children |-> all, ledger |-> None]
  <2>1. old = [pc |-> "execute", execute |-> old.execute, total |-> old.total, plan |-> old.plan,
               outcomes |-> old.outcomes, children |-> old.children, ledger |-> None]
    BY <1>3 DEF IsCall
  <2> DEFINE half == [old EXCEPT !.outcomes = more]
  <2> HIDE DEF old, more, all, n, child
  <2>2. half = [pc |-> "execute", execute |-> old.execute, total |-> old.total, plan |-> old.plan,
                outcomes |-> more, children |-> old.children, ledger |-> None]
    BY <2>1
  <2> HIDE DEF half
  <2>3. [half EXCEPT !.children = all] =
          [pc |-> "execute", execute |-> old.execute, total |-> old.total, plan |-> old.plan,
           outcomes |-> more, children |-> all, ledger |-> None]
    BY <2>2
  <2> QED
    BY <2>3 DEF half
<1>5. call' = [call EXCEPT ![c] = r]
  <2> HIDE DEF child, more
  <2>1. call' = [call EXCEPT ![c].outcomes = more, ![c].children = Append(@, child)]
    BY <1>1 DEF child, more
  <2>2. [call[c] EXCEPT !.outcomes = more].children = call[c].children
    BY <1>3 DEF IsCall
  <2> QED
    BY <1>2, <2>1, <2>2
<1>6. child = [dir |-> <<c, old.plan.items[n].id>>, url |-> old.plan.items[n].url]
  BY <1>3 DEF ChildDir
<1> HIDE DEF old, more, child, n, r
<1>7. /\ Sequential(all) /\ Len(all) = Len(old.children) + 1 /\ Len(old.children) \in Nat
      /\ DOMAIN old.children = 1..Len(old.children) /\ DOMAIN all = 1..Len(all)
      /\ all[Len(old.children) + 1] = child
      /\ \A i \in 1..Len(old.children) : all[i] = old.children[i]
  BY <1>3, Appending DEF Proceeds
<1> HIDE DEF all
<1>8. \A i \in DOMAIN all : \/ i \in DOMAIN old.children /\ all[i] = old.children[i]
                            \/ i = Len(old.children) + 1 /\ all[i] = child
  BY <1>7
<1>9. ASSUME NEW i \in DOMAIN old.children
      PROVE  /\ old.children[i].url # child.url /\ old.children[i].dir # child.dir
             /\ \E m \in DOMAIN more : /\ old.plan.items[m].action = "run_evidence"
                                       /\ old.children[i] = [dir |-> <<c, old.plan.items[m].id>>,
                                                             url |-> old.plan.items[m].url]
  <2>1. PICK m \in DOMAIN old.outcomes :
            /\ old.plan.items[m].action = "run_evidence"
            /\ old.children[i] = [dir |-> <<c, old.plan.items[m].id>>, url |-> old.plan.items[m].url]
    BY <1>3 DEF Proceeds
  <2>2. m # n /\ m \in DOMAIN old.plan.items
    BY <1>3
  <2>3. old.plan.items[m].url # old.plan.items[n].url /\ old.plan.items[m].id # old.plan.items[n].id
    BY <1>3, <2>2 DEF Proceeds, PlanFits
  <2> QED
    BY <1>3, <1>6, <2>1, <2>3, SMTT(60)
<1>10. \A i \in DOMAIN all : \E m \in DOMAIN more :
           /\ old.plan.items[m].action = "run_evidence"
           /\ all[i] = [dir |-> <<c, old.plan.items[m].id>>, url |-> old.plan.items[m].url]
  <2>1. n \in DOMAIN more /\ old.plan.items[n].action = "run_evidence"
    BY <1>2, <1>3
  <2> SUFFICES ASSUME NEW i \in DOMAIN all
               PROVE  \E m \in DOMAIN more :
                          /\ old.plan.items[m].action = "run_evidence"
                          /\ all[i] = [dir |-> <<c, old.plan.items[m].id>>, url |-> old.plan.items[m].url]
    OBVIOUS
  <2>2. CASE i \in DOMAIN old.children /\ all[i] = old.children[i]
    BY <1>9, <2>2
  <2>3. CASE all[i] = child
    BY <1>6, <2>1, <2>3
  <2> QED
    BY <1>8, <2>2, <2>3
<1>11. \A i, k \in DOMAIN all : i # k => all[i].url # all[k].url /\ all[i].dir # all[k].dir
  <2>1. \A i, k \in DOMAIN old.children : i # k =>
            old.children[i].url # old.children[k].url /\ old.children[i].dir # old.children[k].dir
    BY <1>3 DEF Proceeds
  <2> QED
    BY <1>8, <1>9, <2>1
<1>12. Len(all) = Tally(more, {"executed", "failed"})
  BY <1>3, <1>7 DEF Proceeds
<1>13. Proceeds(c, r)
  BY <1>3, <1>4, <1>7, <1>10, <1>11, <1>12 DEF Proceeds
<1>14. CallHolds(c, r)
  BY <1>3, <1>4, <1>13 DEF CallHolds, IsCall
<1> QED
  BY <1>2, <1>5, <1>14, OneCallSteps

\* and the ledger that accounts for them.
LEMMA OutcomeKeeps ==
    ASSUME FollowupInv, NEW c \in Calls, WritesOutcome(c)
    PROVE  FollowupInv'
<1> DEFINE old == call[c]
           told_ == OutcomeLedger(c)
           r == [[old EXCEPT !.pc = "done"] EXCEPT !.ledger = told_]
<1>1. /\ IsCall(old) /\ old.total \in Nat /\ Proceeds(c, old) /\ c \in DOMAIN call
      /\ old.pc = "execute" /\ ~(Len(old.outcomes) < Len(old.plan.items))
  BY DEF FollowupInv, CallHolds, WritesOutcome, Finished, AtWork
<1>2. call' = [call EXCEPT ![c] = r] /\ UNCHANGED artifacts
  <2> HIDE DEF told_
  <2>1. call' = [call EXCEPT ![c].pc = "done", ![c].ledger = told_] /\ UNCHANGED artifacts
    BY DEF WritesOutcome, told_
  <2> QED
    BY <1>1, <2>1
<1>3. /\ told_.executed = Tally(old.outcomes, {"executed"}) /\ told_.failed = Tally(old.outcomes, {"failed"})
      /\ told_.skipped = Tally(old.outcomes, {"skipped", "planned"}) /\ told_.outcomes = old.outcomes
  BY DEF OutcomeLedger, Count, Tally, With
<1>4. told_.status = "ok" => old.execute /\ told_.failed = 0
  BY <1>3 DEF OutcomeLedger, Count, Tally, With
<1> HIDE DEF told_, old
<1>5. /\ Sequential(old.outcomes) /\ Sequential(old.plan.items) /\ Len(old.outcomes) <= Len(old.plan.items)
      /\ \A n \in DOMAIN old.outcomes :
            /\ old.outcomes[n].id = old.plan.items[n].id
            /\ old.outcomes[n].status \in {"planned", "skipped", "executed", "failed"}
      /\ Len(old.children) = Tally(old.outcomes, {"executed", "failed"})
  BY <1>1 DEF Proceeds, PlanFits
<1>6. Len(old.outcomes) = Len(old.plan.items) /\ DOMAIN old.outcomes = DOMAIN old.plan.items
  BY <1>1, <1>5, Places
<1>7. told_.executed + told_.failed = Len(old.children)
  <2>1. Tally(old.outcomes, {"executed"} \cup {"failed"}) = Tally(old.outcomes, {"executed"}) + Tally(old.outcomes, {"failed"})
    BY <1>5, TallyOfBoth
  <2>2. {"executed"} \cup {"failed"} = {"executed", "failed"}
    OBVIOUS
  <2> QED
    BY <1>3, <1>5, <2>1, <2>2
<1>8. told_.executed + told_.failed + told_.skipped = Len(old.plan.items)
  <2> DEFINE S == {"executed", "failed"}
             T == {"skipped", "planned"}
  <2>1. S \cap T = {} /\ \A n \in DOMAIN old.outcomes : old.outcomes[n].status \in S \cup T
    BY <1>5
  <2> HIDE DEF S, T
  <2>2. Tally(old.outcomes, S \cup T) = Tally(old.outcomes, S) + Tally(old.outcomes, T)
    BY <1>5, <2>1, TallyOfBoth
  <2>3. Tally(old.outcomes, S \cup T) = Len(old.outcomes)
    BY <1>5, <2>1, TallyOfAll
  <2>4. told_.executed + told_.failed = Tally(old.outcomes, S) /\ told_.skipped = Tally(old.outcomes, T)
    BY <1>3, <1>5, <1>7 DEF S, T
  <2> QED
    BY <1>6, <2>2, <2>3, <2>4
<1>9. [i \in DOMAIN old.plan.items |-> old.plan.items[i].id] = [i \in DOMAIN told_.outcomes |-> told_.outcomes[i].id]
  BY <1>3, <1>5, <1>6
<1>10. r = [pc |-> "done", execute |-> old.execute, total |-> old.total, plan |-> old.plan,
            outcomes |-> old.outcomes, children |-> old.children, ledger |-> told_]
  <2>1. old = [pc |-> old.pc, execute |-> old.execute, total |-> old.total, plan |-> old.plan,
               outcomes |-> old.outcomes, children |-> old.children, ledger |-> old.ledger]
    BY <1>1 DEF IsCall
  <2> DEFINE half == [old EXCEPT !.pc = "done"]
  <2>2. half = [pc |-> "done", execute |-> old.execute, total |-> old.total, plan |-> old.plan,
                outcomes |-> old.outcomes, children |-> old.children, ledger |-> old.ledger]
    BY <2>1
  <2> HIDE DEF half
  <2>3. [half EXCEPT !.ledger = told_] =
          [pc |-> "done", execute |-> old.execute, total |-> old.total, plan |-> old.plan,
           outcomes |-> old.outcomes, children |-> old.children, ledger |-> told_]
    BY <2>2
  <2> QED
    BY <2>3 DEF half
<1> HIDE DEF r
<1>11. Proceeds(c, r)
  BY <1>1, <1>10 DEF Proceeds
<1>12. LedgerHolds(r)
  BY <1>4, <1>7, <1>8, <1>9, <1>10 DEF LedgerHolds
<1>13. CallHolds(c, r)
  BY <1>1, <1>10, <1>11, <1>12 DEF CallHolds, IsCall
<1> QED
  BY <1>2, <1>13, OneCallSteps

FollowupSpec == FollowupInit /\ [][FollowupNext]_followupVars

\* Whatever the parent reports, the limits and the number of calls that overlap or
\* die: no call runs a page twice, or one behind a wall, or more than its limit,
\* or in a directory of another call, and its ledger accounts for every item.
\* (search-followups.ts, buildSearchFollowupPlan and executePlanItems)
THEOREM AlwaysAccounted == FollowupSpec => []FollowupsAccounted
<1>1. FollowupInit => FollowupInv
  <2> SUFFICES ASSUME FollowupInit
               PROVE  FollowupInv
    OBVIOUS
  <2>1. Reported(artifacts)
    BY EmptySeq DEF FollowupInit, Reported, Sequential
  <2>2. IsCall(NotCalled)
    BY DEF IsCall, NotCalled
  <2>3. \A c \in Calls : CallHolds(c, NotCalled)
    BY <2>2 DEF CallHolds, NotCalled
  <2> QED
    BY <2>1, <2>3 DEF FollowupInit, FollowupInv
<1>2. FollowupInv /\ [FollowupNext]_followupVars => FollowupInv'
  <2> SUFFICES ASSUME FollowupInv, [FollowupNext]_followupVars
               PROVE  FollowupInv'
    OBVIOUS
  <2>1. CASE ParentReports
    BY <2>1, ReportKeeps
  <2>2. ASSUME NEW c \in Calls, CallStep(c)
        PROVE  FollowupInv'
    <3>1. CASE \E limits \in Limits, execute \in BOOLEAN : Plans(c, limits, execute)
      BY <3>1, PlansKeeps
    <3>2. CASE WritesPlan(c)
      <4>1. call[c].pc \notin {"idle", "done"} /\ "execute" \notin {"idle", "done"}
        BY <3>2 DEF WritesPlan
      <4>2. call' = [call EXCEPT ![c].pc = "execute"] /\ UNCHANGED artifacts
        BY <3>2 DEF WritesPlan
      <4> QED
        BY <4>1, <4>2, MovesOn
    <3>3. CASE PassesOver(c)
      BY <3>3, PassingKeeps
    <3>4. CASE RunsChild(c)
      BY <3>4, ChildKeeps
    <3>5. CASE WritesOutcome(c)
      BY <3>5, OutcomeKeeps
    <3>6. CASE CallDies(c)
      <4>1. call[c].pc \notin {"idle", "done"} /\ "dead" \notin {"idle", "done"}
        BY <3>6 DEF CallDies
      <4>2. call' = [call EXCEPT ![c].pc = "dead"] /\ UNCHANGED artifacts
        BY <3>6 DEF CallDies
      <4> QED
        BY <4>1, <4>2, MovesOn
    <3> QED
      BY <2>2, <3>1, <3>2, <3>3, <3>4, <3>5, <3>6 DEF CallStep
  <2>3. CASE UNCHANGED followupVars
    BY <2>3 DEF followupVars, FollowupInv, Reported, Reports, CallHolds, IsCall, LedgerHolds, Proceeds, PlanFits
  <2> QED
    BY <2>1, <2>2, <2>3 DEF FollowupNext
<1> QED
  BY <1>1, <1>2, ReallyAccounted, PTL DEF FollowupSpec

=============================================================================
