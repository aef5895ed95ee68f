----------------------------- MODULE OrderProofs -----------------------------
(***************************************************************************)
(* What holds of transaction_order and transaction_order_add_choices for   *)
(* every transaction.                                                      *)
(***************************************************************************)
EXTENDS OrderProperties, TrailProofs, FiniteSetTheorems

----------------------------------------------------------------------------
(* What is reached in a graph.                                             *)

\* The set C leads to itself only.
Closed(es, C) == \A i \in C : Successors(es, i) \subseteq C

\* f[k] is what is reached from S over k edges.
ReachSteps(f, es, S) ==
  LET n == Cardinality(DOMAIN es)
  IN  /\ f \in [0..n -> SUBSET DOMAIN es] /\ f[0] = S
      /\ \A k \in 1..n : f[k] = f[k - 1] \cup UNION {Successors(es, i) : i \in f[k - 1]}
      /\ Reached(es, S) = f[n]

LEMMA ReachedBuilds ==
  ASSUME NEW es, IsFiniteSet(DOMAIN es), NEW S \in SUBSET DOMAIN es
  PROVE  \E f : ReachSteps(f, es, S)
<1> DEFINE n == Cardinality(DOMAIN es)
           T == SUBSET DOMAIN es
           next(x) == x \cup UNION {Successors(es, i) : i \in x}
           step == [kx \in (1..n) \X T |-> next(kx[2])]
<1>1. n \in Nat
  BY FS_CardinalityType
<1>2. ASSUME NEW x \in T
      PROVE  next(x) \in T
  BY DEF Successors
<1>3. step \in [(1..n) \X T -> T]
  <2> HIDE DEF next, T
  <2>1. QED BY <1>2
<1>4. S \in T
  OBVIOUS
<1> HIDE DEF step, n, T, next
<1>5. PICK f : Built(f, n, T, S, step)
  BY <1>1, <1>3, <1>4, Iterates
<1>6. \A k \in 1..n : f[k] = next(f[k - 1])
  <2>1. TAKE k \in 1..n
  <2>2. f[k - 1] \in T
    BY <1>1, <1>5 DEF Built
  <2>3. step[<<k, f[k - 1]>>] = next(f[k - 1])
    BY <2>2 DEF step
  <2>4. QED BY <1>5, <2>3 DEF Built
<1> DEFINE Rec(g) == g = [k \in 0..n |-> IF k = 0 THEN S ELSE next(g[k - 1])]
<1>7. Rec(f)
  <2> DEFINE rhs == [k \in 0..n |-> IF k = 0 THEN S ELSE next(f[k - 1])]
  <2>1. ASSUME NEW k \in 0..n
        PROVE  f[k] = rhs[k]
    <3>1. CASE k = 0
      BY <1>5, <3>1 DEF Built
    <3>2. CASE k # 0
      <4>1. k \in 1..n
        BY <1>1, <3>2
      <4>2. QED BY <1>6, <3>2, <4>1
    <3>3. QED BY <3>1, <3>2
  <2>2. f = [k \in 0..n |-> f[k]]
    BY <1>5 DEF Built
  <2>3. rhs = [k \in 0..n |-> rhs[k]]
    OBVIOUS
  <2> HIDE DEF rhs
  <2>4. f = rhs
    BY <2>1, <2>2, <2>3
  <2>5. QED BY <2>4 DEF rhs
<1> DEFINE o == CHOOSE g : Rec(g)
<1>8. Rec(o) /\ Reached(es, S) = o[n]
  <2>1. Reached(es, S) = o[n]
    BY DEF Reached, n, next
  <2> HIDE DEF Rec
  <2>2. QED BY <1>7, <2>1
<1> HIDE DEF o
<1>9. o[0] = S /\ \A k \in 1..n : o[k] = next(o[k - 1])
  <2>1. 0 \in 0..n /\ \A k \in 1..n : k \in 0..n /\ k # 0
    BY <1>1
  <2>2. o = [k \in 0..n |-> IF k = 0 THEN S ELSE next(o[k - 1])]
    BY <1>8
  <2>3. o[0] = S
    BY <2>1, <2>2
  <2>4. ASSUME NEW k \in 1..n
        PROVE  o[k] = next(o[k - 1])
    BY <2>1, <2>2
  <2>5. QED BY <2>3, <2>4
<1> DEFINE P == {k \in 0..n : o[k] \in T}
<1>10. 0..n \subseteq P
  <2>1. 0 \in P
    BY <1>1, <1>4, <1>9
  <2>2. ASSUME NEW k \in 1..n, k - 1 \in P
        PROVE  k \in P
    <3>1. o[k - 1] \in T
      BY <2>2
    <3>2. o[k] \in T
      BY <1>2, <1>9, <3>1
    <3>3. QED BY <1>1, <3>2
  <2> HIDE DEF P
  <2>3. QED BY <1>1, <2>1, <2>2, UpTo
<1>11. o \in [0..n -> T]
  <2>1. o = [k \in 0..n |-> o[k]]
    BY <1>8 DEF Rec
  <2>2. QED BY <1>10, <2>1
<1>12. ReachSteps(o, es, S)
  BY <1>8, <1>9, <1>11 DEF n, T, next, ReachSteps
<1>13. QED BY <1>12

\* Reached(es, S) is the least set that holds S and leads to itself only: as many
\* rounds as there are elements are enough.
LEMMA ReachedFacts ==
  ASSUME NEW es, IsFiniteSet(DOMAIN es), NEW S \in SUBSET DOMAIN es
  PROVE  /\ S \subseteq Reached(es, S) /\ Reached(es, S) \subseteq DOMAIN es
         /\ Closed(es, Reached(es, S))
         /\ \A C : S \subseteq C /\ Closed(es, C) => Reached(es, S) \subseteq C
<1> DEFINE n == Cardinality(DOMAIN es)
<1>1. n \in Nat
  BY FS_CardinalityType
<1>2. PICK f : ReachSteps(f, es, S)
  BY ReachedBuilds
<1>3. /\ f \in [0..n -> SUBSET DOMAIN es] /\ f[0] = S /\ Reached(es, S) = f[n]
      /\ \A k \in 1..n : f[k] = f[k - 1] \cup UNION {Successors(es, i) : i \in f[k - 1]}
  BY <1>2 DEF ReachSteps
<1> HIDE DEF n
<1>4. \A k \in 0..n : f[k] \subseteq DOMAIN es /\ IsFiniteSet(f[k]) /\ Cardinality(f[k]) \in Nat
  <2>1. TAKE k \in 0..n
  <2>2. f[k] \in SUBSET DOMAIN es
    BY <1>3
  <2>3. IsFiniteSet(f[k])
    BY <2>2, FS_Subset
  <2>4. QED BY <2>2, <2>3, FS_CardinalityType
<1>5. S \subseteq f[n]
  <2> DEFINE P == {k \in 0..n : S \subseteq f[k]}
  <2>1. 0 \in P
    BY <1>1, <1>3
  <2>2. ASSUME NEW k \in 1..n, k - 1 \in P
        PROVE  k \in P
    <3>1. S \subseteq f[k]
      BY <1>3, <2>2
    <3>2. QED BY <1>1, <3>1
  <2>3. n \in P
    <3> HIDE DEF P
    <3>1. QED BY <1>1, <2>1, <2>2, UpTo
  <2>4. QED BY <2>3
<1>6. Closed(es, f[n])
  <2> DEFINE P == {k \in 0..n : Closed(es, f[k]) \/ Cardinality(f[k]) > k}
  <2>1. 0 \in P
    <3>1. CASE S = {}
      BY <1>1, <1>3, <3>1 DEF Closed
    <3>2. CASE S # {}
      <4>1. Cardinality(f[0]) # 0
        BY <1>1, <1>3, <1>4, <3>2, FS_EmptySet
      <4>2. Cardinality(f[0]) \in Nat
        BY <1>1, <1>4
      <4>3. Cardinality(f[0]) > 0
        BY <4>1, <4>2
      <4>4. QED BY <1>1, <4>3
    <3>3. QED BY <3>1, <3>2
  <2>2. ASSUME NEW k \in 1..n, k - 1 \in P
        PROVE  k \in P
    <3>1. k \in 0..n /\ k - 1 \in 0..n
      BY <1>1
    <3>2. f[k] = f[k - 1] \cup UNION {Successors(es, i) : i \in f[k - 1]}
      BY <1>3
    <3>3. CASE Closed(es, f[k - 1])
      <4>1. f[k] = f[k - 1]
        BY <3>2, <3>3 DEF Closed
      <4>2. QED BY <3>1, <3>3, <4>1
    <3>4. CASE ~Closed(es, f[k - 1])
      <4>1. Cardinality(f[k - 1]) > k - 1
        BY <2>2, <3>4
      <4>2. f[k - 1] # f[k]
        BY <3>2, <3>4 DEF Closed
      <4>3. f[k - 1] \in SUBSET f[k]
        BY <3>2
      <4>4. /\ Cardinality(f[k - 1]) <= Cardinality(f[k])
            /\ Cardinality(f[k]) = Cardinality(f[k - 1]) => f[k] = f[k - 1]
        BY <1>4, <3>1, <4>3, FS_Subset
      <4>5. Cardinality(f[k - 1]) \in Nat /\ Cardinality(f[k]) \in Nat
        BY <1>4, <3>1
      <4>6. Cardinality(f[k]) > k
        BY <3>1, <4>1, <4>2, <4>4, <4>5
      <4>7. QED BY <3>1, <4>6
    <3>5. QED BY <3>3, <3>4
  <2>3. n \in P
    <3> HIDE DEF P
    <3>1. QED BY <1>1, <2>1, <2>2, UpTo
  <2>4. Cardinality(f[n]) <= n
    <3>1. f[n] \in SUBSET DOMAIN es
      BY <1>1, <1>4
    <3>2. QED BY <3>1, FS_Subset DEF n
  <2>5. ~(Cardinality(f[n]) > n)
    BY <1>1, <1>4, <2>4
  <2>6. QED BY <2>3, <2>5
<1>7. ASSUME NEW C, S \subseteq C, Closed(es, C)
      PROVE  f[n] \subseteq C
  <2> DEFINE P == {k \in 0..n : f[k] \subseteq C}
  <2>1. 0 \in P
    BY <1>1, <1>3, <1>7
  <2>2. ASSUME NEW k \in 1..n, k - 1 \in P
        PROVE  k \in P
    <3>1. f[k] \subseteq C
      BY <1>3, <1>7, <2>2 DEF Closed
    <3>2. QED BY <1>1, <3>1
  <2>3. n \in P
    <3> HIDE DEF P
    <3>1. QED BY <1>1, <2>1, <2>2, UpTo
  <2>4. QED BY <2>3
<1>8. f[n] \subseteq DOMAIN es
  BY <1>1, <1>4
<1>9. QED BY <1>3, <1>5, <1>6, <1>7, <1>8

LEMMA ReachedLeast ==
  ASSUME NEW es, IsFiniteSet(DOMAIN es), NEW S \in SUBSET DOMAIN es,
         NEW C, S \subseteq C, Closed(es, C)
  PROVE  Reached(es, S) \subseteq C
BY ReachedFacts

----------------------------------------------------------------------------
(* The places of the elements that Only picks.                             *)

\* o lists the elements of S among the first n of s, at[k] is the place of o[k].
Places(at, o, s, S, n) ==
  /\ at \in [1..Len(o) -> 1..n]
  /\ \A k \in 1..Len(o) : s[at[k]] = o[k]
  /\ \A j, k \in 1..Len(o) : j < k => at[j] < at[k]
  /\ \A j \in 1..n : s[j] \in S => \E k \in 1..Len(o) : at[k] = j

\* One element more is looked at.
LEMMA OneMorePlace ==
  ASSUME NEW T, NEW s \in Seq(T), NEW S, NEW o \in Seq(T), NEW n \in 1..Len(s), NEW at,
         Places(at, o, s, S, n - 1),
         NEW r, r = IF s[n] \in S THEN Append(o, s[n]) ELSE o
  PROVE  \E b : Places(b, r, s, S, n)
<1> DEFINE m == Len(o)
<1>1. m \in Nat /\ n \in Nat /\ s[n] \in T
  OBVIOUS
<1>2. /\ at \in [1..m -> 1..(n - 1)] /\ \A k \in 1..m : s[at[k]] = o[k]
      /\ \A j, k \in 1..m : j < k => at[j] < at[k]
      /\ \A j \in 1..(n - 1) : s[j] \in S => \E k \in 1..m : at[k] = j
  BY DEF Places
<1>3. CASE s[n] \notin S
  <2>1. r = o /\ Len(r) = m
    BY <1>3
  <2>2. at \in [1..Len(r) -> 1..n]
    BY <1>1, <1>2, <2>1
  <2>3. ASSUME NEW j \in 1..n, s[j] \in S
        PROVE  \E k \in 1..Len(r) : at[k] = j
    <3>1. j \in 1..(n - 1)
      BY <1>1, <1>3, <2>3
    <3>2. QED BY <1>2, <2>1, <2>3, <3>1
  <2>4. Places(at, r, s, S, n)
    BY <1>2, <2>1, <2>2, <2>3 DEF Places
  <2>5. QED BY <2>4
<1>4. CASE s[n] \in S
  <2> DEFINE b == [k \in 1..(m + 1) |-> IF k = m + 1 THEN n ELSE at[k]]
  <2>1. r = Append(o, s[n])
    BY <1>4
  <2>2. Len(r) = m + 1 /\ r[m + 1] = s[n] /\ \A k \in 1..m : r[k] = o[k]
    BY <1>1, <2>1
  <2>3. ASSUME NEW k \in 1..(m + 1)
        PROVE  /\ b[k] \in 1..n /\ s[b[k]] = r[k]
               /\ k # m + 1 => k \in 1..m /\ b[k] = at[k] /\ b[k] \in 1..(n - 1)
    <3>1. CASE k = m + 1
      BY <1>1, <2>2, <3>1
    <3>2. CASE k # m + 1
      <4>1. k \in 1..m
        BY <1>1, <3>2
      <4>2. b[k] = at[k]
        BY <3>2
      <4>3. QED BY <1>1, <1>2, <2>2, <4>1, <4>2
    <3>3. QED BY <3>1, <3>2
  <2>4. b[m + 1] = n
    BY <1>1
  <2>5. b \in [1..(m + 1) -> 1..n]
    <3>1. b = [k \in 1..(m + 1) |-> b[k]]
      OBVIOUS
    <3> HIDE DEF b
    <3>2. QED BY <2>3, <3>1
  <2> HIDE DEF b
  <2>6. ASSUME NEW j \in 1..(m + 1), NEW k \in 1..(m + 1), j < k
        PROVE  b[j] < b[k]
    <3>1. j # m + 1 /\ j \in 1..m
      BY <1>1, <2>6
    <3>2. b[j] = at[j] /\ b[j] \in 1..(n - 1)
      BY <2>3, <3>1
    <3>3. CASE k = m + 1
      BY <1>1, <2>4, <3>2, <3>3
    <3>4. CASE k # m + 1
      <4>1. k \in 1..m /\ b[k] = at[k]
        BY <2>3, <3>4
      <4>2. QED BY <1>2, <2>6, <3>1, <3>2, <4>1
    <3>5. QED BY <3>3, <3>4
  <2>7. ASSUME NEW j \in 1..n, s[j] \in S
        PROVE  \E k \in 1..(m + 1) : b[k] = j
    <3>1. CASE j = n
      BY <1>1, <2>4, <3>1
    <3>2. CASE j # n
      <4>1. j \in 1..(n - 1)
        BY <1>1, <3>2
      <4>2. PICK k \in 1..m : at[k] = j
        BY <1>2, <2>7, <4>1
      <4>3. k \in 1..(m + 1) /\ k # m + 1
        BY <1>1
      <4>4. QED BY <2>3, <4>2, <4>3
    <3>3. QED BY <3>1, <3>2
  <2>8. Places(b, r, s, S, n)
    BY <2>2, <2>3, <2>5, <2>6, <2>7 DEF Places
  <2>9. QED BY <2>8
<1>5. QED BY <1>3, <1>4

\* Only keeps the order and leaves out nothing.
LEMMA OnlyPlaces ==
  ASSUME NEW T, NEW s \in Seq(T), NEW S
  PROVE  \E at : Places(at, Only(s, S), s, S, Len(s))
<1> DEFINE n == Len(s)
<1>1. n \in Nat
  OBVIOUS
<1>2. PICK only : OnlySteps(only, s, S, T)
  BY OnlyBuilds
<1>3. /\ only \in [0..n -> Seq(T)] /\ only[0] = <<>> /\ Only(s, S) = only[n]
      /\ \A k \in 1..n : only[k] = IF s[k] \in S THEN Append(only[k - 1], s[k]) ELSE only[k - 1]
  BY <1>2 DEF OnlySteps
<1> DEFINE P == {k \in 0..n : \E at : Places(at, only[k], s, S, k)}
<1>4. 0 \in P
  <2> DEFINE at == [k \in 1..0 |-> 0]
  <2>1. Len(only[0]) = 0
    BY <1>3
  <2>2. Places(at, only[0], s, S, 0)
    BY <2>1 DEF Places
  <2>3. QED BY <1>1, <2>2
<1>5. ASSUME NEW k \in 1..n, k - 1 \in P
      PROVE  k \in P
  <2>1. PICK at : Places(at, only[k - 1], s, S, k - 1)
    BY <1>5
  <2>2. only[k - 1] \in Seq(T)
    BY <1>1, <1>3
  <2>3. only[k] = IF s[k] \in S THEN Append(only[k - 1], s[k]) ELSE only[k - 1]
    BY <1>3
  <2> HIDE DEF P
  <2>4. \E b : Places(b, only[k], s, S, k)
    BY <2>1, <2>2, <2>3, OneMorePlace
  <2>5. QED BY <1>1, <2>4 DEF P
<1>6. n \in P
  <2> HIDE DEF P
  <2>1. 0..n \subseteq P
    BY <1>1, <1>4, <1>5, UpTo
  <2>2. QED BY <1>1, <2>1
<1>7. QED BY <1>3, <1>6

----------------------------------------------------------------------------
(* Graphs                                                                  *)

\* es is a graph on the elements 1..n, without edges from an element to itself.
GraphOn(es, n) ==
  /\ es \in [1..n -> Seq(EdgeLists(n))]
  /\ \A i \in 1..n : \A j \in DOMAIN es[i] : es[i][j].to # i

LEMMA GraphFacts ==
  ASSUME NEW n \in Nat, NEW es, GraphOn(es, n)
  PROVE  /\ DOMAIN es = 1..n /\ IsFiniteSet(DOMAIN es)
         /\ \A i \in 1..n : /\ es[i] \in Seq(EdgeLists(n)) /\ i \notin Successors(es, i)
                            /\ Len(es[i]) \in Nat /\ DOMAIN es[i] = 1..Len(es[i])
                            /\ Successors(es, i) \subseteq 1..n
         /\ \A i \in 1..n : \A j \in DOMAIN es[i] : es[i][j] \in EdgeLists(n) /\ es[i][j].to \in 1..n
         /\ \A i, k \in 1..n : k \in Successors(es, i) <=> Depends(es, i, k)
<1>1. DOMAIN es = 1..n
  BY DEF GraphOn
<1>2. IsFiniteSet(1..n)
  BY FS_Interval
<1>3. ASSUME NEW i \in 1..n
      PROVE  /\ es[i] \in Seq(EdgeLists(n)) /\ Len(es[i]) \in Nat /\ DOMAIN es[i] = 1..Len(es[i])
             /\ \A j \in DOMAIN es[i] : es[i][j] \in EdgeLists(n)
  BY DEF GraphOn
<1>4. ASSUME NEW i \in 1..n, NEW j \in DOMAIN es[i]
      PROVE  es[i][j].to \in 1..n
  BY <1>3 DEF EdgeLists
<1>5. \A i \in 1..n : i \notin Successors(es, i) /\ Successors(es, i) \subseteq 1..n
  BY <1>1 DEF GraphOn, Successors, Depends
<1>6. \A i, k \in 1..n : k \in Successors(es, i) <=> Depends(es, i, k)
  BY <1>1 DEF Successors
<1>7. QED BY <1>1, <1>2, <1>3, <1>4, <1>5, <1>6

\* With fewer edges less is reached.
LEMMA FewerReached ==
  ASSUME NEW n \in Nat, NEW es, NEW fs, GraphOn(es, n), GraphOn(fs, n),
         \A i \in 1..n : Successors(fs, i) \subseteq Successors(es, i),
         NEW S \in SUBSET (1..n), NEW R \in SUBSET (1..n), R \subseteq S
  PROVE  Reached(fs, R) \subseteq Reached(es, S)
<1>1. DOMAIN es = 1..n /\ DOMAIN fs = 1..n /\ IsFiniteSet(1..n)
  BY GraphFacts
<1>2. S \subseteq Reached(es, S) /\ Reached(es, S) \subseteq 1..n /\ Closed(es, Reached(es, S))
  BY <1>1, ReachedFacts
<1>3. Closed(fs, Reached(es, S))
  BY <1>2 DEF Closed
<1>4. R \subseteq Reached(es, S)
  BY <1>2
<1>5. R \in SUBSET DOMAIN fs /\ IsFiniteSet(DOMAIN fs)
  BY <1>1
<1>6. QED BY <1>3, <1>4, <1>5, ReachedFacts

\* A set that leads to itself only and holds all that i leads to, but not i.
LEMMA NotReached ==
  ASSUME NEW n \in Nat, NEW es, GraphOn(es, n), NEW i \in 1..n, NEW C,
         Successors(es, i) \subseteq C, Closed(es, C), i \notin C
  PROVE  i \notin Reached(es, Successors(es, i))
<1>1. DOMAIN es = 1..n /\ IsFiniteSet(DOMAIN es) /\ Successors(es, i) \in SUBSET DOMAIN es
  BY GraphFacts
<1>2. QED BY <1>1, ReachedFacts

\* Every edge of es keeps its place in fs, its end, and its bits but those of B.
\* Further edges have only bits of B.
PlacesKept(n, es, fs, B) ==
  \A i \in 1..n :
    /\ \A j \in DOMAIN es[i] : /\ j \in DOMAIN fs[i] /\ fs[i][j].to = es[i][j].to
                               /\ fs[i][j].type \ B = es[i][j].type \ B
    /\ \A j \in DOMAIN fs[i] : j \notin DOMAIN es[i] => fs[i][j].type \subseteq B

\* No edge but edge e of element c changes.
OthersStay(n, es, fs, c, e) ==
  \A i \in 1..n : /\ DOMAIN fs[i] = DOMAIN es[i]
                  /\ \A j \in DOMAIN es[i] : i # c \/ j # e => fs[i][j] = es[i][j]

\* There is one edge at most between two elements.
OneEdgeEach(n, es) ==
  \A i \in 1..n : \A j, k \in DOMAIN es[i] : es[i][j].to = es[i][k].to => j = k

\* An edge is broken.
Breaking(es, c, e) == [es EXCEPT ![c][e].type = @ \cup {TYPE_BROKEN}]

LEMMA Breaks ==
  ASSUME NEW n \in Nat, NEW es, GraphOn(es, n), NEW c \in 1..n, NEW e \in DOMAIN es[c],
         NEW fs, fs = Breaking(es, c, e)
  PROVE  /\ GraphOn(fs, n)
         /\ \A i \in 1..n : /\ Successors(fs, i) \subseteq Successors(es, i)
                            /\ i # c => fs[i] = es[i] /\ Successors(fs, i) = Successors(es, i)
         /\ PlacesKept(n, es, fs, {TYPE_BROKEN}) /\ OthersStay(n, es, fs, c, e)
<1> DEFINE new == [es[c][e] EXCEPT !.type = @ \cup {TYPE_BROKEN}]
           s == [es[c] EXCEPT ![e] = new]
<1>1. /\ DOMAIN es = 1..n /\ es[c] \in Seq(EdgeLists(n)) /\ DOMAIN es[c] = 1..Len(es[c])
      /\ es[c][e] \in EdgeLists(n) /\ Len(es[c]) \in Nat
  BY GraphFacts
<1>2. /\ new \in EdgeLists(n) /\ new.to = es[c][e].to /\ ~Unbroken(new)
      /\ new.type \ {TYPE_BROKEN} = es[c][e].type \ {TYPE_BROKEN}
  <2>1. TYPE_BROKEN \in EdgeBits
    BY DEF EdgeBits
  <2>2. QED BY <1>1, <2>1 DEF EdgeLists, Unbroken
<1>3. fs = [es EXCEPT ![c] = s]
  BY DEF Breaking
<1> HIDE DEF new
<1>4. /\ s \in Seq(EdgeLists(n)) /\ DOMAIN s = DOMAIN es[c] /\ s[e] = new
      /\ \A j \in DOMAIN es[c] : j # e => s[j] = es[c][j]
  BY <1>1, <1>2
<1> HIDE DEF s
<1>5. DOMAIN fs = 1..n /\ fs[c] = s /\ \A i \in 1..n : i # c => fs[i] = es[i]
  BY <1>1, <1>3
<1>6. fs \in [1..n -> Seq(EdgeLists(n))]
  <2>1. \A i \in 1..n : es[i] \in Seq(EdgeLists(n))
    BY GraphFacts
  <2>2. QED BY <1>1, <1>3, <1>4, <2>1
<1>7. \A i \in 1..n : \A j \in DOMAIN fs[i] :
         /\ DOMAIN fs[i] = DOMAIN es[i] /\ fs[i][j].to = es[i][j].to
         /\ Unbroken(fs[i][j]) => Unbroken(es[i][j])
         /\ fs[i][j].type \ {TYPE_BROKEN} = es[i][j].type \ {TYPE_BROKEN}
  <2>1. TAKE i \in 1..n
  <2>2. TAKE j \in DOMAIN fs[i]
  <2>3. CASE i = c /\ j = e
    BY <1>2, <1>4, <1>5, <2>3
  <2>4. CASE i = c /\ j # e
    BY <1>4, <1>5, <2>4
  <2>5. CASE i # c
    BY <1>5, <2>5
  <2>6. QED BY <2>3, <2>4, <2>5
<1>8. GraphOn(fs, n)
  BY <1>6, <1>7 DEF GraphOn
<1>9. ASSUME NEW i \in 1..n
      PROVE  Successors(fs, i) \subseteq Successors(es, i)
  <2>1. ASSUME NEW k, Depends(fs, i, k)
        PROVE  Depends(es, i, k)
    BY <1>7, <2>1 DEF Depends
  <2>2. QED BY <1>1, <1>5, <2>1 DEF Successors
<1>10. \A i \in 1..n : i # c => Successors(fs, i) = Successors(es, i)
  BY <1>1, <1>5 DEF Successors, Depends
<1>11. \A i \in 1..n : /\ DOMAIN fs[i] = DOMAIN es[i]
                       /\ \A j \in DOMAIN es[i] : i # c \/ j # e => fs[i][j] = es[i][j]
  BY <1>4, <1>5
<1>12. PlacesKept(n, es, fs, {TYPE_BROKEN})
  BY <1>7, <1>11 DEF PlacesKept
<1>13. OthersStay(n, es, fs, c, e)
  BY <1>11 DEF OthersStay
<1>14. QED BY <1>5, <1>8, <1>9, <1>10, <1>12, <1>13

----------------------------------------------------------------------------
(* The stack of the search.  It is a path of elements that are being       *)
(* visited, each followed by those of its successors that are still to be  *)
(* looked at; the next element of the path is the last of these.  Below    *)
(* the path all elements still stand that it was not yet begun from.       *)

\* No element is being visited between places p and q of the stack.
Quiet(td, p, q) == \A r \in (p + 1)..(q - 1) : td[r] > 0

\* The elements that are done.
Done(n, mk) == {i \in 1..n : mk[i] = 2}

StackTyped(n, mk, td) == mk \in [1..n -> 0..2] /\ td \in Seq(Literals(1..n))

\* The elements being visited are on the stack, once.
VisitedOnce(n, mk, td) ==
  /\ \A i \in 1..n : mk[i] = 1 <=> \E p \in 1..Len(td) : td[p] = -i
  /\ \A p, q \in 1..Len(td) : td[p] < 0 /\ td[p] = td[q] => p = q

\* The successors of an element being visited are done or stand above it, up to
\* the next element being visited.
NoneMissed(es, mk, td) ==
  \A p \in 1..Len(td) : td[p] < 0 =>
    \A k \in Successors(es, -td[p]) :
      mk[k] = 2 \/ \E q \in (p + 1)..Len(td) : Var(td[q]) = k /\ Quiet(td, p, q)

\* Nothing else stands there.
PathFollowsEdges(es, td) ==
  \A p, q \in 1..Len(td) :
    td[p] < 0 /\ p < q /\ Quiet(td, p, q) => Depends(es, -td[p], Var(td[q]))

\* All elements that are not done stand below the path or begin it.
NoneForgotten(n, mk, td) ==
  \A i \in 1..n : mk[i] = 2 \/ \E q \in 1..Len(td) : Var(td[q]) = i /\ Quiet(td, 0, q)

\* What is done leads to what is done, and not back.
DoneSound(n, es, mk) ==
  \A i \in Done(n, mk) : /\ Successors(es, i) \subseteq Done(n, mk)
                         /\ i \notin Reached(es, Successors(es, i))

Stack(n, es, mk, td) ==
  /\ n \in Nat /\ GraphOn(es, n)
  /\ StackTyped(n, mk, td) /\ VisitedOnce(n, mk, td)
  /\ NoneMissed(es, mk, td) /\ PathFollowsEdges(es, td) /\ NoneForgotten(n, mk, td)
  /\ DoneSound(n, es, mk)

LEMMA StackFacts ==
  ASSUME NEW n \in Nat, NEW mk, NEW td, StackTyped(n, mk, td)
  PROVE  /\ Len(td) \in Nat /\ DOMAIN td = 1..Len(td)
         /\ \A i \in 1..n : mk[i] \in 0..2
         /\ \A p \in 1..Len(td) : /\ td[p] \in Int /\ Var(td[p]) \in 1..n
                                  /\ td[p] < 0 => td[p] = -Var(td[p]) /\ -td[p] = Var(td[p])
                                  /\ ~(td[p] < 0) => td[p] > 0 /\ td[p] = Var(td[p])
<1>1. Len(td) \in Nat /\ DOMAIN td = 1..Len(td) /\ \A p \in 1..Len(td) : td[p] \in Literals(1..n)
  BY DEF StackTyped
<1>2. \A i \in 1..n : mk[i] \in 0..2
  BY DEF StackTyped
<1>3. ASSUME NEW p \in 1..Len(td)
      PROVE  /\ td[p] \in Int /\ Var(td[p]) \in 1..n
             /\ td[p] < 0 => td[p] = -Var(td[p]) /\ -td[p] = Var(td[p])
             /\ ~(td[p] < 0) => td[p] > 0 /\ td[p] = Var(td[p])
  <2>1. td[p] \in 1..n \/ \E i \in 1..n : td[p] = -i
    BY <1>1 DEF Literals
  <2>2. QED BY <2>1 DEF Var
<1>4. QED BY <1>1, <1>2, <1>3

\* The element x on top is done and leaves the stack.
LEMMA PopsTop ==
  ASSUME NEW n, NEW es, NEW mk, NEW td, Stack(n, es, mk, td), Len(td) > 0,
         NEW x, x = Var(td[Len(td)]),
         td[Len(td)] < 0 \/ mk[x] # 1,
         Successors(es, x) \subseteq Done(n, mk),
         NEW tf, tf = Front(td), NEW mf, mf = [mk EXCEPT ![x] = 2]
  PROVE  Stack(n, es, mf, tf)
<1> DEFINE m == Len(td)
<1>1. /\ n \in Nat /\ GraphOn(es, n) /\ StackTyped(n, mk, td) /\ VisitedOnce(n, mk, td)
      /\ NoneMissed(es, mk, td) /\ PathFollowsEdges(es, td) /\ NoneForgotten(n, mk, td)
      /\ DoneSound(n, es, mk)
  BY DEF Stack
<1>2. /\ m \in Nat /\ DOMAIN td = 1..m /\ \A i \in 1..n : mk[i] \in 0..2
      /\ \A p \in 1..m : /\ td[p] \in Int /\ Var(td[p]) \in 1..n
                         /\ td[p] < 0 => td[p] = -Var(td[p]) /\ -td[p] = Var(td[p])
                         /\ ~(td[p] < 0) => td[p] > 0 /\ td[p] = Var(td[p])
  BY <1>1, StackFacts
<1>3. m \in 1..m /\ x \in 1..n /\ m > 0
  BY <1>2
<1> HIDE DEF m
<1>4. tf \in Seq(Literals(1..n)) /\ Len(tf) = m - 1 /\ \A p \in 1..(m - 1) : tf[p] = td[p]
  <2>1. m - 1 \in Nat /\ m - 1 <= Len(td) /\ \A p \in 1..(m - 1) : td[p] \in Literals(1..n)
    BY <1>1, <1>2, <1>3 DEF StackTyped, m
  <2>2. tf = SubSeq(td, 1, m - 1)
    BY DEF Front, m
  <2>3. QED BY <1>1, <2>1, <2>2, SubSeqProperties DEF StackTyped
<1>5. \A p \in 1..(m - 1) : p \in 1..m
  BY <1>2
<1>6. mf \in [1..n -> 0..2] /\ mf[x] = 2 /\ \A i \in 1..n : i # x => mf[i] = mk[i]
  BY <1>1, <1>3 DEF StackTyped
<1>7. \A i \in 1..n : mk[i] = 2 => mf[i] = 2
  BY <1>6
<1>8. StackTyped(n, mf, tf)
  BY <1>4, <1>6 DEF StackTyped
<1>9. \A p, q \in 1..(m - 1) : Quiet(tf, p, q) <=> Quiet(td, p, q)
  <2>1. TAKE p, q \in 1..(m - 1)
  <2>2. \A r \in (p + 1)..(q - 1) : r \in 1..(m - 1)
    BY <1>2
  <2>3. QED BY <1>4, <2>2 DEF Quiet
<1>10. \A q \in 1..(m - 1) : Quiet(tf, 0, q) <=> Quiet(td, 0, q)
  <2>1. TAKE q \in 1..(m - 1)
  <2>2. \A r \in (0 + 1)..(q - 1) : r \in 1..(m - 1)
    BY <1>2
  <2>3. QED BY <1>4, <2>2 DEF Quiet
<1>11. VisitedOnce(n, mf, tf)
  <2>1. ASSUME NEW i \in 1..n
        PROVE  mf[i] = 1 <=> \E p \in 1..(m - 1) : tf[p] = -i
    <3>1. CASE i = x
      <4>1. ASSUME NEW p \in 1..(m - 1), tf[p] = -x
            PROVE  FALSE
        <5>1. td[p] = -x /\ p \in 1..m /\ p # m
          BY <1>2, <1>4, <1>5, <4>1
        <5>2. mk[x] = 1
          BY <1>1, <1>3, <5>1 DEF VisitedOnce, m
        <5>3. td[m] = -x
          BY <1>2, <1>3, <5>2 DEF m
        <5>4. td[m] < 0
          BY <1>3, <5>3
        <5>5. QED BY <1>1, <1>3, <5>1, <5>3, <5>4 DEF VisitedOnce, m
      <4>2. QED BY <1>6, <3>1, <4>1
    <3>2. CASE i # x
      <4>1. ASSUME NEW p \in 1..m, td[p] = -i
            PROVE  p \in 1..(m - 1)
        <5>1. td[p] < 0 /\ Var(td[p]) = i
          BY <4>1 DEF Var
        <5>2. p # m
          BY <3>2, <5>1 DEF m
        <5>3. QED BY <1>2, <5>2
      <4>2. (\E p \in 1..m : td[p] = -i) <=> \E p \in 1..(m - 1) : tf[p] = -i
        BY <1>4, <1>5, <4>1
      <4>3. mk[i] = 1 <=> \E p \in 1..m : td[p] = -i
        BY <1>1 DEF VisitedOnce, m
      <4>4. QED BY <1>6, <3>2, <4>2, <4>3
    <3>3. QED BY <3>1, <3>2
  <2>2. \A p, q \in 1..(m - 1) : tf[p] < 0 /\ tf[p] = tf[q] => p = q
    BY <1>1, <1>4, <1>5 DEF VisitedOnce, m
  <2>3. QED BY <1>4, <2>1, <2>2 DEF VisitedOnce
<1>12. NoneMissed(es, mf, tf)
  <2>1. SUFFICES ASSUME NEW p \in 1..(m - 1), tf[p] < 0, NEW k \in Successors(es, -tf[p])
                 PROVE  mf[k] = 2 \/ \E q \in (p + 1)..(m - 1) : Var(tf[q]) = k /\ Quiet(tf, p, q)
    BY <1>4 DEF NoneMissed
  <2>2. p \in 1..m /\ td[p] < 0 /\ k \in Successors(es, -td[p]) /\ -td[p] \in 1..n
    BY <1>2, <1>4, <1>5, <2>1
  <2>3. mk[k] = 2 \/ \E q \in (p + 1)..m : Var(td[q]) = k /\ Quiet(td, p, q)
    BY <1>1, <2>2 DEF NoneMissed, m
  <2>4. k \in 1..n
    BY <1>1, <2>2, GraphFacts
  <2>5. CASE mk[k] = 2
    BY <1>7, <2>4, <2>5
  <2>6. ASSUME NEW q \in (p + 1)..m, Var(td[q]) = k, Quiet(td, p, q)
        PROVE  mf[k] = 2 \/ \E r \in (p + 1)..(m - 1) : Var(tf[r]) = k /\ Quiet(tf, p, r)
    <3>1. CASE q = m
      BY <1>6, <2>6, <3>1 DEF m
    <3>2. CASE q # m
      <4>1. q \in 1..(m - 1) /\ q \in (p + 1)..(m - 1)
        BY <1>2, <2>2, <3>2
      <4>2. QED BY <1>4, <1>9, <2>6, <4>1
    <3>3. QED BY <3>1, <3>2
  <2>7. QED BY <2>3, <2>5, <2>6
<1>13. PathFollowsEdges(es, tf)
  <2>1. SUFFICES ASSUME NEW p \in 1..(m - 1), NEW q \in 1..(m - 1), tf[p] < 0, p < q, Quiet(tf, p, q)
                 PROVE  Depends(es, -tf[p], Var(tf[q]))
    BY <1>4 DEF PathFollowsEdges
  <2>2. td[p] < 0 /\ Quiet(td, p, q) /\ td[p] = tf[p] /\ td[q] = tf[q] /\ p \in 1..m /\ q \in 1..m
    BY <1>4, <1>5, <1>9, <2>1
  <2>3. QED BY <1>1, <2>1, <2>2 DEF PathFollowsEdges, m
<1>14. NoneForgotten(n, mf, tf)
  <2>1. SUFFICES ASSUME NEW i \in 1..n, mf[i] # 2
                 PROVE  \E q \in 1..(m - 1) : Var(tf[q]) = i /\ Quiet(tf, 0, q)
    BY <1>4 DEF NoneForgotten
  <2>2. i # x /\ mk[i] # 2
    BY <1>6, <2>1
  <2>3. PICK q \in 1..m : Var(td[q]) = i /\ Quiet(td, 0, q)
    BY <1>1, <2>2 DEF NoneForgotten, m
  <2>4. q \in 1..(m - 1)
    <3>1. q # m
      BY <2>2, <2>3 DEF m
    <3>2. QED BY <1>2, <3>1
  <2>5. QED BY <1>4, <1>10, <2>3, <2>4
<1>15. DoneSound(n, es, mf)
  <2>1. Done(n, mf) = Done(n, mk) \cup {x}
    BY <1>3, <1>6 DEF Done
  <2>2. ASSUME NEW i \in Done(n, mk)
        PROVE  Successors(es, i) \subseteq Done(n, mf) /\ i \notin Reached(es, Successors(es, i))
    BY <1>1, <2>1, <2>2 DEF DoneSound
  <2>3. x \notin Done(n, mk) => x \notin Reached(es, Successors(es, x))
    <3>1. Closed(es, Done(n, mk))
      BY <1>1 DEF DoneSound, Closed
    <3>2. QED BY <1>1, <1>3, <3>1, NotReached
  <2>4. QED BY <2>1, <2>2, <2>3 DEF DoneSound
<1>16. QED BY <1>1, <1>8, <1>11, <1>12, <1>13, <1>14, <1>15 DEF Stack

\* The stack td with the element x on top entered and up put above it.
Pushed(td, x, up) == Front(td) \o <<-x>> \o up

LEMMA PushedFacts ==
  ASSUME NEW T, NEW td \in Seq(T), Len(td) > 0, NEW up \in Seq(T), NEW x, -x \in T
  PROVE  /\ Pushed(td, x, up) \in Seq(T) /\ Len(Pushed(td, x, up)) = Len(td) + Len(up)
         /\ Pushed(td, x, up)[Len(td)] = -x
         /\ \A p \in 1..(Len(td) - 1) : Pushed(td, x, up)[p] = td[p]
         /\ \A j \in 1..Len(up) : Pushed(td, x, up)[Len(td) + j] = up[j]
<1> DEFINE y == -x
           m == Len(td)
           k == Len(up)
           f == Front(td)
           g == f \o <<y>>
           h == g \o up
<1> HIDE DEF y, m
<1>1. m \in Nat /\ m > 0 /\ k \in Nat /\ y \in T
  BY DEF y, m
<1>2. f \in Seq(T) /\ Len(f) = m - 1 /\ \A p \in 1..(m - 1) : f[p] = td[p]
  <2>1. m - 1 \in Nat /\ m - 1 <= Len(td) /\ \A p \in 1..(m - 1) : td[p] \in T
    BY <1>1 DEF m
  <2>2. f = SubSeq(td, 1, m - 1)
    BY DEF Front, m
  <2> HIDE DEF f, g, h
  <2>3. QED BY <2>1, <2>2, SubSeqProperties
<1>3. Pushed(td, x, up) = h
  BY DEF Pushed, y
<1> HIDE DEF f
<1>4. g \in Seq(T) /\ Len(g) = m /\ g[m] = y /\ \A p \in 1..(m - 1) : g[p] = f[p]
  BY <1>1, <1>2
<1> HIDE DEF g
<1>5. h \in Seq(T) /\ Len(h) = m + k
  BY <1>4, ConcatProperties
<1>6. \A p \in 1..m : h[p] = g[p]
  BY <1>1, <1>4
<1>7. \A j \in 1..k : h[m + j] = up[j]
  BY <1>1, <1>4
<1> HIDE DEF h, k
<1>8. \A p \in 1..(m - 1) : p \in 1..m
  BY <1>1
<1>9. m \in 1..m
  BY <1>1
<1>10. QED BY <1>2, <1>3, <1>4, <1>5, <1>6, <1>7, <1>8, <1>9 DEF m, k, y

\* The new element x on top is entered: its open successors are put above it.
LEMMA PushesOpen ==
  ASSUME NEW n, NEW es, NEW mk, NEW td, Stack(n, es, mk, td), Len(td) > 0,
         NEW x, x = td[Len(td)], x > 0, mk[x] = 0,
         NEW up, up \in Seq(1..n),
         Range(up) = Successors(es, x) \ Done(n, mk),
         NEW tf, tf = Pushed(td, x, up), NEW mf, mf = [mk EXCEPT ![x] = 1]
  PROVE  Stack(n, es, mf, tf)
<1> DEFINE m == Len(td)
           k == Len(up)
<1>1. /\ n \in Nat /\ GraphOn(es, n) /\ StackTyped(n, mk, td) /\ VisitedOnce(n, mk, td)
      /\ NoneMissed(es, mk, td) /\ PathFollowsEdges(es, td) /\ NoneForgotten(n, mk, td)
      /\ DoneSound(n, es, mk)
  BY DEF Stack
<1>2. /\ m \in Nat /\ DOMAIN td = 1..m /\ \A i \in 1..n : mk[i] \in 0..2
      /\ \A p \in 1..m : /\ td[p] \in Int /\ Var(td[p]) \in 1..n
                         /\ td[p] < 0 => td[p] = -Var(td[p]) /\ -td[p] = Var(td[p])
                         /\ ~(td[p] < 0) => td[p] > 0 /\ td[p] = Var(td[p])
  BY <1>1, StackFacts
<1>3. m \in 1..m /\ m > 0 /\ x \in 1..n /\ td[m] = x
  BY <1>2 DEF Var
<1>4. k \in Nat /\ DOMAIN up = 1..k /\ \A j \in 1..k : up[j] \in 1..n
  BY <1>1
<1> HIDE DEF m, k
<1>5. /\ tf \in Seq(Literals(1..n)) /\ Len(tf) = m + k /\ tf[m] = -x
      /\ \A p \in 1..(m - 1) : tf[p] = td[p]
      /\ \A j \in 1..k : tf[m + j] = up[j]
  <2>1. td \in Seq(Literals(1..n)) /\ -x \in Literals(1..n)
    BY <1>1, <1>3 DEF Literals, StackTyped
  <2>2. \A j \in 1..k : up[j] \in Literals(1..n)
    BY <1>4 DEF Literals
  <2>3. up \in Seq(Literals(1..n))
    BY <1>4, <2>2 DEF k
  <2> DEFINE T == Literals(1..n)
  <2> HIDE DEF T
  <2>4. Len(td) > 0 /\ td \in Seq(T) /\ up \in Seq(T) /\ -x \in T
    BY <2>1, <2>3 DEF T
  <2>5. /\ Pushed(td, x, up) \in Seq(T) /\ Len(Pushed(td, x, up)) = Len(td) + Len(up)
        /\ Pushed(td, x, up)[Len(td)] = -x
        /\ \A p \in 1..(Len(td) - 1) : Pushed(td, x, up)[p] = td[p]
        /\ \A j \in 1..Len(up) : Pushed(td, x, up)[Len(td) + j] = up[j]
    BY ONLY <2>4, PushedFacts
  <2>6. QED BY <2>5 DEF m, k, T
<1>6. \A p \in 1..(m - 1) : p \in 1..m /\ p \in 1..(m + k)
  BY <1>2, <1>4
<1>7. m \in 1..(m + k) /\ \A j \in 1..k : m + j \in 1..(m + k)
  BY <1>3, <1>4
<1>8. \A p \in 1..(m + k) : p \in 1..(m - 1) \/ p = m \/ \E j \in 1..k : p = m + j
  <2>1. TAKE p \in 1..(m + k)
  <2>2. p > m => p - m \in 1..k /\ p = m + (p - m)
    BY <1>2, <1>4
  <2>3. QED BY <1>2, <1>4, <2>2
<1>9. \A p \in 1..m : Var(tf[p]) = Var(td[p])
  <2>1. Var(tf[m]) = x
    BY <1>3, <1>5 DEF Var
  <2>2. TAKE p \in 1..m
  <2>3. p = m \/ p \in 1..(m - 1)
    BY <1>2
  <2>4. Var(td[m]) = x
    BY <1>2, <1>3
  <2>5. QED BY <1>5, <2>1, <2>3, <2>4
<1>10. \A j \in 1..k : tf[m + j] \in 1..n /\ tf[m + j] > 0 /\ Var(tf[m + j]) = tf[m + j]
  <2>1. \A j \in 1..k : tf[m + j] \in 1..n
    BY <1>4, <1>5
  <2>2. \A y \in 1..n : y > 0 /\ Var(y) = y
    BY DEF Var
  <2>3. QED BY <2>1, <2>2
<1>11. mf \in [1..n -> 0..2] /\ mf[x] = 1 /\ \A i \in 1..n : i # x => mf[i] = mk[i]
  BY <1>1, <1>3 DEF StackTyped
<1>12. \A i \in 1..n : mf[i] = 2 <=> mk[i] = 2
  BY <1>11
<1>13. StackTyped(n, mf, tf)
  BY <1>5, <1>11 DEF StackTyped
<1>14. \A p \in 0..m : \A q \in 1..m : Quiet(tf, p, q) <=> Quiet(td, p, q)
  <2>1. TAKE p \in 0..m
  <2>2. TAKE q \in 1..m
  <2>3. \A r \in (p + 1)..(q - 1) : r \in 1..(m - 1)
    BY <1>2
  <2>4. QED BY <1>5, <2>3 DEF Quiet
<1>15. \A p \in 1..(m + k) : tf[p] < 0 => p = m \/ (p \in 1..(m - 1) /\ tf[p] = td[p])
  <2>1. TAKE p \in 1..(m + k)
  <2>2. (\E j \in 1..k : p = m + j) => tf[p] > 0 /\ tf[p] \in Int
    BY <1>1, <1>10
  <2>3. QED BY <1>5, <1>8, <2>2
<1>16. \A p \in 1..m : td[p] # -x
  <2>1. mk[x] # 1
    OBVIOUS
  <2>2. QED BY <1>1, <1>3, <2>1 DEF VisitedOnce, m
<1>17. VisitedOnce(n, mf, tf)
  <2>1. ASSUME NEW i \in 1..n
        PROVE  mf[i] = 1 <=> \E p \in 1..(m + k) : tf[p] = -i
    <3>1. CASE i = x
      BY <1>5, <1>7, <1>11, <3>1
    <3>2. CASE i # x
      <4>1. ASSUME NEW p \in 1..(m + k), tf[p] = -i
            PROVE  p \in 1..(m - 1) /\ tf[p] = td[p]
        <5>1. tf[p] < 0
          BY <4>1
        <5>2. p # m
          BY <1>3, <1>5, <3>2, <4>1
        <5>3. QED BY <1>15, <5>1, <5>2
      <4>2. ASSUME NEW p \in 1..m, td[p] = -i
            PROVE  p \in 1..(m - 1)
        BY <1>2, <1>3, <4>2
      <4>3. (\E p \in 1..m : td[p] = -i) <=> \E p \in 1..(m + k) : tf[p] = -i
        BY <1>5, <1>6, <4>1, <4>2
      <4>4. mk[i] = 1 <=> \E p \in 1..m : td[p] = -i
        BY <1>1 DEF VisitedOnce, m
      <4>5. QED BY <1>11, <3>2, <4>3, <4>4
    <3>3. QED BY <3>1, <3>2
  <2>2. ASSUME NEW p \in 1..(m + k), NEW q \in 1..(m + k), tf[p] < 0, tf[p] = tf[q]
        PROVE  p = q
    <3>1. /\ p = m \/ (p \in 1..(m - 1) /\ tf[p] = td[p])
          /\ q = m \/ (q \in 1..(m - 1) /\ tf[q] = td[q])
      BY <1>15, <2>2
    <3>2. CASE p \in 1..(m - 1) /\ q \in 1..(m - 1)
      <4>1. td[p] < 0 /\ td[p] = td[q] /\ p \in 1..m /\ q \in 1..m
        BY <1>5, <1>6, <2>2, <3>2
      <4>2. QED BY <1>1, <4>1 DEF VisitedOnce, m
    <3>3. QED BY <1>5, <1>6, <1>16, <2>2, <3>1, <3>2
  <2>3. QED BY <1>5, <2>1, <2>2 DEF VisitedOnce
<1>18. NoneMissed(es, mf, tf)
  <2>1. SUFFICES ASSUME NEW p \in 1..(m + k), tf[p] < 0, NEW j \in Successors(es, -tf[p])
                 PROVE  mf[j] = 2 \/ \E q \in (p + 1)..(m + k) : Var(tf[q]) = j /\ Quiet(tf, p, q)
    BY <1>5 DEF NoneMissed
  <2>2. CASE p = m
    <3>1. j \in Successors(es, x) /\ j \in 1..n
      BY <1>1, <1>3, <1>5, <2>1, <2>2, GraphFacts
    <3>2. CASE j \in Done(n, mk)
      BY <1>12, <3>1, <3>2 DEF Done
    <3>3. CASE j \notin Done(n, mk)
      <4>1. PICK i \in 1..k : up[i] = j
        BY <1>4, <3>1, <3>3 DEF Range
      <4>2. m + i \in (p + 1)..(m + k)
        BY <1>2, <1>4, <2>2
      <4>3. Var(tf[m + i]) = j
        BY <1>5, <1>10, <4>1
      <4>4. \A r \in (p + 1)..((m + i) - 1) : r - m \in 1..k /\ m + (r - m) = r
        BY <1>2, <1>4, <2>2
      <4>5. Quiet(tf, p, m + i)
        BY <1>10, <4>4 DEF Quiet
      <4>6. QED BY <4>2, <4>3, <4>5
    <3>4. QED BY <3>2, <3>3
  <2>3. CASE p # m
    <3>1. p \in 1..(m - 1) /\ p \in 1..m /\ td[p] = tf[p] /\ -td[p] \in 1..n
      BY <1>2, <1>6, <1>15, <2>1, <2>3
    <3>2. mk[j] = 2 \/ \E q \in (p + 1)..m : Var(td[q]) = j /\ Quiet(td, p, q)
      BY <1>1, <2>1, <3>1 DEF NoneMissed, m
    <3>3. j \in 1..n
      BY <1>1, <2>1, <3>1, GraphFacts
    <3>4. ASSUME NEW q \in (p + 1)..m, Var(td[q]) = j, Quiet(td, p, q)
          PROVE  q \in (p + 1)..(m + k) /\ Var(tf[q]) = j /\ Quiet(tf, p, q)
      <4>1. q \in 1..m /\ q \in (p + 1)..(m + k) /\ p \in 0..m
        BY <1>2, <1>4, <3>1
      <4>2. QED BY <1>9, <1>14, <3>4, <4>1
    <3>5. QED BY <1>12, <3>2, <3>3, <3>4
  <2>4. QED BY <2>2, <2>3
<1>19. PathFollowsEdges(es, tf)
  <2>1. SUFFICES ASSUME NEW p \in 1..(m + k), NEW q \in 1..(m + k), tf[p] < 0, p < q, Quiet(tf, p, q)
                 PROVE  Depends(es, -tf[p], Var(tf[q]))
    BY <1>5 DEF PathFollowsEdges
  <2>2. CASE p = m
    <3>1. q - m \in 1..k /\ m + (q - m) = q
      BY <1>2, <1>4, <2>1, <2>2
    <3>2. up[q - m] \in Range(up)
      BY <1>4, <3>1 DEF Range
    <3>3. Var(tf[q]) = up[q - m]
      BY <1>5, <1>10, <3>1
    <3>4. -tf[p] = x
      BY <1>3, <1>5, <2>2
    <3>5. QED BY <3>2, <3>3, <3>4 DEF Successors
  <2>3. CASE p # m
    <3>1. p \in 1..(m - 1) /\ p \in 1..m /\ td[p] = tf[p]
      BY <1>6, <1>15, <2>1, <2>3
    <3>2. q \in 1..m
      <4>1. SUFFICES ASSUME q > m
                     PROVE  FALSE
        BY <1>2, <1>4
      <4>2. m \in (p + 1)..(q - 1)
        BY <1>2, <1>4, <3>1, <4>1
      <4>3. tf[m] > 0
        BY <2>1, <4>2 DEF Quiet
      <4>4. QED BY <1>3, <1>5, <4>3
    <3>3. Quiet(td, p, q) /\ Var(tf[q]) = Var(td[q])
      BY <1>2, <1>9, <1>14, <2>1, <3>1, <3>2
    <3>4. QED BY <1>1, <2>1, <3>1, <3>2, <3>3 DEF PathFollowsEdges, m
  <2>4. QED BY <2>2, <2>3
<1>20. NoneForgotten(n, mf, tf)
  <2>1. SUFFICES ASSUME NEW i \in 1..n, mf[i] # 2
                 PROVE  \E q \in 1..(m + k) : Var(tf[q]) = i /\ Quiet(tf, 0, q)
    BY <1>5 DEF NoneForgotten
  <2>2. PICK q \in 1..m : Var(td[q]) = i /\ Quiet(td, 0, q)
    BY <1>1, <1>12, <2>1 DEF NoneForgotten, m
  <2>3. q \in 1..(m + k) /\ 0 \in 0..m
    BY <1>2, <1>4
  <2>4. QED BY <1>9, <1>14, <2>2, <2>3
<1>21. DoneSound(n, es, mf)
  <2>1. Done(n, mf) = Done(n, mk)
    BY <1>12 DEF Done
  <2>2. QED BY <1>1, <2>1 DEF DoneSound
<1>22. QED BY <1>1, <1>13, <1>17, <1>18, <1>19, <1>20, <1>21 DEF Stack

----------------------------------------------------------------------------
(* A cycle is met.                                                         *)

\* The elements ch, being visited from place s of the stack on, lead in a circle,
\* and the first of them is on top again.
IsCycle(n, es, td, s, ch) ==
  /\ s \in 1..(Len(td) - 1) /\ td[s] = -td[Len(td)]
  /\ ch \in Seq(1..n) /\ Len(ch) > 1 /\ ch[1] = td[Len(td)]
  /\ \A i \in 1..n : i \in Range(ch) <=> \E p \in s..(Len(td) - 1) : td[p] = -i
  /\ \A k \in DOMAIN ch : Depends(es, ch[k], Following(ch, k))

LEMMA CycleIsOnStack ==
  ASSUME NEW n, n = Len(tes), Elements = 1..n, Stack(n, edges, mark, todo),
         Len(todo) > 0, Top > 0, mark[Top] = 1
  PROVE  IsCycle(n, edges, todo, CycleStart, CycleChain)
<1> DEFINE m == Len(todo)
           x == todo[m]
           s == CycleStart
           f == Front(todo)
           I == {i \in 1..Len(f) : f[i] = -x}
<1>1. /\ n \in Nat /\ GraphOn(edges, n) /\ StackTyped(n, mark, todo) /\ VisitedOnce(n, mark, todo)
      /\ PathFollowsEdges(edges, todo)
  BY DEF Stack
<1>2. /\ m \in Nat /\ DOMAIN todo = 1..m
      /\ \A p \in 1..m : /\ todo[p] \in Int /\ Var(todo[p]) \in 1..n
                         /\ todo[p] < 0 => todo[p] = -Var(todo[p]) /\ -todo[p] = Var(todo[p])
                         /\ ~(todo[p] < 0) => todo[p] > 0 /\ todo[p] = Var(todo[p])
  BY <1>1, StackFacts
<1>3. Top = x /\ m \in 1..m /\ m > 0 /\ x \in 1..n /\ Var(x) = x /\ x > 0 /\ mark[x] = 1
  <2>1. Top = x
    BY DEF Top, Last
  <2>2. QED BY <1>2, <2>1 DEF Var
<1>4. f \in Seq(Literals(1..n)) /\ Len(f) = m - 1 /\ \A p \in 1..(m - 1) : f[p] = todo[p]
  <2>1. m - 1 \in Nat /\ m - 1 <= Len(todo) /\ \A p \in 1..(m - 1) : todo[p] \in Literals(1..n)
    BY <1>1, <1>2, <1>3 DEF StackTyped
  <2>2. f = SubSeq(todo, 1, m - 1)
    BY DEF Front
  <2> HIDE DEF f, m
  <2>3. QED BY <1>1, <2>1, <2>2, SubSeqProperties DEF StackTyped
<1>5. s = IF I # {} THEN Max(I) ELSE 0
  BY <1>3 DEF CycleStart, SelectLastInSeq
<1> HIDE DEF f, m, x, s
<1>6. I # {} /\ I \subseteq 1..(m - 1) /\ IsFiniteSet(I)
  <2>1. PICK p \in 1..m : todo[p] = -x
    BY <1>1, <1>3 DEF VisitedOnce, m
  <2>2. p # m /\ p \in 1..(m - 1)
    BY <1>2, <1>3, <2>1 DEF x
  <2>3. p \in I
    BY <1>4, <2>1, <2>2
  <2>4. I \subseteq 1..(m - 1)
    BY <1>4
  <2>5. IsFiniteSet(1..(m - 1))
    BY <1>2, FS_Interval
  <2>6. QED BY <2>3, <2>4, <2>5, FS_Subset
<1> HIDE DEF I
<1>7. s \in 1..(m - 1) /\ todo[s] = -x
  <2>1. I \subseteq 0..m
    BY <1>2, <1>6
  <2>2. Max(I) \in I
    BY <1>2, <1>6, <2>1, MaxIsGreatest
  <2>3. s \in I
    BY <1>5, <1>6, <2>2
  <2>4. s \in 1..(m - 1) /\ f[s] = -x
    BY <1>6, <2>3 DEF I
  <2>5. QED BY <1>4, <2>4
<1> DEFINE neg == {-i : i \in 1..n}
           t == SubSeq(todo, s, m - 1)
           o == Only(t, neg)
           c == CycleChain
           k == Len(o)
<1>8. t \in Seq(Int) /\ Len(t) = m - s /\ \A j \in 1..(m - s) : t[j] = todo[s + j - 1]
  <2>1. \A p \in s..(m - 1) : todo[p] \in Int
    BY <1>2, <1>7
  <2>2. s \in Int /\ m - 1 \in Int /\ s <= m - 1 /\ (m - 1) - s + 1 = m - s
    BY <1>2, <1>7
  <2>3. QED BY <2>1, <2>2, SubSeqProperties
<1> HIDE DEF t
<1>9. \A j \in 1..(m - s) : s + j - 1 \in s..(m - 1) /\ s + j - 1 \in 1..m
  BY <1>2, <1>7
<1>10. \A p \in 1..m : todo[p] \in neg <=> todo[p] < 0
  <2>1. TAKE p \in 1..m
  <2>2. todo[p] < 0 => Var(todo[p]) \in 1..n /\ todo[p] = -Var(todo[p])
    BY <1>2
  <2>3. \A i \in 1..n : -i < 0
    BY <1>1
  <2>4. QED BY <2>2, <2>3
<1>11. o \in Seq(Int) /\ Range(o) = Range(t) \cap neg
  BY <1>8, OnlyPicks
<1>12. c = [j \in DOMAIN o |-> -o[j]]
  BY <1>1 DEF CycleChain, o, t, m, neg, s
<1>13. PICK at : Places(at, o, t, neg, Len(t))
  BY <1>8, OnlyPlaces
<1> HIDE DEF o, c
<1>14. k \in Nat /\ DOMAIN o = 1..k
  BY <1>11
<1>15. /\ at \in [1..k -> 1..(m - s)] /\ \A j \in 1..k : t[at[j]] = o[j]
       /\ \A i, j \in 1..k : i < j => at[i] < at[j]
       /\ \A j \in 1..(m - s) : t[j] \in neg => \E i \in 1..k : at[i] = j
  BY <1>8, <1>13 DEF Places
<1> HIDE DEF k
<1> DEFINE place(j) == s + at[j] - 1
<1>16. ASSUME NEW j \in 1..k
       PROVE  /\ place(j) \in s..(m - 1) /\ place(j) \in 1..m /\ todo[place(j)] = o[j]
              /\ o[j] < 0 /\ c[j] = -o[j] /\ c[j] \in 1..n /\ o[j] = -c[j]
  <2>1. at[j] \in 1..(m - s)
    BY <1>15
  <2>2. place(j) \in s..(m - 1) /\ place(j) \in 1..m /\ todo[place(j)] = o[j]
    BY <1>8, <1>9, <1>15, <2>1
  <2>3. o[j] \in neg
    BY <1>11, <1>14 DEF Range
  <2>4. o[j] \in Int /\ o[j] < 0 /\ -o[j] \in 1..n
    <3>1. PICK i \in 1..n : o[j] = -i
      BY <2>3
    <3>2. QED BY <1>1, <3>1
  <2>5. c[j] = -o[j]
    BY <1>12, <1>14
  <2>6. -c[j] = o[j]
    <3>1. -(-o[j]) = o[j]
      BY <2>4
    <3>2. QED BY <2>5, <3>1
  <2> HIDE DEF place
  <2>7. QED BY <2>2, <2>4, <2>5, <2>6
<1>17. c \in Seq(1..n) /\ Len(c) = k /\ DOMAIN c = 1..k
  <2>1. c = [j \in 1..k |-> -o[j]] /\ \A j \in 1..k : -o[j] \in 1..n
    BY <1>12, <1>14, <1>16
  <2>2. QED BY <1>14, <2>1 DEF k
<1>18. \A p \in s..(m - 1) : todo[p] < 0 => \E j \in 1..k : place(j) = p
  <2>1. SUFFICES ASSUME NEW p \in s..(m - 1), todo[p] < 0
                 PROVE  \E j \in 1..k : place(j) = p
    OBVIOUS
  <2> DEFINE r == p - s + 1
  <2>2. r \in 1..(m - s) /\ s + r - 1 = p /\ p \in 1..m
    BY <1>2, <1>7
  <2>3. t[r] \in neg
    BY <1>8, <1>10, <2>1, <2>2
  <2>4. PICK j \in 1..k : at[j] = r
    BY <1>15, <2>2, <2>3
  <2>5. QED BY <2>2, <2>4
<1>19. ASSUME NEW i \in 1..k, NEW j \in 1..k, i < j
       PROVE  place(i) < place(j)
  <2>1. at[i] \in 1..(m - s) /\ at[j] \in 1..(m - s) /\ at[i] < at[j]
    BY <1>15, <1>19
  <2>2. at[i] \in Int /\ at[j] \in Int /\ s \in Int
    BY <1>2, <1>7, <2>1
  <2>3. s + at[i] - 1 < s + at[j] - 1
    BY <2>1, <2>2
  <2>4. QED BY <2>3
<1> HIDE DEF place
<1>20. \A i, j \in 1..k : place(i) < place(j) => i < j
  <2>1. SUFFICES ASSUME NEW i \in 1..k, NEW j \in 1..k, place(i) < place(j), ~(i < j)
                 PROVE  FALSE
    OBVIOUS
  <2>2. i = j \/ j < i
    BY <1>14, <2>1
  <2>3. place(i) \in Int /\ place(j) \in Int
    BY <1>2, <1>7, <1>16
  <2>4. QED BY <1>19, <2>1, <2>2, <2>3
<1>21. k >= 1 /\ place(1) = s
  <2>1. s \in s..(m - 1) /\ todo[s] < 0
    BY <1>1, <1>2, <1>3, <1>7
  <2>2. PICK j \in 1..k : place(j) = s
    BY <1>18, <2>1
  <2>3. 1 \in 1..k /\ k >= 1 /\ (j = 1 \/ 1 < j)
    BY <1>14
  <2>4. 1 < j => place(1) < s
    BY <1>19, <2>2, <2>3
  <2>5. place(1) \in s..(m - 1)
    BY <1>16, <2>3
  <2>6. QED BY <1>2, <1>7, <2>2, <2>3, <2>4, <2>5
<1>22. c[1] = x
  <2>1. 1 \in 1..k
    BY <1>14, <1>21
  <2>2. o[1] = -x
    BY <1>7, <1>16, <1>21, <2>1
  <2>3. QED BY <1>1, <1>3, <1>16, <2>1, <2>2
<1>23. ASSUME NEW j \in 1..(k - 1)
       PROVE  Depends(edges, c[j], c[j + 1])
  <2>1. j \in 1..k /\ j + 1 \in 1..k /\ j < j + 1
    BY <1>14
  <2> DEFINE p == place(j)
             q == place(j + 1)
  <2>2. /\ p \in 1..m /\ q \in 1..m /\ p < q /\ todo[p] < 0 /\ todo[p] = o[j] /\ todo[q] = o[j + 1]
        /\ p \in s..(m - 1) /\ q \in s..(m - 1)
    BY <1>16, <1>19, <2>1
  <2> HIDE DEF p, q
  <2>3. Quiet(todo, p, q)
    <3>1. SUFFICES ASSUME NEW r \in (p + 1)..(q - 1), ~(todo[r] > 0)
                   PROVE  FALSE
      BY DEF Quiet
    <3>2. r \in s..(m - 1) /\ r \in 1..m /\ p < r /\ r < q
      BY <1>2, <1>7, <2>2
    <3>3. todo[r] < 0
      BY <1>2, <3>1, <3>2
    <3>4. PICK i \in 1..k : place(i) = r
      BY <1>18, <3>2, <3>3
    <3>5. j < i /\ i < j + 1
      BY <1>20, <2>1, <3>2, <3>4 DEF p, q
    <3>6. QED BY <1>14, <3>5
  <2>4. Depends(edges, -todo[p], Var(todo[q]))
    BY <1>1, <2>2, <2>3 DEF PathFollowsEdges, m
  <2>5. -todo[p] = c[j]
    BY <1>16, <2>1, <2>2
  <2>6. Var(todo[q]) = c[j + 1]
    <3>1. o[j + 1] < 0 /\ c[j + 1] = -o[j + 1]
      BY <1>16, <2>1
    <3>2. QED BY <1>2, <2>2, <3>1
  <2>7. QED BY <2>4, <2>5, <2>6
<1>24. Depends(edges, c[k], x)
  <2>1. k \in 1..k
    BY <1>14, <1>21
  <2> DEFINE p == place(k)
  <2>2. p \in 1..m /\ p < m /\ todo[p] < 0 /\ todo[p] = o[k] /\ p \in s..(m - 1)
    BY <1>2, <1>16, <2>1
  <2> HIDE DEF p
  <2>3. Quiet(todo, p, m)
    <3>1. SUFFICES ASSUME NEW r \in (p + 1)..(m - 1), ~(todo[r] > 0)
                   PROVE  FALSE
      BY DEF Quiet
    <3>2. r \in s..(m - 1) /\ r \in 1..m /\ p < r
      BY <1>2, <1>7, <2>2
    <3>3. todo[r] < 0
      BY <1>2, <3>1, <3>2
    <3>4. PICK i \in 1..k : place(i) = r
      BY <1>18, <3>2, <3>3
    <3>5. k < i
      BY <1>20, <2>1, <3>2, <3>4 DEF p
    <3>6. QED BY <1>14, <3>5
  <2>4. Depends(edges, -todo[p], Var(todo[m]))
    BY <1>1, <1>3, <2>2, <2>3 DEF PathFollowsEdges, m
  <2>5. -todo[p] = c[k] /\ Var(todo[m]) = x
    BY <1>3, <1>16, <2>1, <2>2 DEF x
  <2>6. QED BY <2>4, <2>5
<1>25. k > 1
  <2>1. SUFFICES ASSUME k = 1
                 PROVE  FALSE
    BY <1>14, <1>21
  <2>2. Depends(edges, x, x)
    BY <1>22, <1>24, <2>1
  <2>3. QED BY <1>1, <1>3, <2>2, GraphFacts
<1>26. \A j \in DOMAIN c : Depends(edges, c[j], Following(c, j))
  <2>1. TAKE j \in DOMAIN c
  <2>2. CASE j = k
    BY <1>17, <1>22, <1>24, <2>2 DEF Following
  <2>3. CASE j # k
    <3>1. j \in 1..(k - 1)
      BY <1>14, <1>17, <2>3
    <3>2. QED BY <1>17, <1>23, <2>3, <3>1 DEF Following
  <2>4. QED BY <2>2, <2>3
<1>27. \A i \in 1..n : i \in Range(c) <=> \E p \in s..(m - 1) : todo[p] = -i
  <2>1. TAKE i \in 1..n
  <2>2. ASSUME NEW j \in 1..k, c[j] = i
        PROVE  \E p \in s..(m - 1) : todo[p] = -i
    BY <1>16, <2>2
  <2>3. ASSUME NEW p \in s..(m - 1), todo[p] = -i
        PROVE  \E j \in 1..k : c[j] = i
    <3>1. todo[p] < 0
      BY <1>1, <2>3
    <3>2. PICK j \in 1..k : place(j) = p
      BY <1>18, <3>1
    <3>3. -c[j] = -i /\ c[j] \in 1..n
      BY <1>16, <2>3, <3>2
    <3>4. QED BY <1>1, <3>3
  <2>4. i \in Range(c) <=> \E j \in 1..k : c[j] = i
    BY <1>17 DEF Range
  <2>5. QED BY <2>2, <2>3, <2>4
<1>28. QED BY <1>7, <1>17, <1>22, <1>25, <1>26, <1>27 DEF IsCycle, m, x, s, c

\* One edge of the cycle is broken, and the search is taken up again at its
\* start.
Renewed(n, mk, R) == [i \in 1..n |-> IF i \in R THEN 0 ELSE mk[i]]
Shortened(td, s) == Append(SubSeq(td, 1, s - 1), td[Len(td)])

LEMMA BreaksCycle ==
  ASSUME NEW n, NEW es, NEW mk, NEW td, Stack(n, es, mk, td), Len(td) > 0,
         NEW s, NEW ch, IsCycle(n, es, td, s, ch),
         NEW l, l \in DOMAIN ch, NEW e, e \in DOMAIN es[ch[l]],
         NEW fs, fs = Breaking(es, ch[l], e),
         NEW mf, mf = Renewed(n, mk, Range(ch)),
         NEW tf, tf = Shortened(td, s)
  PROVE  Stack(n, fs, mf, tf)
<1> DEFINE m == Len(td)
           x == td[m]
           R == Range(ch)
<1>1. /\ n \in Nat /\ GraphOn(es, n) /\ StackTyped(n, mk, td) /\ VisitedOnce(n, mk, td)
      /\ NoneMissed(es, mk, td) /\ PathFollowsEdges(es, td) /\ NoneForgotten(n, mk, td)
      /\ DoneSound(n, es, mk)
  BY DEF Stack
<1>2. /\ m \in Nat /\ DOMAIN td = 1..m /\ \A i \in 1..n : mk[i] \in 0..2
      /\ \A p \in 1..m : /\ td[p] \in Int /\ Var(td[p]) \in 1..n
                         /\ td[p] < 0 => td[p] = -Var(td[p]) /\ -td[p] = Var(td[p])
                         /\ ~(td[p] < 0) => td[p] > 0 /\ td[p] = Var(td[p])
  BY <1>1, StackFacts
<1>3. /\ s \in 1..(m - 1) /\ td[s] = -x /\ ch \in Seq(1..n) /\ Len(ch) > 1 /\ ch[1] = x
      /\ \A i \in 1..n : i \in R <=> \E p \in s..(m - 1) : td[p] = -i
  BY DEF IsCycle
<1>4. x \in 1..n /\ x > 0 /\ x \in Int /\ Len(ch) \in Nat /\ DOMAIN ch = 1..Len(ch)
  BY SMTT(30), <1>1, <1>3
<1>5. ch[l] \in 1..n /\ ch[l] \in R /\ R \subseteq 1..n
  BY <1>3, <1>4, RangeFacts
<1>6. /\ GraphOn(fs, n)
      /\ \A i \in 1..n : /\ Successors(fs, i) \subseteq Successors(es, i)
                         /\ i # ch[l] => fs[i] = es[i] /\ Successors(fs, i) = Successors(es, i)
  BY SMTT(30), <1>1, <1>5, Breaks
<1> HIDE DEF m, x, R
<1>7. s \in Nat /\ s > 0 /\ s < m /\ s \in 1..m /\ s \in 1..s
  BY <1>2, <1>3
<1>8. td[s] < 0 /\ Var(td[s]) = x
  BY <1>2, <1>3, <1>4, <1>7
<1>9. tf \in Seq(Literals(1..n)) /\ Len(tf) = s /\ tf[s] = x /\ \A p \in 1..(s - 1) : tf[p] = td[p]
  <2> DEFINE f == SubSeq(td, 1, s - 1)
  <2>1. /\ s - 1 \in Nat /\ s - 1 <= Len(td) /\ \A p \in 1..(s - 1) : td[p] \in Literals(1..n)
        /\ x \in Literals(1..n)
    BY <1>1, <1>2, <1>4, <1>7 DEF StackTyped, m, Literals
  <2>2. f \in Seq(Literals(1..n)) /\ Len(f) = s - 1 /\ \A p \in 1..(s - 1) : f[p] = td[p]
    BY <1>1, <2>1, SubSeqProperties DEF StackTyped
  <2>3. tf = Append(f, x)
    BY DEF x, m, Shortened
  <2> HIDE DEF f
  <2>4. tf \in Seq(Literals(1..n)) /\ Len(tf) = s /\ tf[s] = x
    BY <1>7, <2>1, <2>2, <2>3
  <2>5. \A p \in 1..(s - 1) : tf[p] = f[p]
    BY <1>7, <2>1, <2>2, <2>3
  <2>6. QED BY <2>2, <2>4, <2>5
<1>10. \A p \in 1..s : p \in 1..m /\ (p # s => p \in 1..(s - 1)) /\ (p < s => p # s)
  BY <1>2, <1>7
<1>11. \A p \in 1..s : Var(tf[p]) = Var(td[p]) /\ (tf[p] < 0 => p # s /\ p < s /\ tf[p] = td[p])
  <2>1. TAKE p \in 1..s
  <2>2. CASE p = s
    BY <1>4, <1>8, <1>9, <2>2 DEF Var
  <2>3. CASE p # s
    <3>1. tf[p] = td[p] /\ p < s
      BY <1>7, <1>9, <1>10, <2>3
    <3>2. QED BY <2>3, <3>1
  <2>4. QED BY <2>2, <2>3
<1>12. \A p \in 0..s, q \in 1..s : Quiet(tf, p, q) <=> Quiet(td, p, q)
  <2>1. TAKE p \in 0..s, q \in 1..s
  <2>2. \A r \in (p + 1)..(q - 1) : r \in 1..(s - 1)
    BY <1>7
  <2>3. QED BY <1>9, <2>2 DEF Quiet
<1>13. \A p \in 0..(s - 1) : \A q \in (p + 1)..m : Quiet(td, p, q) => q \in (p + 1)..s /\ q \in 1..s
  <2>1. SUFFICES ASSUME NEW p \in 0..(s - 1), NEW q \in (p + 1)..m, Quiet(td, p, q)
                 PROVE  q \in (p + 1)..s /\ q \in 1..s
    OBVIOUS
  <2>2. ~(q > s)
    <3>1. SUFFICES ASSUME q > s
                   PROVE  FALSE
      OBVIOUS
    <3>2. s \in (p + 1)..(q - 1)
      BY <1>2, <1>7, <3>1
    <3>3. td[s] > 0
      BY <2>1, <3>2 DEF Quiet
    <3>4. QED BY <1>2, <1>7, <1>8, <3>3
  <2>3. QED BY <1>2, <1>7, <2>2
\* What was entered before the cycle is not on it.
<1>14. ASSUME NEW p \in 1..(s - 1), NEW i \in 1..n, td[p] = -i
       PROVE  i \notin R
  <2>1. SUFFICES ASSUME i \in R
                 PROVE  FALSE
    OBVIOUS
  <2>2. PICK q \in s..(m - 1) : td[q] = -i
    BY <1>3, <2>1
  <2>3. p \in 1..m /\ q \in 1..m /\ p # q
    BY SMTT(30), <1>2, <1>7
  <2>4. td[p] < 0
    BY <1>14
  <2>5. QED BY <1>1, <1>14, <2>2, <2>3, <2>4 DEF VisitedOnce, m
<1>15. \A i \in 1..n : i \in R => mk[i] = 1
  <2>1. SUFFICES ASSUME NEW i \in 1..n, i \in R
                 PROVE  mk[i] = 1
    OBVIOUS
  <2>2. PICK q \in s..(m - 1) : td[q] = -i
    BY <1>3, <2>1
  <2>3. q \in 1..m
    BY <1>2, <1>7
  <2>4. QED BY <1>1, <2>2, <2>3 DEF VisitedOnce, m
<1>16. \A i \in 1..n : mf[i] = IF i \in R THEN 0 ELSE mk[i]
  BY DEF R, Renewed
<1>17. \A i \in 1..n : mf[i] \in 0..2 /\ (mf[i] = 2 <=> mk[i] = 2)
  BY <1>2, <1>15, <1>16
<1>18. StackTyped(n, mf, tf)
  <2>1. mf = [i \in 1..n |-> mf[i]]
    BY DEF Renewed
  <2>2. QED BY <1>9, <1>17, <2>1 DEF StackTyped
<1>19. VisitedOnce(n, mf, tf)
  <2>1. ASSUME NEW i \in 1..n
        PROVE  mf[i] = 1 <=> \E p \in 1..s : tf[p] = -i
    <3>1. ASSUME NEW p \in 1..s, tf[p] = -i
          PROVE  p \in 1..(s - 1) /\ td[p] = -i /\ p \in 1..m
      <4>1. tf[p] < 0
        BY <1>1, <3>1
      <4>2. QED BY <1>10, <1>11, <3>1, <4>1
    <3>2. ASSUME mf[i] = 1
          PROVE  \E p \in 1..s : tf[p] = -i
      <4>1. i \notin R /\ mk[i] = 1
        BY <1>16, <3>2
      <4>2. PICK p \in 1..m : td[p] = -i
        BY <1>1, <4>1 DEF VisitedOnce, m
      <4>3. p \notin s..(m - 1)
        BY <1>3, <4>1, <4>2
      <4>4. p # m
        BY <1>4, <4>2 DEF x
      <4>5. p \in 1..(s - 1) /\ p \in 1..s
        BY <1>2, <1>7, <4>3, <4>4
      <4>6. QED BY <1>9, <4>2, <4>5
    <3>3. ASSUME NEW p \in 1..s, tf[p] = -i
          PROVE  mf[i] = 1
      <4>1. p \in 1..(s - 1) /\ td[p] = -i /\ p \in 1..m
        BY <3>1, <3>3
      <4>2. mk[i] = 1 /\ i \notin R
        BY <1>1, <1>14, <4>1 DEF VisitedOnce, m
      <4>3. QED BY <1>16, <4>2
    <3>4. QED BY <3>2, <3>3
  <2>2. ASSUME NEW p \in 1..s, NEW q \in 1..s, tf[p] < 0, tf[p] = tf[q]
        PROVE  p = q
    <3>1. td[p] < 0 /\ td[p] = td[q] /\ p \in 1..m /\ q \in 1..m
      BY <1>10, <1>11, <2>2
    <3>2. QED BY <1>1, <3>1 DEF VisitedOnce, m
  <2>3. QED BY <1>9, <2>1, <2>2 DEF VisitedOnce
<1>20. ASSUME NEW p \in 1..s, tf[p] < 0
       PROVE  /\ p \in 1..m /\ p \in 1..(s - 1) /\ p \in 0..(s - 1) /\ p \in 0..s /\ td[p] = tf[p]
              /\ td[p] < 0 /\ -td[p] \in 1..n /\ -td[p] # ch[l]
  <2>1. p \in 1..m /\ p \in 1..(s - 1) /\ td[p] = tf[p] /\ td[p] < 0
    BY <1>10, <1>11, <1>20
  <2>2. -td[p] \in 1..n /\ td[p] = -(-td[p])
    BY <1>2, <2>1
  <2>3. -td[p] \notin R
    BY <1>14, <2>1, <2>2
  <2>4. p \in 0..(s - 1) /\ p \in 0..s
    BY <1>7, <2>1
  <2>5. QED BY <1>5, <2>1, <2>2, <2>3, <2>4
<1>21. NoneMissed(fs, mf, tf)
  <2>1. SUFFICES ASSUME NEW p \in 1..s, tf[p] < 0, NEW k \in Successors(fs, -tf[p])
                 PROVE  mf[k] = 2 \/ \E q \in (p + 1)..s : Var(tf[q]) = k /\ Quiet(tf, p, q)
    BY <1>9 DEF NoneMissed
  <2>2. /\ p \in 1..m /\ p \in 0..(s - 1) /\ p \in 0..s /\ td[p] = tf[p] /\ td[p] < 0 /\ -td[p] \in 1..n
    BY <1>20, <2>1
  <2>3. k \in Successors(es, -td[p])
    BY <1>6, <2>1, <2>2
  <2>4. k \in 1..n
    BY <1>1, <2>2, <2>3, GraphFacts
  <2>5. mk[k] = 2 \/ \E q \in (p + 1)..m : Var(td[q]) = k /\ Quiet(td, p, q)
    BY <1>1, <2>2, <2>3 DEF NoneMissed, m
  <2>6. ASSUME NEW q \in (p + 1)..m, Var(td[q]) = k, Quiet(td, p, q)
        PROVE  \E r \in (p + 1)..s : Var(tf[r]) = k /\ Quiet(tf, p, r)
    <3>1. q \in (p + 1)..s /\ q \in 1..s
      BY <1>13, <2>2, <2>6
    <3>2. QED BY <1>11, <1>12, <2>2, <2>6, <3>1
  <2>7. QED BY <1>17, <2>4, <2>5, <2>6
<1>22. PathFollowsEdges(fs, tf)
  <2>1. SUFFICES ASSUME NEW p \in 1..s, NEW q \in 1..s, tf[p] < 0, p < q, Quiet(tf, p, q)
                 PROVE  Depends(fs, -tf[p], Var(tf[q]))
    BY <1>9 DEF PathFollowsEdges
  <2>2. /\ p \in 1..m /\ p \in 0..s /\ td[p] = tf[p] /\ td[p] < 0 /\ -td[p] \in 1..n /\ -td[p] # ch[l]
        /\ q \in 1..m
    BY <1>10, <1>20, <2>1
  <2>3. Quiet(td, p, q) /\ Var(tf[q]) = Var(td[q])
    BY <1>11, <1>12, <2>1, <2>2
  <2>4. Depends(es, -td[p], Var(td[q]))
    BY <1>1, <2>1, <2>2, <2>3 DEF PathFollowsEdges, m
  <2>5. fs[-td[p]] = es[-td[p]]
    BY <1>6, <2>2
  <2>6. QED BY <2>2, <2>3, <2>4, <2>5 DEF Depends
<1>23. NoneForgotten(n, mf, tf)
  <2>1. SUFFICES ASSUME NEW i \in 1..n, mf[i] # 2
                 PROVE  \E q \in 1..s : Var(tf[q]) = i /\ Quiet(tf, 0, q)
    BY <1>9 DEF NoneForgotten
  <2>2. PICK q \in 1..m : Var(td[q]) = i /\ Quiet(td, 0, q)
    BY <1>1, <1>17, <2>1 DEF NoneForgotten, m
  <2>3. 0 \in 0..(s - 1) /\ 0 \in 0..s /\ q \in (0 + 1)..m
    BY <1>2, <1>7
  <2>4. q \in 1..s
    BY <1>13, <2>2, <2>3
  <2>5. QED BY <1>11, <1>12, <2>2, <2>3, <2>4
<1>24. DoneSound(n, fs, mf)
  <2>1. Done(n, mf) = Done(n, mk)
    BY <1>17 DEF Done
  <2>2. ASSUME NEW i \in Done(n, mk)
        PROVE  Successors(fs, i) \subseteq Done(n, mk) /\ i \notin Reached(fs, Successors(fs, i))
    <3>1. i \in 1..n
      BY DEF Done
    <3>2. Successors(es, i) \subseteq Done(n, mk) /\ i \notin Reached(es, Successors(es, i))
      BY <1>1 DEF DoneSound
    <3>3. /\ Successors(fs, i) \subseteq Successors(es, i)
          /\ Successors(es, i) \in SUBSET (1..n) /\ Successors(fs, i) \in SUBSET (1..n)
      BY <1>1, <1>6, <3>1, GraphFacts
    <3>4. Reached(fs, Successors(fs, i)) \subseteq Reached(es, Successors(es, i))
      BY SMTT(30), <1>1, <1>6, <3>3, FewerReached
    <3>5. QED BY <3>2, <3>3, <3>4
  <2>3. QED BY <2>1, <2>2 DEF DoneSound
<1>25. QED BY <1>1, <1>6, <1>18, <1>19, <1>21, <1>22, <1>23, <1>24 DEF Stack

----------------------------------------------------------------------------
(* Lists of lists.                                                         *)

\* f[k] is what the first k lists of ss make one after the other.
FlatSteps(f, ss, T) ==
  /\ f \in [0..Len(ss) -> Seq(T)] /\ f[0] = <<>> /\ FlattenSeq(ss) = f[Len(ss)]
  /\ \A k \in 1..Len(ss) : f[k] = f[k - 1] \o ss[k]

LEMMA FlattenBuilds ==
  ASSUME NEW T, NEW ss \in Seq(Seq(T))
  PROVE  \E f : FlatSteps(f, ss, T)
<1> DEFINE n == Len(ss)
           step == [kx \in (1..n) \X Seq(T) |-> kx[2] \o ss[kx[1]]]
<1>1. n \in Nat /\ <<>> \in Seq(T) /\ \A k \in 1..n : ss[k] \in Seq(T)
  OBVIOUS
<1>2. step \in [(1..n) \X Seq(T) -> Seq(T)]
  <2>1. ASSUME NEW k \in 1..n, NEW x \in Seq(T)
        PROVE  x \o ss[k] \in Seq(T)
    BY <1>1
  <2>2. QED BY <2>1
<1> HIDE DEF step, n
<1>3. PICK f : Built(f, n, Seq(T), <<>>, step)
  BY <1>1, <1>2, Iterates
<1>4. \A k \in 1..n : f[k] \in Seq(T) /\ f[k] = f[k - 1] \o ss[k]
  <2>1. TAKE k \in 1..n
  <2>2. f[k - 1] \in Seq(T) /\ f[k] \in Seq(T)
    BY <1>1, <1>3 DEF Built
  <2>3. step[<<k, f[k - 1]>>] = f[k - 1] \o ss[k]
    BY <2>2 DEF step
  <2>4. QED BY <1>3, <2>2, <2>3 DEF Built
<1>5. CASE n = 0
  <2>1. FlattenSeq(ss) = f[n]
    <3>1. FlattenSeq(ss) = ss
      BY <1>5 DEF FlattenSeq, n
    <3>2. ss = <<>>
      BY <1>5 DEF n
    <3>3. QED BY <1>3, <1>5, <3>1, <3>2 DEF Built
  <2>2. FlatSteps(f, ss, T)
    BY <1>3, <1>4, <2>1 DEF Built, FlatSteps, n
  <2>3. QED BY <2>2
<1>6. CASE n # 0
  <2> DEFINE Rec(g) == g = [k \in 1..n |-> IF k = 1 THEN ss[k] ELSE g[k - 1] \o ss[k]]
             h == [k \in 1..n |-> f[k]]
             rhs == [k \in 1..n |-> IF k = 1 THEN ss[k] ELSE h[k - 1] \o ss[k]]
  <2>1. ASSUME NEW k \in 1..n
        PROVE  h[k] = rhs[k]
    <3>1. CASE k = 1
      <4>1. f[1] = <<>> \o ss[1]
        <5>1. k - 1 = 0 /\ f[0] = <<>>
          BY <1>3, <3>1 DEF Built
        <5>2. f[k] = f[k - 1] \o ss[k]
          BY <1>4
        <5>3. QED BY <3>1, <5>1, <5>2
      <4>2. <<>> \o ss[1] = ss[1]
        BY <1>1, <3>1
      <4>3. QED BY <3>1, <4>1, <4>2
    <3>2. CASE k # 1
      <4>1. k - 1 \in 1..n
        BY <1>1, <3>2
      <4>2. h[k - 1] = f[k - 1]
        BY <4>1
      <4>3. QED BY <1>4, <3>2, <4>2
    <3>3. QED BY <3>1, <3>2
  <2>2. rhs = [k \in 1..n |-> rhs[k]] /\ h = [k \in 1..n |-> h[k]]
    OBVIOUS
  <2>3. h[n] = f[n]
    BY <1>1, <1>6
  <2>4. Rec(h)
    <3>1. h = rhs
      <4> HIDE DEF h, rhs
      <4>1. QED BY <2>1, <2>2
    <3>2. QED BY <3>1 DEF rhs
  <2> HIDE DEF h, rhs
  <2> DEFINE o == CHOOSE g : Rec(g)
  <2>5. FlattenSeq(ss) = o[n]
    BY <1>6 DEF FlattenSeq, n
  <2>6. Rec(o)
    <3> HIDE DEF Rec
    <3>1. QED BY <2>4
  <2> HIDE DEF o
  <2> DEFINE P == {k \in 0..n : k = 0 \/ o[k] = f[k]}
  <2>7. 0 \in P
    BY <1>1
  <2>8. ASSUME NEW k \in 1..n, k - 1 \in P
        PROVE  k \in P
    <3>1. o[k] = IF k = 1 THEN ss[k] ELSE o[k - 1] \o ss[k]
      BY <2>6
    <3>2. CASE k = 1
      <4>1. f[1] = <<>> \o ss[1]
        <5>1. k - 1 = 0 /\ f[0] = <<>>
          BY <1>3, <3>2 DEF Built
        <5>2. f[k] = f[k - 1] \o ss[k]
          BY <1>4
        <5>3. QED BY <3>2, <5>1, <5>2
      <4>2. <<>> \o ss[1] = ss[1]
        BY <1>1, <3>2
      <4>3. QED BY <1>1, <3>1, <3>2, <4>1, <4>2
    <3>3. CASE k # 1
      <4>1. o[k - 1] = f[k - 1]
        BY <1>1, <2>8, <3>3
      <4>2. o[k] = f[k]
        BY <1>4, <3>1, <3>3, <4>1
      <4>3. k \in 0..n
        BY <1>1
      <4>4. QED BY <4>2, <4>3
    <3>4. QED BY <3>2, <3>3
  <2>9. n \in P
    <3> HIDE DEF P
    <3>1. \A k \in 1..n : k - 1 \in P => k \in P
      BY <2>8
    <3>2. 0..n \subseteq P
      BY <1>1, <2>7, <3>1, UpTo
    <3>3. QED BY <1>1, <3>2
  <2>10. FlattenSeq(ss) = f[n]
    BY <1>6, <2>5, <2>9
  <2>11. FlatSteps(f, ss, T)
    BY <1>3, <1>4, <2>10 DEF Built, FlatSteps, n
  <2>12. QED BY <2>11
<1>7. QED BY <1>5, <1>6

LEMMA FlattenTyped ==
  ASSUME NEW T, NEW ss \in Seq(Seq(T))
  PROVE  FlattenSeq(ss) \in Seq(T)
<1>1. PICK f : FlatSteps(f, ss, T)
  BY FlattenBuilds
<1>2. Len(ss) \in 0..Len(ss)
  OBVIOUS
<1>3. QED BY <1>1, <1>2 DEF FlatSteps

\* off[k] is the length of what the first k lists of ss make; z is what all make.
Blocks(off, ss, z) ==
  /\ off \in [0..Len(ss) -> Nat] /\ off[0] = 0 /\ Len(z) = off[Len(ss)]
  /\ \A k \in 1..Len(ss) : off[k] = off[k - 1] + Len(ss[k])
  /\ \A k, l \in 0..Len(ss) : k <= l => off[k] <= off[l]
  /\ \A k \in 1..Len(ss) : \A j \in 1..Len(ss[k]) : z[off[k - 1] + j] = ss[k][j]
  /\ \A a \in 1..Len(z) : \E k \in 1..Len(ss) : \E j \in 1..Len(ss[k]) : a = off[k - 1] + j

LEMMA FlatBlocks ==
  ASSUME NEW T, NEW ss, ss \in Seq(Seq(T))
  PROVE  \E off : Blocks(off, ss, FlattenSeq(ss))
<1> DEFINE n == Len(ss)
           z == FlattenSeq(ss)
<1>1. PICK f : FlatSteps(f, ss, T)
  BY FlattenBuilds
<1>2. n \in Nat /\ \A k \in 1..n : ss[k] \in Seq(T) /\ Len(ss[k]) \in Nat
  OBVIOUS
<1>3. /\ f \in [0..n -> Seq(T)] /\ f[0] = <<>> /\ z = f[n]
      /\ \A k \in 1..n : f[k] = f[k - 1] \o ss[k]
  BY <1>1 DEF FlatSteps
<1> DEFINE off == [k \in 0..n |-> Len(f[k])]
<1> HIDE DEF n, z
<1>4. \A k \in 0..n : f[k] \in Seq(T) /\ off[k] = Len(f[k]) /\ off[k] \in Nat
  <2>1. \A k \in 0..n : f[k] \in Seq(T)
    BY <1>3
  <2>2. QED BY <2>1
<1>5. off \in [0..n -> Nat]
  <2>1. off = [k \in 0..n |-> off[k]]
    OBVIOUS
  <2> HIDE DEF off
  <2>2. QED BY <1>4, <2>1
<1> HIDE DEF off
<1>6. off[0] = 0
  BY <1>2, <1>3, <1>4
<1>7. ASSUME NEW k \in 1..n
      PROVE  /\ k - 1 \in 0..n /\ k \in 0..n /\ off[k] = off[k - 1] + Len(ss[k])
             /\ \A a \in 1..off[k - 1] : f[k][a] = f[k - 1][a]
             /\ \A j \in 1..Len(ss[k]) : f[k][off[k - 1] + j] = ss[k][j]
  <2> DEFINE x == f[k - 1]
             y == ss[k]
  <2>1. k - 1 \in 0..n /\ k \in 0..n
    BY <1>2
  <2>2. x \in Seq(T) /\ y \in Seq(T) /\ f[k] = x \o y /\ Len(x) = off[k - 1] /\ Len(x) \in Nat /\ Len(y) \in Nat
    BY <1>2, <1>3, <1>4, <2>1
  <2> HIDE DEF x, y
  <2>3. /\ Len(x \o y) = Len(x) + Len(y)
        /\ \A a \in 1..(Len(x) + Len(y)) : (x \o y)[a] = IF a <= Len(x) THEN x[a] ELSE y[a - Len(x)]
    BY <2>2, ConcatProperties
  <2> DEFINE lx == Len(x)
             ly == Len(y)
  <2> lx \in Nat /\ ly \in Nat
    BY <2>2
  <2> HIDE DEF lx, ly
  <2>4. \A a \in 1..lx : a \in 1..(lx + ly) /\ a <= lx
    OBVIOUS
  <2>5. \A j \in 1..ly : lx + j \in 1..(lx + ly) /\ ~(lx + j <= lx) /\ (lx + j) - lx = j
    OBVIOUS
  <2>6. off[k] = Len(x \o y)
    BY <1>4, <2>1, <2>2
  <2>7. \A a \in 1..lx : f[k][a] = x[a]
    BY <2>2, <2>3, <2>4 DEF lx, ly
  <2>8. \A j \in 1..ly : f[k][lx + j] = y[j]
    BY <2>2, <2>3, <2>5 DEF lx, ly
  <2>9. off[k] = off[k - 1] + Len(y)
    BY <2>2, <2>3, <2>6
  <2>10. lx = off[k - 1]
    BY <2>2 DEF lx
  <2>11. QED BY <2>1, <2>7, <2>8, <2>9, <2>10 DEF x, y, ly
\* What the first k lists make begins what more of them make.
<1>8. ASSUME NEW m \in 0..n
      PROVE  \A k \in 0..m : off[k] <= off[m] /\ \A a \in 1..off[k] : f[m][a] = f[k][a]
  <2> DEFINE Good(i) == \A k \in 0..i : off[k] <= off[i] /\ \A a \in 1..off[k] : f[i][a] = f[k][a]
             P == {i \in 0..n : Good(i)}
  <2>1. 0 \in P
    <3>1. Good(0)
      BY <1>4, <1>6
    <3>2. QED BY <1>2, <3>1
  <2>2. ASSUME NEW i \in 1..n, i - 1 \in P
        PROVE  i \in P
    <3>1. Good(i - 1) /\ i \in 0..n
      BY <1>2, <2>2
    <3>2. ASSUME NEW k \in 0..i
          PROVE  off[k] <= off[i] /\ \A a \in 1..off[k] : f[i][a] = f[k][a]
      <4>1. CASE k = i
        BY <1>4, <3>1, <4>1
      <4>2. CASE k # i
        <5>1. k \in 0..(i - 1) /\ k \in 0..n /\ i - 1 \in 0..n /\ i \in 0..n
          BY <1>2, <4>2
        <5>2. off[k] \in Nat /\ off[i - 1] \in Nat /\ off[i] \in Nat /\ Len(ss[i]) \in Nat
          BY <1>2, <1>4, <5>1
        <5>3. off[k] <= off[i - 1] /\ \A a \in 1..off[k] : f[i - 1][a] = f[k][a]
          BY <3>1, <5>1
        <5>4. off[i] = off[i - 1] + Len(ss[i]) /\ \A a \in 1..off[i - 1] : f[i][a] = f[i - 1][a]
          BY <1>7
        <5>5. off[k] <= off[i] /\ 1..off[k] \subseteq 1..off[i - 1]
          BY <5>2, <5>3, <5>4
        <5>6. QED BY <5>3, <5>4, <5>5
      <4>3. QED BY <4>1, <4>2
    <3>3. Good(i)
      BY <3>2
    <3>4. QED BY <3>1, <3>3
  <2> HIDE DEF Good
  <2>3. m \in Nat /\ \A i \in 1..m : i \in 1..n
    BY <1>2
  <2>4. \A i \in 1..m : i - 1 \in P => i \in P
    BY <2>2, <2>3
  <2> HIDE DEF P
  <2>5. m \in P
    <3>1. 0..m \subseteq P
      BY <2>1, <2>3, <2>4, UpTo
    <3>2. m \in 0..m
      BY <2>3
    <3>3. QED BY <3>1, <3>2
  <2>6. QED BY <2>5 DEF P, Good
<1>9. \A k, l \in 0..n : k <= l => off[k] <= off[l]
  <2>1. TAKE k, l \in 0..n
  <2>2. SUFFICES ASSUME k <= l
                 PROVE  off[k] <= off[l]
    OBVIOUS
  <2>3. k \in 0..l
    BY <1>2, <2>2
  <2>4. QED BY <1>8, <2>3
<1>10. ASSUME NEW k \in 1..n, NEW j \in 1..Len(ss[k])
       PROVE  z[off[k - 1] + j] = ss[k][j]
  <2>1. k \in 0..n /\ n \in 0..n /\ off[k - 1] \in Nat /\ Len(ss[k]) \in Nat /\ off[k] = off[k - 1] + Len(ss[k])
    BY <1>2, <1>4, <1>7
  <2>2. off[k - 1] + j \in 1..off[k]
    BY <2>1
  <2>3. f[n][off[k - 1] + j] = f[k][off[k - 1] + j]
    BY <1>8, <2>1, <2>2
  <2>4. QED BY <1>3, <1>7, <2>3
<1>11. \A a \in 1..off[n] : \E k \in 1..n : \E j \in 1..Len(ss[k]) : a = off[k - 1] + j
  <2> DEFINE Good(i) == \A a \in 1..off[i] : \E k \in 1..n : \E j \in 1..Len(ss[k]) : a = off[k - 1] + j
             P == {i \in 0..n : Good(i)}
  <2>1. 0 \in P
    BY <1>2, <1>6
  <2>2. ASSUME NEW i \in 1..n, i - 1 \in P
        PROVE  i \in P
    <3>1. Good(i - 1) /\ i \in 0..n
      BY <1>2, <2>2
    <3>2. off[i - 1] \in Nat /\ Len(ss[i]) \in Nat /\ off[i] = off[i - 1] + Len(ss[i])
      BY <1>2, <1>4, <1>7
    <3>3. ASSUME NEW a \in 1..off[i]
          PROVE  \E k \in 1..n : \E j \in 1..Len(ss[k]) : a = off[k - 1] + j
      <4>1. CASE a <= off[i - 1]
        <5>1. a \in 1..off[i - 1]
          BY <3>2, <4>1
        <5>2. QED BY <3>1, <5>1
      <4>2. CASE ~(a <= off[i - 1])
        <5>1. a - off[i - 1] \in 1..Len(ss[i]) /\ a = off[i - 1] + (a - off[i - 1])
          BY <3>2, <4>2
        <5>2. QED BY <5>1
      <4>3. QED BY <4>1, <4>2
    <3>4. QED BY <3>1, <3>3
  <2> HIDE DEF Good
  <2>3. n \in P
    <3>1. \A i \in 1..n : i - 1 \in P => i \in P
      BY <2>2
    <3>2. n \in Nat
      BY <1>2
    <3> HIDE DEF P, n
    <3>3. 0..n \subseteq P
      BY <2>1, <3>1, <3>2, UpTo
    <3>4. n \in 0..n
      BY <3>2
    <3>5. QED BY <3>3, <3>4
  <2>4. QED BY <2>3 DEF P, Good
<1>12. Len(z) = off[n]
  BY <1>2, <1>3, <1>4
<1>13. Blocks(off, ss, z)
  BY <1>5, <1>6, <1>7, <1>9, <1>10, <1>11, <1>12 DEF Blocks, n
<1>14. QED BY <1>13 DEF z

\* What is in one of several lists is in the list they make.
LEMMA FlattenHas ==
  ASSUME NEW T, NEW ss, ss \in Seq(Seq(T)), NEW k \in DOMAIN ss, NEW j \in DOMAIN ss[k]
  PROVE  \E c \in DOMAIN FlattenSeq(ss) : FlattenSeq(ss)[c] = ss[k][j]
<1> DEFINE z == FlattenSeq(ss)
           n == Len(ss)
<1>1. PICK off : Blocks(off, ss, z)
  BY FlatBlocks
<1>2. z \in Seq(T)
  BY FlattenTyped
<1> HIDE DEF z
<1>3. n \in Nat /\ k \in 1..n /\ ss[k] \in Seq(T) /\ Len(ss[k]) \in Nat /\ j \in 1..Len(ss[k])
  OBVIOUS
<1> HIDE DEF n
<1> DEFINE m == Len(ss[k])
           o == off[k - 1]
<1>4. k - 1 \in 0..n /\ k \in 0..n /\ n \in 0..n /\ k <= n
  BY <1>3
<1>5. off[k] = o + m /\ o \in Nat /\ off[k] \in Nat /\ off[k] <= off[n] /\ off[n] = Len(z)
  BY <1>1, <1>3, <1>4 DEF Blocks, n
<1>6. z[o + j] = ss[k][j]
  BY <1>1, <1>3 DEF Blocks, n
<1> HIDE DEF o, m
<1>7. m \in Nat /\ j \in 1..m
  BY <1>3 DEF m
<1>8. o + j \in 1..Len(z)
  BY <1>5, <1>7
<1>9. DOMAIN z = 1..Len(z)
  BY <1>2
<1>10. QED BY <1>6, <1>8, <1>9 DEF z

\* A sequence made place by place from another one.
LEMMA MappedTyped ==
  ASSUME NEW S, NEW s \in Seq(S), NEW T, NEW f, f = [j \in DOMAIN s |-> f[j]],
         \A j \in DOMAIN s : f[j] \in T
  PROVE  f \in Seq(T) /\ DOMAIN f = DOMAIN s /\ Len(f) = Len(s)
<1>1. Len(s) \in Nat /\ DOMAIN s = 1..Len(s)
  OBVIOUS
<1>2. f = [j \in 1..Len(s) |-> f[j]] /\ \A j \in 1..Len(s) : f[j] \in T
  BY <1>1
<1>3. f \in Seq(T) /\ Len(f) = Len(s)
  BY <1>1, <1>2
<1>4. QED BY <1>1, <1>2, <1>3

----------------------------------------------------------------------------
(* Edges are added.                                                        *)

\* The calls of addteedge in a graph on n elements, with bits of B.
Calls(n, B) == (1..n) \X (1..n) \X B

\* The reasons for an edge, and the bits of those that bind a cycle together.
ReasonBits == {TYPE_CON, TYPE_REQ_P, TYPE_PREREQ_P, TYPE_REQ, TYPE_PREREQ}
CycleBits == {TYPE_CYCLETAIL, TYPE_CYCLEHEAD}

LEMMA BitsAdded ==
  ReasonBits \subseteq EdgeBits \ {TYPE_BROKEN} /\ CycleBits \subseteq EdgeBits \ {TYPE_BROKEN}
BY DEF ReasonBits, CycleBits, EdgeBits, TYPE_BROKEN, TYPE_CON, TYPE_REQ_P, TYPE_PREREQ_P, TYPE_REQ,
       TYPE_PREREQ, TYPE_CYCLETAIL, TYPE_CYCLEHEAD

CallsOf(calls, i) == {calls[c][2] : c \in {d \in DOMAIN calls : calls[d][1] = i}}

\* Edges that are there stay, those of the calls are added.
LEMMA AddsEdges ==
  ASSUME NEW n \in Nat, NEW es, GraphOn(es, n), NEW B, B \subseteq EdgeBits \ {TYPE_BROKEN},
         NEW calls \in Seq(Calls(n, B))
  PROVE  /\ GraphOn(addteedges(es, calls), n)
         /\ \A i \in 1..n :
              /\ Successors(es, i) \subseteq Successors(addteedges(es, calls), i)
              /\ Successors(addteedges(es, calls), i) \subseteq Successors(es, i) \cup CallsOf(calls, i)
         /\ PlacesKept(n, es, addteedges(es, calls), B)
         /\ \A i \in 1..n : \A j \in DOMAIN addteedges(es, calls)[i] :
              j \notin DOMAIN es[i] => addteedges(es, calls)[i][j].type # {}
         /\ OneEdgeEach(n, es) => OneEdgeEach(n, addteedges(es, calls))
<1> DEFINE bits(i, k) == {calls[c][3] : c \in {d \in DOMAIN calls : calls[d][1] = i /\ calls[d][2] = k}}
           known(i) == {es[i][j].to : j \in DOMAIN es[i]} \cup {i}
           first(i) == {c \in DOMAIN calls :
                          /\ calls[c][1] = i /\ calls[c][2] \notin known(i)
                          /\ \A d \in 1..(c - 1) : calls[d][1] = i => calls[d][2] # calls[c][2]}
           fresh(i) == Only([c \in DOMAIN calls |-> c], first(i))
           a(i) == [j \in DOMAIN es[i] |-> [es[i][j] EXCEPT !.type = @ \cup bits(i, es[i][j].to)]]
           b(i) == [j \in DOMAIN fresh(i) |->
                      [to |-> calls[fresh(i)[j]][2], type |-> bits(i, calls[fresh(i)[j]][2])]]
           fs == addteedges(es, calls)
<1>1. /\ DOMAIN es = 1..n
      /\ \A i \in 1..n : /\ es[i] \in Seq(EdgeLists(n)) /\ Len(es[i]) \in Nat
                         /\ DOMAIN es[i] = 1..Len(es[i])
      /\ \A i \in 1..n : \A j \in DOMAIN es[i] : /\ es[i][j] \in EdgeLists(n) /\ es[i][j].to \in 1..n
                                                 /\ es[i][j].to # i
  BY GraphFacts DEF GraphOn
<1>2. fs = [i \in 1..n |-> a(i) \o b(i)]
  BY <1>1 DEF addteedges
<1>3. /\ Len(calls) \in Nat /\ DOMAIN calls = 1..Len(calls)
      /\ \A c \in DOMAIN calls : /\ calls[c][1] \in 1..n /\ calls[c][2] \in 1..n
                                 /\ calls[c][3] \in B
  BY DEF Calls
<1> HIDE DEF fs
<1>4. \A i, k : bits(i, k) \subseteq B /\ bits(i, k) \subseteq EdgeBits /\ TYPE_BROKEN \notin bits(i, k)
  BY <1>3
<1>5. \A c \in DOMAIN calls : bits(calls[c][1], calls[c][2]) # {}
  OBVIOUS
<1> HIDE DEF bits
<1>6. ASSUME NEW i \in 1..n
      PROVE  /\ a(i) \in Seq(EdgeLists(n)) /\ DOMAIN a(i) = DOMAIN es[i]
             /\ \A j \in DOMAIN es[i] : /\ a(i)[j].to = es[i][j].to
                                        /\ Unbroken(a(i)[j]) <=> Unbroken(es[i][j])
                                        /\ a(i)[j].type \ B = es[i][j].type \ B
  <2>1. ASSUME NEW j \in DOMAIN es[i]
        PROVE  /\ a(i)[j] \in EdgeLists(n) /\ a(i)[j].to = es[i][j].to
               /\ Unbroken(a(i)[j]) <=> Unbroken(es[i][j])
               /\ a(i)[j].type \ B = es[i][j].type \ B
    BY <1>1, <1>4 DEF EdgeLists, Unbroken
  <2>2. DOMAIN a(i) = DOMAIN es[i] /\ a(i) = [j \in DOMAIN es[i] |-> a(i)[j]]
    OBVIOUS
  <2> HIDE DEF a
  <2>3. a(i) \in Seq(EdgeLists(n))
    BY <1>1, <2>1, <2>2, MappedTyped
  <2>4. QED BY <1>1, <2>1, <2>2, <2>3
<1>7. ASSUME NEW i \in 1..n
      PROVE  /\ b(i) \in Seq(EdgeLists(n))
             /\ \A j \in DOMAIN b(i) : /\ b(i)[j].to # i /\ b(i)[j].to \in CallsOf(calls, i)
                                       /\ b(i)[j].type \subseteq B /\ b(i)[j].type # {}
                                       /\ b(i)[j].to \notin known(i)
             /\ \A j, k \in DOMAIN b(i) : b(i)[j].to = b(i)[k].to => j = k
  <2> DEFINE id == [c \in DOMAIN calls |-> c]
  <2>1. id \in Seq(DOMAIN calls)
    BY <1>3
  <2> HIDE DEF id, first
  <2>2. /\ fresh(i) \in Seq(DOMAIN calls) /\ Range(fresh(i)) \subseteq first(i)
        /\ \A j, k \in DOMAIN fresh(i) : fresh(i)[j] = fresh(i)[k] => j = k
    <3>1. \A j, k \in DOMAIN id : id[j] = id[k] => j = k
      BY DEF id
    <3>2. id \in Seq(DOMAIN calls)
      BY <2>1
    <3> DEFINE o == Only(id, first(i))
    <3>3. /\ o \in Seq(DOMAIN calls) /\ Range(o) = Range(id) \cap first(i)
          /\ \A j, k \in DOMAIN o : o[j] = o[k] => j = k
      BY <3>1, <3>2, OnlyPicks
    <3> HIDE DEF o
    <3>4. fresh(i) = o
      BY DEF o, id
    <3> HIDE DEF fresh
    <3>5. QED BY <3>3, <3>4
  <2>3. Len(fresh(i)) \in Nat /\ DOMAIN fresh(i) = 1..Len(fresh(i))
    BY <2>2
  <2>4. \A j \in DOMAIN fresh(i) : fresh(i)[j] \in first(i)
    BY <2>2 DEF Range
  <2> HIDE DEF fresh
  <2>5. ASSUME NEW j \in DOMAIN fresh(i)
        PROVE  /\ b(i)[j] \in EdgeLists(n) /\ b(i)[j].to # i /\ b(i)[j].to \in CallsOf(calls, i)
               /\ b(i)[j].type \subseteq B /\ b(i)[j].type # {} /\ b(i)[j].to \notin known(i)
               /\ b(i)[j].to = calls[fresh(i)[j]][2]
    <3>1. /\ fresh(i)[j] \in DOMAIN calls /\ calls[fresh(i)[j]][1] = i
          /\ calls[fresh(i)[j]][2] # i /\ calls[fresh(i)[j]][2] \notin known(i)
      BY <2>4 DEF first
    <3>2. calls[fresh(i)[j]][2] \in 1..n /\ calls[fresh(i)[j]][2] \in CallsOf(calls, i)
      BY <1>3, <3>1 DEF CallsOf
    <3>3. bits(i, calls[fresh(i)[j]][2]) # {}
      BY <1>5, <3>1
    <3> HIDE DEF known
    <3>4. QED BY <1>4, <3>1, <3>2, <3>3 DEF EdgeLists
  <2>9. ASSUME NEW j \in DOMAIN fresh(i), NEW k \in DOMAIN fresh(i), b(i)[j].to = b(i)[k].to
        PROVE  j = k
    <3> DEFINE c == fresh(i)[j]
               d == fresh(i)[k]
    <3>1. /\ c \in DOMAIN calls /\ calls[c][1] = i /\ d \in DOMAIN calls /\ calls[d][1] = i
          /\ \A x \in 1..(c - 1) : calls[x][1] = i => calls[x][2] # calls[c][2]
          /\ \A x \in 1..(d - 1) : calls[x][1] = i => calls[x][2] # calls[d][2]
      BY <2>4 DEF first
    <3>2. calls[c][2] = calls[d][2]
      BY <2>5, <2>9
    <3> HIDE DEF c, d
    <3>3. c \in 1..Len(calls) /\ d \in 1..Len(calls)
      BY <1>3, <3>1
    <3>4. ~(c < d) /\ ~(d < c)
      <4>1. ASSUME c < d
            PROVE  FALSE
        <5>1. c \in 1..(d - 1)
          BY <1>3, <3>3, <4>1
        <5>2. calls[c][2] # calls[d][2]
          BY <3>1, <5>1
        <5>3. QED BY <3>2, <5>2
      <4>2. ASSUME d < c
            PROVE  FALSE
        <5>1. d \in 1..(c - 1)
          BY <1>3, <3>3, <4>2
        <5>2. calls[d][2] # calls[c][2]
          BY <3>1, <5>1
        <5>3. QED BY <3>2, <5>2
      <4>3. QED BY <4>1, <4>2
    <3>5. c = d
      BY <1>3, <3>3, <3>4
    <3>6. QED BY <2>2, <3>5 DEF c, d
  <2>6. DOMAIN b(i) = 1..Len(fresh(i)) /\ b(i) = [j \in 1..Len(fresh(i)) |-> b(i)[j]]
    BY <2>3
  <2> HIDE DEF b
  <2>7. b(i) \in Seq(EdgeLists(n))
    BY <2>3, <2>5, <2>6
  <2>8. QED BY <2>3, <2>5, <2>6, <2>7, <2>9
<1> HIDE DEF a, b
<1>8. ASSUME NEW i \in 1..n
      PROVE  /\ fs[i] \in Seq(EdgeLists(n))
             /\ \A j \in DOMAIN es[i] : j \in DOMAIN fs[i] /\ fs[i][j] = a(i)[j]
             /\ \A j \in DOMAIN fs[i] : j \notin DOMAIN es[i] =>
                  j - Len(es[i]) \in DOMAIN b(i) /\ fs[i][j] = b(i)[j - Len(es[i])]
  <2> DEFINE x == a(i)
             y == b(i)
             z == x \o y
  <2>1. x \in Seq(EdgeLists(n)) /\ y \in Seq(EdgeLists(n)) /\ DOMAIN x = DOMAIN es[i]
    BY <1>6, <1>7
  <2>2. fs[i] = z
    BY <1>2
  <2> HIDE DEF x, y
  <2>3. Len(x) \in Nat /\ Len(y) \in Nat /\ DOMAIN x = 1..Len(x) /\ DOMAIN y = 1..Len(y)
    BY <2>1
  <2>4. z \in Seq(EdgeLists(n)) /\ Len(z) = Len(x) + Len(y) /\ DOMAIN z = 1..(Len(x) + Len(y))
    BY <2>1, ConcatProperties
  <2>5. \A j \in 1..Len(x) : z[j] = x[j]
    BY <2>1
  <2>6. \A k \in 1..Len(y) : z[Len(x) + k] = y[k]
    BY <2>1
  <2> HIDE DEF z
  <2>7. \A j \in DOMAIN x : j \in DOMAIN z
    BY <2>3, <2>4
  <2>8. ASSUME NEW j \in DOMAIN z, j \notin DOMAIN x
        PROVE  j - Len(x) \in DOMAIN y /\ z[j] = y[j - Len(x)]
    <3>1. j - Len(x) \in 1..Len(y) /\ Len(x) + (j - Len(x)) = j
      BY <2>3, <2>4, <2>8
    <3>2. QED BY <2>3, <2>6, <3>1
  <2>9. Len(x) = Len(es[i])
    <3>1. Len(es[i]) \in Nat /\ DOMAIN es[i] = 1..Len(es[i])
      BY <1>1
    <3>2. 1..Len(x) = 1..Len(es[i])
      BY <2>1, <2>3, <3>1
    <3>3. \A v, u \in Nat : 1..v = 1..u => ~(v < u) /\ ~(u < v)
      <4>1. ASSUME NEW v \in Nat, NEW u \in Nat, v < u
            PROVE  u \in 1..u /\ u \notin 1..v
        BY <4>1
      <4>2. QED BY <4>1
    <3>4. QED BY <2>3, <3>1, <3>2, <3>3
  <2>10. QED BY <2>1, <2>2, <2>3, <2>4, <2>5, <2>7, <2>8, <2>9 DEF x, y
<1> HIDE DEF known
<1>9. ASSUME NEW i \in 1..n, NEW j \in DOMAIN fs[i], j \notin DOMAIN es[i]
       PROVE  \E k \in DOMAIN b(i) : fs[i][j] = b(i)[k]
  BY <1>8, <1>9
<1>10. ASSUME NEW i \in 1..n, NEW k \in DOMAIN b(i)
       PROVE  b(i)[k].to # i /\ b(i)[k].to \in CallsOf(calls, i)
  BY <1>7
<1>11. DOMAIN fs = 1..n
  BY <1>2
<1>12. GraphOn(fs, n)
  <2>1. fs \in [1..n -> Seq(EdgeLists(n))]
    <3>1. fs = [i \in 1..n |-> fs[i]]
      BY <1>2
    <3>2. QED BY <1>8, <3>1
  <2>2. ASSUME NEW i \in 1..n, NEW j \in DOMAIN fs[i]
        PROVE  fs[i][j].to # i
    <3>1. CASE j \in DOMAIN es[i]
      BY SMTT(30), <1>1, <1>6, <1>8, <3>1
    <3>2. CASE j \notin DOMAIN es[i]
      BY <1>9, <1>10, <3>2
    <3>3. QED BY <3>1, <3>2
  <2>3. QED BY <2>1, <2>2 DEF GraphOn
<1>13. ASSUME NEW i \in 1..n
       PROVE  Successors(es, i) \subseteq Successors(fs, i)
  <2>1. SUFFICES ASSUME NEW k \in 1..n, Depends(es, i, k)
                 PROVE  Depends(fs, i, k)
    BY <1>1, <1>11 DEF Successors
  <2>2. PICK j \in DOMAIN es[i] : es[i][j].to = k /\ Unbroken(es[i][j])
    BY <2>1 DEF Depends
  <2>3. j \in DOMAIN fs[i] /\ fs[i][j].to = k /\ Unbroken(fs[i][j])
    <3>1. j \in DOMAIN fs[i] /\ fs[i][j] = a(i)[j]
      BY <1>8
    <3>2. a(i)[j].to = es[i][j].to /\ Unbroken(a(i)[j])
      BY <1>6, <2>2
    <3>3. QED BY <2>2, <3>1, <3>2
  <2>4. QED BY <2>3 DEF Depends
<1>14. ASSUME NEW i \in 1..n
       PROVE  Successors(fs, i) \subseteq Successors(es, i) \cup CallsOf(calls, i)
  <2>1. SUFFICES ASSUME NEW k \in 1..n, Depends(fs, i, k)
                 PROVE  Depends(es, i, k) \/ k \in CallsOf(calls, i)
    BY <1>1, <1>11 DEF Successors
  <2>2. PICK j \in DOMAIN fs[i] : fs[i][j].to = k /\ Unbroken(fs[i][j])
    BY <2>1 DEF Depends
  <2>3. CASE j \in DOMAIN es[i]
    <3>1. fs[i][j] = a(i)[j]
      BY <1>8, <2>3
    <3>2. a(i)[j].to = es[i][j].to /\ (Unbroken(a(i)[j]) => Unbroken(es[i][j]))
      BY <1>6, <2>3
    <3>3. es[i][j].to = k /\ Unbroken(es[i][j])
      BY <2>2, <3>1, <3>2
    <3>4. QED BY <2>3, <3>3 DEF Depends
  <2>4. CASE j \notin DOMAIN es[i]
    BY <1>9, <1>10, <2>2, <2>4
  <2>5. QED BY <2>3, <2>4
<1>15. ASSUME NEW i \in 1..n
       PROVE  /\ \A j \in DOMAIN es[i] : /\ j \in DOMAIN fs[i] /\ fs[i][j].to = es[i][j].to
                                         /\ fs[i][j].type \ B = es[i][j].type \ B
              /\ \A j \in DOMAIN fs[i] : j \notin DOMAIN es[i] =>
                   fs[i][j].type \subseteq B /\ fs[i][j].type # {} /\ fs[i][j].to \notin known(i)
  <2>1. ASSUME NEW j \in DOMAIN es[i]
        PROVE  /\ j \in DOMAIN fs[i] /\ fs[i][j].to = es[i][j].to
               /\ fs[i][j].type \ B = es[i][j].type \ B
    <3>1. j \in DOMAIN fs[i] /\ fs[i][j] = a(i)[j]
      BY <1>8
    <3>2. a(i)[j].to = es[i][j].to /\ a(i)[j].type \ B = es[i][j].type \ B
      BY <1>6
    <3>3. QED BY <3>1, <3>2
  <2>2. ASSUME NEW k \in DOMAIN b(i)
        PROVE  b(i)[k].type \subseteq B /\ b(i)[k].type # {} /\ b(i)[k].to \notin known(i)
    BY <1>7
  <2>3. QED BY <1>9, <2>1, <2>2
<1>16. \A i \in 1..n : \A j \in DOMAIN es[i] : es[i][j].to \in known(i)
  BY DEF known
<1>17. PlacesKept(n, es, fs, B)
  BY <1>15 DEF PlacesKept
<1>18. ASSUME OneEdgeEach(n, es), NEW i \in 1..n, NEW j \in DOMAIN fs[i], NEW k \in DOMAIN fs[i],
              fs[i][j].to = fs[i][k].to
       PROVE  j = k
  <2>1. CASE j \in DOMAIN es[i] /\ k \in DOMAIN es[i]
    BY <1>15, <1>18, <2>1 DEF OneEdgeEach
  <2>2. CASE j \in DOMAIN es[i] /\ k \notin DOMAIN es[i]
    <3>1. fs[i][k].to \notin known(i) /\ fs[i][j].to = es[i][j].to
      BY <1>15, <2>2
    <3>2. QED BY <1>18, <1>16, <2>2, <3>1
  <2>3. CASE j \notin DOMAIN es[i] /\ k \in DOMAIN es[i]
    <3>1. fs[i][j].to \notin known(i) /\ fs[i][k].to = es[i][k].to
      BY <1>15, <2>3
    <3>2. QED BY <1>18, <1>16, <2>3, <3>1
  <2>4. CASE j \notin DOMAIN es[i] /\ k \notin DOMAIN es[i]
    <3> DEFINE x == j - Len(es[i])
               y == k - Len(es[i])
    <3>1. x \in DOMAIN b(i) /\ fs[i][j] = b(i)[x] /\ y \in DOMAIN b(i) /\ fs[i][k] = b(i)[y]
      BY <1>8, <2>4
    <3> HIDE DEF x, y
    <3>2. x = y
      <4>1. \A v, u \in DOMAIN b(i) : b(i)[v].to = b(i)[u].to => v = u
        BY <1>7
      <4>2. b(i)[x].to = b(i)[y].to
        BY <1>18, <3>1
      <4>3. QED BY <3>1, <4>1, <4>2
    <3>3. j \in Int /\ k \in Int /\ Len(es[i]) \in Int
      <4>1. fs[i] \in Seq(EdgeLists(n))
        BY <1>8
      <4>2. DOMAIN fs[i] = 1..Len(fs[i]) /\ Len(fs[i]) \in Nat
        BY <4>1
      <4>3. QED BY <1>1, <4>2
    <3>4. QED BY <3>2, <3>3 DEF x, y
  <2>5. QED BY <2>1, <2>2, <2>3, <2>4
<1>19. OneEdgeEach(n, es) => OneEdgeEach(n, fs)
  BY <1>18 DEF OneEdgeEach
<1>20. QED BY <1>12, <1>13, <1>14, <1>15, <1>17, <1>19 DEF fs

\* A call of addteedge between two elements leaves an edge between them.
LEMMA CallAddsEdge ==
  ASSUME NEW n \in Nat, NEW es, GraphOn(es, n), NEW B, B \subseteq EdgeBits \ {TYPE_BROKEN},
         NEW calls \in Seq(Calls(n, B)), NEW c \in DOMAIN calls, calls[c][1] # calls[c][2]
  PROVE  \E j \in DOMAIN addteedges(es, calls)[calls[c][1]] :
           addteedges(es, calls)[calls[c][1]][j].to = calls[c][2]
<1> DEFINE i == calls[c][1]
           q == calls[c][2]
           fs == addteedges(es, calls)
           bits(k) == {calls[d][3] : d \in {x \in DOMAIN calls : calls[x][1] = i /\ calls[x][2] = k}}
           known == {es[i][j].to : j \in DOMAIN es[i]} \cup {i}
           first == {d \in DOMAIN calls :
                       /\ calls[d][1] = i /\ calls[d][2] \notin known
                       /\ \A x \in 1..(d - 1) : calls[x][1] = i => calls[x][2] # calls[d][2]}
           id == [d \in DOMAIN calls |-> d]
           fresh == Only(id, first)
           a == [j \in DOMAIN es[i] |-> [es[i][j] EXCEPT !.type = @ \cup bits(es[i][j].to)]]
           b == [j \in DOMAIN fresh |-> [to |-> calls[fresh[j]][2], type |-> bits(calls[fresh[j]][2])]]
<1>1. /\ Len(calls) \in Nat /\ DOMAIN calls = 1..Len(calls) /\ i \in 1..n /\ q \in 1..n
  BY DEF Calls
<1>2. DOMAIN es = 1..n /\ es[i] \in Seq(EdgeLists(n))
  BY <1>1, GraphFacts DEF GraphOn
<1>3. fs[i] = a \o b
  BY <1>1, <1>2 DEF addteedges
<1>4. PlacesKept(n, es, fs, B)
  BY AddsEdges
<1>5. CASE \E j \in DOMAIN es[i] : es[i][j].to = q
  <2> HIDE DEF fs, i, q
  <2>1. PICK j \in DOMAIN es[i] : es[i][j].to = q
    BY <1>5
  <2>2. j \in DOMAIN fs[i] /\ fs[i][j].to = q
    BY <1>1, <1>4, <2>1 DEF PlacesKept
  <2>3. QED BY <2>2 DEF fs, i, q
<1>6. CASE ~\E j \in DOMAIN es[i] : es[i][j].to = q
  <2> DEFINE D == {d \in DOMAIN calls : calls[d][1] = i /\ calls[d][2] = q}
  <2>1. D \subseteq Nat /\ c \in D
    BY <1>1
  <2>2. PICK m \in D : \A y \in D : m <= y
    <3> HIDE DEF D
    <3>1. QED BY <2>1, MinIsLeast
  <2>3. m \in DOMAIN calls /\ calls[m][1] = i /\ calls[m][2] = q
    OBVIOUS
  <2>4. ASSUME NEW x \in 1..(m - 1), calls[x][1] = i
        PROVE  calls[x][2] # q
    <3>1. x \in DOMAIN calls /\ ~(m <= x)
      BY <1>1, <2>3
    <3>2. QED BY <2>2, <2>4, <3>1
  <2>5. q \notin known
    BY <1>6
  <2> HIDE DEF known, D
  <2>6. m \in first
    BY <2>3, <2>4, <2>5
  <2>7. id \in Seq(DOMAIN calls) /\ m \in Range(id)
    BY <1>1, <2>3 DEF Range
  <2> HIDE DEF first, id
  <2>8. fresh \in Seq(DOMAIN calls) /\ m \in Range(fresh)
    BY <2>6, <2>7, OnlyPicks
  <2> HIDE DEF fresh
  <2>9. PICK j \in DOMAIN fresh : fresh[j] = m
    BY <2>8 DEF Range
  <2>10. Len(fresh) \in Nat /\ DOMAIN fresh = 1..Len(fresh)
    BY <2>8
  <2>11. b[j].to = q
    BY <2>3, <2>9
  <2>12. \E T : b \in Seq(T)
    <3>1. b = [k \in 1..Len(fresh) |-> b[k]]
      BY <2>10
    <3> HIDE DEF b
    <3>2. b \in Seq({b[k] : k \in 1..Len(fresh)})
      BY <2>10, <3>1
    <3>3. QED BY <3>2
  <2>13. DOMAIN b = 1..Len(fresh) /\ j \in DOMAIN b
    BY <2>9, <2>10
  <2>14. \E T : a \in Seq(T)
    <3>1. Len(es[i]) \in Nat /\ DOMAIN es[i] = 1..Len(es[i])
      BY <1>2
    <3>2. a = [k \in 1..Len(es[i]) |-> a[k]]
      BY <3>1
    <3> HIDE DEF a
    <3>3. a \in Seq({a[k] : k \in 1..Len(es[i])})
      BY <3>1, <3>2
    <3>4. QED BY <3>3
  <2> HIDE DEF a, b, fs, i, q
  <2>15. /\ Len(a) \in Nat /\ Len(b) \in Nat /\ DOMAIN b = 1..Len(b)
         /\ DOMAIN (a \o b) = 1..(Len(a) + Len(b)) /\ (a \o b)[Len(a) + j] = b[j]
    <3>1. PICK S : a \in Seq(S)
      BY <2>14
    <3>2. PICK T : b \in Seq(T)
      BY <2>12
    <3>3. Len(a) \in Nat /\ Len(b) \in Nat /\ DOMAIN b = 1..Len(b)
      BY <3>1, <3>2
    <3>4. QED BY <2>13, <3>1, <3>2, <3>3
  <2>16. Len(a) + j \in 1..(Len(a) + Len(b))
    BY <2>13, <2>15
  <2>17. QED BY <1>3, <2>11, <2>15, <2>16 DEF fs, i, q
<1>7. QED BY <1>5, <1>6

\* No cycle is closed by edges that lead from elements outside a set that leads
\* to itself only into that set.
LEMMA StaysAcyclic ==
  ASSUME NEW n \in Nat, NEW es, NEW fs, GraphOn(es, n), GraphOn(fs, n), Acyclic(es),
         NEW C, C \subseteq 1..n, Closed(es, C),
         \A i \in 1..n : Successors(fs, i) \subseteq IF i \in C THEN Successors(es, i)
                                                     ELSE Successors(es, i) \cup C
  PROVE  Acyclic(fs)
<1>1. DOMAIN es = 1..n /\ DOMAIN fs = 1..n /\ IsFiniteSet(1..n)
  BY GraphFacts
<1>2. SUFFICES ASSUME NEW i \in 1..n
               PROVE  i \notin Reached(fs, Successors(fs, i))
  BY <1>1 DEF Acyclic
<1> DEFINE R == Reached(es, Successors(es, i))
<1>3. Successors(es, i) \subseteq R /\ R \subseteq 1..n /\ Closed(es, R) /\ i \notin R
  BY <1>1, ReachedFacts DEF Acyclic, Successors
<1>4. CASE i \in C
  <2>1. R \subseteq C
    <3>1. Successors(es, i) \in SUBSET DOMAIN es
      BY DEF Successors
    <3>2. Successors(es, i) \subseteq C
      BY <1>4 DEF Closed
    <3>3. QED BY <1>1, <3>1, <3>2, ReachedLeast
  <2> HIDE DEF R
  <2>2. Closed(fs, R)
    BY <1>3, <2>1 DEF Closed
  <2>3. Successors(fs, i) \subseteq R
    BY <1>3, <1>4
  <2>4. QED BY <1>3, <2>2, <2>3, NotReached
<1>5. CASE i \notin C
  <2> HIDE DEF R
  <2>1. Closed(fs, R \cup C)
    BY <1>3 DEF Closed
  <2>2. Successors(fs, i) \subseteq R \cup C
    BY <1>3, <1>5
  <2>3. QED BY <1>3, <1>5, <2>1, <2>2, NotReached
<1>6. QED BY <1>4, <1>5

\* The elements that wait for the tail: those outside of what the cycle leads to
\* that need one of it.
LEMMA TailCalls ==
  ASSUME NEW n \in Nat, NEW es, GraphOn(es, n), NEW c \in Seq(1..n), Len(c) > 0,
         NEW C, C = Reached(es, Range(c))
  PROVE  /\ C \subseteq 1..n /\ Closed(es, C) /\ Range(c) \subseteq C
         /\ \E calls \in Seq(Calls(n, CycleBits)) :
              /\ TailEdges(es, c) = addteedges(es, calls)
              /\ \A i \in 1..n : CallsOf(calls, i) \subseteq IF i \in C THEN {} ELSE C
              /\ \A i \in 1..n \ C : \A k \in Range(Tail(c)) :
                   Depends(es, i, k) => c[1] \in CallsOf(calls, i)
<1> DEFINE S == {i \in DOMAIN es \ C : \E k \in Range(Tail(c)) : Depends(es, i, k)}
           id == [i \in DOMAIN es |-> i]
           wait == Only(id, S)
           calls == [k \in DOMAIN wait |-> <<wait[k], c[1], TYPE_CYCLETAIL>>]
<1>1. DOMAIN es = 1..n /\ IsFiniteSet(DOMAIN es) /\ id \in Seq(1..n) /\ \A i \in 1..n : i \in Range(id)
  <2>1. DOMAIN es = 1..n /\ IsFiniteSet(DOMAIN es)
    BY GraphFacts
  <2>2. id \in Seq(1..n) /\ \A i \in 1..n : id[i] = i /\ i \in DOMAIN id
    BY <2>1
  <2> HIDE DEF id
  <2>3. QED BY <2>1, <2>2 DEF Range
<1>2. Range(c) \subseteq 1..n /\ c[1] \in Range(c) /\ c[1] \in 1..n
  BY DEF Range
<1>3. Range(c) \subseteq C /\ C \subseteq 1..n /\ Closed(es, C)
  BY <1>1, <1>2, ReachedFacts
<1> HIDE DEF id
<1>4. wait \in Seq(1..n) /\ Range(wait) = Range(id) \cap S
  BY <1>1, OnlyPicks
<1> HIDE DEF wait
<1>5. /\ Len(wait) \in Nat /\ DOMAIN wait = 1..Len(wait)
      /\ \A k \in DOMAIN wait : wait[k] \in 1..n /\ wait[k] \notin C
  BY <1>4 DEF Range
<1>6. calls \in Seq(Calls(n, CycleBits)) /\ DOMAIN calls = DOMAIN wait
  <2>1. \A k \in DOMAIN wait : calls[k] \in Calls(n, CycleBits)
    BY <1>2, <1>5 DEF Calls, CycleBits
  <2>2. calls = [k \in 1..Len(wait) |-> calls[k]]
    BY <1>5
  <2> HIDE DEF calls
  <2>3. QED BY <1>5, <2>1, <2>2
<1>7. \A i \in 1..n : CallsOf(calls, i) \subseteq IF i \in C THEN {} ELSE C
  <2>1. ASSUME NEW i \in 1..n, NEW d \in DOMAIN calls, calls[d][1] = i
        PROVE  i \notin C /\ calls[d][2] \in C
    BY <1>2, <1>3, <1>5, <1>6, <2>1
  <2> HIDE DEF calls
  <2>2. QED BY <2>1 DEF CallsOf
<1>8. ASSUME NEW i \in 1..n \ C, NEW k \in Range(Tail(c)), Depends(es, i, k)
      PROVE  c[1] \in CallsOf(calls, i)
  <2>1. i \in S
    BY <1>1, <1>8
  <2> HIDE DEF S
  <2>2. i \in Range(wait)
    BY <1>1, <1>4, <2>1
  <2>3. PICK d \in DOMAIN wait : wait[d] = i
    BY <2>2 DEF Range
  <2>4. d \in DOMAIN calls /\ calls[d][1] = i /\ calls[d][2] = c[1]
    BY <1>6, <2>3
  <2> HIDE DEF calls
  <2>5. QED BY <2>4 DEF CallsOf
<1>9. TailEdges(es, c) = addteedges(es, calls)
  BY DEF TailEdges, calls, wait, S, id
<1> HIDE DEF calls
<1>10. QED BY <1>3, <1>6, <1>7, <1>8, <1>9

LEMMA TailKeeps ==
  ASSUME NEW n \in Nat, NEW es, GraphOn(es, n), Acyclic(es), NEW c \in Seq(1..n), Len(c) > 0
  PROVE  /\ GraphOn(TailEdges(es, c), n) /\ Acyclic(TailEdges(es, c))
         /\ PlacesKept(n, es, TailEdges(es, c), CycleBits)
<1> DEFINE C == Reached(es, Range(c))
<1>1. /\ C \subseteq 1..n /\ Closed(es, C)
      /\ \E calls \in Seq(Calls(n, CycleBits)) :
           /\ TailEdges(es, c) = addteedges(es, calls)
           /\ \A i \in 1..n : CallsOf(calls, i) \subseteq IF i \in C THEN {} ELSE C
  <2> HIDE DEF C
  <2>1. C = Reached(es, Range(c))
    BY DEF C
  <2>2. C \subseteq 1..n /\ Closed(es, C)
    BY <2>1, TailCalls
  <2>3. PICK calls \in Seq(Calls(n, CycleBits)) :
          /\ TailEdges(es, c) = addteedges(es, calls)
          /\ \A i \in 1..n : CallsOf(calls, i) \subseteq IF i \in C THEN {} ELSE C
    <3>1. PICK calls \in Seq(Calls(n, CycleBits)) :
            /\ TailEdges(es, c) = addteedges(es, calls)
            /\ \A i \in 1..n : CallsOf(calls, i) \subseteq IF i \in C THEN {} ELSE C
            /\ \A i \in 1..n \ C : \A k \in Range(Tail(c)) :
                 Depends(es, i, k) => c[1] \in CallsOf(calls, i)
      BY <2>1, TailCalls
    <3>2. QED BY <3>1
  <2>4. QED BY <2>2, <2>3
<1> HIDE DEF C
<1>2. PICK calls \in Seq(Calls(n, CycleBits)) :
        /\ TailEdges(es, c) = addteedges(es, calls)
        /\ \A i \in 1..n : CallsOf(calls, i) \subseteq IF i \in C THEN {} ELSE C
  BY <1>1
<1> DEFINE fs == addteedges(es, calls)
<1>3. /\ GraphOn(fs, n) /\ PlacesKept(n, es, fs, CycleBits)
      /\ \A i \in 1..n : Successors(fs, i) \subseteq Successors(es, i) \cup CallsOf(calls, i)
  BY BitsAdded, AddsEdges
<1> HIDE DEF fs
<1>4. \A i \in 1..n : Successors(fs, i) \subseteq IF i \in C THEN Successors(es, i)
                                                  ELSE Successors(es, i) \cup C
  BY <1>2, <1>3
<1>5. Acyclic(fs)
  BY <1>1, <1>3, <1>4, StaysAcyclic
<1>6. QED BY <1>2, <1>3, <1>5 DEF fs

\* Nothing that an element leads to leads to the cycle if the element does not.
LEMMA FreeStaysFree ==
  ASSUME NEW n \in Nat, NEW es, GraphOn(es, n), NEW R, NEW W,
         W \subseteq {k \in 1..n : Reached(es, {k}) \cap R = {}}
  PROVE  Reached(es, W) \subseteq 1..n \ R
<1> DEFINE D == {k \in 1..n : Reached(es, {k}) \cap R = {}}
<1>1. DOMAIN es = 1..n /\ IsFiniteSet(DOMAIN es)
  BY GraphFacts
<1>2. ASSUME NEW k \in D
      PROVE  Successors(es, k) \subseteq D /\ k \in 1..n \ R
  <2>1. k \in 1..n /\ Reached(es, {k}) \cap R = {}
    OBVIOUS
  <2>2. {k} \in SUBSET DOMAIN es
    BY <1>1, <2>1
  <2>3. k \in Reached(es, {k}) /\ Closed(es, Reached(es, {k}))
    BY <1>1, <2>2, ReachedFacts
  <2>4. ASSUME NEW j \in Successors(es, k)
        PROVE  j \in D
    <3>1. j \in 1..n /\ j \in Reached(es, {k}) /\ {j} \in SUBSET DOMAIN es
      BY <1>1, <2>3 DEF Closed, Successors
    <3>2. Reached(es, {j}) \subseteq Reached(es, {k})
      BY <1>1, <2>3, <3>1, ReachedLeast
    <3>3. QED BY <2>1, <3>1, <3>2
  <2> HIDE DEF D
  <2>5. QED BY <2>1, <2>3, <2>4
<1>3. W \subseteq D /\ W \in SUBSET DOMAIN es
  BY <1>1
<1> HIDE DEF D
<1>4. Closed(es, D)
  BY <1>2 DEF Closed
<1>5. Reached(es, W) \subseteq D
  BY <1>1, <1>3, <1>4, ReachedLeast
<1>6. QED BY <1>2, <1>5

\* The edges from the head: to what one of the cycle needs and that does not lead to it.
LEMMA HeadCalls ==
  ASSUME NEW n \in Nat, NEW es, GraphOn(es, n), NEW c \in Seq(1..n), Len(c) > 0
  PROVE  \E calls \in Seq(Calls(n, CycleBits)) :
           /\ HeadEdges(es, c) = addteedges(es, calls)
           /\ \E C : /\ C \subseteq 1..n /\ Closed(es, C)
                     /\ \A i \in 1..n : CallsOf(calls, i) \subseteq IF i \in C THEN {} ELSE C
           /\ \A i \in 1..n : \A x \in 1..(Len(c) - 1) :
                Depends(es, c[x], i) /\ Reached(es, {i}) \cap Range(c) = {} =>
                  Depends(es, Last(c), i) \/ i \in CallsOf(calls, Last(c))
<1> DEFINE head == Last(c)
           free(k) == Reached(es, {k}) \cap Range(c) = {}
           front == Front(c)
           S(i) == {e \in Range(es[c[i]]) : Unbroken(e) /\ free(e.to)}
           all(i) == Only(es[c[i]], S(i))
           ends(i) == [j \in DOMAIN all(i) |-> all(i)[j].to]
           lists == [i \in DOMAIN front |-> ends(i)]
           needed == FlattenSeq(lists)
           F == {k \in 1..n : free(k)}
           wanted == Only(needed, DOMAIN es \ Successors(es, head))
           calls == [k \in DOMAIN wanted |-> <<head, wanted[k], TYPE_CYCLEHEAD>>]
<1>1. /\ DOMAIN es = 1..n /\ IsFiniteSet(DOMAIN es)
      /\ \A i \in 1..n : es[i] \in Seq(EdgeLists(n)) /\ Range(es[i]) \subseteq EdgeLists(n)
  <2>1. \A i \in 1..n : es[i] \in Seq(EdgeLists(n))
    BY GraphFacts
  <2>2. \A i \in 1..n : Range(es[i]) \subseteq EdgeLists(n)
    BY <2>1, RangeFacts
  <2>3. QED BY <2>1, <2>2, GraphFacts
<1>2. /\ Len(c) \in Nat /\ \A i \in 1..Len(c) : c[i] \in 1..n
      /\ head \in 1..n /\ head \in Range(c)
  BY DEF Range, Last
<1>3. DOMAIN front = 1..(Len(c) - 1) /\ Len(c) - 1 \in Nat
  <2>1. front = SubSeq(c, 1, Len(c) - 1)
    BY DEF Front
  <2>2. QED BY <1>2, <2>1
<1> HIDE DEF front, head, free
<1>4. ASSUME NEW i \in 1..(Len(c) - 1)
      PROVE  /\ ends(i) \in Seq(F)
             /\ \A k \in F : Depends(es, c[i], k) => k \in Range(ends(i))
  <2>1. c[i] \in 1..n
    BY <1>2
  <2> DEFINE d == c[i]
  <2> HIDE DEF d
  <2>2. es[d] \in Seq(EdgeLists(n)) /\ Range(es[d]) \subseteq EdgeLists(n)
    BY <1>1, <2>1 DEF d
  <2> HIDE DEF S
  <2>3. all(i) \in Seq(EdgeLists(n)) /\ Range(all(i)) = Range(es[d]) \cap S(i)
    BY <2>2, OnlyPicks DEF d
  <2> HIDE DEF all
  <2>4. Len(all(i)) \in Nat /\ DOMAIN all(i) = 1..Len(all(i))
    BY <2>3
  <2>5. ASSUME NEW j \in DOMAIN all(i)
        PROVE  all(i)[j].to \in F
    <3>1. all(i)[j] \in S(i) /\ all(i)[j] \in EdgeLists(n)
      BY <2>3 DEF Range
    <3>2. QED BY <3>1 DEF S, EdgeLists
  <2>6. ends(i) = [j \in 1..Len(all(i)) |-> ends(i)[j]] /\ \A j \in 1..Len(all(i)) : ends(i)[j] \in F
    BY <2>4, <2>5
  <2>7. ASSUME NEW k \in F, Depends(es, c[i], k)
        PROVE  k \in Range(ends(i))
    <3>1. PICK j \in DOMAIN es[d] : es[d][j].to = k /\ Unbroken(es[d][j])
      BY <2>7 DEF Depends, d
    <3>2. es[d][j] \in Range(es[d])
      BY DEF Range
    <3>3. es[d][j] \in S(i)
      BY <3>1, <3>2 DEF S, d
    <3>4. PICK y \in DOMAIN all(i) : all(i)[y] = es[d][j]
      BY <2>3, <3>2, <3>3 DEF Range
    <3>5. ends(i)[y] = k /\ y \in DOMAIN ends(i)
      BY <3>1, <3>4
    <3> HIDE DEF ends
    <3>6. QED BY <3>5 DEF Range
  <2> HIDE DEF ends
  <2>8. QED BY <2>4, <2>6, <2>7
<1> HIDE DEF all, ends, F
<1>5. lists \in Seq(Seq(F)) /\ DOMAIN lists = 1..(Len(c) - 1)
  <2>1. lists = [i \in 1..(Len(c) - 1) |-> ends(i)]
    BY <1>3
  <2>2. QED BY <1>3, <1>4, <2>1
<1>6. \A i \in DOMAIN lists : lists[i] = ends(i)
  BY <1>3, <1>5
<1> HIDE DEF lists
<1>7. needed \in Seq(F)
  BY <1>5, FlattenTyped
<1>8. ASSUME NEW i \in 1..(Len(c) - 1), NEW k \in Range(ends(i))
      PROVE  k \in Range(needed)
  <2>1. i \in DOMAIN lists
    BY <1>5
  <2>2. lists[i] = ends(i)
    BY <1>6, <2>1
  <2>3. PICK j \in DOMAIN lists[i] : lists[i][j] = k
    BY <2>2 DEF Range
  <2>4. lists \in Seq(Seq(F))
    BY <1>5
  <2>5. \E x \in DOMAIN FlattenSeq(lists) : FlattenSeq(lists)[x] = lists[i][j]
    BY <2>1, <2>4, FlattenHas
  <2>6. QED BY <2>3, <2>5 DEF Range
<1> HIDE DEF needed
<1>9. wanted \in Seq(F) /\ Range(wanted) = Range(needed) \cap (DOMAIN es \ Successors(es, head))
  BY <1>7, OnlyPicks
<1> HIDE DEF wanted
<1>10. /\ Len(wanted) \in Nat /\ DOMAIN wanted = 1..Len(wanted)
       /\ \A k \in DOMAIN wanted : wanted[k] \in F /\ wanted[k] \in 1..n
  <2>1. F \subseteq 1..n
    BY DEF F
  <2>2. Len(wanted) \in Nat /\ DOMAIN wanted = 1..Len(wanted)
    BY <1>9
  <2>3. \A k \in 1..Len(wanted) : wanted[k] \in F
    BY <1>9
  <2>4. QED BY <2>1, <2>2, <2>3
<1> DEFINE C == Reached(es, Range(wanted))
<1>11. Range(wanted) \subseteq C /\ C \subseteq 1..n \ Range(c) /\ Closed(es, C)
  <2>1. Range(wanted) \subseteq F
    BY <1>10 DEF Range
  <2>2. Range(wanted) \in SUBSET DOMAIN es
    BY <1>1, <2>1 DEF F
  <2>3. C \subseteq 1..n \ Range(c)
    BY <2>1, FreeStaysFree DEF free, F
  <2>4. QED BY <1>1, <2>2, <2>3, ReachedFacts
<1> HIDE DEF C
<1>12. calls \in Seq(Calls(n, CycleBits)) /\ DOMAIN calls = DOMAIN wanted
  <2>1. \A k \in DOMAIN wanted : calls[k] \in Calls(n, CycleBits)
    BY <1>2, <1>10 DEF Calls, CycleBits
  <2>2. calls = [k \in 1..Len(wanted) |-> calls[k]] /\ DOMAIN calls = DOMAIN wanted
    BY <1>10
  <2> HIDE DEF calls
  <2>3. QED BY <1>10, <2>1, <2>2
<1>13. \A i \in 1..n : CallsOf(calls, i) \subseteq IF i \in C THEN {} ELSE C
  <2>1. ASSUME NEW i \in 1..n, NEW d \in DOMAIN calls, calls[d][1] = i
        PROVE  i \notin C /\ calls[d][2] \in C
    <3>1. i = head /\ calls[d][2] = wanted[d] /\ wanted[d] \in Range(wanted)
      BY <1>12, <2>1 DEF Range
    <3>2. QED BY <1>2, <1>11, <3>1
  <2> HIDE DEF calls
  <2>2. QED BY <2>1 DEF CallsOf
<1>14. ASSUME NEW i \in 1..n, NEW x \in 1..(Len(c) - 1), Depends(es, c[x], i),
              Reached(es, {i}) \cap Range(c) = {}
       PROVE  Depends(es, Last(c), i) \/ i \in CallsOf(calls, Last(c))
  <2>1. SUFFICES ASSUME ~Depends(es, Last(c), i)
                 PROVE  i \in CallsOf(calls, head)
    BY DEF head
  <2>2. i \in DOMAIN es \ Successors(es, head)
    BY <1>1, <2>1 DEF Successors, head
  <2>3. i \in Range(needed)
    BY <1>4, <1>8, <1>14 DEF F, free
  <2>4. PICK y \in DOMAIN wanted : wanted[y] = i
    BY <1>9, <2>2, <2>3 DEF Range
  <2>5. y \in DOMAIN calls /\ calls[y][1] = head /\ calls[y][2] = i
    BY <1>12, <2>4
  <2> HIDE DEF calls
  <2>6. QED BY <2>5 DEF CallsOf
<1>15. HeadEdges(es, c) = addteedges(es, calls)
  BY DEF HeadEdges, calls, wanted, needed, lists, ends, all, S, front, head, free
<1> HIDE DEF calls
<1>16. C \subseteq 1..n
  BY <1>11
<1>17. QED BY <1>11, <1>12, <1>13, <1>14, <1>15, <1>16

LEMMA HeadKeeps ==
  ASSUME NEW n \in Nat, NEW es, GraphOn(es, n), Acyclic(es), NEW c \in Seq(1..n), Len(c) > 0
  PROVE  /\ GraphOn(HeadEdges(es, c), n) /\ Acyclic(HeadEdges(es, c))
         /\ PlacesKept(n, es, HeadEdges(es, c), CycleBits)
<1>1. PICK calls \in Seq(Calls(n, CycleBits)) :
        /\ HeadEdges(es, c) = addteedges(es, calls)
        /\ \E C : /\ C \subseteq 1..n /\ Closed(es, C)
                  /\ \A i \in 1..n : CallsOf(calls, i) \subseteq IF i \in C THEN {} ELSE C
  BY HeadCalls
<1>2. PICK C : /\ C \subseteq 1..n /\ Closed(es, C)
               /\ \A i \in 1..n : CallsOf(calls, i) \subseteq IF i \in C THEN {} ELSE C
  BY <1>1
<1> DEFINE fs == addteedges(es, calls)
<1>3. /\ GraphOn(fs, n) /\ PlacesKept(n, es, fs, CycleBits)
      /\ \A i \in 1..n : Successors(fs, i) \subseteq Successors(es, i) \cup CallsOf(calls, i)
  BY BitsAdded, AddsEdges
<1> HIDE DEF fs
<1>4. \A i \in 1..n : Successors(fs, i) \subseteq IF i \in C THEN Successors(es, i)
                                                  ELSE Successors(es, i) \cup C
  BY <1>2, <1>3
<1>5. Acyclic(fs)
  BY <1>2, <1>3, <1>4, StaysAcyclic
<1>6. QED BY <1>1, <1>3, <1>5 DEF fs

\* The edges that bind a cycle together close none.
LEMMA BindKeeps ==
  ASSUME NEW n \in Nat, NEW es, GraphOn(es, n), Acyclic(es), NEW c \in Seq(1..n), Len(c) > 0
  PROVE  /\ GraphOn(addcycleedges(es, c), n) /\ Acyclic(addcycleedges(es, c))
         /\ PlacesKept(n, es, addcycleedges(es, c), CycleBits)
<1> DEFINE fs == TailEdges(es, c)
           gs == HeadEdges(fs, c)
<1>1. GraphOn(fs, n) /\ Acyclic(fs) /\ PlacesKept(n, es, fs, CycleBits)
  BY TailKeeps
<1> HIDE DEF fs
<1>2. GraphOn(gs, n) /\ Acyclic(gs) /\ PlacesKept(n, fs, gs, CycleBits)
  BY <1>1, HeadKeeps
<1> HIDE DEF gs
<1>3. PlacesKept(n, es, gs, CycleBits)
  <2>1. ASSUME NEW i \in 1..n, NEW j \in DOMAIN es[i]
        PROVE  /\ j \in DOMAIN gs[i] /\ gs[i][j].to = es[i][j].to
               /\ gs[i][j].type \ CycleBits = es[i][j].type \ CycleBits
    <3>1. /\ j \in DOMAIN fs[i] /\ fs[i][j].to = es[i][j].to
          /\ fs[i][j].type \ CycleBits = es[i][j].type \ CycleBits
      BY <1>1 DEF PlacesKept
    <3>2. /\ j \in DOMAIN gs[i] /\ gs[i][j].to = fs[i][j].to
          /\ gs[i][j].type \ CycleBits = fs[i][j].type \ CycleBits
      BY <1>2, <3>1 DEF PlacesKept
    <3>3. QED BY <3>1, <3>2
  <2>2. ASSUME NEW i \in 1..n, NEW j \in DOMAIN gs[i], j \notin DOMAIN es[i]
        PROVE  gs[i][j].type \subseteq CycleBits
    <3>1. CASE j \notin DOMAIN fs[i]
      BY <1>2, <3>1 DEF PlacesKept
    <3>2. CASE j \in DOMAIN fs[i]
      <4>1. fs[i][j].type \subseteq CycleBits
        BY <1>1, <2>2, <3>2 DEF PlacesKept
      <4>2. gs[i][j].type \ CycleBits = fs[i][j].type \ CycleBits
        BY <1>2, <3>2 DEF PlacesKept
      <4>3. QED BY <4>1, <4>2
    <3>3. QED BY <3>1, <3>2
  <2>3. QED BY <2>1, <2>2 DEF PlacesKept
<1>4. QED BY <1>2, <1>3 DEF addcycleedges, fs, gs

----------------------------------------------------------------------------
(* The edge that is broken.                                                *)

LEMMA WeightIsNat ==
  ASSUME NEW type
  PROVE  Weight(type) \in Nat
BY DEF Weight, TYPE_BROKEN, TYPE_CON, TYPE_REQ_P, TYPE_PREREQ_P, TYPE_REQ, TYPE_PREREQ,
       TYPE_CYCLETAIL, TYPE_CYCLEHEAD

LEMMA EdgeFound ==
  ASSUME NEW n \in Nat, GraphOn(edges, n), NEW i \in 1..n, NEW k, Depends(edges, i, k)
  PROVE  EdgeTo(i, k) \in DOMAIN edges[i] /\ edges[i][EdgeTo(i, k)].to = k
<1> DEFINE I == {j \in 1..Len(edges[i]) : edges[i][j].to = k}
<1>1. DOMAIN edges[i] = 1..Len(edges[i])
  BY GraphFacts
<1>2. I # {} /\ I \subseteq Nat
  BY <1>1 DEF Depends
<1>3. EdgeTo(i, k) = Min(I)
  BY <1>2 DEF EdgeTo, SelectInSeq
<1>4. Min(I) \in I
  <2> HIDE DEF I
  <2>1. QED BY <1>2, MinIsLeast
<1>5. QED BY <1>1, <1>3, <1>4

\* The number the search compares.
LinkWeight(ch, k) == Weight(edges[ch[k]][EdgeTo(ch[k], Following(ch, k))].type)

LEMMA WeakestLinkFound ==
  ASSUME NEW ch, NEW m \in Nat, m > 0, DOMAIN ch = 1..m
  PROVE  /\ WeakestLink(ch) \in DOMAIN ch
         /\ \A k \in DOMAIN ch : LinkWeight(ch, WeakestLink(ch)) <= LinkWeight(ch, k)
<1> DEFINE weight(k) == Weight(edges[ch[k]][EdgeTo(ch[k], Following(ch, k))].type)
           weakest == {k \in DOMAIN ch : \A j \in DOMAIN ch : weight(k) <= weight(j)}
           quiet == {k \in weakest : ~havescripts(world, tes[ch[k]])}
<1>1. WeakestLink(ch) = IF quiet # {} THEN Min(quiet) ELSE Min(weakest)
  BY DEF WeakestLink
<1>2. \A k : weight(k) \in Nat /\ weight(k) = LinkWeight(ch, k)
  BY WeightIsNat DEF LinkWeight
<1> HIDE DEF weight
<1>3. weakest # {}
  <2> DEFINE V == {weight(k) : k \in DOMAIN ch}
  <2>1. V \subseteq Nat /\ V # {}
    BY <1>2
  <2>2. Min(V) \in V /\ \A y \in V : Min(V) <= y
    <3> HIDE DEF V
    <3>1. QED BY <2>1, MinIsLeast
  <2>3. PICK k \in DOMAIN ch : weight(k) = Min(V)
    BY <2>2
  <2>4. \A j \in DOMAIN ch : weight(j) \in V
    OBVIOUS
  <2>5. \A j \in DOMAIN ch : weight(k) <= weight(j)
    <3> HIDE DEF V
    <3>1. QED BY <2>2, <2>3, <2>4
  <2>6. QED BY <2>5
<1>4. weakest \subseteq 1..m /\ quiet \subseteq weakest /\ 1..m \subseteq Nat
  OBVIOUS
<1> HIDE DEF weakest, quiet
<1>5. Min(weakest) \in weakest
  BY <1>3, <1>4, MinIsLeast
<1>6. quiet # {} => Min(quiet) \in quiet
  BY <1>4, MinIsLeast
<1> DEFINE l == WeakestLink(ch)
<1>7. l \in weakest
  BY <1>1, <1>4, <1>5, <1>6
<1> HIDE DEF l
<1>8. l \in DOMAIN ch /\ \A k \in DOMAIN ch : weight(l) <= weight(k)
  BY <1>7 DEF weakest
<1>9. QED BY <1>2, <1>8 DEF l

\* What is kept of a cycle.
CycleRecords(n) == [tes : Seq(1..n) \ {<<>>}, weight : Nat]

LEMMA RecordsCycle ==
  ASSUME NEW n \in Nat, NEW ch \in Seq(1..n), Len(ch) > 0, NEW l \in DOMAIN ch, NEW type
  PROVE  [tes    |-> SubSeq(ch, l + 1, Len(ch)) \o SubSeq(ch, 1, l),
          weight |-> Weight(type)] \in CycleRecords(n)
<1> DEFINE m == Len(ch)
           a == SubSeq(ch, l + 1, m)
           b == SubSeq(ch, 1, l)
<1>1. m \in Nat /\ l \in 1..m /\ \A k \in 1..m : ch[k] \in 1..n
  OBVIOUS
<1>2. a \in Seq(1..n)
  <2>1. \A k \in (l + 1)..m : ch[k] \in 1..n
    BY <1>1
  <2>2. QED BY <1>1, <2>1, SubSeqProperties
<1>3. b \in Seq(1..n) /\ Len(b) = l
  <2>1. \A k \in 1..l : ch[k] \in 1..n
    BY <1>1
  <2>2. QED BY <1>1, <2>1, SubSeqProperties
<1> HIDE DEF a, b
<1>4. a \o b \in Seq(1..n) /\ Len(a \o b) = Len(a) + Len(b)
  BY <1>2, <1>3, ConcatProperties
<1>5. a \o b # <<>>
  <2>1. Len(a) \in Nat
    BY <1>2
  <2>2. QED BY <1>1, <1>3, <1>4, <2>1
<1>6. QED BY <1>4, <1>5, WeightIsNat DEF CycleRecords, a, b

----------------------------------------------------------------------------
(* Sequences made from sequences.                                          *)

Distinct(s) == \A j, k \in DOMAIN s : s[j] = s[k] => j = k

\* What is picked of a sequence without repetitions.
LEMMA Picks ==
  ASSUME NEW T, NEW s, s \in Seq(T), Distinct(s), NEW S
  PROVE  Only(s, S) \in Seq(T) /\ Distinct(Only(s, S)) /\ Range(Only(s, S)) = Range(s) \cap S
<1>1. \A j, k \in DOMAIN s : s[j] = s[k] => j = k
  BY DEF Distinct
<1> DEFINE o == Only(s, S)
<1>2. /\ o \in Seq(T) /\ Range(o) = Range(s) \cap S
      /\ \A j, k \in DOMAIN o : o[j] = o[k] => j = k
  BY <1>1, OnlyPicks
<1> HIDE DEF o
<1>3. Distinct(o)
  BY <1>2 DEF Distinct
<1>4. QED BY <1>2, <1>3 DEF o

LEMMA JoinedDistinct ==
  ASSUME NEW T, NEW s, s \in Seq(T), NEW t, t \in Seq(T), Distinct(s), Distinct(t),
         Range(s) \cap Range(t) = {}
  PROVE  Distinct(s \o t)
<1> DEFINE z == s \o t
<1>1. Len(s) \in Nat /\ Len(t) \in Nat /\ DOMAIN s = 1..Len(s) /\ DOMAIN t = 1..Len(t)
  OBVIOUS
<1>2. DOMAIN z = 1..(Len(s) + Len(t))
  BY <1>1
<1>3. \A j \in 1..Len(s) : z[j] = s[j]
  BY <1>1
<1>4. \A j \in 1..Len(t) : z[Len(s) + j] = t[j]
  BY <1>1
<1> HIDE DEF z
<1>5. \A j \in DOMAIN z : \/ j \in DOMAIN s /\ z[j] = s[j] /\ z[j] \in Range(s)
                          \/ j - Len(s) \in DOMAIN t /\ z[j] = t[j - Len(s)] /\ z[j] \in Range(t)
  <2>1. TAKE j \in DOMAIN z
  <2>2. CASE j <= Len(s)
    <3>1. j \in DOMAIN s /\ z[j] = s[j]
      BY <1>1, <1>2, <1>3, <2>2
    <3>2. QED BY <3>1 DEF Range
  <2>3. CASE j > Len(s)
    <3>1. j - Len(s) \in DOMAIN t /\ Len(s) + (j - Len(s)) = j
      BY <1>1, <1>2, <2>3
    <3>2. z[j] = t[j - Len(s)]
      BY <1>1, <1>4, <3>1
    <3>3. QED BY <3>1, <3>2 DEF Range
  <2>4. QED BY <1>1, <1>2, <2>2, <2>3
<1>6. SUFFICES ASSUME NEW j \in DOMAIN z, NEW k \in DOMAIN z, z[j] = z[k]
               PROVE  j = k
  BY DEF Distinct, z
<1>7. CASE j \in DOMAIN s /\ z[j] = s[j] /\ z[j] \in Range(s)
  <2>1. k \in DOMAIN s /\ z[k] = s[k]
    BY <1>5, <1>6, <1>7
  <2>2. QED BY <1>6, <1>7, <2>1 DEF Distinct
<1>8. CASE j - Len(s) \in DOMAIN t /\ z[j] = t[j - Len(s)] /\ z[j] \in Range(t)
  <2>1. k - Len(s) \in DOMAIN t /\ z[k] = t[k - Len(s)]
    BY <1>5, <1>6, <1>8
  <2>2. j - Len(s) = k - Len(s)
    BY <1>6, <1>8, <2>1 DEF Distinct
  <2>3. j \in Int /\ k \in Int
    BY <1>1, <1>2
  <2>4. QED BY <1>1, <2>2, <2>3
<1>9. QED BY <1>5, <1>7, <1>8

LEMMA JoinedRange ==
  ASSUME NEW T, NEW s, s \in Seq(T), NEW t, t \in Seq(T)
  PROVE  s \o t \in Seq(T) /\ Range(s \o t) = Range(s) \cup Range(t)
<1> DEFINE z == s \o t
<1>1. Len(s) \in Nat /\ Len(t) \in Nat /\ DOMAIN s = 1..Len(s) /\ DOMAIN t = 1..Len(t)
  OBVIOUS
<1>2. DOMAIN z = 1..(Len(s) + Len(t)) /\ z \in Seq(T)
  BY <1>1
<1>3. \A j \in 1..Len(s) : z[j] = s[j]
  BY <1>1
<1>4. \A j \in 1..Len(t) : z[Len(s) + j] = t[j]
  BY <1>1
<1> HIDE DEF z
<1>5. ASSUME NEW x \in Range(z)
      PROVE  x \in Range(s) \cup Range(t)
  <2>1. PICK j \in DOMAIN z : z[j] = x
    BY DEF Range
  <2>2. CASE j <= Len(s)
    <3>1. j \in DOMAIN s /\ s[j] = x
      BY <1>1, <1>2, <1>3, <2>1, <2>2
    <3>2. QED BY <3>1 DEF Range
  <2>3. CASE j > Len(s)
    <3>1. j - Len(s) \in DOMAIN t /\ Len(s) + (j - Len(s)) = j
      BY <1>1, <1>2, <2>3
    <3>2. t[j - Len(s)] = x
      BY <1>1, <1>4, <2>1, <3>1
    <3>3. QED BY <3>1, <3>2 DEF Range
  <2>4. QED BY <1>1, <1>2, <2>2, <2>3
<1>6. ASSUME NEW j \in DOMAIN s
      PROVE  s[j] \in Range(z)
  <2>1. j \in DOMAIN z /\ z[j] = s[j]
    BY <1>1, <1>2, <1>3
  <2>2. QED BY <2>1 DEF Range
<1>7. ASSUME NEW j \in DOMAIN t
      PROVE  t[j] \in Range(z)
  <2>1. Len(s) + j \in DOMAIN z /\ z[Len(s) + j] = t[j]
    BY <1>1, <1>2, <1>4
  <2>2. QED BY <2>1 DEF Range
<1>8. Range(z) = Range(s) \cup Range(t)
  BY <1>5, <1>6, <1>7 DEF Range
<1>9. QED BY <1>2, <1>8 DEF z

----------------------------------------------------------------------------
(* The steps of a transaction and its graph.                               *)

LEMMA PackageFacts ==
  ASSUME NEW w, IsTransaction(w)
  PROVE  /\ PackagesOf(w) = 1..Len(w.name) /\ Len(w.name) \in Nat /\ IsFiniteSet(PackagesOf(w))
         /\ w.old \subseteq PackagesOf(w) /\ NewPackages(w) = PackagesOf(w) \ w.old
         /\ TransactsMap(w) \subseteq PackagesOf(w)
         /\ \A p \in PackagesOf(w) : p \in Nat /\ p > 0
         /\ \A p : IsFiniteSet(Partners(w, p)) /\ Partners(w, p) \subseteq PackagesOf(w)
<1>1. PackagesOf(w) = 1..Len(w.name) /\ Len(w.name) \in Nat
  BY DEF IsTransaction, PackagesOf
<1>2. IsFiniteSet(PackagesOf(w))
  BY <1>1, FS_Interval
<1>3. w.old \subseteq PackagesOf(w) /\ NewPackages(w) = PackagesOf(w) \ w.old
  BY DEF IsTransaction, NewPackages
<1>4. TransactsMap(w) \subseteq PackagesOf(w)
  BY <1>3 DEF TransactsMap
<1>5. \A p : Partners(w, p) \subseteq PackagesOf(w)
  BY DEF Partners
<1>6. \A p : IsFiniteSet(Partners(w, p))
  BY <1>2, <1>5, FS_Subset
<1>7. QED BY <1>1, <1>2, <1>3, <1>4, <1>5, <1>6

\* Every package that comes or goes is a step once.
LEMMA StepsFacts ==
  ASSUME NEW w, IsTransaction(w)
  PROVE  /\ StepsOf(w) \in Seq(PackagesOf(w)) /\ Range(StepsOf(w)) = TransactsMap(w)
         /\ Distinct(StepsOf(w))
<1> DEFINE P == PackagesOf(w)
           id == [p \in P |-> p]
           D == w.decision
           M == TransactsMap(w)
           a == Only(id, M \cap w.old)
           b == Only(D, M)
<1>1. /\ P = 1..Len(w.name) /\ Len(w.name) \in Nat /\ w.old \subseteq P /\ M \subseteq P
      /\ NewPackages(w) = P \ w.old /\ \A p \in P : p \in Nat /\ p > 0
  BY PackageFacts
<1>2. id \in Seq(P) /\ DOMAIN id = P /\ \A p \in P : id[p] = p
  BY <1>1
<1>3. D \in Seq(Literals(P)) /\ \A j, k \in DOMAIN D : Var(D[j]) = Var(D[k]) => j = k
  BY DEF IsTransaction
<1>4. M = {p \in w.old : \E k \in DOMAIN D : D[k] = -p} \cup
          {p \in NewPackages(w) : \E k \in DOMAIN D : D[k] = p}
  BY DEF TransactsMap
<1> HIDE DEF P, id, D, M
<1>5. Range(id) = P /\ \A j, k \in DOMAIN id : id[j] = id[k] => j = k
  BY <1>2 DEF Range
<1>6. a \in Seq(P) /\ Range(a) = M \cap w.old /\ Distinct(a)
  <2>1. /\ a \in Seq(P) /\ Range(a) = Range(id) \cap (M \cap w.old)
        /\ \A j, k \in DOMAIN a : a[j] = a[k] => j = k
    <3> DEFINE K == M \cap w.old
    <3>1. a = Only(id, K)
      OBVIOUS
    <3>2. Distinct(id) /\ id \in Seq(P)
      BY <1>2, <1>5 DEF Distinct
    <3> HIDE DEF K, a
    <3>3. a \in Seq(P) /\ Range(a) = Range(id) \cap K /\ Distinct(a)
      BY <3>1, <3>2, Picks
    <3>4. QED BY <3>3 DEF K, Distinct
  <2> HIDE DEF a
  <2>2. QED BY <1>1, <1>5, <2>1 DEF Distinct
<1>7. b \in Seq(Literals(P)) /\ Range(b) = Range(D) \cap M /\ Distinct(b)
  <2>1. \A j, k \in DOMAIN D : D[j] = D[k] => j = k
    BY <1>3
  <2>2. /\ b \in Seq(Literals(P)) /\ Range(b) = Range(D) \cap M
        /\ \A j, k \in DOMAIN b : b[j] = b[k] => j = k
    BY <1>3, <2>1, OnlyPicks
  <2> HIDE DEF b
  <2>3. QED BY <2>2 DEF Distinct
<1>8. Range(D) \cap M = M \ w.old
  <2>1. ASSUME NEW p \in w.old, p \in M, p \in Range(D)
        PROVE  FALSE
    <3>1. PICK k \in DOMAIN D : D[k] = -p
      BY <1>1, <1>4, <2>1
    <3>2. PICK j \in DOMAIN D : D[j] = p
      BY <2>1 DEF Range
    <3>3. p \in Nat /\ p > 0
      BY <1>1
    <3>4. Var(D[k]) = p /\ Var(D[j]) = p
      BY <3>1, <3>2, <3>3 DEF Var
    <3>5. j = k
      BY <1>3, <3>4
    <3>6. QED BY <3>1, <3>2, <3>3, <3>5
  <2>2. ASSUME NEW p \in M, p \notin w.old
        PROVE  p \in Range(D)
    BY <1>4, <2>2 DEF Range
  <2>3. QED BY <2>1, <2>2
<1> HIDE DEF a, b
<1>9. b \in Seq(P)
  <2>1. Len(b) \in Nat /\ DOMAIN b = 1..Len(b) /\ b = [k \in 1..Len(b) |-> b[k]]
    BY <1>7
  <2>2. \A k \in 1..Len(b) : b[k] \in P
    BY <1>1, <1>7, <1>8, <2>1 DEF Range
  <2>3. QED BY <2>1, <2>2
<1>10. StepsOf(w) = a \o b
  BY DEF StepsOf, a, b, id, P, D, M
<1>11. a \o b \in Seq(P) /\ Range(a \o b) = Range(a) \cup Range(b)
  BY <1>6, <1>9, JoinedRange
<1>12. Range(a) \cap Range(b) = {}
  BY <1>6, <1>7, <1>8
<1>13. Distinct(a \o b)
  BY <1>6, <1>7, <1>9, <1>12, JoinedDistinct
<1>14. Range(a \o b) = M
  BY <1>6, <1>7, <1>8, <1>11
<1>15. QED BY <1>10, <1>11, <1>13, <1>14 DEF P, M

LEMMA ActiveFacts ==
  ASSUME NEW w, IsTransaction(w)
  PROVE  /\ ActiveSteps(w) \in Seq(PackagesOf(w)) /\ Distinct(ActiveSteps(w))
         /\ Range(ActiveSteps(w)) = {p \in TransactsMap(w) : ~IsObsoleted(w, p)}
<1> DEFINE s == StepsOf(w)
           S == {p \in TransactsMap(w) : ~IsObsoleted(w, p)}
<1>1. /\ s \in Seq(PackagesOf(w)) /\ Range(s) = TransactsMap(w)
      /\ \A j, k \in DOMAIN s : s[j] = s[k] => j = k
  BY StepsFacts DEF Distinct
<1>2. S \subseteq TransactsMap(w)
  OBVIOUS
<1>3. ActiveSteps(w) = Only(s, S)
  BY DEF ActiveSteps
<1> HIDE DEF s, S
<1>4. /\ Only(s, S) \in Seq(PackagesOf(w)) /\ Range(Only(s, S)) = Range(s) \cap S
      /\ \A j, k \in DOMAIN Only(s, S) : Only(s, S)[j] = Only(s, S)[k] => j = k
  BY <1>1, OnlyPicks
<1>5. QED BY <1>1, <1>2, <1>3, <1>4 DEF Distinct, S

----------------------------------------------------------------------------

\* The edges between packages.
Links(w) == PackagesOf(w) \X PackagesOf(w) \X ReasonBits

LEMMA LinkMade ==
  ASSUME NEW w, NEW p \in PackagesOf(w), NEW q \in PackagesOf(w),
         NEW bit \in {TYPE_CON, TYPE_REQ_P, TYPE_PREREQ_P, TYPE_REQ, TYPE_PREREQ}
  PROVE  <<p, q, bit>> \in Links(w)
BY DEF Links, ReasonBits

LEMMA RequirementLinks ==
  ASSUME NEW w, IsTransaction(w), NEW p \in PackagesOf(w), NEW r \in Requirement(PackagesOf(w))
  PROVE  RequirementEdges(w, p, r) \in Seq(Links(w))
<1> DEFINE P == PackagesOf(w)
           all == Candidates(w, p, r)
           going == Only(all, w.old)
           coming == Only(all, NewPackages(w))
           old_bit == IF r.pre THEN TYPE_PREREQ_P ELSE TYPE_REQ_P
           new_bit == IF r.pre THEN TYPE_PREREQ ELSE TYPE_REQ
           others(i) == Only(coming, {q \in NewPackages(w) : Partners(w, going[i]) # {q}})
           pairs(i) == [j \in DOMAIN others(i) |-> <<going[i], others(i)[j], old_bit>>]
           lists == [i \in DOMAIN going |-> pairs(i)]
           handover == FlattenSeq(lists)
           bit == IF p \in w.old THEN old_bit ELSE new_bit
           toward == [j \in DOMAIN coming |-> <<p, coming[j], bit>>]
           away == [j \in DOMAIN going |-> <<going[j], p, old_bit>>]
<1>1. r.providers \in Seq(P)
  BY DEF Requirement
<1>2. all \in Seq(P)
  <2>1. \A S : Only(r.providers, S) \in Seq(P)
    BY <1>1, OnlyPicks
  <2>2. <<>> \in Seq(P)
    OBVIOUS
  <2>3. QED BY <2>1, <2>2 DEF Candidates
<1> HIDE DEF all
<1>3. going \in Seq(P) /\ coming \in Seq(P)
  BY <1>2, OnlyPicks
<1> HIDE DEF going, coming
<1>4. \A i : others(i) \in Seq(P)
  BY <1>3, OnlyPicks
<1>5. (\A j \in DOMAIN going : going[j] \in P) /\ (\A j \in DOMAIN coming : coming[j] \in P)
  BY <1>3
<1> HIDE DEF others
<1>6. old_bit \in {TYPE_CON, TYPE_REQ_P, TYPE_PREREQ_P, TYPE_REQ, TYPE_PREREQ} /\
      bit \in {TYPE_CON, TYPE_REQ_P, TYPE_PREREQ_P, TYPE_REQ, TYPE_PREREQ}
  OBVIOUS
<1> HIDE DEF old_bit, bit
<1>7. ASSUME NEW i \in DOMAIN going
      PROVE  pairs(i) \in Seq(Links(w))
  <2>1. others(i) \in Seq(P) /\ \A j \in DOMAIN others(i) : others(i)[j] \in P
    BY <1>4
  <2>2. \A j \in DOMAIN others(i) : <<going[i], others(i)[j], old_bit>> \in Links(w)
    BY <1>5, <1>6, <2>1, LinkMade
  <2>3. pairs(i) = [j \in DOMAIN others(i) |-> pairs(i)[j]]
    OBVIOUS
  <2>4. \A j \in DOMAIN others(i) : pairs(i)[j] \in Links(w)
    BY <2>2
  <2> HIDE DEF pairs
  <2>5. QED BY <2>1, <2>3, <2>4, MappedTyped
<1> HIDE DEF pairs
<1>8. lists \in Seq(Seq(Links(w)))
  <2>1. lists = [i \in DOMAIN going |-> lists[i]] /\ \A i \in DOMAIN going : lists[i] \in Seq(Links(w))
    BY <1>7
  <2> HIDE DEF lists
  <2>2. QED BY <1>3, <2>1, MappedTyped
<1>9. handover \in Seq(Links(w))
  <2> HIDE DEF lists
  <2>1. QED BY <1>8, FlattenTyped
<1>10. toward \in Seq(Links(w))
  <2>1. toward = [j \in DOMAIN coming |-> toward[j]]
    OBVIOUS
  <2>2. \A j \in DOMAIN coming : toward[j] \in Links(w)
    BY <1>5, <1>6, LinkMade
  <2> HIDE DEF toward
  <2>3. QED BY <1>3, <2>1, <2>2, MappedTyped
<1>11. away \in Seq(Links(w))
  <2>1. away = [j \in DOMAIN going |-> away[j]]
    OBVIOUS
  <2>2. \A j \in DOMAIN going : away[j] \in Links(w)
    BY <1>5, <1>6, LinkMade
  <2> HIDE DEF away
  <2>3. QED BY <1>3, <2>1, <2>2, MappedTyped
<1>12. RequirementEdges(w, p, r) =
         IF coming # <<>> THEN (IF p \in w.old THEN handover ELSE <<>>) \o toward
         ELSE IF IsObsoleted(w, p) /\ ~havescripts(w, p) THEN <<>>
         ELSE away
  BY DEF RequirementEdges, handover, toward, away, lists, pairs, others, coming, going, all, old_bit,
         new_bit, bit
<1> HIDE DEF handover, toward, away, lists
<1>13. <<>> \in Seq(Links(w)) /\ handover \o toward \in Seq(Links(w)) /\ <<>> \o toward \in Seq(Links(w))
  BY <1>9, <1>10
<1>14. QED BY <1>11, <1>12, <1>13

LEMMA OtherLinks ==
  ASSUME NEW w, IsTransaction(w), NEW p \in PackagesOf(w), NEW list \in Seq(PackagesOf(w))
  PROVE  ConflictEdges(w, p, list) \in Seq(Links(w)) /\ TriggerEdges(w, p, list) \in Seq(Links(w))
<1> DEFINE P == PackagesOf(w)
           others == Only(list, {q \in TransactsMap(w) \ {p} : IsNew(w, q) # IsNew(w, p)})
           hit == Only(list, {q \in TransactsMap(w) \ {p} : IsNew(w, q) /\ w.name[q] # w.name[p]})
           back == [j \in DOMAIN others |-> <<others[j], p, TYPE_CON>>]
           forth == [j \in DOMAIN others |-> <<p, others[j], TYPE_CON>>]
           trig == [j \in DOMAIN hit |-> <<hit[j], p, TYPE_CON>>]
<1>1. others \in Seq(P) /\ hit \in Seq(P)
  BY OnlyPicks
<1>2. /\ ConflictEdges(w, p, list) = IF p \in w.old THEN back ELSE forth
      /\ TriggerEdges(w, p, list) = IF p \in w.old THEN trig ELSE <<>>
  BY DEF ConflictEdges, TriggerEdges
<1> HIDE DEF others, hit
<1>3. (\A j \in DOMAIN others : others[j] \in P) /\ (\A j \in DOMAIN hit : hit[j] \in P)
  BY <1>1
<1>4. /\ \A j \in DOMAIN others : back[j] \in Links(w) /\ forth[j] \in Links(w)
      /\ \A j \in DOMAIN hit : trig[j] \in Links(w)
  BY <1>3, LinkMade
<1>5. /\ back = [j \in DOMAIN others |-> back[j]] /\ forth = [j \in DOMAIN others |-> forth[j]]
      /\ trig = [j \in DOMAIN hit |-> trig[j]]
  OBVIOUS
<1> HIDE DEF back, forth, trig
<1>6. back \in Seq(Links(w))
  BY <1>1, <1>4, <1>5, MappedTyped
<1>7. forth \in Seq(Links(w))
  BY <1>1, <1>4, <1>5, MappedTyped
<1>8. trig \in Seq(Links(w))
  BY <1>1, <1>4, <1>5, MappedTyped
<1>9. <<>> \in Seq(Links(w))
  OBVIOUS
<1>10. QED BY <1>2, <1>6, <1>7, <1>8, <1>9

\* The elements that stand for two packages.
LEMMA ElementCalls ==
  ASSUME NEW w, IsTransaction(w), NEW es \in Seq(PackagesOf(w)), NEW n, n = Len(es),
         NEW from, NEW to, NEW bit \in ReasonBits
  PROVE  addedge(w, es, from, to, bit) \in Seq(Calls(n, ReasonBits))
<1> DEFINE te(p) == CHOOSE i \in DOMAIN es : es[i] = p
           ends(p) == Only(Stands(w, p), Range(es))
           pairs(i) == [j \in DOMAIN ends(to) |-> <<te(ends(from)[i]), te(ends(to)[j]), bit>>]
           lists == [i \in DOMAIN ends(from) |-> pairs(i)]
<1>1. n \in Nat /\ DOMAIN es = 1..n
  OBVIOUS
<1>2. \A p \in Range(es) : te(p) \in 1..n
  BY <1>1 DEF Range
<1> HIDE DEF te
<1>3. ASSUME NEW p
      PROVE  \E T : Stands(w, p) \in Seq(T)
  <2>1. CASE IsObsoleted(w, p)
    <3> DEFINE all == Partners(w, p)
               m == Cardinality(all)
               s == transaction_all_obs_pkgs(w, p)
    <3>1. m \in Nat
      BY PackageFacts, FS_CardinalityType
    <3>2. \E f : s = [k \in 1..m |-> f[k]]
      <4> DEFINE rank(q) == Cardinality({r \in all : PartnerBefore(w, p, r, q)})
                 first(k) == CHOOSE q \in all : rank(q) = k - 1
                 f == [k \in 1..m |-> first(k)]
      <4>1. s = f
        BY DEF transaction_all_obs_pkgs
      <4> HIDE DEF first, m
      <4>2. f = [k \in 1..m |-> f[k]]
        OBVIOUS
      <4> HIDE DEF f, s
      <4>3. QED BY <4>1, <4>2
    <3> HIDE DEF s, m
    <3>3. PICK f : s = [k \in 1..m |-> f[k]]
      BY <3>2
    <3>4. s \in Seq({f[k] : k \in 1..m})
      BY <3>1, <3>3
    <3>5. Stands(w, p) = s
      BY <2>1 DEF Stands, s
    <3>6. QED BY <3>4, <3>5
  <2>2. CASE ~IsObsoleted(w, p)
    <3>1. Stands(w, p) = <<p>>
      BY <2>2 DEF Stands
    <3>2. <<p>> \in Seq({p})
      OBVIOUS
    <3>3. QED BY <3>1, <3>2
  <2>3. QED BY <2>1, <2>2
<1>4. \A p : ends(p) \in Seq(Range(es))
  <2>1. TAKE p
  <2>2. PICK T : Stands(w, p) \in Seq(T)
    BY <1>3
  <2> DEFINE s == Stands(w, p)
  <2> HIDE DEF s
  <2>3. s \in Seq(T)
    BY <2>2 DEF s
  <2>4. Only(s, Range(es)) \in Seq(T) /\ Range(Only(s, Range(es))) = Range(s) \cap Range(es)
    BY <2>3, OnlyPicks
  <2> DEFINE o == Only(s, Range(es))
  <2> HIDE DEF o
  <2>5. o \in Seq(T) /\ Range(o) \subseteq Range(es)
    BY <2>4 DEF o
  <2>6. Len(o) \in Nat /\ DOMAIN o = 1..Len(o) /\ o = [k \in 1..Len(o) |-> o[k]]
    BY <2>5
  <2>7. \A k \in 1..Len(o) : o[k] \in Range(es)
    BY <2>5, <2>6 DEF Range
  <2>8. o \in Seq(Range(es))
    BY <2>6, <2>7
  <2>9. QED BY <2>8 DEF o, s
<1>5. \A p : \A j \in DOMAIN ends(p) : te(ends(p)[j]) \in 1..n
  BY <1>2, <1>4
<1> HIDE DEF ends
<1>6. ASSUME NEW i \in DOMAIN ends(from)
      PROVE  pairs(i) \in Seq(Calls(n, ReasonBits))
  <2>1. \A j \in DOMAIN ends(to) : <<te(ends(from)[i]), te(ends(to)[j]), bit>> \in Calls(n, ReasonBits)
    BY <1>5 DEF Calls
  <2>2. pairs(i) = [j \in DOMAIN ends(to) |-> pairs(i)[j]]
    OBVIOUS
  <2>3. \A j \in DOMAIN ends(to) : pairs(i)[j] \in Calls(n, ReasonBits)
    BY <2>1
  <2> HIDE DEF pairs
  <2>4. ends(to) \in Seq(Range(es))
    BY <1>4
  <2>5. QED BY <2>2, <2>3, <2>4, MappedTyped
<1> HIDE DEF pairs
<1>7. lists \in Seq(Seq(Calls(n, ReasonBits)))
  <2>1. lists = [i \in DOMAIN ends(from) |-> lists[i]]
    OBVIOUS
  <2>2. \A i \in DOMAIN ends(from) : lists[i] \in Seq(Calls(n, ReasonBits))
    BY <1>6
  <2> HIDE DEF lists
  <2>3. ends(from) \in Seq(Range(es))
    BY <1>4
  <2>4. QED BY <2>1, <2>2, <2>3, MappedTyped
<1>8. addedge(w, es, from, to, bit) = FlattenSeq(lists)
  BY DEF addedge, lists, pairs, ends, te
<1> HIDE DEF lists
<1>9. QED BY <1>7, <1>8, FlattenTyped

\* All edges of the packages p of a list of lists.
LEMMA SolvableCalls ==
  ASSUME NEW w, IsTransaction(w), NEW es \in Seq(PackagesOf(w)), NEW p \in PackagesOf(w)
  PROVE  addsolvableedges(w, es, p) \in Seq(Calls(Len(es), ReasonBits))
<1> DEFINE reqs == [i \in DOMAIN w.requires[p] |-> RequirementEdges(w, p, w.requires[p][i])]
           cons == [i \in DOMAIN w.conflicts[p] |-> ConflictEdges(w, p, w.conflicts[p][i])]
           trigs == [i \in DOMAIN w.triggers[p] |-> TriggerEdges(w, p, w.triggers[p][i])]
           calls == FlattenSeq(reqs) \o FlattenSeq(cons) \o FlattenSeq(trigs)
           lists == [c \in DOMAIN calls |-> addedge(w, es, calls[c][1], calls[c][2], calls[c][3])]
           P == PackagesOf(w)
<1>1. /\ w.requires[p] \in Seq(Requirement(P)) /\ w.conflicts[p] \in Seq(Seq(P))
      /\ w.triggers[p] \in Seq(Seq(P))
  BY DEF IsTransaction
<1>2. reqs \in Seq(Seq(Links(w)))
  <2>1. \A i \in DOMAIN w.requires[p] : reqs[i] \in Seq(Links(w))
    <3>1. \A i \in DOMAIN w.requires[p] : w.requires[p][i] \in Requirement(P)
      BY <1>1
    <3>2. QED BY <3>1, RequirementLinks
  <2>2. reqs = [i \in DOMAIN w.requires[p] |-> reqs[i]]
    OBVIOUS
  <2> HIDE DEF reqs
  <2>3. QED BY <1>1, <2>1, <2>2, MappedTyped
<1>3. cons \in Seq(Seq(Links(w)))
  <2>1. \A i \in DOMAIN w.conflicts[p] : cons[i] \in Seq(Links(w))
    <3>1. \A i \in DOMAIN w.conflicts[p] : w.conflicts[p][i] \in Seq(P)
      BY <1>1
    <3>2. QED BY <3>1, OtherLinks
  <2>2. cons = [i \in DOMAIN w.conflicts[p] |-> cons[i]]
    OBVIOUS
  <2> HIDE DEF cons
  <2>3. QED BY <1>1, <2>1, <2>2, MappedTyped
<1>4. trigs \in Seq(Seq(Links(w)))
  <2>1. \A i \in DOMAIN w.triggers[p] : trigs[i] \in Seq(Links(w))
    <3>1. \A i \in DOMAIN w.triggers[p] : w.triggers[p][i] \in Seq(P)
      BY <1>1
    <3>2. QED BY <3>1, OtherLinks
  <2>2. trigs = [i \in DOMAIN w.triggers[p] |-> trigs[i]]
    OBVIOUS
  <2> HIDE DEF trigs
  <2>3. QED BY <1>1, <2>1, <2>2, MappedTyped
<1> HIDE DEF reqs, cons, trigs
<1>5. calls \in Seq(Links(w))
  <2>1. /\ FlattenSeq(reqs) \in Seq(Links(w)) /\ FlattenSeq(cons) \in Seq(Links(w))
        /\ FlattenSeq(trigs) \in Seq(Links(w))
    BY <1>2, <1>3, <1>4, FlattenTyped
  <2> DEFINE a == FlattenSeq(reqs)
             b == FlattenSeq(cons)
             c == FlattenSeq(trigs)
  <2> HIDE DEF a, b, c
  <2>2. a \o b \o c \in Seq(Links(w))
    BY <2>1 DEF a, b, c
  <2>3. QED BY <2>2 DEF a, b, c
<1>6. addsolvableedges(w, es, p) = FlattenSeq(lists)
  BY DEF addsolvableedges, lists, calls, reqs, cons, trigs
<1> HIDE DEF calls
<1>7. lists \in Seq(Seq(Calls(Len(es), ReasonBits)))
  <2>1. \A c \in DOMAIN calls : calls[c][3] \in ReasonBits
    BY <1>5 DEF Links
  <2>2. \A c \in DOMAIN calls : lists[c] \in Seq(Calls(Len(es), ReasonBits))
    BY <2>1, ElementCalls
  <2>3. lists = [c \in DOMAIN calls |-> lists[c]]
    OBVIOUS
  <2> HIDE DEF lists
  <2>4. QED BY <1>5, <2>2, <2>3, MappedTyped
<1> HIDE DEF lists
<1>8. QED BY <1>6, <1>7, FlattenTyped

\* While the cycles are searched every edge has a reason, and none binds a cycle.
Reasoned(edge) == edge.type \cap ReasonBits # {} /\ edge.type \cap CycleBits = {}
EdgesReasoned(n, es) == \A i \in 1..n : \A j \in DOMAIN es[i] : Reasoned(es[i][j])

\* The graph that is built is one, with one unbroken edge at most between two elements.
LEMMA GraphIsBuilt ==
  ASSUME NEW w, IsTransaction(w)
  PROVE  /\ GraphOn(GraphOf(w), Len(ActiveSteps(w)))
         /\ OneEdgeEach(Len(ActiveSteps(w)), GraphOf(w))
         /\ EdgesReasoned(Len(ActiveSteps(w)), GraphOf(w))
         /\ \A i \in 1..Len(ActiveSteps(w)) : \A j \in DOMAIN GraphOf(w)[i] : Unbroken(GraphOf(w)[i][j])
<1> DEFINE a == ActiveSteps(w)
           n == Len(a)
           s == StepsOf(w)
           lists == [k \in DOMAIN s |-> addsolvableedges(w, a, s[k])]
           calls == FlattenSeq(lists)
           es == [i \in DOMAIN a |-> <<>>]
<1>1. a \in Seq(PackagesOf(w)) /\ s \in Seq(PackagesOf(w))
  BY ActiveFacts, StepsFacts
<1>2. GraphOf(w) = addteedges(es, calls)
  BY DEF GraphOf
<1> HIDE DEF a, s
<1>3. lists \in Seq(Seq(Calls(n, ReasonBits)))
  <2>1. \A k \in DOMAIN s : s[k] \in PackagesOf(w)
    BY <1>1
  <2>2. \A k \in DOMAIN s : lists[k] \in Seq(Calls(n, ReasonBits))
    BY <1>1, <2>1, SolvableCalls
  <2>3. lists = [k \in DOMAIN s |-> lists[k]]
    OBVIOUS
  <2> HIDE DEF lists, n
  <2>4. QED BY <1>1, <2>2, <2>3, MappedTyped
<1>4. calls \in Seq(Calls(n, ReasonBits))
  <2> HIDE DEF lists, n
  <2>1. QED BY <1>3, FlattenTyped
<1>5. n \in Nat /\ DOMAIN a = 1..n
  BY <1>1
<1>6. GraphOn(es, n) /\ OneEdgeEach(n, es) /\ \A i \in 1..n : DOMAIN es[i] = {}
  <2>1. es = [i \in 1..n |-> <<>>] /\ <<>> \in Seq(EdgeLists(n)) /\ DOMAIN <<>> = {}
    BY <1>5
  <2> HIDE DEF es
  <2>2. es \in [1..n -> Seq(EdgeLists(n))] /\ \A i \in 1..n : es[i] = <<>>
    BY <2>1
  <2>3. QED BY <2>1, <2>2 DEF GraphOn, OneEdgeEach
<1> HIDE DEF calls, es, n
<1> DEFINE fs == addteedges(es, calls)
<1>7. /\ GraphOn(fs, n) /\ OneEdgeEach(n, fs) /\ PlacesKept(n, es, fs, ReasonBits)
      /\ \A i \in 1..n : \A j \in DOMAIN fs[i] : j \notin DOMAIN es[i] => fs[i][j].type # {}
  BY <1>4, <1>5, <1>6, BitsAdded, AddsEdges
<1> HIDE DEF fs
<1>8. \A i \in 1..n : \A j \in DOMAIN fs[i] : fs[i][j].type # {} /\ fs[i][j].type \subseteq ReasonBits
  BY <1>6, <1>7 DEF PlacesKept
<1>9. ReasonBits \cap CycleBits = {} /\ TYPE_BROKEN \notin ReasonBits
  BY DEF ReasonBits, CycleBits, TYPE_BROKEN, TYPE_CON, TYPE_REQ_P, TYPE_PREREQ_P, TYPE_REQ,
         TYPE_PREREQ, TYPE_CYCLETAIL, TYPE_CYCLEHEAD
<1>10. \A i \in 1..n : \A j \in DOMAIN fs[i] : Reasoned(fs[i][j]) /\ Unbroken(fs[i][j])
  BY <1>8, <1>9 DEF Reasoned, Unbroken
<1>11. EdgesReasoned(n, fs)
  BY <1>10 DEF EdgesReasoned
<1>12. QED BY <1>2, <1>7, <1>10, <1>11 DEF n, a, fs

----------------------------------------------------------------------------
(* What the search and the binding of the cycles keep.                     *)

Phases == {"build", "search", "bind", "order", "done", "choose"}

\* The elements are those of the transaction.
ElementsSet ==
  /\ world \in Transactions /\ phase \in Phases
  /\ IF phase = "build" THEN tes = <<>> ELSE tes = ActiveSteps(world)

StackSound == phase = "search" => Stack(Len(tes), edges, mark, todo)

GraphSound ==
  phase \notin {"build", "search"} => GraphOn(edges, Len(tes)) /\ Acyclic(edges)

CyclesKept == cycles \in Seq(CycleRecords(Len(tes))) /\ unbound \in Seq(CycleRecords(Len(tes)))

GraphInv == ElementsSet /\ StackSound /\ GraphSound /\ CyclesKept

LEMMA ElementFacts ==
  ASSUME ElementsSet
  PROVE  /\ IsTransaction(world) /\ tes \in Seq(PackagesOf(world)) /\ Len(tes) \in Nat
         /\ Elements = 1..Len(tes) /\ Distinct(tes) /\ IsFiniteSet(Elements)
         /\ \A i \in Elements : tes[i] \in PackagesOf(world)
<1>1. IsTransaction(world)
  BY TransactionsAssumption DEF ElementsSet
<1>2. tes \in Seq(PackagesOf(world)) /\ Distinct(tes)
  <2>1. CASE phase = "build"
    <3>1. tes = <<>>
      BY <2>1 DEF ElementsSet
    <3>2. <<>> \in Seq(PackagesOf(world)) /\ DOMAIN <<>> = {}
      OBVIOUS
    <3>3. QED BY <3>1, <3>2 DEF Distinct
  <2>2. CASE phase # "build"
    BY <1>1, <2>2, ActiveFacts DEF ElementsSet
  <2>3. QED BY <2>1, <2>2
<1>3. Len(tes) \in Nat /\ Elements = 1..Len(tes)
  BY <1>2 DEF Elements
<1>4. IsFiniteSet(Elements)
  BY <1>3, FS_Interval
<1>5. QED BY <1>1, <1>2, <1>3, <1>4 DEF Elements

\* The search begins with all elements on the stack.
LEMMA FullStack ==
  ASSUME NEW n \in Nat, NEW es, GraphOn(es, n),
         NEW mk, mk = [i \in 1..n |-> 0], NEW td, td = [i \in 1..n |-> n + 1 - i]
  PROVE  Stack(n, es, mk, td)
<1>1. Len(td) = n /\ \A p \in 1..n : td[p] = n + 1 - p /\ td[p] \in 1..n /\ td[p] > 0
  OBVIOUS
<1>2. StackTyped(n, mk, td)
  <2>1. \A p \in 1..n : td[p] \in Literals(1..n)
    BY <1>1 DEF Literals
  <2>2. td = [p \in 1..n |-> td[p]]
    OBVIOUS
  <2>3. td \in Seq(Literals(1..n))
    BY <2>1, <2>2
  <2>4. mk \in [1..n -> 0..2]
    OBVIOUS
  <2>5. QED BY <2>3, <2>4 DEF StackTyped
<1>3. \A p \in 1..n : ~(td[p] < 0)
  BY <1>1
<1>4. VisitedOnce(n, mk, td)
  <2>1. \A i \in 1..n : mk[i] = 0 /\ ~\E p \in 1..n : td[p] = -i
    BY <1>1
  <2>2. QED BY <1>1, <1>3, <2>1 DEF VisitedOnce
<1>5. NoneMissed(es, mk, td) /\ PathFollowsEdges(es, td)
  BY <1>1, <1>3 DEF NoneMissed, PathFollowsEdges
<1>6. NoneForgotten(n, mk, td)
  <2>1. SUFFICES ASSUME NEW i \in 1..n
                 PROVE  \E q \in 1..n : Var(td[q]) = i /\ Quiet(td, 0, q)
    BY <1>1 DEF NoneForgotten
  <2>2. n + 1 - i \in 1..n /\ n + 1 - (n + 1 - i) = i
    OBVIOUS
  <2>3. td[n + 1 - i] = i /\ Var(i) = i
    BY <1>1, <2>2 DEF Var
  <2>4. Quiet(td, 0, n + 1 - i)
    <3>1. \A r \in (0 + 1)..((n + 1 - i) - 1) : r \in 1..n
      OBVIOUS
    <3>2. QED BY <1>1, <3>1 DEF Quiet
  <2>5. QED BY <2>2, <2>3, <2>4
<1>7. DoneSound(n, es, mk)
  <2>1. Done(n, mk) = {}
    BY DEF Done
  <2>2. QED BY <2>1 DEF DoneSound
<1>8. QED BY <1>2, <1>4, <1>5, <1>6, <1>7 DEF Stack

\* With an empty stack all elements are done, and there is no cycle.
LEMMA EmptyStack ==
  ASSUME NEW n, NEW es, NEW mk, Stack(n, es, mk, <<>>)
  PROVE  GraphOn(es, n) /\ Acyclic(es)
<1>1. \A i \in 1..n : mk[i] = 2
  <2>1. \A q : q \notin 1..Len(<<>>)
    OBVIOUS
  <2>2. QED BY <2>1 DEF Stack, NoneForgotten
<1>2. Done(n, mk) = 1..n
  BY <1>1 DEF Done
<1>3. n \in Nat /\ GraphOn(es, n) /\ DoneSound(n, es, mk)
  BY DEF Stack
<1>4. DOMAIN es = 1..n
  BY <1>3, GraphFacts
<1>5. QED BY <1>2, <1>3, <1>4 DEF DoneSound, Acyclic

\* The edges over which Enter puts elements on the stack, and their ends.
OpenEdges(es, mk, x) == Only(es[x], {e \in Range(es[x]) : Unbroken(e) /\ mk[e.to] # 2})
EndsOf(open) == [j \in DOMAIN open |-> open[j].to]

LEMMA OpenEnds ==
  ASSUME NEW n \in Nat, NEW es, GraphOn(es, n), NEW mk \in [1..n -> 0..2], NEW x \in 1..n,
         NEW open, open = OpenEdges(es, mk, x),
         NEW up, up = EndsOf(open)
  PROVE  /\ up \in Seq(1..n) /\ Range(up) = Successors(es, x) \ Done(n, mk)
         /\ open = <<>> => Successors(es, x) \subseteq Done(n, mk)
<1> DEFINE S == {e \in Range(es[x]) : Unbroken(e) /\ mk[e.to] # 2}
<1>1. es[x] \in Seq(EdgeLists(n)) /\ DOMAIN es[x] = 1..Len(es[x]) /\ DOMAIN es = 1..n
  BY GraphFacts
<1>2. Range(es[x]) = {es[x][j] : j \in DOMAIN es[x]} /\ \A e \in Range(es[x]) : e.to \in 1..n
  <2>1. \A j \in DOMAIN es[x] : es[x][j].to \in 1..n
    BY GraphFacts
  <2>2. QED BY <2>1 DEF Range
<1> HIDE DEF S
<1>3. open \in Seq(EdgeLists(n)) /\ Range(open) = Range(es[x]) \cap S
  BY <1>1, OnlyPicks DEF S, OpenEdges
<1>4. Len(open) \in Nat /\ DOMAIN open = 1..Len(open) /\ Range(open) = {open[j] : j \in DOMAIN open}
  BY <1>3 DEF Range
<1>5. \A e : e \in Range(open) <=> e \in Range(es[x]) /\ Unbroken(e) /\ mk[e.to] # 2
  BY <1>3 DEF S
<1>6. \A j \in DOMAIN open : up[j] = open[j].to /\ up[j] \in 1..n
  BY <1>2, <1>4, <1>5 DEF EndsOf
<1>7. up \in Seq(1..n) /\ DOMAIN up = DOMAIN open
  <2>1. up = [j \in DOMAIN open |-> up[j]]
    BY DEF EndsOf
  <2>2. QED BY <1>3, <1>6, <2>1, MappedTyped
<1>8. Range(up) = {open[j].to : j \in DOMAIN open}
  BY <1>6, <1>7 DEF Range
<1>9. \A k : k \in Successors(es, x) \ Done(n, mk) <=> \E e \in Range(open) : e.to = k
  <2>1. ASSUME NEW k, k \in Successors(es, x), k \notin Done(n, mk)
        PROVE  \E e \in Range(open) : e.to = k
    <3>1. PICK j \in DOMAIN es[x] : es[x][j].to = k /\ Unbroken(es[x][j])
      BY <2>1 DEF Successors, Depends
    <3>2. es[x][j] \in Range(es[x]) /\ k \in 1..n
      BY <1>1, <1>2, <2>1 DEF Successors
    <3>3. mk[k] # 2
      BY <2>1, <3>2 DEF Done
    <3>4. QED BY <1>5, <3>1, <3>2, <3>3
  <2>2. ASSUME NEW e \in Range(open)
        PROVE  e.to \in Successors(es, x) /\ e.to \notin Done(n, mk)
    <3>1. e \in Range(es[x]) /\ Unbroken(e) /\ mk[e.to] # 2
      BY <1>5
    <3>2. PICK j \in DOMAIN es[x] : es[x][j] = e
      BY <1>2, <3>1
    <3>3. e.to \in 1..n /\ Depends(es, x, e.to)
      BY <1>2, <3>1, <3>2 DEF Depends
    <3>4. QED BY <1>1, <3>1, <3>3 DEF Successors, Done
  <2>3. QED BY <2>1, <2>2
<1>10. \A k : k \in Range(up) <=> \E e \in Range(open) : e.to = k
  BY <1>4, <1>8
<1>11. Range(up) = Successors(es, x) \ Done(n, mk)
  BY <1>9, <1>10
<1>12. ASSUME open = <<>>
       PROVE  Successors(es, x) \subseteq Done(n, mk)
  <2>1. DOMAIN open = {}
    BY <1>12
  <2>2. Range(open) = {}
    BY <1>4, <2>1
  <2>3. QED BY <1>9, <2>2
<1>13. QED BY <1>7, <1>11, <1>12

LEMMA InitGraphInv == Init => GraphInv
<1> SUFFICES ASSUME Init
             PROVE  GraphInv
  OBVIOUS
<1>1. ElementsSet /\ StackSound /\ GraphSound
  BY DEF Init, ElementsSet, StackSound, GraphSound, Phases
<1>2. CyclesKept
  <2>1. cycles = <<>> /\ unbound = <<>>
    BY DEF Init
  <2>2. <<>> \in Seq(CycleRecords(Len(tes)))
    OBVIOUS
  <2>3. QED BY <2>1, <2>2 DEF CyclesKept
<1>3. QED BY <1>1, <1>2 DEF GraphInv

LEMMA BuildKeepsGraph == GraphInv /\ Build => GraphInv'
<1> SUFFICES ASSUME GraphInv, Build
             PROVE  GraphInv'
  OBVIOUS
<1> DEFINE n == Len(ActiveSteps(world))
<1>1. /\ phase = "build" /\ phase' = IF n = 0 THEN "done" ELSE "search"
      /\ tes' = ActiveSteps(world) /\ edges' = GraphOf(world) /\ mark' = [i \in 1..n |-> 0]
      /\ todo' = [i \in 1..n |-> n + 1 - i]
      /\ world' = world /\ cycles' = cycles /\ unbound' = unbound
  BY DEF Build
<1>2. ElementsSet /\ CyclesKept /\ world \in Transactions /\ tes = <<>> /\ Len(tes) = 0
  BY <1>1 DEF GraphInv, ElementsSet
<1>3. IsTransaction(world) /\ n \in Nat
  BY <1>2, ElementFacts, ActiveFacts
<1>4. GraphOn(GraphOf(world), n)
  BY <1>3, GraphIsBuilt
<1>5. ActiveSteps(world)' = ActiveSteps(world) /\ Len(tes') = n
  <2>1. world' = world /\ tes' = ActiveSteps(world)
    BY <1>1
  <2>2. ActiveSteps(world)' = ActiveSteps(world)
    BY <2>1 DEF ActiveSteps, StepsOf, TransactsMap, IsObsoleted, Partners, TransactionInfo,
                SameName, PackagesOf, NewPackages
  <2>3. QED BY <2>1, <2>2
<1> HIDE DEF n
<1>6. ElementsSet'
  BY <1>1, <1>2, <1>5 DEF ElementsSet, Phases
<1>7. StackSound'
  <2>1. Stack(n, edges', mark', todo')
    BY <1>1, <1>3, <1>4, FullStack
  <2>2. QED BY <1>5, <2>1 DEF StackSound
<1>8. GraphSound'
  <2>1. SUFFICES ASSUME n = 0
                 PROVE  GraphOn(edges', 0) /\ Acyclic(edges')
    BY <1>1, <1>5 DEF GraphSound
  <2>2. GraphOn(edges', 0) /\ DOMAIN edges' = 1..0
    BY <1>1, <1>4, <2>1, GraphFacts
  <2>3. DOMAIN edges' = {}
    BY <2>2
  <2>4. Acyclic(edges')
    BY <2>3 DEF Acyclic
  <2>5. QED BY <2>2, <2>4
<1>9. CyclesKept'
  <2>1. cycles = <<>> /\ unbound = <<>>
    <3>1. CycleRecords(0) = {}
      <4>1. Seq(1..0) \ {<<>>} = {}
        OBVIOUS
      <4>2. QED BY <4>1 DEF CycleRecords
    <3>2. cycles \in Seq({}) /\ unbound \in Seq({})
      BY <1>2, <3>1 DEF CyclesKept
    <3>3. QED BY <3>2
  <2>2. <<>> \in Seq(CycleRecords(n))
    OBVIOUS
  <2>3. QED BY <1>1, <1>5, <2>1, <2>2 DEF CyclesKept
<1>10. QED BY <1>6, <1>7, <1>8, <1>9 DEF GraphInv

\* A step of the search keeps all but the stack.
LEMMA SearchGoesOn ==
  ASSUME GraphInv, phase = "search", UNCHANGED searching, Stack(Len(tes), edges, mark, todo)',
         cycles' \in Seq(CycleRecords(Len(tes)))
  PROVE  GraphInv'
<1>1. /\ phase' = "search" /\ world' = world /\ tes' = tes /\ unbound' = unbound
  BY DEF searching
<1>2. ElementsSet'
  <2>1. ActiveSteps(world)' = ActiveSteps(world)
    BY <1>1 DEF ActiveSteps, StepsOf, TransactsMap, IsObsoleted, Partners, TransactionInfo, SameName,
                PackagesOf, NewPackages
  <2>2. QED BY <1>1, <2>1 DEF GraphInv, ElementsSet, Phases
<1>3. StackSound' /\ GraphSound'
  BY <1>1 DEF StackSound, GraphSound
<1>4. CyclesKept'
  BY <1>1 DEF GraphInv, CyclesKept
<1>5. QED BY <1>2, <1>3, <1>4 DEF GraphInv

LEMMA TopFacts ==
  ASSUME GraphInv, phase = "search", todo # <<>>
  PROVE  /\ Stack(Len(tes), edges, mark, todo) /\ Len(tes) \in Nat /\ GraphOn(edges, Len(tes))
         /\ Elements = 1..Len(tes)
         /\ mark \in [1..Len(tes) -> 0..2] /\ Len(todo) \in Nat /\ Len(todo) > 0
         /\ Top = todo[Len(todo)] /\ Top \in Int /\ Var(Top) \in 1..Len(tes)
         /\ Top < 0 => -Top = Var(Top)
         /\ Top > 0 => Top = Var(Top)
         /\ cycles \in Seq(CycleRecords(Len(tes)))
<1>1. Stack(Len(tes), edges, mark, todo) /\ cycles \in Seq(CycleRecords(Len(tes)))
  BY DEF GraphInv, StackSound, CyclesKept
<1>2. /\ Len(tes) \in Nat /\ GraphOn(edges, Len(tes)) /\ StackTyped(Len(tes), mark, todo)
  BY <1>1 DEF Stack
<1>3. Elements = 1..Len(tes)
  BY ElementFacts DEF GraphInv
<1>4. mark \in [1..Len(tes) -> 0..2] /\ todo \in Seq(Literals(1..Len(tes)))
  BY <1>2 DEF StackTyped
<1>5. Len(todo) \in Nat /\ Len(todo) > 0 /\ Len(todo) \in 1..Len(todo)
  BY <1>4
<1>6. Top = todo[Len(todo)]
  BY DEF Top, Last
<1>7. /\ Top \in Int /\ Var(Top) \in 1..Len(tes)
      /\ Top < 0 => -Top = Var(Top)
      /\ ~(Top < 0) => Top > 0 /\ Top = Var(Top)
  BY <1>2, <1>5, <1>6, StackFacts
<1>8. QED BY <1>1, <1>2, <1>3, <1>4, <1>5, <1>6, <1>7

LEMMA LeaveKeepsGraph == GraphInv /\ Leave => GraphInv'
<1> SUFFICES ASSUME GraphInv, Leave
             PROVE  GraphInv'
  OBVIOUS
<1> DEFINE n == Len(tes)
<1>1. /\ phase = "search" /\ todo # <<>> /\ Top < 0 /\ mark' = [mark EXCEPT ![-Top] = 2]
      /\ todo' = Front(todo) /\ UNCHANGED searching /\ edges' = edges /\ cycles' = cycles
  BY DEF Leave
<1>2. /\ Stack(n, edges, mark, todo) /\ n \in Nat /\ GraphOn(edges, n)
      /\ Len(todo) \in Nat /\ Len(todo) > 0 /\ Top = todo[Len(todo)] /\ Top \in Int
      /\ Var(Top) \in 1..n /\ -Top = Var(Top) /\ cycles \in Seq(CycleRecords(n))
  BY <1>1, TopFacts
<1> DEFINE x == Var(Top)
           m == Len(todo)
<1>3. Successors(edges, x) \subseteq Done(n, mark)
  <2>1. m \in 1..m /\ todo[m] < 0 /\ -todo[m] = x
    BY <1>1, <1>2
  <2>2. \A k \in Successors(edges, x) :
          mark[k] = 2 \/ \E q \in (m + 1)..m : Var(todo[q]) = k /\ Quiet(todo, m, q)
    BY <1>2, <2>1 DEF Stack, NoneMissed
  <2>3. (m + 1)..m = {}
    BY <1>2
  <2>4. Successors(edges, x) \subseteq 1..n
    BY <1>2, GraphFacts
  <2>5. QED BY <2>2, <2>3, <2>4 DEF Done
<1>4. Stack(n, edges, mark', todo')
  <2>1. mark' = [mark EXCEPT ![x] = 2] /\ x = Var(todo[m]) /\ todo[m] < 0
    BY <1>1, <1>2
  <2> HIDE DEF x, n, m
  <2>2. QED BY <1>1, <1>2, <1>3, <2>1, PopsTop DEF m
<1>5. Len(tes)' = n
  BY <1>1 DEF searching
<1>6. QED BY <1>1, <1>2, <1>4, <1>5, SearchGoesOn

LEMMA SkipKeepsGraph == GraphInv /\ SkipDone => GraphInv'
<1> SUFFICES ASSUME GraphInv, SkipDone
             PROVE  GraphInv'
  OBVIOUS
<1> DEFINE n == Len(tes)
           x == Top
<1>1. /\ phase = "search" /\ todo # <<>> /\ Top > 0 /\ mark[x] = 2 /\ mark' = mark
      /\ todo' = Front(todo) /\ UNCHANGED searching /\ edges' = edges /\ cycles' = cycles
  BY DEF SkipDone
<1>2. /\ Stack(n, edges, mark, todo) /\ n \in Nat /\ mark \in [1..n -> 0..2]
      /\ Len(todo) \in Nat /\ Len(todo) > 0 /\ x = todo[Len(todo)] /\ x \in Int
      /\ Var(x) = x /\ x \in 1..n /\ cycles \in Seq(CycleRecords(n))
  BY <1>1, TopFacts
<1>3. Successors(edges, x) \subseteq Done(n, mark)
  <2>1. x \in Done(n, mark)
    BY <1>1, <1>2 DEF Done
  <2>2. QED BY <1>2, <2>1 DEF Stack, DoneSound
<1>4. mark' = [mark EXCEPT ![x] = 2]
  BY <1>1, <1>2
<1>5. Stack(n, edges, mark', todo')
  <2>1. x = Var(todo[Len(todo)]) /\ mark[x] # 1
    BY <1>1, <1>2
  <2> HIDE DEF x, n
  <2>2. QED BY <1>1, <1>2, <1>3, <1>4, <2>1, PopsTop
<1>6. Len(tes)' = n
  BY <1>1 DEF searching
<1>7. QED BY <1>1, <1>2, <1>5, <1>6, SearchGoesOn

LEMMA EnterKeepsGraph == GraphInv /\ Enter => GraphInv'
<1> SUFFICES ASSUME GraphInv, Enter
             PROVE  GraphInv'
  OBVIOUS
<1> DEFINE n == Len(tes)
           x == Top
           open == Only(edges[x], {e \in Range(edges[x]) : Unbroken(e) /\ mark[e.to] # 2})
           up == [j \in DOMAIN open |-> open[j].to]
<1>1. /\ phase = "search" /\ todo # <<>> /\ x > 0 /\ mark[x] = 0
      /\ UNCHANGED searching /\ edges' = edges /\ cycles' = cycles
      /\ IF open = <<>> THEN mark' = [mark EXCEPT ![x] = 2] /\ todo' = Front(todo)
         ELSE mark' = [mark EXCEPT ![x] = 1] /\ todo' = Front(todo) \o <<-x>> \o up
  BY DEF Enter
<1>2. /\ Stack(n, edges, mark, todo) /\ n \in Nat /\ GraphOn(edges, n) /\ mark \in [1..n -> 0..2]
      /\ Len(todo) \in Nat /\ Len(todo) > 0 /\ x = todo[Len(todo)] /\ x \in Int
      /\ Var(x) = x /\ x \in 1..n /\ cycles \in Seq(CycleRecords(n))
  BY <1>1, TopFacts
<1> HIDE DEF n, x
<1>3. /\ up \in Seq(1..n) /\ Range(up) = Successors(edges, x) \ Done(n, mark)
      /\ open = <<>> => Successors(edges, x) \subseteq Done(n, mark)
  <2>1. /\ open = OpenEdges(edges, mark, x)
        /\ up = EndsOf(open)
    BY DEF OpenEdges, EndsOf
  <2> HIDE DEF open, up
  <2>2. QED BY <1>2, <2>1, OpenEnds
<1> HIDE DEF open, up
<1>4. Stack(n, edges, mark', todo')
  <2>1. CASE open = <<>>
    <3>1. x = Var(todo[Len(todo)]) /\ mark[x] # 1
      BY <1>1, <1>2
    <3>2. Successors(edges, x) \subseteq Done(n, mark)
      BY <1>3, <2>1
    <3>3. mark' = [mark EXCEPT ![x] = 2] /\ todo' = Front(todo)
      BY <1>1, <2>1
    <3>4. QED BY <1>2, <3>1, <3>2, <3>3, PopsTop
  <2>2. CASE open # <<>>
    <3>1. mark' = [mark EXCEPT ![x] = 1] /\ todo' = Pushed(todo, x, up)
      BY <1>1, <2>2 DEF Pushed
    <3>2. QED BY <1>1, <1>2, <1>3, <3>1, PushesOpen
  <2>3. QED BY <2>1, <2>2
<1>5. Len(tes)' = n
  BY <1>1 DEF searching, n
<1>6. cycles' \in Seq(CycleRecords(n))
  BY <1>1, <1>2
<1>7. QED BY <1>1, <1>4, <1>5, <1>6, SearchGoesOn DEF n

LEMMA BreakKeepsGraph == GraphInv /\ BreakCycle => GraphInv'
<1> SUFFICES ASSUME GraphInv, BreakCycle
             PROVE  GraphInv'
  OBVIOUS
<1> DEFINE n == Len(tes)
           x == Top
           ch == CycleChain
           s == CycleStart
           l == WeakestLink(ch)
           e == EdgeTo(ch[l], Following(ch, l))
           rec == [tes    |-> SubSeq(ch, l + 1, Len(ch)) \o SubSeq(ch, 1, l),
                   weight |-> Weight(edges[ch[l]][e].type)]
<1>1. /\ phase = "search" /\ todo # <<>> /\ x > 0 /\ mark[x] = 1
      /\ cycles' = Append(cycles, rec)
      /\ edges' = [edges EXCEPT ![ch[l]][e].type = @ \cup {TYPE_BROKEN}]
      /\ mark' = [i \in Elements |-> IF i \in Range(ch) THEN 0 ELSE mark[i]]
      /\ todo' = Append(SubSeq(todo, 1, s - 1), x)
      /\ UNCHANGED searching
  BY DEF BreakCycle
<1>2. /\ Stack(n, edges, mark, todo) /\ n \in Nat /\ GraphOn(edges, n) /\ Elements = 1..n
      /\ Len(todo) \in Nat /\ Len(todo) > 0 /\ x = todo[Len(todo)]
      /\ cycles \in Seq(CycleRecords(n))
  BY <1>1, TopFacts
<1> HIDE DEF n
<1>3. IsCycle(n, edges, todo, s, ch)
  BY <1>1, <1>2, CycleIsOnStack DEF n
<1>4. /\ ch \in Seq(1..n) /\ Len(ch) \in Nat /\ Len(ch) > 0 /\ DOMAIN ch = 1..Len(ch)
      /\ \A k \in DOMAIN ch : ch[k] \in 1..n /\ Depends(edges, ch[k], Following(ch, k))
  <2>1. \A k \in DOMAIN ch : Depends(edges, ch[k], Following(ch, k))
    BY <1>3 DEF IsCycle
  <2>2. ch \in Seq(1..n) /\ Len(ch) > 1
    BY <1>3 DEF IsCycle
  <2> HIDE DEF ch
  <2>3. Len(ch) \in Nat /\ DOMAIN ch = 1..Len(ch)
    BY <2>2
  <2>4. \A k \in 1..Len(ch) : ch[k] \in 1..n
    BY <2>2, ElementOfSeq
  <2>5. Len(ch) > 0
    BY <2>2, <2>3
  <2>6. QED BY <2>1, <2>2, <2>3, <2>4, <2>5
<1> HIDE DEF ch, s, x
<1>5. l \in DOMAIN ch
  BY <1>4, WeakestLinkFound
<1> HIDE DEF l
<1>6. e \in DOMAIN edges[ch[l]]
  BY <1>2, <1>4, <1>5, EdgeFound
<1> HIDE DEF e
<1>7. rec \in CycleRecords(n)
  BY <1>2, <1>4, <1>5, RecordsCycle
<1> HIDE DEF rec
<1>8. Stack(n, edges', mark', todo')
  <2>1. /\ mark' = Renewed(n, mark, Range(ch))
        /\ todo' = Shortened(todo, s)
        /\ edges' = Breaking(edges, ch[l], e)
    BY <1>1, <1>2 DEF Renewed, Shortened, Breaking
  <2>2. QED BY <1>2, <1>3, <1>5, <1>6, <2>1, BreaksCycle
<1>9. cycles' \in Seq(CycleRecords(n))
  BY <1>1, <1>2, <1>7
<1>10. Len(tes)' = n
  BY <1>1 DEF searching, n
<1>11. QED BY <1>1, <1>8, <1>9, <1>10, SearchGoesOn DEF n

\* All steps behind the search keep the elements.
LEMMA ElementsStay ==
  ASSUME ElementsSet, phase # "build", world' = world, tes' = tes,
         phase' \in Phases, phase' # "build"
  PROVE  ElementsSet'
<1>1. ActiveSteps(world)' = ActiveSteps(world)
  BY DEF ActiveSteps, StepsOf, TransactsMap, IsObsoleted, Partners, TransactionInfo, SameName,
         PackagesOf, NewPackages
<1>2. QED BY <1>1 DEF ElementsSet

LEMMA EndKeepsGraph == GraphInv /\ EndSearch => GraphInv'
<1> SUFFICES ASSUME GraphInv, EndSearch
             PROVE  GraphInv'
  OBVIOUS
<1> DEFINE n == Len(tes)
           latest == Reverse(cycles)
           strong == {c \in Range(cycles) : c.weight >= TYPE_REQ}
           weak == Range(cycles) \ strong
           T == CycleRecords(n)
<1>1. /\ phase = "search" /\ todo = <<>> /\ phase' = "bind"
      /\ unbound' = Only(latest, strong) \o Only(latest, weak)
      /\ world' = world /\ tes' = tes /\ edges' = edges /\ cycles' = cycles
  BY DEF EndSearch
<1>2. ElementsSet'
  BY <1>1, ElementsStay DEF GraphInv, Phases
<1>3. StackSound' /\ Len(tes)' = n
  BY <1>1 DEF StackSound
<1>4. GraphSound'
  <2>1. Stack(n, edges, mark, <<>>)
    BY <1>1 DEF GraphInv, StackSound
  <2>2. GraphOn(edges, n) /\ Acyclic(edges)
    BY <2>1, EmptyStack
  <2>3. GraphOn(edges', n) /\ Acyclic(edges')
    BY <1>1, <2>2
  <2>4. QED BY <1>3, <2>3 DEF GraphSound
<1>5. cycles \in Seq(T)
  BY DEF GraphInv, CyclesKept
<1>6. latest \in Seq(T)
  <2>1. Len(cycles) \in Nat /\ \A i \in 1..Len(cycles) : cycles[(Len(cycles) - i) + 1] \in T
    BY <1>5
  <2>2. latest = [i \in 1..Len(cycles) |-> cycles[(Len(cycles) - i) + 1]]
    BY DEF Reverse
  <2> HIDE DEF latest, T
  <2>3. QED BY <2>1, <2>2
<1> HIDE DEF latest, strong, weak, T
<1>7. Only(latest, strong) \in Seq(T) /\ Only(latest, weak) \in Seq(T)
  BY <1>6, OnlyPicks
<1> DEFINE a == Only(latest, strong)
           b == Only(latest, weak)
<1> HIDE DEF a, b
<1>8. a \o b \in Seq(T)
  BY <1>7 DEF a, b
<1>9. CyclesKept'
  BY <1>1, <1>3, <1>5, <1>8 DEF CyclesKept, a, b, T
<1>10. QED BY <1>2, <1>3, <1>4, <1>9 DEF GraphInv

LEMMA BindKeepsGraph == GraphInv /\ Bind => GraphInv'
<1> SUFFICES ASSUME GraphInv, Bind
             PROVE  GraphInv'
  OBVIOUS
<1> DEFINE n == Len(tes)
           c == Head(unbound).tes
<1>1. /\ phase = "bind" /\ unbound # <<>> /\ edges' = addcycleedges(edges, c)
      /\ unbound' = Tail(unbound) /\ phase' = phase /\ world' = world /\ tes' = tes
      /\ cycles' = cycles
  BY DEF Bind
<1>2. /\ n \in Nat /\ GraphOn(edges, n) /\ Acyclic(edges)
      /\ cycles \in Seq(CycleRecords(n)) /\ unbound \in Seq(CycleRecords(n))
  BY <1>1, ElementFacts DEF GraphInv, GraphSound, CyclesKept
<1>3. c \in Seq(1..n) /\ Len(c) > 0
  <2>1. Head(unbound) \in CycleRecords(n)
    BY <1>1, <1>2
  <2>2. c \in Seq(1..n) /\ c # <<>>
    BY <2>1 DEF CycleRecords
  <2> HIDE DEF c
  <2>3. QED BY <2>2
<1>4. Tail(unbound) \in Seq(CycleRecords(n))
  BY <1>1, <1>2
<1> HIDE DEF c
<1>5. GraphOn(edges', n) /\ Acyclic(edges')
  BY <1>1, <1>2, <1>3, BindKeeps
<1>6. ElementsSet'
  BY <1>1, ElementsStay DEF GraphInv, Phases
<1>7. Len(tes)' = n
  BY <1>1
<1>8. StackSound' /\ GraphSound' /\ CyclesKept'
  BY <1>1, <1>2, <1>4, <1>5, <1>7 DEF StackSound, GraphSound, CyclesKept
<1>9. QED BY <1>6, <1>8 DEF GraphInv

\* The later steps leave the graph alone.
LEMMA GraphStays ==
  ASSUME GraphInv, phase \notin {"build", "search"}, phase' \in Phases,
         phase' \notin {"build", "search"},
         UNCHANGED <<world, tes, edges, cycles, unbound>>
  PROVE  GraphInv'
<1>1. ElementsSet'
  BY ElementsStay DEF GraphInv
<1>2. StackSound' /\ GraphSound' /\ CyclesKept'
  BY DEF GraphInv, StackSound, GraphSound, CyclesKept
<1>3. QED BY <1>1, <1>2 DEF GraphInv

LEMMA NextGraphInv == GraphInv /\ [Next]_vars => GraphInv'
<1> SUFFICES ASSUME GraphInv, [Next]_vars
             PROVE  GraphInv'
  OBVIOUS
<1>1. CASE Build \/ Leave \/ SkipDone \/ Enter \/ BreakCycle \/ EndSearch \/ Bind
  BY <1>1, BuildKeepsGraph, LeaveKeepsGraph, SkipKeepsGraph, EnterKeepsGraph, BreakKeepsGraph,
     EndKeepsGraph, BindKeepsGraph
<1>2. CASE Arrange
  BY <1>2, GraphStays DEF Arrange, Phases
<1>3. CASE HandleUninstall \/ HandleSameMedium \/ ChangeMedium
  BY <1>3, GraphStays DEF HandleUninstall, HandleSameMedium, ChangeMedium, ordering, Phases
<1>4. CASE Finish
  BY <1>4, GraphStays DEF Finish, Phases
<1>5. CASE FirstChoices
  BY <1>5, GraphStays DEF FirstChoices, HasOrderdata, Phases
<1>6. CASE ChooseOffered \/ ChooseEarly
  BY <1>6, GraphStays DEF ChooseOffered, ChooseEarly, Choose, Phases
<1>7. CASE NoChoices \/ UNCHANGED vars
  <2>1. UNCHANGED vars
    BY <1>7 DEF NoChoices
  <2>2. ActiveSteps(world)' = ActiveSteps(world)
    BY <2>1 DEF vars, ActiveSteps, StepsOf, TransactsMap, IsObsoleted, Partners, TransactionInfo,
                SameName, PackagesOf, NewPackages
  <2>3. QED BY <2>1, <2>2 DEF vars, GraphInv, ElementsSet, StackSound, GraphSound, CyclesKept
<1>8. QED BY <1>1, <1>2, <1>3, <1>4, <1>5, <1>6, <1>7 DEF Next, Order

----------------------------------------------------------------------------
(* What is broken is the weakest.                                          *)

\* The bits that say nothing of the strength of an edge.
Marks == {TYPE_BROKEN, TYPE_CYCLETAIL, TYPE_CYCLEHEAD}

LEMMA StrengthStays ==
  ASSUME NEW e, NEW f, NEW B, B \subseteq Marks, f.type \ B = e.type \ B
  PROVE  Strength(f) = Strength(e)
<1>1. f.type \ Marks = e.type \ Marks
  OBVIOUS
<1>2. QED BY <1>1 DEF Strength, Marks

LEMMA ReasonedStrength ==
  ASSUME NEW e, Reasoned(e)
  PROVE  /\ Strength(e) \in Nat /\ Strength(e) > 0
         /\ Unbroken(e) => Strength(e) = Weight(e.type)
<1> DEFINE t == e.type \ Marks
<1>1. t \cap ReasonBits # {}
  BY DEF Reasoned, Marks, ReasonBits, TYPE_BROKEN, TYPE_CON, TYPE_REQ_P, TYPE_PREREQ_P, TYPE_REQ,
         TYPE_PREREQ, TYPE_CYCLETAIL, TYPE_CYCLEHEAD
<1>2. Unbroken(e) => t = e.type
  BY DEF Reasoned, Unbroken, Marks, CycleBits
<1>3. Strength(e) = Weight(t)
  BY DEF Strength, Marks
<1> HIDE DEF t
<1>4. Weight(t) \in Nat
  BY WeightIsNat
<1>5. Weight(t) > 0
  <2>1. TYPE_CON \in t \/ TYPE_REQ_P \in t \/ TYPE_PREREQ_P \in t \/ TYPE_REQ \in t \/ TYPE_PREREQ \in t
    BY <1>1 DEF ReasonBits
  <2>2. QED BY <2>1 DEF Weight, TYPE_BROKEN, TYPE_CON, TYPE_REQ_P, TYPE_PREREQ_P, TYPE_REQ,
                        TYPE_PREREQ, TYPE_CYCLETAIL, TYPE_CYCLEHEAD
<1>6. QED BY <1>2, <1>3, <1>4, <1>5

\* The edges of strength w or more lead from `from' back to `to'.
LeadsOn(es, w, S) ==
  \A i \in S : \A j \in DOMAIN es[i] : Strength(es[i][j]) >= w => es[i][j].to \in S
WayBack(n, es, w, from, to) ==
  \A S \in SUBSET (1..n) : from \in S /\ LeadsOn(es, w, S) => to \in S

\* BreaksTheWeakest, of a graph on n elements.
Justified(n, es) ==
  \A i \in 1..n : \A j \in DOMAIN es[i] :
    ~Unbroken(es[i][j]) =>
      Strength(es[i][j]) > 0 /\ WayBack(n, es, Strength(es[i][j]), es[i][j].to, i)

\* Edges that stay as strong as they were lead back as before.
LEMMA WaysStay ==
  ASSUME NEW n, NEW es, NEW fs, NEW B, B \subseteq Marks, PlacesKept(n, es, fs, B),
         NEW w, NEW from, NEW to, WayBack(n, es, w, from, to)
  PROVE  WayBack(n, fs, w, from, to)
<1>1. SUFFICES ASSUME NEW S \in SUBSET (1..n), from \in S, LeadsOn(fs, w, S)
               PROVE  LeadsOn(es, w, S)
  BY DEF WayBack
<1>2. SUFFICES ASSUME NEW i \in S, NEW j \in DOMAIN es[i], Strength(es[i][j]) >= w
               PROVE  es[i][j].to \in S
  BY DEF LeadsOn
<1>3. /\ j \in DOMAIN fs[i] /\ fs[i][j].to = es[i][j].to /\ fs[i][j].type \ B = es[i][j].type \ B
  BY DEF PlacesKept
<1>4. Strength(fs[i][j]) = Strength(es[i][j])
  BY <1>3, StrengthStays
<1>5. QED BY <1>1, <1>2, <1>3, <1>4 DEF LeadsOn

\* Nothing that is added to bind a cycle is broken.
LEMMA BindingJustified ==
  ASSUME NEW n, NEW es, NEW fs, PlacesKept(n, es, fs, CycleBits), Justified(n, es)
  PROVE  Justified(n, fs)
<1>1. SUFFICES ASSUME NEW i \in 1..n, NEW j \in DOMAIN fs[i], ~Unbroken(fs[i][j])
               PROVE  Strength(fs[i][j]) > 0 /\ WayBack(n, fs, Strength(fs[i][j]), fs[i][j].to, i)
  BY DEF Justified
<1>2. TYPE_BROKEN \notin CycleBits /\ CycleBits \subseteq Marks
  BY DEF CycleBits, Marks, TYPE_BROKEN, TYPE_CYCLETAIL, TYPE_CYCLEHEAD
<1>3. j \in DOMAIN es[i]
  BY <1>1, <1>2 DEF PlacesKept, Unbroken
<1>4. fs[i][j].to = es[i][j].to /\ fs[i][j].type \ CycleBits = es[i][j].type \ CycleBits
  BY <1>3 DEF PlacesKept
<1>5. Strength(fs[i][j]) = Strength(es[i][j])
  BY <1>2, <1>4, StrengthStays
<1>6. ~Unbroken(es[i][j])
  BY <1>1, <1>2, <1>4 DEF Unbroken
<1>7. Strength(es[i][j]) > 0 /\ WayBack(n, es, Strength(es[i][j]), es[i][j].to, i)
  BY <1>3, <1>6 DEF Justified
<1>8. WayBack(n, fs, Strength(es[i][j]), es[i][j].to, i)
  BY <1>2, <1>7, WaysStay
<1>9. QED BY <1>4, <1>5, <1>7, <1>8

\* Along a chain that a set does not let out, the set is not left.
LEMMA GoesAlong ==
  ASSUME NEW ch, NEW S, NEW a \in Nat, NEW b \in Nat, a <= b, ch[a] \in S,
         \A k \in a..(b - 1) : ch[k] \in S => ch[k + 1] \in S
  PROVE  ch[b] \in S
<1> DEFINE U == {k \in a..b : ch[k] \notin S}
<1>1. SUFFICES ASSUME U # {}
               PROVE  FALSE
  <2>1. b \in a..b
    OBVIOUS
  <2>2. QED BY <2>1
<1>2. U \subseteq Nat
  OBVIOUS
<1> HIDE DEF U
<1>3. PICK k \in U : \A y \in U : k <= y
  BY <1>1, <1>2, MinIsLeast
<1>4. k \in a..b /\ ch[k] \notin S
  BY <1>3 DEF U
<1>5. k # a
  BY <1>4
<1>6. k - 1 \in a..(b - 1) /\ (k - 1) + 1 = k /\ ~(k <= k - 1)
  BY <1>4, <1>5
<1>7. ch[k - 1] \in S
  <2>1. k - 1 \in a..b
    BY <1>6
  <2>2. QED BY <1>3, <1>6, <2>1 DEF U
<1>8. QED BY <1>4, <1>6, <1>7

\* A cycle leads from the end of each of its edges back to its start.
LEMMA CycleLeadsBack ==
  ASSUME NEW n \in Nat, NEW es, NEW ch, NEW m \in Nat, m = Len(ch), DOMAIN ch = 1..m,
         \A k \in 1..m : ch[k] \in 1..n, NEW w, NEW l \in 1..m,
         \A k \in 1..m : \E j \in DOMAIN es[ch[k]] :
           es[ch[k]][j].to = Following(ch, k) /\ Strength(es[ch[k]][j]) >= w
  PROVE  WayBack(n, es, w, Following(ch, l), ch[l])
<1>1. SUFFICES ASSUME NEW S \in SUBSET (1..n), Following(ch, l) \in S, LeadsOn(es, w, S)
               PROVE  ch[l] \in S
  BY DEF WayBack
<1>2. ASSUME NEW k \in 1..m, ch[k] \in S
      PROVE  Following(ch, k) \in S
  BY <1>1, <1>2 DEF LeadsOn
<1>3. ASSUME NEW k \in 1..m, k # m
      PROVE  Following(ch, k) = ch[k + 1]
  BY <1>3 DEF Following
<1>4. Following(ch, m) = ch[1]
  BY DEF Following
<1>5. \A k \in 1..(m - 1) : ch[k] \in S => ch[k + 1] \in S
  <2>1. \A k \in 1..(m - 1) : k \in 1..m /\ k # m
    OBVIOUS
  <2>2. QED BY <1>2, <1>3, <2>1
<1>6. ch[1] \in S
  <2>1. CASE l = m
    BY <1>1, <1>4, <2>1
  <2>2. CASE l # m
    <3>1. ch[l + 1] \in S /\ l + 1 \in Nat /\ l + 1 <= m /\ (l + 1)..(m - 1) \subseteq 1..(m - 1)
      BY <1>1, <1>3, <2>2
    <3>2. ch[m] \in S
      BY <1>5, <3>1, GoesAlong
    <3>3. m \in 1..m
      OBVIOUS
    <3>4. QED BY <1>2, <1>4, <3>2, <3>3
  <2>3. QED BY <2>1, <2>2
<1>7. 1 \in Nat /\ l \in Nat /\ 1 <= l /\ 1..(l - 1) \subseteq 1..(m - 1)
  OBVIOUS
<1>8. QED BY <1>5, <1>6, <1>7, GoesAlong

\* The edge the search breaks in a cycle is the weakest of the cycle.
LEMMA BreakingJustified ==
  ASSUME NEW n \in Nat, GraphOn(edges, n), OneEdgeEach(n, edges), EdgesReasoned(n, edges),
         Justified(n, edges), NEW ch, NEW m \in Nat, m > 0, m = Len(ch), DOMAIN ch = 1..m,
         \A k \in 1..m : ch[k] \in 1..n /\ Depends(edges, ch[k], Following(ch, k)),
         NEW l, l = WeakestLink(ch), NEW e, e = EdgeTo(ch[l], Following(ch, l)),
         NEW fs, fs = Breaking(edges, ch[l], e)
  PROVE  OneEdgeEach(n, fs) /\ EdgesReasoned(n, fs) /\ Justified(n, fs)
<1> DEFINE at(k) == EdgeTo(ch[k], Following(ch, k))
           link(k) == edges[ch[k]][at(k)]
<1>1. /\ l \in 1..m /\ \A k \in 1..m : Weight(link(l).type) <= Weight(link(k).type)
  BY WeakestLinkFound DEF LinkWeight
<1>2. ASSUME NEW k \in 1..m
      PROVE  at(k) \in DOMAIN edges[ch[k]] /\ link(k).to = Following(ch, k) /\ Unbroken(link(k))
  <2>1. at(k) \in DOMAIN edges[ch[k]] /\ link(k).to = Following(ch, k)
    BY EdgeFound
  <2>2. PICK j \in DOMAIN edges[ch[k]] : edges[ch[k]][j].to = Following(ch, k) /\ Unbroken(edges[ch[k]][j])
    BY DEF Depends
  <2>3. j = at(k)
    BY <2>1, <2>2 DEF OneEdgeEach
  <2>4. QED BY <2>1, <2>2, <2>3
<1>3. ASSUME NEW k \in 1..m
      PROVE  Strength(link(k)) = Weight(link(k).type) /\ Strength(link(k)) \in Nat /\ Strength(link(k)) > 0
  <2>1. Reasoned(link(k))
    BY <1>2 DEF EdgesReasoned
  <2> HIDE DEF link
  <2>2. QED BY <1>2, <2>1, ReasonedStrength
<1>4. /\ e = at(l) /\ e \in DOMAIN edges[ch[l]] /\ ch[l] \in 1..n
  BY <1>1, <1>2
<1> DEFINE c == ch[l]
           w == Strength(link(l))
<1>5. PlacesKept(n, edges, fs, {TYPE_BROKEN}) /\ OthersStay(n, edges, fs, c, e)
  <2> HIDE DEF c
  <2>1. c \in 1..n /\ e \in DOMAIN edges[c] /\ fs = Breaking(edges, c, e)
    BY <1>4 DEF c
  <2>2. QED BY <2>1, Breaks
<1>6. /\ PlacesKept(n, edges, fs, {TYPE_BROKEN})
      /\ \A i \in 1..n : /\ DOMAIN fs[i] = DOMAIN edges[i]
                         /\ \A j \in DOMAIN edges[i] : i # c \/ j # e => fs[i][j] = edges[i][j]
  BY <1>5 DEF OthersStay
<1>7. {TYPE_BROKEN} \subseteq Marks
  BY DEF Marks
<1>8. \A i \in 1..n : \A j \in DOMAIN edges[i] :
         /\ fs[i][j].to = edges[i][j].to
         /\ fs[i][j].type \ {TYPE_BROKEN} = edges[i][j].type \ {TYPE_BROKEN}
         /\ Strength(fs[i][j]) = Strength(edges[i][j])
  <2>1. \A i \in 1..n : \A j \in DOMAIN edges[i] :
         /\ fs[i][j].to = edges[i][j].to
         /\ fs[i][j].type \ {TYPE_BROKEN} = edges[i][j].type \ {TYPE_BROKEN}
    BY <1>6 DEF PlacesKept
  <2>2. QED BY <1>7, <2>1, StrengthStays
<1>9. OneEdgeEach(n, fs)
  BY <1>6, <1>8 DEF OneEdgeEach
<1>10. EdgesReasoned(n, fs)
  <2>1. TYPE_BROKEN \notin ReasonBits /\ TYPE_BROKEN \notin CycleBits
    BY DEF ReasonBits, CycleBits, TYPE_BROKEN, TYPE_CON, TYPE_REQ_P, TYPE_PREREQ_P, TYPE_REQ,
           TYPE_PREREQ, TYPE_CYCLETAIL, TYPE_CYCLEHEAD
  <2>2. ASSUME NEW i \in 1..n, NEW j \in DOMAIN fs[i]
        PROVE  Reasoned(fs[i][j])
    <3>1. j \in DOMAIN edges[i] /\ Reasoned(edges[i][j])
      BY <1>6 DEF EdgesReasoned
    <3>2. fs[i][j].type \ {TYPE_BROKEN} = edges[i][j].type \ {TYPE_BROKEN}
      BY <1>8, <3>1
    <3>3. QED BY <2>1, <3>1, <3>2 DEF Reasoned
  <2>3. QED BY <2>2 DEF EdgesReasoned
<1>11. WayBack(n, edges, w, Following(ch, l), c)
  <2>1. \A k \in 1..m : at(k) \in DOMAIN edges[ch[k]] /\ link(k).to = Following(ch, k) /\ Strength(link(k)) >= w
    <3>1. TAKE k \in 1..m
    <3>2. Weight(link(l).type) <= Weight(link(k).type) /\ l \in 1..m
      BY <1>1
    <3>3. Strength(link(k)) = Weight(link(k).type) /\ w = Weight(link(l).type) /\ Strength(link(k)) \in Nat /\ w \in Nat
      BY <1>3, <3>2
    <3> HIDE DEF w, link
    <3>4. Strength(link(k)) >= w
      BY <3>2, <3>3
    <3>5. QED BY <1>2, <3>4 DEF link
  <2>2. \A k \in 1..m : \E j \in DOMAIN edges[ch[k]] :
          edges[ch[k]][j].to = Following(ch, k) /\ Strength(edges[ch[k]][j]) >= w
    <3> HIDE DEF w, at
    <3>1. QED BY <2>1
  <2> HIDE DEF w
  <2>3. QED BY <1>1, <2>2, CycleLeadsBack
<1>12. ASSUME NEW i \in 1..n, NEW j \in DOMAIN fs[i], ~Unbroken(fs[i][j])
       PROVE  Strength(fs[i][j]) > 0 /\ WayBack(n, fs, Strength(fs[i][j]), fs[i][j].to, i)
  <2>1. /\ j \in DOMAIN edges[i] /\ fs[i][j].to = edges[i][j].to
        /\ Strength(fs[i][j]) = Strength(edges[i][j])
    BY <1>6, <1>8
  <2>2. Strength(edges[i][j]) > 0 /\ WayBack(n, edges, Strength(edges[i][j]), edges[i][j].to, i)
    <3>1. CASE i = c /\ j = e
      <4>1. edges[i][j] = link(l)
        BY <1>4, <3>1
      <4>2. link(l).to = Following(ch, l) /\ Strength(link(l)) > 0
        BY <1>1, <1>2, <1>3
      <4> HIDE DEF link
      <4>3. QED BY <1>11, <3>1, <4>1, <4>2
    <3>2. CASE i # c \/ j # e
      <4>1. ~Unbroken(edges[i][j])
        BY <1>6, <1>12, <2>1, <3>2
      <4>2. QED BY <2>1, <4>1 DEF Justified
    <3>3. QED BY <3>1, <3>2
  <2>3. WayBack(n, fs, Strength(edges[i][j]), edges[i][j].to, i)
    BY <1>6, <1>7, <2>2, WaysStay
  <2>4. QED BY <2>1, <2>2, <2>3
<1>13. QED BY <1>9, <1>10, <1>12 DEF Justified

\* In the search, only the weakest edge of a cycle is broken; later, none.
WeakestInv ==
  /\ phase = "search" => OneEdgeEach(Len(tes), edges) /\ EdgesReasoned(Len(tes), edges)
  /\ phase # "build" => Justified(Len(tes), edges)

LEMMA BuildKeepsWeakest == GraphInv /\ Build => WeakestInv'
<1> SUFFICES ASSUME GraphInv, Build
             PROVE  WeakestInv'
  OBVIOUS
<1> DEFINE n == Len(ActiveSteps(world))
<1>1. tes' = ActiveSteps(world) /\ edges' = GraphOf(world) /\ IsTransaction(world)
  BY ElementFacts DEF GraphInv, Build
<1>2. Len(tes)' = n
  BY <1>1
<1> HIDE DEF n
<1>3. /\ OneEdgeEach(n, edges') /\ EdgesReasoned(n, edges')
      /\ \A i \in 1..n : \A j \in DOMAIN edges'[i] : Unbroken(edges'[i][j])
  BY <1>1, GraphIsBuilt DEF n
<1>4. Justified(n, edges')
  BY <1>3 DEF Justified
<1>5. QED BY <1>2, <1>3, <1>4 DEF WeakestInv

LEMMA BreakKeepsWeakest == GraphInv /\ WeakestInv /\ BreakCycle => WeakestInv'
<1> SUFFICES ASSUME GraphInv, WeakestInv, BreakCycle
             PROVE  WeakestInv'
  OBVIOUS
<1> DEFINE n == Len(tes)
           ch == CycleChain
           l == WeakestLink(ch)
           e == EdgeTo(ch[l], Following(ch, l))
<1>1. /\ phase = "search" /\ todo # <<>> /\ Top > 0 /\ mark[Top] = 1
      /\ edges' = [edges EXCEPT ![ch[l]][e].type = @ \cup {TYPE_BROKEN}] /\ UNCHANGED searching
  BY DEF BreakCycle
<1>2. /\ Stack(n, edges, mark, todo) /\ n \in Nat /\ GraphOn(edges, n) /\ Elements = 1..n
      /\ Len(todo) > 0
  BY <1>1, TopFacts
<1>3. Len(tes)' = n
  BY <1>1 DEF searching
<1>4. OneEdgeEach(n, edges) /\ EdgesReasoned(n, edges) /\ Justified(n, edges)
  BY <1>1 DEF WeakestInv
<1> HIDE DEF n
<1>5. IsCycle(n, edges, todo, CycleStart, ch)
  BY <1>1, <1>2, CycleIsOnStack DEF n
<1>6. ch \in Seq(1..n) /\ Len(ch) > 1 /\ \A k \in DOMAIN ch : Depends(edges, ch[k], Following(ch, k))
  BY <1>5 DEF IsCycle
<1> HIDE DEF ch
<1>7. Len(ch) \in Nat /\ Len(ch) > 0 /\ DOMAIN ch = 1..Len(ch)
  BY <1>6
<1>8. \A k \in 1..Len(ch) : ch[k] \in 1..n /\ Depends(edges, ch[k], Following(ch, k))
  BY <1>6, <1>7, ElementOfSeq
<1>9. edges' = Breaking(edges, ch[l], e)
  BY <1>1 DEF Breaking
<1> HIDE DEF l, e
<1>10. OneEdgeEach(n, edges') /\ EdgesReasoned(n, edges') /\ Justified(n, edges')
  <2>1. l = WeakestLink(ch) /\ e = EdgeTo(ch[l], Following(ch, l))
    BY DEF l, e
  <2>2. QED BY <1>2, <1>4, <1>7, <1>8, <1>9, <2>1, BreakingJustified
<1>11. QED BY <1>3, <1>10 DEF WeakestInv

LEMMA BindKeepsWeakest == GraphInv /\ WeakestInv /\ Bind => WeakestInv'
<1> SUFFICES ASSUME GraphInv, WeakestInv, Bind
             PROVE  WeakestInv'
  OBVIOUS
<1> DEFINE n == Len(tes)
           c == Head(unbound).tes
<1>1. /\ phase = "bind" /\ unbound # <<>> /\ edges' = addcycleedges(edges, c)
      /\ phase' = phase /\ tes' = tes
  BY DEF Bind
<1>2. /\ n \in Nat /\ GraphOn(edges, n) /\ Acyclic(edges) /\ unbound \in Seq(CycleRecords(n))
  BY <1>1, ElementFacts DEF GraphInv, GraphSound, CyclesKept
<1>3. c \in Seq(1..n) /\ Len(c) > 0
  <2>1. Head(unbound) \in CycleRecords(n)
    BY <1>1, <1>2
  <2>2. c \in Seq(1..n) /\ c # <<>>
    BY <2>1 DEF CycleRecords
  <2> HIDE DEF c
  <2>3. QED BY <2>2
<1>4. Justified(n, edges) /\ Len(tes)' = n
  BY <1>1 DEF WeakestInv
<1> HIDE DEF c, n
<1>5. PlacesKept(n, edges, edges', CycleBits)
  BY <1>1, <1>2, <1>3, BindKeeps
<1>6. Justified(n, edges')
  BY <1>4, <1>5, BindingJustified
<1>7. QED BY <1>1, <1>4, <1>6 DEF WeakestInv

\* All other steps leave the edges alone.
LEMMA WeakestStays ==
  ASSUME WeakestInv, edges' = edges, tes' = tes, phase # "build",
         phase' = "search" => phase = "search"
  PROVE  WeakestInv'
BY DEF WeakestInv

LEMMA NextWeakestInv == GraphInv /\ WeakestInv /\ [Next]_vars => WeakestInv'
<1> SUFFICES ASSUME GraphInv, WeakestInv, [Next]_vars
             PROVE  WeakestInv'
  OBVIOUS
<1>1. CASE Build \/ BreakCycle \/ Bind
  BY <1>1, BuildKeepsWeakest, BreakKeepsWeakest, BindKeepsWeakest
<1>2. CASE Leave \/ SkipDone \/ Enter
  BY <1>2, WeakestStays DEF Leave, SkipDone, Enter, searching
<1>3. CASE EndSearch
  BY <1>3, WeakestStays DEF EndSearch
<1>4. CASE Arrange
  BY <1>4, WeakestStays DEF Arrange
<1>5. CASE HandleUninstall \/ HandleSameMedium \/ ChangeMedium
  BY <1>5, WeakestStays DEF HandleUninstall, HandleSameMedium, ChangeMedium, ordering
<1>6. CASE Finish
  BY <1>6, WeakestStays DEF Finish
<1>7. CASE FirstChoices
  BY <1>7, WeakestStays DEF FirstChoices, HasOrderdata
<1>8. CASE ChooseOffered \/ ChooseEarly
  BY <1>8, WeakestStays DEF ChooseOffered, ChooseEarly, Choose
<1>9. CASE NoChoices \/ UNCHANGED vars
  BY <1>9 DEF NoChoices, vars, WeakestInv
<1>10. QED BY <1>1, <1>2, <1>3, <1>4, <1>5, <1>6, <1>7, <1>8, <1>9 DEF Next, Order

LEMMA WeakestBroken == GraphInv /\ WeakestInv => BreaksTheWeakest
<1>1. SUFFICES ASSUME GraphInv, WeakestInv, NEW i \in Elements, NEW j \in DOMAIN edges[i],
                      ~Unbroken(edges[i][j])
               PROVE  LET w == Strength(edges[i][j])
                      IN  w > 0 /\ LeadBack(StrongLinks(w), edges[i][j].to, i)
  BY DEF BreaksTheWeakest
<1> DEFINE n == Len(tes)
           w == Strength(edges[i][j])
           links == StrongLinks(w)
<1>2. Elements = 1..n
  BY <1>1, ElementFacts DEF GraphInv
<1>3. phase # "build"
  <2>1. phase = "build" => Len(tes) = 0
    BY <1>1 DEF GraphInv, ElementsSet
  <2>2. QED BY <1>2, <2>1
<1>4. w > 0 /\ WayBack(n, edges, w, edges[i][j].to, i)
  BY <1>1, <1>2, <1>3 DEF WeakestInv, Justified
<1> HIDE DEF w, n
<1>5. ASSUME NEW a \in Elements, NEW b \in DOMAIN edges[a], Strength(edges[a][b]) >= w
      PROVE  <<a, edges[a][b].to>> \in links
  BY <1>5 DEF StrongLinks
<1> HIDE DEF links
<1>6. ASSUME NEW S \in SUBSET Elements, edges[i][j].to \in S, \A l \in links : l[1] \in S => l[2] \in S
      PROVE  i \in S
  <2>1. LeadsOn(edges, w, S)
    <3>1. SUFFICES ASSUME NEW a \in S, NEW b \in DOMAIN edges[a], Strength(edges[a][b]) >= w
                   PROVE  edges[a][b].to \in S
      BY DEF LeadsOn
    <3>2. <<a, edges[a][b].to>> \in links
      BY <1>5, <3>1
    <3>3. <<a, edges[a][b].to>>[1] = a /\ <<a, edges[a][b].to>>[2] = edges[a][b].to
      OBVIOUS
    <3>4. QED BY <1>6, <3>2, <3>3
  <2>2. QED BY <1>2, <1>4, <1>6, <2>1 DEF WayBack
<1>7. LeadBack(links, edges[i][j].to, i)
  BY <1>6 DEF LeadBack
<1>8. QED BY <1>4, <1>7 DEF w, links

----------------------------------------------------------------------------
(* The theorems about the graph.                                           *)

\* Whatever the transaction, the search breaks all cycles, and the edges that bind
\* the former cycles together close none.
THEOREM NoCycleIsLeft == Spec => []NoCycleLeft
<1>1. GraphInv => NoCycleLeft
  BY DEF GraphInv, GraphSound, NoCycleLeft
<1>2. QED BY <1>1, InitGraphInv, NextGraphInv, PTL DEF Spec

\* Whatever the transaction, the edge that is broken in a cycle is one of the weakest
\* of it: the dependencies at least as strong lead from its end back to its start,
\* over all that is broken and bound together later.
THEOREM OnlyTheWeakestBreaks == Spec => []BreaksTheWeakest
<1>1. Init => GraphInv /\ WeakestInv
  <2>1. Init => WeakestInv
    BY DEF Init, WeakestInv
  <2>2. QED BY <2>1, InitGraphInv
<1>2. (GraphInv /\ WeakestInv) /\ [Next]_vars => (GraphInv /\ WeakestInv)'
  BY NextGraphInv, NextWeakestInv
<1>3. QED BY <1>1, <1>2, WeakestBroken, PTL DEF Spec

\* Whatever the transaction, the search finds a cycle on its stack when it meets an
\* element it is visiting, and what is done leads to what is done only.
THEOREM SearchIsSound == Spec => [](CycleOnStack /\ DoneIsClosed)
<1>1. GraphInv => CycleOnStack
  <2>1. SUFFICES ASSUME GraphInv, phase = "search", todo # <<>>, Top > 0, mark[Top] = 1
                 PROVE  /\ CycleStart > 0 /\ Len(CycleChain) > 1
                        /\ \A k \in DOMAIN CycleChain :
                             /\ mark[CycleChain[k]] = 1
                             /\ Depends(edges, CycleChain[k], Following(CycleChain, k))
    BY DEF CycleOnStack
  <2> DEFINE n == Len(tes)
             s == CycleStart
             ch == CycleChain
  <2>2. /\ Stack(n, edges, mark, todo) /\ Len(todo) \in Nat /\ Len(todo) > 0 /\ Elements = 1..n
    BY <2>1, TopFacts
  <2>3. IsCycle(n, edges, todo, s, ch)
    BY <2>1, <2>2, CycleIsOnStack
  <2> HIDE DEF n, s, ch
  <2>4. /\ s \in 1..(Len(todo) - 1) /\ ch \in Seq(1..n) /\ Len(ch) > 1
        /\ \A i \in 1..n : i \in Range(ch) <=> \E p \in s..(Len(todo) - 1) : todo[p] = -i
        /\ \A k \in DOMAIN ch : Depends(edges, ch[k], Following(ch, k))
    BY <2>3 DEF IsCycle
  <2>5. ASSUME NEW k \in DOMAIN ch
        PROVE  mark[ch[k]] = 1
    <3>1. ch[k] \in 1..n /\ ch[k] \in Range(ch)
      <4>1. ch \in Seq(1..n)
        BY <2>4
      <4>2. k \in 1..Len(ch)
        BY <4>1
      <4>3. ch[k] \in 1..n
        BY <4>1, <4>2, ElementOfSeq
      <4>4. QED BY <4>3 DEF Range
    <3>2. PICK p \in s..(Len(todo) - 1) : todo[p] = -ch[k]
      BY <2>4, <3>1
    <3>3. p \in 1..Len(todo)
      BY <2>2, <2>4
    <3>4. QED BY <2>2, <3>1, <3>2, <3>3 DEF Stack, VisitedOnce
  <2>6. s > 0
    BY <2>2, <2>4
  <2>7. QED BY <2>4, <2>5, <2>6 DEF s, ch
<1>2. GraphInv => DoneIsClosed
  <2>1. SUFFICES ASSUME GraphInv, phase = "search", NEW i \in Elements, mark[i] = 2,
                        NEW k \in Successors(edges, i)
                 PROVE  mark[k] = 2
    BY DEF DoneIsClosed
  <2>2. Stack(Len(tes), edges, mark, todo) /\ Elements = 1..Len(tes)
    BY <2>1, ElementFacts DEF GraphInv, StackSound
  <2>3. DoneSound(Len(tes), edges, mark) /\ i \in Done(Len(tes), mark)
    BY <2>1, <2>2 DEF Stack, Done
  <2>4. QED BY <2>1, <2>3 DEF DoneSound, Done
<1>3. QED BY <1>1, <1>2, InitGraphInv, NextGraphInv, PTL DEF Spec

----------------------------------------------------------------------------
(* The order: what is counted and what is queued.                          *)

LEMMA HeadTaken ==
  ASSUME NEW T, NEW q, q \in Seq(T), q # <<>>, Distinct(q)
  PROVE  /\ Head(q) \in Range(q) /\ Tail(q) \in Seq(T) /\ Distinct(Tail(q))
         /\ Range(Tail(q)) = Range(q) \ {Head(q)}
<1> DEFINE t == Tail(q)
           m == Len(q)
<1>1. m \in Nat /\ m > 0 /\ DOMAIN q = 1..m
  OBVIOUS
<1>2. t \in Seq(T) /\ DOMAIN t = 1..(m - 1) /\ \A j \in 1..(m - 1) : t[j] = q[j + 1]
  OBVIOUS
<1>3. Head(q) = q[1]
  OBVIOUS
<1> HIDE DEF t, m
<1>4. 1 \in DOMAIN q /\ \A j \in DOMAIN t : j + 1 \in DOMAIN q /\ j + 1 # 1 /\ t[j] = q[j + 1]
  BY <1>1, <1>2
<1>5. Head(q) \in Range(q)
  BY <1>3, <1>4 DEF Range
<1>6. Distinct(t)
  <2>1. SUFFICES ASSUME NEW j \in DOMAIN t, NEW k \in DOMAIN t, t[j] = t[k]
                 PROVE  j = k
    BY DEF Distinct
  <2>2. j + 1 = k + 1
    BY <1>4, <2>1 DEF Distinct
  <2>3. QED BY <1>1, <1>2, <2>2
<1>7. ASSUME NEW j \in DOMAIN t
      PROVE  t[j] \in Range(q) /\ t[j] # Head(q)
  BY <1>3, <1>4 DEF Range, Distinct
<1>8. ASSUME NEW x, x \in Range(q), x # Head(q)
      PROVE  x \in Range(t)
  <2>1. PICK j \in DOMAIN q : q[j] = x
    BY <1>8 DEF Range
  <2>2. j - 1 \in DOMAIN t /\ (j - 1) + 1 = j
    BY <1>1, <1>2, <1>3, <1>8, <2>1
  <2>3. t[j - 1] = x
    BY <1>4, <2>1, <2>2
  <2>4. QED BY <2>2, <2>3 DEF Range
<1>9. Range(t) = Range(q) \ {Head(q)}
  <2>1. \A x : x \in Range(t) => x \in Range(q) /\ x # Head(q)
    BY <1>7 DEF Range
  <2>2. QED BY <1>8, <2>1
<1>10. QED BY <1>2, <1>5, <1>6, <1>9 DEF t

LEMMA ContainsIsRange ==
  ASSUME NEW T, NEW q, q \in Seq(T), NEW x
  PROVE  Contains(q, x) <=> x \in Range(q)
<1>1. DOMAIN q = 1..Len(q)
  OBVIOUS
<1>2. QED BY <1>1 DEF Contains, Range

\* inv lists for each element those that wait for it.
InvertedRight(n, es, inv) ==
  /\ inv \in [1..n -> Seq(1..n)]
  /\ \A k \in 1..n : Distinct(inv[k]) /\ Range(inv[k]) = {i \in 1..n : k \in Successors(es, i)}

\* mk counts the elements of which an element waits, those of H done.
CountsRight(n, es, mk, H) ==
  /\ mk \in [1..n -> Nat]
  /\ \A i \in 1..n : mk[i] = Cardinality(Successors(es, i) \ H)

\* The elements with nothing left to wait for.
Free(n, mk) == {i \in 1..n : mk[i] = 0}

\* u, s and o queue what is free and not in H: what is in U, what is in M, and
\* the others.
QueuesRight(n, mk, H, U, M, u, s, o) ==
  /\ u \in Seq(1..n) /\ s \in Seq(1..n) /\ o \in Seq(1..n)
  /\ Distinct(u) /\ Distinct(s) /\ Distinct(o)
  /\ Range(u) \subseteq U /\ Range(s) \subseteq M /\ Range(o) \cap (U \cup M) = {}
  /\ Range(u) \cup Range(s) \cup Range(o) = Free(n, mk) \ H

Freed(mk, inv, i) == Only(inv[i], {k \in DOMAIN mk : mk[k] = 1})
CountedDown(n, mk, inv, i) ==
  [k \in 1..n |-> IF Contains(inv[i], k) THEN mk[k] - 1 ELSE mk[k]]

\* With nothing more to wait for than H, an element is free.
LEMMA FreeFacts ==
  ASSUME NEW n \in Nat, NEW es, GraphOn(es, n), NEW mk, NEW H, CountsRight(n, es, mk, H)
  PROVE  \A i \in 1..n : /\ mk[i] \in Nat /\ IsFiniteSet(Successors(es, i) \ H)
                         /\ mk[i] = 0 <=> Successors(es, i) \subseteq H
<1>1. TAKE i \in 1..n
<1> DEFINE W == Successors(es, i) \ H
<1>2. IsFiniteSet(1..n) /\ W \subseteq 1..n
  BY GraphFacts
<1>3. IsFiniteSet(W)
  BY <1>2, FS_Subset
<1>4. mk[i] = Cardinality(W)
  BY DEF CountsRight
<1> HIDE DEF W
<1>5. Cardinality(W) = 0 <=> W = {}
  BY <1>3, FS_EmptySet
<1>6. QED BY <1>3, <1>4, <1>5 DEF W, CountsRight

\* When a free element is handled, those that waited only for it are free.
OneHandled(n, es, mk, mf, H, i, freed) ==
  /\ CountsRight(n, es, mf, H \cup {i})
  /\ freed \in Seq(1..n) /\ Distinct(freed) /\ Range(freed) = Free(n, mf) \ Free(n, mk)
  /\ Free(n, mk) \subseteq Free(n, mf)
  /\ \A k \in Range(freed) : i \in Successors(es, k)

LEMMA HandlesOne ==
  ASSUME NEW n \in Nat, NEW es, GraphOn(es, n), NEW inv, InvertedRight(n, es, inv),
         NEW mk, NEW H, CountsRight(n, es, mk, H),
         NEW i \in 1..n, i \notin H,
         NEW mf, mf = CountedDown(n, mk, inv, i), NEW freed, freed = Freed(mk, inv, i)
  PROVE  OneHandled(n, es, mk, mf, H, i, freed)
<1>1. inv[i] \in Seq(1..n) /\ Distinct(inv[i])
  BY DEF InvertedRight
<1>2. \A k \in 1..n : Contains(inv[i], k) <=> i \in Successors(es, k)
  BY <1>1, ContainsIsRange DEF InvertedRight
<1>3. \A k \in 1..n : mf[k] = IF i \in Successors(es, k) THEN mk[k] - 1 ELSE mk[k]
  BY <1>2 DEF CountedDown
<1>4. DOMAIN mk = 1..n /\ DOMAIN mf = 1..n
  BY DEF CountsRight, CountedDown
<1>5. ASSUME NEW k \in 1..n
      PROVE  mf[k] \in Nat /\ mf[k] = Cardinality(Successors(es, k) \ (H \cup {i}))
  <2> DEFINE W == Successors(es, k) \ H
  <2>1. IsFiniteSet(W) /\ mk[k] = Cardinality(W) /\ mk[k] \in Nat
    BY FreeFacts DEF CountsRight
  <2>2. W \ {i} = Successors(es, k) \ (H \cup {i})
    OBVIOUS
  <2>3. i \in W <=> i \in Successors(es, k)
    OBVIOUS
  <2> HIDE DEF W
  <2>4. /\ IsFiniteSet(W \ {i})
        /\ Cardinality(W \ {i}) = IF i \in W THEN Cardinality(W) - 1 ELSE Cardinality(W)
    BY <2>1, FS_RemoveElement
  <2>5. Cardinality(W \ {i}) \in Nat
    BY <2>4, FS_CardinalityType
  <2>6. mf[k] = Cardinality(W \ {i})
    BY <1>3, <2>1, <2>3, <2>4
  <2>7. QED BY <2>2, <2>5, <2>6
<1>6. CountsRight(n, es, mf, H \cup {i})
  <2>1. mf = [k \in 1..n |-> mf[k]]
    BY DEF CountedDown
  <2>2. QED BY <1>5, <2>1 DEF CountsRight
<1>7. \A k \in 1..n : mk[k] \in Nat
  BY DEF CountsRight
<1>8. ASSUME NEW k \in 1..n, i \in Successors(es, k)
      PROVE  mk[k] # 0
  BY <1>8, FreeFacts
<1>9. Free(n, mk) \subseteq Free(n, mf)
  BY <1>3, <1>8 DEF Free
<1>10. /\ freed \in Seq(1..n) /\ Distinct(freed)
       /\ Range(freed) = Range(inv[i]) \cap {k \in DOMAIN mk : mk[k] = 1}
  <2> DEFINE K == {k \in DOMAIN mk : mk[k] = 1}
  <2>1. freed = Only(inv[i], K)
    BY DEF Freed
  <2> HIDE DEF K
  <2>2. /\ freed \in Seq(1..n) /\ Distinct(freed) /\ Range(freed) = Range(inv[i]) \cap K
    BY <1>1, <2>1, Picks
  <2>3. QED BY <2>2 DEF K
<1>11. \A k \in Range(freed) : k \in 1..n /\ i \in Successors(es, k) /\ mk[k] = 1
  BY <1>4, <1>10 DEF InvertedRight
<1>12. \A k \in 1..n : i \in Successors(es, k) /\ mk[k] = 1 => k \in Range(freed)
  BY <1>4, <1>10 DEF InvertedRight
<1>13. Range(freed) = Free(n, mf) \ Free(n, mk)
  <2>1. \A k \in Range(freed) : k \in Free(n, mf) \ Free(n, mk)
    BY <1>3, <1>11 DEF Free
  <2>2. ASSUME NEW k \in Free(n, mf) \ Free(n, mk)
        PROVE  k \in Range(freed)
    <3>1. k \in 1..n /\ mf[k] = 0 /\ mk[k] # 0
      BY DEF Free
    <3>2. i \in Successors(es, k) /\ mk[k] - 1 = 0
      BY <1>3, <3>1
    <3>3. mk[k] = 1
      BY <1>7, <3>1, <3>2
    <3>4. QED BY <1>12, <3>1, <3>2, <3>3
  <2>3. QED BY <2>1, <2>2
<1>14. QED BY <1>6, <1>9, <1>10, <1>11, <1>13 DEF OneHandled

\* A queue takes in what is freed of a kind.
Taken(q, f, S) == q \o Only(f, S)

TookIn(n, q, f, S) ==
  /\ Taken(q, f, S) \in Seq(1..n) /\ Distinct(Taken(q, f, S))
  /\ Range(Taken(q, f, S)) = Range(q) \cup (Range(f) \cap S)

LEMMA TakesIn ==
  ASSUME NEW n \in Nat, NEW q, q \in Seq(1..n), Distinct(q),
         NEW f, f \in Seq(1..n), Distinct(f), Range(q) \cap Range(f) = {}, NEW S
  PROVE  TookIn(n, q, f, S)
<1> DEFINE g == Only(f, S)
<1>1. g \in Seq(1..n) /\ Distinct(g) /\ Range(g) = Range(f) \cap S
  BY Picks
<1> HIDE DEF g
<1>2. Range(q) \cap Range(g) = {}
  BY <1>1
<1>3. Distinct(q \o g)
  BY <1>1, <1>2, JoinedDistinct
<1>4. q \o g \in Seq(1..n) /\ Range(q \o g) = Range(q) \cup Range(g)
  BY <1>1, JoinedRange
<1>5. Taken(q, f, S) = q \o g
  BY DEF g, Taken
<1>6. QED BY <1>1, <1>3, <1>4, <1>5 DEF TookIn

\* The three queues after element i of H was taken from them: what is freed then goes on
\* the one it belongs on.
LEMMA QueuesGrow ==
  ASSUME NEW n \in Nat, NEW mk, NEW mf, NEW H, NEW i, NEW U, NEW M, NEW E, E = 1..n,
         U \cap M = {}, NEW u, NEW s, NEW o,
         u \in Seq(1..n), s \in Seq(1..n), o \in Seq(1..n), Distinct(u), Distinct(s), Distinct(o),
         Range(u) \subseteq U, Range(s) \subseteq M, Range(o) \cap (U \cup M) = {},
         Range(u) \cup Range(s) \cup Range(o) = (Free(n, mk) \ H) \ {i},
         NEW f, f \in Seq(1..n), Distinct(f), Range(f) = Free(n, mf) \ Free(n, mk),
         Free(n, mk) \subseteq Free(n, mf), H \subseteq Free(n, mk), i \in Free(n, mk)
  PROVE  QueuesRight(n, mf, H \cup {i}, U, M,
                     u \o Only(f, U), s \o Only(f, M), o \o Only(f, E \ (U \cup M)))
<1>1. Range(u) \cap Range(f) = {} /\ Range(s) \cap Range(f) = {} /\ Range(o) \cap Range(f) = {}
  OBVIOUS
<1> DEFINE O == E \ (U \cup M)
           a == Taken(u, f, U)
           b == Taken(s, f, M)
           c == Taken(o, f, O)
<1>0. a = u \o Only(f, U) /\ b = s \o Only(f, M) /\ c = o \o Only(f, E \ (U \cup M))
  BY DEF Taken
<1> HIDE DEF O
<1>2. a \in Seq(1..n) /\ Distinct(a) /\ Range(a) = Range(u) \cup (Range(f) \cap U)
  <2>1. TookIn(n, u, f, U)
    BY <1>1, TakesIn
  <2>2. QED BY <2>1 DEF TookIn
<1>3. b \in Seq(1..n) /\ Distinct(b) /\ Range(b) = Range(s) \cup (Range(f) \cap M)
  <2>1. TookIn(n, s, f, M)
    BY <1>1, TakesIn
  <2>2. QED BY <2>1 DEF TookIn
<1>4. c \in Seq(1..n) /\ Distinct(c) /\ Range(c) = Range(o) \cup (Range(f) \cap (E \ (U \cup M)))
  <2>1. TookIn(n, o, f, O)
    BY <1>1, TakesIn
  <2>2. QED BY <2>1 DEF TookIn, O
<1> HIDE DEF a, b, c
<1>5. Range(f) \subseteq E
  BY DEF Free
<1>6. Range(a) \cup Range(b) \cup Range(c) = Range(u) \cup Range(s) \cup Range(o) \cup Range(f)
  BY <1>2, <1>3, <1>4, <1>5
<1>7. (Free(n, mk) \ H) \ {i} = Free(n, mk) \ (H \cup {i})
  OBVIOUS
<1>8. Range(f) \cap (H \cup {i}) = {}
  OBVIOUS
<1>9. Range(a) \cup Range(b) \cup Range(c) = Free(n, mf) \ (H \cup {i})
  <2>1. \A x : x \in Range(a) \cup Range(b) \cup Range(c) <=>
                 x \in (Free(n, mk) \ (H \cup {i})) \cup Range(f)
    BY <1>6, <1>7
  <2>2. QED BY <1>8, <2>1
<1>10. Range(a) \subseteq U /\ Range(b) \subseteq M /\ Range(c) \cap (U \cup M) = {}
  BY <1>2, <1>3, <1>4
<1>11. QueuesRight(n, mf, H \cup {i}, U, M, a, b, c)
  BY <1>2, <1>3, <1>4, <1>9, <1>10 DEF QueuesRight
<1>12. QED BY <1>0, <1>11

\* Among some elements of a graph without cycles, one depends on none of them.
LEMMA OneIsFree ==
  ASSUME NEW n \in Nat, NEW es, GraphOn(es, n), Acyclic(es), NEW S, S \subseteq 1..n, S # {}
  PROVE  \E i \in S : Successors(es, i) \cap S = {}
<1> DEFINE R(i) == Reached(es, {i}) \cap S
           Sizes == {Cardinality(R(i)) : i \in S}
<1>1. DOMAIN es = 1..n /\ IsFiniteSet(1..n) /\ \A i \in 1..n : Successors(es, i) \subseteq 1..n
  BY GraphFacts
<1>2. ASSUME NEW i \in S
      PROVE  IsFiniteSet(R(i)) /\ Cardinality(R(i)) \in Nat /\ i \in R(i)
  <2>1. i \in 1..n /\ R(i) \subseteq 1..n
    BY <1>1
  <2>2. {i} \in SUBSET DOMAIN es
    BY <1>1, <2>1
  <2>3. i \in Reached(es, {i})
    BY <1>1, <2>2, ReachedFacts
  <2>4. IsFiniteSet(R(i))
    BY <1>1, <2>1, FS_Subset
  <2>5. QED BY <2>3, <2>4, FS_CardinalityType
<1>3. Sizes \subseteq Nat /\ Sizes # {}
  BY <1>2
<1>4. Min(Sizes) \in Sizes /\ \A y \in Sizes : Min(Sizes) <= y
  <2> HIDE DEF Sizes
  <2>1. Sizes \subseteq Int
    BY <1>3
  <2>2. QED BY <1>3, MinIsLeast
<1>5. PICK i \in S : Cardinality(R(i)) = Min(Sizes)
  BY <1>4
<1>6. ASSUME NEW k \in Successors(es, i) \cap S
      PROVE  FALSE
  <2>1. i \in 1..n /\ k \in 1..n /\ Successors(es, i) \in SUBSET DOMAIN es
    BY <1>1
  <2>2. Reached(es, {k}) \subseteq Reached(es, Successors(es, i))
    <3>1. {k} \in SUBSET (1..n) /\ {k} \subseteq Successors(es, i)
      BY <1>1, <2>1
    <3>2. Successors(es, i) \in SUBSET (1..n)
      BY <1>1, <2>1
    <3>3. \A x \in 1..n : Successors(es, x) \subseteq Successors(es, x)
      OBVIOUS
    <3>4. QED BY <3>1, <3>2, <3>3, FewerReached
  <2>3. Reached(es, Successors(es, i)) \subseteq Reached(es, {i})
    <3>1. {i} \in SUBSET DOMAIN es
      BY <1>1, <2>1
    <3>2. Closed(es, Reached(es, {i})) /\ i \in Reached(es, {i})
      BY <1>1, <3>1, ReachedFacts
    <3>3. Successors(es, i) \subseteq Reached(es, {i})
      BY <3>2 DEF Closed
    <3>4. QED BY <1>1, <2>1, <3>2, <3>3, ReachedFacts
  <2>4. i \notin Reached(es, Successors(es, i))
    BY <1>1, <2>1 DEF Acyclic
  <2>5. R(k) \subseteq R(i) /\ i \notin R(k)
    BY <2>2, <2>3, <2>4
  <2>6. Cardinality(R(k)) <= Cardinality(R(i)) /\ Cardinality(R(k)) # Cardinality(R(i))
    <3> HIDE DEF R
    <3>1. R(k) \in SUBSET R(i) /\ R(k) # R(i)
      BY <1>2, <2>5
    <3>2. IsFiniteSet(R(i))
      BY <1>2
    <3>3. QED BY <3>1, <3>2, FS_Subset
  <2>7. Min(Sizes) <= Cardinality(R(k))
    BY <1>4
  <2>8. Cardinality(R(k)) \in Nat /\ Cardinality(R(i)) \in Nat
    BY <1>2
  <2>9. QED
    <3> HIDE DEF R, Sizes
    <3>1. QED BY <1>5, <2>6, <2>7, <2>8
<1>7. QED BY <1>6

\* st are the packages ts[i] of elements handled, each behind those it waits for.
StepsRight(n, es, ts, st) ==
  /\ st \in Seq(Range(ts)) /\ Distinct(st)
  /\ \A a \in DOMAIN st : \A i \in 1..n : st[a] = ts[i] =>
       \A k \in Successors(es, i) : \E b \in 1..(a - 1) : st[b] = ts[k]

HandledOf(n, ts, st) == {i \in 1..n : ts[i] \in Range(st)}

LEMMA StepAppended ==
  ASSUME NEW n \in Nat, NEW es, GraphOn(es, n), NEW ts, DOMAIN ts = 1..n, Distinct(ts),
         NEW st, StepsRight(n, es, ts, st), NEW i \in 1..n, i \notin HandledOf(n, ts, st),
         Successors(es, i) \subseteq HandledOf(n, ts, st)
  PROVE  /\ StepsRight(n, es, ts, Append(st, ts[i]))
         /\ HandledOf(n, ts, Append(st, ts[i])) = HandledOf(n, ts, st) \cup {i}
<1> DEFINE m == Len(st)
           sf == Append(st, ts[i])
           T == Range(ts)
<1>1. st \in Seq(T) /\ Distinct(st) /\ m \in Nat /\ DOMAIN st = 1..m /\ ts[i] \in T
  BY DEF StepsRight, Range
<1>2. /\ sf \in Seq(T) /\ Len(sf) = m + 1 /\ DOMAIN sf = 1..(m + 1) /\ sf[m + 1] = ts[i]
      /\ \A a \in 1..m : sf[a] = st[a]
  BY <1>1
<1> HIDE DEF sf, m, T
<1>3. \A a \in 1..(m + 1) : a = m + 1 \/ a \in 1..m
  BY <1>1
<1>4. ts[i] \notin Range(st)
  BY DEF HandledOf
<1>5. \A a \in 1..m : st[a] # ts[i]
  BY <1>1, <1>4 DEF Range
<1>6. Distinct(sf)
  <2>1. SUFFICES ASSUME NEW a \in 1..(m + 1), NEW b \in 1..(m + 1), sf[a] = sf[b]
                 PROVE  a = b
    BY <1>2 DEF Distinct
  <2>2. QED BY <1>1, <1>2, <1>3, <1>5, <2>1 DEF Distinct
<1>7. ASSUME NEW a \in 1..(m + 1), NEW j \in 1..n, sf[a] = ts[j], NEW k \in Successors(es, j)
      PROVE  \E b \in 1..(a - 1) : sf[b] = ts[k]
  <2>1. CASE a \in 1..m
    <3>1. PICK b \in 1..(a - 1) : st[b] = ts[k]
      BY <1>1, <1>2, <1>7, <2>1 DEF StepsRight
    <3>2. b \in 1..m
      BY <1>1, <2>1
    <3>3. QED BY <1>2, <3>1, <3>2
  <2>2. CASE a = m + 1
    <3>1. j = i
      BY <1>2, <1>7, <2>2 DEF Distinct
    <3>2. ts[k] \in Range(st)
      BY <1>7, <3>1 DEF HandledOf
    <3>3. PICK b \in 1..m : st[b] = ts[k]
      BY <1>1, <3>2 DEF Range
    <3>4. b \in 1..(a - 1)
      BY <1>1, <2>2
    <3>5. QED BY <1>2, <3>3, <3>4
  <2>3. QED BY <1>3, <2>1, <2>2
<1>8. StepsRight(n, es, ts, sf)
  BY <1>2, <1>6, <1>7 DEF StepsRight, T
<1>9. Range(sf) = Range(st) \cup {ts[i]}
  <2>1. \A x : x \in Range(sf) <=> \E a \in 1..(m + 1) : sf[a] = x
    BY <1>2 DEF Range
  <2>2. \A x : x \in Range(st) <=> \E a \in 1..m : st[a] = x
    BY <1>1 DEF Range
  <2>3. m + 1 \in 1..(m + 1) /\ 1..m \subseteq 1..(m + 1)
    BY <1>1
  <2>4. QED BY <1>2, <1>3, <2>1, <2>2, <2>3
<1>10. HandledOf(n, ts, sf) = HandledOf(n, ts, st) \cup {i}
  <2>1. \A j \in 1..n : ts[j] = ts[i] => j = i
    BY DEF Distinct
  <2>2. QED BY <1>9, <2>1 DEF HandledOf
<1>11. QED BY <1>8, <1>10 DEF sf

----------------------------------------------------------------------------
(* The invariant of the order and of the choices.                          *)

OrderRight ==
  LET n == Len(tes)
      H == HandledOf(n, tes, steps)
  IN  /\ InvertedRight(n, edges, invedges) /\ CountsRight(n, edges, mark, H)
      /\ QueuesRight(n, mark, H, Uninstalls, OnMedium(last), uninstq, samerepoq, todo)
      /\ StepsRight(n, edges, tes, steps)

\* What a step that handles element i needs to know of it and of the queues.
LEMMA HandleKeepsOrder ==
  ASSUME GraphInv, phase = "order", OrderRight,
         NEW i, NEW u, NEW s, NEW o, NEW medium, Handle(i, u, s, o, medium), UNCHANGED ordering,
         i \in Free(Len(tes), mark) \ HandledOf(Len(tes), tes, steps),
         u \in Seq(1..Len(tes)), s \in Seq(1..Len(tes)), o \in Seq(1..Len(tes)),
         Distinct(u), Distinct(s), Distinct(o),
         Range(u) \subseteq Uninstalls, Range(s) \subseteq OnMedium(medium),
         Range(o) \cap (Uninstalls \cup OnMedium(medium)) = {},
         Range(u) \cup Range(s) \cup Range(o) =
           (Free(Len(tes), mark) \ HandledOf(Len(tes), tes, steps)) \ {i}
  PROVE  /\ OrderRight'
         /\ HandledOf(Len(tes), tes, steps') = HandledOf(Len(tes), tes, steps) \cup {i}
         /\ Free(Len(tes), mark) \subseteq Free(Len(tes), mark')
<1> DEFINE n == Len(tes)
           H == HandledOf(n, tes, steps)
           U == Uninstalls
           M == OnMedium(medium)
           f == Freed(mark, invedges, i)
<1>1. /\ n \in Nat /\ Elements = 1..n /\ DOMAIN tes = 1..n /\ Distinct(tes) /\ GraphOn(edges, n)
  BY ElementFacts DEF GraphInv, GraphSound
<1>2. /\ InvertedRight(n, edges, invedges) /\ CountsRight(n, edges, mark, H)
      /\ StepsRight(n, edges, tes, steps)
  BY DEF OrderRight
<1>3. i \in 1..n /\ i \notin H /\ mark[i] = 0 /\ i \in Free(n, mark)
  BY DEF Free
<1>4. DOMAIN mark = 1..n
  BY <1>2 DEF CountsRight
<1>5. f = Only(invedges[i], {k \in Elements : mark[k] = 1})
  BY <1>1, <1>4 DEF Freed
<1>6. /\ steps' = Append(steps, tes[i]) /\ mark' = CountedDown(n, mark, invedges, i)
      /\ last' = medium /\ uninstq' = u \o Only(f, U) /\ samerepoq' = s \o Only(f, M)
      /\ todo' = o \o Only(f, Elements \ (U \cup M))
  BY <1>1, <1>5 DEF Handle, CountedDown
<1>7. /\ world' = world /\ tes' = tes /\ edges' = edges /\ invedges' = invedges
  BY DEF ordering
<1> HIDE DEF f
<1>8. Successors(edges, i) \subseteq H
  BY <1>1, <1>2, <1>3, FreeFacts
<1>9. /\ StepsRight(n, edges, tes, steps') /\ HandledOf(n, tes, steps') = H \cup {i}
  <2>1. steps' = Append(steps, tes[i])
    BY <1>6
  <2> HIDE DEF n
  <2>2. /\ StepsRight(n, edges, tes, Append(steps, tes[i]))
        /\ HandledOf(n, tes, Append(steps, tes[i])) = HandledOf(n, tes, steps) \cup {i}
    BY <1>1, <1>2, <1>3, <1>8, StepAppended
  <2>3. QED BY <2>1, <2>2
<1>10. /\ CountsRight(n, edges, mark', H \cup {i})
       /\ f \in Seq(1..n) /\ Distinct(f) /\ Range(f) = Free(n, mark') \ Free(n, mark)
       /\ Free(n, mark) \subseteq Free(n, mark')
  <2>1. f = Freed(mark, invedges, i) /\ mark' = CountedDown(n, mark, invedges, i)
    BY <1>6 DEF f
  <2> HIDE DEF n, H
  <2>2. OneHandled(n, edges, mark, mark', H, i, f)
    BY <1>1, <1>2, <1>3, <2>1, HandlesOne
  <2>3. QED BY <2>2 DEF OneHandled
<1>11. H \subseteq Free(n, mark)
  <2>1. ASSUME NEW j \in H
        PROVE  j \in Free(n, mark)
    <3>1. j \in 1..n /\ tes[j] \in Range(steps)
      BY DEF HandledOf
    <3>2. steps \in Seq(Range(tes)) /\ DOMAIN steps = 1..Len(steps) /\ Len(steps) \in Nat
      BY <1>2 DEF StepsRight
    <3>3. PICK a \in DOMAIN steps : steps[a] = tes[j]
      BY <3>1 DEF Range
    <3>4. ASSUME NEW k \in Successors(edges, j)
          PROVE  k \in H
      <4>1. PICK b \in 1..(a - 1) : steps[b] = tes[k]
        BY <1>2, <3>1, <3>3 DEF StepsRight
      <4>2. b \in DOMAIN steps
        BY <3>2
      <4>3. k \in 1..n
        BY <1>1, <3>1, GraphFacts
      <4>4. QED BY <4>1, <4>2, <4>3 DEF HandledOf, Range
    <3>5. mark[j] = 0
      BY <1>1, <1>2, <3>1, <3>4, FreeFacts
    <3>6. QED BY <3>1, <3>5 DEF Free
  <2>2. QED BY <2>1
<1>12. U \cap M = {}
  BY DEF OnMedium
<1> HIDE DEF H, U, M
<1>13. QueuesRight(n, mark', H \cup {i}, U, M, uninstq', samerepoq', todo')
  BY <1>1, <1>3, <1>6, <1>10, <1>11, <1>12, QueuesGrow DEF H, U, M
<1>14. Uninstalls' = U /\ OnMedium(last)' = M
  BY <1>6, <1>7 DEF U, M, Uninstalls, OnMedium, Media, IsUninstall, Elements
<1>15. Len(tes)' = n
  BY <1>7
<1>16. OrderRight'
  BY <1>2, <1>7, <1>9, <1>10, <1>13, <1>14, <1>15 DEF OrderRight, H
<1>17. QED BY <1>9, <1>10, <1>16 DEF H

LEMMA Reversed ==
  ASSUME NEW T, NEW q, q \in Seq(T)
  PROVE  /\ Reverse(q) \in Seq(T) /\ Range(Reverse(q)) = Range(q)
         /\ Distinct(q) => Distinct(Reverse(q))
<1> DEFINE r == Reverse(q)
           m == Len(q)
<1>1. m \in Nat /\ DOMAIN q = 1..m /\ \A j \in 1..m : q[j] \in T
  OBVIOUS
<1>2. r = [j \in 1..m |-> q[(m - j) + 1]]
  BY DEF Reverse
<1> HIDE DEF r, m
<1>3. \A j \in 1..m : (m - j) + 1 \in 1..m /\ (m - ((m - j) + 1)) + 1 = j
  BY <1>1
<1>4. DOMAIN r = 1..m /\ \A j \in 1..m : r[j] = q[(m - j) + 1]
  BY <1>2
<1>5. r \in Seq(T)
  BY <1>1, <1>2, <1>3
<1>6. Distinct(q) => Distinct(r)
  <2>1. SUFFICES ASSUME Distinct(q), NEW j \in 1..m, NEW k \in 1..m, r[j] = r[k]
                 PROVE  j = k
    BY <1>4 DEF Distinct
  <2>2. (m - j) + 1 = (m - k) + 1
    BY <1>1, <1>3, <1>4, <2>1 DEF Distinct
  <2>3. QED BY <1>1, <2>2
<1>7. \A x : x \in Range(r) <=> x \in Range(q)
  <2>1. ASSUME NEW j \in 1..m
        PROVE  r[j] \in Range(q) /\ q[j] \in Range(r)
    <3>1. (m - j) + 1 \in 1..m /\ r[j] = q[(m - j) + 1] /\ r[(m - j) + 1] = q[j]
      BY <1>3, <1>4
    <3>2. QED BY <1>1, <1>4, <3>1 DEF Range
  <2>2. QED BY <1>1, <1>4, <2>1 DEF Range
<1>8. Range(r) = Range(q)
  BY <1>7
<1>9. QED BY <1>5, <1>6, <1>8 DEF r

Listed(n) == [i \in 1..n |-> i]

\* Of the elements in order, those of a set.
LEMMA ListedFacts ==
  ASSUME NEW n \in Nat, NEW S
  PROVE  /\ Only(Listed(n), S) \in Seq(1..n) /\ Distinct(Only(Listed(n), S))
         /\ Range(Only(Listed(n), S)) = (1..n) \cap S
<1>1. Listed(n) \in Seq(1..n) /\ Range(Listed(n)) = 1..n /\ Distinct(Listed(n))
  BY DEF Listed, Range, Distinct
<1>2. QED BY <1>1, Picks

LEMMA InvertsEdges ==
  ASSUME NEW n \in Nat, NEW es, GraphOn(es, n),
         NEW inv, inv = [k \in 1..n |-> Reverse(Only(Listed(n), {i \in 1..n : Depends(es, i, k)}))]
  PROVE  InvertedRight(n, es, inv)
<1>1. ASSUME NEW k \in 1..n
      PROVE  /\ inv[k] \in Seq(1..n) /\ Distinct(inv[k])
             /\ Range(inv[k]) = {i \in 1..n : k \in Successors(es, i)}
  <2> DEFINE S == {i \in 1..n : Depends(es, i, k)}
             q == Only(Listed(n), S)
  <2>1. inv[k] = Reverse(q)
    OBVIOUS
  <2>2. S = {i \in 1..n : k \in Successors(es, i)}
    BY GraphFacts
  <2>3. (1..n) \cap S = S
    OBVIOUS
  <2> HIDE DEF S
  <2>4. q \in Seq(1..n) /\ Distinct(q) /\ Range(q) = (1..n) \cap S
    BY ListedFacts
  <2> HIDE DEF q
  <2>5. Reverse(q) \in Seq(1..n) /\ Distinct(Reverse(q)) /\ Range(Reverse(q)) = Range(q)
    BY <2>4, Reversed
  <2>6. QED BY <2>1, <2>2, <2>3, <2>4, <2>5
<1>2. inv = [k \in 1..n |-> inv[k]]
  OBVIOUS
<1>3. inv \in [1..n -> Seq(1..n)]
  BY <1>1, <1>2
<1>4. QED BY <1>1, <1>3 DEF InvertedRight

LEMMA CountsFresh ==
  ASSUME NEW n \in Nat, NEW es, GraphOn(es, n), NEW inv, InvertedRight(n, es, inv),
         NEW mk, mk = [i \in 1..n |-> WaitsFor(inv, i)]
  PROVE  CountsRight(n, es, mk, {})
<1>1. ASSUME NEW i \in 1..n
      PROVE  mk[i] \in Nat /\ mk[i] = Cardinality(Successors(es, i) \ {})
  <2>1. DOMAIN inv = 1..n /\ \A k \in 1..n : inv[k] \in Seq(1..n)
    BY DEF InvertedRight
  <2>2. \A k \in 1..n : Contains(inv[k], i) <=> i \in Range(inv[k])
    BY <2>1, ContainsIsRange
  <2>3. \A k \in 1..n : i \in Range(inv[k]) <=> k \in Successors(es, i)
    BY DEF InvertedRight
  <2>4. Successors(es, i) \subseteq 1..n /\ IsFiniteSet(1..n)
    BY GraphFacts
  <2>5. {k \in DOMAIN inv : Contains(inv[k], i)} = Successors(es, i) \ {}
    BY <2>1, <2>2, <2>3, <2>4
  <2>6. mk[i] = Cardinality(Successors(es, i) \ {})
    BY <2>5 DEF WaitsFor
  <2>7. IsFiniteSet(Successors(es, i) \ {})
    BY <2>4, FS_Subset
  <2>8. Cardinality(Successors(es, i) \ {}) \in Nat
    BY <2>7, FS_CardinalityType
  <2>9. QED BY <2>6, <2>8
<1>2. mk = [i \in 1..n |-> mk[i]]
  OBVIOUS
<1>3. QED BY <1>1, <1>2 DEF CountsRight

\* What the variables hold before the order is made.
NotBegun ==
  phase \in {"build", "search", "bind"} =>
    /\ samerepoq = <<>> /\ uninstq = <<>> /\ last = [repo |-> 0, media |-> 0]
    /\ steps = StepsOf(world) /\ (phase # "bind" => unbound = <<>>)
    /\ phase = "build" => edges = <<>> /\ mark = <<>> /\ todo = <<>> /\ invedges = <<>>
    /\ phase = "bind" => mark \in [1..Len(tes) -> 0..2] /\ todo = <<>>

\* The steps of an order that has been made: s with what is replaced.
FinishedBy(s) ==
  LET n == Len(tes)
  IN  /\ steps = add_obsoleted(world, s) /\ StepsRight(n, edges, tes, s)
      /\ HandledOf(n, tes, s) = 1..n

OrderMade ==
  phase \in {"done", "choose"} =>
    /\ InvertedRight(Len(tes), edges, invedges)
    /\ todo = <<>> /\ uninstq = <<>> /\ samerepoq = <<>>
    /\ \E s : FinishedBy(s)
    /\ phase = "done" => mark = [i \in 1..Len(tes) |-> 0]

\* The choices ch are the elements that wait for nothing but what was handled; an element
\* handled before it was one of them is marked.
ChoicesRight(n, es, ts, mk, ch, ins) ==
  LET H == {i \in 1..n : ts[i] \in ins}
      O == {i \in 1..n : ts[i] \in Range(ch)}
  IN  /\ ch \in Seq(Range(ts)) /\ Distinct(ch) /\ ins \subseteq Range(ts)
      /\ mk \in [1..n -> Int]
      /\ \A i \in 1..n : mk[i] = IF i \in O THEN 0 ELSE IF i \in H THEN -1
                                 ELSE Cardinality(Successors(es, i) \ H)
      /\ \A i \in 1..n : Successors(es, i) \subseteq H => i \in O \cup H
      /\ \A i \in O : Successors(es, i) \subseteq H

ChoicesKept ==
  IF phase = "choose" THEN ChoicesRight(Len(tes), edges, tes, mark, choices, installed)
                      ELSE choices = <<>> /\ installed = {}

CyclesBound == Range(unbound) \subseteq Range(cycles)

OrderKept == phase = "order" => OrderRight

OrderInv == /\ GraphInv /\ NotBegun /\ OrderKept /\ OrderMade /\ ChoicesKept /\ CyclesBound

LEMMA OrderFacts ==
  ASSUME OrderInv, phase \notin {"build", "search"}
  PROVE  /\ Len(tes) \in Nat /\ Elements = 1..Len(tes) /\ DOMAIN tes = 1..Len(tes)
         /\ Distinct(tes) /\ GraphOn(edges, Len(tes)) /\ Acyclic(edges)
         /\ tes \in Seq(PackagesOf(world)) /\ IsTransaction(world)
BY ElementFacts DEF OrderInv, GraphInv, GraphSound

LEMMA ArrangeOrders ==
  ASSUME OrderInv, Arrange
  PROVE  /\ OrderRight' /\ HandledOf(Len(tes), tes, steps') = {}
         /\ CountsRight(Len(tes), edges, mark', {})
<1> DEFINE n == Len(tes)
           U == Uninstalls
           O == (1..n) \ U
           free == {i \in 1..n : mark'[i] = 0}
           ready == Only(Listed(n), free)
<1>1. /\ n \in Nat /\ Elements = 1..n /\ DOMAIN tes = 1..n /\ Distinct(tes)
      /\ GraphOn(edges, n) /\ IsTransaction(world) /\ tes \in Seq(PackagesOf(world))
  BY OrderFacts DEF Arrange
<1>2. Listed(n) = [i \in Elements |-> i]
  BY <1>1 DEF Listed
<1>3. /\ phase = "bind" /\ steps' = <<>> /\ samerepoq' = <<>> /\ last' = last
      /\ last = [repo |-> 0, media |-> 0]
      /\ world' = world /\ tes' = tes /\ edges' = edges
  BY DEF Arrange, OrderInv, NotBegun
<1>4. invedges' = [k \in 1..n |-> Reverse(Only(Listed(n), {i \in 1..n : Depends(edges, i, k)}))]
  BY <1>1, <1>2 DEF Arrange, Inverted
<1>5. mark' = [i \in 1..n |-> WaitsFor(invedges', i)]
  BY <1>1 DEF Arrange
<1>6. uninstq' = Only(ready, U) /\ todo' = Only(ready, O)
  BY <1>1, <1>2 DEF Arrange
<1>7. InvertedRight(n, edges, invedges')
  BY <1>1, <1>4, InvertsEdges
<1>8. CountsRight(n, edges, mark', {})
  BY <1>1, <1>5, <1>7, CountsFresh
<1>9. HandledOf(n, tes, <<>>) = {}
  BY DEF HandledOf, Range
<1>10. StepsRight(n, edges, tes, <<>>)
  <2>1. DOMAIN <<>> = {} /\ <<>> \in Seq(Range(tes))
    OBVIOUS
  <2>2. QED BY <2>1 DEF StepsRight, Distinct
<1>11. free = Free(n, mark')
  BY DEF Free
<1> HIDE DEF free
<1>12. ready \in Seq(1..n) /\ Distinct(ready) /\ Range(ready) = (1..n) \cap free
  BY <1>1, ListedFacts
<1>13. free \subseteq 1..n
  BY DEF free
<1> HIDE DEF ready
<1>15. Only(ready, U) \in Seq(1..n) /\ Distinct(Only(ready, U)) /\ Range(Only(ready, U)) = Range(ready) \cap U
  BY <1>12, Picks
<1>16. Only(ready, O) \in Seq(1..n) /\ Distinct(Only(ready, O)) /\ Range(Only(ready, O)) = Range(ready) \cap O
  <2> HIDE DEF O
  <2>1. QED BY <1>12, Picks
<1>17. OnMedium(last) = {}
  <2>1. ASSUME NEW i \in Elements \ Uninstalls
        PROVE  world.repo[tes[i]] # 0
    <3>1. tes[i] \in PackagesOf(world) /\ tes[i] \notin world.old
      BY <1>1 DEF Uninstalls, IsUninstall
    <3>2. QED BY <1>1, <3>1 DEF IsTransaction, IsNew
  <2>2. last.repo = 0
    BY <1>3
  <2>3. QED BY <2>1, <2>2 DEF OnMedium
<1>18. <<>> \in Seq(1..n) /\ Distinct(<<>>) /\ Range(<<>>) = {}
  BY DEF Distinct, Range
<1>19. U \subseteq 1..n
  BY <1>1 DEF Uninstalls
<1> HIDE DEF U
<1>20. QueuesRight(n, mark', {}, U, {}, uninstq', samerepoq', todo')
  <2>1. Range(uninstq') \subseteq U /\ Range(todo') \cap (U \cup {}) = {}
    BY <1>6, <1>15, <1>16
  <2>2. Range(uninstq') \cup Range(samerepoq') \cup Range(todo') = Free(n, mark') \ {}
    BY <1>3, <1>6, <1>11, <1>12, <1>13, <1>15, <1>16, <1>18
  <2>3. QED BY <1>3, <1>6, <1>15, <1>16, <1>18, <2>1, <2>2 DEF QueuesRight
<1>21. Uninstalls' = U /\ OnMedium(last)' = {}
  <2>1. Uninstalls' = Uninstalls
    BY <1>3 DEF Uninstalls, IsUninstall, Elements
  <2>2. OnMedium(last)' = OnMedium(last)
    BY <1>3, <2>1 DEF OnMedium, Media, IsUninstall, Elements
  <2>3. QED BY <1>17, <2>1, <2>2 DEF U
<1>22. Len(tes)' = n
  BY <1>3
<1>23. OrderRight'
  BY <1>3, <1>7, <1>8, <1>9, <1>10, <1>20, <1>21, <1>22 DEF OrderRight
<1>24. QED BY <1>3, <1>8, <1>9, <1>23

\* Element i, which is free, is handled next.
HandlesNext(i) ==
  LET n == Len(tes)
      H == HandledOf(n, tes, steps)
  IN  /\ i \in Free(n, mark) \ H
      /\ OrderRight' /\ UNCHANGED ordering /\ steps' = Append(steps, tes[i])
      /\ HandledOf(n, tes, steps') = H \cup {i}
      /\ Free(n, mark) \subseteq Free(n, mark')

LEMMA QueueFacts ==
  ASSUME OrderInv, phase = "order"
  PROVE  /\ OrderRight /\ GraphInv
         /\ uninstq \in Seq(1..Len(tes)) /\ samerepoq \in Seq(1..Len(tes)) /\ todo \in Seq(1..Len(tes))
         /\ Distinct(uninstq) /\ Distinct(samerepoq) /\ Distinct(todo)
         /\ Range(uninstq) \subseteq Uninstalls /\ Range(samerepoq) \subseteq OnMedium(last)
         /\ Range(todo) \cap (Uninstalls \cup OnMedium(last)) = {}
         /\ Range(uninstq) \cup Range(samerepoq) \cup Range(todo) =
              Free(Len(tes), mark) \ HandledOf(Len(tes), tes, steps)
         /\ \A m : Uninstalls \cap OnMedium(m) = {}
<1>1. OrderRight /\ GraphInv
  BY DEF OrderInv, OrderKept
<1>2. \A m : Uninstalls \cap OnMedium(m) = {}
  BY DEF OnMedium
<1>3. QueuesRight(Len(tes), mark, HandledOf(Len(tes), tes, steps), Uninstalls, OnMedium(last),
                  uninstq, samerepoq, todo)
  BY <1>1 DEF OrderRight
<1>4. QED BY <1>1, <1>2, <1>3 DEF QueuesRight

LEMMA EmptyRange == Range(<<>>) = {}
BY DEF Range

LEMMA UninstallHandled ==
  ASSUME OrderInv, HandleUninstall
  PROVE  \E i : HandlesNext(i) /\ i \in Uninstalls
<1> DEFINE n == Len(tes)
           H == HandledOf(n, tes, steps)
           i == Head(uninstq)
           u == Tail(uninstq)
<1>1. phase = "order" /\ uninstq # <<>> /\ Handle(i, u, samerepoq, todo, last) /\ UNCHANGED ordering
  BY DEF HandleUninstall
<1>2. i \in Range(uninstq) /\ u \in Seq(1..n) /\ Distinct(u) /\ Range(u) = Range(uninstq) \ {i}
  BY <1>1, QueueFacts, HeadTaken
<1> HIDE DEF i, u
<1>3. i \in Free(n, mark) \ H /\ i \in Uninstalls
  BY <1>1, <1>2, QueueFacts
<1>4. /\ Range(u) \subseteq Uninstalls
      /\ Range(u) \cup Range(samerepoq) \cup Range(todo) = (Free(n, mark) \ H) \ {i}
  BY <1>1, <1>2, <1>3, QueueFacts
<1>5. /\ OrderRight' /\ HandledOf(n, tes, steps') = H \cup {i}
      /\ Free(n, mark) \subseteq Free(n, mark')
  BY <1>1, <1>2, <1>3, <1>4, QueueFacts, HandleKeepsOrder
<1>6. steps' = Append(steps, tes[i])
  BY <1>1 DEF Handle
<1>7. QED BY <1>1, <1>3, <1>5, <1>6 DEF HandlesNext

LEMMA SameMediumHandled ==
  ASSUME OrderInv, HandleSameMedium
  PROVE  \E i : HandlesNext(i)
<1> DEFINE n == Len(tes)
           H == HandledOf(n, tes, steps)
           i == Head(samerepoq)
           s == Tail(samerepoq)
<1>1. phase = "order" /\ samerepoq # <<>> /\ Handle(i, uninstq, s, todo, last) /\ UNCHANGED ordering
  BY DEF HandleSameMedium
<1>2. i \in Range(samerepoq) /\ s \in Seq(1..n) /\ Distinct(s) /\ Range(s) = Range(samerepoq) \ {i}
  BY <1>1, QueueFacts, HeadTaken
<1> HIDE DEF i, s
<1>3. i \in Free(n, mark) \ H
  BY <1>1, <1>2, QueueFacts
<1>4. /\ Range(s) \subseteq OnMedium(last)
      /\ Range(uninstq) \cup Range(s) \cup Range(todo) = (Free(n, mark) \ H) \ {i}
  BY <1>1, <1>2, <1>3, QueueFacts
<1>5. /\ OrderRight' /\ HandledOf(n, tes, steps') = H \cup {i}
      /\ Free(n, mark) \subseteq Free(n, mark')
  BY <1>1, <1>2, <1>3, <1>4, QueueFacts, HandleKeepsOrder
<1>6. steps' = Append(steps, tes[i])
  BY <1>1 DEF Handle
<1>7. QED BY <1>1, <1>3, <1>5, <1>6 DEF HandlesNext

LEMMA NewMediumHandled ==
  ASSUME OrderInv, ChangeMedium
  PROVE  \E i : HandlesNext(i)
<1> DEFINE n == Len(tes)
           H == HandledOf(n, tes, steps)
           media == {Media(todo[j]) : j \in DOMAIN todo}
           lowest == Min(media)
           j == SelectInSeq(todo, LAMBDA k : Media(k) = lowest)
           first == todo[j]
           medium == [repo |-> world.repo[tes[first]], media |-> lowest]
           M == OnMedium(medium)
           same == Only(todo, M)
           i == Head(same)
           s == Tail(same)
           o == Only(todo, Elements \ M)
<1>1. /\ phase = "order" /\ uninstq = <<>> /\ samerepoq = <<>> /\ todo # <<>>
      /\ Handle(i, uninstq, s, o, medium) /\ UNCHANGED ordering
  BY DEF ChangeMedium
<1>2. /\ n \in Nat /\ Elements = 1..n /\ DOMAIN tes = 1..n /\ IsTransaction(world)
      /\ tes \in Seq(PackagesOf(world))
  BY <1>1, OrderFacts
<1>3. Len(todo) \in Nat /\ DOMAIN todo = 1..Len(todo) /\ Len(todo) > 0 /\ \A k \in DOMAIN todo : todo[k] \in 1..n
  <2>1. todo \in Seq(1..n)
    BY <1>1, QueueFacts
  <2>2. todo # <<>>
    BY <1>1
  <2>3. QED BY <2>1, <2>2
<1>4. \A k \in 1..n : Media(k) \in Nat
  <2>1. TAKE k \in 1..n
  <2>2. tes[k] \in PackagesOf(world)
    BY <1>2
  <2>3. world.media[tes[k]] \in Nat
    BY <1>2, <2>2 DEF IsTransaction
  <2>4. QED BY <2>3 DEF Media
<1>5. media \subseteq Nat /\ media # {}
  BY <1>3, <1>4
<1>6. lowest \in media
  <2> HIDE DEF media
  <2>1. QED BY <1>5, MinIsLeast
<1>7. \E k \in 1..Len(todo) : Media(todo[k]) = lowest
  <2> HIDE DEF lowest
  <2>1. QED BY <1>3, <1>6
<1> HIDE DEF lowest
<1>8. j \in 1..Len(todo) /\ Media(todo[j]) = lowest
  <2> DEFINE hits == {k \in 1..Len(todo) : Media(todo[k]) = lowest}
  <2>1. hits # {} /\ hits \subseteq Nat
    BY <1>3, <1>7
  <2>2. j = Min(hits)
    BY <2>1 DEF SelectInSeq
  <2> HIDE DEF hits, j
  <2>3. j \in hits
    BY <2>1, <2>2, MinIsLeast
  <2>4. QED BY <2>3 DEF hits
<1> HIDE DEF j
<1>9. first \in Range(todo) /\ first \in 1..n /\ Media(first) = lowest
  BY <1>3, <1>8 DEF Range
<1>10. first \notin Uninstalls
  BY <1>1, <1>9, QueueFacts
<1>11. first \in M
  BY <1>2, <1>9, <1>10 DEF OnMedium
<1> HIDE DEF first, media
<1>12. /\ same \in Seq(1..n) /\ Distinct(same) /\ Range(same) = Range(todo) \cap M
       /\ o \in Seq(1..n) /\ Distinct(o) /\ Range(o) = Range(todo) \cap (Elements \ M)
  <2> HIDE DEF M
  <2>1. todo \in Seq(1..n) /\ Distinct(todo)
    BY <1>1, QueueFacts
  <2>2. same \in Seq(1..n) /\ Distinct(same) /\ Range(same) = Range(todo) \cap M
    BY <2>1, Picks
  <2>3. o \in Seq(1..n) /\ Distinct(o) /\ Range(o) = Range(todo) \cap (Elements \ M)
    BY <2>1, Picks
  <2>4. QED BY <2>2, <2>3
<1> HIDE DEF M, same, o, medium
<1>13. same # <<>>
  BY <1>9, <1>11, <1>12, EmptyRange
<1>14. i \in Range(same) /\ s \in Seq(1..n) /\ Distinct(s) /\ Range(s) = Range(same) \ {i}
  BY <1>12, <1>13, HeadTaken
<1> HIDE DEF i, s
<1>15. Range(todo) = Free(n, mark) \ H /\ Range(todo) \subseteq 1..n /\ Range(todo) \cap Uninstalls = {}
  <2>1. Range(todo) = Free(n, mark) \ H
    BY <1>1, QueueFacts, EmptyRange
  <2>2. QED BY <1>1, <2>1, QueueFacts DEF Free
<1>16. i \in Free(n, mark) \ H
  BY <1>12, <1>14, <1>15
<1>17. /\ Range(s) \subseteq M /\ Range(o) \cap (Uninstalls \cup M) = {}
       /\ Range(uninstq) \cup Range(s) \cup Range(o) = (Free(n, mark) \ H) \ {i}
  <2>1. Range(s) \subseteq M /\ Range(o) \cap (Uninstalls \cup M) = {}
    BY <1>12, <1>14, <1>15
  <2>2. Range(uninstq) = {}
    BY <1>1, EmptyRange
  <2>3. Range(s) \cup Range(o) = Range(todo) \ {i}
    BY <1>2, <1>12, <1>14, <1>15
  <2>4. QED BY <1>15, <2>1, <2>2, <2>3
<1>18. Range(uninstq) \subseteq Uninstalls /\ uninstq \in Seq(1..n) /\ Distinct(uninstq)
  BY <1>1, QueueFacts
<1>19. /\ OrderRight' /\ HandledOf(n, tes, steps') = H \cup {i}
       /\ Free(n, mark) \subseteq Free(n, mark')
  BY <1>1, <1>12, <1>14, <1>16, <1>17, <1>18, QueueFacts, HandleKeepsOrder DEF M
<1>20. steps' = Append(steps, tes[i])
  BY <1>1 DEF Handle
<1>21. QED BY <1>1, <1>16, <1>19, <1>20 DEF HandlesNext

----------------------------------------------------------------------------
(* The choices.                                                            *)

ElementsIn(n, ts, ps) == {i \in 1..n : ts[i] \in ps}
ReadyOf(n, es, H) == {i \in 1..n : Successors(es, i) \subseteq H}

Named(ts, q) == [j \in DOMAIN q |-> ts[q[j]]]

LEMMA PackagesNamed ==
  ASSUME NEW n \in Nat, NEW ts, DOMAIN ts = 1..n, Distinct(ts),
         NEW q, q \in Seq(1..n), Distinct(q), NEW c, c = Named(ts, q)
  PROVE  /\ c \in Seq(Range(ts)) /\ Distinct(c) /\ ElementsIn(n, ts, Range(c)) = Range(q)
<1>1. DOMAIN q = 1..Len(q) /\ Len(q) \in Nat /\ \A j \in 1..Len(q) : q[j] \in 1..n
  OBVIOUS
<1>2. DOMAIN c = 1..Len(q) /\ \A j \in 1..Len(q) : c[j] = ts[q[j]] /\ c[j] \in Range(ts)
  BY <1>1 DEF Range, Named
<1>3. c \in Seq(Range(ts))
  <2>1. c \in [1..Len(q) -> Range(ts)]
    BY <1>1, <1>2 DEF Named
  <2>2. QED BY <1>1, <2>1
<1>4. Distinct(c)
  BY <1>1, <1>2 DEF Distinct
<1>5. ASSUME NEW i \in 1..n
      PROVE  ts[i] \in Range(c) <=> i \in Range(q)
  <2>1. ts[i] \in Range(c) <=> \E j \in 1..Len(q) : ts[q[j]] = ts[i]
    <3>1. ts[i] \in Range(c) <=> \E j \in DOMAIN c : c[j] = ts[i]
      BY DEF Range
    <3>2. QED BY <1>2, <3>1
  <2>2. \A j \in 1..Len(q) : ts[q[j]] = ts[i] <=> q[j] = i
    BY <1>1 DEF Distinct
  <2>3. QED BY <1>1, <2>1, <2>2 DEF Range
<1>6. Range(q) \subseteq 1..n
  BY <1>1 DEF Range
<1>7. ElementsIn(n, ts, Range(c)) = Range(q)
  BY <1>5, <1>6 DEF ElementsIn
<1>8. QED BY <1>3, <1>4, <1>7

\* A round begins.
LEMMA RoundBegins ==
  ASSUME NEW n \in Nat, NEW es, GraphOn(es, n), NEW ts, DOMAIN ts = 1..n, Distinct(ts),
         NEW mk, CountsRight(n, es, mk, {}), NEW free, free = Only(Listed(n), Free(n, mk)),
         NEW ch, ch = Named(ts, free)
  PROVE  /\ ChoicesRight(n, es, ts, mk, ch, {})
         /\ ElementsIn(n, ts, Range(ch)) = ReadyOf(n, es, {})
<1>1. free \in Seq(1..n) /\ Distinct(free) /\ Range(free) = (1..n) \cap Free(n, mk)
  BY ListedFacts
<1>2. ch \in Seq(Range(ts)) /\ Distinct(ch) /\ ElementsIn(n, ts, Range(ch)) = Range(free)
  BY <1>1, PackagesNamed
<1>3. \A i \in 1..n : /\ mk[i] \in Nat /\ (mk[i] = 0 <=> Successors(es, i) \subseteq {})
                      /\ mk[i] = Cardinality(Successors(es, i) \ {})
  <2>1. \A i \in 1..n : mk[i] \in Nat /\ (mk[i] = 0 <=> Successors(es, i) \subseteq {})
    <3> DEFINE none == {}
    <3> HIDE DEF none
    <3>1. CountsRight(n, es, mk, none)
      BY DEF none
    <3>2. \A i \in 1..n : mk[i] \in Nat /\ (mk[i] = 0 <=> Successors(es, i) \subseteq none)
      BY <3>1, FreeFacts
    <3>3. QED BY <3>2 DEF none
  <2>2. \A i \in 1..n : mk[i] = Cardinality(Successors(es, i) \ {})
    BY DEF CountsRight
  <2>3. QED BY <2>1, <2>2
<1>4. \A i \in 1..n : ts[i] \in Range(ch) <=> mk[i] = 0
  BY <1>1, <1>2 DEF ElementsIn, Free
<1>5. mk \in [1..n -> Int]
  <2>1. mk = [i \in 1..n |-> mk[i]]
    BY DEF CountsRight
  <2>2. QED BY <1>3, <2>1
<1>6. {i \in 1..n : ts[i] \in {}} = {}
  OBVIOUS
<1>7. ElementsIn(n, ts, Range(ch)) = ReadyOf(n, es, {})
  BY <1>3, <1>4 DEF ElementsIn, ReadyOf
<1>8. ChoicesRight(n, es, ts, mk, ch, {})
  <2> DEFINE O == {i \in 1..n : ts[i] \in Range(ch)}
  <2>1. \A i \in 1..n : mk[i] = IF i \in O THEN 0 ELSE Cardinality(Successors(es, i) \ {})
    BY <1>3, <1>4
  <2>2. \A i \in 1..n : Successors(es, i) \subseteq {} <=> i \in O
    BY <1>3, <1>4
  <2>3. QED BY <1>2, <1>5, <1>6, <2>1, <2>2 DEF ChoicesRight
<1>9. QED BY <1>7, <1>8

ChosenMarks(n, mk, inv, i) ==
  [k \in 1..n |-> IF Contains(inv[i], k) /\ mk[k] > 0 THEN mk[k] - 1
                  ELSE IF k = i /\ mk[k] > 0 THEN -1 ELSE mk[k]]

Offered(ch, ts, q) == ch \o Named(ts, q)
Joined(ins, ts, i) == ins \cup {ts[i]}
OneChosen(n, es, ts, mf, ch, cf, ins, jn, i) ==
  /\ ChoicesRight(n, es, ts, mf, cf, jn)
  /\ ElementsIn(n, ts, jn) = ElementsIn(n, ts, ins) \cup {i}
  /\ ElementsIn(n, ts, Range(cf)) =
       ElementsIn(n, ts, Range(ch)) \cup
         (ReadyOf(n, es, ElementsIn(n, ts, jn)) \ (ElementsIn(n, ts, ins) \cup {i}))

\* The application handles an element, offered or not: the choices stay right, and what
\* is ready by that is offered.
LEMMA ChoosesOne ==
  ASSUME NEW n \in Nat, NEW es, GraphOn(es, n), NEW inv, InvertedRight(n, es, inv),
         NEW ts, DOMAIN ts = 1..n, Distinct(ts), NEW mk, NEW ch, NEW ins,
         ChoicesRight(n, es, ts, mk, ch, ins), NEW i \in 1..n, ts[i] \notin ins,
         NEW mf, mf = ChosenMarks(n, mk, inv, i), NEW free, free = Freed(mk, inv, i),
         NEW cf, cf = Offered(ch, ts, free), NEW jn, jn = Joined(ins, ts, i)
  PROVE  OneChosen(n, es, ts, mf, ch, cf, ins, jn, i)
<1> DEFINE H == ElementsIn(n, ts, ins)
           O == ElementsIn(n, ts, Range(ch))
           G == ElementsIn(n, ts, jn)
           Q == ElementsIn(n, ts, Range(cf))
           sc == Named(ts, free)
<1>1. /\ ch \in Seq(Range(ts)) /\ Distinct(ch) /\ ins \subseteq Range(ts)
      /\ mk \in [1..n -> Int] /\ DOMAIN mk = 1..n
      /\ \A k \in 1..n : mk[k] = IF k \in O THEN 0 ELSE IF k \in H THEN -1
                                 ELSE Cardinality(Successors(es, k) \ H)
      /\ \A k \in 1..n : Successors(es, k) \subseteq H => k \in O \cup H
      /\ \A k \in O : Successors(es, k) \subseteq H
  BY DEF ChoicesRight, ElementsIn
<1>2. G = H \cup {i} /\ i \notin H
  BY DEF ElementsIn, Distinct, Joined
<1>3. inv[i] \in Seq(1..n) /\ Distinct(inv[i]) /\ \A k \in 1..n : k \in Range(inv[i]) <=> i \in Successors(es, k)
  BY DEF InvertedRight
<1>4. \A k \in 1..n : Contains(inv[i], k) <=> i \in Successors(es, k)
  BY <1>3, ContainsIsRange
<1>5. /\ free \in Seq(1..n) /\ Distinct(free)
      /\ Range(free) = Range(inv[i]) \cap {k \in DOMAIN mk : mk[k] = 1}
  <2> DEFINE K == {k \in DOMAIN mk : mk[k] = 1}
  <2>1. free = Only(inv[i], K)
    BY DEF Freed
  <2> HIDE DEF K
  <2>2. free \in Seq(1..n) /\ Distinct(free) /\ Range(free) = Range(inv[i]) \cap K
    BY <1>3, <2>1, Picks
  <2>3. QED BY <2>2 DEF K
<1>6. sc \in Seq(Range(ts)) /\ Distinct(sc) /\ ElementsIn(n, ts, Range(sc)) = Range(free)
  BY <1>5, PackagesNamed
<1>7. \A k \in 1..n : ts[k] \in Range(sc) <=> k \in Range(free)
  BY <1>6 DEF ElementsIn
<1>8. cf = ch \o sc
  BY DEF Offered
<1> HIDE DEF H, O, G, sc
<1>9. \A k \in Range(free) : k \in 1..n /\ i \in Successors(es, k) /\ mk[k] = 1
  BY <1>1, <1>3, <1>5
<1>10. \A k \in 1..n : i \in Successors(es, k) /\ mk[k] = 1 => k \in Range(free)
  BY <1>1, <1>3, <1>5
<1>11. \A k \in 1..n : mk[k] \in Int
  BY <1>1
<1>28. \A k \in 1..n : (k \in O => mk[k] = 0) /\ (k \notin O /\ k \in H => mk[k] = -1)
  <2>1. TAKE k \in 1..n
  <2>2. mk[k] = IF k \in O THEN 0 ELSE IF k \in H THEN -1 ELSE Cardinality(Successors(es, k) \ H)
    BY <1>1
  <2>3. QED BY <2>2
<1>29. \A k \in O : k \in 1..n /\ Successors(es, k) \subseteq H
  BY <1>1 DEF O, ElementsIn
<1>12. Range(free) \cap O = {}
  <2>1. \A k \in Range(free) : k \notin O
    BY <1>9, <1>28
  <2>2. QED BY <2>1
<1>13. Range(ch) \cap Range(sc) = {}
  <2>1. SUFFICES ASSUME NEW p, p \in Range(ch), p \in Range(sc)
                 PROVE  FALSE
    OBVIOUS
  <2>2. PICK j \in DOMAIN free : p = ts[free[j]]
    BY <2>1 DEF Range, sc, Named
  <2>3. free[j] \in Range(free) /\ free[j] \in 1..n
    BY <1>5, <2>2 DEF Range
  <2>4. free[j] \in O
    BY <2>1, <2>2, <2>3 DEF O, ElementsIn
  <2>5. QED BY <1>12, <2>3, <2>4
<1>14. /\ cf \in Seq(Range(ts)) /\ Distinct(cf) /\ Range(cf) = Range(ch) \cup Range(sc)
  <2>1. ch \in Seq(Range(ts)) /\ sc \in Seq(Range(ts)) /\ Distinct(ch) /\ Distinct(sc)
    BY <1>1, <1>6
  <2>2. ch \o sc \in Seq(Range(ts)) /\ Range(ch \o sc) = Range(ch) \cup Range(sc)
    BY <2>1, JoinedRange
  <2>3. Distinct(ch \o sc)
    BY <1>13, <2>1, JoinedDistinct
  <2>4. QED BY <1>8, <2>2, <2>3
<1>15. Q = O \cup Range(free)
  <2>1. \A k \in 1..n : ts[k] \in Range(cf) <=> ts[k] \in Range(ch) \/ k \in Range(free)
    BY <1>7, <1>14
  <2>2. QED BY <1>9, <2>1 DEF O, ElementsIn
<1> HIDE DEF Q
\* What an element that is neither offered nor handled waits for.
<1>16. ASSUME NEW k \in 1..n, k \notin O, k \notin H
       PROVE  /\ mk[k] \in Nat /\ mk[k] > 0 /\ mk[k] = Cardinality(Successors(es, k) \ H)
              /\ Cardinality(Successors(es, k) \ G) =
                   IF i \in Successors(es, k) THEN mk[k] - 1 ELSE mk[k]
              /\ Successors(es, k) \subseteq G <=> i \in Successors(es, k) /\ mk[k] = 1
  <2> DEFINE W == Successors(es, k) \ H
  <2>1. Successors(es, k) \subseteq 1..n /\ IsFiniteSet(1..n)
    BY GraphFacts
  <2>2. W \ {i} = Successors(es, k) \ G /\ (i \in W <=> i \in Successors(es, k))
    BY <1>2
  <2>3. W # {}
    BY <1>1, <1>16
  <2>4. mk[k] = Cardinality(W)
    BY <1>1, <1>16
  <2>5. W \subseteq 1..n
    BY <2>1
  <2>6. W = {} <=> Successors(es, k) \subseteq H
    OBVIOUS
  <2>7. W \ {i} = {} <=> Successors(es, k) \subseteq G
    BY <1>2
  <2> HIDE DEF W
  <2>8. IsFiniteSet(W) /\ Cardinality(W) \in Nat
    BY <2>1, <2>5, FS_Subset, FS_CardinalityType
  <2>9. Cardinality(W) # 0
    BY <2>3, <2>8, FS_EmptySet
  <2>10. /\ IsFiniteSet(W \ {i})
         /\ Cardinality(W \ {i}) = IF i \in W THEN Cardinality(W) - 1 ELSE Cardinality(W)
    BY <2>8, FS_RemoveElement
  <2>11. Cardinality(W \ {i}) = 0 <=> W \ {i} = {}
    BY <2>10, FS_EmptySet
  <2>12. mk[k] \in Nat /\ mk[k] > 0
    BY <2>4, <2>8, <2>9
  <2>13. Cardinality(W \ {i}) = IF i \in Successors(es, k) THEN mk[k] - 1 ELSE mk[k]
    BY <2>2, <2>4, <2>10
  <2>14. Successors(es, k) \subseteq G <=> i \in Successors(es, k) /\ mk[k] = 1
    BY <2>7, <2>11, <2>12, <2>13
  <2>15. mk[k] = Cardinality(Successors(es, k) \ H)
    BY <2>4 DEF W
  <2>16. Cardinality(Successors(es, k) \ G) = IF i \in Successors(es, k) THEN mk[k] - 1 ELSE mk[k]
    BY <2>2, <2>13
  <2>17. QED BY <2>12, <2>14, <2>15, <2>16
<1>17. i \notin Successors(es, i)
  BY GraphFacts
<1>18. \A k \in 1..n : k \in Range(free) <=> k \notin O /\ k \notin H /\ Successors(es, k) \subseteq G
  <2>1. TAKE k \in 1..n
  <2>2. CASE k \in O \/ k \in H
    <3>1. mk[k] # 1
      BY <1>28, <2>2
    <3>2. QED BY <1>9, <2>2, <3>1
  <2>3. CASE k \notin O /\ k \notin H
    BY <1>9, <1>10, <1>16, <2>3
  <2>4. QED BY <2>2, <2>3
<1>19. \A k \in 1..n : mf[k] = IF i \in Successors(es, k) /\ mk[k] > 0 THEN mk[k] - 1
                              ELSE IF k = i /\ mk[k] > 0 THEN -1 ELSE mk[k]
  BY <1>4 DEF ChosenMarks
<1>20. ASSUME NEW k \in 1..n
       PROVE  mf[k] = IF k \in Q THEN 0 ELSE IF k \in G THEN -1
                      ELSE Cardinality(Successors(es, k) \ G)
  <2>1. CASE k \in O
    <3>1. mk[k] = 0 /\ k \in Q
      BY <1>15, <1>28, <2>1
    <3>2. mf[k] = 0
      BY <1>19, <3>1
    <3>3. QED BY <3>1, <3>2
  <2>2. CASE k \notin O /\ k \in H
    <3>1. mk[k] = -1 /\ k \notin Q /\ k \in G
      BY <1>1, <1>2, <1>15, <1>18, <2>2
    <3>2. QED BY <1>19, <3>1
  <2>3. CASE k \notin O /\ k \notin H /\ k = i
    <3>1. k \notin Q /\ k \in G /\ mk[k] > 0
      BY <1>2, <1>9, <1>15, <1>16, <1>17, <2>3
    <3>2. QED BY <1>17, <1>19, <2>3, <3>1
  <2>4. CASE k \notin O /\ k \notin H /\ k # i
    <3>1. k \notin G /\ (k \in Q <=> Successors(es, k) \subseteq G)
      BY <1>2, <1>15, <1>18, <2>4
    <3>2. mf[k] = Cardinality(Successors(es, k) \ G)
      BY <1>16, <1>19, <2>4
    <3>3. k \in Q => mf[k] = 0
      <4>1. mk[k] > 0 /\ (Successors(es, k) \subseteq G <=> i \in Successors(es, k) /\ mk[k] = 1)
        BY <1>16, <2>4
      <4>2. mf[k] = IF i \in Successors(es, k) /\ mk[k] > 0 THEN mk[k] - 1
                    ELSE IF k = i /\ mk[k] > 0 THEN -1 ELSE mk[k]
        BY <1>19
      <4>3. QED BY <3>1, <4>1, <4>2
    <3>4. QED BY <3>1, <3>2, <3>3
  <2>5. QED BY <2>1, <2>2, <2>3, <2>4
<1>21. \A k \in 1..n : Successors(es, k) \subseteq G => k \in Q \cup G
  BY <1>2, <1>15, <1>18
<1>22. \A k \in Q : Successors(es, k) \subseteq G
  <2>1. \A k \in O : Successors(es, k) \subseteq G
    BY <1>1, <1>2
  <2>2. QED BY <1>9, <1>15, <1>18, <2>1
<1>23. mf \in [1..n -> Int]
  <2>1. \A k \in 1..n : mf[k] \in Int
    BY <1>11, <1>19
  <2>2. mf = [k \in 1..n |-> mf[k]]
    BY DEF ChosenMarks
  <2>3. QED BY <2>1, <2>2
<1>24. jn \subseteq Range(ts)
  BY <1>1 DEF Range, Joined
<1>25. ChoicesRight(n, es, ts, mf, cf, jn)
  BY <1>14, <1>20, <1>21, <1>22, <1>23, <1>24 DEF ChoicesRight, Q, G, ElementsIn
<1>26. Q = O \cup (ReadyOf(n, es, G) \ G)
  <2>1. i \notin Range(free)
    BY <1>9, <1>17
  <2>2. \A k \in Q : k \in O \/ k \in ReadyOf(n, es, G) \ G
    BY <1>2, <1>9, <1>15, <1>18, <2>1 DEF ReadyOf
  <2>3. \A k \in ReadyOf(n, es, G) \ G : k \in Q
    BY <1>21 DEF ReadyOf
  <2>4. QED BY <1>15, <2>2, <2>3
<1>27. QED BY <1>2, <1>25, <1>26 DEF G, H, O, Q, OneChosen

----------------------------------------------------------------------------
(* Every step keeps the invariant of the order.                            *)

RestInv == NotBegun /\ OrderKept /\ OrderMade /\ ChoicesKept /\ CyclesBound

LEMMA OrderInvParts == OrderInv <=> GraphInv /\ RestInv
BY DEF OrderInv, RestInv

LEMMA InitRestInv == Init => RestInv
<1> SUFFICES ASSUME Init
             PROVE  RestInv
  OBVIOUS
<1>1. NotBegun /\ OrderKept /\ OrderMade /\ ChoicesKept
  BY DEF Init, NotBegun, OrderKept, OrderMade, ChoicesKept
<1>2. CyclesBound
  BY EmptyRange DEF Init, CyclesBound
<1>3. QED BY <1>1, <1>2 DEF RestInv

\* Without elements there is nothing to order.
LEMMA NothingToOrder ==
  ASSUME NEW w, IsTransaction(w), Len(ActiveSteps(w)) = 0
  PROVE  StepsOf(w) = <<>>
<1>1. ActiveSteps(w) \in Seq(PackagesOf(w)) /\ Range(ActiveSteps(w)) = {p \in TransactsMap(w) : ~IsObsoleted(w, p)}
  BY ActiveFacts
<1>2. ActiveSteps(w) = <<>>
  <2> DEFINE z == ActiveSteps(w)
  <2>1. z \in Seq(PackagesOf(w)) /\ Len(z) = 0
    BY <1>1
  <2> HIDE DEF z
  <2>2. z = <<>>
    BY <2>1
  <2>3. QED BY <2>2 DEF z
<1>3. \A p \in TransactsMap(w) : IsObsoleted(w, p)
  BY <1>1, <1>2, EmptyRange
<1>4. ASSUME NEW p \in TransactsMap(w)
      PROVE  FALSE
  <2>1. p \in w.old /\ Partners(w, p) # {}
    BY <1>3 DEF IsObsoleted
  <2>2. PICK q \in PackagesOf(w) : <<q, p>> \in TransactionInfo(w)
    BY <2>1 DEF Partners
  <2>3. PICK r \in TransactsMap(w) \ w.old :
               <<q, p>> \in {r} \X (SameName(w, r) \cup (IF r \in w.noobs THEN {} ELSE w.obsoletes[r]))
    BY <2>2 DEF TransactionInfo
  <2>4. q = r
    BY <2>3
  <2>5. QED BY <1>3, <2>3, <2>4 DEF IsObsoleted
<1>5. StepsOf(w) \in Seq(PackagesOf(w)) /\ Range(StepsOf(w)) = {}
  BY <1>4, StepsFacts
<1>6. DOMAIN StepsOf(w) = {} /\ DOMAIN StepsOf(w) = 1..Len(StepsOf(w)) /\ Len(StepsOf(w)) \in Nat
  <2> DEFINE z == StepsOf(w)
  <2>1. z \in Seq(PackagesOf(w)) /\ Range(z) = {}
    BY <1>5
  <2> HIDE DEF z
  <2>2. DOMAIN z = {}
    BY <2>1 DEF Range
  <2>3. DOMAIN z = 1..Len(z) /\ Len(z) \in Nat
    BY <2>1
  <2>4. QED BY <2>2, <2>3 DEF z
<1>7. QED
  <2> DEFINE z == StepsOf(w)
  <2>1. z \in Seq(PackagesOf(w)) /\ DOMAIN z = {} /\ DOMAIN z = 1..Len(z) /\ Len(z) \in Nat
    BY <1>5, <1>6
  <2> HIDE DEF z
  <2>2. Len(z) = 0
    <3>1. Len(z) > 0 => 1 \in 1..Len(z)
      BY <2>1
    <3>2. QED BY <2>1, <3>1
  <2>3. z = <<>>
    BY <2>1, <2>2
  <2>4. QED BY <2>3 DEF z

\* The packages that follow s[k] in the order.
Replaced(w, p) == IF IsNew(w, p) THEN transaction_all_obs_pkgs(w, p) ELSE <<>>
ReplacedBefore(w, s, k) == UNION {Range(Replaced(w, s[j])) : j \in 1..(k - 1)}
BlockOf(w, s, k) ==
  IF IsObsoleted(w, s[k]) THEN <<>>
  ELSE <<s[k]>> \o Only(Replaced(w, s[k]), Range(Replaced(w, s[k])) \ ReplacedBefore(w, s, k))

LEMMA InBlocks ==
  ASSUME NEW w, NEW s
  PROVE  add_obsoleted(w, s) = FlattenSeq([k \in DOMAIN s |-> BlockOf(w, s, k)])
BY DEF add_obsoleted, BlockOf, Replaced, ReplacedBefore

LEMMA NoneFinished ==
  ASSUME NEW w, NEW n, n = 0, NEW es, NEW ts, ts = <<>>
  PROVE  add_obsoleted(w, <<>>) = <<>> /\ StepsRight(n, es, ts, <<>>) /\ HandledOf(n, ts, <<>>) = 1..n
<1>1. DOMAIN <<>> = {} /\ <<>> \in Seq(Range(ts))
  OBVIOUS
<1>2. 1..n = {}
  OBVIOUS
<1>3. StepsRight(n, es, ts, <<>>) /\ HandledOf(n, ts, <<>>) = 1..n
  BY <1>1, <1>2 DEF StepsRight, Distinct, HandledOf
<1>4. add_obsoleted(w, <<>>) = <<>>
  <2> DEFINE ss == [k \in DOMAIN <<>> |-> BlockOf(w, <<>>, k)]
  <2>1. add_obsoleted(w, <<>>) = FlattenSeq(ss)
    BY InBlocks
  <2>2. ss = <<>>
    OBVIOUS
  <2>3. FlattenSeq(<<>>) = <<>>
    <3>1. PICK f : FlatSteps(f, <<>>, {})
      <4>1. <<>> \in Seq(Seq({}))
        OBVIOUS
      <4>2. QED BY <4>1, FlattenBuilds
    <3>2. Len(<<>>) = 0
      OBVIOUS
    <3>3. QED BY <3>1, <3>2 DEF FlatSteps
  <2>4. QED BY <2>1, <2>2, <2>3
<1>5. QED BY <1>3, <1>4

LEMMA BuildKeepsRest == OrderInv /\ Build => RestInv'
<1> SUFFICES ASSUME OrderInv, Build
             PROVE  RestInv'
  OBVIOUS
<1> DEFINE n == Len(ActiveSteps(world))
<1>1. /\ phase = "build" /\ phase' = (IF n = 0 THEN "done" ELSE "search")
      /\ tes' = ActiveSteps(world) /\ mark' = [i \in 1..n |-> 0]
      /\ todo' = [i \in 1..n |-> n + 1 - i]
      /\ UNCHANGED <<world, cycles, unbound, invedges, uninstq, samerepoq, last, steps, choices, installed>>
  BY DEF Build
<1>2. /\ samerepoq = <<>> /\ uninstq = <<>> /\ last = [repo |-> 0, media |-> 0]
      /\ steps = StepsOf(world) /\ unbound = <<>> /\ choices = <<>> /\ installed = {}
  BY <1>1 DEF OrderInv, NotBegun, ChoicesKept
<1>3. IsTransaction(world) /\ n \in Nat
  BY ElementFacts, ActiveFacts DEF OrderInv, GraphInv
<1>4. StepsOf(world)' = StepsOf(world)
  BY <1>1 DEF StepsOf, TransactsMap, PackagesOf, NewPackages
<1>5. OrderKept' /\ ChoicesKept'
  BY <1>1, <1>2 DEF OrderKept, ChoicesKept
<1>6. CyclesBound'
  BY <1>1, <1>2, EmptyRange DEF CyclesBound
<1>7. NotBegun'
  BY <1>1, <1>2, <1>4 DEF NotBegun
<1>8. OrderMade'
  <2>1. SUFFICES ASSUME n = 0
                 PROVE  /\ InvertedRight(Len(tes'), edges', invedges')
                        /\ todo' = <<>> /\ uninstq' = <<>> /\ samerepoq' = <<>>
                        /\ \E s : FinishedBy(s)'
                        /\ mark' = [i \in 1..Len(tes') |-> 0]
    BY <1>1 DEF OrderMade
  <2>2. tes' = <<>> /\ Len(tes') = 0
    <3>1. ActiveSteps(world) \in Seq(PackagesOf(world))
      BY <1>3, ActiveFacts
    <3>2. ActiveSteps(world) = <<>>
      BY <2>1, <3>1
    <3>3. QED BY <1>1, <2>1, <3>2
  <2>3. 1..0 = {} /\ 1..n = {}
    BY <2>1
  <2>4. todo' = <<>> /\ mark' = [i \in 1..Len(tes') |-> 0]
    BY <1>1, <2>1, <2>2, <2>3
  <2>5. invedges' = <<>>
    BY <1>1 DEF OrderInv, NotBegun
  <2>6. InvertedRight(Len(tes'), edges', invedges')
    <3>1. <<>> \in [1..0 -> Seq(1..0)]
      BY <2>3
    <3>2. QED BY <2>2, <2>3, <2>5, <3>1 DEF InvertedRight
  <2>7. FinishedBy(<<>>)'
    <3>1. steps' = <<>>
      BY <1>1, <1>2, <1>3, <2>1, NothingToOrder
    <3>2. add_obsoleted(world', <<>>) = <<>>
      BY <2>2, NoneFinished
    <3>3. StepsRight(Len(tes'), edges', tes', <<>>) /\ HandledOf(Len(tes'), tes', <<>>) = 1..Len(tes')
      BY <2>2, NoneFinished
    <3>4. QED BY <3>1, <3>2, <3>3 DEF FinishedBy
  <2>8. QED BY <1>1, <1>2, <2>4, <2>6, <2>7
<1>9. QED BY <1>5, <1>6, <1>7, <1>8 DEF RestInv

\* The steps of the search leave all but the search alone.
LEMMA SearchKeepsRest ==
  ASSUME OrderInv, phase = "search", UNCHANGED searching
  PROVE  RestInv'
<1>1. /\ phase' = "search"
      /\ UNCHANGED <<world, tes, unbound, uninstq, samerepoq, last, steps, choices, installed>>
  BY DEF searching
<1>2. /\ samerepoq = <<>> /\ uninstq = <<>> /\ last = [repo |-> 0, media |-> 0]
      /\ steps = StepsOf(world) /\ unbound = <<>> /\ choices = <<>> /\ installed = {}
  BY DEF OrderInv, NotBegun, ChoicesKept
<1>3. StepsOf(world)' = StepsOf(world)
  BY <1>1 DEF StepsOf, TransactsMap, PackagesOf, NewPackages
<1>4. NotBegun' /\ OrderKept' /\ OrderMade' /\ ChoicesKept'
  BY <1>1, <1>2, <1>3 DEF NotBegun, OrderKept, OrderMade, ChoicesKept
<1>5. CyclesBound'
  BY <1>1, <1>2, EmptyRange DEF CyclesBound
<1>6. QED BY <1>4, <1>5 DEF RestInv

LEMMA EndKeepsRest == OrderInv /\ EndSearch => RestInv'
<1> SUFFICES ASSUME OrderInv, EndSearch
             PROVE  RestInv'
  OBVIOUS
<1> DEFINE T == CycleRecords(Len(tes))
           latest == Reverse(cycles)
           strong == {c \in Range(cycles) : c.weight >= TYPE_REQ}
           weak == Range(cycles) \ strong
<1>1. /\ phase = "search" /\ todo = <<>> /\ phase' = "bind"
      /\ unbound' = Only(latest, strong) \o Only(latest, weak)
      /\ UNCHANGED <<world, tes, edges, mark, todo, cycles, invedges, uninstq, samerepoq, last,
                     steps, choices, installed>>
  BY DEF EndSearch
<1>2. /\ samerepoq = <<>> /\ uninstq = <<>> /\ last = [repo |-> 0, media |-> 0]
      /\ steps = StepsOf(world) /\ choices = <<>> /\ installed = {}
  BY <1>1 DEF OrderInv, NotBegun, ChoicesKept
<1>3. StepsOf(world)' = StepsOf(world)
  BY <1>1 DEF StepsOf, TransactsMap, PackagesOf, NewPackages
<1>4. mark \in [1..Len(tes) -> 0..2]
  BY <1>1 DEF OrderInv, GraphInv, StackSound, Stack, StackTyped
<1>5. NotBegun' /\ OrderKept' /\ OrderMade' /\ ChoicesKept'
  BY <1>1, <1>2, <1>3, <1>4 DEF NotBegun, OrderKept, OrderMade, ChoicesKept
<1>6. cycles \in Seq(T)
  BY DEF OrderInv, GraphInv, CyclesKept
<1>7. latest \in Seq(T) /\ Range(latest) = Range(cycles)
  BY <1>6, Reversed
<1> HIDE DEF T, latest, strong, weak
<1> DEFINE a == Only(latest, strong)
           b == Only(latest, weak)
<1>8. /\ a \in Seq(T) /\ b \in Seq(T) /\ Range(a) \subseteq Range(cycles) /\ Range(b) \subseteq Range(cycles)
  BY <1>7, OnlyPicks
<1> HIDE DEF a, b
<1>9. Range(a \o b) = Range(a) \cup Range(b)
  BY <1>8, JoinedRange
<1>10. CyclesBound'
  BY <1>1, <1>8, <1>9 DEF CyclesBound, a, b
<1>11. QED BY <1>5, <1>10 DEF RestInv

LEMMA TailRange ==
  ASSUME NEW T, NEW q, q \in Seq(T), q # <<>>
  PROVE  Range(Tail(q)) \subseteq Range(q)
<1>1. Len(q) \in Nat /\ Len(q) > 0 /\ DOMAIN q = 1..Len(q)
  OBVIOUS
<1>2. DOMAIN Tail(q) = 1..(Len(q) - 1) /\ \A j \in 1..(Len(q) - 1) : Tail(q)[j] = q[j + 1]
  OBVIOUS
<1>3. \A j \in 1..(Len(q) - 1) : j + 1 \in DOMAIN q
  BY <1>1
<1>4. QED BY <1>2, <1>3 DEF Range

LEMMA BindKeepsRest == OrderInv /\ Bind => RestInv'
<1> SUFFICES ASSUME OrderInv, Bind
             PROVE  RestInv'
  OBVIOUS
<1>1. /\ phase = "bind" /\ unbound # <<>> /\ unbound' = Tail(unbound)
      /\ UNCHANGED <<world, phase, tes, mark, todo, cycles, invedges, uninstq, samerepoq, last,
                     steps, choices, installed>>
  BY DEF Bind
<1>2. /\ samerepoq = <<>> /\ uninstq = <<>> /\ last = [repo |-> 0, media |-> 0]
      /\ steps = StepsOf(world) /\ choices = <<>> /\ installed = {}
      /\ mark \in [1..Len(tes) -> 0..2] /\ todo = <<>>
  BY <1>1 DEF OrderInv, NotBegun, ChoicesKept
<1>3. StepsOf(world)' = StepsOf(world)
  BY <1>1 DEF StepsOf, TransactsMap, PackagesOf, NewPackages
<1>4. NotBegun' /\ OrderKept' /\ OrderMade' /\ ChoicesKept'
  BY <1>1, <1>2, <1>3 DEF NotBegun, OrderKept, OrderMade, ChoicesKept
<1>5. unbound \in Seq(CycleRecords(Len(tes)))
  BY DEF OrderInv, GraphInv, CyclesKept
<1>6. CyclesBound'
  BY <1>1, <1>5, TailRange DEF OrderInv, CyclesBound
<1>7. QED BY <1>4, <1>6 DEF RestInv

LEMMA ArrangeKeepsRest == OrderInv /\ Arrange => RestInv'
<1> SUFFICES ASSUME OrderInv, Arrange
             PROVE  RestInv'
  OBVIOUS
<1>1. phase = "bind" /\ phase' = "order" /\ UNCHANGED <<cycles, unbound, choices, installed>>
  BY DEF Arrange
<1>2. OrderRight'
  BY ArrangeOrders
<1>3. choices = <<>> /\ installed = {}
  BY <1>1 DEF OrderInv, ChoicesKept
<1>4. QED BY <1>1, <1>2, <1>3 DEF OrderInv, RestInv, NotBegun, OrderKept, OrderMade, ChoicesKept, CyclesBound

LEMMA HandlingKeepsRest ==
  ASSUME OrderInv, phase = "order", NEW i, HandlesNext(i)
  PROVE  RestInv'
<1>1. OrderRight' /\ UNCHANGED <<phase, cycles, unbound, choices, installed>>
  BY DEF HandlesNext, ordering
<1>2. choices = <<>> /\ installed = {}
  BY DEF OrderInv, ChoicesKept
<1>3. QED BY <1>1, <1>2 DEF OrderInv, RestInv, NotBegun, OrderKept, OrderMade, ChoicesKept, CyclesBound

\* When the queues are empty, everything is handled: the graph has no cycles.
LEMMA AllHandled ==
  ASSUME OrderInv, Finish
  PROVE  /\ HandledOf(Len(tes), tes, steps) = 1..Len(tes)
         /\ mark = [i \in 1..Len(tes) |-> 0]
<1> DEFINE n == Len(tes)
           H == HandledOf(n, tes, steps)
           S == (1..n) \ H
<1>1. phase = "order" /\ uninstq = <<>> /\ samerepoq = <<>> /\ todo = <<>>
  BY DEF Finish
<1>2. /\ n \in Nat /\ GraphOn(edges, n) /\ Acyclic(edges)
  BY <1>1, OrderFacts
<1>3. Free(n, mark) \ H = {}
  BY <1>1, QueueFacts, EmptyRange
<1>4. CountsRight(n, edges, mark, H)
  BY <1>1, QueueFacts DEF OrderRight
<1>5. H \subseteq 1..n
  BY DEF HandledOf
<1> HIDE DEF H
<1>6. S = {}
  <2>1. SUFFICES ASSUME S # {}
                 PROVE  FALSE
    OBVIOUS
  <2>2. PICK i \in S : Successors(edges, i) \cap S = {}
    BY <1>2, <2>1, OneIsFree
  <2>3. Successors(edges, i) \subseteq H
    BY <1>2, <2>2, GraphFacts
  <2>4. mark[i] = 0
    BY <1>2, <1>4, <2>3, FreeFacts
  <2>5. QED BY <1>3, <2>4 DEF Free
<1>7. H = 1..n
  BY <1>5, <1>6
<1>8. \A i \in 1..n : mark[i] = 0
  <2>1. \A i \in 1..n : Successors(edges, i) \subseteq H
    BY <1>2, <1>7, GraphFacts
  <2>2. QED BY <1>2, <1>4, <2>1, FreeFacts
<1>9. mark = [i \in 1..n |-> 0]
  <2>1. mark = [i \in 1..n |-> mark[i]]
    BY <1>4 DEF CountsRight
  <2>2. QED BY <1>8, <2>1
<1>10. QED BY <1>7, <1>9 DEF H

LEMMA FinishKeepsRest == OrderInv /\ Finish => RestInv'
<1> SUFFICES ASSUME OrderInv, Finish
             PROVE  RestInv'
  OBVIOUS
<1>1. /\ phase = "order" /\ phase' = "done" /\ steps' = add_obsoleted(world, steps)
      /\ uninstq = <<>> /\ samerepoq = <<>> /\ todo = <<>>
      /\ UNCHANGED <<world, tes, edges, mark, todo, cycles, unbound, invedges, uninstq,
                     samerepoq, last, choices, installed>>
  BY DEF Finish
<1>2. HandledOf(Len(tes), tes, steps) = 1..Len(tes) /\ mark = [i \in 1..Len(tes) |-> 0]
  BY AllHandled
<1>3. InvertedRight(Len(tes), edges, invedges) /\ StepsRight(Len(tes), edges, tes, steps)
  BY <1>1, QueueFacts DEF OrderRight
<1> DEFINE Made(s) == /\ steps' = add_obsoleted(world', s) /\ StepsRight(Len(tes'), edges', tes', s)
                      /\ HandledOf(Len(tes'), tes', s) = 1..Len(tes')
<1>4. Made(steps)
  BY <1>1, <1>2, <1>3
<1> HIDE DEF Made
<1>5. PICK s : Made(s)
  BY <1>4
<1>6. FinishedBy(s)'
  BY <1>5 DEF FinishedBy, Made
<1>7. OrderMade'
  BY <1>1, <1>2, <1>3, <1>6 DEF OrderMade
<1>8. choices = <<>> /\ installed = {}
  BY <1>1 DEF OrderInv, ChoicesKept
<1>9. QED BY <1>1, <1>7, <1>8 DEF OrderInv, RestInv, NotBegun, OrderKept, ChoicesKept, CyclesBound

\* A round of choices begins.
LEMMA FirstChoicesRight ==
  ASSUME OrderInv, FirstChoices
  PROVE  /\ ChoicesRight(Len(tes), edges, tes, mark', choices', {}) /\ installed' = {}
         /\ ElementsIn(Len(tes), tes, Range(choices')) = ReadyOf(Len(tes), edges, {})
         /\ phase \in {"done", "choose"} /\ phase' = "choose"
         /\ UNCHANGED <<world, tes, edges, todo, cycles, unbound, invedges, uninstq, samerepoq,
                        last, steps>>
<1> DEFINE n == Len(tes)
           free == Only([i \in Elements |-> i], {i \in Elements : mark'[i] = 0})
<1>1. /\ phase \in {"done", "choose"} /\ phase' = "choose" /\ installed' = {}
      /\ UNCHANGED <<world, tes, edges, todo, cycles, unbound, invedges, uninstq, samerepoq,
                     last, steps>>
      /\ mark' = [i \in Elements |-> WaitsFor(invedges, i)]
      /\ choices' = Named(tes, free)
  BY DEF FirstChoices, HasOrderdata, Named
<1>2. /\ n \in Nat /\ Elements = 1..n /\ DOMAIN tes = 1..n /\ Distinct(tes) /\ GraphOn(edges, n)
  BY <1>1, OrderFacts
<1>3. InvertedRight(n, edges, invedges)
  BY <1>1 DEF OrderInv, OrderMade
<1>4. CountsRight(n, edges, mark', {})
  BY <1>1, <1>2, <1>3, CountsFresh
<1>5. free = Only(Listed(n), Free(n, mark'))
  BY <1>2 DEF Listed, Free
<1> HIDE DEF free
<1>6. /\ ChoicesRight(n, edges, tes, mark', choices', {})
      /\ ElementsIn(n, tes, Range(choices')) = ReadyOf(n, edges, {})
  <2> DEFINE mk == mark'
             ch == choices'
  <2>1. /\ n \in Nat /\ GraphOn(edges, n) /\ DOMAIN tes = 1..n /\ Distinct(tes)
        /\ CountsRight(n, edges, mk, {}) /\ free = Only(Listed(n), Free(n, mk)) /\ ch = Named(tes, free)
    BY <1>1, <1>2, <1>4, <1>5
  <2> HIDE DEF n, mk, ch
  <2>2. /\ ChoicesRight(n, edges, tes, mk, ch, {})
        /\ ElementsIn(n, tes, Range(ch)) = ReadyOf(n, edges, {})
    BY <2>1, RoundBegins
  <2>3. QED BY <2>2 DEF mk, ch
<1>7. QED BY <1>1, <1>6

\* Once the order is made, its steps, the graph and the queues stay.
LEMMA OrderStays ==
  ASSUME OrderInv, phase \in {"done", "choose"}, phase' = "choose",
         ChoicesRight(Len(tes), edges, tes, mark', choices', installed'),
         UNCHANGED <<world, tes, edges, todo, cycles, unbound, invedges, uninstq, samerepoq,
                     last, steps>>
  PROVE  RestInv'
<1>1. InvertedRight(Len(tes), edges, invedges) /\ todo = <<>> /\ uninstq = <<>> /\ samerepoq = <<>>
  BY DEF OrderInv, OrderMade
<1> DEFINE Made(s) == /\ steps' = add_obsoleted(world', s) /\ StepsRight(Len(tes'), edges', tes', s)
                      /\ HandledOf(Len(tes'), tes', s) = 1..Len(tes')
<1>2. PICK s : FinishedBy(s)
  BY DEF OrderInv, OrderMade
<1>3. Made(s)
  BY <1>2 DEF FinishedBy
<1>4. FinishedBy(s)'
  BY <1>3 DEF FinishedBy
<1>5. OrderMade'
  BY <1>1, <1>4 DEF OrderMade
<1>6. QED BY <1>5 DEF OrderInv, RestInv, NotBegun, OrderKept, ChoicesKept, CyclesBound

\* What a choice of element i does to the promise.
LEMMA ChoiceRight ==
  ASSUME OrderInv, NEW i \in Elements, Choose(i)
  PROVE  LET n == Len(tes)
             H == ElementsIn(n, tes, installed)
         IN  /\ i \notin H /\ phase = "choose" /\ phase' = "choose" /\ n \in Nat /\ i \in 1..n
             /\ ChoicesRight(n, edges, tes, mark', choices', installed')
             /\ ElementsIn(n, tes, installed') = H \cup {i}
             /\ ElementsIn(n, tes, Range(choices')) =
                  ElementsIn(n, tes, Range(choices)) \cup
                    (ReadyOf(n, edges, H \cup {i}) \ (H \cup {i}))
             /\ UNCHANGED <<world, tes, edges, todo, cycles, unbound, invedges, uninstq, samerepoq,
                            last, steps>>
<1> DEFINE n == Len(tes)
           H == ElementsIn(n, tes, installed)
           f == Freed(mark, invedges, i)
<1>1. phase = "choose" /\ tes[i] \notin installed
  BY DEF Choose
<1>2. /\ n \in Nat /\ Elements = 1..n /\ DOMAIN tes = 1..n /\ Distinct(tes) /\ GraphOn(edges, n)
  BY <1>1, OrderFacts
<1>3. /\ InvertedRight(n, edges, invedges) /\ ChoicesRight(n, edges, tes, mark, choices, installed)
  BY <1>1 DEF OrderInv, OrderMade, ChoicesKept
<1>4. DOMAIN mark = 1..n
  BY <1>3 DEF ChoicesRight
<1>5. f = Only(invedges[i], {k \in Elements : mark[k] = 1})
  BY <1>2, <1>4 DEF Freed
<1>6. /\ mark' = ChosenMarks(n, mark, invedges, i)
      /\ choices' = Offered(choices, tes, f)
      /\ installed' = Joined(installed, tes, i) /\ phase' = phase
      /\ UNCHANGED <<world, tes, edges, todo, cycles, unbound, invedges, uninstq, samerepoq,
                     last, steps>>
  BY <1>2, <1>5 DEF Choose, ChosenMarks, Offered, Named, Joined
<1> HIDE DEF f
<1>7. /\ ChoicesRight(n, edges, tes, mark', choices', installed')
      /\ ElementsIn(n, tes, installed') = H \cup {i}
      /\ ElementsIn(n, tes, Range(choices')) =
           ElementsIn(n, tes, Range(choices)) \cup
             (ReadyOf(n, edges, ElementsIn(n, tes, installed')) \ (H \cup {i}))
  <2> DEFINE mk == mark'
             ch == choices'
             jn == installed'
  <2>1. /\ n \in Nat /\ GraphOn(edges, n) /\ InvertedRight(n, edges, invedges)
        /\ DOMAIN tes = 1..n /\ Distinct(tes)
        /\ ChoicesRight(n, edges, tes, mark, choices, installed)
        /\ i \in 1..n /\ tes[i] \notin installed
    BY <1>1, <1>2, <1>3
  <2>2. /\ mk = ChosenMarks(n, mark, invedges, i) /\ ch = Offered(choices, tes, f)
        /\ jn = Joined(installed, tes, i)
    BY <1>6
  <2>3. f = Freed(mark, invedges, i)
    BY DEF f
  <2> HIDE DEF n, mk, ch, jn
  <2>4. OneChosen(n, edges, tes, mk, choices, ch, installed, jn, i)
    BY <2>1, <2>2, <2>3, ChoosesOne
  <2>5. QED BY <2>4 DEF OneChosen, mk, ch, jn
<1>8. i \notin H
  BY <1>1 DEF ElementsIn
<1>9. QED BY <1>1, <1>2, <1>6, <1>7, <1>8

LEMMA NextRestInv == OrderInv /\ [Next]_vars => RestInv'
<1> SUFFICES ASSUME OrderInv, [Next]_vars
             PROVE  RestInv'
  OBVIOUS
<1>1. CASE Build \/ EndSearch \/ Bind \/ Arrange \/ Finish
  BY <1>1, BuildKeepsRest, EndKeepsRest, BindKeepsRest, ArrangeKeepsRest, FinishKeepsRest
<1>2. CASE Leave \/ SkipDone \/ Enter \/ BreakCycle
  <2>1. phase = "search" /\ UNCHANGED searching
    BY <1>2 DEF Leave, SkipDone, Enter, BreakCycle
  <2>2. QED BY <2>1, SearchKeepsRest
<1>3. CASE HandleUninstall \/ HandleSameMedium \/ ChangeMedium
  <2>1. phase = "order"
    BY <1>3 DEF HandleUninstall, HandleSameMedium, ChangeMedium
  <2>2. \E i : HandlesNext(i)
    BY <1>3, UninstallHandled, SameMediumHandled, NewMediumHandled
  <2>3. QED BY <2>1, <2>2, HandlingKeepsRest
<1>4. CASE FirstChoices
  BY <1>4, FirstChoicesRight, OrderStays
<1>5. CASE ChooseOffered \/ ChooseEarly
  <2>1. PICK i \in Elements : Choose(i)
    BY <1>5 DEF ChooseOffered, ChooseEarly
  <2>2. QED BY <2>1, ChoiceRight, OrderStays
<1>6. CASE NoChoices \/ UNCHANGED vars
  <2>1. UNCHANGED vars
    BY <1>6 DEF NoChoices
  <2>2. UNCHANGED <<world, phase, tes, edges, mark, todo, cycles, unbound, invedges, uninstq,
          samerepoq, last, steps, choices, installed>>
    BY <2>1 DEF vars
  <2>3. StepsOf(world)' = StepsOf(world)
    BY <2>2 DEF StepsOf, TransactsMap, PackagesOf, NewPackages
  <2>4. NotBegun' /\ ChoicesKept' /\ CyclesBound'
    BY <2>2, <2>3 DEF OrderInv, NotBegun, ChoicesKept, CyclesBound
  <2>5. OrderKept'
    <3>1. Uninstalls' = Uninstalls
      BY <2>2 DEF Uninstalls, IsUninstall, Elements
    <3>2. OnMedium(last)' = OnMedium(last)
      BY <2>2, <3>1 DEF OnMedium, Media, IsUninstall, Elements
    <3>3. QED BY <2>2, <3>1, <3>2 DEF OrderInv, OrderKept, OrderRight
  <2>6. OrderMade'
    <3>1. SUFFICES ASSUME phase \in {"done", "choose"}
                   PROVE  OrderMade'
      BY <2>2 DEF OrderMade
    <3> DEFINE Made(s) == /\ steps' = add_obsoleted(world', s) /\ StepsRight(Len(tes'), edges', tes', s)
                          /\ HandledOf(Len(tes'), tes', s) = 1..Len(tes')
    <3>2. PICK s : FinishedBy(s)
      BY <3>1 DEF OrderInv, OrderMade
    <3>3. Made(s)
      BY <2>2, <3>2 DEF FinishedBy
    <3>4. FinishedBy(s)'
      BY <3>3 DEF FinishedBy
    <3>5. QED BY <2>2, <3>4 DEF OrderInv, OrderMade
  <2>7. QED BY <2>4, <2>5, <2>6 DEF RestInv
<1>7. QED BY <1>1, <1>2, <1>3, <1>4, <1>5, <1>6 DEF Next, Order

LEMMA InitOrderInv == Init => OrderInv
BY InitGraphInv, InitRestInv, OrderInvParts

LEMMA NextOrderInv == OrderInv /\ [Next]_vars => OrderInv'
<1>1. OrderInv /\ [Next]_vars => GraphInv' /\ RestInv'
  BY NextGraphInv, NextRestInv DEF OrderInv
<1>2. (OrderInv <=> GraphInv /\ RestInv)'
  BY DEF OrderInv, RestInv
<1>3. QED BY <1>1, <1>2

----------------------------------------------------------------------------
(* The theorems about the order.                                           *)

\* What can be handled stands on the queues.
LEMMA OpenQueued ==
  ASSUME OrderInv, phase = "order"
  PROVE  {i \in Elements : tes[i] \notin Range(steps) /\ mark[i] = 0} =
           Range(uninstq) \cup Range(samerepoq) \cup Range(todo)
<1>1. Elements = 1..Len(tes)
  BY OrderFacts
<1>2. QED BY <1>1, QueueFacts DEF Free, HandledOf

\* What NoNeedlessChange says of a step.
NeededChange ==
  steps # steps' /\ phase = "order" /\ phase' = "order" =>
    LET p == Last(steps')
        open == {i \in Elements : tes[i] \notin Range(steps) /\ mark[i] = 0}
    IN  p \in world.old \/
          /\ \A i \in open : ~IsUninstall(i)
          /\ last' # last => open \cap OnMedium(last) = {}

LEMMA ChangesWhenNeeded == OrderInv /\ [Next]_vars => NeededChange
<1> SUFFICES ASSUME OrderInv, [Next]_vars, steps # steps', phase = "order", phase' = "order"
             PROVE  NeededChange
  BY DEF NeededChange
<1> DEFINE open == {i \in Elements : tes[i] \notin Range(steps) /\ mark[i] = 0}
<1>1. open = Range(uninstq) \cup Range(samerepoq) \cup Range(todo) /\ Elements = 1..Len(tes)
  BY OpenQueued, OrderFacts
<1>2. /\ Range(uninstq) \subseteq Uninstalls /\ Range(samerepoq) \subseteq OnMedium(last)
      /\ Range(todo) \cap (Uninstalls \cup OnMedium(last)) = {}
      /\ Uninstalls \cap OnMedium(last) = {}
  BY QueueFacts
<1>3. \A i \in open : IsUninstall(i) <=> i \in Uninstalls
  BY DEF Uninstalls
<1> HIDE DEF open
<1>4. CASE HandleUninstall
  <2>1. PICK i : HandlesNext(i) /\ i \in Uninstalls
    BY <1>4, UninstallHandled
  <2>2. steps' = Append(steps, tes[i]) /\ tes[i] \in world.old
    BY <2>1 DEF HandlesNext, Uninstalls, IsUninstall
  <2>3. StepsRight(Len(tes), edges, tes, steps)
    BY QueueFacts DEF OrderRight
  <2>4. steps \in Seq(Range(tes))
    BY <2>3 DEF StepsRight
  <2>5. tes[i] \in Range(tes)
    BY <2>1 DEF Uninstalls, Elements, Range
  <2>6. Last(steps') = tes[i]
    BY <2>2, <2>4, <2>5 DEF Last
  <2>7. QED BY <2>2, <2>6 DEF NeededChange
<1>5. CASE HandleSameMedium \/ ChangeMedium
  <2>1. uninstq = <<>>
    BY <1>5 DEF HandleSameMedium, ChangeMedium
  <2>2. open = Range(samerepoq) \cup Range(todo)
    BY <1>1, <2>1, EmptyRange
  <2>3. \A i \in open : ~IsUninstall(i)
    BY <1>2, <1>3, <2>2
  <2>4. last' # last => open \cap OnMedium(last) = {}
    <3>1. CASE HandleSameMedium
      BY <3>1 DEF HandleSameMedium, Handle
    <3>2. CASE ChangeMedium
      <4>1. samerepoq = <<>>
        BY <3>2 DEF ChangeMedium
      <4>2. QED BY <1>2, <2>2, <4>1, EmptyRange
    <3>3. QED BY <1>5, <3>1, <3>2
  <2>5. QED BY <2>3, <2>4 DEF NeededChange, open
<1>6. QED
  BY <1>4, <1>5 DEF Next, Order, Build, Leave, SkipDone, Enter, BreakCycle, EndSearch, Bind,
     Arrange, Finish, NoChoices, FirstChoices, HasOrderdata, ChooseOffered, ChooseEarly, Choose,
     vars, searching

\* Whatever the transaction: no package is installed while an uninstall can be handled,
\* and the medium is changed only when nothing is left to do on the current one.
THEOREM ChangesAreNeeded == Spec => NoNeedlessChange
<1>1. OrderInv /\ [Next]_vars => [NeededChange]_vars
  BY ChangesWhenNeeded
<1>2. [][NeededChange]_vars <=> NoNeedlessChange
  BY PTL DEF NeededChange, NoNeedlessChange
<1>3. QED BY <1>1, <1>2, InitOrderInv, NextOrderInv, PTL DEF Spec

----------------------------------------------------------------------------
(* The partners of a package in their order.                               *)

\* R orders the elements of S.
OrdersAll(R, S) ==
  /\ \A x \in S : <<x, x>> \notin R
  /\ \A x, y \in S : x = y \/ <<x, y>> \in R \/ <<y, x>> \in R
  /\ \A x, y, z \in S : <<x, y>> \in R /\ <<y, z>> \in R => <<x, z>> \in R

Below(R, S, q) == {r \in S : <<r, q>> \in R}

LEMMA RankGrows ==
  ASSUME NEW S, IsFiniteSet(S), NEW R, OrdersAll(R, S), NEW x \in S, NEW y \in S, <<x, y>> \in R
  PROVE  /\ Cardinality(Below(R, S, x)) \in Nat /\ Cardinality(Below(R, S, y)) \in Nat
         /\ Cardinality(Below(R, S, x)) < Cardinality(Below(R, S, y))
<1> DEFINE A == Below(R, S, x)
           B == Below(R, S, y)
<1>1. A \subseteq S /\ B \subseteq S
  BY DEF Below
<1>2. A \subseteq B
  BY DEF Below, OrdersAll
<1>3. x \in B /\ x \notin A
  BY DEF Below, OrdersAll
<1> HIDE DEF A, B
<1>4. IsFiniteSet(A) /\ IsFiniteSet(B)
  BY <1>1, FS_Subset
<1>5. Cardinality(A) \in Nat /\ Cardinality(B) \in Nat
  BY <1>4, FS_CardinalityType
<1>6. Cardinality(A) <= Cardinality(B) /\ Cardinality(A) # Cardinality(B)
  BY <1>2, <1>3, <1>4, FS_Subset
<1>7. QED BY <1>5, <1>6 DEF A, B

\* The elements of a finite set have the ranks from 0 on, each its own.
LEMMA Ranked ==
  ASSUME NEW S, IsFiniteSet(S), NEW R, OrdersAll(R, S)
  PROVE  /\ Cardinality(S) \in Nat
         /\ \A q \in S : Cardinality(Below(R, S, q)) \in 0..(Cardinality(S) - 1)
         /\ \A q, r \in S : Cardinality(Below(R, S, q)) = Cardinality(Below(R, S, r)) => q = r
         /\ \A k \in 0..(Cardinality(S) - 1) : \E q \in S : Cardinality(Below(R, S, q)) = k
<1> DEFINE m == Cardinality(S)
           N == 0..(m - 1)
           f == [q \in S |-> Cardinality(Below(R, S, q))]
<1>1. m \in Nat
  BY FS_CardinalityType
<1>2. ASSUME NEW q \in S
      PROVE  f[q] \in N
  <2> DEFINE B == Below(R, S, q)
  <2>1. B \subseteq S /\ q \notin B
    BY DEF Below, OrdersAll
  <2>2. f[q] = Cardinality(B)
    OBVIOUS
  <2> HIDE DEF B, f, m
  <2>3. IsFiniteSet(B) /\ Cardinality(B) <= Cardinality(S) /\ Cardinality(B) # Cardinality(S)
    BY <2>1, FS_Subset
  <2>4. Cardinality(B) \in Nat
    BY <2>3, FS_CardinalityType
  <2>5. QED BY <1>1, <2>2, <2>3, <2>4 DEF m
<1>3. ASSUME NEW q \in S, NEW r \in S, f[q] = f[r]
      PROVE  q = r
  <2>1. SUFFICES ASSUME q # r
                 PROVE  FALSE
    OBVIOUS
  <2>2. <<q, r>> \in R \/ <<r, q>> \in R
    BY <2>1 DEF OrdersAll
  <2>3. f[q] < f[r] \/ f[r] < f[q]
    <3>1. CASE <<q, r>> \in R
      BY <3>1, RankGrows
    <3>2. CASE <<r, q>> \in R
      BY <3>2, RankGrows
    <3>3. QED BY <2>2, <3>1, <3>2
  <2> HIDE DEF f, m
  <2>4. f[q] \in Nat /\ f[r] \in Nat
    BY <1>1, <1>2
  <2>5. QED BY <1>3, <2>3, <2>4
<1>4. f \in [S -> N]
  <2>1. f = [q \in S |-> f[q]]
    OBVIOUS
  <2> HIDE DEF f, N
  <2>2. QED BY <1>2, <2>1
<1>5. f \in Injection(S, N)
  <2> HIDE DEF f, N
  <2>1. QED BY <1>3, <1>4 DEF Injection, IsInjective
<1>6. IsFiniteSet(N) /\ Cardinality(N) = m
  <2>1. m - 1 \in Int /\ 0 \in Int
    BY <1>1
  <2> HIDE DEF m
  <2>2. IsFiniteSet(0..(m - 1)) /\ Cardinality(0..(m - 1)) = IF 0 > m - 1 THEN 0 ELSE (m - 1) - 0 + 1
    BY <2>1, FS_Interval
  <2>3. QED BY <1>1, <2>2
<1>7. f \in Surjection(S, N)
  <2> HIDE DEF f, N
  <2>1. QED BY <1>5, <1>6, FS_Injection
<1>8. \A k \in N : \E q \in S : f[q] = k
  BY <1>7 DEF Surjection
<1>9. QED BY <1>1, <1>2, <1>3, <1>8

\* obsq_sortcmp puts the partners of a package in an order.
LEMMA PartnersOrdered ==
  ASSUME NEW w, IsTransaction(w), NEW p
  PROVE  LET S == Partners(w, p)
         IN  /\ IsFiniteSet(S) /\ S \subseteq PackagesOf(w)
             /\ OrdersAll({x \in S \X S : PartnerBefore(w, p, x[1], x[2])}, S)
<1> DEFINE P == PackagesOf(w)
           S == Partners(w, p)
           R == {x \in S \X S : PartnerBefore(w, p, x[1], x[2])}
<1>1. S \subseteq P
  BY DEF Partners
<1>2. P = 1..Len(w.name) /\ Len(w.name) \in Nat /\ \A q \in P : w.name[q] \in Nat /\ w.evr[q] \in Nat /\ q \in Nat
  BY DEF IsTransaction, PackagesOf
<1>3. IsFiniteSet(S)
  <2>1. IsFiniteSet(P)
    <3> HIDE DEF P
    <3>1. IsFiniteSet(1..Len(w.name))
      BY <1>2, FS_Interval
    <3>2. QED BY <1>2, <3>1
  <2> HIDE DEF S, P
  <2>2. QED BY <1>1, <2>1, FS_Subset
<1>4. \A x, y \in S : <<x, y>> \in R <=> PartnerBefore(w, p, x, y)
  OBVIOUS
<1> HIDE DEF P, S, R
<1>5. \A x \in S : w.name[x] \in Nat /\ w.evr[x] \in Nat /\ x \in Nat
  BY <1>1, <1>2
<1>6. \A x \in S : <<x, x>> \notin R
  BY <1>4, <1>5 DEF PartnerBefore
<1>7. \A x, y \in S : x = y \/ <<x, y>> \in R \/ <<y, x>> \in R
  <2>1. SUFFICES ASSUME NEW x \in S, NEW y \in S, x # y
                 PROVE  PartnerBefore(w, p, x, y) \/ PartnerBefore(w, p, y, x)
    BY <1>4
  <2>2. /\ w.name[x] \in Nat /\ w.evr[x] \in Nat /\ x \in Nat
        /\ w.name[y] \in Nat /\ w.evr[y] \in Nat /\ y \in Nat
    BY <1>5
  <2>3. CASE w.name[x] # w.name[y]
    BY <2>2, <2>3 DEF PartnerBefore
  <2>4. CASE w.name[x] = w.name[y]
    BY <2>1, <2>2, <2>4 DEF PartnerBefore
  <2>5. QED BY <2>3, <2>4
<1>8. ASSUME NEW x \in S, NEW y \in S, NEW z \in S, <<x, y>> \in R, <<y, z>> \in R
      PROVE  <<x, z>> \in R
  <2>1. PartnerBefore(w, p, x, y) /\ PartnerBefore(w, p, y, z)
    BY <1>4, <1>8
  <2>2. PartnerBefore(w, p, x, z)
    BY <1>5, <2>1 DEF PartnerBefore
  <2>3. QED BY <1>4, <2>2
<1>9. OrdersAll(R, S)
  BY <1>6, <1>7, <1>8 DEF OrdersAll
<1>10. QED BY <1>1, <1>3, <1>9 DEF P, S, R

\* transaction_all_obs_pkgs lists all partners, each once.
LEMMA AllPartners ==
  ASSUME NEW w, IsTransaction(w), NEW p
  PROVE  LET all == transaction_all_obs_pkgs(w, p)
         IN  /\ all \in Seq(PackagesOf(w)) /\ Distinct(all) /\ Range(all) = Partners(w, p)
             /\ Partners(w, p) \subseteq PackagesOf(w) /\ IsFiniteSet(Partners(w, p))
<1> DEFINE S == Partners(w, p)
           m == Cardinality(S)
           R == {x \in S \X S : PartnerBefore(w, p, x[1], x[2])}
           rank(q) == Cardinality({r \in S : PartnerBefore(w, p, r, q)})
           at(k) == CHOOSE q \in S : rank(q) = k - 1
           all == [k \in 1..m |-> at(k)]
<1>1. transaction_all_obs_pkgs(w, p) = all
  BY DEF transaction_all_obs_pkgs
<1>2. IsFiniteSet(S) /\ S \subseteq PackagesOf(w) /\ OrdersAll(R, S)
  BY PartnersOrdered
<1>3. \A q \in S : rank(q) = Cardinality(Below(R, S, q))
  <2>1. ASSUME NEW q \in S
        PROVE  {r \in S : PartnerBefore(w, p, r, q)} = Below(R, S, q)
    BY DEF Below
  <2>2. QED BY <2>1
<1> HIDE DEF R, S, rank
<1>4. /\ m \in Nat /\ \A q \in S : rank(q) \in 0..(m - 1)
      /\ \A q, r \in S : rank(q) = rank(r) => q = r
      /\ \A k \in 0..(m - 1) : \E q \in S : rank(q) = k
  BY <1>2, <1>3, Ranked
<1>5. \A k \in 1..m : at(k) \in S /\ rank(at(k)) = k - 1
  <2>1. TAKE k \in 1..m
  <2>2. k - 1 \in 0..(m - 1)
    BY <1>4
  <2>3. \E q \in S : rank(q) = k - 1
    BY <1>4, <2>2
  <2>4. QED BY <2>3
<1> HIDE DEF at, m
<1>6. DOMAIN all = 1..m /\ \A k \in 1..m : all[k] = at(k) /\ all[k] \in S
  BY <1>5
<1>7. all \in Seq(PackagesOf(w))
  <2>1. all \in [1..m -> PackagesOf(w)]
    BY <1>2, <1>5
  <2> HIDE DEF all
  <2>2. QED BY <1>4, <2>1
<1> HIDE DEF all
<1>8. Distinct(all)
  <2>1. SUFFICES ASSUME NEW j \in 1..m, NEW k \in 1..m, all[j] = all[k]
                 PROVE  j = k
    BY <1>6 DEF Distinct
  <2>2. rank(at(j)) = j - 1 /\ rank(at(k)) = k - 1 /\ at(j) = at(k)
    BY <1>5, <1>6, <2>1
  <2>3. QED BY <1>4, <2>2
<1>9. Range(all) = S
  <2>1. Range(all) \subseteq S
    BY <1>6 DEF Range
  <2>2. ASSUME NEW q \in S
        PROVE  q \in Range(all)
    <3>1. rank(q) \in 0..(m - 1)
      BY <1>4
    <3>2. rank(q) + 1 \in 1..m /\ (rank(q) + 1) - 1 = rank(q)
      BY <1>4, <3>1
    <3>3. at(rank(q) + 1) \in S /\ rank(at(rank(q) + 1)) = rank(q)
      BY <1>5, <3>2
    <3>4. at(rank(q) + 1) = q
      BY <1>4, <3>3
    <3>5. QED BY <1>6, <3>2, <3>4 DEF Range
  <2>3. QED BY <2>1, <2>2
<1>10. QED BY <1>1, <1>2, <1>7, <1>8, <1>9 DEF S

----------------------------------------------------------------------------
(* The order with the packages that are replaced.                          *)

\* What replaces and what is replaced.
LEMMA ReplacesFacts ==
  ASSUME NEW w, IsTransaction(w), NEW e \in TransactionInfo(w)
  PROVE  /\ e = <<e[1], e[2]>> /\ e[1] \in PackagesOf(w) /\ e[2] \in PackagesOf(w)
         /\ e[1] \in TransactsMap(w) /\ e[1] \notin w.old
         /\ e[2] \in TransactsMap(w) /\ e[2] \in w.old
         /\ IsObsoleted(w, e[2]) /\ ~IsObsoleted(w, e[1])
<1>1. e \in PackagesOf(w) \X (TransactsMap(w) \cap w.old) /\ w.old \subseteq PackagesOf(w)
  BY DEF IsTransaction
<1>2. e = <<e[1], e[2]>> /\ e[1] \in PackagesOf(w) /\ e[2] \in TransactsMap(w) \cap w.old
  BY <1>1
<1>3. PICK p \in TransactsMap(w) \ w.old :
        e \in {p} \X (SameName(w, p) \cup (IF p \in w.noobs THEN {} ELSE w.obsoletes[p]))
  BY DEF TransactionInfo
<1>4. e[1] = p
  BY <1>3
<1>5. e[1] \in Partners(w, e[2])
  BY <1>2 DEF Partners
<1>6. QED BY <1>1, <1>2, <1>3, <1>4, <1>5 DEF IsObsoleted

LEMMA ReplacedFacts ==
  ASSUME NEW w, IsTransaction(w), NEW p \in PackagesOf(w)
  PROVE  /\ Replaced(w, p) \in Seq(PackagesOf(w)) /\ Distinct(Replaced(w, p))
         /\ \A q : q \in Range(Replaced(w, p)) <=> <<p, q>> \in TransactionInfo(w)
<1>1. CASE IsNew(w, p)
  <2>1. Replaced(w, p) = transaction_all_obs_pkgs(w, p) /\ p \notin w.old
    BY <1>1 DEF Replaced, IsNew
  <2>2. /\ Replaced(w, p) \in Seq(PackagesOf(w)) /\ Distinct(Replaced(w, p))
        /\ Range(Replaced(w, p)) = Partners(w, p)
    BY <2>1, AllPartners
  <2>3. Partners(w, p) = {q \in PackagesOf(w) : <<p, q>> \in TransactionInfo(w)}
    BY <2>1 DEF Partners
  <2>4. \A q : <<p, q>> \in TransactionInfo(w) => q \in PackagesOf(w)
    BY ReplacesFacts
  <2>5. QED BY <2>2, <2>3, <2>4
<1>2. CASE ~IsNew(w, p)
  <2>1. Replaced(w, p) = <<>> /\ p \in w.old
    BY <1>2 DEF Replaced, IsNew
  <2>2. <<>> \in Seq(PackagesOf(w)) /\ Distinct(<<>>) /\ Range(<<>>) = {}
    BY EmptyRange DEF Distinct
  <2>3. \A q : <<p, q>> \notin TransactionInfo(w)
    BY <2>1, ReplacesFacts
  <2>4. QED BY <2>1, <2>2, <2>3
<1>3. QED BY <1>1, <1>2

\* The steps s are the active ones.
ActiveOnes(w, s) ==
  /\ s \in Seq(PackagesOf(w)) /\ Distinct(s)
  /\ Range(s) = {p \in TransactsMap(w) : ~IsObsoleted(w, p)}

\* A block is an active step and what it is the first to replace.
LEMMA BlockFacts ==
  ASSUME NEW w, IsTransaction(w), NEW s, ActiveOnes(w, s), NEW k \in DOMAIN s
  PROVE  LET b == BlockOf(w, s, k)
         IN  /\ s[k] \in PackagesOf(w) /\ s[k] \in TransactsMap(w) /\ ~IsObsoleted(w, s[k])
             /\ b \in Seq(PackagesOf(w)) /\ Len(b) \in Nat /\ Len(b) > 0 /\ b[1] = s[k]
             /\ \A i, j \in 2..Len(b) : b[i] = b[j] => i = j
             /\ \A i \in 2..Len(b) : <<s[k], b[i]>> \in TransactionInfo(w) /\ b[i] \notin ReplacedBefore(w, s, k)
             /\ \A q : <<s[k], q>> \in TransactionInfo(w) /\ q \notin ReplacedBefore(w, s, k) =>
                  \E i \in 2..Len(b) : b[i] = q
<1> DEFINE b == BlockOf(w, s, k)
           r == Replaced(w, s[k])
           S == Range(r) \ ReplacedBefore(w, s, k)
           o == Only(r, S)
<1>1. s[k] \in PackagesOf(w) /\ s[k] \in TransactsMap(w) /\ ~IsObsoleted(w, s[k])
  BY DEF ActiveOnes, Range
<1>2. b = <<s[k]>> \o o
  BY <1>1 DEF BlockOf
<1>3. /\ r \in Seq(PackagesOf(w)) /\ \A i, j \in DOMAIN r : r[i] = r[j] => i = j
      /\ \A q : q \in Range(r) <=> <<s[k], q>> \in TransactionInfo(w)
  BY <1>1, ReplacedFacts DEF Distinct
<1> HIDE DEF r, b, S
<1>4. /\ o \in Seq(PackagesOf(w)) /\ Range(o) = Range(r) \cap S
      /\ \A i, j \in DOMAIN o : o[i] = o[j] => i = j
  <2>1. Distinct(r)
    BY <1>3 DEF Distinct
  <2> HIDE DEF o
  <2>2. o \in Seq(PackagesOf(w)) /\ Distinct(o) /\ Range(o) = Range(r) \cap S
    BY <1>3, <2>1, Picks DEF o
  <2>3. QED BY <2>2 DEF Distinct
<1>5. \A q : q \in Range(o) <=> <<s[k], q>> \in TransactionInfo(w) /\ q \notin ReplacedBefore(w, s, k)
  BY <1>3, <1>4 DEF S
<1> HIDE DEF o
<1>6. /\ Len(o) \in Nat /\ DOMAIN o = 1..Len(o)
      /\ b \in Seq(PackagesOf(w)) /\ Len(b) = Len(o) + 1 /\ b[1] = s[k]
      /\ \A i \in 2..Len(b) : i - 1 \in 1..Len(o) /\ b[i] = o[i - 1]
  <2> DEFINE a == <<s[k]>>
  <2>1. a \in Seq(PackagesOf(w)) /\ Len(a) = 1 /\ a[1] = s[k]
    BY <1>1
  <2> HIDE DEF a
  <2>2. b = a \o o
    BY <1>2 DEF a
  <2>3. Len(o) \in Nat /\ DOMAIN o = 1..Len(o)
    BY <1>4
  <2>4. /\ a \o o \in Seq(PackagesOf(w)) /\ Len(a \o o) = 1 + Len(o)
        /\ \A i \in 1..(1 + Len(o)) : (a \o o)[i] = IF i <= 1 THEN a[i] ELSE o[i - 1]
    <3> DEFINE X == PackagesOf(w)
    <3>1. a \in Seq(X) /\ o \in Seq(X)
      BY <1>4, <2>1
    <3> HIDE DEF X
    <3>2. /\ a \o o \in Seq(X) /\ Len(a \o o) = Len(a) + Len(o)
          /\ \A i \in 1..(Len(a) + Len(o)) : (a \o o)[i] = IF i <= Len(a) THEN a[i] ELSE o[i - Len(a)]
      BY <3>1, ConcatProperties
    <3>3. QED BY <2>1, <3>2 DEF X
  <2>5. 1 \in 1..(1 + Len(o)) /\ \A i \in 2..(Len(o) + 1) : i \in 1..(1 + Len(o)) /\ ~(i <= 1) /\ i - 1 \in 1..Len(o)
    BY <2>3
  <2>6. QED BY <2>1, <2>2, <2>3, <2>4, <2>5
<1>7. \A i, j \in 2..Len(b) : b[i] = b[j] => i = j
  <2>1. SUFFICES ASSUME NEW i \in 2..Len(b), NEW j \in 2..Len(b), b[i] = b[j]
                 PROVE  i = j
    OBVIOUS
  <2>2. i - 1 = j - 1
    BY <1>4, <1>6, <2>1
  <2>3. QED BY <1>6, <2>2
<1>8. \A i \in 2..Len(b) : b[i] \in Range(o)
  BY <1>6 DEF Range
<1>9. \A q : q \in Range(o) => \E i \in 2..Len(b) : b[i] = q
  <2>1. SUFFICES ASSUME NEW q, q \in Range(o)
                 PROVE  \E i \in 2..Len(b) : b[i] = q
    OBVIOUS
  <2>2. PICK j \in 1..Len(o) : o[j] = q
    BY <1>6, <2>1 DEF Range
  <2>3. j + 1 \in 2..Len(b) /\ (j + 1) - 1 = j
    BY <1>6
  <2>4. b[j + 1] = o[(j + 1) - 1]
    BY <1>6, <2>3
  <2>5. QED BY <2>2, <2>3, <2>4
<1>10. Len(b) \in Nat /\ Len(b) > 0
  BY <1>6
<1>11. QED BY <1>1, <1>5, <1>6, <1>7, <1>8, <1>9, <1>10 DEF b

\* The place of the first element of block k, and of the i-th, in the order z.
InOrder(off, w, s, z) == Blocks(off, [k \in DOMAIN s |-> BlockOf(w, s, k)], z)

LEMMA OrderBlocks ==
  ASSUME NEW w, IsTransaction(w), NEW s, ActiveOnes(w, s), NEW z, z = add_obsoleted(w, s)
  PROVE  z \in Seq(PackagesOf(w)) /\ \E off : InOrder(off, w, s, z)
<1> DEFINE ss == [k \in DOMAIN s |-> BlockOf(w, s, k)]
<1>1. z = FlattenSeq(ss)
  BY InBlocks
<1>2. ss \in Seq(Seq(PackagesOf(w)))
  <2>1. ss = [k \in DOMAIN s |-> ss[k]] /\ \A k \in DOMAIN s : ss[k] \in Seq(PackagesOf(w))
    BY BlockFacts
  <2>2. s \in Seq(PackagesOf(w))
    BY DEF ActiveOnes
  <2> HIDE DEF ss
  <2>3. QED BY <2>1, <2>2, MappedTyped
<1> HIDE DEF ss
<1>3. z \in Seq(PackagesOf(w))
  BY <1>1, <1>2, FlattenTyped
<1>4. PICK off : Blocks(off, ss, z)
  BY <1>1, <1>2, FlatBlocks
<1>5. InOrder(off, w, s, z)
  BY <1>4 DEF InOrder, ss
<1>6. QED BY <1>3, <1>5

\* The places of the order in terms of the blocks.
Placed(w, s, z, off) ==
  /\ Len(s) \in Nat /\ DOMAIN s = 1..Len(s) /\ Len(z) \in Nat /\ DOMAIN z = 1..Len(z)
  /\ \A k \in 0..Len(s) : off[k] \in Nat
  /\ \A k \in 1..Len(s) : /\ k - 1 \in 0..Len(s) /\ k \in 0..Len(s)
                          /\ off[k] = off[k - 1] + Len(BlockOf(w, s, k)) /\ off[k] <= Len(z)
                          /\ Len(BlockOf(w, s, k)) \in Nat /\ Len(BlockOf(w, s, k)) > 0
  /\ \A k, l \in 0..Len(s) : k <= l => off[k] <= off[l]
  /\ \A k \in 1..Len(s) : \A j \in 1..Len(BlockOf(w, s, k)) :
       /\ off[k - 1] + j \in 1..Len(z) /\ z[off[k - 1] + j] = BlockOf(w, s, k)[j]
  /\ \A a \in 1..Len(z) : \E k \in 1..Len(s) : \E j \in 1..Len(BlockOf(w, s, k)) :
       a = off[k - 1] + j

LEMMA PlaceFacts ==
  ASSUME NEW w, IsTransaction(w), NEW s, ActiveOnes(w, s), NEW z, z \in Seq(PackagesOf(w)),
         NEW off, InOrder(off, w, s, z)
  PROVE  Placed(w, s, z, off)
<1> DEFINE n == Len(s)
           ss == [k \in DOMAIN s |-> BlockOf(w, s, k)]
           L(k) == Len(BlockOf(w, s, k))
<1>1. n \in Nat /\ DOMAIN s = 1..n /\ Len(z) \in Nat /\ DOMAIN z = 1..Len(z)
  BY DEF ActiveOnes
<1>2. \A k \in 1..n : L(k) \in Nat /\ L(k) > 0 /\ BlockOf(w, s, k) \in Seq(PackagesOf(w))
  BY <1>1, BlockFacts
<1>3. DOMAIN ss = 1..n /\ (\A k \in 1..n : ss[k] = BlockOf(w, s, k)) /\ Len(ss) = n
  <2>1. ss = [k \in DOMAIN s |-> ss[k]] /\ \A k \in DOMAIN s : ss[k] \in Seq(PackagesOf(w))
    BY <1>1, <1>2
  <2>2. s \in Seq(PackagesOf(w))
    BY DEF ActiveOnes
  <2>3. \A k \in 1..n : ss[k] = BlockOf(w, s, k)
    BY <1>1
  <2> HIDE DEF ss
  <2>4. DOMAIN ss = DOMAIN s /\ Len(ss) = Len(s)
    BY <2>1, <2>2, MappedTyped
  <2>5. QED BY <1>1, <2>3, <2>4
<1>4. Blocks(off, ss, z)
  BY DEF InOrder
<1> HIDE DEF ss, n, L
<1>5. /\ off \in [0..n -> Nat] /\ Len(z) = off[n]
      /\ \A k \in 1..n : off[k] = off[k - 1] + L(k)
      /\ \A k, l \in 0..n : k <= l => off[k] <= off[l]
      /\ \A k \in 1..n : \A j \in 1..L(k) : z[off[k - 1] + j] = BlockOf(w, s, k)[j]
      /\ \A a \in 1..Len(z) : \E k \in 1..n : \E j \in 1..L(k) : a = off[k - 1] + j
  BY <1>3, <1>4 DEF Blocks, L
<1>6. \A k \in 0..n : off[k] \in Nat
  BY <1>5
<1>7. \A k \in 1..n : k - 1 \in 0..n /\ k \in 0..n /\ k <= n /\ n \in 0..n
  BY <1>1
<1>8. \A k \in 1..n : off[k] <= Len(z)
  BY <1>5, <1>7
<1>9. ASSUME NEW k \in 1..n, NEW j \in 1..L(k)
      PROVE  off[k - 1] + j \in 1..Len(z)
  <2>1. off[k - 1] \in Nat /\ off[k] = off[k - 1] + L(k) /\ off[k] <= Len(z) /\ L(k) \in Nat
    BY <1>2, <1>5, <1>6, <1>7, <1>8
  <2>2. QED BY <1>1, <2>1
<1>10. QED BY <1>1, <1>2, <1>5, <1>6, <1>7, <1>8, <1>9 DEF n, L, Placed

\* The finished order holds every step once.
LEMMA OrderComplete ==
  ASSUME NEW w, IsTransaction(w), NEW s, ActiveOnes(w, s), NEW z, z = add_obsoleted(w, s)
  PROVE  z \in Seq(PackagesOf(w)) /\ Distinct(z) /\ Range(z) = TransactsMap(w)
<1> DEFINE n == Len(s)
           B(k) == BlockOf(w, s, k)
<1>1. z \in Seq(PackagesOf(w))
  BY OrderBlocks
<1>2. PICK off : InOrder(off, w, s, z)
  BY OrderBlocks
<1>3. /\ n \in Nat /\ DOMAIN s = 1..n /\ Len(z) \in Nat /\ DOMAIN z = 1..Len(z)
      /\ \A k \in 1..n : Len(B(k)) \in Nat /\ Len(B(k)) > 0
      /\ \A k \in 1..n : \A j \in 1..Len(B(k)) : off[k - 1] + j \in 1..Len(z) /\ z[off[k - 1] + j] = B(k)[j]
      /\ \A a \in 1..Len(z) : \E k \in 1..n : \E j \in 1..Len(B(k)) : a = off[k - 1] + j
  <2>1. Placed(w, s, z, off)
    BY <1>1, <1>2, PlaceFacts
  <2>2. QED BY <2>1 DEF Placed
<1>4. \A k \in 1..n :
        /\ s[k] \in TransactsMap(w) /\ ~IsObsoleted(w, s[k]) /\ B(k)[1] = s[k]
        /\ \A i, j \in 2..Len(B(k)) : B(k)[i] = B(k)[j] => i = j
        /\ \A i \in 2..Len(B(k)) : <<s[k], B(k)[i]>> \in TransactionInfo(w) /\ B(k)[i] \notin ReplacedBefore(w, s, k)
        /\ \A q : <<s[k], q>> \in TransactionInfo(w) /\ q \notin ReplacedBefore(w, s, k) =>
             \E i \in 2..Len(B(k)) : B(k)[i] = q
  BY <1>3, BlockFacts
<1>5. \A k, l \in 1..n : s[k] = s[l] => k = l
  BY <1>3 DEF ActiveOnes, Distinct
<1>6. \A k \in 1..n : \A q : q \in ReplacedBefore(w, s, k) <=>
        \E l \in 1..(k - 1) : <<s[l], q>> \in TransactionInfo(w)
  <2>1. TAKE k \in 1..n
  <2>2. \A l \in 1..(k - 1) : s[l] \in PackagesOf(w)
    BY <1>3 DEF ActiveOnes, Range
  <2>3. \A l \in 1..(k - 1) : \A q : q \in Range(Replaced(w, s[l])) <=> <<s[l], q>> \in TransactionInfo(w)
    BY <2>2, ReplacedFacts
  <2>4. QED BY <2>3 DEF ReplacedBefore
<1> HIDE DEF B, n
<1>7. \A k \in 1..n : \A j \in 1..Len(B(k)) : j = 1 \/ j \in 2..Len(B(k))
  BY <1>3
<1>8. \A k \in 1..n : \A j \in 2..Len(B(k)) :
        /\ IsObsoleted(w, B(k)[j]) /\ B(k)[j] \in TransactsMap(w)
        /\ <<s[k], B(k)[j]>> \in TransactionInfo(w)
  <2>1. TAKE k \in 1..n
  <2>2. TAKE j \in 2..Len(B(k))
  <2>3. <<s[k], B(k)[j]>> \in TransactionInfo(w)
    BY <1>4
  <2>4. QED BY <2>3, ReplacesFacts
\* Two places with the same package are one.
<1>9. ASSUME NEW k \in 1..n, NEW j \in 1..Len(B(k)), NEW l \in 1..n, NEW i \in 1..Len(B(l)), B(k)[j] = B(l)[i]
      PROVE  k = l /\ j = i
  <2>1. CASE j = 1 /\ i = 1
    BY <1>4, <1>5, <1>9, <2>1
  <2>2. CASE j = 1 /\ i \in 2..Len(B(l))
    <3>1. IsObsoleted(w, B(l)[i])
      BY <1>8, <2>2
    <3>2. ~IsObsoleted(w, B(k)[j])
      BY <1>4, <2>2
    <3>3. QED BY <1>9, <3>1, <3>2
  <2>3. CASE j \in 2..Len(B(k)) /\ i = 1
    <3>1. IsObsoleted(w, B(k)[j])
      BY <1>8, <2>3
    <3>2. ~IsObsoleted(w, B(l)[i])
      BY <1>4, <2>3
    <3>3. QED BY <1>9, <3>1, <3>2
  <2>4. CASE j \in 2..Len(B(k)) /\ i \in 2..Len(B(l))
    <3> DEFINE q == B(k)[j]
    <3>1. /\ <<s[k], q>> \in TransactionInfo(w) /\ q \notin ReplacedBefore(w, s, k)
          /\ <<s[l], q>> \in TransactionInfo(w) /\ q \notin ReplacedBefore(w, s, l)
      BY <1>4, <1>9, <2>4
    <3> HIDE DEF q
    <3>2. ~(l \in 1..(k - 1)) /\ ~(k \in 1..(l - 1))
      BY <1>6, <3>1
    <3>3. k = l
      BY <1>3, <3>2
    <3>4. QED BY <1>4, <1>9, <2>4, <3>3
  <2>5. QED BY <1>7, <2>1, <2>2, <2>3, <2>4
<1>10. Distinct(z)
  <2>1. SUFFICES ASSUME NEW a \in 1..Len(z), NEW b \in 1..Len(z), z[a] = z[b]
                 PROVE  a = b
    BY <1>3 DEF Distinct
  <2>2. PICK k \in 1..n : \E j \in 1..Len(B(k)) : a = off[k - 1] + j
    BY <1>3
  <2>3. PICK j \in 1..Len(B(k)) : a = off[k - 1] + j
    BY <2>2
  <2>4. PICK l \in 1..n : \E i \in 1..Len(B(l)) : b = off[l - 1] + i
    BY <1>3
  <2>5. PICK i \in 1..Len(B(l)) : b = off[l - 1] + i
    BY <2>4
  <2>6. B(k)[j] = B(l)[i]
    BY <1>3, <2>1, <2>3, <2>5
  <2>7. k = l /\ j = i
    BY <1>9, <2>6
  <2>8. QED BY <2>3, <2>5, <2>7
<1>11. ASSUME NEW q, q \in Range(z)
       PROVE  q \in TransactsMap(w)
  <2>1. PICK a \in 1..Len(z) : z[a] = q
    BY <1>3, <1>11 DEF Range
  <2>2. PICK k \in 1..n : \E j \in 1..Len(B(k)) : a = off[k - 1] + j
    BY <1>3
  <2>3. PICK j \in 1..Len(B(k)) : a = off[k - 1] + j
    BY <2>2
  <2>4. q = B(k)[j]
    BY <1>3, <2>1, <2>3
  <2>5. QED BY <1>4, <1>7, <1>8, <2>4
\* A place of the order.
<1>12. ASSUME NEW k \in 1..n, NEW j \in 1..Len(B(k))
       PROVE  B(k)[j] \in Range(z)
  <2>1. off[k - 1] + j \in 1..Len(z) /\ z[off[k - 1] + j] = B(k)[j]
    BY <1>3
  <2>2. QED BY <1>3, <2>1 DEF Range
<1>13. ASSUME NEW q \in TransactsMap(w)
       PROVE  q \in Range(z)
  <2>1. CASE ~IsObsoleted(w, q)
    <3>1. PICK k \in 1..n : s[k] = q
      BY <1>3, <2>1 DEF ActiveOnes, Range
    <3>2. 1 \in 1..Len(B(k)) /\ B(k)[1] = q
      BY <1>3, <1>4, <3>1
    <3>3. QED BY <1>12, <3>2
  <2>2. CASE IsObsoleted(w, q)
    <3>1. PICK p : <<p, q>> \in TransactionInfo(w)
      BY <2>2 DEF IsObsoleted, Partners
    <3>2. p \in TransactsMap(w) /\ ~IsObsoleted(w, p)
      BY <3>1, ReplacesFacts
    <3> DEFINE K == {k \in 1..n : <<s[k], q>> \in TransactionInfo(w)}
               k == Min(K)
    <3>3. K # {} /\ K \subseteq Nat
      <4>1. p \in Range(s)
        BY <3>2 DEF ActiveOnes
      <4>2. PICK c \in 1..n : s[c] = p
        BY <1>3, <4>1 DEF Range
      <4>3. c \in K
        BY <3>1, <4>2
      <4>4. \A l \in K : l \in Nat
        <5>1. n \in Nat
          BY <1>3
        <5>2. QED BY <5>1
      <4> HIDE DEF K
      <4>5. QED BY <4>3, <4>4
    <3>4. k \in K /\ \A l \in K : k <= l
      <4> HIDE DEF K
      <4>1. QED BY <3>3, MinIsLeast
    <3> HIDE DEF k
    <3>5. k \in 1..n /\ <<s[k], q>> \in TransactionInfo(w)
      BY <3>4
    <3>6. \A l \in 1..(k - 1) : l \in 1..n /\ ~(k <= l)
      BY <1>3, <3>5
    <3>7. q \notin ReplacedBefore(w, s, k)
      BY <1>6, <3>4, <3>5, <3>6
    <3>8. PICK i \in 2..Len(B(k)) : B(k)[i] = q
      BY <1>4, <3>5, <3>7
    <3>9. i \in 1..Len(B(k))
      BY <1>3, <3>5
    <3>10. QED BY <1>12, <3>5, <3>8, <3>9
  <2>3. QED BY <2>1, <2>2
<1>14. Range(z) = TransactsMap(w)
  BY <1>11, <1>13
<1>15. QED BY <1>1, <1>10, <1>14

\* The active steps keep their order.
LEMMA OrderKeepsPlaces ==
  ASSUME NEW w, IsTransaction(w), NEW s, ActiveOnes(w, s), NEW z, z = add_obsoleted(w, s),
         NEW a \in DOMAIN s, NEW b \in 1..(a - 1)
  PROVE  \E x, y \in DOMAIN z : y < x /\ z[x] = s[a] /\ z[y] = s[b]
<1> DEFINE n == Len(s)
           B(k) == BlockOf(w, s, k)
<1>1. z \in Seq(PackagesOf(w))
  BY OrderBlocks
<1>2. PICK off : InOrder(off, w, s, z)
  BY OrderBlocks
<1>3. /\ n \in Nat /\ DOMAIN s = 1..n /\ DOMAIN z = 1..Len(z)
      /\ \A k \in 0..n : off[k] \in Nat
      /\ \A k, l \in 0..n : k <= l => off[k] <= off[l]
      /\ \A k \in 1..n : off[k] = off[k - 1] + Len(B(k)) /\ Len(B(k)) \in Nat /\ Len(B(k)) > 0
      /\ \A k \in 1..n : \A j \in 1..Len(B(k)) : off[k - 1] + j \in 1..Len(z) /\ z[off[k - 1] + j] = B(k)[j]
  <2>1. Placed(w, s, z, off)
    BY <1>1, <1>2, PlaceFacts
  <2>2. QED BY <2>1 DEF Placed
<1>4. a \in 1..n /\ b \in 1..n
  BY <1>3
<1>5. B(a)[1] = s[a] /\ B(b)[1] = s[b]
  BY <1>3, <1>4, BlockFacts
<1> HIDE DEF B, n
<1>6. 1 \in 1..Len(B(a)) /\ 1 \in 1..Len(B(b))
  BY <1>3, <1>4
<1>7. /\ off[a - 1] + 1 \in DOMAIN z /\ z[off[a - 1] + 1] = s[a]
      /\ off[b - 1] + 1 \in DOMAIN z /\ z[off[b - 1] + 1] = s[b]
  BY <1>3, <1>4, <1>5, <1>6
<1>8. b \in 0..n /\ b - 1 \in 0..n /\ a - 1 \in 0..n /\ b <= a - 1
  BY <1>3, <1>4
<1>9. off[b] <= off[a - 1] /\ off[b] = off[b - 1] + Len(B(b)) /\ Len(B(b)) \in Nat /\ Len(B(b)) > 0
  BY <1>3, <1>4, <1>8
<1>10. off[b] \in Nat /\ off[b - 1] \in Nat /\ off[a - 1] \in Nat
  BY <1>3, <1>8
<1>11. off[b - 1] + 1 < off[a - 1] + 1
  BY <1>9, <1>10
<1>12. QED BY <1>7, <1>11

\* A replaced package follows the first step that replaces it, with others that this
\* step replaces.
LEMMA OrderFollows ==
  ASSUME NEW w, IsTransaction(w), NEW s, ActiveOnes(w, s), NEW z, z = add_obsoleted(w, s),
         NEW x \in DOMAIN z, IsObsoleted(w, z[x])
  PROVE  \E y \in 1..(x - 1) :
           /\ z[y] \in Partners(w, z[x])
           /\ \A m \in (y + 1)..(x - 1) : z[m] \in Partners(w, z[y])
           /\ \A m \in 1..(y - 1) : z[m] \notin Partners(w, z[x])
<1> DEFINE n == Len(s)
           B(k) == BlockOf(w, s, k)
<1>1. z \in Seq(PackagesOf(w))
  BY OrderBlocks
<1>2. PICK off : InOrder(off, w, s, z)
  BY OrderBlocks
<1>3. /\ n \in Nat /\ DOMAIN s = 1..n /\ DOMAIN z = 1..Len(z) /\ Len(z) \in Nat
      /\ \A k \in 0..n : off[k] \in Nat
      /\ \A k, l \in 0..n : k <= l => off[k] <= off[l]
      /\ \A k \in 1..n : off[k] = off[k - 1] + Len(B(k)) /\ Len(B(k)) \in Nat /\ Len(B(k)) > 0
      /\ \A k \in 1..n : \A j \in 1..Len(B(k)) : off[k - 1] + j \in 1..Len(z) /\ z[off[k - 1] + j] = B(k)[j]
      /\ \A a \in 1..Len(z) : \E k \in 1..n : \E j \in 1..Len(B(k)) : a = off[k - 1] + j
  <2>1. Placed(w, s, z, off)
    BY <1>1, <1>2, PlaceFacts
  <2>2. QED BY <2>1 DEF Placed
<1>4. \A k \in 1..n :
        /\ s[k] \in PackagesOf(w) /\ ~IsObsoleted(w, s[k]) /\ B(k)[1] = s[k]
        /\ \A i \in 2..Len(B(k)) : <<s[k], B(k)[i]>> \in TransactionInfo(w) /\ B(k)[i] \notin ReplacedBefore(w, s, k)
  BY <1>3, BlockFacts
<1>5. ASSUME NEW k \in 1..n, NEW l \in 1..(k - 1), NEW q, <<s[l], q>> \in TransactionInfo(w)
      PROVE  q \in ReplacedBefore(w, s, k)
  <2>1. s[l] \in PackagesOf(w)
    BY <1>3, <1>4
  <2>2. q \in Range(Replaced(w, s[l]))
    BY <1>5, <2>1, ReplacedFacts
  <2>3. QED BY <2>2 DEF ReplacedBefore
<1> HIDE DEF B, n
<1>6. PICK k \in 1..n : \E j \in 1..Len(B(k)) : x = off[k - 1] + j
  BY <1>3
<1>7. PICK j \in 1..Len(B(k)) : x = off[k - 1] + j
  BY <1>6
<1>8. z[x] = B(k)[j] /\ k - 1 \in 0..n /\ off[k - 1] \in Nat /\ Len(B(k)) \in Nat
  <2>1. k - 1 \in 0..n
    BY <1>3
  <2>2. off[k - 1] \in Nat /\ Len(B(k)) \in Nat
    BY <1>3, <2>1
  <2>3. z[off[k - 1] + j] = B(k)[j]
    BY <1>3
  <2>4. QED BY <1>7, <2>1, <2>2, <2>3
<1>9. j \in 2..Len(B(k))
  <2>1. j # 1
    BY <1>4, <1>8
  <2>2. QED BY <1>8, <2>1
<1> DEFINE q == z[x]
           y == off[k - 1] + 1
<1>10. <<s[k], q>> \in TransactionInfo(w) /\ q \notin ReplacedBefore(w, s, k)
  BY <1>4, <1>8, <1>9
<1>11. q \in w.old /\ s[k] \notin w.old /\ s[k] \in PackagesOf(w)
  BY <1>10, ReplacesFacts
<1>12. z[y] = s[k]
  <2>1. 1 \in 1..Len(B(k))
    BY <1>8, <1>9
  <2>2. QED BY <1>3, <1>4, <2>1
<1>13. \A r : r \in Partners(w, q) => <<r, q>> \in TransactionInfo(w)
  BY <1>11 DEF Partners
<1>14. s[k] \in Partners(w, q)
  BY <1>10, <1>11 DEF Partners
<1>15. y \in 1..(x - 1)
  BY <1>7, <1>8, <1>9
<1> HIDE DEF q
<1>16. ASSUME NEW m \in (y + 1)..(x - 1)
       PROVE  z[m] \in Partners(w, z[y])
  <2> DEFINE i == m - off[k - 1]
  <2>1. i \in 2..Len(B(k)) /\ i \in 1..Len(B(k)) /\ m = off[k - 1] + i
    <3> DEFINE o == off[k - 1]
               b == Len(B(k))
    <3>1. o \in Nat /\ b \in Nat /\ j \in 2..b /\ m \in ((o + 1) + 1)..((o + j) - 1)
      BY <1>7, <1>8, <1>9
    <3> HIDE DEF o, b
    <3>2. m - o \in 2..b /\ m - o \in 1..b /\ m = o + (m - o)
      BY <3>1
    <3>3. QED BY <3>2 DEF o, b
  <2> HIDE DEF i
  <2>2. z[m] = B(k)[i]
    BY <1>3, <2>1
  <2>3. <<s[k], z[m]>> \in TransactionInfo(w)
    BY <1>4, <2>1, <2>2
  <2>4. z[m] \in PackagesOf(w)
    BY <2>3, ReplacesFacts
  <2>5. QED BY <1>11, <1>12, <2>3, <2>4 DEF Partners
<1>17. ASSUME NEW m \in 1..(y - 1)
       PROVE  z[m] \notin Partners(w, q)
  <2>1. SUFFICES ASSUME z[m] \in Partners(w, q)
                 PROVE  FALSE
    OBVIOUS
  <2>2. <<z[m], q>> \in TransactionInfo(w)
    BY <1>13, <2>1
  <2>3. ~IsObsoleted(w, z[m])
    BY <2>2, ReplacesFacts
  <2>4. m \in 1..Len(z) /\ m <= off[k - 1]
    <3> DEFINE o == off[k - 1]
               b == Len(z)
    <3>1. o \in Nat /\ b \in Nat /\ x \in 1..b /\ o + 1 \in 1..(x - 1) /\ m \in 1..((o + 1) - 1)
      BY <1>3, <1>8, <1>15
    <3> HIDE DEF o, b
    <3>2. m \in 1..b /\ m <= o
      BY <3>1
    <3>3. QED BY <3>2 DEF o, b
  <2>5. PICK l \in 1..n : \E i \in 1..Len(B(l)) : m = off[l - 1] + i
    BY <1>3, <2>4
  <2>6. PICK i \in 1..Len(B(l)) : m = off[l - 1] + i
    BY <2>5
  <2>7. z[m] = B(l)[i] /\ Len(B(l)) \in Nat
    BY <1>3, <2>6
  <2>8. i = 1
    <3>1. SUFFICES ASSUME i \in 2..Len(B(l))
                   PROVE  FALSE
      BY <2>7
    <3>2. <<s[l], B(l)[i]>> \in TransactionInfo(w)
      BY <1>4, <3>1
    <3>3. QED BY <2>3, <2>7, <3>2, ReplacesFacts
  <2>9. z[m] = s[l]
    BY <1>4, <2>7, <2>8
  <2>10. l \in 1..(k - 1)
    <3>1. SUFFICES ASSUME k <= l
                   PROVE  FALSE
      BY <1>3
    <3>2. l - 1 \in 0..n /\ k - 1 <= l - 1
      BY <1>3, <3>1
    <3>3. off[k - 1] <= off[l - 1] /\ off[l - 1] \in Nat
      BY <1>3, <1>8, <3>2
    <3>4. QED BY <1>8, <2>4, <2>6, <2>8, <3>3
  <2>11. q \in ReplacedBefore(w, s, k)
    BY <1>5, <2>2, <2>9, <2>10
  <2>12. QED BY <1>10, <2>11
<1>18. QED BY <1>12, <1>14, <1>15, <1>16, <1>17 DEF q

PlaceOf(z, p) == SelectInSeq(z, LAMBDA q : q = p)

LEMMA PlaceIs ==
  ASSUME NEW T, NEW z, z \in Seq(T), Distinct(z), NEW x \in DOMAIN z
  PROVE  PlaceOf(z, z[x]) = x
<1> DEFINE I == {i \in 1..Len(z) : z[i] = z[x]}
<1>1. DOMAIN z = 1..Len(z) /\ Len(z) \in Nat
  OBVIOUS
<1>2. I = {x}
  BY <1>1 DEF Distinct
<1>3. PlaceOf(z, z[x]) = IF I # {} THEN Min(I) ELSE 0
  BY DEF SelectInSeq, PlaceOf
<1>4. Min({x}) = x
  <2>1. {x} \subseteq Nat /\ {x} # {}
    BY <1>1
  <2> DEFINE X == {x}
  <2> HIDE DEF X
  <2>2. Min(X) \in X
    BY <2>1, MinIsLeast DEF X
  <2>3. QED BY <2>2 DEF X
<1>5. QED BY <1>2, <1>3, <1>4

\* A list of different elements is as long as they are many.
LEMMA DistinctCounts ==
  ASSUME NEW T, NEW z, z \in Seq(T), Distinct(z)
  PROVE  IsFiniteSet(Range(z)) /\ Cardinality(Range(z)) = Len(z)
<1> DEFINE m == Len(z)
           R == Range(z)
<1>1. m \in Nat /\ DOMAIN z = 1..m
  OBVIOUS
<1>2. z \in [1..m -> R]
  <2>1. z = [a \in 1..m |-> z[a]]
    BY <1>1
  <2>2. \A a \in 1..m : z[a] \in R
    BY <1>1 DEF Range
  <2> HIDE DEF m, R
  <2>3. QED BY <2>1, <2>2
<1>3. z \in Bijection(1..m, R)
  <2>1. z \in Injection(1..m, R)
    BY <1>1, <1>2 DEF Injection, IsInjective, Distinct
  <2>2. z \in Surjection(1..m, R)
    BY <1>1, <1>2 DEF Surjection, Range
  <2>3. QED BY <2>1, <2>2 DEF Bijection
<1>4. ExistsBijection(1..m, R)
  BY <1>3 DEF ExistsBijection
<1>5. IsFiniteSet(1..m) /\ Cardinality(1..m) = m
  <2> HIDE DEF m
  <2>1. IsFiniteSet(1..m) /\ Cardinality(1..m) = IF 1 > m THEN 0 ELSE m - 1 + 1
    BY <1>1, FS_Interval
  <2>2. QED BY <1>1, <2>1
<1>6. QED
  <2> HIDE DEF m, R
  <2>1. IsFiniteSet(R) /\ Cardinality(R) = Cardinality(1..m)
    BY <1>4, <1>5, FS_Bijection
  <2>2. QED BY <1>5, <2>1 DEF m, R

\* What is known of an order that has been made.
OrderOf(s) ==
  /\ ActiveOnes(world, s) /\ steps = add_obsoleted(world, s)
  /\ StepsRight(Len(tes), edges, tes, s)
  /\ \A i \in Elements : \E a \in DOMAIN s : s[a] = tes[i]

LEMMA OrderIsMade ==
  ASSUME OrderInv, phase \in {"done", "choose"}
  PROVE  /\ \E s : OrderOf(s)
         /\ steps \in Seq(PackagesOf(world)) /\ Distinct(steps) /\ Range(steps) = TransactsMap(world)
<1>1. PICK s : FinishedBy(s)
  BY DEF OrderInv, OrderMade
<1>2. /\ steps = add_obsoleted(world, s) /\ StepsRight(Len(tes), edges, tes, s)
      /\ HandledOf(Len(tes), tes, s) = 1..Len(tes)
  BY <1>1 DEF FinishedBy
<1>3. /\ Elements = 1..Len(tes) /\ DOMAIN tes = 1..Len(tes) /\ IsTransaction(world)
      /\ tes \in Seq(PackagesOf(world)) /\ tes = ActiveSteps(world)
  BY OrderFacts DEF OrderInv, GraphInv, ElementsSet
<1>4. Range(tes) = {p \in TransactsMap(world) : ~IsObsoleted(world, p)}
  BY <1>3, ActiveFacts
<1>5. \A i \in 1..Len(tes) : tes[i] \in Range(s)
  BY <1>2 DEF HandledOf
<1>6. s \in Seq(Range(tes)) /\ Distinct(s)
  BY <1>2 DEF StepsRight
<1>7. Range(tes) \subseteq PackagesOf(world)
  BY <1>3 DEF Range
<1>8. s \in Seq(PackagesOf(world)) /\ Range(s) \subseteq Range(tes)
  <2> DEFINE R == Range(tes)
             P == PackagesOf(world)
  <2>1. s \in Seq(R) /\ R \subseteq P
    BY <1>6, <1>7
  <2> HIDE DEF R, P
  <2>2. \A a \in DOMAIN s : s[a] \in R
    BY <2>1
  <2>3. s \in Seq(P)
    BY <2>1
  <2>4. QED BY <2>2, <2>3 DEF R, P, Range
<1>9. Range(s) = Range(tes)
  BY <1>3, <1>5, <1>8 DEF Range
<1>10. ActiveOnes(world, s)
  BY <1>4, <1>6, <1>8, <1>9 DEF ActiveOnes
<1>11. \A i \in Elements : \E a \in DOMAIN s : s[a] = tes[i]
  BY <1>3, <1>5 DEF Range
<1>12. OrderOf(s)
  BY <1>2, <1>10, <1>11 DEF OrderOf
<1>13. QED BY <1>2, <1>3, <1>10, <1>12, OrderComplete

\* In the finished order every element stands behind those it waits for.
LEMMA EdgesRespected ==
  ASSUME OrderInv, phase = "done", NEW i \in Elements, NEW k \in Elements, Depends(edges, i, k)
  PROVE  Position(tes[k]) < Position(tes[i])
<1>1. PICK s : OrderOf(s)
  BY OrderIsMade
<1>2. /\ steps \in Seq(PackagesOf(world)) /\ Distinct(steps)
  BY OrderIsMade
<1>3. /\ ActiveOnes(world, s) /\ steps = add_obsoleted(world, s)
      /\ StepsRight(Len(tes), edges, tes, s) /\ \E a \in DOMAIN s : s[a] = tes[i]
  BY <1>1 DEF OrderOf
<1>4. Elements = 1..Len(tes) /\ IsTransaction(world) /\ GraphOn(edges, Len(tes)) /\ Len(tes) \in Nat
  BY OrderFacts
<1>5. k \in Successors(edges, i)
  BY <1>4, GraphFacts
<1>6. PICK a \in DOMAIN s : s[a] = tes[i]
  BY <1>3
<1>7. PICK b \in 1..(a - 1) : s[b] = tes[k]
  BY <1>3, <1>4, <1>5, <1>6 DEF StepsRight
<1>8. PICK x, y \in DOMAIN steps : y < x /\ steps[x] = tes[i] /\ steps[y] = tes[k]
  BY <1>3, <1>4, <1>6, <1>7, OrderKeepsPlaces
<1>9. Position(tes[i]) = x
  <2>1. PlaceOf(steps, steps[x]) = x
    BY <1>2, PlaceIs
  <2>2. QED BY <1>8, <2>1 DEF Position, PlaceOf
<1>10. Position(tes[k]) = y
  <2>1. PlaceOf(steps, steps[y]) = y
    BY <1>2, PlaceIs
  <2>2. QED BY <1>8, <2>1 DEF Position, PlaceOf
<1>11. QED BY <1>8, <1>9, <1>10

----------------------------------------------------------------------------
(* What a requirement makes wait, and that this is enough.                 *)

\* Where the elements of two sequences are when they are put together.
LEMMA InFirst ==
  ASSUME NEW T, NEW s, s \in Seq(T), NEW t, t \in Seq(T), NEW c \in DOMAIN s
  PROVE  s \o t \in Seq(T) /\ c \in DOMAIN (s \o t) /\ (s \o t)[c] = s[c]
<1>1. Len(s) \in Nat /\ Len(t) \in Nat /\ DOMAIN s = 1..Len(s) /\ s \o t \in Seq(T)
  OBVIOUS
<1>2. /\ Len(s \o t) = Len(s) + Len(t)
      /\ \A i \in 1..(Len(s) + Len(t)) : (s \o t)[i] = IF i <= Len(s) THEN s[i] ELSE t[i - Len(s)]
  BY ConcatProperties
<1> DEFINE m == Len(s)
           n == Len(t)
           z == s \o t
<1>3. m \in Nat /\ n \in Nat /\ c \in 1..m /\ Len(z) = m + n
  BY <1>1, <1>2
<1>4. DOMAIN z = 1..Len(z)
  BY <1>1
<1> HIDE DEF m, n, z
<1>5. c \in 1..(m + n) /\ c <= m
  BY <1>3
<1>6. QED BY <1>1, <1>2, <1>3, <1>4, <1>5 DEF m, n, z

LEMMA InSecond ==
  ASSUME NEW T, NEW s, s \in Seq(T), NEW t, t \in Seq(T), NEW j \in DOMAIN t
  PROVE  Len(s) + j \in DOMAIN (s \o t) /\ (s \o t)[Len(s) + j] = t[j]
<1>1. Len(s) \in Nat /\ Len(t) \in Nat /\ DOMAIN t = 1..Len(t) /\ s \o t \in Seq(T)
  OBVIOUS
<1>2. /\ Len(s \o t) = Len(s) + Len(t)
      /\ \A i \in 1..(Len(s) + Len(t)) : (s \o t)[i] = IF i <= Len(s) THEN s[i] ELSE t[i - Len(s)]
  BY ConcatProperties
<1> DEFINE m == Len(s)
           n == Len(t)
           z == s \o t
<1>3. m \in Nat /\ n \in Nat /\ j \in 1..n /\ Len(z) = m + n
  BY <1>1, <1>2
<1>4. DOMAIN z = 1..Len(z)
  BY <1>1
<1> HIDE DEF m, n, z
<1>5. m + j \in 1..(m + n) /\ ~(m + j <= m) /\ (m + j) - m = j
  BY <1>3
<1>6. QED BY <1>1, <1>2, <1>3, <1>4, <1>5 DEF m, n, z

\* The elements that handle a package: itself, or what replaces it.
StandsFor(w, p) == IF IsObsoleted(w, p) THEN Partners(w, p) ELSE {p}

LEMMA StandsFacts ==
  ASSUME NEW w, IsTransaction(w), NEW p \in TransactsMap(w)
  PROVE  /\ \E T : Stands(w, p) \in Seq(T)
         /\ Range(Stands(w, p)) = StandsFor(w, p)
         /\ StandsFor(w, p) \subseteq Range(ActiveSteps(w))
<1>1. CASE IsObsoleted(w, p)
  <2>1. /\ Stands(w, p) = transaction_all_obs_pkgs(w, p) /\ StandsFor(w, p) = Partners(w, p)
        /\ p \in w.old
    BY <1>1 DEF Stands, StandsFor, IsObsoleted
  <2>2. Stands(w, p) \in Seq(PackagesOf(w)) /\ Range(Stands(w, p)) = Partners(w, p)
    BY <2>1, AllPartners
  <2>3. ASSUME NEW q \in Partners(w, p)
        PROVE  q \in TransactsMap(w) /\ ~IsObsoleted(w, q)
    <3>1. <<q, p>> \in TransactionInfo(w)
      BY <2>1 DEF Partners
    <3>2. QED BY <3>1, ReplacesFacts
  <2>4. QED BY <2>1, <2>2, <2>3, ActiveFacts
<1>2. CASE ~IsObsoleted(w, p)
  <2>1. Stands(w, p) = <<p>> /\ StandsFor(w, p) = {p}
    BY <1>2 DEF Stands, StandsFor
  <2>2. <<p>> \in Seq({p}) /\ DOMAIN <<p>> = {1} /\ <<p>>[1] = p
    OBVIOUS
  <2>3. Range(<<p>>) = {p}
    BY <2>2 DEF Range
  <2>4. QED BY <1>2, <2>1, <2>2, <2>3, ActiveFacts
<1>3. QED BY <1>1, <1>2

\* addedge calls addteedge for all elements that stand for the two packages.
LEMMA LinkMakesCalls ==
  ASSUME NEW w, IsTransaction(w), NEW es, es = ActiveSteps(w), NEW from \in TransactsMap(w),
         NEW to \in TransactsMap(w), NEW bit \in ReasonBits, NEW i \in DOMAIN es, NEW k \in DOMAIN es,
         es[i] \in StandsFor(w, from), es[k] \in StandsFor(w, to)
  PROVE  \E c \in DOMAIN addedge(w, es, from, to, bit) : addedge(w, es, from, to, bit)[c] = <<i, k, bit>>
<1> DEFINE te(p) == CHOOSE x \in DOMAIN es : es[x] = p
           ends(p) == Only(Stands(w, p), Range(es))
           pairs(x) == [y \in DOMAIN ends(to) |-> <<te(ends(from)[x]), te(ends(to)[y]), bit>>]
           lists == [x \in DOMAIN ends(from) |-> pairs(x)]
<1>1. es \in Seq(PackagesOf(w)) /\ Distinct(es)
  BY ActiveFacts
<1>2. te(es[i]) = i /\ te(es[k]) = k
  BY <1>1 DEF Distinct
<1> HIDE DEF te
<1>3. ASSUME NEW p \in TransactsMap(w)
      PROVE  (\E T : ends(p) \in Seq(T)) /\ Range(ends(p)) = StandsFor(w, p)
  <2> DEFINE s == Stands(w, p)
             R == Range(es)
  <2>1. PICK T : s \in Seq(T)
    BY StandsFacts
  <2>2. Range(s) = StandsFor(w, p) /\ StandsFor(w, p) \subseteq R
    BY StandsFacts
  <2> HIDE DEF s, R
  <2>3. Only(s, R) \in Seq(T) /\ Range(Only(s, R)) = Range(s) \cap R
    BY <2>1, OnlyPicks
  <2>4. QED BY <2>2, <2>3 DEF s, R
<1>4. /\ \E T : ends(from) \in Seq(T)
      /\ \E T : ends(to) \in Seq(T)
  BY <1>3
<1>5. (\E x \in DOMAIN ends(from) : ends(from)[x] = es[i]) /\ (\E y \in DOMAIN ends(to) : ends(to)[y] = es[k])
  <2>1. es[i] \in Range(ends(from)) /\ es[k] \in Range(ends(to))
    BY <1>3
  <2> HIDE DEF ends
  <2>2. QED BY <2>1 DEF Range
<1>6. addedge(w, es, from, to, bit) = FlattenSeq(lists)
  BY DEF addedge, lists, pairs, ends, te
<1> HIDE DEF ends
<1>7. PICK x \in DOMAIN ends(from) : ends(from)[x] = es[i]
  BY <1>5
<1>8. PICK y \in DOMAIN ends(to) : ends(to)[y] = es[k]
  BY <1>5
<1>9. lists[x][y] = <<i, k, bit>> /\ x \in DOMAIN lists /\ y \in DOMAIN lists[x]
  BY <1>2, <1>7, <1>8
<1>10. \E T : lists \in Seq(Seq(T))
  <2> DEFINE T == {pairs(u)[v] : u \in DOMAIN ends(from), v \in DOMAIN ends(to)}
  <2>1. \A u \in DOMAIN ends(from) : \A v \in DOMAIN ends(to) : pairs(u)[v] \in T
    OBVIOUS
  <2> HIDE DEF T
  <2>2. ASSUME NEW u \in DOMAIN ends(from)
        PROVE  pairs(u) \in Seq(T)
    <3>1. PICK S : ends(to) \in Seq(S)
      BY <1>4
    <3>2. pairs(u) = [v \in DOMAIN ends(to) |-> pairs(u)[v]]
      OBVIOUS
    <3>3. \A v \in DOMAIN ends(to) : pairs(u)[v] \in T
      BY <2>1
    <3> HIDE DEF pairs
    <3>4. QED BY <3>1, <3>2, <3>3, MappedTyped
  <2>3. lists = [u \in DOMAIN ends(from) |-> lists[u]] /\ \A u \in DOMAIN ends(from) : lists[u] \in Seq(T)
    BY <2>2
  <2>4. PICK S : ends(from) \in Seq(S)
    BY <1>4
  <2> HIDE DEF lists
  <2>5. lists \in Seq(Seq(T))
    BY <2>3, <2>4, MappedTyped
  <2>6. QED BY <2>5
<1> HIDE DEF lists, pairs
<1>11. PICK T : lists \in Seq(Seq(T))
  BY <1>10
<1>12. \E c \in DOMAIN FlattenSeq(lists) : FlattenSeq(lists)[c] = lists[x][y]
  BY <1>9, <1>11, FlattenHas
<1>13. QED BY <1>6, <1>9, <1>12

\* The providers of a requirement that come, and those that go.
Coming(w, r) == {q \in Range(r.providers) : q \in TransactsMap(w) /\ IsNew(w, q)}
Going(w, r) == {q \in Range(r.providers) : q \in TransactsMap(w) /\ q \in w.old}
Staying(w, r) == {q \in Range(r.providers) : q \in w.old /\ q \notin TransactsMap(w)}

\* One of several links is from one package to another.
IsLinked(links, from, to) == \E c \in DOMAIN links : \E bit \in ReasonBits : links[c] = <<from, to, bit>>

\* A package waits for what it requires and comes; if nothing does, what it
\* requires and goes waits for it.
LEMMA RequirementWaits ==
  ASSUME NEW w, IsTransaction(w), NEW p \in TransactsMap(w), NEW r \in Requirement(PackagesOf(w)),
         p \notin Range(r.providers)
  PROVE  /\ \A q \in Coming(w, r) : IsLinked(RequirementEdges(w, p, r), p, q)
         /\ /\ p \in w.old /\ Coming(w, r) = {} /\ Staying(w, r) = {}
            /\ ~(IsObsoleted(w, p) /\ ~havescripts(w, p))
            => \A q \in Going(w, r) : IsLinked(RequirementEdges(w, p, r), q, p)
<1> DEFINE P == PackagesOf(w)
           moving == TransactsMap(w)
           kept == \E q \in Range(r.providers) : q \in w.old \ moving
           wanted == {q \in moving : (p \in w.old \/ IsNew(w, q)) /\ (kept => IsNew(w, q))}
           all == Candidates(w, p, r)
           going == Only(all, w.old)
           coming == Only(all, NewPackages(w))
           old_bit == IF r.pre THEN TYPE_PREREQ_P ELSE TYPE_REQ_P
           new_bit == IF r.pre THEN TYPE_PREREQ ELSE TYPE_REQ
           others(i) == Only(coming, {q \in NewPackages(w) : Partners(w, going[i]) # {q}})
           pairs(i) == [j \in DOMAIN others(i) |-> <<going[i], others(i)[j], old_bit>>]
           lists == [i \in DOMAIN going |-> pairs(i)]
           handover == FlattenSeq(lists)
           bit == IF p \in w.old THEN old_bit ELSE new_bit
           toward == [j \in DOMAIN coming |-> <<p, coming[j], bit>>]
           away == [j \in DOMAIN going |-> <<going[j], p, old_bit>>]
<1>1. r.providers \in Seq(P) /\ moving \subseteq P
  BY PackageFacts DEF Requirement
<1>2. all \in Seq(P) /\ Range(all) = Range(r.providers) \cap wanted
  <2>1. all = Only(r.providers, wanted)
    BY DEF Candidates
  <2> HIDE DEF all, wanted
  <2>2. QED BY <1>1, <2>1, OnlyPicks
<1>3. Coming(w, r) \subseteq Range(all)
  BY <1>2 DEF Coming
<1>4. p \in w.old /\ Staying(w, r) = {} => Going(w, r) \subseteq Range(all)
  BY <1>2 DEF Going, Staying
<1>5. \A q \in Range(all) : q \in moving /\ q \in Range(r.providers)
  BY <1>2
<1>6. RequirementEdges(w, p, r) \in Seq(Links(w))
  <2>1. p \in PackagesOf(w)
    BY <1>1
  <2>2. QED BY <2>1, RequirementLinks
<1>7. old_bit \in ReasonBits /\ bit \in ReasonBits
  BY DEF ReasonBits
<1>8. RequirementEdges(w, p, r) =
         IF coming # <<>> THEN (IF p \in w.old THEN handover ELSE <<>>) \o toward
         ELSE IF IsObsoleted(w, p) /\ ~havescripts(w, p) THEN <<>>
         ELSE away
  BY DEF RequirementEdges, handover, toward, away, lists, pairs, others, coming, going, all, old_bit,
         new_bit, bit
<1> HIDE DEF all, old_bit, bit, handover, moving, wanted
<1>9. /\ going \in Seq(P) /\ Range(going) = Range(all) \cap w.old
      /\ coming \in Seq(P) /\ Range(coming) = Range(all) \cap NewPackages(w)
  BY <1>2, OnlyPicks
<1> HIDE DEF going, coming
<1>10. DOMAIN coming = 1..Len(coming) /\ Len(coming) \in Nat
  BY <1>9
<1>11. ASSUME NEW q \in Coming(w, r)
       PROVE  IsLinked(RequirementEdges(w, p, r), p, q)
  <2>1. q \in Range(coming)
    BY <1>1, <1>3, <1>5, <1>9 DEF Coming, NewPackages, IsNew, moving
  <2>2. PICK j \in DOMAIN coming : coming[j] = q
    BY <2>1 DEF Range
  <2>3. coming # <<>>
    BY <2>2
  <2> DEFINE h == IF p \in w.old THEN handover ELSE <<>>
  <2>4. RequirementEdges(w, p, r) = h \o toward
    BY <1>8, <2>3
  <2>5. h \in Seq(Links(w))
    <3>1. CASE p \in w.old
      <4>1. \A i : others(i) \in Seq(P)
        BY <1>9, OnlyPicks
      <4>2. ASSUME NEW i \in DOMAIN going
            PROVE  pairs(i) \in Seq(Links(w))
        <5>1. going[i] \in P /\ others(i) \in Seq(P)
          <6> HIDE DEF others
          <6>1. QED BY <1>9, <4>1
        <5> HIDE DEF others
        <5>2. \A y \in DOMAIN others(i) : others(i)[y] \in P
          BY <5>1
        <5>3. \A y \in DOMAIN others(i) : pairs(i)[y] \in Links(w)
          BY <1>7, <5>1, <5>2 DEF Links
        <5>4. pairs(i) = [y \in DOMAIN others(i) |-> pairs(i)[y]]
          OBVIOUS
        <5> HIDE DEF pairs
        <5>5. QED BY <5>1, <5>3, <5>4, MappedTyped
      <4>3. lists = [i \in DOMAIN going |-> lists[i]] /\ \A i \in DOMAIN going : lists[i] \in Seq(Links(w))
        BY <4>2
      <4> HIDE DEF lists
      <4>4. lists \in Seq(Seq(Links(w)))
        BY <1>9, <4>3, MappedTyped
      <4>5. handover \in Seq(Links(w))
        BY <4>4, FlattenTyped DEF handover
      <4>6. QED BY <3>1, <4>5
    <3>2. CASE p \notin w.old
      <4>1. <<>> \in Seq(Links(w))
        OBVIOUS
      <4>2. QED BY <3>2, <4>1
    <3>3. QED BY <3>1, <3>2
  <2>6. toward \in Seq(Links(w)) /\ Len(toward) = Len(coming)
    <3>1. p \in P /\ \A i \in DOMAIN coming : coming[i] \in P
      BY <1>1, <1>9 DEF moving
    <3>3. \A i \in DOMAIN coming : toward[i] \in Links(w)
      BY <1>7, <3>1 DEF Links
    <3>2. toward = [i \in DOMAIN coming |-> toward[i]]
      OBVIOUS
    <3> HIDE DEF toward
    <3>4. QED BY <1>9, <3>2, <3>3, MappedTyped
  <2>7. toward[j] = <<p, q, bit>> /\ j \in 1..Len(coming)
    BY <1>10, <2>2
  <2> HIDE DEF h, toward
  <2>8. j \in DOMAIN toward
    BY <2>6, <2>7
  <2>9. Len(h) + j \in DOMAIN (h \o toward) /\ (h \o toward)[Len(h) + j] = toward[j]
    BY <2>5, <2>6, <2>8, InSecond
  <2>10. QED BY <1>7, <2>4, <2>7, <2>9 DEF IsLinked
<1>12. ASSUME p \in w.old, Coming(w, r) = {}, Staying(w, r) = {}, ~(IsObsoleted(w, p) /\ ~havescripts(w, p)),
              NEW q \in Going(w, r)
       PROVE  IsLinked(RequirementEdges(w, p, r), q, p)
  <2>1. Range(coming) = {}
    BY <1>5, <1>9, <1>12 DEF Coming, NewPackages, IsNew, moving
  <2>2. coming = <<>>
    <3>1. DOMAIN coming = {}
      BY <2>1 DEF Range
    <3>2. QED BY <1>9, <3>1
  <2>3. q \in Range(going)
    BY <1>4, <1>9, <1>12 DEF Going
  <2>4. PICK j \in DOMAIN going : going[j] = q
    BY <2>3 DEF Range
  <2>5. RequirementEdges(w, p, r) = away
    BY <1>8, <1>12, <2>2
  <2>6. j \in DOMAIN away /\ away[j] = <<q, p, old_bit>>
    BY <2>4
  <2>7. QED BY <1>7, <2>5, <2>6 DEF IsLinked
<1>13. QED BY <1>11, <1>12

\* The elements that stand for one package wait for those that stand for another.
Awaits(w, from, to) ==
  \A i, k \in DOMAIN ActiveSteps(w) :
    /\ ActiveSteps(w)[i] \in StandsFor(w, from) /\ ActiveSteps(w)[k] \in StandsFor(w, to)
    /\ i # k
    => Depends(GraphOf(w), i, k)

\* All links of the requirements of all steps become edges.
LEMMA LinksMakeEdges ==
  ASSUME NEW w, IsTransaction(w), NEW p \in TransactsMap(w), NEW j \in DOMAIN w.requires[p],
         NEW from \in TransactsMap(w), NEW to \in TransactsMap(w),
         IsLinked(RequirementEdges(w, p, w.requires[p][j]), from, to)
  PROVE  Awaits(w, from, to)
<1> DEFINE a == ActiveSteps(w)
           n == Len(a)
           P == PackagesOf(w)
           s == StepsOf(w)
           reqs == [i \in DOMAIN w.requires[p] |-> RequirementEdges(w, p, w.requires[p][i])]
           cons == [i \in DOMAIN w.conflicts[p] |-> ConflictEdges(w, p, w.conflicts[p][i])]
           trigs == [i \in DOMAIN w.triggers[p] |-> TriggerEdges(w, p, w.triggers[p][i])]
           links == FlattenSeq(reqs) \o FlattenSeq(cons) \o FlattenSeq(trigs)
           made == [c \in DOMAIN links |-> addedge(w, a, links[c][1], links[c][2], links[c][3])]
           lists == [k \in DOMAIN s |-> addsolvableedges(w, a, s[k])]
           calls == FlattenSeq(lists)
           es == [i \in DOMAIN a |-> <<>>]
<1>1. a \in Seq(P) /\ s \in Seq(P) /\ Range(s) = TransactsMap(w) /\ p \in P
  BY ActiveFacts, StepsFacts, PackageFacts
<1>2. /\ w.requires[p] \in Seq(Requirement(P)) /\ w.conflicts[p] \in Seq(Seq(P))
      /\ w.triggers[p] \in Seq(Seq(P))
  BY <1>1 DEF IsTransaction
<1>3. reqs \in Seq(Seq(Links(w))) /\ cons \in Seq(Seq(Links(w))) /\ trigs \in Seq(Seq(Links(w)))
  <2>1. \A i \in DOMAIN w.requires[p] : w.requires[p][i] \in Requirement(P)
    BY <1>2
  <2>2. \A i \in DOMAIN w.requires[p] : reqs[i] \in Seq(Links(w))
    BY <1>1, <2>1, RequirementLinks
  <2>3. \A i \in DOMAIN w.conflicts[p] : w.conflicts[p][i] \in Seq(P)
    BY <1>2
  <2>4. \A i \in DOMAIN w.conflicts[p] : cons[i] \in Seq(Links(w))
    BY <1>1, <2>3, OtherLinks
  <2>5. \A i \in DOMAIN w.triggers[p] : w.triggers[p][i] \in Seq(P)
    BY <1>2
  <2>6. \A i \in DOMAIN w.triggers[p] : trigs[i] \in Seq(Links(w))
    BY <1>1, <2>5, OtherLinks
  <2>7. reqs = [i \in DOMAIN w.requires[p] |-> reqs[i]]
    OBVIOUS
  <2>12. cons = [i \in DOMAIN w.conflicts[p] |-> cons[i]]
    OBVIOUS
  <2>13. trigs = [i \in DOMAIN w.triggers[p] |-> trigs[i]]
    OBVIOUS
  <2> HIDE DEF reqs, cons, trigs
  <2>8. reqs \in Seq(Seq(Links(w)))
    BY <1>2, <2>2, <2>7, MappedTyped
  <2>9. cons \in Seq(Seq(Links(w)))
    BY <1>2, <2>4, <2>12, MappedTyped
  <2>10. trigs \in Seq(Seq(Links(w)))
    BY <1>2, <2>6, <2>13, MappedTyped
  <2>11. QED BY <2>8, <2>9, <2>10
<1>4. PICK l \in DOMAIN reqs[j] : \E bit \in ReasonBits : reqs[j][l] = <<from, to, bit>>
  BY DEF IsLinked
<1>5. PICK bit \in ReasonBits : reqs[j][l] = <<from, to, bit>>
  BY <1>4
<1>6. j \in DOMAIN reqs
  OBVIOUS
<1>7. addsolvableedges(w, a, p) = FlattenSeq(made)
  BY DEF addsolvableedges, made, links, reqs, cons, trigs
<1> HIDE DEF reqs, cons, trigs
<1>8. PICK c \in DOMAIN FlattenSeq(reqs) : FlattenSeq(reqs)[c] = <<from, to, bit>>
  BY <1>3, <1>4, <1>5, <1>6, FlattenHas
<1>9. links \in Seq(Links(w)) /\ c \in DOMAIN links /\ links[c] = <<from, to, bit>>
  <2> DEFINE f == FlattenSeq(reqs)
             g == FlattenSeq(cons)
             h == FlattenSeq(trigs)
  <2>1. f \in Seq(Links(w)) /\ g \in Seq(Links(w)) /\ h \in Seq(Links(w))
    BY <1>3, FlattenTyped
  <2>2. c \in DOMAIN f /\ f[c] = <<from, to, bit>>
    BY <1>8
  <2> HIDE DEF f, g, h
  <2>3. f \o g \in Seq(Links(w)) /\ c \in DOMAIN (f \o g) /\ (f \o g)[c] = f[c]
    BY <2>1, <2>2, InFirst
  <2>4. /\ (f \o g) \o h \in Seq(Links(w)) /\ c \in DOMAIN ((f \o g) \o h)
        /\ ((f \o g) \o h)[c] = (f \o g)[c]
    BY <2>1, <2>3, InFirst
  <2>5. QED BY <2>2, <2>3, <2>4 DEF f, g, h
<1> HIDE DEF links
<1>10. made \in Seq(Seq(Calls(n, ReasonBits)))
  <2>1. \A d \in DOMAIN links : links[d][3] \in ReasonBits
    BY <1>9 DEF Links
  <2>2. \A d \in DOMAIN links : made[d] \in Seq(Calls(n, ReasonBits))
    BY <1>1, <2>1, ElementCalls
  <2>3. made = [d \in DOMAIN links |-> made[d]]
    OBVIOUS
  <2> HIDE DEF made, n
  <2>4. QED BY <1>9, <2>2, <2>3, MappedTyped
<1>11. SUFFICES ASSUME NEW i \in DOMAIN a, NEW k \in DOMAIN a, i # k,
                       a[i] \in StandsFor(w, from), a[k] \in StandsFor(w, to)
                PROVE  Depends(GraphOf(w), i, k)
  BY DEF Awaits
<1>12. c \in DOMAIN made /\ made[c] = addedge(w, a, from, to, bit)
  BY <1>9
<1>13. PICK d \in DOMAIN made[c] : made[c][d] = <<i, k, bit>>
  <2> HIDE DEF a, made
  <2>1. \E d \in DOMAIN addedge(w, a, from, to, bit) : addedge(w, a, from, to, bit)[d] = <<i, k, bit>>
    BY <1>11, LinkMakesCalls DEF a
  <2>2. QED BY <1>12, <2>1
<1> HIDE DEF made
<1>14. PICK e \in DOMAIN FlattenSeq(made) : FlattenSeq(made)[e] = <<i, k, bit>>
  <2> HIDE DEF n
  <2>1. QED BY <1>10, <1>12, <1>13, FlattenHas
<1>15. lists \in Seq(Seq(Calls(n, ReasonBits)))
  <2>1. \A m \in DOMAIN s : s[m] \in P
    BY <1>1
  <2>2. \A m \in DOMAIN s : lists[m] \in Seq(Calls(n, ReasonBits))
    BY <1>1, <2>1, SolvableCalls
  <2>3. lists = [m \in DOMAIN s |-> lists[m]]
    OBVIOUS
  <2> HIDE DEF lists, n, s
  <2>4. QED BY <1>1, <2>2, <2>3, MappedTyped
<1>16. PICK m \in DOMAIN s : s[m] = p
  <2>1. p \in Range(s)
    BY <1>1
  <2> HIDE DEF s
  <2>2. QED BY <2>1 DEF Range
<1>17. m \in DOMAIN lists /\ lists[m] = FlattenSeq(made)
  BY <1>7, <1>16
<1>18. GraphOf(w) = addteedges(es, calls)
  BY DEF GraphOf
<1> HIDE DEF lists, s
<1>19. PICK x \in DOMAIN calls : calls[x] = <<i, k, bit>>
  <2> HIDE DEF n
  <2>1. QED BY <1>14, <1>15, <1>17, FlattenHas
<1>20. calls \in Seq(Calls(n, ReasonBits))
  <2> HIDE DEF n
  <2>1. QED BY <1>15, FlattenTyped
<1>21. n \in Nat /\ DOMAIN a = 1..n
  BY <1>1
<1>22. GraphOn(es, n)
  <2>1. es = [y \in 1..n |-> <<>>] /\ <<>> \in Seq(EdgeLists(n)) /\ DOMAIN <<>> = {}
    BY <1>21
  <2> HIDE DEF es
  <2>2. es \in [1..n -> Seq(EdgeLists(n))] /\ \A y \in 1..n : es[y] = <<>>
    BY <2>1
  <2>3. QED BY <2>1, <2>2 DEF GraphOn
<1> HIDE DEF calls, es, n
<1>23. calls[x][1] = i /\ calls[x][2] = k
  BY <1>19
<1>24. PICK y \in DOMAIN GraphOf(w)[i] : GraphOf(w)[i][y].to = k
  BY <1>11, <1>18, <1>20, <1>21, <1>22, <1>23, BitsAdded, CallAddsEdge
<1>25. Unbroken(GraphOf(w)[i][y])
  BY <1>21, <1>24, GraphIsBuilt DEF n
<1>26. QED BY <1>24, <1>25 DEF Depends

\* As long as no cycle was broken, the edges are those of the transaction.
PlainInv == phase # "build" /\ cycles = <<>> => \E w : world = w /\ edges = GraphOf(w)

LEMMA PlainStays ==
  ASSUME PlainInv, phase # "build", edges' = edges, cycles' = cycles, world' = world
  PROVE  PlainInv'
BY DEF PlainInv

LEMMA NextPlainInv == OrderInv /\ PlainInv /\ [Next]_vars => PlainInv'
<1> SUFFICES ASSUME OrderInv, PlainInv, [Next]_vars
             PROVE  PlainInv'
  OBVIOUS
<1>1. CASE Build
  BY <1>1 DEF Build, PlainInv
<1>2. CASE BreakCycle
  <2>1. \E c : cycles' = Append(cycles, c)
    BY <1>2 DEF BreakCycle
  <2>2. PICK c : cycles' = Append(cycles, c)
    BY <2>1
  <2>3. cycles \in Seq(CycleRecords(Len(tes)))
    BY DEF OrderInv, GraphInv, CyclesKept
  <2>4. Len(cycles) \in Nat /\ DOMAIN Append(cycles, c) = 1..(Len(cycles) + 1)
    BY <2>3
  <2>5. 1 \in DOMAIN cycles' /\ DOMAIN <<>> = {}
    BY <2>2, <2>4
  <2>6. QED BY <2>5 DEF PlainInv
<1>3. CASE Bind
  <2>1. unbound # <<>> /\ cycles' = cycles /\ Range(unbound) \subseteq Range(cycles)
    BY <1>3 DEF Bind, OrderInv, CyclesBound
  <2>2. unbound \in Seq(CycleRecords(Len(tes)))
    BY DEF OrderInv, GraphInv, CyclesKept
  <2>3. 1 \in DOMAIN unbound
    BY <2>1, <2>2
  <2>4. Range(cycles) # {}
    BY <2>1, <2>3 DEF Range
  <2>5. cycles # <<>>
    BY <2>4, EmptyRange
  <2>6. QED BY <2>1, <2>5 DEF PlainInv
<1>4. CASE Leave \/ SkipDone \/ Enter
  BY <1>4, PlainStays DEF Leave, SkipDone, Enter, searching
<1>5. CASE EndSearch
  BY <1>5, PlainStays DEF EndSearch
<1>6. CASE Arrange
  BY <1>6, PlainStays DEF Arrange
<1>7. CASE HandleUninstall \/ HandleSameMedium \/ ChangeMedium
  BY <1>7, PlainStays DEF HandleUninstall, HandleSameMedium, ChangeMedium, ordering
<1>8. CASE Finish
  BY <1>8, PlainStays DEF Finish
<1>9. CASE FirstChoices
  BY <1>9, PlainStays DEF FirstChoices, HasOrderdata
<1>10. CASE ChooseOffered \/ ChooseEarly
  BY <1>10, PlainStays DEF ChooseOffered, ChooseEarly, Choose
<1>11. CASE NoChoices \/ UNCHANGED vars
  <2>1. UNCHANGED vars
    BY <1>11 DEF NoChoices
  <2>2. CASE phase = "build"
    BY <2>1, <2>2 DEF vars, PlainInv
  <2>3. CASE phase # "build"
    BY <2>1, <2>3, PlainStays DEF vars
  <2>4. QED BY <2>2, <2>3
<1>12. QED BY <1>1, <1>2, <1>3, <1>4, <1>5, <1>6, <1>7, <1>8, <1>9, <1>10, <1>11 DEF Next, Order

\* Where the packages are in the finished order.
PositionsRight ==
  /\ \A k \in DOMAIN steps : Position(steps[k]) = k
  /\ \A q \in TransactsMap(world) :
       Position(q) \in DOMAIN steps /\ Position(q) \in Nat /\ steps[Position(q)] = q

LEMMA PositionFacts ==
  ASSUME OrderInv, phase = "done"
  PROVE  PositionsRight
<1>1. steps \in Seq(PackagesOf(world)) /\ Distinct(steps) /\ Range(steps) = TransactsMap(world)
  BY OrderIsMade
<1>2. ASSUME NEW k \in DOMAIN steps
      PROVE  Position(steps[k]) = k
  <2>1. PlaceOf(steps, steps[k]) = k
    BY <1>1, PlaceIs
  <2>2. QED BY <2>1 DEF PlaceOf, Position
<1>3. ASSUME NEW q \in TransactsMap(world)
      PROVE  Position(q) \in DOMAIN steps /\ Position(q) \in Nat /\ steps[Position(q)] = q
  <2>1. PICK k \in DOMAIN steps : steps[k] = q
    BY <1>1 DEF Range
  <2>2. k \in Nat
    BY <1>1
  <2>3. QED BY <1>2, <2>1, <2>2
<1>4. QED BY <1>2, <1>3 DEF PositionsRight

\* What has come is present, and so is what has not gone.
LEMMA PresentFacts ==
  ASSUME OrderInv, phase = "done", NEW k \in DOMAIN steps, NEW q
  PROVE  /\ q \in world.old /\ q \notin TransactsMap(world) => q \in Present(k)
         /\ q \in TransactsMap(world) /\ q \notin world.old /\ Position(q) <= k => q \in Present(k)
         /\ q \in TransactsMap(world) /\ q \in world.old /\ k <= Position(q) => q \in Present(k)
<1> DEFINE n == Len(steps)
           sofar == SubSeq(steps, 1, k)
           before == SubSeq(steps, 1, k - 1)
<1>1. steps \in Seq(PackagesOf(world)) /\ Range(steps) = TransactsMap(world)
  BY OrderIsMade
<1>2. n \in Nat /\ k \in 1..n /\ DOMAIN steps = 1..n
  BY <1>1
<1>3. PositionsRight
  BY PositionFacts
<1>4. /\ \A i \in 1..k : sofar[i] = steps[i]
      /\ DOMAIN sofar = 1..k
  BY <1>1, <1>2
<1>5. /\ \A i \in 1..(k - 1) : before[i] = steps[i]
      /\ DOMAIN before = 1..(k - 1)
  <2>1. k - 1 \in 0..n
    BY <1>2
  <2>2. QED BY <1>1, <2>1
<1>6. Present(k) = (world.old \cup Range(sofar)) \ (world.old \cap Range(before))
  BY DEF Present
<1> HIDE DEF sofar, before, n
<1>7. \A i \in 1..(k - 1) : i \in 1..n /\ ~(k <= i)
  BY <1>2
<1>8. ASSUME NEW i \in 1..(k - 1), before[i] = q
      PROVE  q \in TransactsMap(world) /\ Position(q) = i /\ ~(k <= Position(q))
  <2>1. i \in DOMAIN steps /\ steps[i] = q
    BY <1>2, <1>5, <1>7, <1>8
  <2>2. q \in Range(steps) /\ Position(q) = i
    BY <1>3, <2>1 DEF Range, PositionsRight
  <2>3. QED BY <1>1, <1>7, <2>2
<1>9. q \in Range(before) => q \in TransactsMap(world) /\ ~(k <= Position(q))
  BY <1>5, <1>8 DEF Range
<1>10. ASSUME q \in TransactsMap(world), Position(q) <= k
       PROVE  q \in Range(sofar)
  <2>1. Position(q) \in DOMAIN steps /\ steps[Position(q)] = q /\ Position(q) \in Nat
    BY <1>3, <1>10 DEF PositionsRight
  <2>2. Position(q) \in 1..k
    BY <1>2, <1>10, <2>1
  <2>3. QED BY <1>4, <2>1, <2>2 DEF Range
<1>11. QED BY <1>6, <1>9, <1>10

\* Without cycles, what waits for another package is behind it.
LEMMA AwaitedFirst ==
  ASSUME OrderInv, PlainInv, phase = "done", cycles = <<>>,
         NEW from \in TransactsMap(world), NEW to \in TransactsMap(world), Awaits(world, from, to),
         NEW x \in StandsFor(world, from), NEW y \in StandsFor(world, to), x # y
  PROVE  x \in TransactsMap(world) /\ y \in TransactsMap(world) /\ Position(y) < Position(x)
<1>1. IsTransaction(world) /\ tes = ActiveSteps(world)
  BY OrderFacts DEF OrderInv, GraphInv, ElementsSet
<1>2. edges = GraphOf(world)
  BY DEF PlainInv
<1>3. x \in Range(tes) /\ y \in Range(tes)
  BY <1>1, StandsFacts
<1>4. PICK i \in DOMAIN tes : tes[i] = x
  BY <1>3 DEF Range
<1>5. PICK k \in DOMAIN tes : tes[k] = y
  BY <1>3 DEF Range
<1>6. Depends(edges, i, k)
  BY <1>1, <1>2, <1>4, <1>5 DEF Awaits
<1>7. i \in Elements /\ k \in Elements
  BY DEF Elements
<1>8. Position(tes[k]) < Position(tes[i])
  BY <1>6, <1>7, EdgesRespected
<1>9. x \in TransactsMap(world) /\ y \in TransactsMap(world)
  BY <1>1, <1>3, ActiveFacts
<1>10. QED BY <1>4, <1>5, <1>8, <1>9

\* The first that replaces a package stands before it, with nothing between them but
\* what that one replaces as well.
LEMMA FirstReplaces ==
  ASSUME OrderInv, phase = "done", NEW p \in TransactsMap(world), IsObsoleted(world, p)
  PROVE  \E x \in Partners(world, p) :
           /\ x \in TransactsMap(world) /\ x \notin world.old /\ Position(x) < Position(p)
           /\ \A q \in TransactsMap(world) :
                Position(x) < Position(q) /\ Position(q) < Position(p) => q \in Partners(world, x)
<1> DEFINE k == Position(p)
<1>1. PositionsRight /\ IsTransaction(world)
  BY PositionFacts, OrderFacts
<1>2. k \in DOMAIN steps /\ k \in Nat /\ steps[k] = p
  BY <1>1 DEF PositionsRight
<1>3. PICK s : OrderOf(s)
  BY OrderIsMade
<1>4. ActiveOnes(world, s) /\ steps = add_obsoleted(world, s)
  BY <1>3 DEF OrderOf
<1> HIDE DEF k
<1>5. PICK j \in 1..(k - 1) :
        /\ steps[j] \in Partners(world, steps[k])
        /\ \A m \in (j + 1)..(k - 1) : steps[m] \in Partners(world, steps[j])
  BY <1>1, <1>2, <1>4, OrderFollows
<1>6. j \in Nat /\ j < k /\ j > 0
  BY <1>2, <1>5
<1>7. steps \in Seq(PackagesOf(world))
  BY OrderIsMade
<1>8. j \in DOMAIN steps
  BY <1>2, <1>6, <1>7
<1> DEFINE x == steps[j]
<1>9. Position(x) = j
  BY <1>1, <1>8 DEF PositionsRight
<1>10. x \in Partners(world, p) /\ p \in world.old
  BY <1>2, <1>5 DEF IsObsoleted
<1> HIDE DEF x
<1>11. <<x, p>> \in TransactionInfo(world)
  BY <1>10 DEF Partners
<1>12. x \in TransactsMap(world) /\ x \notin world.old
  BY <1>1, <1>11, ReplacesFacts
<1>13. ASSUME NEW q \in TransactsMap(world), j < Position(q), Position(q) < k
       PROVE  q \in Partners(world, x)
  <2> DEFINE m == Position(q)
  <2>1. m \in Nat /\ steps[m] = q
    BY <1>1 DEF PositionsRight
  <2>2. j < m /\ m < k
    BY <1>13
  <2> HIDE DEF m
  <2>3. m \in (j + 1)..(k - 1)
    BY <1>2, <1>6, <2>1, <2>2
  <2>4. QED BY <1>5, <2>1, <2>3 DEF x
<1>14. QED BY <1>6, <1>9, <1>10, <1>12, <1>13 DEF k

\* A requirement of a package that comes, or that goes and is waited for, finds a provider.
LEMMA RequirementFound ==
  ASSUME OrderInv, PlainInv, phase = "done", cycles = <<>>, NEW k \in DOMAIN steps,
         NEW j \in DOMAIN world.requires[steps[k]],
         Met(steps[k], world.requires[steps[k]][j]), Waited(steps[k], world.requires[steps[k]][j])
  PROVE  Provided(world.requires[steps[k]][j], Present(k))
<1> DEFINE p == steps[k]
           r == world.requires[p][j]
           T == TransactsMap(world)
<1>1. steps \in Seq(PackagesOf(world)) /\ Range(steps) = T /\ IsTransaction(world) /\ PositionsRight
  BY OrderIsMade, OrderFacts, PositionFacts
<1>2. p \in T /\ p \in PackagesOf(world) /\ Position(p) = k /\ k \in Nat
  BY <1>1 DEF PositionsRight, Range
<1>3. r \in Requirement(PackagesOf(world)) /\ r.providers \in Seq(PackagesOf(world))
  <2>1. world.requires[p] \in Seq(Requirement(PackagesOf(world)))
    BY <1>1, <1>2 DEF IsTransaction
  <2>2. r \in Requirement(PackagesOf(world))
    BY <2>1
  <2>3. QED BY <2>2 DEF Requirement
<1>4. SUFFICES \E q \in Range(r.providers) : q \in Present(k)
  BY DEF Provided
<1>5. Met(p, r) /\ Waited(p, r)
  OBVIOUS
<1>6. ASSUME NEW from \in T, NEW to \in T, IsLinked(RequirementEdges(world, p, r), from, to)
      PROVE  Awaits(world, from, to)
  BY <1>1, <1>2, <1>6, LinksMakeEdges
<1> HIDE DEF p, r, T
<1>7. CASE p \in Range(r.providers)
  <2>1. k <= Position(p) /\ Position(p) <= k
    BY <1>2
  <2>2. p \in Present(k)
    BY <1>2, <2>1, PresentFacts DEF T
  <2>3. QED BY <1>7, <2>2
<1>8. CASE p \notin Range(r.providers) /\ Staying(world, r) # {}
  <2>1. PICK q \in Range(r.providers) : q \in world.old /\ q \notin T
    BY <1>8 DEF Staying, T
  <2>2. QED BY <2>1, PresentFacts DEF T
<1>9. CASE p \notin Range(r.providers) /\ Coming(world, r) # {}
  <2>1. PICK q \in Range(r.providers) : q \in T /\ q \notin world.old /\ q \in Coming(world, r)
    BY <1>9 DEF Coming, IsNew, T
  <2>2. p # q
    BY <1>9
  <2>3. Awaits(world, p, q)
    <3>1. IsLinked(RequirementEdges(world, p, r), p, q)
      BY <1>1, <1>2, <1>3, <1>9, <2>1, RequirementWaits DEF T
    <3>2. QED BY <1>2, <1>6, <2>1, <3>1
  <2>4. ~IsObsoleted(world, q) /\ q \in StandsFor(world, q)
    BY <2>1 DEF IsObsoleted, StandsFor
  <2>5. CASE ~IsObsoleted(world, p)
    <3>1. p \in StandsFor(world, p)
      BY <2>5 DEF StandsFor
    <3>2. Position(q) < Position(p)
      BY <1>2, <2>1, <2>2, <2>3, <2>4, <3>1, AwaitedFirst DEF T
    <3>3. Position(q) \in Nat
      BY <1>1, <2>1 DEF PositionsRight, T
    <3>4. Position(q) <= k
      BY <1>2, <3>2, <3>3
    <3>5. QED BY <2>1, <3>4, PresentFacts DEF T
  <2>6. CASE IsObsoleted(world, p)
    <3>1. PICK x \in Partners(world, p) : x \in T /\ Position(x) < Position(p)
      BY <1>2, <2>6, FirstReplaces DEF T
    <3>2. x \in StandsFor(world, p)
      BY <2>6 DEF StandsFor
    <3>3. x = q \/ Position(q) < Position(x)
      BY <1>2, <2>1, <2>3, <2>4, <3>2, AwaitedFirst DEF T
    <3>4. Position(q) \in Nat /\ Position(x) \in Nat
      BY <1>1, <2>1, <3>1 DEF PositionsRight, T
    <3>5. Position(q) <= k
      BY <1>2, <3>1, <3>3, <3>4
    <3>6. QED BY <2>1, <3>5, PresentFacts DEF T
  <2>7. QED BY <2>5, <2>6
<1>10. CASE p \notin Range(r.providers) /\ Staying(world, r) = {} /\ Coming(world, r) = {}
  <2>1. p \in world.old
    <3>1. SUFFICES ASSUME p \notin world.old
                   PROVE  FALSE
      OBVIOUS
    <3>2. PICK q \in Range(r.providers) : q \in Result
      BY <1>5, <3>1 DEF Met, Provided
    <3>3. q \in Staying(world, r) \/ q \in Coming(world, r)
      BY <3>2 DEF Result, Staying, Coming, IsNew
    <3>4. QED BY <1>10, <3>3
  <2>2. PICK q \in Range(r.providers) : q \in world.old
    BY <1>5, <2>1 DEF Met, Provided
  <2>3. q \in T /\ q \in Going(world, r)
    BY <1>10, <2>2 DEF Staying, Going, T
  <2>4. ~(IsObsoleted(world, p) /\ ~havescripts(world, p))
    BY <1>5 DEF Waited
  <2>5. Awaits(world, q, p)
    <3>1. IsLinked(RequirementEdges(world, p, r), q, p)
      BY <1>1, <1>2, <1>3, <1>10, <2>1, <2>3, <2>4, RequirementWaits DEF T
    <3>2. QED BY <1>2, <1>6, <2>3, <3>1
  <2>6. p # q
    BY <1>10
  <2>7. \A z \in T : Position(z) \in Nat
    BY <1>1 DEF PositionsRight, T
  \* What handles the provider, with the provider behind it.
  <2>8. PICK y \in StandsFor(world, q) :
          /\ y \in T /\ ~IsObsoleted(world, y) /\ Position(y) <= Position(q)
          /\ IsObsoleted(world, p) => y \notin StandsFor(world, p)
    <3>1. CASE IsObsoleted(world, q)
      <4>1. PICK y \in Partners(world, q) : y \in T /\ y \notin world.old /\ Position(y) < Position(q)
        BY <2>3, <3>1, FirstReplaces DEF T
      <4>2. ~IsObsoleted(world, y) /\ y \in StandsFor(world, q)
        BY <3>1, <4>1 DEF IsObsoleted, StandsFor
      <4>3. IsObsoleted(world, p) => y \notin StandsFor(world, p)
        BY <1>5, <4>1 DEF Waited, StandsFor
      <4>4. Position(y) <= Position(q)
        BY <2>3, <2>7, <4>1
      <4>5. QED BY <4>1, <4>2, <4>3, <4>4
    <3>2. CASE ~IsObsoleted(world, q)
      <4>1. q \in StandsFor(world, q) /\ Position(q) <= Position(q)
        BY <2>3, <2>7, <3>2 DEF StandsFor
      <4>2. ASSUME IsObsoleted(world, p)
            PROVE  q \notin StandsFor(world, p)
        <5>1. \A x \in Partners(world, p) : <<x, p>> \in TransactionInfo(world)
          BY <2>1 DEF Partners
        <5>2. \A x \in Partners(world, p) : x \notin world.old
          <6>1. TAKE x \in Partners(world, p)
          <6>2. <<x, p>>[1] \notin world.old
            BY <1>1, <5>1, ReplacesFacts
          <6>3. QED BY <6>2
        <5>3. QED BY <2>2, <4>2, <5>2 DEF StandsFor
      <4>3. QED BY <2>3, <3>2, <4>1, <4>2
    <3>3. QED BY <3>1, <3>2
  <2>9. k <= Position(y)
    <3>1. CASE ~IsObsoleted(world, p)
      <4>1. p \in StandsFor(world, p)
        BY <3>1 DEF StandsFor
      <4>2. y = p \/ Position(p) < Position(y)
        BY <1>2, <2>3, <2>5, <2>8, <4>1, AwaitedFirst DEF T
      <4>3. QED BY <1>2, <2>7, <2>8, <4>2
    <3>2. CASE IsObsoleted(world, p)
      <4>1. PICK x \in Partners(world, p) :
              /\ x \in T /\ x \notin world.old /\ Position(x) < Position(p)
              /\ \A z \in T : Position(x) < Position(z) /\ Position(z) < Position(p)
                              => z \in Partners(world, x)
        BY <1>2, <3>2, FirstReplaces DEF T
      <4>2. x \in StandsFor(world, p)
        BY <3>2 DEF StandsFor
      <4>3. x # y
        BY <2>8, <3>2, <4>2
      <4>4. Position(x) < Position(y)
        BY <1>2, <2>3, <2>5, <2>8, <4>2, <4>3, AwaitedFirst DEF T
      <4>5. y \notin Partners(world, x)
        <5>1. SUFFICES ASSUME y \in Partners(world, x)
                       PROVE  FALSE
          OBVIOUS
        <5>2. <<x, y>> \in TransactionInfo(world)
          BY <4>1, <5>1 DEF Partners
        <5>3. IsObsoleted(world, <<x, y>>[2])
          BY <1>1, <5>2, ReplacesFacts
        <5>4. QED BY <2>8, <5>3
      <4>6. ~(Position(y) < Position(p))
        BY <2>8, <4>1, <4>4, <4>5
      <4>7. QED BY <1>2, <2>7, <2>8, <4>6
    <3>3. QED BY <3>1, <3>2
  <2>10. k <= Position(q)
    BY <1>2, <2>3, <2>7, <2>8, <2>9
  <2>11. QED BY <2>2, <2>3, <2>10, PresentFacts DEF T
<1>11. QED BY <1>7, <1>8, <1>9, <1>10

LEMMA OrderIsRight == OrderInv /\ PlainInv => OrderSound
<1> SUFFICES ASSUME OrderInv, PlainInv
             PROVE  OrderSound
  OBVIOUS
<1>1. NoCycleLeft
  BY DEF OrderInv, GraphInv, GraphSound, NoCycleLeft
<1>2. OrderRespectsEdges
  BY EdgesRespected DEF OrderRespectsEdges
<1>3. ASSUME phase = "done"
      PROVE  /\ Range(steps) = TransactsMap(world) /\ Len(steps) = Cardinality(TransactsMap(world))
             /\ \A i \in Elements : mark[i] = 0
  <2>1. steps \in Seq(PackagesOf(world)) /\ Distinct(steps) /\ Range(steps) = TransactsMap(world)
    BY <1>3, OrderIsMade
  <2>2. Len(steps) = Cardinality(TransactsMap(world))
    BY <2>1, DistinctCounts
  <2>3. mark = [i \in 1..Len(tes) |-> 0] /\ Elements = 1..Len(tes)
    BY <1>3, OrderFacts DEF OrderInv, OrderMade
  <2>4. QED BY <2>1, <2>2, <2>3
<1>4. ASSUME phase = "done"
      PROVE  \A k \in DOMAIN steps : IsObsoleted(world, steps[k]) =>
               \E j \in 1..(k - 1) :
                 /\ steps[j] \in Partners(world, steps[k])
                 /\ \A m \in (j + 1)..(k - 1) : steps[m] \in Partners(world, steps[j])
                 /\ \A m \in 1..(j - 1) : steps[m] \notin Partners(world, steps[k])
  <2>1. PICK s : OrderOf(s)
    BY <1>4, OrderIsMade
  <2>2. ActiveOnes(world, s) /\ steps = add_obsoleted(world, s) /\ IsTransaction(world)
    BY <1>4, <2>1, OrderFacts DEF OrderOf
  <2>3. QED BY <2>2, OrderFollows
<1>5. StepsKept /\ ObsoletedFollow
  BY <1>3, <1>4 DEF StepsKept, ObsoletedFollow
<1>6. RequirementsInPlace
  BY RequirementFound DEF RequirementsInPlace
<1>7. QED BY <1>1, <1>2, <1>5, <1>6 DEF OrderSound

\* Whatever the transaction: no cycle is left, and the finished order has exactly the steps
\* it had before, each once, each behind those it has an unbroken edge to, and each replaced
\* package behind the first that replaces it. And if there was no cycle, every requirement
\* that can be met is met when its turn comes.
THEOREM OrderIsSound == Spec => []OrderSound
<1>1. Init => OrderInv /\ PlainInv
  <2>1. Init => PlainInv
    BY DEF Init, PlainInv
  <2>2. QED BY <2>1, InitOrderInv
<1>2. (OrderInv /\ PlainInv) /\ [Next]_vars => (OrderInv /\ PlainInv)'
  BY NextOrderInv, NextPlainInv
<1>3. QED BY <1>1, <1>2, OrderIsRight, PTL DEF Spec

----------------------------------------------------------------------------
(* What was a cycle is handled in one go.                                  *)

\* The edges that bind a cycle come on top of the others: none is a need, and
\* none is broken.
LEMMA MoreEdges ==
  ASSUME NEW n, NEW es, NEW fs, PlacesKept(n, es, fs, CycleBits), NEW i \in 1..n, NEW k
  PROVE  /\ Needs(fs, i, k) => Needs(es, i, k)
         /\ Broken(es, i, k) => Broken(fs, i, k)
         /\ Depends(es, i, k) => Depends(fs, i, k)
<1>1. CycleBits \subseteq Marks /\ TYPE_BROKEN \notin CycleBits
  BY BitsAdded DEF CycleBits, Marks
<1>2. ASSUME NEW j \in DOMAIN es[i]
      PROVE  /\ j \in DOMAIN fs[i] /\ fs[i][j].to = es[i][j].to
             /\ Unbroken(fs[i][j]) <=> Unbroken(es[i][j])
             /\ Strength(fs[i][j]) = Strength(es[i][j])
  <2>1. /\ j \in DOMAIN fs[i] /\ fs[i][j].to = es[i][j].to
        /\ fs[i][j].type \ CycleBits = es[i][j].type \ CycleBits
    BY DEF PlacesKept
  <2>2. Strength(fs[i][j]) = Strength(es[i][j])
    BY <1>1, <2>1, StrengthStays
  <2>3. Unbroken(fs[i][j]) <=> Unbroken(es[i][j])
    BY <1>1, <2>1 DEF Unbroken
  <2>4. QED BY <2>1, <2>2, <2>3
<1>3. ASSUME NEW j \in DOMAIN fs[i], Strength(fs[i][j]) > 0
      PROVE  j \in DOMAIN es[i]
  <2>1. SUFFICES ASSUME j \notin DOMAIN es[i]
                 PROVE  FALSE
    OBVIOUS
  <2>2. fs[i][j].type \subseteq CycleBits
    BY <2>1 DEF PlacesKept
  <2>3. fs[i][j].type \ Marks = {}
    BY <1>1, <2>2
  <2>4. Strength(fs[i][j]) = Weight({})
    BY <2>3 DEF Strength, Marks
  <2>5. Weight({}) = 0
    BY DEF Weight
  <2>6. QED BY <1>3, <2>4, <2>5
<1>4. QED BY <1>2, <1>3 DEF Needs, Broken, Depends

LEMMA MoreReached ==
  ASSUME NEW n \in Nat, NEW es, NEW fs, GraphOn(es, n), GraphOn(fs, n),
         PlacesKept(n, es, fs, CycleBits), NEW S \in SUBSET (1..n)
  PROVE  Reached(es, S) \subseteq Reached(fs, S)
<1>1. DOMAIN es = 1..n /\ DOMAIN fs = 1..n
  BY GraphFacts
<1>2. \A i \in 1..n : Successors(es, i) \subseteq Successors(fs, i)
  BY <1>1, MoreEdges DEF Successors
<1>3. QED BY <1>2, FewerReached

\* What a call of addteedge makes is an edge that counts, unless it was broken.
LEMMA CallWaits ==
  ASSUME NEW n \in Nat, NEW es, GraphOn(es, n), NEW calls \in Seq(Calls(n, CycleBits)),
         NEW fs, fs = addteedges(es, calls), NEW i \in 1..n, NEW k, k \in CallsOf(calls, i),
         i # k, ~Broken(fs, i, k)
  PROVE  Depends(fs, i, k)
<1>1. PICK d \in DOMAIN calls : calls[d][1] = i /\ calls[d][2] = k
  BY DEF CallsOf
<1>2. \E j \in DOMAIN fs[i] : fs[i][j].to = k
  BY <1>1, BitsAdded, CallAddsEdge
<1>3. QED BY <1>2 DEF Broken, Depends

\* Cycle c of a graph on n elements is bound: what needs one of it has an edge
\* to its tail, and its head has one to what one of it needs.
BoundIn(n, es, c) ==
  \A i \in (1..n) \ Range(c) : \A k \in Range(c) :
    /\ Needs(es, i, k) /\ i \notin Reached(es, Range(c)) /\ ~Broken(es, i, c[1]) =>
         Depends(es, i, c[1])
    /\ Needs(es, k, i) /\ Reached(es, {i}) \cap Range(c) = {} /\ ~Broken(es, Last(c), i) =>
         Depends(es, Last(c), i)

LEMMA TailWaits ==
  ASSUME NEW n \in Nat, NEW es, GraphOn(es, n), Acyclic(es), NEW c \in Seq(1..n), Len(c) > 0,
         NEW i \in 1..n, i \notin Reached(es, Range(c)), NEW k \in Range(c), Depends(es, i, k),
         ~Broken(TailEdges(es, c), i, c[1])
  PROVE  Depends(TailEdges(es, c), i, c[1])
<1> DEFINE C == Reached(es, Range(c))
<1>1. C = Reached(es, Range(c))
  OBVIOUS
<1> HIDE DEF C
<1>2. Range(c) \subseteq C
  BY <1>1, TailCalls
<1>3. PICK calls \in Seq(Calls(n, CycleBits)) :
        /\ TailEdges(es, c) = addteedges(es, calls)
        /\ \A x \in 1..n : CallsOf(calls, x) \subseteq IF x \in C THEN {} ELSE C
        /\ \A x \in 1..n \ C : \A y \in Range(Tail(c)) :
             Depends(es, x, y) => c[1] \in CallsOf(calls, x)
  BY <1>1, TailCalls
<1>4. c[1] \in Range(c) /\ i # c[1]
  <2>1. c[1] \in Range(c)
    BY DEF Range
  <2>2. QED BY <1>1, <1>2, <2>1
<1>5. CASE k = c[1]
  <2>1. PlacesKept(n, es, TailEdges(es, c), CycleBits)
    BY TailKeeps
  <2>2. QED BY <1>5, <2>1, MoreEdges
<1>6. CASE k # c[1]
  <2>1. k \in Range(Tail(c))
    <3>1. PICK x \in DOMAIN c : c[x] = k
      BY DEF Range
    <3>2. Len(c) \in Nat /\ x \in 1..Len(c) /\ x # 1
      BY <1>6, <3>1
    <3>3. DOMAIN Tail(c) = 1..(Len(c) - 1) /\ \A j \in 1..(Len(c) - 1) : Tail(c)[j] = c[j + 1]
      OBVIOUS
    <3>4. x - 1 \in 1..(Len(c) - 1) /\ (x - 1) + 1 = x
      BY <3>2
    <3>5. Tail(c)[x - 1] = k
      BY <3>1, <3>3, <3>4
    <3>6. QED BY <3>3, <3>4, <3>5 DEF Range
  <2>2. c[1] \in CallsOf(calls, i)
    BY <1>1, <1>3, <2>1
  <2>3. QED BY <1>3, <1>4, <2>2, CallWaits
<1>7. QED BY <1>5, <1>6

LEMMA HeadWaits ==
  ASSUME NEW n \in Nat, NEW es, GraphOn(es, n), Acyclic(es), NEW c \in Seq(1..n), Len(c) > 0,
         NEW i \in 1..n \ Range(c), Reached(es, {i}) \cap Range(c) = {}, NEW k \in Range(c),
         Depends(es, k, i), ~Broken(HeadEdges(es, c), Last(c), i)
  PROVE  Depends(HeadEdges(es, c), Last(c), i)
<1> DEFINE head == Last(c)
           fs == HeadEdges(es, c)
<1>1. head \in 1..n /\ head \in Range(c) /\ head = c[Len(c)]
  BY DEF Range, Last
<1>2. PlacesKept(n, es, fs, CycleBits)
  BY HeadKeeps
<1>3. PICK calls \in Seq(Calls(n, CycleBits)) :
        /\ fs = addteedges(es, calls)
        /\ \A y \in 1..n : \A x \in 1..(Len(c) - 1) :
             Depends(es, c[x], y) /\ Reached(es, {y}) \cap Range(c) = {} =>
               Depends(es, head, y) \/ y \in CallsOf(calls, head)
  BY HeadCalls
<1> HIDE DEF head, fs
<1>4. Depends(es, head, i) \/ i \in CallsOf(calls, head)
  <2>1. PICK x \in DOMAIN c : c[x] = k
    BY DEF Range
  <2>2. Len(c) \in Nat /\ x \in 1..Len(c)
    OBVIOUS
  <2>3. CASE x = Len(c)
    BY <1>1, <2>1, <2>3
  <2>4. CASE x # Len(c)
    <3>1. x \in 1..(Len(c) - 1)
      BY <2>2, <2>4
    <3>2. QED BY <1>3, <2>1, <3>1
  <2>5. QED BY <2>3, <2>4
<1>5. CASE Depends(es, head, i)
  BY <1>1, <1>2, <1>5, MoreEdges DEF head, fs
<1>6. CASE i \in CallsOf(calls, head)
  <2>1. ~Broken(fs, head, i) /\ head # i
    BY <1>1 DEF head, fs
  <2>2. Depends(fs, head, i)
    BY <1>1, <1>3, <1>6, <2>1, CallWaits
  <2>3. QED BY <2>2 DEF head, fs
<1>7. QED BY <1>4, <1>5, <1>6

\* A cycle that is bound stays bound when others are.
LEMMA BoundStays ==
  ASSUME NEW n \in Nat, NEW es, NEW fs, GraphOn(es, n), GraphOn(fs, n),
         PlacesKept(n, es, fs, CycleBits), NEW c \in Seq(1..n), Len(c) > 0, BoundIn(n, es, c)
  PROVE  BoundIn(n, fs, c)
<1>1. Range(c) \in SUBSET (1..n) /\ c[1] \in 1..n /\ Last(c) \in 1..n
  BY DEF Range, Last
<1>2. ASSUME NEW i \in (1..n) \ Range(c), NEW k \in Range(c), Needs(fs, i, k),
             i \notin Reached(fs, Range(c)), ~Broken(fs, i, c[1])
      PROVE  Depends(fs, i, c[1])
  <2>1. i \notin Reached(es, Range(c))
    BY <1>1, <1>2, MoreReached
  <2>2. Needs(es, i, k) /\ ~Broken(es, i, c[1])
    BY <1>2, MoreEdges
  <2>3. Depends(es, i, c[1])
    BY <2>1, <2>2 DEF BoundIn
  <2>4. QED BY <2>3, MoreEdges
<1>3. ASSUME NEW i \in (1..n) \ Range(c), NEW k \in Range(c), Needs(fs, k, i),
             Reached(fs, {i}) \cap Range(c) = {}, ~Broken(fs, Last(c), i)
      PROVE  Depends(fs, Last(c), i)
  <2>1. {i} \in SUBSET (1..n) /\ k \in 1..n
    BY <1>1
  <2>2. Reached(es, {i}) \subseteq Reached(fs, {i})
    BY <2>1, MoreReached
  <2>3. Reached(es, {i}) \cap Range(c) = {}
    BY <1>3, <2>2
  <2>4. Needs(es, k, i) /\ ~Broken(es, Last(c), i)
    BY <1>1, <1>3, <2>1, MoreEdges
  <2>5. Depends(es, Last(c), i)
    BY <2>3, <2>4 DEF BoundIn
  <2>6. QED BY <1>1, <2>5, MoreEdges
<1>4. QED BY <1>2, <1>3 DEF BoundIn

\* addcycleedges binds the cycle.
LEMMA BindBinds ==
  ASSUME NEW n \in Nat, NEW es, GraphOn(es, n), Acyclic(es), NEW c \in Seq(1..n), Len(c) > 0
  PROVE  BoundIn(n, addcycleedges(es, c), c)
<1> DEFINE fs == TailEdges(es, c)
           gs == HeadEdges(fs, c)
<1>1. GraphOn(fs, n) /\ Acyclic(fs) /\ PlacesKept(n, es, fs, CycleBits)
  BY TailKeeps
<1>2. fs = TailEdges(es, c)
  OBVIOUS
<1> HIDE DEF fs
<1>3. GraphOn(gs, n) /\ PlacesKept(n, fs, gs, CycleBits)
  BY <1>1, HeadKeeps
<1>4. gs = HeadEdges(fs, c) /\ addcycleedges(es, c) = gs
  BY <1>2 DEF addcycleedges
<1> HIDE DEF gs
<1>5. Range(c) \in SUBSET (1..n) /\ c[1] \in 1..n /\ Last(c) \in 1..n
  BY DEF Range, Last
<1>6. ASSUME NEW i \in (1..n) \ Range(c), NEW k \in Range(c), Needs(gs, i, k),
             i \notin Reached(gs, Range(c)), ~Broken(gs, i, c[1])
      PROVE  Depends(gs, i, c[1])
  <2>1. Reached(es, Range(c)) \subseteq Reached(fs, Range(c))
    BY <1>1, <1>5, MoreReached
  <2>2. Reached(fs, Range(c)) \subseteq Reached(gs, Range(c))
    BY <1>1, <1>3, <1>5, MoreReached
  <2>3. Needs(fs, i, k) /\ ~Broken(fs, i, c[1])
    BY <1>3, <1>6, MoreEdges
  <2>4. Needs(es, i, k)
    BY <1>1, <2>3, MoreEdges
  <2>5. Depends(es, i, k)
    BY <2>4 DEF Needs, Depends
  <2>6. i \notin Reached(es, Range(c))
    BY <1>6, <2>1, <2>2
  <2>7. Depends(fs, i, c[1])
    BY <1>2, <2>3, <2>5, <2>6, TailWaits
  <2>8. QED BY <1>3, <2>7, MoreEdges
<1>7. ASSUME NEW i \in (1..n) \ Range(c), NEW k \in Range(c), Needs(gs, k, i),
             Reached(gs, {i}) \cap Range(c) = {}, ~Broken(gs, Last(c), i)
      PROVE  Depends(gs, Last(c), i)
  <2>1. {i} \in SUBSET (1..n) /\ k \in 1..n
    BY <1>5
  <2>2. Reached(fs, {i}) \subseteq Reached(gs, {i})
    BY <1>1, <1>3, <2>1, MoreReached
  <2>3. Reached(fs, {i}) \cap Range(c) = {}
    BY <1>7, <2>2
  <2>4. Needs(fs, k, i)
    BY <1>3, <1>7, <2>1, MoreEdges
  <2>5. Depends(fs, k, i)
    BY <2>4 DEF Needs, Depends
  <2>6. QED BY <1>1, <1>4, <1>7, <2>3, <2>5, HeadWaits
<1>8. QED BY <1>4, <1>6, <1>7 DEF BoundIn

\* Every cycle that was broken is bound, or still to be bound.
BoundInv ==
  /\ phase = "build" => cycles = <<>>
  /\ phase \notin {"build", "search"} =>
       /\ \A m \in DOMAIN cycles :
            cycles[m] \in Range(unbound) \/ BoundIn(Len(tes), edges, cycles[m].tes)
       /\ phase # "bind" => unbound = <<>>

LEMMA EndKeepsBound == OrderInv /\ EndSearch => BoundInv'
<1> SUFFICES ASSUME OrderInv, EndSearch
             PROVE  BoundInv'
  OBVIOUS
<1> DEFINE T == CycleRecords(Len(tes))
           latest == Reverse(cycles)
           strong == {c \in Range(cycles) : c.weight >= TYPE_REQ}
           weak == Range(cycles) \ strong
<1>1. /\ phase' = "bind" /\ unbound' = Only(latest, strong) \o Only(latest, weak)
      /\ cycles' = cycles
  BY DEF EndSearch
<1>2. cycles \in Seq(T)
  BY DEF OrderInv, GraphInv, CyclesKept
<1>3. latest \in Seq(T) /\ Range(latest) = Range(cycles)
  BY <1>2, Reversed
<1>4. Range(cycles) = strong \cup weak
  OBVIOUS
<1> HIDE DEF T, latest, strong, weak
<1> DEFINE a == Only(latest, strong)
           b == Only(latest, weak)
<1>5. /\ a \in Seq(T) /\ b \in Seq(T) /\ Range(a) = Range(latest) \cap strong
      /\ Range(b) = Range(latest) \cap weak
  BY <1>3, OnlyPicks
<1> HIDE DEF a, b
<1>6. Range(a \o b) = Range(a) \cup Range(b)
  BY <1>5, JoinedRange
<1>7. Range(unbound') = Range(cycles)
  BY <1>1, <1>3, <1>4, <1>5, <1>6 DEF a, b
<1>8. \A m \in DOMAIN cycles : cycles[m] \in Range(cycles)
  BY DEF Range
<1>9. QED BY <1>1, <1>7, <1>8 DEF BoundInv

LEMMA BindKeepsBound == OrderInv /\ BoundInv /\ Bind => BoundInv'
<1> SUFFICES ASSUME OrderInv, BoundInv, Bind
             PROVE  BoundInv'
  OBVIOUS
<1> DEFINE n == Len(tes)
           c == Head(unbound).tes
<1>1. /\ phase = "bind" /\ unbound # <<>> /\ edges' = addcycleedges(edges, c)
      /\ unbound' = Tail(unbound) /\ phase' = phase /\ tes' = tes /\ cycles' = cycles
  BY DEF Bind
<1>2. /\ n \in Nat /\ GraphOn(edges, n) /\ Acyclic(edges)
      /\ cycles \in Seq(CycleRecords(n)) /\ unbound \in Seq(CycleRecords(n))
  BY <1>1, OrderFacts DEF OrderInv, GraphInv, CyclesKept
<1>3. \A r \in CycleRecords(n) : r.tes \in Seq(1..n) /\ Len(r.tes) > 0
  <2>1. ASSUME NEW r \in CycleRecords(n)
        PROVE  r.tes \in Seq(1..n) /\ r.tes # <<>>
    BY DEF CycleRecords
  <2>2. QED BY <2>1
<1>4. Head(unbound) \in CycleRecords(n)
  BY <1>1, <1>2
<1>5. c \in Seq(1..n) /\ Len(c) > 0
  BY <1>3, <1>4
<1>6. \A r \in Range(unbound) : r = Head(unbound) \/ r \in Range(Tail(unbound))
  <2>1. ASSUME NEW j \in DOMAIN unbound, j # 1
        PROVE  unbound[j] \in Range(Tail(unbound))
    <3>1. /\ DOMAIN Tail(unbound) = 1..(Len(unbound) - 1) /\ Len(unbound) \in Nat
          /\ \A x \in 1..(Len(unbound) - 1) : Tail(unbound)[x] = unbound[x + 1]
      BY <1>1, <1>2
    <3>2. j - 1 \in 1..(Len(unbound) - 1) /\ (j - 1) + 1 = j
      BY <1>2, <2>1, <3>1
    <3>3. Tail(unbound)[j - 1] = unbound[j]
      BY <3>1, <3>2
    <3>4. QED BY <3>1, <3>2, <3>3 DEF Range
  <2>2. unbound[1] = Head(unbound)
    BY <1>1, <1>2
  <2>3. QED BY <2>1, <2>2 DEF Range
<1> HIDE DEF c
<1>7. /\ GraphOn(edges', n) /\ PlacesKept(n, edges, edges', CycleBits)
      /\ BoundIn(n, edges', c)
  BY <1>1, <1>2, <1>5, BindKeeps, BindBinds
<1>8. ASSUME NEW m \in DOMAIN cycles
      PROVE  cycles[m] \in Range(Tail(unbound)) \/ BoundIn(n, edges', cycles[m].tes)
  <2>1. cycles[m] \in CycleRecords(n)
    BY <1>2
  <2>2. cycles[m].tes \in Seq(1..n) /\ Len(cycles[m].tes) > 0
    BY <1>3, <2>1
  <2>3. CASE cycles[m] \in Range(unbound)
    <3>1. CASE cycles[m] = Head(unbound)
      BY <1>7, <3>1 DEF c
    <3>2. QED BY <1>6, <2>3, <3>1
  <2>4. CASE BoundIn(n, edges, cycles[m].tes)
    <3> DEFINE d == cycles[m].tes
    <3>1. d \in Seq(1..n) /\ Len(d) > 0 /\ BoundIn(n, edges, d)
      BY <2>2, <2>4
    <3> HIDE DEF d
    <3>2. BoundIn(n, edges', d)
      BY <1>2, <1>7, <3>1, BoundStays
    <3>3. QED BY <3>2 DEF d
  <2>5. QED BY <1>1, <2>3, <2>4 DEF BoundInv
<1>9. Len(tes)' = n
  BY <1>1
<1>10. QED BY <1>1, <1>8, <1>9 DEF BoundInv

LEMMA BoundLasts ==
  ASSUME BoundInv, phase \notin {"build", "search"}, phase = "bind" => unbound = <<>>,
         phase' # "build",
         UNCHANGED <<tes, edges, cycles, unbound>>
  PROVE  BoundInv'
BY DEF BoundInv

LEMMA NextBoundInv == OrderInv /\ BoundInv /\ [Next]_vars => BoundInv'
<1> SUFFICES ASSUME OrderInv, BoundInv, [Next]_vars
             PROVE  BoundInv'
  OBVIOUS
<1>1. CASE Build
  <2>1. CASE phase' = "search"
    BY <2>1 DEF BoundInv
  <2>2. CASE phase' = "done"
    <3>1. cycles' = cycles /\ unbound' = unbound /\ phase = "build"
      BY <1>1 DEF Build
    <3>2. cycles = <<>> /\ unbound = <<>>
      BY <3>1 DEF OrderInv, NotBegun, BoundInv
    <3>3. DOMAIN <<>> = {}
      OBVIOUS
    <3>4. QED BY <3>1, <3>2, <3>3 DEF BoundInv
  <2>3. QED BY <1>1, <2>1, <2>2 DEF Build
<1>2. CASE Leave \/ SkipDone \/ Enter \/ BreakCycle
  BY <1>2 DEF Leave, SkipDone, Enter, BreakCycle, searching, BoundInv
<1>3. CASE EndSearch
  BY <1>3, EndKeepsBound
<1>4. CASE Bind
  BY <1>4, BindKeepsBound
<1>5. CASE Arrange
  BY <1>5, BoundLasts DEF Arrange
<1>6. CASE HandleUninstall \/ HandleSameMedium \/ ChangeMedium
  BY <1>6, BoundLasts DEF HandleUninstall, HandleSameMedium, ChangeMedium, ordering
<1>7. CASE Finish
  BY <1>7, BoundLasts DEF Finish
<1>8. CASE FirstChoices
  BY <1>8, BoundLasts DEF FirstChoices, HasOrderdata
<1>9. CASE ChooseOffered \/ ChooseEarly
  BY <1>9, BoundLasts DEF ChooseOffered, ChooseEarly, Choose
<1>10. CASE NoChoices \/ UNCHANGED vars
  <2>1. UNCHANGED vars
    BY <1>10 DEF NoChoices
  <2>2. QED BY <2>1 DEF vars, BoundInv
<1>11. QED BY <1>1, <1>2, <1>3, <1>4, <1>5, <1>6, <1>7, <1>8, <1>9, <1>10 DEF Next, Order

\* A sequence of numbers that falls all the way.
LEMMA Falls ==
  ASSUME NEW L \in Nat, NEW f \in [1..L -> Int], \A x \in 1..(L - 1) : f[x + 1] < f[x],
         NEW x \in 1..L
  PROVE  f[x] <= f[1] /\ f[L] <= f[x]
<1>1. f[x] <= f[1]
  <2> DEFINE P == {y \in 0..(L - 1) : f[y + 1] <= f[1]}
  <2>1. L - 1 \in Nat /\ 0 \in P
    OBVIOUS
  <2>2. ASSUME NEW k \in 1..(L - 1), k - 1 \in P
        PROVE  k \in P
    <3>1. f[k] <= f[1]
      BY <2>2
    <3>2. f[k + 1] < f[k] /\ f[k] \in Int /\ f[k + 1] \in Int /\ f[1] \in Int
      OBVIOUS
    <3>3. QED BY <3>1, <3>2
  <2> HIDE DEF P
  <2>3. 0..(L - 1) \subseteq P
    BY <2>1, <2>2, UpTo
  <2>4. x - 1 \in P /\ (x - 1) + 1 = x
    BY <2>3
  <2>5. QED BY <2>4 DEF P
<1>2. f[L] <= f[x]
  <2> DEFINE P == {y \in 0..(L - 1) : f[L] <= f[L - y]}
  <2>1. L - 1 \in Nat /\ 0 \in P
    OBVIOUS
  <2>2. ASSUME NEW k \in 1..(L - 1), k - 1 \in P
        PROVE  k \in P
    <3>1. f[L] <= f[L - (k - 1)] /\ L - (k - 1) = (L - k) + 1
      BY <2>2
    <3>2. L - k \in 1..(L - 1) /\ (L - k) + 1 \in 1..L
      OBVIOUS
    <3>3. f[(L - k) + 1] < f[L - k] /\ f[L - k] \in Int /\ f[(L - k) + 1] \in Int /\ f[L] \in Int
      BY <3>2
    <3>4. QED BY <3>1, <3>3
  <2> HIDE DEF P
  <2>3. 0..(L - 1) \subseteq P
    BY <2>1, <2>2, UpTo
  <2>4. L - x \in P /\ L - (L - x) = x
    BY <2>3
  <2>5. QED BY <2>4 DEF P
<1>3. QED BY <1>1, <1>2

LEMMA TesPositions ==
  ASSUME OrderInv, phase = "done", NEW i \in Elements
  PROVE  Position(tes[i]) \in Int
<1>1. tes = ActiveSteps(world) /\ IsTransaction(world)
  BY OrderFacts DEF OrderInv, GraphInv, ElementsSet
<1>2. tes[i] \in Range(ActiveSteps(world))
  BY <1>1 DEF Range, Elements
<1>3. tes[i] \in TransactsMap(world)
  BY <1>1, <1>2, ActiveFacts
<1>4. QED BY <1>3, PositionFacts DEF PositionsRight

\* A cycle without further broken edges stands from its head to its tail.
LEMMA WholeInOrder ==
  ASSUME OrderInv, phase = "done", NEW c \in Seq(1..Len(tes)), Len(c) > 0, Whole(c),
         NEW m \in Range(c)
  PROVE  /\ Position(tes[m]) <= Position(tes[c[1]])
         /\ Position(tes[Last(c)]) <= Position(tes[m])
<1> DEFINE L == Len(c)
           f == [x \in 1..L |-> Position(tes[c[x]])]
<1>1. L \in Nat /\ Elements = 1..Len(tes) /\ \A x \in 1..L : c[x] \in Elements
  BY OrderFacts
<1>2. \A i \in Elements : Position(tes[i]) \in Int
  BY TesPositions
<1>3. f \in [1..L -> Int] /\ \A x \in 1..L : f[x] = Position(tes[c[x]])
  BY <1>1, <1>2
<1>4. ASSUME NEW x \in 1..(L - 1)
      PROVE  f[x + 1] < f[x]
  <2>1. x \in 1..L /\ x + 1 \in 1..L
    BY <1>1
  <2>2. Depends(edges, c[x], c[x + 1])
    BY DEF Whole
  <2>3. c[x] \in Elements /\ c[x + 1] \in Elements
    BY <1>1, <2>1
  <2>4. Position(tes[c[x + 1]]) < Position(tes[c[x]])
    BY <2>2, <2>3, EdgesRespected
  <2>5. QED BY <2>1, <2>4
<1>5. PICK x \in DOMAIN c : c[x] = m
  BY DEF Range
<1>6. x \in 1..L /\ 1 \in 1..L /\ L \in 1..L
  BY <1>1
<1> HIDE DEF f
<1>7. f[x] <= f[1] /\ f[L] <= f[x]
  BY <1>1, <1>3, <1>4, <1>6, Falls
<1>8. QED BY <1>3, <1>5, <1>6, <1>7 DEF Last

LEMMA CyclesHandled == OrderInv /\ BoundInv => CyclesStayTogether
<1> SUFFICES ASSUME OrderInv, BoundInv, phase = "done",
                    NEW r \in DOMAIN cycles, Whole(cycles[r].tes),
                    NEW i \in Elements \ Range(cycles[r].tes),
                    NEW k \in Range(cycles[r].tes), NEW m \in Range(cycles[r].tes)
             PROVE  LET c == cycles[r].tes
                    IN  /\ /\ Needs(edges, i, k) /\ i \notin Reached(edges, Range(c))
                           /\ ~Broken(edges, i, c[1])
                           => Position(tes[m]) < Position(tes[i])
                        /\ /\ Needs(edges, k, i) /\ Reached(edges, {i}) \cap Range(c) = {}
                           /\ ~Broken(edges, Last(c), i)
                           => Position(tes[i]) < Position(tes[m])
  BY DEF CyclesStayTogether
<1> DEFINE n == Len(tes)
           c == cycles[r].tes
<1>1. n \in Nat /\ Elements = 1..n
  BY OrderFacts
<1>2. c \in Seq(1..n) /\ Len(c) > 0
  <2>1. cycles[r] \in CycleRecords(n)
    BY DEF OrderInv, GraphInv, CyclesKept
  <2>2. c \in Seq(1..n) /\ c # <<>>
    BY <2>1 DEF CycleRecords
  <2> HIDE DEF c
  <2>3. QED BY <2>2
<1>3. BoundIn(n, edges, c)
  <2>1. Range(unbound) = {}
    BY EmptyRange DEF BoundInv
  <2>2. QED BY <2>1 DEF BoundInv
<1>4. i \in (1..n) \ Range(c) /\ k \in Range(c) /\ m \in Range(c) /\ Whole(c)
  BY <1>1
<1> HIDE DEF c
<1>5. /\ c[1] \in Elements /\ Last(c) \in Elements /\ m \in Elements /\ i \in Elements
  BY <1>1, <1>2, <1>4 DEF Range, Last
<1>6. \A x \in Elements : Position(tes[x]) \in Int
  BY TesPositions
<1>7. /\ Position(tes[m]) <= Position(tes[c[1]])
      /\ Position(tes[Last(c)]) <= Position(tes[m])
  BY <1>2, <1>4, WholeInOrder DEF n
<1>8. ASSUME Needs(edges, i, k), i \notin Reached(edges, Range(c)), ~Broken(edges, i, c[1])
      PROVE  Position(tes[m]) < Position(tes[i])
  <2>1. Depends(edges, i, c[1])
    BY <1>3, <1>4, <1>8 DEF BoundIn
  <2>2. Position(tes[c[1]]) < Position(tes[i])
    BY <1>5, <2>1, EdgesRespected
  <2>3. QED BY <1>5, <1>6, <1>7, <2>2
<1>9. ASSUME Needs(edges, k, i), Reached(edges, {i}) \cap Range(c) = {},
             ~Broken(edges, Last(c), i)
      PROVE  Position(tes[i]) < Position(tes[m])
  <2>1. Depends(edges, Last(c), i)
    BY <1>3, <1>4, <1>9 DEF BoundIn
  <2>2. Position(tes[i]) < Position(tes[Last(c)])
    BY <1>5, <2>1, EdgesRespected
  <2>3. QED BY <1>5, <1>6, <1>7, <2>2
<1>10. QED BY <1>8, <1>9 DEF c

\* Whatever the transaction: an element that needs one of a former cycle and that the cycle
\* does not lead to comes behind all of it, and one that the cycle needs and that does not
\* lead to it comes before all of it, however many cycles were broken and bound.
THEOREM CyclesAreHandledTogether == Spec => []CyclesStayTogether
<1>1. Init => OrderInv /\ BoundInv
  <2>1. Init => BoundInv
    BY DEF Init, BoundInv
  <2>2. QED BY <2>1, InitOrderInv
<1>2. (OrderInv /\ BoundInv) /\ [Next]_vars => (OrderInv /\ BoundInv)'
  BY NextOrderInv, NextBoundInv
<1>3. QED BY <1>1, <1>2, CyclesHandled, PTL DEF Spec

----------------------------------------------------------------------------
(* The assertions.                                                         *)

LEMMA FewLeft ==
  ASSUME NEW n \in Nat, NEW S, S \subseteq 1..n
  PROVE  Cardinality(S) \in 0..n
<1>1. IsFiniteSet(1..n) /\ Cardinality(1..n) = n
  <2>1. IsFiniteSet(1..n) /\ Cardinality(1..n) = IF 1 > n THEN 0 ELSE n - 1 + 1
    BY FS_Interval
  <2>2. QED BY <2>1
<1>2. IsFiniteSet(S) /\ Cardinality(S) <= n
  BY <1>1, FS_Subset
<1>3. Cardinality(S) \in Nat
  BY <1>2, FS_CardinalityType
<1>4. QED BY <1>2, <1>3

LEMMA MarksTyped ==
  ASSUME OrderInv
  PROVE  /\ DOMAIN edges = Elements /\ DOMAIN mark = Elements
         /\ \A i \in Elements : \A j \in DOMAIN edges[i] : edges[i][j] \in EdgeLists(Len(tes))
         /\ \A i \in Elements : mark[i] \in IF phase \in {"search", "bind"} THEN 0..2 ELSE (-1)..Len(tes)
<1> DEFINE n == Len(tes)
<1>1. n \in Nat /\ Elements = 1..n
  BY ElementFacts DEF OrderInv, GraphInv
<1>2. phase \in Phases
  BY DEF OrderInv, GraphInv, ElementsSet
<1>3. CASE phase = "build"
  <2>1. tes = <<>> /\ edges = <<>> /\ mark = <<>>
    BY <1>3 DEF OrderInv, NotBegun, GraphInv, ElementsSet
  <2>2. Elements = {}
    BY <2>1 DEF Elements
  <2>3. QED BY <2>1, <2>2
<1>4. ASSUME phase # "build"
      PROVE  /\ GraphOn(edges, n) /\ DOMAIN edges = 1..n
             /\ \A i \in 1..n : \A j \in DOMAIN edges[i] : edges[i][j] \in EdgeLists(n)
  <2>1. GraphOn(edges, n)
    BY <1>4 DEF OrderInv, GraphInv, GraphSound, StackSound, Stack
  <2>2. QED BY <1>1, <2>1, GraphFacts
<1>5. CASE phase = "search"
  <2>1. mark \in [1..n -> 0..2]
    BY <1>5 DEF OrderInv, GraphInv, StackSound, Stack, StackTyped
  <2>2. QED BY <1>1, <1>4, <1>5, <2>1
<1>6. CASE phase = "bind"
  <2>1. mark \in [1..n -> 0..2]
    BY <1>6 DEF OrderInv, NotBegun
  <2>2. QED BY <1>1, <1>4, <1>6, <2>1
<1>7. \A i \in 1..n : \A H : phase # "build" => Cardinality(Successors(edges, i) \ H) \in 0..n
  <2>1. SUFFICES ASSUME NEW i \in 1..n, NEW H, phase # "build"
                 PROVE  Cardinality(Successors(edges, i) \ H) \in 0..n
    OBVIOUS
  <2>2. Successors(edges, i) \ H \subseteq 1..n
    BY <1>1, <1>4, <2>1, GraphFacts
  <2>3. QED BY <1>1, <2>2, FewLeft
<1>8. CASE phase = "order"
  <2> DEFINE H == HandledOf(n, tes, steps)
  <2>1. CountsRight(n, edges, mark, H)
    BY <1>8 DEF OrderInv, OrderKept, OrderRight
  <2> HIDE DEF H
  <2>2. DOMAIN mark = 1..n /\ \A i \in 1..n : mark[i] = Cardinality(Successors(edges, i) \ H)
    BY <2>1 DEF CountsRight
  <2>3. \A i \in 1..n : mark[i] \in 0..n
    BY <1>7, <1>8, <2>2
  <2>4. \A i \in 1..n : mark[i] \in (-1)..n
    BY <1>1, <2>3
  <2>5. QED BY <1>1, <1>4, <1>8, <2>2, <2>4
<1>9. CASE phase = "done"
  <2>1. mark = [i \in 1..n |-> 0]
    BY <1>9 DEF OrderInv, OrderMade
  <2>2. \A i \in 1..n : mark[i] \in (-1)..n
    BY <1>1, <2>1
  <2>3. QED BY <1>1, <1>4, <1>9, <2>1, <2>2
<1>10. CASE phase = "choose"
  <2> DEFINE H == {i \in 1..n : tes[i] \in installed}
             O == {i \in 1..n : tes[i] \in Range(choices)}
  <2>1. ChoicesRight(n, edges, tes, mark, choices, installed)
    BY <1>10 DEF OrderInv, ChoicesKept
  <2>2. /\ DOMAIN mark = 1..n
        /\ \A i \in 1..n : mark[i] = IF i \in O THEN 0 ELSE IF i \in H THEN -1
                                     ELSE Cardinality(Successors(edges, i) \ H)
    BY <2>1 DEF ChoicesRight
  <2> HIDE DEF H, O
  <2>3. \A i \in 1..n : mark[i] = 0 \/ mark[i] = -1 \/ mark[i] \in 0..n
    BY <1>7, <1>10, <2>2
  <2>4. \A i \in 1..n : mark[i] \in (-1)..n
    BY <1>1, <2>3
  <2>5. QED BY <1>1, <1>4, <1>10, <2>2, <2>4
<1>11. QED BY <1>2, <1>3, <1>5, <1>6, <1>8, <1>9, <1>10 DEF Phases

LEMMA StacksTyped ==
  ASSUME OrderInv
  PROVE  /\ \A j \in DOMAIN todo : todo[j] \in (-Len(tes))..Len(tes) /\ todo[j] # 0
         /\ Range(uninstq) \cup Range(samerepoq) \subseteq Elements
         /\ \A k \in DOMAIN cycles : Range(cycles[k].tes) \subseteq Elements
         /\ Range(unbound) \subseteq Range(cycles)
<1> DEFINE n == Len(tes)
<1>1. n \in Nat /\ Elements = 1..n
  BY ElementFacts DEF OrderInv, GraphInv
<1>2. phase \in Phases
  BY DEF OrderInv, GraphInv, ElementsSet
<1>3. Range(unbound) \subseteq Range(cycles)
  BY DEF OrderInv, CyclesBound
<1>4. ASSUME NEW k \in DOMAIN cycles
      PROVE  Range(cycles[k].tes) \subseteq Elements
  <2>1. cycles \in Seq(CycleRecords(n))
    BY DEF OrderInv, GraphInv, CyclesKept
  <2>2. cycles[k] \in CycleRecords(n)
    BY <2>1
  <2>3. cycles[k].tes \in Seq(1..n)
    BY <2>2 DEF CycleRecords
  <2> DEFINE c == cycles[k].tes
  <2> HIDE DEF c
  <2>4. c \in Seq(1..n)
    BY <2>3 DEF c
  <2>5. Range(c) \subseteq 1..n
    BY <2>4 DEF Range
  <2>6. QED BY <1>1, <2>5 DEF c
<1>5. CASE phase = "search"
  <2>1. todo \in Seq(Literals(1..n))
    BY <1>5 DEF OrderInv, GraphInv, StackSound, Stack, StackTyped
  <2>2. uninstq = <<>> /\ samerepoq = <<>>
    BY <1>5 DEF OrderInv, NotBegun
  <2>3. \A l \in Literals(1..n) : l \in (-n)..n /\ l # 0
    BY <1>1 DEF Literals
  <2>4. \A j \in DOMAIN todo : todo[j] \in Literals(1..n)
    BY <2>1
  <2>5. QED BY <1>3, <1>4, <2>2, <2>3, <2>4, EmptyRange
<1>6. CASE phase \in {"build", "bind", "done", "choose"}
  <2>1. todo = <<>> /\ uninstq = <<>> /\ samerepoq = <<>>
    BY <1>6 DEF OrderInv, NotBegun, OrderMade
  <2>2. DOMAIN todo = {}
    BY <2>1
  <2>3. QED BY <1>3, <1>4, <2>1, <2>2, EmptyRange
<1>7. CASE phase = "order"
  <2>1. todo \in Seq(1..n) /\ uninstq \in Seq(1..n) /\ samerepoq \in Seq(1..n)
    BY <1>7, QueueFacts
  <2>2. \A j \in DOMAIN todo : todo[j] \in 1..n
    BY <2>1
  <2>3. \A j \in DOMAIN todo : todo[j] \in (-n)..n /\ todo[j] # 0
    BY <1>1, <2>2
  <2>4. Range(uninstq) \subseteq 1..n /\ Range(samerepoq) \subseteq 1..n
    BY <2>1 DEF Range
  <2>5. QED BY <1>1, <1>3, <1>4, <2>3, <2>4
<1>8. QED BY <1>2, <1>5, <1>6, <1>7 DEF Phases

LEMMA PackagesTyped ==
  ASSUME OrderInv
  PROVE  Range(steps) \cup Range(choices) \cup installed \subseteq PackagesOf(world)
<1> DEFINE P == PackagesOf(world)
<1>1. IsTransaction(world) /\ tes \in Seq(P) /\ phase \in Phases
  BY ElementFacts DEF OrderInv, GraphInv, ElementsSet
<1>2. Range(tes) \subseteq P
  <2> HIDE DEF P
  <2>1. QED BY <1>1 DEF Range
<1>3. Range(steps) \subseteq P
  <2>1. CASE phase \in {"build", "search", "bind"}
    <3>1. steps = StepsOf(world)
      BY <2>1 DEF OrderInv, NotBegun
    <3>2. steps \in Seq(P)
      BY <1>1, <3>1, StepsFacts
    <3> HIDE DEF P
    <3>3. QED BY <3>2 DEF Range
  <2>2. CASE phase = "order"
    <3>1. steps \in Seq(Range(tes))
      BY <2>2 DEF OrderInv, OrderKept, OrderRight, StepsRight
    <3> DEFINE R == Range(tes)
    <3> HIDE DEF R
    <3>2. Range(steps) \subseteq R
      BY <3>1 DEF Range, R
    <3>3. QED BY <1>2, <3>2 DEF R
  <2>3. CASE phase \in {"done", "choose"}
    <3>1. steps \in Seq(P)
      BY <2>3, OrderIsMade
    <3> HIDE DEF P
    <3>2. QED BY <3>1 DEF Range
  <2>4. QED BY <1>1, <2>1, <2>2, <2>3 DEF Phases
<1>4. Range(choices) \subseteq P /\ installed \subseteq P
  <2>1. CASE phase = "choose"
    <3>1. choices \in Seq(Range(tes)) /\ installed \subseteq Range(tes)
      BY <2>1 DEF OrderInv, ChoicesKept, ChoicesRight
    <3> DEFINE R == Range(tes)
    <3> HIDE DEF R
    <3>2. Range(choices) \subseteq R
      BY <3>1 DEF Range, R
    <3>3. QED BY <1>2, <3>1, <3>2 DEF R
  <2>2. CASE phase # "choose"
    BY <2>2, EmptyRange DEF OrderInv, ChoicesKept
  <2>3. QED BY <2>1, <2>2
<1>5. QED BY <1>3, <1>4

LEMMA TypesHold == OrderInv => OrderTypeOK
<1> SUFFICES ASSUME OrderInv
             PROVE  OrderTypeOK
  OBVIOUS
<1>1. /\ PackagesOf(world) = 1..Len(world.name) /\ phase \in Phases
      /\ \A i \in Elements : tes[i] \in PackagesOf(world)
  <2>1. IsTransaction(world) /\ (\A i \in Elements : tes[i] \in PackagesOf(world)) /\ phase \in Phases
    BY ElementFacts DEF OrderInv, GraphInv, ElementsSet
  <2>2. world.name \in Seq(Nat)
    BY <2>1 DEF IsTransaction
  <2>3. QED BY <2>1, <2>2 DEF PackagesOf
<1>2. QED BY <1>1, MarksTyped, StacksTyped, PackagesTyped DEF OrderTypeOK, Phases

LEMMA ChoicesAssert == OrderInv => ChoiceAsserts
<1> SUFFICES ASSUME OrderInv, phase = "choose"
             PROVE  /\ IsInjective(choices)
                    /\ \A i \in Elements : tes[i] \notin installed => \A k \in Range(invedges[i]) : mark[k] # 0
  BY DEF ChoiceAsserts
<1> DEFINE n == Len(tes)
           H == {i \in 1..n : tes[i] \in installed}
           O == {i \in 1..n : tes[i] \in Range(choices)}
<1>1. n \in Nat /\ Elements = 1..n /\ GraphOn(edges, n)
  BY OrderFacts
<1>2. /\ Distinct(choices)
      /\ \A i \in 1..n : mark[i] = IF i \in O THEN 0 ELSE IF i \in H THEN -1
                                   ELSE Cardinality(Successors(edges, i) \ H)
      /\ \A i \in 1..n : Successors(edges, i) \subseteq H => i \in O \cup H
      /\ \A i \in O : Successors(edges, i) \subseteq H
  BY DEF OrderInv, ChoicesKept, ChoicesRight
<1>3. InvertedRight(n, edges, invedges)
  BY DEF OrderInv, OrderMade
<1>4. ASSUME NEW i \in 1..n, tes[i] \notin installed, NEW k \in Range(invedges[i])
      PROVE  mark[k] # 0
  <2>1. k \in 1..n /\ i \in Successors(edges, k)
    BY <1>3 DEF InvertedRight
  <2>2. i \notin H
    BY <1>4
  <2> HIDE DEF H, O
  <2>3. k \notin O
    BY <1>2, <2>1, <2>2
  <2> DEFINE W == Successors(edges, k) \ H
  <2>4. W # {} /\ W \subseteq 1..n
    BY <1>1, <2>1, <2>2, GraphFacts
  <2> HIDE DEF W
  <2>5. IsFiniteSet(W)
    <3>1. IsFiniteSet(1..n)
      BY <1>1, FS_Interval
    <3>2. QED BY <2>4, <3>1, FS_Subset
  <2>6. Cardinality(W) # 0
    BY <2>4, <2>5, FS_EmptySet
  <2>7. mark[k] = -1 \/ mark[k] = Cardinality(W)
    BY <1>2, <2>1, <2>3 DEF W
  <2>8. QED BY <2>6, <2>7
<1>5. IsInjective(choices)
  BY <1>2 DEF Distinct, IsInjective
<1>6. QED BY <1>1, <1>4, <1>5

\* Whatever the transaction: the variables hold what they should, the assertions of the
\* search and those of the choices hold, and no package is offered twice.
THEOREM AssertionsAlwaysHold == Spec => []AssertionsHold
<1>1. OrderInv => OrderTypeOK /\ ChoiceAsserts
  BY TypesHold, ChoicesAssert
<1>2. Spec => [](OrderTypeOK /\ ChoiceAsserts)
  BY <1>1, InitOrderInv, NextOrderInv, PTL DEF Spec
<1>3. AssertionsHold <=> OrderTypeOK /\ CycleOnStack /\ DoneIsClosed /\ ChoiceAsserts
  BY DEF AssertionsHold
<1>4. QED BY <1>2, <1>3, SearchIsSound, PTL

----------------------------------------------------------------------------
(* The promise of module DependencyOrder.                                  *)

\* Its variables.
Waits ==
  IF phase \in {"order", "done", "choose"} THEN [i \in Elements |-> Successors(edges, i)] ELSE <<>>
OnOffer ==
  IF phase = "choose" THEN {i \in Elements : Contains(choices, tes[i])}
  ELSE Handled \cup (IF phase = "order"
         THEN Range(uninstq) \cup Range(samerepoq) \cup Range(todo) ELSE {})

WaitsOf(n, es) == [i \in 1..n |-> Successors(es, i)]

\* What they are, phase by phase.
BeforeOrder == Waits = <<>> /\ Handled = {} /\ OnOffer = {}
DuringOrder ==
  LET n == Len(tes)
      H == HandledOf(n, tes, steps)
  IN  /\ Waits = WaitsOf(n, edges) /\ Handled = H /\ OnOffer = ReadyOf(n, edges, H)
      /\ H \subseteq OnOffer
AfterOrder ==
  LET n == Len(tes)
  IN  Waits = WaitsOf(n, edges) /\ Handled = 1..n /\ OnOffer = 1..n
WhileChoosing ==
  LET n == Len(tes)
  IN  /\ Waits = WaitsOf(n, edges) /\ Handled = ElementsIn(n, tes, installed)
      /\ OnOffer = ElementsIn(n, tes, Range(choices))

LEMMA AtFirst == phase \in {"build", "search", "bind"} => BeforeOrder
BY DEF BeforeOrder, Waits, Handled, OnOffer

LEMMA AtOrder == OrderInv /\ phase = "order" => DuringOrder
<1> SUFFICES ASSUME OrderInv, phase = "order"
             PROVE  DuringOrder
  OBVIOUS
<1> DEFINE n == Len(tes)
           H == HandledOf(n, tes, steps)
           Q == Range(uninstq) \cup Range(samerepoq) \cup Range(todo)
<1>1. n \in Nat /\ Elements = 1..n /\ DOMAIN tes = 1..n /\ GraphOn(edges, n)
  BY OrderFacts
<1>2. /\ CountsRight(n, edges, mark, H) /\ StepsRight(n, edges, tes, steps)
      /\ Q = Free(n, mark) \ H
  BY QueueFacts DEF OrderRight
<1>3. Waits = WaitsOf(n, edges)
  BY <1>1 DEF Waits, WaitsOf
<1>4. Handled = H
  BY <1>1 DEF Handled, HandledOf
<1>5. OnOffer = H \cup Q
  BY <1>4 DEF OnOffer
<1>6. \A i \in H : Successors(edges, i) \subseteq H
  <2>1. SUFFICES ASSUME NEW i \in 1..n, tes[i] \in Range(steps), NEW k \in Successors(edges, i)
                 PROVE  k \in H
    BY DEF HandledOf
  <2>2. PICK a \in DOMAIN steps : steps[a] = tes[i]
    BY <2>1 DEF Range
  <2>3. PICK b \in 1..(a - 1) : steps[b] = tes[k]
    BY <1>2, <2>1, <2>2 DEF StepsRight
  <2>4. steps \in Seq(Range(tes))
    BY <1>2 DEF StepsRight
  <2>5. b \in DOMAIN steps
    BY <2>2, <2>3, <2>4
  <2>6. k \in 1..n
    BY <1>1, <2>1, GraphFacts
  <2>7. QED BY <2>3, <2>5, <2>6 DEF HandledOf, Range
<1>7. H \subseteq 1..n
  BY DEF HandledOf
<1> HIDE DEF H, Q
<1>8. Free(n, mark) = ReadyOf(n, edges, H)
  <2>1. \A i \in 1..n : mark[i] = 0 <=> Successors(edges, i) \subseteq H
    BY <1>1, <1>2, FreeFacts
  <2>2. QED BY <2>1 DEF Free, ReadyOf
<1>9. H \subseteq ReadyOf(n, edges, H)
  BY <1>6, <1>7 DEF ReadyOf
<1>10. OnOffer = ReadyOf(n, edges, H)
  BY <1>2, <1>5, <1>8, <1>9
<1>11. QED BY <1>3, <1>4, <1>9, <1>10 DEF DuringOrder, H

LEMMA AtEnd == OrderInv /\ phase = "done" => AfterOrder
<1> SUFFICES ASSUME OrderInv, phase = "done"
             PROVE  AfterOrder
  OBVIOUS
<1>1. Elements = 1..Len(tes)
  BY OrderFacts
<1>2. QED BY <1>1 DEF AfterOrder, Waits, WaitsOf, Handled, OnOffer

LEMMA AtChoices == OrderInv /\ phase = "choose" => WhileChoosing
<1> SUFFICES ASSUME OrderInv, phase = "choose"
             PROVE  WhileChoosing
  OBVIOUS
<1>1. Elements = 1..Len(tes)
  BY OrderFacts
<1>2. choices \in Seq(Range(tes))
  BY DEF OrderInv, ChoicesKept, ChoicesRight
<1>3. \A i \in Elements : Contains(choices, tes[i]) <=> tes[i] \in Range(choices)
  BY <1>2, ContainsIsRange
<1>4. QED BY <1>1, <1>3 DEF WhileChoosing, Waits, WaitsOf, Handled, OnOffer, ElementsIn

LEMMA ReadyIsReady ==
  ASSUME NEW n, NEW es, NEW H, Waits = WaitsOf(n, es)
  PROVE  /\ DOMAIN Waits = 1..n /\ \A i \in 1..n : Waits[i] = Successors(es, i)
         /\ {i \in DOMAIN Waits : Waits[i] \subseteq H} = ReadyOf(n, es, H)
BY DEF WaitsOf, ReadyOf

\* The steps of DependencyOrder in terms of these.
SettleStep ==
  /\ Waits = <<>>
  /\ \A i \in DOMAIN Waits' : Waits'[i] \subseteq DOMAIN Waits' \ {i}
  /\ Handled' = {} /\ OnOffer' = {i \in DOMAIN Waits' : Waits'[i] = {}}
NextStep(i) ==
  /\ i \in OnOffer \ Handled /\ Handled' = Handled \cup {i}
  /\ OnOffer' = OnOffer \cup ({j \in DOMAIN Waits : Waits[j] \subseteq Handled'} \ Handled)
  /\ Waits' = Waits
EarlyStep(i) ==
  /\ i \notin OnOffer \cup Handled /\ Handled' = Handled \cup {i}
  /\ OnOffer' = OnOffer \cup ({j \in DOMAIN Waits : Waits[j] \subseteq Handled'} \ Handled')
  /\ Waits' = Waits
AgainStep ==
  /\ Handled' = {} /\ OnOffer' = {j \in DOMAIN Waits : Waits[j] \subseteq {}} /\ Waits' = Waits
PromiseStep ==
  \/ SettleStep \/ (\E i \in DOMAIN Waits : NextStep(i) \/ EarlyStep(i)) \/ AgainStep
  \/ UNCHANGED <<Waits, Handled, OnOffer>>

LEMMA HandlingPromised ==
  ASSUME OrderInv, OrderInv', phase = "order", NEW i, HandlesNext(i)
  PROVE  NextStep(i) /\ i \in DOMAIN Waits
<1> DEFINE n == Len(tes)
           H == HandledOf(n, tes, steps)
           Hn == HandledOf(n, tes, steps')
<1>1. /\ i \in Free(n, mark) \ H /\ Hn = H \cup {i}
      /\ world' = world /\ tes' = tes /\ edges' = edges /\ phase' = "order"
  BY DEF HandlesNext, ordering
<1>2. /\ Waits = WaitsOf(n, edges) /\ Handled = H /\ OnOffer = ReadyOf(n, edges, H)
      /\ H \subseteq OnOffer
  BY AtOrder DEF DuringOrder
<1>3. (OrderInv /\ phase = "order" => DuringOrder)'
  BY AtOrder, PTL
<1>4. Waits' = WaitsOf(n, edges) /\ Handled' = Hn /\ OnOffer' = ReadyOf(n, edges, Hn)
  BY <1>1, <1>3 DEF DuringOrder
<1>5. n \in Nat /\ GraphOn(edges, n) /\ CountsRight(n, edges, mark, H)
  BY OrderFacts, QueueFacts DEF OrderRight
<1> HIDE DEF H, Hn
<1>6. i \in ReadyOf(n, edges, H) /\ i \in 1..n
  BY <1>1, <1>5, FreeFacts DEF Free, ReadyOf
<1>7. {j \in DOMAIN Waits : Waits[j] \subseteq Handled'} = ReadyOf(n, edges, Hn) /\ DOMAIN Waits = 1..n
  BY <1>2, <1>4, ReadyIsReady
<1>8. ReadyOf(n, edges, H) \subseteq ReadyOf(n, edges, Hn)
  BY <1>1 DEF ReadyOf
<1>9. OnOffer' = OnOffer \cup (ReadyOf(n, edges, Hn) \ Handled)
  BY <1>2, <1>4, <1>8
<1>10. QED BY <1>1, <1>2, <1>4, <1>6, <1>7, <1>9 DEF NextStep

LEMMA ChoicePromised ==
  ASSUME OrderInv, OrderInv', NEW i \in Elements, Choose(i)
  PROVE  (NextStep(i) \/ EarlyStep(i)) /\ i \in DOMAIN Waits
<1> DEFINE n == Len(tes)
           H == ElementsIn(n, tes, installed)
           O == ElementsIn(n, tes, Range(choices))
           Hn == ElementsIn(n, tes, installed')
           On == ElementsIn(n, tes, Range(choices'))
<1>1. /\ i \notin H /\ phase = "choose" /\ phase' = "choose" /\ i \in 1..n
      /\ Hn = H \cup {i} /\ On = O \cup (ReadyOf(n, edges, H \cup {i}) \ (H \cup {i}))
      /\ tes' = tes /\ edges' = edges
  BY ChoiceRight
<1>2. Waits = WaitsOf(n, edges) /\ Handled = H /\ OnOffer = O
  BY <1>1, AtChoices DEF WhileChoosing
<1>3. (OrderInv /\ phase = "choose" => WhileChoosing)'
  BY AtChoices, PTL
<1>4. Waits' = WaitsOf(n, edges) /\ Handled' = Hn /\ OnOffer' = On
  BY <1>1, <1>3 DEF WhileChoosing
<1> HIDE DEF H, Hn, O, On
<1>5. {j \in DOMAIN Waits : Waits[j] \subseteq Handled'} = ReadyOf(n, edges, Hn) /\ DOMAIN Waits = 1..n
  BY <1>2, <1>4, ReadyIsReady
<1>6. CASE i \in O
  <2>1. OnOffer' = OnOffer \cup (ReadyOf(n, edges, Hn) \ Handled)
    BY <1>1, <1>2, <1>4, <1>6
  <2>2. QED BY <1>1, <1>2, <1>4, <1>5, <1>6, <2>1 DEF NextStep
<1>7. CASE i \notin O
  <2>1. OnOffer' = OnOffer \cup (ReadyOf(n, edges, Hn) \ Handled')
    BY <1>1, <1>2, <1>4
  <2>2. QED BY <1>1, <1>2, <1>4, <1>5, <1>7, <2>1 DEF EarlyStep
<1>8. QED BY <1>6, <1>7

\* The order is settled.
LEMMA ArrangePromised ==
  ASSUME OrderInv, OrderInv', Arrange
  PROVE  SettleStep
<1> DEFINE n == Len(tes)
<1>1. /\ phase = "bind" /\ phase' = "order" /\ tes' = tes /\ edges' = edges
      /\ HandledOf(n, tes, steps') = {} /\ n \in Nat /\ GraphOn(edges, n)
  BY OrderFacts, ArrangeOrders DEF Arrange
<1>2. BeforeOrder
  BY <1>1, AtFirst
<1>3. (OrderInv /\ phase = "order" => DuringOrder)'
  BY AtOrder, PTL
<1>4. Waits' = WaitsOf(n, edges) /\ Handled' = {} /\ OnOffer' = ReadyOf(n, edges, {})
  BY <1>1, <1>3 DEF DuringOrder
<1>5. DOMAIN Waits' = 1..n /\ \A i \in 1..n : Waits'[i] = Successors(edges, i)
  BY <1>4 DEF WaitsOf
<1>6. \A i \in 1..n : Successors(edges, i) \subseteq (1..n) \ {i}
  BY <1>1, GraphFacts
<1>7. OnOffer' = {i \in DOMAIN Waits' : Waits'[i] = {}}
  BY <1>4, <1>5 DEF ReadyOf
<1>8. QED BY <1>2, <1>4, <1>5, <1>6, <1>7 DEF SettleStep, BeforeOrder

LEMMA FinishPromised ==
  ASSUME OrderInv, OrderInv', Finish
  PROVE  UNCHANGED <<Waits, Handled, OnOffer>>
<1> DEFINE n == Len(tes)
<1>1. /\ phase = "order" /\ phase' = "done" /\ tes' = tes /\ edges' = edges
      /\ HandledOf(n, tes, steps) = 1..n
  BY AllHandled DEF Finish
<1>2. /\ Waits = WaitsOf(n, edges) /\ Handled = 1..n /\ OnOffer = ReadyOf(n, edges, 1..n)
      /\ 1..n \subseteq OnOffer
  BY <1>1, AtOrder DEF DuringOrder
<1>3. (OrderInv /\ phase = "done" => AfterOrder)'
  BY AtEnd, PTL
<1>4. Waits' = WaitsOf(n, edges) /\ Handled' = 1..n /\ OnOffer' = 1..n
  BY <1>1, <1>3 DEF AfterOrder
<1>5. ReadyOf(n, edges, 1..n) \subseteq 1..n
  BY DEF ReadyOf
<1>6. OnOffer = 1..n
  BY <1>2, <1>5
<1>7. QED BY <1>2, <1>4, <1>6

LEMMA RoundPromised ==
  ASSUME OrderInv, OrderInv', FirstChoices
  PROVE  AgainStep
<1> DEFINE n == Len(tes)
<1>1. /\ phase \in {"done", "choose"} /\ phase' = "choose" /\ tes' = tes /\ edges' = edges
      /\ installed' = {} /\ ElementsIn(n, tes, Range(choices')) = ReadyOf(n, edges, {})
  BY FirstChoicesRight
<1>2. Waits = WaitsOf(n, edges)
  BY <1>1, AtEnd, AtChoices DEF AfterOrder, WhileChoosing
<1>3. (OrderInv /\ phase = "choose" => WhileChoosing)'
  BY AtChoices, PTL
<1>4. /\ Waits' = WaitsOf(n, edges) /\ Handled' = ElementsIn(n, tes, {})
      /\ OnOffer' = ReadyOf(n, edges, {})
  BY <1>1, <1>3 DEF WhileChoosing
<1>5. ElementsIn(n, tes, {}) = {}
  BY DEF ElementsIn
<1>6. {j \in DOMAIN Waits : Waits[j] \subseteq {}} = ReadyOf(n, edges, {})
  BY <1>2, ReadyIsReady
<1>7. QED BY <1>2, <1>4, <1>5, <1>6 DEF AgainStep

LEMMA NothingPromised ==
  ASSUME OrderInv, OrderInv', Build, phase' = "done"
  PROVE  UNCHANGED <<Waits, Handled, OnOffer>>
<1>1. phase = "build" /\ Len(ActiveSteps(world)) = 0 /\ tes' = ActiveSteps(world) /\ world' = world
  BY DEF Build
<1>2. BeforeOrder
  BY <1>1, AtFirst
<1>3. Len(tes') = 0
  BY <1>1
<1>4. (OrderInv /\ phase = "done" => AfterOrder)'
  BY AtEnd, PTL
<1>5. Waits' = WaitsOf(0, edges') /\ Handled' = 1..0 /\ OnOffer' = 1..0
  BY <1>3, <1>4 DEF AfterOrder
<1>6. 1..0 = {}
  OBVIOUS
<1>7. WaitsOf(0, edges') = <<>>
  BY <1>6 DEF WaitsOf
<1>8. QED BY <1>2, <1>5, <1>6, <1>7 DEF BeforeOrder

LEMMA NextPromised == OrderInv /\ OrderInv' /\ [Next]_vars => PromiseStep
<1> SUFFICES ASSUME OrderInv, OrderInv', [Next]_vars
             PROVE  PromiseStep
  OBVIOUS
<1>1. (phase \in {"build", "search", "bind"} => BeforeOrder)'
  BY AtFirst, PTL
<1>2. ASSUME phase \in {"build", "search", "bind"}, phase' \in {"build", "search", "bind"}
      PROVE  PromiseStep
  BY <1>1, <1>2, AtFirst DEF BeforeOrder, PromiseStep
<1>3. CASE Build
  <2>1. phase = "build" /\ phase' \in {"search", "done"}
    BY <1>3 DEF Build
  <2>2. QED BY <1>2, <1>3, <2>1, NothingPromised DEF PromiseStep
<1>4. CASE Leave \/ SkipDone \/ Enter \/ BreakCycle
  <2>1. phase = "search" /\ phase' = "search"
    BY <1>4 DEF Leave, SkipDone, Enter, BreakCycle, searching
  <2>2. QED BY <1>2, <2>1
<1>5. CASE EndSearch \/ Bind
  <2>1. phase \in {"search", "bind"} /\ phase' = "bind"
    BY <1>5 DEF EndSearch, Bind
  <2>2. QED BY <1>2, <2>1
<1>6. CASE Arrange
  BY <1>6, ArrangePromised DEF PromiseStep
<1>7. CASE HandleUninstall \/ HandleSameMedium \/ ChangeMedium
  <2>1. phase = "order"
    BY <1>7 DEF HandleUninstall, HandleSameMedium, ChangeMedium
  <2>2. PICK i : HandlesNext(i)
    BY <1>7, UninstallHandled, SameMediumHandled, NewMediumHandled
  <2>3. NextStep(i) /\ i \in DOMAIN Waits
    BY <2>1, <2>2, HandlingPromised
  <2>4. QED BY <2>3 DEF PromiseStep
<1>8. CASE Finish
  BY <1>8, FinishPromised DEF PromiseStep
<1>9. CASE FirstChoices
  BY <1>9, RoundPromised DEF PromiseStep
<1>10. CASE ChooseOffered \/ ChooseEarly
  <2>1. PICK i \in Elements : Choose(i)
    BY <1>10 DEF ChooseOffered, ChooseEarly
  <2>2. (NextStep(i) \/ EarlyStep(i)) /\ i \in DOMAIN Waits
    BY <2>1, ChoicePromised
  <2>3. QED BY <2>2 DEF PromiseStep
<1>11. CASE NoChoices \/ UNCHANGED vars
  <2>1. UNCHANGED vars
    BY <1>11 DEF NoChoices
  <2>2. UNCHANGED <<phase, tes, edges, steps, uninstq, samerepoq, todo, choices, installed>>
    BY <2>1 DEF vars
  <2>3. UNCHANGED <<Waits, Handled, OnOffer>>
    BY <2>2 DEF Waits, Handled, OnOffer, Elements
  <2>4. QED BY <2>3 DEF PromiseStep
<1>12. QED BY <1>3, <1>4, <1>5, <1>6, <1>7, <1>8, <1>9, <1>10, <1>11 DEF Next, Order

\* transaction_order and transaction_order_add_choices keep the promise of an ordering,
\* whatever the transaction: each step of theirs is one that DependencyOrder allows, or
\* none that it sees.
THEOREM OrderKeepsPromise == Spec => KeepsPromise
<1>1. Init => Promise!Init
  <2>1. Init => BeforeOrder
    BY AtFirst DEF Init
  <2>2. BeforeOrder => Promise!Init
    BY DEF BeforeOrder, Waits, OnOffer, Promise!Init
  <2>3. QED BY <2>1, <2>2
<1>2. PromiseStep => [Promise!Next]_(Promise!orderVars)
  <2>1. SettleStep => Promise!Settle
    BY DEF SettleStep, Waits, OnOffer, Promise!Settle
  <2>2. \A i : NextStep(i) => Promise!HandleNext(i)
    BY DEF NextStep, Waits, OnOffer, Promise!HandleNext, Promise!Ready
  <2>3. \A i : EarlyStep(i) => Promise!HandleEarly(i)
    BY DEF EarlyStep, Waits, OnOffer, Promise!HandleEarly, Promise!Ready
  <2>4. AgainStep => Promise!StartOver
    BY DEF AgainStep, Waits, OnOffer, Promise!StartOver, Promise!Ready
  <2>5. UNCHANGED <<Waits, Handled, OnOffer>> => UNCHANGED Promise!orderVars
    BY DEF Waits, OnOffer, Promise!orderVars
  <2>6. (\E i \in DOMAIN Waits : NextStep(i) \/ EarlyStep(i)) => Promise!Next
    BY <2>2, <2>3 DEF Waits, Promise!Next
  <2>7. QED BY <2>1, <2>4, <2>5, <2>6 DEF PromiseStep, Promise!Next
<1>3. OrderInv /\ OrderInv' /\ [Next]_vars => [Promise!Next]_(Promise!orderVars)
  BY <1>2, NextPromised
<1>4. QED
  BY <1>1, <1>3, InitOrderInv, NextOrderInv, PTL DEF Spec, KeepsPromise, Promise!Spec
=============================================================================
