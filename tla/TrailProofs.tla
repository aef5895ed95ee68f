----------------------------- MODULE TrailProofs -----------------------------
(***************************************************************************)
(* What the operators of Rules and Trail do, for every rule array, trail,  *)
(* literal and level: what a problem id stands for, and the two steps all  *)
(* of the solver's changes to decisionq, decisionq_why and decisionmap are *)
(* made of.  The facts on Min, Max, Only and sequences are used by all     *)
(* proofs about the solver.                                                *)
(***************************************************************************)
EXTENDS Trail, TLAPS, WellFoundedInduction, SequenceTheorems

----------------------------------------------------------------------------
(* Sets of numbers, sequences, and the rules.                              *)

\* Min and Max of FiniteSetsExt find what their names say.
LEMMA MinIsLeast ==
  ASSUME NEW S, S \subseteq Nat, S # {}
  PROVE  Min(S) \in S /\ \A y \in S : Min(S) <= y
<1>1. PICK x \in S : \A y \in S : <<y, x>> \notin OpToRel(<, Nat)
  BY NatLessThanWellFounded, WFMin, Zenon
<1>2. \A y \in S : x <= y
  <2>1. SUFFICES ASSUME NEW y \in S, ~(x <= y)
                 PROVE  FALSE
    OBVIOUS
  <2>2. y < x /\ x \in Nat /\ y \in Nat
    BY <2>1
  <2>3. <<y, x>> \in OpToRel(<, Nat)
    BY <2>2 DEF OpToRel
  <2>4. QED BY <1>1, <2>3
<1>3. QED BY <1>2 DEF Min

LEMMA MaxIsGreatest ==
  ASSUME NEW n \in Nat, NEW S, S \subseteq 0..n, S # {}
  PROVE  Max(S) \in S /\ \A y \in S : y <= Max(S)
<1> DEFINE T == {n - x : x \in S}
<1>1. T \subseteq Nat /\ T # {}
  <2>1. \A x \in S : n - x \in Nat
    OBVIOUS
  <2>2. QED BY <2>1, Zenon
<1>2. PICK m \in T : \A y \in T : m <= y
  BY <1>1, MinIsLeast
<1>3. PICK x \in S : m = n - x
  OBVIOUS
<1>4. \A y \in S : n - y \in T
  OBVIOUS
<1>5. \A y \in S : y <= x
  BY <1>2, <1>3, <1>4
<1>6. QED BY <1>5 DEF Max

----------------------------------------------------------------------------

\* The rules disabled and reported together with a rule are in its area; only
\* jobs and package names stand for more than the rule itself.
LEMMA GroupStaysInArea ==
  ASSUME NEW rs, NEW i \in DOMAIN rs
  PROVE  /\ i \in GroupOfRule(rs, i)
         /\ \A k \in GroupOfRule(rs, i) :
              /\ k \in DOMAIN rs /\ rs[k].area = rs[i].area
              /\ rs[i].area \notin GroupedAreas => k = i
         /\ rs[i].area \in GroupedAreas =>
              \A k \in GroupOfRule(rs, i) : GroupOfRule(rs, k) = GroupOfRule(rs, i)
BY DEF GroupOfRule

\* Both ways to name the problem of a rule (makeruledecisions takes the rule,
\* analyze_unsolvable_rule the first rule of its group) make
\* solver_disableproblem disable exactly the rule's group.
THEOREM JobProblemNamesGroup ==
  ASSUME NEW rs, WellGrouped(rs), NEW i \in DOMAIN rs
  PROVE  ProblemRules(rs, JobProblem(rs, i)) = GroupOfRule(rs, i)
<1>1. i \in Nat /\ i > 0 /\ rs[i].grp \in Nat
      /\ (rs[i].grp # 0 <=> rs[i].area \in GroupedAreas)
  BY DEF WellGrouped
<1>2. CASE rs[i].area = "job"
  <2>1. JobProblem(rs, i) < 0 /\ -JobProblem(rs, i) = rs[i].grp
    BY <1>1, <1>2 DEF JobProblem, GroupedAreas
  <2>2. QED BY <2>1, <1>2 DEF ProblemRules, GroupOfRule, GroupedAreas, RulesIn
<1>3. CASE rs[i].area # "job"
  BY <1>1, <1>3 DEF JobProblem, ProblemRules
<1>4. QED BY <1>2, <1>3

THEOREM ProblemIdNamesGroup ==
  ASSUME NEW rs, WellGrouped(rs), NEW i \in DOMAIN rs
  PROVE  ProblemRules(rs, ProblemId(rs, i)) = GroupOfRule(rs, i)
<1>1. CASE rs[i].area = "job"
  BY <1>1, JobProblemNamesGroup DEF JobProblem, ProblemId
<1>2. CASE rs[i].area # "job"
  <2> DEFINE G == GroupOfRule(rs, i)
  <2>1. G \subseteq Nat /\ \A k \in G : k > 0
    BY GroupStaysInArea DEF WellGrouped
  <2>2. Min(G) \in G
    BY <2>1, GroupStaysInArea, MinIsLeast
  <2>3. ProblemId(rs, i) = Min(G) /\ ~(Min(G) < 0)
    BY <1>2, <2>1, <2>2 DEF ProblemId
  <2>4. GroupOfRule(rs, Min(G)) = G
    <3>1. CASE rs[i].area \in GroupedAreas
      BY <3>1, <2>2, GroupStaysInArea
    <3>2. CASE rs[i].area \notin GroupedAreas
      BY <3>2, <2>2, GroupStaysInArea
    <3>3. QED BY <3>1, <3>2
  <2>5. QED BY <2>3, <2>4 DEF ProblemRules
<1>3. QED BY <1>1, <1>2

----------------------------------------------------------------------------
(* Recursion over an interval, and what Only picks from a sequence.        *)

\* Induction over an interval, for a set of numbers.
LEMMA UpTo ==
  ASSUME NEW n \in Nat, NEW P, 0 \in P,
         \A k \in 1..n : k - 1 \in P => k \in P
  PROVE  0..n \subseteq P
<1> DEFINE bad == {k \in 0..n : k \notin P}
<1>1. SUFFICES ASSUME bad # {}
               PROVE  FALSE
  OBVIOUS
<1>2. Min(bad) \in bad /\ \A y \in bad : Min(bad) <= y
  BY <1>1, MinIsLeast
<1> DEFINE m == Min(bad)
<1> HIDE DEF m
<1>3. m \in 1..n /\ m - 1 \in 0..n
  BY <1>2 DEF m
<1>4. m - 1 \in P
  BY <1>2, <1>3 DEF m
<1>5. QED BY <1>2, <1>3, <1>4 DEF m

\* f is built from base by step.
Built(f, n, S, base, step) ==
  /\ f \in [0..n -> S] /\ f[0] = base
  /\ \A k \in 1..n : f[k] = step[<<k, f[k - 1]>>]

\* What a recursion over an interval defines exists.
LEMMA Iterates ==
  ASSUME NEW n \in Nat, NEW S, NEW base \in S, NEW step \in [(1..n) \X S -> S]
  PROVE  \E f : Built(f, n, S, base, step)
<1> DEFINE Good(m, f) == Built(f, m, S, base, step)
           P == {m \in 0..n : \E f : Good(m, f)}
<1> USE DEF Built
<1>1. 0 \in P
  <2> DEFINE g == [k \in 0..0 |-> base]
  <2>1. Good(0, g)
    OBVIOUS
  <2> HIDE DEF g, Good
  <2>2. QED BY <2>1
<1>2. ASSUME NEW m \in 1..n, m - 1 \in P
      PROVE  m \in P
  <2>1. PICK f : Good(m - 1, f)
    BY <1>2
  <2> DEFINE g == [k \in 0..m |-> IF k = m THEN step[<<m, f[m - 1]>>] ELSE f[k]]
  <2>2. f[m - 1] \in S
    BY <2>1
  <2>3. step[<<m, f[m - 1]>>] \in S
    BY <2>2
  <2>4. g \in [0..m -> S] /\ g[0] = base
    BY <2>1, <2>3
  <2>5. \A k \in 1..m : g[k] = step[<<k, g[k - 1]>>]
    <3>1. TAKE k \in 1..m
    <3>2. g[k - 1] = f[k - 1]
      OBVIOUS
    <3>3. k = m => g[k] = step[<<k, f[k - 1]>>]
      OBVIOUS
    <3>4. k # m => g[k] = step[<<k, f[k - 1]>>]
      BY <2>1
    <3>5. QED BY <3>2, <3>3, <3>4
  <2>6. Good(m, g)
    BY <2>4, <2>5
  <2> HIDE DEF g, Good
  <2>7. QED BY <2>6
<1>3. n \in P
  <2> HIDE DEF P
  <2>1. 0..n \subseteq P
    BY <1>1, <1>2, UpTo
  <2>2. QED BY <2>1
<1>4. QED BY <1>3

LEMMA CycleReaches ==
  ASSUME NEW n \in Nat, n > 0, NEW a \in 1..n, NEW i \in 1..n
  PROVE  \E k \in 0..(n - 1) : ((a - 1 + k) % n) + 1 = i
<1> DEFINE k == IF i >= a THEN i - a ELSE i - a + n
<1>1. k \in 0..(n - 1) /\ a - 1 + k \in {i - 1, i - 1 + n}
  OBVIOUS
<1>2. (i - 1) % n = i - 1 /\ (i - 1 + n) % n = i - 1
  OBVIOUS
<1>3. ((a - 1 + k) % n) + 1 = i
  <2> HIDE DEF k
  <2>1. QED BY <1>1, <1>2
<1>4. QED BY <1>1, <1>3

LEMMA CycleStays ==
  ASSUME NEW n \in Nat, n > 0, NEW a \in Int
  PROVE  (a % n) + 1 \in 1..n
OBVIOUS


\* only[k] are the elements picked from the first k.
OnlySteps(only, s, S, T) ==
  /\ only \in [0..Len(s) -> Seq(T)] /\ only[0] = <<>>
  /\ \A k \in 1..Len(s) :
       only[k] = IF s[k] \in S THEN Append(only[k - 1], s[k]) ELSE only[k - 1]
  /\ Only(s, S) = only[Len(s)]

\* Only(s, S) is built from left to right.
LEMMA OnlyBuilds ==
  ASSUME NEW T, NEW s \in Seq(T), NEW S
  PROVE  \E only : OnlySteps(only, s, S, T)
<1> DEFINE n == Len(s)
           step == [kx \in (1..n) \X Seq(T) |->
                      IF s[kx[1]] \in S THEN Append(kx[2], s[kx[1]]) ELSE kx[2]]
<1>1. n \in Nat
  OBVIOUS
<1>2. step \in [(1..n) \X Seq(T) -> Seq(T)]
  <2>1. ASSUME NEW k \in 1..n, NEW x \in Seq(T)
        PROVE  (IF s[k] \in S THEN Append(x, s[k]) ELSE x) \in Seq(T)
    OBVIOUS
  <2>2. QED BY <2>1
<1>3. <<>> \in Seq(T)
  OBVIOUS
<1> HIDE DEF step, n
<1>4. PICK f : Built(f, n, Seq(T), <<>>, step)
  BY <1>1, <1>2, <1>3, Iterates
<1>5. \A k \in 1..n : f[k] = IF s[k] \in S THEN Append(f[k - 1], s[k]) ELSE f[k - 1]
  <2>1. TAKE k \in 1..n
  <2>2. f[k - 1] \in Seq(T)
    BY <1>1, <1>4 DEF Built
  <2>3. step[<<k, f[k - 1]>>] = IF s[k] \in S THEN Append(f[k - 1], s[k]) ELSE f[k - 1]
    BY <2>2 DEF step
  <2>4. QED BY <1>4, <2>3 DEF Built
<1> DEFINE Rec(g) == g = [k \in 0..n |-> IF k = 0 THEN <<>>
                            ELSE IF s[k] \in S THEN Append(g[k - 1], s[k]) ELSE g[k - 1]]
<1>6. Rec(f)
  <2> DEFINE rhs == [k \in 0..n |-> IF k = 0 THEN <<>>
                       ELSE IF s[k] \in S THEN Append(f[k - 1], s[k]) ELSE f[k - 1]]
  <2>1. ASSUME NEW k \in 0..n
        PROVE  f[k] = rhs[k]
    <3>1. CASE k = 0
      BY <1>4, <3>1 DEF Built
    <3>2. CASE k # 0
      <4>1. k \in 1..n
        BY <1>1, <3>2
      <4>2. QED BY <1>5, <3>2, <4>1
    <3>3. QED BY <3>1, <3>2
  <2>2. f = [k \in 0..n |-> f[k]]
    BY <1>4 DEF Built
  <2>3. rhs = [k \in 0..n |-> rhs[k]]
    OBVIOUS
  <2> HIDE DEF rhs
  <2>4. f = rhs
    BY <2>1, <2>2, <2>3
  <2>5. QED BY <2>4 DEF rhs
<1> DEFINE o == CHOOSE g : Rec(g)
<1>7. Rec(o) /\ Only(s, S) = o[n]
  <2>1. Only(s, S) = o[n]
    BY DEF Only, n
  <2> HIDE DEF Rec
  <2>2. QED BY <1>6, <2>1
<1> HIDE DEF o
<1>8. o[0] = <<>> /\ \A k \in 1..n : o[k] = IF s[k] \in S THEN Append(o[k - 1], s[k]) ELSE o[k - 1]
  <2>1. DOMAIN o = 0..n
    BY <1>7
  <2>2. 0 \in 0..n /\ \A k \in 1..n : k \in 0..n /\ k # 0
    BY <1>1
  <2>3. o = [k \in 0..n |-> IF k = 0 THEN <<>>
                            ELSE IF s[k] \in S THEN Append(o[k - 1], s[k]) ELSE o[k - 1]]
    BY <1>7
  <2>4. o[0] = <<>>
    BY <2>2, <2>3
  <2>5. ASSUME NEW k \in 1..n
        PROVE  o[k] = IF s[k] \in S THEN Append(o[k - 1], s[k]) ELSE o[k - 1]
    BY <2>2, <2>3
  <2>6. QED BY <2>4, <2>5
<1> HIDE DEF Rec
<1> DEFINE P == {k \in 0..n : o[k] \in Seq(T)}
<1>9. 0..n \subseteq P
  <2>1. 0 \in P
    <3>1. o[0] \in Seq(T)
      BY <1>3, <1>8
    <3>2. QED BY <1>1, <3>1
  <2>2. ASSUME NEW k \in 1..n, k - 1 \in P
        PROVE  k \in P
    <3>1. s[k] \in T /\ o[k - 1] \in Seq(T)
      BY <1>1, <2>2 DEF n
    <3>2. o[k] \in Seq(T)
      <4>1. Append(o[k - 1], s[k]) \in Seq(T)
        BY <3>1
      <4>2. o[k] = IF s[k] \in S THEN Append(o[k - 1], s[k]) ELSE o[k - 1]
        BY <1>8
      <4>3. QED BY <3>1, <4>1, <4>2
    <3>3. QED BY <1>1, <3>2
  <2> HIDE DEF P
  <2>3. QED BY <1>1, <2>1, <2>2, UpTo
<1>10. o \in [0..n -> Seq(T)]
  <2>1. o = [k \in 0..n |-> o[k]]
    BY <1>7 DEF Rec
  <2>2. QED BY <1>9, <2>1
<1>11. OnlySteps(o, s, S, T)
  BY <1>7, <1>8, <1>10 DEF n, OnlySteps
<1>12. QED BY <1>11

\* Only picks the elements that are in S.
LEMMA OnlyPicks ==
  ASSUME NEW T, NEW s \in Seq(T), NEW S
  PROVE  /\ Only(s, S) \in Seq(T) /\ Range(Only(s, S)) = Range(s) \cap S
         /\ (\A j, k \in DOMAIN s : s[j] = s[k] => j = k) =>
              \A j, k \in DOMAIN Only(s, S) : Only(s, S)[j] = Only(s, S)[k] => j = k
<1> DEFINE n == Len(s)
           Distinct(q) == \A j, k \in DOMAIN q : q[j] = q[k] => j = k
<1>0. PICK only : OnlySteps(only, s, S, T)
  BY OnlyBuilds
<1>1. /\ only \in [0..n -> Seq(T)] /\ only[0] = <<>>
      /\ \A k \in 1..n :
           only[k] = IF s[k] \in S THEN Append(only[k - 1], s[k]) ELSE only[k - 1]
      /\ Only(s, S) = only[n]
  BY <1>0 DEF OnlySteps
<1>2. n \in Nat /\ DOMAIN s = 1..n
  OBVIOUS
<1> DEFINE Right(k) == /\ \A x : x \in Range(only[k]) <=> \E j \in 1..k : s[j] = x /\ x \in S
                       /\ Distinct(s) => Distinct(only[k])
           P == {k \in 0..n : Right(k)}
<1>3. 0 \in P
  <2>1. Range(<<>>) = {} /\ Distinct(<<>>)
    BY DEF Range
  <2>2. QED BY <1>1, <1>2, <2>1
<1>4. ASSUME NEW k \in 1..n, k - 1 \in P
      PROVE  k \in P
  <2> HIDE DEF n
  <2>1. only[k - 1] \in Seq(T) /\ s[k] \in T /\ k - 1 \in 0..n /\ k \in 0..n
    BY <1>1, <1>2, <1>4
  <2>2. 1..k = (1..(k - 1)) \cup {k}
    BY <1>2
  <2>3. CASE s[k] \in S
    <3> DEFINE q == only[k - 1]
    <3>1. only[k] = Append(q, s[k])
      BY <1>1, <2>3
    <3>2. /\ DOMAIN only[k] = 1..(Len(q) + 1) /\ only[k][Len(q) + 1] = s[k]
          /\ \A j \in 1..Len(q) : only[k][j] = q[j]
          /\ DOMAIN q = 1..Len(q) /\ Len(q) \in Nat
      BY <2>1, <3>1
    <3> HIDE DEF q
    <3>3. Range(only[k]) = Range(q) \cup {s[k]}
      BY <3>2 DEF Range
    <3>4. \A x : x \in Range(q) <=> \E j \in 1..(k - 1) : s[j] = x /\ x \in S
      BY <1>4 DEF q
    <3>5. \A x : x \in Range(only[k]) <=> \E j \in 1..k : s[j] = x /\ x \in S
      BY <2>2, <2>3, <3>3, <3>4
    <3>6. ASSUME Distinct(s)
          PROVE  Distinct(only[k])
      <4>1. \A j \in 1..(k - 1) : s[j] # s[k]
        <5>1. TAKE j \in 1..(k - 1)
        <5>2. j \in DOMAIN s /\ k \in DOMAIN s /\ j # k
          BY <1>2
        <5>3. QED BY <3>6, <5>2
      <4>2. s[k] \notin Range(q)
        BY <3>4, <4>1
      <4>3. \A j \in 1..Len(q) : q[j] # s[k]
        BY <3>2, <4>2 DEF Range
      <4>4. Distinct(q)
        BY <1>4, <3>6 DEF q
      <4>5. QED BY <3>2, <4>3, <4>4
    <3>7. QED BY <2>1, <3>5, <3>6
  <2>4. CASE s[k] \notin S
    <3>1. only[k] = only[k - 1]
      BY <1>1, <2>4
    <3>2. QED BY <1>4, <2>1, <2>2, <2>4, <3>1
  <2>5. QED BY <2>3, <2>4
<1>5. Right(n)
  <2>1. 0..n \subseteq P
    <3> HIDE DEF P, n
    <3>1. QED BY <1>2, <1>3, <1>4, UpTo
  <2>2. QED BY SMTT(30), <1>2, <2>1
<1>6. Range(only[n]) = Range(s) \cap S
  BY <1>2, <1>5 DEF Range
<1>7. QED BY <1>1, <1>2, <1>5, <1>6

----------------------------------------------------------------------------
(* Sequences without repetitions.                                          *)

LEMMA RangeFacts ==
  ASSUME NEW T, NEW q \in Seq(T)
  PROVE  /\ \A x : x \in Range(q) <=> \E j \in 1..Len(q) : q[j] = x
         /\ Range(q) \subseteq T
  BY DEF Range

\* An element taken out of a sequence without repetitions.
LEMMA TakenOut ==
  ASSUME NEW T, NEW q \in Seq(T), NEW i \in 1..Len(q),
         \A j, k \in 1..Len(q) : q[j] = q[k] => j = k,
         NEW r, r = RemoveAt(q, i)
  PROVE  /\ r \in Seq(T) /\ Range(r) = Range(q) \ {q[i]} /\ DOMAIN r = 1..Len(r)
         /\ Len(r) = Len(q) - 1
         /\ \A j \in 1..Len(r) : r[j] = IF j < i THEN q[j] ELSE q[j + 1]
         /\ \A j, k \in DOMAIN r : r[j] = r[k] => j = k
<1> DEFINE n == Len(q)
           a == SubSeq(q, 1, i - 1)
           b == SubSeq(q, i + 1, n)
<1>1. n \in Nat /\ i \in Nat /\ i > 0 /\ i <= n /\ DOMAIN q = 1..n
  OBVIOUS
<1>2. a \in Seq(T) /\ Len(a) = i - 1 /\ \A j \in 1..(i - 1) : a[j] = q[j]
  <2>1. \A j \in 1..(i - 1) : q[j] \in T
    BY <1>1
  <2>2. i - 1 \in Nat /\ i - 1 <= n
    BY <1>1
  <2>3. QED BY <1>1, <2>1, <2>2, SubSeqProperties
<1>3. b \in Seq(T) /\ Len(b) = n - i /\ \A j \in 1..(n - i) : b[j] = q[i + j]
  <2>1. \A j \in (i + 1)..n : q[j] \in T
    BY <1>1
  <2>2. CASE i + 1 <= n
    BY <1>1, <2>1, <2>2, SubSeqProperties
  <2>3. CASE i = n
    <3>1. b = <<>>
      BY <1>1, <2>3, SubSeqProperties
    <3>2. <<>> \in Seq(T) /\ Len(<<>>) = 0 /\ n - i = 0
      BY <1>1, <2>3
    <3>3. \A j \in 1..0 : FALSE
      OBVIOUS
    <3>4. QED BY <3>1, <3>2, <3>3
  <2>4. QED BY <1>1, <2>2, <2>3
<1>4. r = a \o b
  BY DEF RemoveAt
<1> HIDE DEF a, b
<1>5. r \in Seq(T) /\ Len(r) = n - 1 /\ DOMAIN r = 1..(n - 1)
  <2>1. r \in Seq(T) /\ Len(r) = Len(a) + Len(b)
    <3>1. a \in Seq(T) /\ b \in Seq(T)
      BY <1>2, <1>3
    <3>2. a \o b \in Seq(T) /\ Len(a \o b) = Len(a) + Len(b)
      BY <3>1, ConcatProperties
    <3>3. QED BY <1>4, <3>2
  <2>2. Len(a) + Len(b) = n - 1
    BY <1>1, <1>2, <1>3
  <2>3. QED BY <2>1, <2>2
<1>6. \A j \in 1..(n - 1) : r[j] = IF j < i THEN q[j] ELSE q[j + 1]
  <2> SUFFICES ASSUME NEW j \in 1..(n - 1)
               PROVE  r[j] = IF j < i THEN q[j] ELSE q[j + 1]
    OBVIOUS
  <2>1. CASE j < i
    BY <1>1, <1>2, <1>3, <1>4, <2>1
  <2>2. CASE ~(j < i)
    <3>1. j - (i - 1) \in 1..(n - i) /\ i + (j - (i - 1)) = j + 1
      BY <1>1, <2>2
    <3>2. r[j] = b[j - (i - 1)]
      BY <1>1, <1>2, <1>3, <1>4, <2>2
    <3>3. b[j - (i - 1)] = q[i + (j - (i - 1))]
      BY <1>3, <3>1
    <3>4. QED BY <2>2, <3>1, <3>2, <3>3
  <2>3. QED BY <2>1, <2>2
<1>7. Range(r) = Range(q) \ {q[i]}
  <2>1. ASSUME NEW j \in 1..(n - 1)
        PROVE  r[j] \in Range(q) /\ r[j] # q[i]
    <3>1. j \in 1..n /\ j + 1 \in 1..n /\ (j < i => j # i) /\ (~(j < i) => j + 1 # i)
      BY <1>1
    <3>2. QED BY <1>1, <1>6, <2>1, <3>1, RangeFacts
  <2>2. ASSUME NEW j \in 1..n, q[j] # q[i]
        PROVE  \E k \in 1..(n - 1) : r[k] = q[j]
    <3>1. CASE j < i
      <4>1. j \in 1..(n - 1)
        BY <1>1, <3>1
      <4>2. QED BY <1>6, <3>1, <4>1
    <3>2. CASE ~(j < i)
      <4>1. j - 1 \in 1..(n - 1) /\ ~(j - 1 < i) /\ (j - 1) + 1 = j
        BY <1>1, <2>2, <3>2
      <4>2. QED BY <1>6, <4>1
    <3>3. QED BY <3>1, <3>2
  <2>3. \A y : y \in Range(r) <=> \E j \in 1..(n - 1) : r[j] = y
    BY <1>5, RangeFacts
  <2>4. \A y : y \in Range(q) <=> \E j \in 1..n : q[j] = y
    BY <1>1, RangeFacts
  <2> HIDE DEF n
  <2>5. \A y : y \in Range(r) <=> y \in Range(q) \ {q[i]}
    BY <2>1, <2>2, <2>3, <2>4
  <2>6. QED BY <2>5
<1>8. \A j, k \in 1..(n - 1) : r[j] = r[k] => j = k
  <2> SUFFICES ASSUME NEW j \in 1..(n - 1), NEW k \in 1..(n - 1), r[j] = r[k]
               PROVE  j = k
    OBVIOUS
  <2>1. /\ j \in 1..n /\ j + 1 \in 1..n /\ k \in 1..n /\ k + 1 \in 1..n
    BY <1>1
  <2>2. r[j] = IF j < i THEN q[j] ELSE q[j + 1]
    BY <1>6
  <2>3. r[k] = IF k < i THEN q[k] ELSE q[k + 1]
    BY <1>6
  <2>4. CASE j < i /\ k < i
    BY <2>1, <2>2, <2>3, <2>4
  <2>5. CASE j < i /\ ~(k < i)
    <3>1. j = k + 1
      BY <2>1, <2>2, <2>3, <2>5
    <3>2. QED BY <1>1, <2>5, <3>1
  <2>6. CASE ~(j < i) /\ k < i
    <3>1. j + 1 = k
      BY <2>1, <2>2, <2>3, <2>6
    <3>2. QED BY <1>1, <2>6, <3>1
  <2>7. CASE ~(j < i) /\ ~(k < i)
    <3>1. j + 1 = k + 1
      BY <2>1, <2>2, <2>3, <2>7
    <3>2. QED BY <3>1
  <2>8. QED BY <2>4, <2>5, <2>6, <2>7
<1>9. QED BY <1>5, <1>6, <1>7, <1>8

InFront(x, q) == <<x>> \o q

\* A new element put in front of a sequence without repetitions.
LEMMA PutInFront ==
  ASSUME NEW T, NEW q \in Seq(T), NEW x \in T, x \notin Range(q),
         \A j, k \in 1..Len(q) : q[j] = q[k] => j = k,
         NEW r, r = InFront(x, q)
  PROVE  /\ r \in Seq(T) /\ Range(r) = Range(q) \cup {x} /\ Len(r) = Len(q) + 1
         /\ \A j, k \in DOMAIN r : r[j] = r[k] => j = k
<1> DEFINE n == Len(q)
<1>1. n \in Nat /\ DOMAIN q = 1..n /\ <<x>> \in Seq(T) /\ Len(<<x>>) = 1 /\ <<x>>[1] = x
  OBVIOUS
<1>2. /\ r \in Seq(T) /\ Len(r) = n + 1 /\ DOMAIN r = 1..(n + 1)
      /\ r[1] = x /\ \A j \in 2..(n + 1) : r[j] = q[j - 1]
  <2>1. r = <<x>> \o q
    BY DEF InFront
  <2>2. QED BY <1>1, <2>1
<1>3. Range(r) = Range(q) \cup {x}
  <2>1. ASSUME NEW j \in 1..(n + 1) PROVE r[j] \in Range(q) \cup {x}
    <3>1. CASE j = 1
      BY <1>2, <3>1
    <3>2. CASE j # 1
      <4>1. j \in 2..(n + 1) /\ j - 1 \in 1..n
        BY <1>1, <3>2
      <4>2. QED BY <1>1, <1>2, <4>1, RangeFacts
    <3>3. QED BY <3>1, <3>2
  <2>2. ASSUME NEW j \in 1..n PROVE q[j] \in Range(r)
    <3>1. j + 1 \in 2..(n + 1) /\ j + 1 \in 1..(n + 1) /\ (j + 1) - 1 = j
      BY <1>1
    <3>2. r[j + 1] = q[j]
      BY <1>2, <3>1
    <3>3. r \in Seq(T) /\ j + 1 \in 1..Len(r)
      BY <1>2, <3>1
    <3>4. QED BY <3>2, <3>3, RangeFacts
  <2>3. x \in Range(r)
    <3>1. 1 \in 1..(n + 1)
      BY <1>1
    <3>2. QED BY <1>2, <3>1, RangeFacts
  <2>4. \A y : y \in Range(r) <=> \E j \in 1..(n + 1) : r[j] = y
    <3>1. r \in Seq(T) /\ Len(r) = n + 1
      BY <1>2
    <3>2. \A y : y \in Range(r) <=> \E j \in 1..Len(r) : r[j] = y
      BY <3>1, RangeFacts
    <3>3. QED BY <3>1, <3>2
  <2>5. \A y : y \in Range(q) <=> \E j \in 1..n : q[j] = y
    BY <1>1, RangeFacts
  <2> HIDE DEF n
  <2>6. \A y : y \in Range(r) <=> y \in Range(q) \cup {x}
    BY <2>1, <2>2, <2>3, <2>4, <2>5
  <2>7. QED BY <2>6
<1>4. ASSUME NEW j \in 1..(n + 1), NEW k \in 1..(n + 1), r[j] = r[k]
      PROVE  j = k
  <2>1. \A z \in 1..(n + 1) : z = 1 \/ (z \in 2..(n + 1) /\ z - 1 \in 1..n)
    BY <1>1
  <2>2. \A z \in 2..(n + 1) : r[z] # x
    <3>1. TAKE z \in 2..(n + 1)
    <3>2. z - 1 \in 1..n
      BY <1>1
    <3>3. QED BY <1>1, <1>2, <3>2 DEF Range
  <2>3. CASE j = 1 \/ k = 1
    BY <1>2, <1>4, <2>1, <2>2, <2>3
  <2>4. CASE j # 1 /\ k # 1
    <3>1. j - 1 \in 1..n /\ k - 1 \in 1..n /\ r[j] = q[j - 1] /\ r[k] = q[k - 1]
      BY <1>2, <2>1, <2>4
    <3>2. j - 1 = k - 1
      BY <1>4, <3>1
    <3>3. QED BY <3>2
  <2>5. QED BY <2>3, <2>4
<1>5. QED BY <1>2, <1>3, <1>4

----------------------------------------------------------------------------
(* The trail.                                                               *)

\* A literal is about a solvable.
LEMMA LiteralFacts ==
  ASSUME NEW n \in Nat, NEW l \in Literals(1..n)
  PROVE  l \in Int /\ l # 0 /\ Var(l) \in 1..n
BY DEF Literals, Var

\* A literal that is still undecided can be decided: the queue, the reasons
\* and the decision map go on to describe one assignment.  It is what
\* propagate and setpropagatelearn rely on when they write all three.
THEOREM DecideAgrees ==
  ASSUME NEW n \in Nat, NEW t, TrailType(t, n), Agrees(t),
         NEW l \in Literals(1..n), IsUndef(t.map, l),
         NEW reason \in Int, NEW lev \in Nat, lev > 0
  PROVE  /\ TrailType(Decide(t, l, reason, lev), n)
         /\ Agrees(Decide(t, l, reason, lev))
<1> DEFINE d == Decide(t, l, reason, lev)
           m == Len(t.q)
<1>1. /\ t.q \in Seq(Literals(1..n)) /\ t.why \in Seq(Int)
      /\ t.map \in [1..n -> Int] /\ Len(t.why) = m
  BY DEF TrailType, Agrees
<1>2. l \in Int /\ l # 0 /\ Var(l) \in 1..n /\ t.map[Var(l)] = 0
  BY LiteralFacts DEF IsUndef
<1>3. /\ d.q = Append(t.q, l) /\ d.why = Append(t.why, reason)
      /\ d.map = [t.map EXCEPT ![Var(l)] = IF l > 0 THEN lev ELSE -lev]
  BY DEF Decide
<1>4. TrailType(d, n)
  BY <1>1, <1>2, <1>3 DEF TrailType
<1>5. /\ Len(d.q) = m + 1 /\ Len(d.why) = m + 1 /\ m \in Nat
      /\ d.q[m + 1] = l /\ \A k \in 1..m : d.q[k] = t.q[k]
      /\ DOMAIN d.q = 1..(m + 1) /\ DOMAIN t.q = 1..m
  <2>1. m \in Nat /\ DOMAIN t.q = 1..m
    BY <1>1
  <2>2. /\ Len(d.q) = m + 1 /\ d.q[m + 1] = l /\ DOMAIN d.q = 1..(m + 1)
        /\ \A k \in 1..m : d.q[k] = t.q[k]
    BY <1>1, <1>3, <1>4, <2>1, LenProperties, AppendProperties DEF TrailType
  <2>3. Len(d.why) = m + 1
    BY <1>1, <1>3
  <2>4. QED BY <2>1, <2>2, <2>3
<1>6. \A k \in 1..m : t.q[k] \in Literals(1..n) /\ Var(t.q[k]) # Var(l)
  <2> SUFFICES ASSUME NEW k \in 1..m
               PROVE  t.q[k] \in Literals(1..n) /\ Var(t.q[k]) # Var(l)
    OBVIOUS
  <2>1. t.q[k] \in Literals(1..n)
    BY <1>1, <1>5
  <2>2. IsTrue(t.map, t.q[k])
    BY <1>5 DEF Agrees
  <2>3. t.map[Var(t.q[k])] # 0
    BY SMTT(30), <2>1, <2>2, <1>1, LiteralFacts DEF IsTrue, Var
  <2>4. QED BY <2>1, <2>3, <1>2
<1>7. \A k \in 1..(m + 1) : IsTrue(d.map, d.q[k])
  <2> SUFFICES ASSUME NEW k \in 1..(m + 1)
               PROVE  IsTrue(d.map, d.q[k])
    OBVIOUS
  <2>1. CASE k = m + 1
    BY <2>1, <1>1, <1>2, <1>3, <1>5 DEF IsTrue, Var
  <2>2. CASE k \in 1..m
    <3>1. t.q[k] \in Literals(1..n) /\ Var(t.q[k]) # Var(l) /\ IsTrue(t.map, t.q[k])
      BY <2>2, <1>5, <1>6 DEF Agrees
    <3>2. d.map[Var(t.q[k])] = t.map[Var(t.q[k])]
      BY <3>1, <1>1, <1>3, LiteralFacts
    <3>3. QED BY <3>1, <3>2, <2>2, <1>5, LiteralFacts DEF IsTrue, Var
  <2>3. QED BY <2>1, <2>2, <1>5
<1>8. \A j, k \in 1..(m + 1) : Var(d.q[j]) = Var(d.q[k]) => j = k
  <2> SUFFICES ASSUME NEW j \in 1..(m + 1), NEW k \in 1..(m + 1),
                      Var(d.q[j]) = Var(d.q[k])
               PROVE  j = k
    OBVIOUS
  <2>1. CASE j \in 1..m /\ k \in 1..m
    BY <2>1, <1>5 DEF Agrees
  <2>2. CASE j = m + 1 \/ k = m + 1
    <3>1. d.q[m + 1] = l /\ \A i \in 1..m : Var(d.q[i]) # Var(l)
      BY <1>5, <1>6
    <3> HIDE DEF d
    <3>2. QED BY SMTT(30), <3>1, <2>2, <1>5
  <2>3. QED BY <2>1, <2>2, <1>5
<1>9. \A p \in DOMAIN d.map : d.map[p] # 0 => \E k \in 1..(m + 1) : Var(d.q[k]) = p
  <2> SUFFICES ASSUME NEW p \in 1..n, d.map[p] # 0
               PROVE  \E k \in 1..(m + 1) : Var(d.q[k]) = p
    BY <1>1, <1>3
  <2>1. CASE p = Var(l)
    BY <2>1, <1>5
  <2>2. CASE p # Var(l)
    <3>1. t.map[p] # 0
      BY <2>2, <1>1, <1>3
    <3>2. PICK k \in 1..m : Var(t.q[k]) = p
      BY <3>1, <1>1, <1>5 DEF Agrees
    <3>3. QED BY <3>2, <1>5
  <2>3. QED BY <2>1, <2>2
<1>10. QED BY <1>4, <1>5, <1>7, <1>8, <1>9 DEF Agrees

\* A decision at the highest level so far keeps the queue ordered by level.
THEOREM DecideSorted ==
  ASSUME NEW n \in Nat, NEW t, TrailType(t, n), Agrees(t), Sorted(t),
         NEW l \in Literals(1..n), IsUndef(t.map, l),
         NEW reason \in Int, NEW lev \in Nat, lev > 0,
         \A p \in 1..n : Level(t.map[p]) <= lev
  PROVE  Sorted(Decide(t, l, reason, lev))
<1> DEFINE d == Decide(t, l, reason, lev)
           m == Len(t.q)
<1>1. /\ t.q \in Seq(Literals(1..n)) /\ t.map \in [1..n -> Int] /\ m \in Nat
      /\ DOMAIN t.q = 1..m
  BY DEF TrailType
<1>2. /\ l \in Int /\ Var(l) \in 1..n
      /\ d.map = [t.map EXCEPT ![Var(l)] = IF l > 0 THEN lev ELSE -lev]
  BY LiteralFacts DEF Decide
<1>3. /\ d.q = Append(t.q, l) /\ DOMAIN d.q = 1..(m + 1) /\ d.q[m + 1] = l
      /\ \A k \in 1..m : d.q[k] = t.q[k]
  BY <1>1, LenProperties, AppendProperties DEF Decide
<1>4. d.map[Var(l)] \in {lev, -lev} /\ Level(d.map[Var(l)]) = lev
  BY <1>1, <1>2 DEF Level
<1>5. \A k \in 1..m : Var(d.q[k]) \in 1..n /\ Var(d.q[k]) # Var(l)
  <2> SUFFICES ASSUME NEW k \in 1..m
               PROVE  Var(t.q[k]) \in 1..n /\ Var(t.q[k]) # Var(l)
    BY <1>3
  <2>1. t.q[k] \in Literals(1..n) /\ IsTrue(t.map, t.q[k])
    BY <1>1 DEF Agrees
  <2>2. t.q[k] \in Int /\ t.q[k] # 0 /\ Var(t.q[k]) \in 1..n
    BY <2>1, LiteralFacts
  <2>3. t.map[Var(t.q[k])] # 0
    BY <2>1, <2>2, <1>1 DEF IsTrue, Var
  <2>4. QED BY <2>2, <2>3 DEF IsUndef
<1>6. \A k \in 1..m : d.map[Var(d.q[k])] = t.map[Var(t.q[k])]
  BY <1>1, <1>2, <1>3, <1>5
<1>7. \A k \in 1..m : Level(d.map[Var(d.q[k])]) <= lev
  BY <1>3, <1>5, <1>6
<1>8. \A j, k \in 1..m : j <= k => Level(d.map[Var(d.q[j])]) <= Level(d.map[Var(d.q[k])])
  BY <1>1, <1>6 DEF Sorted
<1>9. SUFFICES ASSUME NEW j \in 1..(m + 1), NEW k \in 1..(m + 1), j <= k
               PROVE  Level(d.map[Var(d.q[j])]) <= Level(d.map[Var(d.q[k])])
  BY <1>3 DEF Sorted
<1>10. CASE k \in 1..m
  BY <1>10, <1>8, <1>9
<1>11. CASE k = m + 1 /\ j \in 1..m
  BY <1>11, <1>3, <1>4, <1>7
<1>12. CASE k = m + 1 /\ j = m + 1
  BY <1>12, <1>3, <1>4
<1>13. QED BY SMTT(30), <1>9, <1>1, <1>10, <1>11, <1>12

----------------------------------------------------------------------------

\* Popping the queue back to any length keeps the three arrays in agreement.
LEMMA CutAgrees ==
  ASSUME NEW n \in Nat, NEW t, TrailType(t, n), Agrees(t),
         NEW k \in 0..Len(t.q)
  PROVE  /\ TrailType(Cut(t, k), n)
         /\ Agrees(Cut(t, k))
         /\ Len(Cut(t, k).q) = k
         /\ \A j \in 1..k : /\ Cut(t, k).q[j] = t.q[j]
                            /\ Cut(t, k).map[Var(t.q[j])] = t.map[Var(t.q[j])]
<1> DEFINE c == Cut(t, k)
           m == Len(t.q)
<1>1. /\ t.q \in Seq(Literals(1..n)) /\ t.why \in Seq(Int) /\ Len(t.why) = m
      /\ t.map \in [1..n -> Int] /\ m \in Nat /\ DOMAIN t.q = 1..m /\ k \in Nat /\ k <= m
  BY DEF TrailType, Agrees
<1>2. /\ c.q = SubSeq(t.q, 1, k) /\ c.why = SubSeq(t.why, 1, k)
      /\ c.map = [p \in 1..n |-> IF \E j \in (k + 1)..m : Var(t.q[j]) = p THEN 0 ELSE t.map[p]]
  BY <1>1 DEF Cut
<1>3. /\ c.q \in Seq(Literals(1..n)) /\ Len(c.q) = k
      /\ \A j \in 1..k : c.q[j] = t.q[j]
  <2>1. \A j \in 1..k : t.q[j] \in Literals(1..n)
    BY <1>1
  <2>2. QED BY <2>1, <1>1, <1>2, SubSeqProperties
<1>4. c.why \in Seq(Int) /\ Len(c.why) = k
  <2>1. \A j \in 1..k : t.why[j] \in Int
    BY <1>1
  <2>2. QED BY <2>1, <1>1, <1>2, SubSeqProperties
<1>5. c.map \in [1..n -> Int]
  BY <1>1, <1>2
<1>6. \A j \in 1..m : t.q[j] \in Literals(1..n) /\ Var(t.q[j]) \in 1..n
  <2>1. \A j \in 1..m : t.q[j] \in Literals(1..n)
    BY <1>1
  <2>2. QED BY <2>1, LiteralFacts
<1>7. \A j \in 1..k : c.map[Var(t.q[j])] = t.map[Var(t.q[j])]
  <2> SUFFICES ASSUME NEW j \in 1..k
               PROVE  c.map[Var(t.q[j])] = t.map[Var(t.q[j])]
    OBVIOUS
  <2>1. ~ \E i \in (k + 1)..m : Var(t.q[i]) = Var(t.q[j])
    <3>1. j \in 1..m /\ \A i \in (k + 1)..m : i \in 1..m /\ i # j
      BY <1>1
    <3>2. QED BY <3>1, <1>1 DEF Agrees
  <2>2. QED BY <2>1, <1>1, <1>2, <1>6
<1>8. \A j \in 1..k : IsTrue(c.map, c.q[j])
  <2> SUFFICES ASSUME NEW j \in 1..k
               PROVE  IsTrue(c.map, t.q[j])
    BY <1>3
  <2>1. j \in 1..m
    BY <1>1
  <2>2. IsTrue(t.map, t.q[j]) /\ t.q[j] \in Literals(1..n)
    BY <2>1, <1>1, <1>6 DEF Agrees
  <2>3. QED BY <2>2, <1>7, LiteralFacts DEF IsTrue, Var
<1>9. \A i, j \in 1..k : Var(c.q[i]) = Var(c.q[j]) => i = j
  <2>1. \A i \in 1..k : i \in 1..m
    BY <1>1
  <2>2. QED BY <2>1, <1>1, <1>3 DEF Agrees
<1>10. \A p \in 1..n : c.map[p] # 0 => \E j \in 1..k : Var(c.q[j]) = p
  <2> SUFFICES ASSUME NEW p \in 1..n, c.map[p] # 0
               PROVE  \E j \in 1..k : Var(c.q[j]) = p
    OBVIOUS
  <2>1. t.map[p] # 0 /\ ~ \E j \in (k + 1)..m : Var(t.q[j]) = p
    BY <1>2
  <2>2. PICK j \in 1..m : Var(t.q[j]) = p
    BY <2>1, <1>1 DEF Agrees
  <2>3. j \in 1..k
    BY <2>1, <2>2, <1>1
  <2>4. QED BY <2>2, <2>3, <1>3
<1>11. /\ DOMAIN c.q = 1..k /\ DOMAIN c.map = 1..n
  BY <1>3, <1>5, LenProperties
<1> HIDE DEF c
<1>12. TrailType(c, n)
  BY <1>3, <1>4, <1>5 DEF TrailType
<1>13. Agrees(c)
  BY <1>3, <1>4, <1>8, <1>9, <1>10, <1>11 DEF Agrees
<1>14. QED BY <1>3, <1>7, <1>12, <1>13 DEF c

\* revert undoes exactly the decisions above its level and leaves the others as
\* they were.
THEOREM RevertUndoes ==
  ASSUME NEW n \in Nat, NEW t, TrailType(t, n), Agrees(t), Sorted(t),
         NEW lev \in Nat, NEW c, c = Cut(t, Kept(t, lev))
  PROVE  /\ TrailType(c, n) /\ Agrees(c) /\ Sorted(c)
         /\ \A p \in 1..n : c.map[p] = IF Level(t.map[p]) <= lev THEN t.map[p] ELSE 0
<1> DEFINE m == Len(t.q)
           k == Kept(t, lev)
           lv(j) == Level(t.map[Var(t.q[j])])
<1>1. /\ t.q \in Seq(Literals(1..n)) /\ m \in Nat /\ DOMAIN t.q = 1..m
      /\ t.map \in [1..n -> Int]
  BY DEF TrailType
<1>2. \A j \in 1..m : Var(t.q[j]) \in 1..n /\ lv(j) \in Nat
  <2> SUFFICES ASSUME NEW j \in 1..m
               PROVE  Var(t.q[j]) \in 1..n /\ lv(j) \in Nat
    OBVIOUS
  <2>1. t.q[j] \in Literals(1..n)
    BY <1>1
  <2>2. Var(t.q[j]) \in 1..n
    BY <2>1, LiteralFacts
  <2>3. t.map[Var(t.q[j])] \in Int
    BY <2>2, <1>1
  <2>4. QED BY <2>2, <2>3 DEF Level
<1>3. /\ k \in 0..m
      /\ k > 0 => lv(k) <= lev
      /\ \A j \in 1..m : lv(j) <= lev => j <= k
  <2> DEFINE S == {0} \cup {j \in DOMAIN t.q : lv(j) <= lev}
  <2>1. S \subseteq 0..m /\ S # {}
    BY <1>1
  <2>2. Max(S) \in S /\ \A j \in S : j <= Max(S)
    BY <2>1, <1>1, MaxIsGreatest
  <2>3. k = Max(S)
    BY DEF Kept
  <2>4. QED BY SMTT(30), <2>1, <2>2, <2>3, <1>1
<1>4. \A j \in 1..m : j <= k <=> lv(j) <= lev
  <2> SUFFICES ASSUME NEW j \in 1..m, j <= k
               PROVE  lv(j) <= lev
    BY <1>3
  <2>1. k \in 1..m /\ lv(j) <= lv(k)
    BY SMTT(30), <1>1, <1>3 DEF Sorted
  <2>2. QED BY <2>1, <1>2, <1>3
<1>5. /\ TrailType(c, n) /\ Agrees(c) /\ Len(c.q) = k
      /\ \A j \in 1..k : c.q[j] = t.q[j] /\ c.map[Var(t.q[j])] = t.map[Var(t.q[j])]
  BY <1>3, CutAgrees
<1>6. Sorted(c)
  <2>1. DOMAIN c.q = 1..k
    BY <1>5 DEF TrailType
  <2>2. \A j \in 1..k : j \in 1..m /\ Level(c.map[Var(c.q[j])]) = lv(j)
    BY <1>3, <1>5
  <2>3. \A i, j \in 1..m : i <= j => lv(i) <= lv(j)
    BY <1>1 DEF Sorted
  <2> HIDE DEF lv, k, m
  <2>4. QED BY <2>1, <2>2, <2>3 DEF Sorted
<1>7. ASSUME NEW p \in 1..n
      PROVE  c.map[p] = IF Level(t.map[p]) <= lev THEN t.map[p] ELSE 0
  <2>1. c.map[p] = IF \E j \in (k + 1)..m : Var(t.q[j]) = p THEN 0 ELSE t.map[p]
    BY <1>1 DEF Cut
  <2>2. CASE \E j \in (k + 1)..m : Var(t.q[j]) = p
    <3>1. PICK j \in 1..m : j > k /\ Var(t.q[j]) = p
      BY <2>2, <1>3
    <3>2. ~(Level(t.map[p]) <= lev)
      BY <3>1, <1>3, <1>4
    <3>3. QED BY <2>1, <2>2, <3>2
  <2>3. CASE ~ \E j \in (k + 1)..m : Var(t.q[j]) = p
    <3>1. CASE t.map[p] = 0
      BY <2>1, <2>3, <3>1
    <3>2. CASE t.map[p] # 0
      <4>1. PICK j \in 1..m : Var(t.q[j]) = p
        BY <3>2, <1>1 DEF Agrees
      <4>2. j <= k
        BY <4>1, <2>3, <1>3
      <4>3. Level(t.map[p]) <= lev
        BY <4>1, <4>2, <1>4
      <4>4. QED BY <2>1, <2>3, <4>3
    <3>3. QED BY <3>1, <3>2
  <2>4. QED BY <2>2, <2>3
<1>8. QED BY <1>5, <1>6, <1>7

----------------------------------------------------------------------------
(* The trail as a staircase: a free decision goes one level up, a forced   *)
(* one stays and has a reason.                                             *)

LevelIn(t, k) == Level(t.map[Var(t.q[k])])

TopLevel(t) == LevelIn(t, Len(t.q))

Stairs(t) ==
  /\ t.q # <<>> /\ t.q[1] = SYSTEMSOLVABLE /\ t.why[1] = 0 /\ LevelIn(t, 1) = 1
  /\ \A k \in 2..Len(t.q) :
       \/ LevelIn(t, k) = LevelIn(t, k - 1) /\ t.why[k] > 0
       \/ LevelIn(t, k) = LevelIn(t, k - 1) + 1 /\ t.why[k] <= 0
  /\ \A k \in DOMAIN t.q : LevelIn(t, k) <= k
  /\ \A v \in 1..TopLevel(t) : \E k \in DOMAIN t.q : LevelIn(t, k) = v

\* The reason of a decision is a rule, of which all other literals have been made
\* false before.
Reasons(t, rs) ==
  \A k \in DOMAIN t.q :
    /\ t.why[k] \in -Len(rs)..Len(rs)
    /\ t.why[k] > 0 =>
         /\ t.q[k] \in Range(rs[t.why[k]].lits)
         /\ \A l \in Range(rs[t.why[k]].lits) \ {t.q[k]} : \E j \in 1..(k - 1) : t.q[j] = -l

TrailWhole(t, rs, n) ==
  TrailType(t, n) /\ Agrees(t) /\ Sorted(t) /\ Stairs(t) /\ Reasons(t, rs)

\* What is known of every decision.
LEMMA DecisionFacts ==
  ASSUME NEW n \in Nat, NEW t, NEW rs, TrailWhole(t, rs, n)
  PROVE  /\ Len(t.q) \in Nat /\ Len(t.q) > 0 /\ DOMAIN t.q = 1..Len(t.q)
         /\ Len(t.why) = Len(t.q) /\ DOMAIN t.why = 1..Len(t.q)
         /\ \A k \in 1..Len(t.q) :
              /\ t.q[k] \in Literals(1..n) /\ t.q[k] \in Int /\ t.q[k] # 0
              /\ Var(t.q[k]) \in 1..n /\ t.why[k] \in Int
              /\ IsTrue(t.map, t.q[k]) /\ t.map[Var(t.q[k])] # 0
              /\ LevelIn(t, k) \in 1..k /\ LevelIn(t, k) <= TopLevel(t)
         /\ \A j, k \in 1..Len(t.q) : j <= k => LevelIn(t, j) <= LevelIn(t, k)
<1> DEFINE m == Len(t.q)
<1>1. /\ t.q \in Seq(Literals(1..n)) /\ t.why \in Seq(Int) /\ Len(t.why) = m
      /\ t.map \in [1..n -> Int] /\ m \in Nat /\ DOMAIN t.q = 1..m /\ m > 0
      /\ DOMAIN t.why = 1..m
  BY DEF TrailWhole, TrailType, Agrees, Stairs
<1>2. \A j, k \in 1..m : j <= k => LevelIn(t, j) <= LevelIn(t, k)
  BY <1>1 DEF TrailWhole, Sorted, LevelIn
<1>3. LevelIn(t, 1) = 1 /\ \A k \in 1..m : LevelIn(t, k) <= k
  BY <1>1 DEF TrailWhole, Stairs
<1>4. ASSUME NEW k \in 1..m
      PROVE  /\ t.q[k] \in Literals(1..n) /\ t.q[k] \in Int /\ t.q[k] # 0
             /\ Var(t.q[k]) \in 1..n /\ t.why[k] \in Int
             /\ IsTrue(t.map, t.q[k]) /\ t.map[Var(t.q[k])] # 0
             /\ LevelIn(t, k) \in 1..k /\ LevelIn(t, k) <= TopLevel(t)
  <2>1. t.q[k] \in Literals(1..n) /\ t.why[k] \in Int
    BY <1>1
  <2>2. t.q[k] \in Int /\ t.q[k] # 0 /\ Var(t.q[k]) \in 1..n
    BY <2>1, LiteralFacts
  <2>3. IsTrue(t.map, t.q[k])
    BY <1>1 DEF TrailWhole, Agrees
  <2>4. t.map[Var(t.q[k])] \in Int /\ t.map[Var(t.q[k])] # 0
    BY <1>1, <2>2, <2>3 DEF IsTrue, Var
  <2>5. LevelIn(t, k) \in Nat
    BY <2>4 DEF LevelIn, Level
  <2>6. 1 \in 1..m /\ m \in 1..m /\ 1 <= k /\ k <= m
    BY <1>1
  <2>7. LevelIn(t, k) >= 1 /\ LevelIn(t, k) <= LevelIn(t, m)
    BY <1>2, <1>3, <2>6
  <2>8. QED BY <1>3, <2>1, <2>2, <2>3, <2>4, <2>5, <2>7 DEF TopLevel
<1>5. QED BY <1>1, <1>2, <1>4

\* A literal is true, false or undecided, and decided by one decision.
LEMMA ValueFacts ==
  ASSUME NEW n \in Nat, NEW t, NEW rs, TrailWhole(t, rs, n), NEW l \in Literals(1..n)
  PROVE  /\ -l \in Literals(1..n) /\ Var(-l) = Var(l) /\ -(-l) = l
         /\ IsFalse(t.map, l) <=> IsTrue(t.map, -l)
         /\ IsTrue(t.map, l) <=> \E k \in 1..Len(t.q) : t.q[k] = l
         /\ IsFalse(t.map, l) <=> \E k \in 1..Len(t.q) : t.q[k] = -l
         /\ ~(IsTrue(t.map, l) /\ IsFalse(t.map, l))
         /\ IsUndef(t.map, l) <=> ~IsTrue(t.map, l) /\ ~IsFalse(t.map, l)
         /\ Level(t.map[Var(l)]) \in Nat
         /\ ~IsUndef(t.map, l) => Level(t.map[Var(l)]) \in 1..TopLevel(t)
<1>1. l \in Int /\ l # 0 /\ Var(l) \in 1..n /\ t.map \in [1..n -> Int] /\ t.map[Var(l)] \in Int
  BY LiteralFacts DEF TrailWhole, TrailType
<1>2. -l \in Literals(1..n) /\ Var(-l) = Var(l) /\ -(-l) = l
  BY <1>1 DEF Literals, Var
<1>3. /\ IsFalse(t.map, l) <=> IsTrue(t.map, -l)
      /\ ~(IsTrue(t.map, l) /\ IsFalse(t.map, l))
      /\ IsUndef(t.map, l) <=> ~IsTrue(t.map, l) /\ ~IsFalse(t.map, l)
  BY <1>1 DEF IsTrue, IsFalse, IsUndef, Var
<1>4. ASSUME NEW x \in Literals(1..n), IsTrue(t.map, x)
      PROVE  \E k \in 1..Len(t.q) : t.q[k] = x
  <2>1. x \in Int /\ x # 0 /\ Var(x) \in 1..n /\ t.map[Var(x)] # 0
    <3>1. x \in Int /\ x # 0 /\ Var(x) \in 1..n
      BY LiteralFacts
    <3>2. t.map[Var(x)] \in Int
      BY <1>1, <3>1
    <3>3. IsTrue(t.map, x) BY <1>4
    <3>4. QED BY <3>1, <3>2, <3>3 DEF IsTrue, Var
  <2>2. PICK k \in 1..Len(t.q) : Var(t.q[k]) = Var(x)
    BY <1>1, <2>1, DecisionFacts DEF TrailWhole, Agrees
  <2>3. IsTrue(t.map, t.q[k]) /\ t.q[k] \in Int /\ t.q[k] # 0
    BY DecisionFacts
  <2>4. t.q[k] = x \/ t.q[k] = -x
    BY <2>1, <2>2, <2>3 DEF Var
  <2>5. ~IsTrue(t.map, -x)
    <3>1. t.map[Var(x)] \in Int
      BY <1>1, <2>1
    <3>2. QED BY <1>4, <2>1, <3>1 DEF IsTrue, Var
  <2>6. QED BY <2>3, <2>4, <2>5
<1>5. \A k \in 1..Len(t.q) : IsTrue(t.map, t.q[k])
  BY DecisionFacts
<1>6. Level(t.map[Var(l)]) \in Nat
  BY <1>1 DEF Level
<1>7. ASSUME ~IsUndef(t.map, l)
      PROVE  Level(t.map[Var(l)]) \in 1..TopLevel(t)
  <2>1. PICK k \in 1..Len(t.q) : t.q[k] = l \/ t.q[k] = -l
    BY <1>2, <1>3, <1>4, <1>7
  <2>2. Level(t.map[Var(l)]) = LevelIn(t, k)
    BY <1>2, <2>1 DEF LevelIn
  <2>3. QED BY <2>2, <1>6, DecisionFacts
<1>8. QED BY <1>2, <1>3, <1>4, <1>5, <1>6, <1>7

\* What a decision adds.
LEMMA DecideAdds ==
  ASSUME NEW n \in Nat, NEW t, NEW rs, TrailWhole(t, rs, n),
         NEW l \in Literals(1..n), IsUndef(t.map, l),
         NEW reason \in Int, NEW lev \in Nat, lev > 0,
         NEW d, d = Decide(t, l, reason, lev)
  PROVE  /\ TrailType(d, n) /\ Agrees(d)
         /\ Len(d.q) = Len(t.q) + 1 /\ DOMAIN d.q = 1..(Len(t.q) + 1)
         /\ d.q[Len(t.q) + 1] = l /\ d.why[Len(t.q) + 1] = reason
         /\ LevelIn(d, Len(t.q) + 1) = lev /\ TopLevel(d) = lev
         /\ \A k \in 1..Len(t.q) : /\ d.q[k] = t.q[k] /\ d.why[k] = t.why[k]
                                   /\ LevelIn(d, k) = LevelIn(t, k)
         /\ \A x \in Literals(1..n) : Var(x) # Var(l) => d.map[Var(x)] = t.map[Var(x)]
         /\ Level(d.map[Var(l)]) = lev /\ IsTrue(d.map, l) /\ IsFalse(d.map, -l)
<1> DEFINE m == Len(t.q)
<1>1. TrailType(d, n) /\ Agrees(d)
  BY DecideAgrees DEF TrailWhole
<1>2. /\ t.q \in Seq(Literals(1..n)) /\ t.why \in Seq(Int) /\ Len(t.why) = m
      /\ t.map \in [1..n -> Int] /\ m \in Nat
  BY DEF TrailWhole, TrailType, Agrees
<1>3. l \in Int /\ l # 0 /\ Var(l) \in 1..n /\ t.map[Var(l)] = 0
  BY LiteralFacts DEF IsUndef
<1>4. /\ d.q = Append(t.q, l) /\ d.why = Append(t.why, reason)
      /\ d.map = [t.map EXCEPT ![Var(l)] = IF l > 0 THEN lev ELSE -lev]
  BY DEF Decide
<1>5. /\ Len(d.q) = m + 1 /\ DOMAIN d.q = 1..(m + 1) /\ d.q[m + 1] = l
      /\ \A k \in 1..m : d.q[k] = t.q[k]
  BY <1>1, <1>2, <1>4, LenProperties, AppendProperties DEF TrailType
<1>6. d.why[m + 1] = reason /\ \A k \in 1..m : d.why[k] = t.why[k]
  BY <1>2, <1>4, AppendProperties
<1>7. \A p \in 1..n : d.map[p] = IF p = Var(l) THEN (IF l > 0 THEN lev ELSE -lev) ELSE t.map[p]
  BY <1>2, <1>4
<1>8. Level(d.map[Var(l)]) = lev
  BY <1>3, <1>7 DEF Level
<1>9. IsTrue(d.map, l) /\ IsFalse(d.map, -l)
  BY <1>3, <1>7 DEF IsTrue, IsFalse, Var
<1>10. \A x \in Literals(1..n) : Var(x) # Var(l) => d.map[Var(x)] = t.map[Var(x)]
  BY <1>7, LiteralFacts
<1>11. ASSUME NEW k \in 1..m
       PROVE  LevelIn(d, k) = LevelIn(t, k)
  <2>1. Var(t.q[k]) \in 1..n /\ t.map[Var(t.q[k])] # 0
    BY DecisionFacts
  <2>2. d.map[Var(t.q[k])] = t.map[Var(t.q[k])]
    BY <1>3, <1>7, <2>1
  <2>3. QED BY <1>5, <2>2 DEF LevelIn
<1>12. LevelIn(d, m + 1) = lev /\ TopLevel(d) = lev
  BY <1>5, <1>8 DEF LevelIn, TopLevel
<1>13. QED BY <1>1, <1>5, <1>6, <1>8, <1>9, <1>10, <1>11, <1>12

\* A decision on the top level for a rule of which all other literals are false,
\* or a free one on the level above, leaves the trail whole.
LEMMA DecideWhole ==
  ASSUME NEW n \in Nat, NEW t, NEW rs, TrailWhole(t, rs, n), Len(rs) \in Nat,
         NEW l \in Literals(1..n), IsUndef(t.map, l),
         NEW reason \in -Len(rs)..Len(rs), NEW lev \in Nat,
         IF reason > 0
           THEN /\ lev = TopLevel(t) /\ l \in Range(rs[reason].lits)
                /\ \A x \in Range(rs[reason].lits) \ {l} :
                     x \in Literals(1..n) /\ IsFalse(t.map, x)
           ELSE lev = TopLevel(t) + 1
  PROVE  TrailWhole(Decide(t, l, reason, lev), rs, n)
<1> DEFINE d == Decide(t, l, reason, lev)
           m == Len(t.q)
<1>0. /\ m \in Nat /\ m > 0 /\ DOMAIN t.q = 1..m
      /\ \A k \in 1..m : LevelIn(t, k) \in 1..k /\ LevelIn(t, k) <= TopLevel(t)
      /\ \A j, k \in 1..m : j <= k => LevelIn(t, j) <= LevelIn(t, k)
  BY DecisionFacts
<1>01. m \in 1..m
  BY <1>0
<1>02. TopLevel(t) \in 1..m
  BY <1>0, <1>01 DEF TopLevel
<1>1. /\ m \in Nat /\ m > 0 /\ DOMAIN t.q = 1..m /\ TopLevel(t) \in 1..m
      /\ \A k \in 1..m : LevelIn(t, k) \in 1..k /\ LevelIn(t, k) <= TopLevel(t)
      /\ \A j, k \in 1..m : j <= k => LevelIn(t, j) <= LevelIn(t, k)
  BY <1>0, <1>02
<1>2. reason \in Int /\ lev > 0
  BY <1>1
<1>21. TopLevel(t) <= lev /\ lev <= m + 1
  BY <1>1
<1>3. /\ TrailType(d, n) /\ Agrees(d)
      /\ Len(d.q) = m + 1 /\ DOMAIN d.q = 1..(m + 1)
      /\ d.q[m + 1] = l /\ d.why[m + 1] = reason
      /\ LevelIn(d, m + 1) = lev /\ TopLevel(d) = lev
      /\ \A k \in 1..m : d.q[k] = t.q[k] /\ d.why[k] = t.why[k] /\ LevelIn(d, k) = LevelIn(t, k)
  BY <1>2, DecideAdds
<1> HIDE DEF d
<1>4. Sorted(d)
  <2>1. \A j, k \in 1..(m + 1) : j <= k => LevelIn(d, j) <= LevelIn(d, k)
    <3>1. TAKE j, k \in 1..(m + 1)
    <3>1a. j = m + 1 \/ j \in 1..m
      BY <1>1
    <3>1b. ASSUME j \in 1..m PROVE LevelIn(d, j) <= lev
      <4>1. LevelIn(d, j) \in Nat /\ TopLevel(t) \in Nat /\ LevelIn(d, j) <= TopLevel(t)
        BY <1>1, <1>3, <3>1b
      <4>2. QED BY <4>1, <1>21
    <3>2. LevelIn(d, j) <= lev
      BY <1>3, <3>1a, <3>1b
    <3>3. k = m + 1 \/ (k \in 1..m /\ (j <= k => j \in 1..m))
      BY <1>1
    <3>4. QED BY <1>1, <1>3, <3>2, <3>3
  <2>2. QED BY <1>3, <2>1 DEF Sorted, LevelIn
<1>5. Stairs(d)
  <2>0. /\ t.q[1] = SYSTEMSOLVABLE /\ t.why[1] = 0 /\ LevelIn(t, 1) = 1
        /\ \A k \in 2..m : \/ LevelIn(t, k) = LevelIn(t, k - 1) /\ t.why[k] > 0
                           \/ LevelIn(t, k) = LevelIn(t, k - 1) + 1 /\ t.why[k] <= 0
        /\ \A v \in 1..TopLevel(t) : \E k \in 1..m : LevelIn(t, k) = v
    BY <1>1 DEF TrailWhole, Stairs
  <2>1. d.q # <<>> /\ d.q[1] = SYSTEMSOLVABLE /\ d.why[1] = 0 /\ LevelIn(d, 1) = 1
    <3>1. 1 \in 1..m
      BY <1>1
    <3>2. d.q[1] = SYSTEMSOLVABLE /\ d.why[1] = 0 /\ LevelIn(d, 1) = 1
      BY <1>3, <2>0, <3>1
    <3>3. d.q # <<>>
      BY <1>1, <1>3
    <3>4. QED BY <3>2, <3>3
  <2>2. ASSUME NEW k \in 2..Len(d.q)
        PROVE  \/ LevelIn(d, k) = LevelIn(d, k - 1) /\ d.why[k] > 0
               \/ LevelIn(d, k) = LevelIn(d, k - 1) + 1 /\ d.why[k] <= 0
    <3>1. CASE k = m + 1
      <4>1. LevelIn(d, k - 1) = TopLevel(t)
        BY <1>1, <1>3, <3>1 DEF TopLevel
      <4>2. QED BY <1>3, <3>1, <4>1
    <3>2. CASE k # m + 1
      <4>1. k \in 1..m /\ k - 1 \in 1..m /\ k \in 2..m
        BY <1>1, <1>3, <3>2
      <4>2. QED BY <1>3, <2>0, <4>1
    <3>3. QED BY <3>1, <3>2
  <2>3. \A k \in DOMAIN d.q : LevelIn(d, k) <= k
    <3>1. \A k \in 1..(m + 1) : k \in 1..m \/ k = m + 1
      BY <1>1
    <3>2. QED BY SMTT(30), <1>1, <1>21, <1>3, <3>1
  <2>4. ASSUME NEW v \in 1..TopLevel(d)
        PROVE  \E k \in DOMAIN d.q : LevelIn(d, k) = v
    <3>1. CASE v = lev
      BY SMTT(30), <1>1, <1>3, <3>1
    <3>2. CASE v # lev
      <4>1. v \in 1..TopLevel(t)
        BY <1>1, <1>3, <3>2
      <4>2. PICK k \in 1..m : LevelIn(t, k) = v
        BY <2>0, <4>1
      <4>3. k \in 1..(m + 1)
        BY <1>1
      <4>4. QED BY <1>3, <4>2, <4>3
    <3>3. QED BY <3>1, <3>2
  <2>5. QED BY <2>1, <2>2, <2>3, <2>4 DEF Stairs
<1>6. Reasons(d, rs)
  <2> SUFFICES ASSUME NEW k \in DOMAIN d.q
               PROVE  /\ d.why[k] \in -Len(rs)..Len(rs)
                      /\ d.why[k] > 0 =>
                           /\ d.q[k] \in Range(rs[d.why[k]].lits)
                           /\ \A x \in Range(rs[d.why[k]].lits) \ {d.q[k]} :
                                \E j \in 1..(k - 1) : d.q[j] = -x
    BY DEF Reasons
  <2>1. CASE k = m + 1
    <3>1. ASSUME reason > 0, NEW x \in Range(rs[reason].lits) \ {l}
          PROVE  \E j \in 1..m : d.q[j] = -x
      <4>1. x \in Literals(1..n) /\ IsFalse(t.map, x)
        BY <3>1
      <4>2. PICK j \in 1..m : t.q[j] = -x
        BY <4>1, ValueFacts
      <4>3. QED BY <1>3, <4>2
    <3>2. 1..(k - 1) = 1..m
      BY <1>1, <2>1
    <3>3. QED BY <1>3, <2>1, <3>1, <3>2
  <2>2. CASE k # m + 1
    <3>1. k \in 1..m /\ \A j \in 1..(k - 1) : j \in 1..m
      BY SMTT(30), <1>1, <1>3, <2>2
    <3>2. d.q[k] = t.q[k] /\ d.why[k] = t.why[k] /\ \A j \in 1..(k - 1) : d.q[j] = t.q[j]
      BY <1>3, <3>1
    <3>3. /\ t.why[k] \in -Len(rs)..Len(rs)
          /\ t.why[k] > 0 =>
               /\ t.q[k] \in Range(rs[t.why[k]].lits)
               /\ \A x \in Range(rs[t.why[k]].lits) \ {t.q[k]} : \E j \in 1..(k - 1) : t.q[j] = -x
      BY <1>1, <3>1 DEF TrailWhole, Reasons
    <3>4. QED BY <3>2, <3>3
  <2>3. QED BY <2>1, <2>2
<1>7. QED BY <1>3, <1>4, <1>5, <1>6 DEF TrailWhole, d

\* Popped to any length the trail stays whole.
LEMMA CutWhole ==
  ASSUME NEW n \in Nat, NEW t, NEW rs, TrailWhole(t, rs, n), NEW k \in 1..Len(t.q)
  PROVE  /\ TrailWhole(Cut(t, k), rs, n)
         /\ Len(Cut(t, k).q) = k /\ DOMAIN Cut(t, k).q = 1..k
         /\ TopLevel(Cut(t, k)) = LevelIn(t, k)
         /\ \A j \in 1..k : /\ Cut(t, k).q[j] = t.q[j] /\ Cut(t, k).why[j] = t.why[j]
                            /\ LevelIn(Cut(t, k), j) = LevelIn(t, j)
<1> DEFINE c == Cut(t, k)
           m == Len(t.q)
<1>1. /\ m \in Nat /\ DOMAIN t.q = 1..m /\ t.why \in Seq(Int) /\ Len(t.why) = m
      /\ TrailType(t, n) /\ Agrees(t) /\ k \in 0..m /\ k \in Nat /\ k > 0 /\ k <= m
      /\ \A i, j \in 1..m : i <= j => LevelIn(t, i) <= LevelIn(t, j)
  BY DecisionFacts DEF TrailWhole, TrailType
<1>2. /\ TrailType(c, n) /\ Agrees(c) /\ Len(c.q) = k
      /\ \A j \in 1..k : c.q[j] = t.q[j] /\ c.map[Var(t.q[j])] = t.map[Var(t.q[j])]
  BY <1>1, CutAgrees
<1>3. \A j \in 1..k : c.why[j] = t.why[j]
  BY <1>1, SubSeqProperties DEF Cut
<1>4. DOMAIN c.q = 1..k
  BY <1>2, LenProperties DEF TrailType
<1> HIDE DEF c
<1>5. \A j \in 1..k : LevelIn(c, j) = LevelIn(t, j)
  BY <1>2 DEF LevelIn
<1>6. \A j \in 1..k : j \in 1..m
  BY <1>1
<1>7. TopLevel(c) = LevelIn(t, k)
  BY <1>1, <1>2, <1>5 DEF TopLevel
<1>8. Sorted(c)
  <2>1. \A i, j \in 1..k : i <= j => LevelIn(c, i) <= LevelIn(c, j)
    BY <1>1, <1>5, <1>6
  <2>2. QED BY <1>4, <2>1 DEF Sorted, LevelIn
<1>9. Stairs(c)
  <2>0. /\ t.q[1] = SYSTEMSOLVABLE /\ t.why[1] = 0 /\ LevelIn(t, 1) = 1
        /\ \A j \in 2..m : \/ LevelIn(t, j) = LevelIn(t, j - 1) /\ t.why[j] > 0
                           \/ LevelIn(t, j) = LevelIn(t, j - 1) + 1 /\ t.why[j] <= 0
        /\ \A v \in 1..TopLevel(t) : \E j \in 1..m : LevelIn(t, j) = v
        /\ \A j \in 1..m : LevelIn(t, j) \in 1..j /\ LevelIn(t, j) <= TopLevel(t)
    BY <1>1, DecisionFacts DEF TrailWhole, Stairs
  <2>1. c.q # <<>> /\ c.q[1] = SYSTEMSOLVABLE /\ c.why[1] = 0 /\ LevelIn(c, 1) = 1
    <3>1. 1 \in 1..k
      BY <1>1
    <3>2. c.q[1] = SYSTEMSOLVABLE /\ c.why[1] = 0 /\ LevelIn(c, 1) = 1
      BY <1>2, <1>3, <1>5, <2>0, <3>1
    <3>3. c.q # <<>>
      BY <1>1, <1>2
    <3>4. QED BY <3>2, <3>3
  <2>2. ASSUME NEW j \in 2..Len(c.q)
        PROVE  \/ LevelIn(c, j) = LevelIn(c, j - 1) /\ c.why[j] > 0
               \/ LevelIn(c, j) = LevelIn(c, j - 1) + 1 /\ c.why[j] <= 0
    <3>1. j \in 2..m /\ j \in 1..k /\ j - 1 \in 1..k
      BY <1>1, <1>2
    <3>2. QED BY <1>3, <1>5, <2>0, <3>1
  <2>3. \A j \in DOMAIN c.q : LevelIn(c, j) <= j
    <3>1. ASSUME NEW j \in 1..k PROVE LevelIn(c, j) <= j
      <4>1. LevelIn(c, j) = LevelIn(t, j) /\ LevelIn(t, j) \in 1..j
        BY <1>5, <1>6, <2>0, <3>1
      <4>2. QED BY <4>1
    <3>2. QED BY <1>4, <3>1
  <2>4. ASSUME NEW v \in 1..TopLevel(c)
        PROVE  \E j \in DOMAIN c.q : LevelIn(c, j) = v
    <3>1. k \in 1..m
      OBVIOUS
    <3>2. /\ LevelIn(t, k) \in Nat /\ TopLevel(t) \in Nat /\ LevelIn(t, k) <= TopLevel(t)
      <4>1. m \in 1..m
        BY <1>1
      <4>2. QED BY <2>0, <3>1, <4>1 DEF TopLevel
    <3>3. v \in 1..TopLevel(t) /\ v <= LevelIn(t, k)
      BY <1>7, <3>2
    <3>4. PICK j \in 1..m : LevelIn(t, j) = v
      BY <2>0, <3>3
    <3>5. CASE j <= k
      <4>1. j \in 1..k
        BY <3>5
      <4>2. QED BY <1>4, <1>5, <3>4, <4>1
    <3>6. CASE ~(j <= k)
      <4>1. LevelIn(t, k) <= LevelIn(t, j)
        BY <1>1, <3>1, <3>6
      <4>2. LevelIn(t, k) = v
        BY <3>2, <3>3, <3>4, <4>1
      <4>3. k \in 1..k
        BY <1>1
      <4>4. QED BY <1>4, <1>5, <4>2, <4>3
    <3>7. QED BY <3>5, <3>6
  <2>5. QED BY <2>1, <2>2, <2>3, <2>4 DEF Stairs
<1>10. Reasons(c, rs)
  <2> SUFFICES ASSUME NEW j \in 1..k
               PROVE  /\ c.why[j] \in -Len(rs)..Len(rs)
                      /\ c.why[j] > 0 =>
                           /\ c.q[j] \in Range(rs[c.why[j]].lits)
                           /\ \A x \in Range(rs[c.why[j]].lits) \ {c.q[j]} :
                                \E i \in 1..(j - 1) : c.q[i] = -x
    BY <1>4 DEF Reasons
  <2>1. j \in 1..m /\ \A i \in 1..(j - 1) : i \in 1..k
    BY <1>1
  <2>2. /\ t.why[j] \in -Len(rs)..Len(rs)
        /\ t.why[j] > 0 =>
             /\ t.q[j] \in Range(rs[t.why[j]].lits)
             /\ \A x \in Range(rs[t.why[j]].lits) \ {t.q[j]} : \E i \in 1..(j - 1) : t.q[i] = -x
    BY <1>1, <2>1 DEF TrailWhole, Reasons
  <2>3. QED BY <1>2, <1>3, <2>1, <2>2
<1>11. TrailWhole(c, rs, n)
  BY <1>2, <1>8, <1>9, <1>10 DEF TrailWhole
<1>12. QED BY <1>2, <1>3, <1>4, <1>5, <1>7, <1>11 DEF c

\* How far a revert goes: all decisions up to the level are kept, and the first one
\* popped was a free one.
LEMMA KeptFacts ==
  ASSUME NEW n \in Nat, NEW t, NEW rs, TrailWhole(t, rs, n), NEW lev \in 1..TopLevel(t)
  PROVE  /\ Kept(t, lev) \in 1..Len(t.q)
         /\ LevelIn(t, Kept(t, lev)) = lev
         /\ \A j \in 1..Len(t.q) : j <= Kept(t, lev) <=> LevelIn(t, j) <= lev
         /\ lev < TopLevel(t) => /\ Kept(t, lev) < Len(t.q)
                                 /\ t.why[Kept(t, lev) + 1] <= 0
<1> DEFINE m == Len(t.q)
           k == Kept(t, lev)
           S == {0} \cup {j \in 1..m : LevelIn(t, j) <= lev}
<1>1. /\ m \in Nat /\ m > 0 /\ DOMAIN t.q = 1..m
      /\ \A j \in 1..m : LevelIn(t, j) \in 1..j /\ LevelIn(t, j) <= TopLevel(t)
      /\ \A i, j \in 1..m : i <= j => LevelIn(t, i) <= LevelIn(t, j)
  BY DecisionFacts
<1>2. m \in 1..m /\ TopLevel(t) = LevelIn(t, m)
  BY <1>1 DEF TopLevel
<1>3. TopLevel(t) \in Nat /\ lev \in Nat /\ lev > 0 /\ lev <= TopLevel(t)
  BY <1>1, <1>2
<1>4. S \subseteq 0..m /\ S # {} /\ 0 \in S
  OBVIOUS
<1>5. k = Max(S)
  BY <1>1 DEF Kept, LevelIn
<1>6. k \in S /\ \A j \in S : j <= k
  <2> HIDE DEF S, k
  <2>1. QED BY <1>4, <1>1, <1>5, MaxIsGreatest
<1>7. PICK v \in 1..m : LevelIn(t, v) = lev
  BY <1>1, <1>3 DEF TrailWhole, Stairs
<1>8. v \in S
  BY <1>3, <1>7
<1>9. k \in 1..m /\ LevelIn(t, k) <= lev
  <2>1. v <= k /\ k \in S
    BY <1>6, <1>8
  <2>2. QED BY <2>1, <1>4
<1> HIDE DEF k
<1>10. LevelIn(t, k) = lev
  <2>1. v <= k
    BY <1>6, <1>8
  <2>2. lev <= LevelIn(t, k) /\ LevelIn(t, k) \in Nat
    BY <1>1, <1>7, <1>9, <2>1
  <2>3. QED BY <1>3, <1>9, <2>2
<1>11. ASSUME NEW j \in 1..m
       PROVE  j <= k <=> LevelIn(t, j) <= lev
  <2>1. ASSUME j <= k PROVE LevelIn(t, j) <= lev
    BY <1>1, <1>9, <1>10, <2>1
  <2>2. ASSUME LevelIn(t, j) <= lev PROVE j <= k
    <3>1. j \in S
      BY <2>2
    <3>2. QED BY <1>6, <3>1
  <2>3. QED BY <2>1, <2>2
<1>12. ASSUME lev < TopLevel(t)
       PROVE  k < m /\ t.why[k + 1] <= 0
  <2>1. k # m
    BY <1>2, <1>3, <1>10, <1>12
  <2>2. k < m /\ k + 1 \in 2..m /\ k + 1 \in 1..m /\ (k + 1) - 1 = k
    BY <1>1, <1>9, <2>1
  <2>3. ~(LevelIn(t, k + 1) <= lev)
    BY <1>9, <1>11, <2>2
  <2>4. LevelIn(t, k + 1) # LevelIn(t, k)
    BY <1>3, <1>10, <2>3
  <2>5. QED BY <1>1, <2>2, <2>4 DEF TrailWhole, Stairs
<1>13. QED BY <1>9, <1>10, <1>11, <1>12 DEF k

\* What revert leaves.
LEMMA RevertWhole ==
  ASSUME NEW n \in Nat, NEW t, NEW rs, TrailWhole(t, rs, n), NEW lev \in 1..TopLevel(t),
         NEW k, k = Kept(t, lev), NEW c, c = Cut(t, k)
  PROVE  /\ TrailWhole(c, rs, n) /\ TopLevel(c) = lev
         /\ k \in 1..Len(t.q) /\ Len(c.q) = k /\ DOMAIN c.q = 1..k
         /\ \A j \in 1..Len(t.q) : j <= k <=> LevelIn(t, j) <= lev
         /\ \A j \in 1..k : /\ c.q[j] = t.q[j] /\ c.why[j] = t.why[j]
                            /\ LevelIn(c, j) = LevelIn(t, j)
         /\ \A p \in 1..n : c.map[p] = IF Level(t.map[p]) <= lev THEN t.map[p] ELSE 0
         /\ lev < TopLevel(t) => k < Len(t.q) /\ t.why[k + 1] <= 0
<1>1. lev \in Nat /\ lev > 0
  <2>1. Len(t.q) \in 1..Len(t.q)
    BY DecisionFacts
  <2>2. TopLevel(t) \in Int
    BY <2>1, DecisionFacts DEF TopLevel
  <2>3. QED BY <2>2
<1>2. /\ k \in 1..Len(t.q) /\ LevelIn(t, k) = lev
      /\ \A j \in 1..Len(t.q) : j <= k <=> LevelIn(t, j) <= lev
      /\ lev < TopLevel(t) => k < Len(t.q) /\ t.why[k + 1] <= 0
  BY KeptFacts
<1>3. \A p \in 1..n : c.map[p] = IF Level(t.map[p]) <= lev THEN t.map[p] ELSE 0
  BY <1>1, RevertUndoes DEF TrailWhole
<1>4. QED BY <1>2, <1>3, CutWhole

\* Where every search starts.
LEMMA FreshWhole ==
  ASSUME NEW n \in Nat, n > 0, NEW rs, Len(rs) \in Nat,
         NEW f, f = Decide(EmptyTrail(n), SYSTEMSOLVABLE, 0, 1)
  PROVE  /\ TrailWhole(f, rs, n) /\ TopLevel(f) = 1
         /\ f.q = <<SYSTEMSOLVABLE>> /\ f.why = <<0>>
<1> DEFINE e == EmptyTrail(n)
<1>1. /\ f.q = Append(<<>>, 1) /\ f.why = Append(<<>>, 0)
      /\ f.map = [[p \in 1..n |-> 0] EXCEPT ![1] = 1]
  <2>1. e.q = <<>> /\ e.why = <<>> /\ e.map = [p \in 1..n |-> 0]
    BY DEF EmptyTrail
  <2>2. f.q = Append(e.q, 1) /\ f.why = Append(e.why, 0) /\ f.map = [e.map EXCEPT ![1] = 1]
    BY DEF Decide, SYSTEMSOLVABLE, Var
  <2>3. QED BY <2>1, <2>2
<1>2. /\ f.q = <<1>> /\ f.why = <<0>>
      /\ Len(f.q) = 1 /\ Len(f.why) = 1 /\ DOMAIN f.q = {1} /\ f.q[1] = 1 /\ f.why[1] = 0 /\ f.map[1] = 1
  <2>1. f.q = <<1>> /\ f.why = <<0>>
    BY <1>1
  <2>2. f.map[1] = 1
    BY <1>1
  <2>3. DOMAIN <<1>> = {1} /\ Len(<<1>>) = 1 /\ Len(<<0>>) = 1 /\ <<1>>[1] = 1 /\ <<0>>[1] = 0
    OBVIOUS
  <2>4. QED BY <2>1, <2>2, <2>3
<1>21. f.map = [p \in 1..n |-> IF p = 1 THEN 1 ELSE 0]
  BY <1>1
<1>3. LevelIn(f, 1) = 1 /\ TopLevel(f) = 1
  BY <1>2 DEF LevelIn, TopLevel, Var, Level
<1>4. TrailType(f, n)
  <2>1. 1 \in Literals(1..n)
    BY DEF Literals
  <2>2. <<1>> \in Seq(Literals(1..n)) /\ <<0>> \in Seq(Int)
    BY <2>1
  <2>3. f.map \in [1..n -> Int]
    BY <1>21
  <2>4. QED BY <1>2, <2>2, <2>3 DEF TrailType
<1>5. Agrees(f)
  BY <1>2, <1>21 DEF Agrees, IsTrue, Var
<1>6. Sorted(f)
  BY <1>2 DEF Sorted, Level, Var
<1>7. Stairs(f)
  <2>1. \A k \in 2..1 : FALSE
    OBVIOUS
  <2>2. <<1>> # <<>> /\ 1..1 = {1}
    OBVIOUS
  <2>3. QED BY <1>2, <1>3, <2>1, <2>2 DEF Stairs, SYSTEMSOLVABLE
<1>8. Reasons(f, rs)
  BY <1>2 DEF Reasons
<1>9. QED BY <1>2, <1>3, <1>4, <1>5, <1>6, <1>7, <1>8 DEF TrailWhole, SYSTEMSOLVABLE

\* Adding a rule to the array changes no reason.
LEMMA AddingRuleKeepsTrail ==
  ASSUME NEW n \in Nat, NEW t, NEW rs, TrailWhole(t, rs, n), Len(rs) \in Nat,
         NEW rs2, Len(rs2) \in Nat, Len(rs) <= Len(rs2), \A i \in 1..Len(rs) : rs2[i] = rs[i]
  PROVE  TrailWhole(t, rs2, n)
<1>1. Reasons(t, rs2)
  <2> SUFFICES ASSUME NEW k \in DOMAIN t.q
               PROVE  /\ t.why[k] \in -Len(rs2)..Len(rs2)
                      /\ t.why[k] > 0 =>
                           /\ t.q[k] \in Range(rs2[t.why[k]].lits)
                           /\ \A l \in Range(rs2[t.why[k]].lits) \ {t.q[k]} :
                                \E j \in 1..(k - 1) : t.q[j] = -l
    BY DEF Reasons
  <2>1. /\ t.why[k] \in -Len(rs)..Len(rs)
        /\ t.why[k] > 0 =>
             /\ t.q[k] \in Range(rs[t.why[k]].lits)
             /\ \A l \in Range(rs[t.why[k]].lits) \ {t.q[k]} : \E j \in 1..(k - 1) : t.q[j] = -l
    BY DEF TrailWhole, Reasons
  <2>2. t.why[k] \in -Len(rs2)..Len(rs2) /\ (t.why[k] > 0 => t.why[k] \in 1..Len(rs))
    BY <2>1
  <2>3. QED BY <2>1, <2>2
<1>2. QED BY <1>1 DEF TrailWhole
=============================================================================
