----------------------------- MODULE StoreProofs ----------------------------
(***************************************************************************)
(* Queues fit: every operation leaves the numbers of its queue right,      *)
(* whatever the cells have. And queues are sequences: every operation      *)
(* leaves the elements it should. Pages of a file are where the buffer     *)
(* says they are, and where whoever asked for them is told they are.       *)
(* Edges of a transaction's elements are kept as their lists grow and      *)
(* move, and turned round.                                                 *)
(***************************************************************************)
EXTENDS QueueBuffer, PageStore, EdgeLists, TLAPS, WellFoundedInduction, FiniteSetTheorems

Numbered(s) ==
  /\ DOMAIN s = {"alloc", "size", "off", "count", "left", "cells"}
  /\ s.size \in Nat /\ s.off \in Nat /\ s.count \in Nat /\ s.left \in Nat

Fits(s) == Numbered(s) /\ s.off + s.count + s.left = s.size

\* A queue that has got more room fits, and there is room behind its elements
\* (queue_alloc_one).
LEMMA AllocFits ==
  ASSUME NEW s, Fits(s)
  PROVE  Fits(queue_alloc_one(s)) /\ queue_alloc_one(s).left > 0
<1>1. CASE ~s.alloc
  BY <1>1, QueueAssumption DEF queue_alloc_one, Fits, Numbered
<1>2. CASE s.alloc /\ s.off # 0
  BY <1>2 DEF queue_alloc_one, Fits, Numbered
<1>3. CASE s.alloc /\ s.off = 0
  BY <1>3, QueueAssumption DEF queue_alloc_one, Fits, Numbered
<1> QED BY <1>1, <1>2, <1>3

\* Room at the front is taken from behind (queue_alloc_one_head).
LEMMA AllocHeadFits ==
  ASSUME NEW s, Fits(s)
  PROVE  Fits(queue_alloc_one_head(s)) /\ queue_alloc_one_head(s).off > 0
<1> DEFINE r == IF ~s.alloc \/ s.left = 0 THEN queue_alloc_one(s) ELSE s
           l == Lesser(r.left, EXTRA_SPACE_HEAD)
<1>1. Fits(r) /\ r.left > 0
  BY AllocFits DEF Fits, Numbered
<1>2. l \in Nat \ {0} /\ l <= r.left
  BY <1>1, QueueAssumption DEF Lesser, Fits, Numbered
<1>3. queue_alloc_one_head(s)
        = [r EXCEPT !.off = r.off + l, !.left = r.left - l, !.cells = Move(r.cells, r.off + l, r.off, r.count)]
  BY DEF queue_alloc_one_head
<1> DEFINE h == queue_alloc_one_head(s)
<1> HIDE DEF r, l
<1>4. DOMAIN h = DOMAIN r /\ h.off = r.off + l /\ h.left = r.left - l /\ h.count = r.count /\ h.size = r.size
  BY <1>1, <1>3 DEF Fits, Numbered
<1> HIDE DEF h
<1>5. Fits(h) /\ h.off > 0
  BY <1>1, <1>2, <1>4 DEF Fits, Numbered
<1> QED BY <1>5 DEF h

\* An element more fits, at either end (queue_push, queue_unshift).
LEMMA PushFits ==
  ASSUME NEW s, NEW id, Fits(s)
  PROVE  Fits(queue_push(s, id)) /\ queue_push(s, id).count = s.count + 1
<1> DEFINE r == IF s.left = 0 THEN queue_alloc_one(s) ELSE s
<1>1. Fits(r) /\ r.left > 0 /\ r.count = s.count
  BY AllocFits DEF Fits, Numbered, queue_alloc_one
<1>2. queue_push(s, id) = [r EXCEPT !.cells[r.off + r.count] = id, !.count = r.count + 1, !.left = r.left - 1]
  BY DEF queue_push
<1> HIDE DEF r
<1> QED BY <1>1, <1>2 DEF Fits, Numbered

\* An element in front fits as well (queue_unshift).
LEMMA UnshiftFits ==
  ASSUME NEW s, NEW id, Fits(s)
  PROVE  Fits(queue_unshift(s, id))
<1> DEFINE r == IF ~s.alloc \/ s.off = 0 THEN queue_alloc_one_head(s) ELSE s
<1>1. Fits(r) /\ r.off > 0
  BY AllocHeadFits DEF Fits, Numbered
<1>2. queue_unshift(s, id) = [r EXCEPT !.off = r.off - 1, !.cells[r.off - 1] = id, !.count = r.count + 1]
  BY DEF queue_unshift
<1> HIDE DEF r
<1> QED BY <1>1, <1>2 DEF Fits, Numbered

\* Elements in the middle (queue_insert, queue_insert2, queue_insertn).
LEMMA InsertFits ==
  ASSUME NEW s, NEW id, NEW pos \in Nat, Fits(s)
  PROVE  Fits(queue_insert(s, pos, id))
<1> DEFINE r == queue_push(s, id)
<1>1. Fits(r)
  BY PushFits
<1> QED BY <1>1 DEF queue_insert, Fits, Numbered

\* Two elements in the middle (queue_insert2).
LEMMA Insert2Fits ==
  ASSUME NEW s, NEW id1, NEW id2, NEW pos \in Nat, Fits(s)
  PROVE  Fits(queue_insert2(s, pos, id1, id2))
<1> DEFINE r == queue_push(queue_push(s, id1), id2)
<1>1. Fits(r)
  BY PushFits
<1> QED BY <1>1 DEF queue_insert2, Fits, Numbered

\* Any number of zeros in the middle (queue_insertn).
LEMMA InsertnFits ==
  ASSUME NEW s, NEW pos \in Nat, NEW n \in Nat, Fits(s)
  PROVE  Fits(queue_insertn(s, pos, n))
<1> DEFINE a == IF s.left < n /\ ~s.alloc THEN queue_alloc_one(s) ELSE s
           r == IF s.left < n THEN [a EXCEPT !.size = a.off + a.count + n + EXTRA_SPACE, !.left = n + EXTRA_SPACE] ELSE a
           m == queue_insertn(s, pos, n)
<1>1. CASE n <= 0
  BY <1>1 DEF queue_insertn
<1>2. CASE n > 0
  <2>1. Fits(a) /\ (s.left >= n => a = s)
    BY AllocFits DEF Fits, Numbered
  <2>2. Fits(r) /\ r.left >= n
    <3> HIDE DEF a
    <3> QED BY <2>1, QueueAssumption DEF Fits, Numbered
  <2>3. DOMAIN m = DOMAIN r /\ m.left = r.left - n /\ m.count = r.count + n /\ m.off = r.off /\ m.size = r.size
    <3> DEFINE p == Lesser(pos, r.count)
               moved == Move(r.cells, r.off + p + n, r.off + p, r.count - p)
               cells == [i \in DOMAIN moved |-> IF i \in r.off + p .. r.off + p + n - 1 THEN 0 ELSE moved[i]]
    <3>1. m = [r EXCEPT !.left = r.left - n, !.count = r.count + n, !.cells = cells]
      BY <1>2 DEF queue_insertn
    <3> HIDE DEF r, m, cells
    <3> QED BY <2>2, <3>1 DEF Fits, Numbered
  <2> HIDE DEF r, m
  <2> QED BY <2>2, <2>3 DEF Fits, Numbered, m
<1> QED BY <1>1, <1>2

\* Whatever is taken out leaves room behind, or in front
\* (queue_shift, queue_pop, queue_empty, queue_truncate and the deletes).
LEMMA TakingFits ==
  ASSUME NEW s, NEW pos \in Nat, NEW n \in Nat, Fits(s)
  PROVE  /\ Fits(queue_shift(s)) /\ Fits(queue_pop(s)) /\ Fits(queue_empty(s)) /\ Fits(queue_truncate(s, pos))
         /\ Fits(queue_delete(s, pos)) /\ Fits(queue_delete2(s, pos)) /\ Fits(queue_deleten(s, pos, n))
<1>1. Fits(queue_shift(s)) /\ Fits(queue_pop(s))
  BY DEF queue_shift, queue_pop, Fits, Numbered
<1>2. Fits(queue_empty(s)) /\ Fits(queue_truncate(s, pos))
  BY DEF queue_empty, queue_truncate, Fits, Numbered
<1>3. Fits(queue_delete(s, pos))
  BY DEF queue_delete, Fits, Numbered
<1>4. Fits(queue_delete2(s, pos))
  BY DEF queue_delete2, Fits, Numbered
<1>5. Fits(queue_deleten(s, pos, n))
  <2> DEFINE k == Lesser(n, s.count - pos)
  <2>1. CASE n <= 0 \/ pos >= s.count
    BY <2>1 DEF queue_deleten
  <2>2. CASE n > 0 /\ pos < s.count
    <3>1. k \in Nat /\ k <= s.count
      BY <2>2 DEF Lesser, Fits, Numbered
    <3>2. queue_deleten(s, pos, n)
            = [s EXCEPT !.left = s.left + k, !.count = s.count - k,
                        !.cells = Move(s.cells, s.off + pos, s.off + pos + k, s.count - k - pos)]
      BY <2>2 DEF queue_deleten, Fits, Numbered
    <3> HIDE DEF k
    <3> QED BY <3>1, <3>2 DEF Fits, Numbered
  <2> QED BY <2>1, <2>2 DEF Fits, Numbered
<1> QED BY <1>1, <1>2, <1>3, <1>4, <1>5

\* A new queue, and a copy (queue_init, queue_init_buffer, queue_init_clone).
LEMMA NewFits ==
  /\ Fits(queue_init)
  /\ \A size \in Nat : Fits(queue_init_buffer(size))
  /\ \A s : Fits(s) => Fits(queue_init_clone(s))
<1>1. Fits(queue_init)
  BY DEF queue_init, Fits, Numbered
<1>2. \A size \in Nat : Fits(queue_init_buffer(size))
  BY <1>1 DEF queue_init_buffer, queue_init, Fits, Numbered
<1>3. ASSUME NEW s, Fits(s) PROVE Fits(queue_init_clone(s))
  BY <1>1, <1>3, QueueAssumption DEF queue_init_clone, Fits, Numbered
<1> QED BY <1>1, <1>2, <1>3

\* A queue keeps within its block, whatever its size, its buffer, the ids and
\* the calls (src/queue.c): the elements and the room around them are the block.
THEOREM QueuesFit == QueueSpec => []QueueFits
<1>1. QueueInit => Fits(q)
  BY NewFits, QueueAssumption DEF QueueInit
<1>2. Fits(q) /\ [QueueNext]_q => Fits(q)'
  <2> SUFFICES ASSUME Fits(q), [QueueNext]_q PROVE Fits(q')
    BY DEF Fits, Numbered
  <2>1. ASSUME NEW s, Fits(s), Becomes(s) PROVE Fits(q')
    BY <2>1 DEF Becomes, Fits, Numbered
  <2>2. CASE Push
    <3>1. PICK id \in QueueIds :
            Becomes(queue_push(q, id)) \/ Becomes(queue_pushunique(q, id)) \/ Becomes(queue_unshift(q, id))
      BY <2>2 DEF Push
    <3> QED BY <2>1, <3>1, PushFits, UnshiftFits DEF queue_pushunique
  <2>3. CASE Take
    BY <2>1, <2>3, TakingFits DEF Take
  <2>4. CASE Insert
    BY <2>1, <2>4, QueueAssumption, InsertFits, Insert2Fits, InsertnFits DEF Insert, Positions
  <2>5. CASE Delete
    <3>1. PICK pos \in Nat :
            \/ Becomes(queue_delete(q, pos)) \/ Becomes(queue_delete2(q, pos)) \/ Becomes(queue_truncate(q, pos))
            \/ \E n \in Nat : Becomes(queue_deleten(q, pos, n))
      BY <2>5, QueueAssumption DEF Delete, Positions
    <3>2. CASE \E n \in Nat : Becomes(queue_deleten(q, pos, n))
      BY <2>1, <3>2, TakingFits
    <3>3. Fits(queue_delete(q, pos)) /\ Fits(queue_delete2(q, pos)) /\ Fits(queue_truncate(q, pos))
      BY TakingFits, 0 \in Nat
    <3> QED BY <2>1, <3>1, <3>2, <3>3
  <2>6. CASE Anew
    BY <2>1, <2>6, TakingFits, NewFits DEF Anew
  <2>7. CASE UNCHANGED q
    BY <2>7
  <2> QED BY <2>2, <2>3, <2>4, <2>5, <2>6, <2>7 DEF QueueNext
<1>3. Fits(q) => QueueFits
  BY DEF Fits, Numbered, QueueFits
<1> QED BY <1>1, <1>2, <1>3, PTL DEF QueueSpec

----------------------------------------------------------------------------
(* Queues are sequences: every call leaves the content it should, wherever  *)
(* in its block the queue is.                                               *)

Cells(V) == [0 .. Memory - 1 -> V]

\* A queue as the calls leave it; one that is too large for memory is still empty.
IsQueue(V, s) ==
  Fits(s) /\ s.cells \in Cells(V) /\ (s.size <= Memory \/ (s.off = 0 /\ s.count = 0))

\* d is what the queue t has.
Holds(t, d) == Len(d) = t.count /\ \A j \in 1 .. t.count : t.cells[t.off + j - 1] = d[j]

\* n cells from a place in d are those from a place in c.
Alike(d, to, c, from, n) == \A j \in 1 .. n : d[to + j - 1] = c[from + j - 1]

\* d are the cells c, but for n that are moved.
IsMoved(d, to, c, from, n) ==
  \A i \in 0 .. Memory - 1 : d[i] = IF i \in to .. to + n - 1 THEN c[i - to + from] ELSE c[i]

\* The elements of s are those of r.
Same(V, r, s) ==
  /\ Fits(r) /\ r.cells \in Cells(V) /\ r.count = s.count /\ r.off + r.count <= Memory
  /\ Alike(r.cells, r.off, s.cells, s.off, s.count)

\* The elements of a queue lie in memory and are its content.
LEMMA ContentFacts ==
  ASSUME NEW V, NEW s, IsQueue(V, s)
  PROVE  /\ s.off \in Nat /\ s.count \in Nat /\ s.left \in Nat /\ s.size \in Nat /\ s.off + s.count <= Memory
         /\ Content(s) \in Seq(V) /\ Holds(s, Content(s))
<1>1. s.off \in Nat /\ s.count \in Nat /\ s.left \in Nat /\ s.size \in Nat /\ s.off + s.count <= Memory
  BY QueueAssumption DEF IsQueue, Fits, Numbered
<1>2. \A j \in 1 .. s.count : s.off + j - 1 \in 0 .. Memory - 1
  BY <1>1, QueueAssumption
<1>3. \A j \in 1 .. s.count : s.cells[s.off + j - 1] \in V
  BY <1>2 DEF IsQueue, Cells
<1> DEFINE c == Content(s)
<1>4. c = [j \in 1 .. s.count |-> s.cells[s.off + j - 1]]
  BY DEF Content
<1>5. c \in [1 .. s.count -> V]
  BY <1>3, <1>4
<1>6. c \in Seq(V) /\ Len(c) = s.count
  BY <1>1, <1>5
<1>7. \A j \in 1 .. s.count : c[j] = s.cells[s.off + j - 1]
  BY <1>4
<1> QED BY <1>1, <1>6, <1>7 DEF Holds

\* The content is the only sequence that the queue holds.
LEMMA ContentIs ==
  ASSUME NEW V, NEW t, t.count \in Nat, NEW d, d \in Seq(V), Holds(t, d)
  PROVE  Content(t) = d
<1>1. d = [j \in 1 .. t.count |-> d[j]]
  BY DEF Holds
<1>2. [j \in 1 .. t.count |-> t.cells[t.off + j - 1]] = [j \in 1 .. t.count |-> d[j]]
  BY DEF Holds
<1> QED BY <1>1, <1>2 DEF Content

\* What memmove leaves in each cell.
LEMMA MoveFacts ==
  ASSUME NEW V, NEW cells, cells \in Cells(V), NEW to \in Nat, NEW from \in Nat, NEW n \in Nat,
         from + n <= Memory
  PROVE  Move(cells, to, from, n) \in Cells(V) /\ IsMoved(Move(cells, to, from, n), to, cells, from, n)
<1>1. DOMAIN cells = 0 .. Memory - 1 /\ \A i \in 0 .. Memory - 1 : cells[i] \in V
  BY DEF Cells
<1>2. \A i \in 0 .. Memory - 1 : i \in to .. to + n - 1 => i - to + from \in 0 .. Memory - 1
  BY QueueAssumption
<1> QED BY <1>1, <1>2 DEF Move, Cells, IsMoved

\* What the operators on sequences have.
IsFrom(z, c, i) ==
  Len(z) = (IF i < Len(c) THEN Len(c) - i ELSE 0) /\ \A j \in 1 .. Len(z) : z[j] = c[i + j]

IsUpto(z, c, i) == Len(z) = (IF i <= 0 THEN 0 ELSE Lesser(i, Len(c))) /\ \A j \in 1 .. Len(z) : z[j] = c[j]

IsJoin(z, a, b) ==
  /\ Len(z) = Len(a) + Len(b)
  /\ \A j \in 1 .. Len(a) : z[j] = a[j]
  /\ \A j \in 1 .. Len(b) : z[Len(a) + j] = b[j]

\* The end of a sequence, its beginning, and a sequence behind another.
LEMMA FromFacts ==
  ASSUME NEW V, NEW c, c \in Seq(V), NEW i \in Nat
  PROVE  From(c, i) \in Seq(V) /\ IsFrom(From(c, i), c, i)
BY DEF From, IsFrom

LEMMA UptoFacts ==
  ASSUME NEW V, NEW c, c \in Seq(V), NEW i \in Int, i >= -1
  PROVE  Upto(c, i) \in Seq(V) /\ IsUpto(Upto(c, i), c, i)
BY DEF Upto, Lesser, IsUpto

LEMMA JoinFacts ==
  ASSUME NEW V, NEW a, a \in Seq(V), NEW b, b \in Seq(V)
  PROVE  a \o b \in Seq(V) /\ IsJoin(a \o b, a, b)
BY DEF IsJoin

\* Sequences of the same elements are the same.
LEMMA SameSequence ==
  ASSUME NEW V, NEW d, d \in Seq(V), NEW e, e \in Seq(V), Len(d) = Len(e), \A j \in 1 .. Len(d) : d[j] = e[j]
  PROVE  d = e
OBVIOUS

\* What joins two sequences is their concatenation.
LEMMA JoinIs ==
  ASSUME NEW V, NEW a, a \in Seq(V), NEW b, b \in Seq(V), NEW d, d \in Seq(V), IsJoin(d, a, b)
  PROVE  d = a \o b
<1> DEFINE e == a \o b
<1>1. e \in Seq(V) /\ IsJoin(e, a, b)
  BY JoinFacts
<1> HIDE DEF e
<1> PICK m \in Nat, n \in Nat : m = Len(a) /\ n = Len(b)
  OBVIOUS
<1>2. Len(d) = m + n /\ Len(e) = m + n
  BY <1>1 DEF IsJoin
<1>3. ASSUME NEW j \in 1 .. m + n
      PROVE  d[j] = e[j]
  <2>1. CASE j \in 1 .. m
    BY <1>1, <2>1 DEF IsJoin
  <2>2. CASE ~(j \in 1 .. m)
    <3>1. j - m \in 1 .. n /\ m + (j - m) = j
      BY <2>2
    <3>2. d[m + (j - m)] = b[j - m] /\ e[m + (j - m)] = b[j - m]
      BY <1>1, <3>1 DEF IsJoin
    <3> QED BY <3>1, <3>2
  <2> QED BY <2>1, <2>2
<1>4. d = e
  BY <1>1, <1>2, <1>3, SameSequence
<1> QED BY <1>4 DEF e

\* d is c with mid in place of what is between p and f.
IsSplice(d, c, p, mid, f) ==
  /\ Len(d) = p + Len(mid) + (Len(c) - f)
  /\ \A j \in 1 .. p : d[j] = c[j]
  /\ \A j \in 1 .. Len(mid) : d[p + j] = mid[j]
  /\ \A j \in 1 .. Len(c) - f : d[p + Len(mid) + j] = c[f + j]

\* What is put in place of a part of a sequence.
LEMMA Spliced ==
  ASSUME NEW V, NEW c, c \in Seq(V), NEW mid, mid \in Seq(V), NEW pos \in Nat, NEW i \in Nat,
         NEW d, d \in Seq(V), IsSplice(d, c, Lesser(pos, Len(c)), mid, Lesser(i, Len(c)))
  PROVE  d = Upto(c, pos) \o mid \o From(c, i)
<1> DEFINE u == Upto(c, pos)
           x == From(c, i)
           um == u \o mid
<1> PICK n \in Nat, m \in Nat : n = Len(c) /\ m = Len(mid)
  OBVIOUS
<1>0. Lesser(pos, n) \in Nat /\ Lesser(i, n) \in Nat
  BY DEF Lesser
<1> PICK p \in Nat, f \in Nat : p = Lesser(pos, n) /\ f = Lesser(i, n)
  BY <1>0
<1>1. u \in Seq(V) /\ IsUpto(u, c, pos)
  BY UptoFacts
<1>2. x \in Seq(V) /\ IsFrom(x, c, i)
  BY FromFacts
<1>3. um \in Seq(V) /\ IsJoin(um, u, mid)
  BY <1>1, JoinFacts
<1> HIDE DEF u, x, um
<1>4. Len(u) = p /\ \A j \in 1 .. p : u[j] = c[j]
  BY <1>1 DEF IsUpto, Lesser
<1>5. Len(x) = n - f /\ \A j \in 1 .. n - f : x[j] = c[f + j]
  <2>1. CASE i < n
    BY <1>2, <2>1 DEF IsFrom, Lesser
  <2>2. CASE ~(i < n)
    BY <1>2, <2>2 DEF IsFrom, Lesser
  <2> QED BY <2>1, <2>2
<1>6. Len(um) = p + m
  BY <1>3, <1>4 DEF IsJoin
<1>7. Len(d) = p + m + (n - f) /\ (\A j \in 1 .. p : d[j] = c[j]) /\ (\A j \in 1 .. m : d[p + j] = mid[j])
      /\ \A j \in 1 .. n - f : d[p + m + j] = c[f + j]
  BY DEF IsSplice
<1>8. ASSUME NEW j \in 1 .. p + m
      PROVE  d[j] = um[j]
  <2>1. CASE j \in 1 .. p
    BY <1>3, <1>4, <1>7, <2>1 DEF IsJoin
  <2>2. CASE ~(j \in 1 .. p)
    <3>1. j - p \in 1 .. m /\ p + (j - p) = j
      BY <2>2
    <3>2. um[p + (j - p)] = mid[j - p] /\ d[p + (j - p)] = mid[j - p]
      BY <1>3, <1>4, <1>7, <3>1 DEF IsJoin
    <3> QED BY <3>1, <3>2
  <2> QED BY <2>1, <2>2
<1>9. IsJoin(d, um, x)
  BY <1>5, <1>6, <1>7, <1>8 DEF IsJoin
<1>10. d = um \o x
  BY <1>2, <1>3, <1>9, JoinIs
<1> QED BY <1>10 DEF um, u, x

\* A queue that is not moved has its elements.
LEMMA SameItself ==
  ASSUME NEW V, NEW s, IsQueue(V, s)
  PROVE  Same(V, s, s)
BY ContentFacts DEF Same, IsQueue, Alike

\* Elements that are moved as a whole stay what they are.
LEMMA MoveKeeps ==
  ASSUME NEW V, NEW r, r.cells \in Cells(V), r.off \in Nat, r.count \in Nat, r.off + r.count <= Memory,
         NEW to \in Nat, to + r.count <= Memory
  PROVE  /\ Move(r.cells, to, r.off, r.count) \in Cells(V)
         /\ Alike(Move(r.cells, to, r.off, r.count), to, r.cells, r.off, r.count)
<1> DEFINE m == Move(r.cells, to, r.off, r.count)
<1>1. m \in Cells(V) /\ IsMoved(m, to, r.cells, r.off, r.count)
  BY MoveFacts
<1> HIDE DEF m
<1>2. ASSUME NEW j \in 1 .. r.count
      PROVE  m[to + j - 1] = r.cells[r.off + j - 1]
  <2>1. to + j - 1 \in 0 .. Memory - 1 /\ to + j - 1 \in to .. to + r.count - 1 /\ (to + j - 1) - to + r.off = r.off + j - 1
    BY QueueAssumption
  <2> QED BY <1>1, <2>1 DEF IsMoved
<1> QED BY <1>1, <1>2 DEF m, Alike

\* More room, behind or in front: the elements stay.
LEMMA AllocKeeps ==
  ASSUME NEW V, NEW s, IsQueue(V, s), queue_alloc_one(s).size <= Memory
  PROVE  Same(V, queue_alloc_one(s), s)
<1> DEFINE r == queue_alloc_one(s)
<1>1. Fits(r)
  BY AllocFits DEF IsQueue
<1>2. r.off + r.count <= Memory
  BY <1>1, QueueAssumption DEF Fits, Numbered
<1>3. s.off \in Nat /\ s.count \in Nat /\ s.off + s.count <= Memory /\ s.cells \in Cells(V)
  BY ContentFacts DEF IsQueue
<1>4. /\ Move(s.cells, 0, s.off, s.count) \in Cells(V)
      /\ Alike(Move(s.cells, 0, s.off, s.count), 0, s.cells, s.off, s.count)
  <2>1. 0 \in Nat /\ 0 + s.count <= Memory
    BY <1>3, QueueAssumption
  <2> QED BY <1>3, <2>1, MoveKeeps
<1>5. CASE ~s.alloc \/ s.off # 0
  <2>1. r.off = 0 /\ r.count = s.count /\ r.cells = Move(s.cells, 0, s.off, s.count)
    BY <1>5 DEF queue_alloc_one, IsQueue, Fits, Numbered
  <2> HIDE DEF r
  <2>2. Same(V, r, s)
    BY <1>1, <1>2, <1>4, <2>1 DEF Same
  <2> QED BY <2>2 DEF r
<1>6. CASE s.alloc /\ s.off = 0
  <2>1. r.off = s.off /\ r.count = s.count /\ r.cells = s.cells
    BY <1>6 DEF queue_alloc_one, IsQueue, Fits, Numbered
  <2> HIDE DEF r
  <2>2. Same(V, r, s)
    BY <1>1, <1>2, <1>3, <2>1 DEF Same, Alike
  <2> QED BY <2>2 DEF r
<1> QED BY <1>5, <1>6

\* Room in front: the elements move with it (queue_alloc_one_head).
LEMMA AllocHeadKeeps ==
  ASSUME NEW V, NEW s, IsQueue(V, s), queue_alloc_one_head(s).size <= Memory
  PROVE  Same(V, queue_alloc_one_head(s), s)
<1> DEFINE r == IF ~s.alloc \/ s.left = 0 THEN queue_alloc_one(s) ELSE s
           l == Lesser(r.left, EXTRA_SPACE_HEAD)
           h == queue_alloc_one_head(s)
<1>1. Fits(r) /\ Fits(h)
  BY AllocFits, AllocHeadFits DEF IsQueue
<1>2. h = [r EXCEPT !.off = r.off + l, !.left = r.left - l, !.cells = Move(r.cells, r.off + l, r.off, r.count)]
  BY DEF queue_alloc_one_head
<1>3. r = queue_alloc_one(s) \/ r = s
  OBVIOUS
<1> HIDE DEF r, h
<1>4. l \in Nat
  BY <1>1, QueueAssumption DEF Lesser, Fits, Numbered
<1> HIDE DEF l
<1>5. /\ h.off = r.off + l /\ h.count = r.count /\ h.size = r.size
      /\ h.cells = Move(r.cells, r.off + l, r.off, r.count)
  BY <1>1, <1>2 DEF Fits, Numbered
<1>6. h.size <= Memory
  BY DEF h
<1>7. Same(V, r, s)
  BY <1>3, <1>5, <1>6, AllocKeeps, SameItself
<1>8. h.off + h.count <= Memory
  BY <1>1, <1>6, QueueAssumption DEF Fits, Numbered
<1>9. h.cells \in Cells(V) /\ Alike(h.cells, h.off, r.cells, r.off, r.count)
  <2>1. r.off \in Nat /\ r.count \in Nat /\ h.off \in Nat
    BY <1>1 DEF Fits, Numbered
  <2>2. r.cells \in Cells(V) /\ r.off + r.count <= Memory
    BY <1>7 DEF Same
  <2>3. h.off + r.count <= Memory
    BY <1>5, <1>8
  <2> QED BY <1>5, <2>1, <2>2, <2>3, MoveKeeps
<1>10. Same(V, h, s)
  BY <1>1, <1>5, <1>7, <1>8, <1>9 DEF Same, Alike
<1> QED BY <1>10 DEF h

\* An element more, at the end (queue_push, queue_pushunique).
LEMMA PushDoes ==
  ASSUME NEW V, NEW s, IsQueue(V, s), NEW id \in V, queue_push(s, id).size <= Memory
  PROVE  IsQueue(V, queue_push(s, id)) /\ Content(queue_push(s, id)) = Append(Content(s), id)
<1> DEFINE r == IF s.left = 0 THEN queue_alloc_one(s) ELSE s
           t == queue_push(s, id)
           c == Content(s)
           d == Append(c, id)
<1>1. Fits(r) /\ r.left > 0 /\ Fits(t)
  BY AllocFits, PushFits DEF IsQueue, Fits, Numbered
<1>2. t = [r EXCEPT !.cells[r.off + r.count] = id, !.count = r.count + 1, !.left = r.left - 1]
  BY DEF queue_push
<1>3. r = queue_alloc_one(s) \/ r = s
  OBVIOUS
<1>4. t.size <= Memory
  OBVIOUS
<1> HIDE DEF r, t
<1>5. /\ t.off = r.off /\ t.count = r.count + 1 /\ t.size = r.size
      /\ t.cells = [r.cells EXCEPT ![r.off + r.count] = id]
  BY <1>1, <1>2 DEF Fits, Numbered
<1>6. Same(V, r, s)
  BY <1>3, <1>4, <1>5, AllocKeeps, SameItself
<1>7. r.off \in Nat /\ r.count \in Nat /\ r.off + r.count \in 0 .. Memory - 1 /\ r.count = s.count
  BY <1>1, <1>4, <1>5, <1>6, QueueAssumption DEF Fits, Numbered, Same
<1>8. /\ t.cells \in Cells(V) /\ t.cells[r.off + r.count] = id
      /\ \A i \in 0 .. Memory - 1 : i # r.off + r.count => t.cells[i] = r.cells[i]
  BY <1>5, <1>6, <1>7 DEF Same, Cells
<1>9. c \in Seq(V) /\ Holds(s, c)
  BY ContentFacts
<1> HIDE DEF c
<1>10. d \in Seq(V) /\ Len(d) = s.count + 1 /\ d[s.count + 1] = id /\ \A j \in 1 .. s.count : d[j] = c[j]
  BY <1>9 DEF Holds
<1> HIDE DEF d
<1>11. ASSUME NEW j \in 1 .. s.count + 1
       PROVE  t.cells[t.off + j - 1] = d[j]
  <2>1. CASE j = s.count + 1
    <3>1. t.off + j - 1 = r.off + r.count
      BY <1>5, <1>7, <2>1
    <3> QED BY <1>8, <1>10, <2>1, <3>1
  <2>2. CASE j # s.count + 1
    <3>1. j \in 1 .. s.count /\ r.off + j - 1 \in 0 .. Memory - 1 /\ r.off + j - 1 # r.off + r.count
      BY <1>7, <2>2, QueueAssumption
    <3>2. t.cells[r.off + j - 1] = s.cells[s.off + j - 1]
      BY <1>6, <1>8, <3>1 DEF Same, Alike
    <3> QED BY <1>5, <1>9, <1>10, <3>1, <3>2 DEF Holds
  <2> QED BY <2>1, <2>2
<1>12. Content(t) = d
  <2>1. Holds(t, d) /\ t.count \in Nat
    BY <1>5, <1>7, <1>10, <1>11 DEF Holds
  <2> QED BY <1>10, <2>1, ContentIs
<1>13. IsQueue(V, t)
  BY <1>1, <1>4, <1>8 DEF IsQueue
<1> QED BY <1>12, <1>13 DEF t, c, d

\* An element more, in front (queue_unshift).
LEMMA UnshiftDoes ==
  ASSUME NEW V, NEW s, IsQueue(V, s), NEW id \in V, queue_unshift(s, id).size <= Memory
  PROVE  IsQueue(V, queue_unshift(s, id)) /\ Content(queue_unshift(s, id)) = <<id>> \o Content(s)
<1> DEFINE r == IF ~s.alloc \/ s.off = 0 THEN queue_alloc_one_head(s) ELSE s
           t == queue_unshift(s, id)
           c == Content(s)
<1>1. Fits(r) /\ r.off > 0 /\ Fits(t)
  BY AllocHeadFits, UnshiftFits DEF IsQueue, Fits, Numbered
<1>2. t = [r EXCEPT !.off = r.off - 1, !.cells[r.off - 1] = id, !.count = r.count + 1]
  BY DEF queue_unshift
<1>3. r = queue_alloc_one_head(s) \/ r = s
  OBVIOUS
<1>4. t.size <= Memory
  OBVIOUS
<1> HIDE DEF r, t
<1>5. /\ t.off = r.off - 1 /\ t.count = r.count + 1 /\ t.size = r.size
      /\ t.cells = [r.cells EXCEPT ![r.off - 1] = id]
  BY <1>1, <1>2 DEF Fits, Numbered
<1>6. Same(V, r, s)
  BY <1>3, <1>4, <1>5, AllocHeadKeeps, SameItself
<1>7. /\ r.off \in Nat /\ r.off > 0 /\ r.count \in Nat /\ r.off + r.count <= Memory /\ r.off - 1 \in 0 .. Memory - 1
      /\ r.count = s.count
  BY <1>1, <1>6, QueueAssumption DEF Fits, Numbered, Same
<1>8. /\ t.cells \in Cells(V) /\ t.cells[r.off - 1] = id
      /\ \A i \in 0 .. Memory - 1 : i # r.off - 1 => t.cells[i] = r.cells[i]
  BY <1>5, <1>6, <1>7 DEF Same, Cells
<1>9. c \in Seq(V) /\ Holds(s, c)
  BY ContentFacts
<1> HIDE DEF c
<1> DEFINE d == <<id>> \o c
<1>10. d \in Seq(V) /\ Len(d) = s.count + 1 /\ d[1] = id /\ \A j \in 1 .. s.count : d[1 + j] = c[j]
  <2>1. <<id>> \in Seq(V) /\ Len(<<id>>) = 1 /\ <<id>>[1] = id
    OBVIOUS
  <2>2. d \in Seq(V) /\ IsJoin(d, <<id>>, c)
    BY <1>9, <2>1, JoinFacts
  <2> HIDE DEF d
  <2>3. Len(d) = 1 + Len(c) /\ d[1] = id /\ \A j \in 1 .. Len(c) : d[1 + j] = c[j]
    BY <2>1, <2>2 DEF IsJoin
  <2> QED BY <1>7, <1>9, <2>2, <2>3 DEF Holds
<1> HIDE DEF d
<1>11. ASSUME NEW j \in 1 .. s.count + 1
       PROVE  t.cells[t.off + j - 1] = d[j]
  <2>1. CASE j = 1
    <3>1. t.off + j - 1 = r.off - 1
      BY <1>5, <1>7, <2>1
    <3> QED BY <1>8, <1>10, <2>1, <3>1
  <2>2. CASE j # 1
    <3>1. /\ j - 1 \in 1 .. s.count /\ r.off + (j - 1) - 1 \in 0 .. Memory - 1 /\ r.off + (j - 1) - 1 # r.off - 1
          /\ t.off + j - 1 = r.off + (j - 1) - 1 /\ 1 + (j - 1) = j
      BY <1>5, <1>7, <2>2, QueueAssumption
    <3>2. t.cells[r.off + (j - 1) - 1] = s.cells[s.off + (j - 1) - 1]
      BY <1>6, <1>8, <3>1 DEF Same, Alike
    <3>3. s.cells[s.off + (j - 1) - 1] = c[j - 1] /\ d[1 + (j - 1)] = c[j - 1]
      BY <1>9, <1>10, <3>1 DEF Holds
    <3> QED BY <3>1, <3>2, <3>3
  <2> QED BY <2>1, <2>2
<1>12. Content(t) = d
  <2>1. Holds(t, d) /\ t.count \in Nat
    BY <1>5, <1>7, <1>10, <1>11 DEF Holds
  <2> QED BY <1>10, <2>1, ContentIs
<1>13. IsQueue(V, t)
  BY <1>1, <1>4, <1>8 DEF IsQueue
<1> QED BY <1>12, <1>13 DEF t, c, d

\* n cells are those of c behind the first f.
Spells(cells, at, c, f, n) == \A j \in 1 .. n : cells[at + j - 1] = c[f + j]

\* A queue that is c with mid in place of what is between p and f.
Splices(V, t, c, p, mid, f) ==
  /\ Fits(t) /\ t.size <= Memory /\ t.cells \in Cells(V) /\ t.count = p + Len(mid) + (Len(c) - f)
  /\ Spells(t.cells, t.off, c, 0, p)
  /\ Spells(t.cells, t.off + p, mid, 0, Len(mid))
  /\ Spells(t.cells, t.off + p + Len(mid), c, f, Len(c) - f)

\* A queue whose content is d.
Gets(V, t, d) == IsQueue(V, t) /\ Content(t) = d

\* A queue that is c but for a part has a new part between two old ones.
LEMMA SpliceDoes ==
  ASSUME NEW V, NEW c, c \in Seq(V), NEW mid, mid \in Seq(V), NEW pos \in Nat, NEW i \in Nat,
         NEW p, p = Lesser(pos, Len(c)), NEW f, f = Lesser(i, Len(c)), NEW t, Splices(V, t, c, p, mid, f)
  PROVE  Gets(V, t, Upto(c, pos) \o mid \o From(c, i))
<1> DEFINE d == Content(t)
<1>1. IsQueue(V, t)
  BY DEF IsQueue, Splices
<1>2. d \in Seq(V) /\ Holds(t, d) /\ t.off \in Nat
  BY <1>1, ContentFacts
<1> HIDE DEF d
<1>3. PICK n \in Nat, m \in Nat, o \in Nat : n = Len(c) /\ m = Len(mid) /\ o = t.off
  BY <1>2
<1>4. p \in Nat /\ f \in Nat
  BY <1>3 DEF Lesser
<1>5. f <= n
  BY <1>3 DEF Lesser
<1>7. IsSplice(d, c, p, mid, f)
  <2>1. \A j \in 1 .. p : d[j] = c[j]
    <3>1. ASSUME NEW j \in 1 .. p PROVE d[j] = c[j]
      <4>1. j \in 1 .. p + m + (n - f) /\ 0 + j = j
        BY <1>4, <1>5
      <4> QED BY <1>2, <1>3, <4>1 DEF Holds, Spells, Splices
    <3> QED BY <3>1
  <2>2. \A j \in 1 .. m : d[p + j] = mid[j]
    <3>1. ASSUME NEW j \in 1 .. m PROVE d[p + j] = mid[j]
      <4>1. p + j \in 1 .. p + m + (n - f)
        BY <1>4, <1>5
      <4>2. 0 + j = j /\ o + (p + j) - 1 = o + p + j - 1
        BY <1>4
      <4>3. t.cells[o + (p + j) - 1] = d[p + j]
        BY <1>2, <1>3, <4>1 DEF Holds, Splices
      <4>4. t.cells[o + p + j - 1] = mid[0 + j]
        BY <1>3 DEF Splices, Spells
      <4> QED BY <4>2, <4>3, <4>4
    <3> QED BY <3>1
  <2>3. \A j \in 1 .. n - f : d[p + m + j] = c[f + j]
    <3> PICK e \in Nat, w \in Nat : e = p + m /\ w = n - f
      BY <1>4, <1>5
    <3>1. o + p + m = o + e
      BY <1>4
    <3>2. ASSUME NEW j \in 1 .. w PROVE d[e + j] = c[f + j]
      <4>1. e + j \in 1 .. e + w
        OBVIOUS
      <4>2. o + (e + j) - 1 = o + e + j - 1
        OBVIOUS
      <4>3. t.cells[o + (e + j) - 1] = d[e + j]
        BY <1>2, <1>3, <4>1 DEF Holds, Splices
      <4>4. t.cells[o + e + j - 1] = c[f + j]
        <5>1. Spells(t.cells, o + e, c, f, w)
          BY <1>3, <3>1 DEF Splices
        <5> QED BY <5>1 DEF Spells
      <4> QED BY <4>2, <4>3, <4>4
    <3> QED BY <3>2
  <2>4. Len(d) = p + m + (n - f)
    BY <1>2, <1>3 DEF Holds, Splices
  <2> QED BY <1>3, <2>1, <2>2, <2>3, <2>4 DEF IsSplice
<1>8. d = Upto(c, pos) \o mid \o From(c, i)
  <2>1. IsSplice(d, c, Lesser(pos, Len(c)), mid, Lesser(i, Len(c)))
    BY <1>7
  <2> QED BY <1>2, <2>1, Spliced
<1> QED BY <1>1, <1>8 DEF d, Gets

Inserted(V, t, c, pos, mid) ==
  c \in Seq(V) /\ mid \in Seq(V) /\ Splices(V, t, c, Lesser(pos, Len(c)), mid, Lesser(pos, Len(c)))

\* Nothing of c is gone, or nothing is new.
LEMMA SpliceInDoes ==
  ASSUME NEW V, NEW c, NEW mid, NEW pos \in Nat, NEW t, Inserted(V, t, c, pos, mid)
  PROVE  Gets(V, t, Upto(c, pos) \o mid \o From(c, pos))
<1>1. PICK p : p = Lesser(pos, Len(c))
  OBVIOUS
<1>2. c \in Seq(V) /\ mid \in Seq(V) /\ Splices(V, t, c, p, mid, p)
  BY <1>1 DEF Inserted
<1> QED BY <1>1, <1>2, SpliceDoes

LEMMA SpliceOutDoes ==
  ASSUME NEW V, NEW c, c \in Seq(V), NEW pos \in Nat, NEW i \in Nat,
         NEW p, p = Lesser(pos, Len(c)), NEW f, f = Lesser(i, Len(c)), NEW t, Splices(V, t, c, p, <<>>, f)
  PROVE  Gets(V, t, Upto(c, pos) \o From(c, i))
<1> DEFINE mid == <<>>
           u == Upto(c, pos)
<1>1. mid \in Seq(V) /\ Splices(V, t, c, p, mid, f)
  OBVIOUS
<1>2. u \o mid = u
  <2>1. pos \in Int /\ pos >= -1
    OBVIOUS
  <2>2. u \in Seq(V)
    BY <2>1, UptoFacts
  <2> HIDE DEF u
  <2> QED BY <2>2
<1> HIDE DEF mid
<1>3. Gets(V, t, Upto(c, pos) \o mid \o From(c, i))
  BY <1>1, SpliceDoes
<1> QED BY <1>2, <1>3

\* What is moved, and what is in front of the place it goes to.
LEMMA MoveSpells ==
  ASSUME NEW V, NEW cells, cells \in Cells(V), NEW to \in Nat, NEW from \in Nat, NEW n \in Nat,
         from + n <= Memory, to + n <= Memory,
         NEW off \in Nat, NEW p \in Nat, off + p <= to, off + p <= Memory, NEW c, NEW f,
         Spells(cells, off, c, 0, p), Spells(cells, from, c, f, n)
  PROVE  /\ Move(cells, to, from, n) \in Cells(V)
         /\ Spells(Move(cells, to, from, n), off, c, 0, p)
         /\ Spells(Move(cells, to, from, n), to, c, f, n)
<1> DEFINE m == Move(cells, to, from, n)
<1>1. m \in Cells(V) /\ IsMoved(m, to, cells, from, n)
  BY MoveFacts
<1> HIDE DEF m
<1>2. ASSUME NEW j \in 1 .. p PROVE m[off + j - 1] = c[0 + j]
  <2>1. off + j - 1 \in 0 .. Memory - 1 /\ ~(off + j - 1 \in to .. to + n - 1)
    BY QueueAssumption
  <2> QED BY <1>1, <2>1 DEF IsMoved, Spells
<1>3. ASSUME NEW j \in 1 .. n PROVE m[to + j - 1] = c[f + j]
  <2>1. to + j - 1 \in 0 .. Memory - 1 /\ to + j - 1 \in to .. to + n - 1 /\ (to + j - 1) - to + from = from + j - 1
    BY QueueAssumption
  <2> QED BY <1>1, <2>1 DEF IsMoved, Spells
<1> QED BY <1>1, <1>2, <1>3 DEF m, Spells

\* A part of what the cells have.
LEMMA SpellsPart ==
  ASSUME NEW cells, NEW at \in Nat, NEW c, NEW n \in Nat, Spells(cells, at, c, 0, n), NEW i \in Nat, i <= n
  PROVE  Spells(cells, at, c, 0, i) /\ Spells(cells, at + i, c, i, n - i)
<1>1. ASSUME NEW j \in 1 .. i PROVE cells[at + j - 1] = c[0 + j]
  BY DEF Spells
<1>2. ASSUME NEW j \in 1 .. n - i PROVE cells[at + i + j - 1] = c[i + j]
  <2>1. i + j \in 1 .. n /\ at + (i + j) - 1 = at + i + j - 1 /\ 0 + (i + j) = i + j
    OBVIOUS
  <2> QED BY <2>1 DEF Spells
<1> QED BY <1>1, <1>2 DEF Spells

\* c with mid written over what was moved away.
Opened(t, cells, o, p, mid, m, n) ==
  \A i \in 0 .. Memory - 1 :
    t.cells[i] = IF i \in o + p .. o + p + m - 1 THEN mid[i - (o + p) + 1]
                 ELSE Move(cells, o + p + m, o + p, n - p)[i]

\* Moving what is behind and writing over the gap puts mid in (the inserts).
LEMMA PutDoes ==
  ASSUME NEW V, NEW c, NEW mid, NEW n \in Nat, n = Len(c), NEW m \in Nat, m = Len(mid),
         NEW o \in Nat, o + n + m <= Memory, NEW p \in Nat, p <= n,
         NEW cells, cells \in Cells(V), Spells(cells, o, c, 0, n),
         NEW t, Fits(t), t.size <= Memory, t.off = o, t.count = n + m, t.cells \in Cells(V),
         Opened(t, cells, o, p, mid, m, n)
  PROVE  Splices(V, t, c, p, mid, p)
<1> DEFINE d == Move(cells, o + p + m, o + p, n - p)
<1>1. Spells(cells, o, c, 0, p) /\ Spells(cells, o + p, c, p, n - p)
  BY SpellsPart
<1>2. d \in Cells(V) /\ Spells(d, o, c, 0, p) /\ Spells(d, o + p + m, c, p, n - p)
  <2>1. o + p + m \in Nat /\ o + p \in Nat /\ n - p \in Nat
    OBVIOUS
  <2>2. o + p + (n - p) <= Memory /\ o + p + m + (n - p) <= Memory /\ o + p <= o + p + m /\ o + p <= Memory
    BY QueueAssumption
  <2> QED BY <1>1, <2>1, <2>2, MoveSpells
<1> HIDE DEF d
<1>3. \A i \in 0 .. Memory - 1 : t.cells[i] = IF i \in o + p .. o + p + m - 1 THEN mid[i - (o + p) + 1] ELSE d[i]
  BY DEF Opened, d
<1>4. ASSUME NEW j \in 1 .. p PROVE t.cells[o + j - 1] = c[0 + j]
  <2>1. o + j - 1 \in 0 .. Memory - 1 /\ ~(o + j - 1 \in o + p .. o + p + m - 1)
    BY QueueAssumption
  <2> QED BY <1>2, <1>3, <2>1 DEF Spells
<1>5. ASSUME NEW j \in 1 .. m PROVE t.cells[o + p + j - 1] = mid[0 + j]
  <2>1. o + p + j - 1 \in 0 .. Memory - 1 /\ o + p + j - 1 \in o + p .. o + p + m - 1
    BY QueueAssumption
  <2>2. (o + p + j - 1) - (o + p) + 1 = 0 + j
    OBVIOUS
  <2> QED BY <1>3, <2>1, <2>2
<1>6. ASSUME NEW j \in 1 .. n - p PROVE t.cells[o + p + m + j - 1] = c[p + j]
  <2>1. o + p + m + j - 1 \in 0 .. Memory - 1 /\ ~(o + p + m + j - 1 \in o + p .. o + p + m - 1)
    BY QueueAssumption
  <2> QED BY <1>2, <1>3, <2>1 DEF Spells
<1>7. t.count = p + m + (n - p)
  OBVIOUS
<1> QED BY <1>4, <1>5, <1>6, <1>7 DEF Splices, Spells

\* An element in the middle (queue_insert).
LEMMA InsertDoes ==
  ASSUME NEW V, NEW s, IsQueue(V, s), NEW pos \in Nat, NEW id \in V, queue_insert(s, pos, id).size <= Memory
  PROVE  /\ IsQueue(V, queue_insert(s, pos, id))
         /\ Content(queue_insert(s, pos, id)) = Upto(Content(s), pos) \o <<id>> \o From(Content(s), pos)
<1> DEFINE r == queue_push(s, id)
           t == queue_insert(s, pos, id)
           c == Content(s)
           mid == <<id>>
<1>1. Fits(r) /\ Fits(t) /\ r.count = s.count + 1
  BY PushFits, InsertFits DEF IsQueue
<1>2. t = IF pos >= r.count - 1 THEN r
          ELSE [r EXCEPT !.cells = [Move(r.cells, r.off + pos + 1, r.off + pos, r.count - 1 - pos) EXCEPT ![r.off + pos] = id]]
  BY DEF queue_insert
<1>3. t.size <= Memory
  OBVIOUS
<1> HIDE DEF r, t
<1>4. t.size = r.size /\ t.off = r.off /\ t.count = r.count
  BY <1>1, <1>2 DEF Fits, Numbered
<1>5. IsQueue(V, r) /\ Content(r) = Append(c, id)
  BY <1>3, <1>4, PushDoes DEF r
<1>6. c \in Seq(V) /\ Len(c) = s.count /\ s.count \in Nat
  BY ContentFacts DEF Holds
<1>7. /\ r.off \in Nat /\ r.off + r.count <= Memory /\ r.cells \in Cells(V)
      /\ Holds(r, Append(c, id))
  BY <1>5, ContentFacts DEF IsQueue
<1>8. mid \in Seq(V) /\ Len(mid) = 1 /\ mid[1] = id
  OBVIOUS
<1> HIDE DEF c, mid
<1>9. PICK n \in Nat, o \in Nat : n = Len(c) /\ n = s.count /\ o = r.off
  BY <1>6, <1>7
<1>10. r.count = n + 1 /\ t.count = n + 1 /\ o + n + 1 <= Memory
  BY <1>1, <1>4, <1>7, <1>9
<1>11. Spells(r.cells, o, c, 0, n) /\ r.cells[o + n] = id
  <2> DEFINE d == Append(c, id)
  <2>1. Len(d) = n + 1 /\ d[n + 1] = id /\ \A j \in 1 .. n : d[j] = c[j]
    BY <1>6, <1>9
  <2> HIDE DEF d
  <2>2. \A j \in 1 .. n + 1 : r.cells[o + j - 1] = d[j]
    BY <1>7, <1>9, <1>10 DEF Holds, d
  <2>3. n + 1 \in 1 .. n + 1 /\ o + (n + 1) - 1 = o + n
    OBVIOUS
  <2>4. r.cells[o + n] = id
    BY <2>1, <2>2, <2>3
  <2>5. ASSUME NEW j \in 1 .. n PROVE r.cells[o + j - 1] = c[0 + j]
    <3>1. j \in 1 .. n + 1 /\ 0 + j = j
      OBVIOUS
    <3> QED BY <2>1, <2>2, <3>1
  <2> QED BY <2>4, <2>5 DEF Spells
<1>12. CASE pos >= n
  <2>1. t = r
    BY <1>2, <1>10, <1>12
  <2>2. Spells(r.cells, o + n, mid, 0, 1) /\ Spells(r.cells, o + n + 1, c, n, n - n)
    BY <1>8, <1>11 DEF Spells
  <2>3. Splices(V, t, c, n, mid, n)
    BY <1>1, <1>3, <1>7, <1>8, <1>9, <1>10, <1>11, <2>1, <2>2 DEF Splices
  <2>4. Inserted(V, t, c, pos, mid)
    BY <1>6, <1>8, <1>9, <1>12, <2>3 DEF Inserted, Lesser
  <2>5. Gets(V, t, Upto(c, pos) \o mid \o From(c, pos))
    BY <2>4, SpliceInDoes
  <2> QED BY <2>5 DEF Gets, t, c, mid
<1>13. CASE pos < n
  <2> DEFINE m == Move(r.cells, o + pos + 1, o + pos, n - pos)
  <2>1. r.count - 1 - pos = n - pos
    BY <1>10
  <2>2. t.cells = [m EXCEPT ![o + pos] = id]
    BY <1>1, <1>2, <1>9, <1>10, <1>13, <2>1 DEF Fits, Numbered
  <2>3. m \in Cells(V)
    <3>1. o + pos + 1 \in Nat /\ o + pos \in Nat /\ n - pos \in Nat /\ o + pos + (n - pos) <= Memory
      BY <1>10, <1>13, QueueAssumption
    <3> QED BY <1>7, <3>1, MoveFacts
  <2>4. o + pos \in 0 .. Memory - 1
    BY <1>10, <1>13, QueueAssumption
  <2>5. t.cells \in Cells(V) /\ \A i \in 0 .. Memory - 1 : t.cells[i] = IF i = o + pos THEN id ELSE m[i]
    <3> HIDE DEF m
    <3> QED BY <2>2, <2>3, <2>4 DEF Cells
  <2>6. Opened(t, r.cells, o, pos, mid, 1, n)
    <3>1. \A i \in 0 .. Memory - 1 : i \in o + pos .. o + pos + 1 - 1 <=> i = o + pos
      BY <2>4
    <3>2. o + pos - (o + pos) + 1 = 1
      OBVIOUS
    <3> HIDE DEF m
    <3>3. \A i \in 0 .. Memory - 1 : t.cells[i] = IF i \in o + pos .. o + pos + 1 - 1 THEN mid[i - (o + pos) + 1] ELSE m[i]
      BY <1>8, <2>5, <3>1, <3>2
    <3> QED BY <3>3 DEF Opened, m
  <2>7. Splices(V, t, c, pos, mid, pos)
    <3>1. pos <= n /\ o + n + 1 <= Memory /\ 1 \in Nat
      BY <1>10, <1>13
    <3> QED BY <1>1, <1>3, <1>4, <1>7, <1>8, <1>9, <1>10, <1>11, <2>5, <2>6, <3>1, PutDoes
  <2>8. Inserted(V, t, c, pos, mid)
    BY <1>6, <1>8, <1>9, <1>13, <2>7 DEF Inserted, Lesser
  <2>9. Gets(V, t, Upto(c, pos) \o mid \o From(c, pos))
    BY <2>8, SpliceInDoes
  <2> QED BY <2>9 DEF Gets, t, c, mid
<1> QED BY <1>9, <1>12, <1>13

\* A queue that is too large for memory gets no smaller by a second push.
LEMMA PushGrows ==
  ASSUME NEW V, NEW s, IsQueue(V, s), NEW id1, NEW id2, queue_push(queue_push(s, id1), id2).size <= Memory
  PROVE  queue_push(s, id1).size <= Memory
<1> DEFINE r == IF s.left = 0 THEN queue_alloc_one(s) ELSE s
           t == queue_push(s, id1)
           u == IF t.left = 0 THEN queue_alloc_one(t) ELSE t
           v == queue_push(t, id2)
<1>1. Fits(r) /\ Fits(t) /\ t.count = s.count + 1
  BY AllocFits, PushFits DEF IsQueue
<1>2. r.alloc \/ (s.left # 0 /\ r = s)
  BY DEF queue_alloc_one, IsQueue, Fits, Numbered
<1>3. t = [r EXCEPT !.cells[r.off + r.count] = id1, !.count = r.count + 1, !.left = r.left - 1]
  BY DEF queue_push
<1> HIDE DEF r
<1>4. t.alloc = r.alloc /\ t.off = r.off /\ t.size = r.size
  <2> HIDE DEF t
  <2> QED BY <1>1, <1>3 DEF Fits, Numbered
<1>5. v = [u EXCEPT !.cells[u.off + u.count] = id2, !.count = u.count + 1, !.left = u.left - 1]
  BY DEF queue_push
<1>6. v.size <= Memory
  OBVIOUS
<1> HIDE DEF t, v
<1>7. Fits(u)
  BY <1>1, AllocFits
<1>8. v.size = u.size
  <2> HIDE DEF u
  <2> QED BY <1>5, <1>7 DEF Fits, Numbered
<1>9. u.size <= Memory
  BY <1>6, <1>8
<1>10. CASE t.alloc \/ t.off = 0
  <2>1. CASE t.left # 0
    BY <1>9, <2>1 DEF t
  <2>2. CASE t.left = 0 /\ t.alloc /\ t.off # 0
    <3>1. u.size = t.size
      BY <1>1, <2>2 DEF queue_alloc_one, Fits, Numbered
    <3> QED BY <1>9, <3>1 DEF t
  <2>3. CASE t.left = 0 /\ t.off = 0
    <3>1. u.size = t.size + EXTRA_SPACE
      BY <1>1, <2>3 DEF queue_alloc_one, Fits, Numbered
    <3>2. t.size <= Memory
      BY <1>1, <1>9, <3>1, QueueAssumption DEF Fits, Numbered
    <3> QED BY <3>2 DEF t
  <2> QED BY <1>10, <2>1, <2>2, <2>3
<1>11. CASE ~t.alloc /\ t.off # 0
  <2>1. r = s /\ s.off # 0
    BY <1>2, <1>4, <1>11
  <2>2. t.size <= Memory
    BY <1>4, <2>1 DEF IsQueue
  <2> QED BY <2>2 DEF t
<1> QED BY <1>10, <1>11

LEMMA TwoCells ==
  \A i \in Nat, j \in Nat : i + j - (i + j) + 1 = 1 /\ i + j + 1 - (i + j) + 1 = 2 /\ i + j # i + j + 1
OBVIOUS

\* Two elements in the middle (queue_insert2).
LEMMA Insert2Does ==
  ASSUME NEW V, NEW s, IsQueue(V, s), NEW pos \in Nat, NEW id1 \in V, NEW id2 \in V,
         queue_insert2(s, pos, id1, id2).size <= Memory
  PROVE  /\ IsQueue(V, queue_insert2(s, pos, id1, id2))
         /\ Content(queue_insert2(s, pos, id1, id2)) = Upto(Content(s), pos) \o <<id1, id2>> \o From(Content(s), pos)
<1> DEFINE one == queue_push(s, id1)
           r == queue_push(one, id2)
           t == queue_insert2(s, pos, id1, id2)
           c == Content(s)
           mid == <<id1, id2>>
<1>1. Fits(r) /\ Fits(t) /\ r.count = s.count + 1 + 1
  BY PushFits, Insert2Fits DEF IsQueue
<1>2. t = IF pos >= r.count - 2 THEN r
          ELSE [r EXCEPT !.cells = [Move(r.cells, r.off + pos + 2, r.off + pos, r.count - 2 - pos)
                                      EXCEPT ![r.off + pos] = id1, ![r.off + pos + 1] = id2]]
  BY DEF queue_insert2
<1>3. t.size <= Memory
  OBVIOUS
<1> HIDE DEF r, t
<1>4. t.size = r.size /\ t.off = r.off /\ t.count = r.count
  BY <1>1, <1>2 DEF Fits, Numbered
<1>5. r.size <= Memory
  BY <1>3, <1>4
<1>6. one.size <= Memory
  BY <1>5, PushGrows DEF r
<1>7. IsQueue(V, one) /\ Content(one) = Append(c, id1)
  BY <1>6, PushDoes
<1> HIDE DEF one
<1>8. IsQueue(V, r) /\ Content(r) = Append(Append(c, id1), id2)
  BY <1>5, <1>7, PushDoes DEF r
<1>9. c \in Seq(V) /\ Len(c) = s.count /\ s.count \in Nat
  BY ContentFacts DEF Holds
<1>10. /\ r.off \in Nat /\ r.off + r.count <= Memory /\ r.cells \in Cells(V)
       /\ Holds(r, Append(Append(c, id1), id2))
  BY <1>8, ContentFacts DEF IsQueue
<1>11. mid \in Seq(V) /\ Len(mid) = 2 /\ mid[1] = id1 /\ mid[2] = id2
  OBVIOUS
<1> HIDE DEF c, mid
<1>12. PICK n \in Nat, o \in Nat : n = Len(c) /\ n = s.count /\ o = r.off
  BY <1>9, <1>10
<1>13. r.count = n + 2 /\ t.count = n + 2 /\ o + n + 2 <= Memory
  BY <1>1, <1>4, <1>10, <1>12
<1>14. Spells(r.cells, o, c, 0, n) /\ r.cells[o + n] = id1 /\ r.cells[o + n + 1] = id2
  <2> DEFINE d1 == Append(c, id1)
             d == Append(d1, id2)
  <2>1. d1 \in Seq(V) /\ Len(d1) = n + 1 /\ d1[n + 1] = id1 /\ \A j \in 1 .. n : d1[j] = c[j]
    BY <1>9, <1>12
  <2> HIDE DEF d1
  <2>2. Len(d) = n + 2 /\ d[n + 2] = id2 /\ \A j \in 1 .. n + 1 : d[j] = d1[j]
    BY <2>1
  <2> HIDE DEF d
  <2>3. \A j \in 1 .. n + 2 : r.cells[o + j - 1] = d[j]
    BY <1>10, <1>12, <1>13 DEF Holds, d, d1
  <2>4. /\ n + 1 \in 1 .. n + 1 /\ n + 1 \in 1 .. n + 2 /\ n + 2 \in 1 .. n + 2
        /\ o + (n + 1) - 1 = o + n /\ o + (n + 2) - 1 = o + n + 1
    OBVIOUS
  <2>5. r.cells[o + n] = id1
    BY <2>1, <2>2, <2>3, <2>4
  <2>6. r.cells[o + n + 1] = id2
    BY <2>2, <2>3, <2>4
  <2>7. ASSUME NEW j \in 1 .. n PROVE r.cells[o + j - 1] = c[0 + j]
    <3>1. j \in 1 .. n + 2 /\ j \in 1 .. n + 1 /\ 0 + j = j
      OBVIOUS
    <3> QED BY <2>1, <2>2, <2>3, <3>1
  <2> QED BY <2>5, <2>6, <2>7 DEF Spells
<1>15. CASE pos >= n
  <2>1. t = r
    BY <1>2, <1>13, <1>15
  <2>2. Spells(r.cells, o + n, mid, 0, 2)
    <3>1. ASSUME NEW j \in 1 .. 2 PROVE r.cells[o + n + j - 1] = mid[0 + j]
      <4>1. j = 1 \/ j = 2
        OBVIOUS
      <4>2. o + n + 1 - 1 = o + n /\ o + n + 2 - 1 = o + n + 1 /\ 0 + 1 = 1 /\ 0 + 2 = 2
        OBVIOUS
      <4> QED BY <1>11, <1>14, <4>1, <4>2
    <3> QED BY <3>1 DEF Spells
  <2>3. Spells(r.cells, o + n + 2, c, n, n - n)
    BY DEF Spells
  <2>4. Splices(V, t, c, n, mid, n)
    BY <1>1, <1>3, <1>10, <1>11, <1>12, <1>13, <1>14, <2>1, <2>2, <2>3 DEF Splices
  <2>5. Inserted(V, t, c, pos, mid)
    BY <1>9, <1>11, <1>12, <1>15, <2>4 DEF Inserted, Lesser
  <2>6. Gets(V, t, Upto(c, pos) \o mid \o From(c, pos))
    BY <2>5, SpliceInDoes
  <2> QED BY <2>6 DEF Gets, t, c, mid
<1>16. CASE pos < n
  <2> DEFINE m == Move(r.cells, o + pos + 2, o + pos, n - pos)
  <2>1. r.count - 2 - pos = n - pos
    BY <1>13
  <2>2. t.cells = [m EXCEPT ![o + pos] = id1, ![o + pos + 1] = id2]
    BY <1>1, <1>2, <1>12, <1>13, <1>16, <2>1 DEF Fits, Numbered
  <2>3. m \in Cells(V)
    <3>1. o + pos + 2 \in Nat /\ o + pos \in Nat /\ n - pos \in Nat /\ o + pos + (n - pos) <= Memory
      BY <1>13, <1>16, QueueAssumption
    <3> QED BY <1>10, <3>1, MoveFacts
  <2>4. o + pos \in 0 .. Memory - 1 /\ o + pos + 1 \in 0 .. Memory - 1
    BY <1>13, <1>16, QueueAssumption
  <2>5. /\ t.cells \in Cells(V)
        /\ \A i \in 0 .. Memory - 1 : t.cells[i] = IF i = o + pos + 1 THEN id2 ELSE IF i = o + pos THEN id1 ELSE m[i]
    <3> HIDE DEF m
    <3> QED BY <2>2, <2>3, <2>4 DEF Cells
  <2>6. Opened(t, r.cells, o, pos, mid, 2, n)
    <3>1. \A i \in 0 .. Memory - 1 : i \in o + pos .. o + pos + 2 - 1 <=> (i = o + pos \/ i = o + pos + 1)
      BY <2>4
    <3>2. o + pos - (o + pos) + 1 = 1 /\ o + pos + 1 - (o + pos) + 1 = 2 /\ o + pos # o + pos + 1
      BY TwoCells
    <3> HIDE DEF m
    <3>3. \A i \in 0 .. Memory - 1 : t.cells[i] = IF i \in o + pos .. o + pos + 2 - 1 THEN mid[i - (o + pos) + 1] ELSE m[i]
      BY <1>11, <2>5, <3>1, <3>2
    <3> QED BY <3>3 DEF Opened, m
  <2>7. Splices(V, t, c, pos, mid, pos)
    <3>1. pos <= n /\ o + n + 2 <= Memory /\ 2 \in Nat
      BY <1>13, <1>16
    <3> QED BY <1>1, <1>3, <1>4, <1>10, <1>11, <1>12, <1>13, <1>14, <2>5, <2>6, <3>1, PutDoes
  <2>8. Inserted(V, t, c, pos, mid)
    BY <1>9, <1>11, <1>12, <1>16, <2>7 DEF Inserted, Lesser
  <2>9. Gets(V, t, Upto(c, pos) \o mid \o From(c, pos))
    BY <2>8, SpliceInDoes
  <2> QED BY <2>9 DEF Gets, t, c, mid
<1> QED BY <1>12, <1>15, <1>16

\* What is put in the middle is read from a longer block (queue_insertn).
LEMMA InsertnDoes ==
  ASSUME NEW V, 0 \in V, NEW s, IsQueue(V, s), NEW pos \in Nat, NEW n \in Nat, queue_insertn(s, pos, n).size <= Memory
  PROVE  /\ IsQueue(V, queue_insertn(s, pos, n))
         /\ Content(queue_insertn(s, pos, n)) = Upto(Content(s), pos) \o [i \in 1 .. n |-> 0] \o From(Content(s), pos)
<1> DEFINE t == queue_insertn(s, pos, n)
           c == Content(s)
           mid == [i \in 1 .. n |-> 0]
<1>1. Fits(t) /\ t.size <= Memory
  BY InsertnFits DEF IsQueue
<1>2. c \in Seq(V) /\ Holds(s, c) /\ s.off \in Nat /\ s.count \in Nat /\ s.left \in Nat /\ s.off + s.count <= Memory
      /\ s.cells \in Cells(V)
  BY ContentFacts DEF IsQueue
<1>3. mid \in Seq(V) /\ Len(mid) = n /\ \A j \in 1 .. n : mid[j] = 0
  <2>1. mid \in [1 .. n -> V]
    OBVIOUS
  <2> QED BY <2>1
<1>4. CASE n = 0
  <2>1. t = s
    BY <1>4 DEF queue_insertn
  <2> HIDE DEF t, c, mid
  <2>2. PICK p \in Nat : p = Lesser(pos, Len(c)) /\ p <= Len(c)
    BY <1>2 DEF Lesser
  <2>3. Splices(V, t, c, p, mid, p)
    <3>1. Spells(s.cells, s.off, c, 0, s.count)
      BY <1>2 DEF Holds, Spells
    <3>2. Spells(s.cells, s.off, c, 0, p) /\ Spells(s.cells, s.off + p, c, p, s.count - p)
      <4>1. p <= s.count
        BY <1>2, <2>2 DEF Holds
      <4> QED BY <1>2, <3>1, <4>1, SpellsPart
    <3>3. Spells(s.cells, s.off + p, mid, 0, 0)
      BY DEF Spells
    <3>4. s.count = p + 0 + (s.count - p) /\ s.off + p + 0 = s.off + p
      BY <1>2
    <3> QED BY <1>1, <1>2, <1>3, <1>4, <2>1, <3>2, <3>3, <3>4 DEF Splices, Holds
  <2>4. Inserted(V, t, c, pos, mid)
    BY <1>2, <1>3, <2>2, <2>3 DEF Inserted, Lesser
  <2>5. Gets(V, t, Upto(c, pos) \o mid \o From(c, pos))
    BY <2>4, SpliceInDoes
  <2> QED BY <2>5 DEF Gets, t, c, mid
<1>5. CASE n > 0
  <2> DEFINE a == IF s.left < n /\ ~s.alloc THEN queue_alloc_one(s) ELSE s
             r == IF s.left < n THEN [a EXCEPT !.size = a.off + a.count + n + EXTRA_SPACE, !.left = n + EXTRA_SPACE] ELSE a
             p == Lesser(pos, r.count)
             moved == Move(r.cells, r.off + p + n, r.off + p, r.count - p)
             cells == [i \in DOMAIN moved |-> IF i \in r.off + p .. r.off + p + n - 1 THEN 0 ELSE moved[i]]
  <2>1. Fits(a) /\ a.count = s.count /\ (a = s \/ (s.left < n /\ ~s.alloc /\ a = queue_alloc_one(s)))
    BY AllocFits DEF IsQueue, Fits, Numbered, queue_alloc_one
  <2>2. Fits(r) /\ r.left >= n /\ r.off = a.off /\ r.count = a.count /\ r.cells = a.cells
    <3> HIDE DEF a
    <3>1. CASE s.left < n
      <4>1. r = [a EXCEPT !.size = a.off + a.count + n + EXTRA_SPACE, !.left = n + EXTRA_SPACE]
        BY <3>1
      <4> HIDE DEF r
      <4> QED BY <2>1, <4>1, QueueAssumption DEF Fits, Numbered
    <3>2. CASE s.left >= n
      BY <1>2, <2>1, <3>2 DEF Fits, Numbered
    <3> QED BY <1>2, <3>1, <3>2
  <2>3. t = [r EXCEPT !.left = r.left - n, !.count = r.count + n, !.cells = cells]
    BY <1>5 DEF queue_insertn
  <2> HIDE DEF a, r, t, p
  <2>4. t.off = r.off /\ t.count = r.count + n /\ t.size = r.size /\ t.cells = cells
    <3> HIDE DEF cells
    <3> QED BY <2>2, <2>3 DEF Fits, Numbered
  <2>5. Same(V, a, s)
    <3>1. CASE a = s
      BY <3>1, SameItself
    <3>2. CASE s.left < n /\ ~s.alloc /\ a = queue_alloc_one(s)
      <4>1. a.off = 0 /\ a.cells = Move(s.cells, 0, s.off, s.count)
        BY <3>2 DEF queue_alloc_one, IsQueue, Fits, Numbered
      <4>2. Move(s.cells, 0, s.off, s.count) \in Cells(V) /\ Alike(Move(s.cells, 0, s.off, s.count), 0, s.cells, s.off, s.count)
        <5>1. 0 \in Nat /\ 0 + s.count <= Memory
          BY <1>2, QueueAssumption
        <5> QED BY <1>2, <5>1, MoveKeeps
      <4>3. a.off + a.count <= Memory
        BY <1>2, <2>1, <4>1, QueueAssumption
      <4> QED BY <2>1, <4>1, <4>2, <4>3 DEF Same
    <3> QED BY <2>1, <3>1, <3>2
  <2> HIDE DEF c, mid
  <2>6. PICK k \in Nat, o \in Nat : k = Len(c) /\ k = s.count /\ k = r.count /\ o = r.off
    BY <1>2, <2>1, <2>2 DEF Holds, Fits, Numbered
  <2>7. t.count = k + n /\ o + k + n <= Memory
    <3>1. o + k + r.left = r.size /\ r.left \in Nat /\ r.left >= n /\ r.size \in Nat
      BY <2>2, <2>6 DEF Fits, Numbered
    <3>2. r.size <= Memory
      BY <1>1, <2>4
    <3> QED BY <2>4, <2>6, <3>1, <3>2, QueueAssumption
  <2>8. Spells(r.cells, o, c, 0, k) /\ r.cells \in Cells(V)
    <3>1. ASSUME NEW j \in 1 .. k PROVE r.cells[o + j - 1] = c[0 + j]
      BY <1>2, <2>2, <2>5, <2>6 DEF Same, Alike, Holds
    <3> QED BY <2>2, <2>5, <3>1 DEF Same, Spells
  <2>9. p \in Nat /\ p <= k /\ p = Lesser(pos, Len(c))
    BY <2>6 DEF p, Lesser
  <2>10. moved = Move(r.cells, o + p + n, o + p, k - p)
    BY <2>6
  <2>11. moved \in Cells(V)
    <3>1. o + p + n \in Nat /\ o + p \in Nat /\ k - p \in Nat /\ o + p + (k - p) <= Memory
      BY <2>7, <2>9, QueueAssumption
    <3> QED BY <2>8, <2>10, <3>1, MoveFacts
  <2> HIDE DEF moved
  <2>12. t.cells \in Cells(V) /\ \A i \in 0 .. Memory - 1 : t.cells[i] = IF i \in o + p .. o + p + n - 1 THEN 0 ELSE moved[i]
    BY <2>4, <2>6, <2>11 DEF Cells
  <2>13. Opened(t, r.cells, o, p, mid, n, k)
    <3>1. ASSUME NEW i \in 0 .. Memory - 1, i \in o + p .. o + p + n - 1 PROVE mid[i - (o + p) + 1] = 0
      <4>1. i - (o + p) + 1 \in 1 .. n
        BY <2>9, <3>1
      <4> QED BY <1>3, <4>1
    <3> QED BY <2>10, <2>12, <3>1 DEF Opened
  <2>14. Splices(V, t, c, p, mid, p)
    BY <1>1, <1>3, <2>4, <2>6, <2>7, <2>8, <2>9, <2>12, <2>13, PutDoes
  <2>15. Inserted(V, t, c, pos, mid)
    BY <1>2, <1>3, <2>9, <2>14 DEF Inserted, Lesser
  <2>16. Gets(V, t, Upto(c, pos) \o mid \o From(c, pos))
    BY <2>15, SpliceInDoes
  <2> QED BY <2>16 DEF Gets, t, c, mid
<1> QED BY <1>4, <1>5

\* Elements that are gone at the ends (queue_shift, queue_pop, queue_empty).
LEMMA EndsDo ==
  ASSUME NEW V, NEW s, IsQueue(V, s)
  PROVE  /\ IsQueue(V, queue_shift(s)) /\ Content(queue_shift(s)) = From(Content(s), 1)
         /\ IsQueue(V, queue_pop(s)) /\ Content(queue_pop(s)) = Upto(Content(s), Len(Content(s)) - 1)
         /\ queue_empty(s).size <= Memory => IsQueue(V, queue_empty(s)) /\ Content(queue_empty(s)) = <<>>
<1> DEFINE c == Content(s)
<1>1. c \in Seq(V) /\ Holds(s, c) /\ s.off \in Nat /\ s.count \in Nat /\ s.left \in Nat /\ s.off + s.count <= Memory
      /\ s.cells \in Cells(V) /\ s.size \in Nat
  BY ContentFacts DEF IsQueue
<1> HIDE DEF c
<1>2. PICK n \in Nat, o \in Nat : n = s.count /\ o = s.off /\ n = Len(c)
  BY <1>1 DEF Holds
<1>3. \A j \in 1 .. n : s.cells[o + j - 1] = c[j]
  BY <1>1, <1>2 DEF Holds
<1>4. IsQueue(V, queue_shift(s)) /\ Content(queue_shift(s)) = From(c, 1)
  <2> DEFINE t == queue_shift(s)
             d == From(c, 1)
  <2>1. d \in Seq(V) /\ Len(d) = (IF 1 < n THEN n - 1 ELSE 0) /\ \A j \in 1 .. Len(d) : d[j] = c[1 + j]
    BY <1>1, <1>2, FromFacts, 1 \in Nat DEF IsFrom
  <2> HIDE DEF d
  <2>2. Fits(t)
    BY TakingFits, 0 \in Nat DEF IsQueue
  <2>3. CASE n = 0
    <3>1. t = s
      BY <1>2, <2>3 DEF queue_shift
    <3> HIDE DEF t
    <3>2. Holds(t, d)
      <4>0. (IF 1 < n THEN n - 1 ELSE 0) = 0
        BY <2>3
      <4>1. Len(d) = 0 /\ t.count = 0
        BY <1>2, <2>1, <2>3, <3>1, <4>0
      <4> QED BY <4>1 DEF Holds
    <3>3. Content(t) = d
      BY <1>1, <2>1, <3>1, <3>2, ContentIs
    <3> QED BY <3>1, <3>3 DEF t, d
  <2>4. CASE n > 0
    <3>1. t.off = o + 1 /\ t.count = n - 1 /\ t.size = s.size /\ t.cells = s.cells
      BY <1>1, <1>2, <2>4 DEF queue_shift, IsQueue, Fits, Numbered
    <3> HIDE DEF t
    <3>2. Len(d) = n - 1
      BY <2>1, <2>4
    <3>3. ASSUME NEW j \in 1 .. n - 1 PROVE t.cells[t.off + j - 1] = d[j]
      <4>1. 1 + j \in 1 .. n /\ o + (1 + j) - 1 = (o + 1) + j - 1
        OBVIOUS
      <4>2. d[j] = c[1 + j]
        BY <2>1, <3>2
      <4> QED BY <1>3, <3>1, <4>1, <4>2
    <3>4. Content(t) = d
      <4>1. Holds(t, d) /\ t.count \in Nat
        BY <2>4, <3>1, <3>2, <3>3 DEF Holds
      <4> QED BY <2>1, <4>1, ContentIs
    <3>5. IsQueue(V, t)
      BY <1>1, <1>2, <2>2, <2>4, <3>1 DEF IsQueue
    <3> QED BY <3>4, <3>5 DEF t, d
  <2> QED BY <2>3, <2>4
<1>5. IsQueue(V, queue_pop(s)) /\ Content(queue_pop(s)) = Upto(c, Len(c) - 1)
  <2> DEFINE t == queue_pop(s)
             d == Upto(c, Len(c) - 1)
  <2>1. d \in Seq(V) /\ Len(d) = (IF 0 < n THEN n - 1 ELSE 0) /\ \A j \in 1 .. Len(d) : d[j] = c[j]
    <3>1. PICK i \in Int : i = Len(c) - 1 /\ i >= -1 /\ i = n - 1
      BY <1>2
    <3>2. Upto(c, i) \in Seq(V) /\ IsUpto(Upto(c, i), c, i)
      BY <1>1, <3>1, UptoFacts
    <3>3. (IF i <= 0 THEN 0 ELSE Lesser(i, Len(c))) = (IF 0 < n THEN n - 1 ELSE 0)
      BY <1>2, <3>1 DEF Lesser
    <3> QED BY <3>1, <3>2, <3>3 DEF IsUpto
  <2> HIDE DEF d
  <2>2. Fits(t)
    BY TakingFits, 0 \in Nat DEF IsQueue
  <2>3. CASE n = 0
    <3>1. t = s
      BY <1>2, <2>3 DEF queue_pop
    <3> HIDE DEF t
    <3>2. Holds(t, d)
      <4>0. (IF 0 < n THEN n - 1 ELSE 0) = 0
        BY <2>3
      <4>1. Len(d) = 0 /\ t.count = 0
        BY <1>2, <2>1, <2>3, <3>1, <4>0
      <4> QED BY <4>1 DEF Holds
    <3>3. Content(t) = d
      BY <1>1, <2>1, <3>1, <3>2, ContentIs
    <3> QED BY <3>1, <3>3 DEF t, d
  <2>4. CASE n > 0
    <3>1. t.off = o /\ t.count = n - 1 /\ t.size = s.size /\ t.cells = s.cells
      BY <1>1, <1>2, <2>4 DEF queue_pop, IsQueue, Fits, Numbered
    <3> HIDE DEF t
    <3>2. Len(d) = n - 1
      BY <2>1, <2>4
    <3>3. ASSUME NEW j \in 1 .. n - 1 PROVE t.cells[t.off + j - 1] = d[j]
      <4>1. j \in 1 .. n
        OBVIOUS
      <4>2. d[j] = c[j]
        BY <2>1, <3>2
      <4> QED BY <1>3, <3>1, <4>1, <4>2
    <3>4. Content(t) = d
      <4>1. Holds(t, d) /\ t.count \in Nat
        BY <2>4, <3>1, <3>2, <3>3 DEF Holds
      <4> QED BY <2>1, <4>1, ContentIs
    <3>5. IsQueue(V, t)
      BY <1>1, <1>2, <2>2, <2>4, <3>1 DEF IsQueue
    <3> QED BY <3>4, <3>5 DEF t, d
  <2> QED BY <2>3, <2>4
<1>6. ASSUME queue_empty(s).size <= Memory
      PROVE  IsQueue(V, queue_empty(s)) /\ Content(queue_empty(s)) = <<>>
  <2> DEFINE t == queue_empty(s)
  <2>1. Fits(t)
    BY TakingFits, 0 \in Nat DEF IsQueue
  <2>2. t.count = 0 /\ t.cells = s.cells
    BY DEF queue_empty, IsQueue, Fits, Numbered
  <2>3. t.size <= Memory
    BY <1>6
  <2> HIDE DEF t
  <2>4. Content(t) = <<>>
    BY <2>2 DEF Content
  <2> QED BY <1>1, <2>1, <2>2, <2>3, <2>4 DEF IsQueue, t
<1> QED BY <1>4, <1>5, <1>6 DEF c

\* Elements that are gone in the middle.
LEMMA DropDoes ==
  ASSUME NEW V, NEW s, IsQueue(V, s), NEW t, Fits(t), t.size <= Memory,
         NEW p \in Nat, NEW k \in Nat, p + k <= s.count, t.off = s.off, t.count = s.count - k,
         t.cells = Move(s.cells, s.off + p, s.off + p + k, s.count - k - p) \/ (t.cells = s.cells /\ p + k = s.count)
  PROVE  Splices(V, t, Content(s), p, <<>>, p + k)
<1> DEFINE c == Content(s)
           mid == <<>>
<1>1. c \in Seq(V) /\ Holds(s, c) /\ s.off \in Nat /\ s.count \in Nat /\ s.off + s.count <= Memory /\ s.cells \in Cells(V)
  BY ContentFacts DEF IsQueue
<1> HIDE DEF c
<1>2. PICK n \in Nat, o \in Nat : n = s.count /\ o = s.off /\ n = Len(c)
  BY <1>1 DEF Holds
<1>3. Spells(s.cells, o, c, 0, n)
  BY <1>1, <1>2 DEF Holds, Spells
<1>4. PICK f \in Nat, w \in Nat : f = p + k /\ w = n - f
  <2>1. p + k \in Nat /\ n - (p + k) \in Nat
    BY <1>2
  <2> QED BY <2>1
<1>5. p <= f /\ f <= n /\ f + w = n /\ o + n <= Memory /\ p <= n
  <2>1. o + n <= Memory /\ p + k <= n
    BY <1>1, <1>2
  <2> QED BY <2>1, <1>4
<1>6. Spells(s.cells, o, c, 0, p) /\ Spells(s.cells, o + f, c, f, w)
  <2>1. Spells(s.cells, o, c, 0, p)
    BY <1>3, <1>5, SpellsPart
  <2>2. Spells(s.cells, o + f, c, f, n - f)
    BY <1>3, <1>5, SpellsPart
  <2> QED BY <1>4, <2>1, <2>2
<1>7. t.cells \in Cells(V) /\ Spells(t.cells, o, c, 0, p) /\ Spells(t.cells, o + p, c, f, w)
  <2>1. CASE t.cells = Move(s.cells, s.off + p, s.off + p + k, s.count - k - p)
    <3>1. o + p \in Nat /\ o + f \in Nat /\ o + p <= o + p
      OBVIOUS
    <3>2. o + f + w <= Memory /\ o + p + w <= Memory /\ o + p <= Memory
      BY <1>5, QueueAssumption
    <3>3. o + p + k = o + f /\ n - k - p = w
      BY <1>4
    <3>4. t.cells = Move(s.cells, o + p, o + f, w)
      BY <1>2, <2>1, <3>3
    <3>5. /\ Move(s.cells, o + p, o + f, w) \in Cells(V)
          /\ Spells(Move(s.cells, o + p, o + f, w), o, c, 0, p)
          /\ Spells(Move(s.cells, o + p, o + f, w), o + p, c, f, w)
      BY <1>1, <1>6, <3>1, <3>2, MoveSpells
    <3> QED BY <3>4, <3>5
  <2>2. CASE t.cells = s.cells /\ p + k = s.count
    <3>1. w = 0
      BY <1>2, <1>4, <2>2
    <3>2. Spells(s.cells, o + p, c, f, w)
      BY <3>1 DEF Spells
    <3> QED BY <1>1, <1>6, <2>2, <3>2
  <2> QED BY <2>1, <2>2
<1>8. t.count = p + 0 + (n - f) /\ o + p + 0 = o + p
  BY <1>2, <1>4
<1>9. Spells(t.cells, o + p, mid, 0, 0) /\ Len(mid) = 0
  BY DEF Spells
<1>10. Splices(V, t, c, p, mid, f)
  BY <1>2, <1>4, <1>7, <1>8, <1>9 DEF Splices
<1> QED BY <1>4, <1>10 DEF c

\* queue_delete, queue_delete2 and queue_deleten.
LEMMA DeletesDo ==
  ASSUME NEW V, NEW s, IsQueue(V, s), s.size <= Memory, NEW pos \in Nat, NEW n \in Nat
  PROVE  /\ IsQueue(V, queue_delete(s, pos))
         /\ Content(queue_delete(s, pos)) = Upto(Content(s), pos) \o From(Content(s), pos + 1)
         /\ IsQueue(V, queue_delete2(s, pos))
         /\ Content(queue_delete2(s, pos)) = Upto(Content(s), pos) \o From(Content(s), pos + 2)
         /\ IsQueue(V, queue_deleten(s, pos, n))
         /\ Content(queue_deleten(s, pos, n)) = Upto(Content(s), pos) \o From(Content(s), pos + n)
<1> DEFINE c == Content(s)
<1>1. c \in Seq(V) /\ Len(c) = s.count /\ s.count \in Nat /\ s.off \in Nat /\ s.left \in Nat /\ s.size \in Nat
  BY ContentFacts DEF Holds
<1>2. Fits(s)
  BY DEF IsQueue
<1> HIDE DEF c
<1>3. ASSUME NEW t, Fits(t), t.size <= Memory, NEW i \in Nat, NEW p \in Nat, NEW k \in Nat,
             p = Lesser(pos, s.count), p + k = Lesser(i, s.count), p + k <= s.count, t.off = s.off, t.count = s.count - k,
             t.cells = Move(s.cells, s.off + p, s.off + p + k, s.count - k - p) \/ (t.cells = s.cells /\ p + k = s.count)
      PROVE  IsQueue(V, t) /\ Content(t) = Upto(c, pos) \o From(c, i)
  <2>1. Splices(V, t, c, p, <<>>, p + k)
    BY <1>3, DropDoes DEF c
  <2>2. PICK x, f : x = p /\ f = p + k
    OBVIOUS
  <2>3. x = Lesser(pos, Len(c)) /\ f = Lesser(i, Len(c)) /\ Splices(V, t, c, x, <<>>, f)
    BY <1>1, <1>3, <2>1, <2>2
  <2>4. Gets(V, t, Upto(c, pos) \o From(c, i))
    BY <1>1, <2>3, SpliceOutDoes
  <2> QED BY <2>4 DEF Gets
<1>4. ASSUME NEW i \in Nat, i >= pos, pos >= s.count
      PROVE  s.size <= Memory /\ IsQueue(V, s) /\ Content(s) = Upto(c, pos) \o From(c, i)
  <2>1. s.count = Lesser(pos, s.count) /\ s.count + 0 = Lesser(i, s.count) /\ s.count + 0 <= s.count /\ s.count = s.count - 0
        /\ 0 \in Nat
    BY <1>1, <1>4 DEF Lesser
  <2> QED BY <1>1, <1>2, <1>3, <2>1
<1>5. IsQueue(V, queue_delete(s, pos)) /\ Content(queue_delete(s, pos)) = Upto(c, pos) \o From(c, pos + 1)
  <2> DEFINE t == queue_delete(s, pos)
  <2>1. CASE pos >= s.count
    <3>1. t = s /\ pos + 1 \in Nat /\ pos + 1 >= pos
      BY <2>1 DEF queue_delete
    <3> QED BY <1>4, <2>1, <3>1
  <2>2. CASE pos < s.count
    <3>1. Fits(t)
      BY <1>2, TakingFits
    <3>2. t.off = s.off /\ t.count = s.count - 1 /\ t.size = s.size
          /\ t.cells = Move(s.cells, s.off + pos, s.off + pos + 1, s.count - 1 - pos)
      BY <1>1, <1>2, <2>2 DEF queue_delete, Fits, Numbered
    <3> HIDE DEF t
    <3>3. pos = Lesser(pos, s.count) /\ pos + 1 = Lesser(pos + 1, s.count) /\ pos + 1 <= s.count /\ pos + 1 \in Nat /\ 1 \in Nat
      BY <1>1, <2>2 DEF Lesser
    <3>4. IsQueue(V, t) /\ Content(t) = Upto(c, pos) \o From(c, pos + 1)
      BY <1>3, <3>1, <3>2, <3>3
    <3> QED BY <3>4 DEF t
  <2> QED BY <1>1, <2>1, <2>2
<1>6. IsQueue(V, queue_delete2(s, pos)) /\ Content(queue_delete2(s, pos)) = Upto(c, pos) \o From(c, pos + 2)
  <2> DEFINE t == queue_delete2(s, pos)
  <2>1. CASE pos >= s.count
    <3>1. t = s /\ pos + 2 \in Nat /\ pos + 2 >= pos
      BY <2>1 DEF queue_delete2
    <3> QED BY <1>4, <2>1, <3>1
  <2>2. CASE pos = s.count - 1
    <3>1. Fits(t)
      BY <1>2, TakingFits
    <3>2. t.off = s.off /\ t.count = s.count - 1 /\ t.size = s.size /\ t.cells = s.cells
      BY <1>1, <1>2, <2>2 DEF queue_delete2, Fits, Numbered
    <3> HIDE DEF t
    <3>3. pos = Lesser(pos, s.count) /\ pos + 1 = Lesser(pos + 2, s.count) /\ pos + 1 = s.count /\ pos + 1 <= s.count
          /\ pos + 2 \in Nat /\ 1 \in Nat
      BY <1>1, <2>2 DEF Lesser
    <3>4. IsQueue(V, t) /\ Content(t) = Upto(c, pos) \o From(c, pos + 2)
      BY <1>3, <3>1, <3>2, <3>3
    <3> QED BY <3>4 DEF t
  <2>3. CASE pos < s.count - 1
    <3>1. Fits(t)
      BY <1>2, TakingFits
    <3>2. t.off = s.off /\ t.count = s.count - 2 /\ t.size = s.size
          /\ t.cells = Move(s.cells, s.off + pos, s.off + pos + 2, s.count - 2 - pos)
      BY <1>1, <1>2, <2>3 DEF queue_delete2, Fits, Numbered
    <3> HIDE DEF t
    <3>3. pos = Lesser(pos, s.count) /\ pos + 2 = Lesser(pos + 2, s.count) /\ pos + 2 <= s.count /\ pos + 2 \in Nat /\ 2 \in Nat
      BY <1>1, <2>3 DEF Lesser
    <3>4. IsQueue(V, t) /\ Content(t) = Upto(c, pos) \o From(c, pos + 2)
      BY <1>3, <3>1, <3>2, <3>3
    <3> QED BY <3>4 DEF t
  <2> QED BY <1>1, <2>1, <2>2, <2>3
<1>7. IsQueue(V, queue_deleten(s, pos, n)) /\ Content(queue_deleten(s, pos, n)) = Upto(c, pos) \o From(c, pos + n)
  <2> DEFINE t == queue_deleten(s, pos, n)
             k == Lesser(n, s.count - pos)
  <2>1. CASE pos >= s.count
    <3>1. t = s /\ pos + n \in Nat /\ pos + n >= pos
      BY <2>1 DEF queue_deleten
    <3> QED BY <1>4, <2>1, <3>1
  <2>2. CASE pos < s.count /\ n = 0
    <3>1. t = s
      BY <2>2 DEF queue_deleten
    <3>2. pos = Lesser(pos, s.count) /\ pos + 0 = Lesser(pos + n, s.count) /\ pos + 0 <= s.count /\ 0 \in Nat /\ pos + n \in Nat
          /\ s.count = s.count - 0 /\ s.off + pos + 0 = s.off + pos /\ s.count - 0 - pos \in Nat
      BY <1>1, <2>2 DEF Lesser
    <3>3. s.cells = Move(s.cells, s.off + pos, s.off + pos + 0, s.count - 0 - pos)
      <4>1. s.cells = [i \in DOMAIN s.cells |-> s.cells[i]] /\ DOMAIN s.cells = 0 .. Memory - 1
        BY DEF IsQueue, Cells
      <4>2. \A i \in 0 .. Memory - 1 : i - (s.off + pos) + (s.off + pos) = i
        BY <1>1, QueueAssumption
      <4> QED BY <3>2, <4>1, <4>2 DEF Move
    <3> QED BY <1>2, <1>3, <3>1, <3>2, <3>3
  <2>3. CASE pos < s.count /\ n > 0
    <3>1. Fits(t)
      BY <1>2, TakingFits
    <3>2. k \in Nat /\ pos = Lesser(pos, s.count) /\ pos + k = Lesser(pos + n, s.count) /\ pos + k <= s.count /\ pos + n \in Nat
      BY <1>1, <2>3 DEF Lesser
    <3>3. t = [s EXCEPT !.left = s.left + k, !.count = s.count - k,
                        !.cells = Move(s.cells, s.off + pos, s.off + pos + k, s.count - k - pos)]
      BY <1>1, <2>3 DEF queue_deleten
    <3> HIDE DEF t, k
    <3>4. t.off = s.off /\ t.count = s.count - k /\ t.size = s.size
          /\ t.cells = Move(s.cells, s.off + pos, s.off + pos + k, s.count - k - pos)
      BY <1>2, <3>3 DEF Fits, Numbered
    <3>5. IsQueue(V, t) /\ Content(t) = Upto(c, pos) \o From(c, pos + n)
      BY <1>3, <3>1, <3>2, <3>4
    <3> QED BY <3>5 DEF t
  <2> QED BY <1>1, <2>1, <2>2, <2>3
<1> QED BY <1>5, <1>6, <1>7 DEF c

\* The end is cut off (queue_truncate).
LEMMA TruncateDoes ==
  ASSUME NEW V, NEW s, IsQueue(V, s), NEW pos \in Nat
  PROVE  IsQueue(V, queue_truncate(s, pos)) /\ Content(queue_truncate(s, pos)) = Upto(Content(s), pos)
<1> DEFINE c == Content(s)
           t == queue_truncate(s, pos)
           d == Upto(c, pos)
<1>1. c \in Seq(V) /\ Holds(s, c) /\ s.off \in Nat /\ s.count \in Nat /\ s.off + s.count <= Memory /\ s.cells \in Cells(V)
      /\ s.size \in Nat /\ Fits(s)
  BY ContentFacts DEF IsQueue
<1> HIDE DEF c
<1>2. PICK n \in Nat, o \in Nat : n = s.count /\ o = s.off /\ n = Len(c)
  BY <1>1 DEF Holds
<1>3. d \in Seq(V) /\ Len(d) = Lesser(pos, n) /\ \A j \in 1 .. Lesser(pos, n) : d[j] = c[j]
  <2>1. pos \in Int /\ pos >= -1
    OBVIOUS
  <2>2. d \in Seq(V) /\ IsUpto(d, c, pos)
    BY <1>1, <2>1, UptoFacts
  <2>3. (IF pos <= 0 THEN 0 ELSE Lesser(pos, Len(c))) = Lesser(pos, n)
    BY <1>2 DEF Lesser
  <2> HIDE DEF d
  <2> QED BY <2>2, <2>3 DEF IsUpto
<1> HIDE DEF d
<1>4. PICK m \in Nat : m = Lesser(pos, n) /\ m <= n
  BY DEF Lesser
<1>5. t.off = o /\ t.count = m /\ t.size = s.size /\ t.cells = s.cells /\ Fits(t)
  <2>1. Fits(t)
    BY <1>1, TakingFits
  <2>2. CASE s.count > pos
    <3>1. m = pos
      BY <1>2, <1>4, <2>2 DEF Lesser
    <3> QED BY <1>1, <1>2, <2>1, <2>2, <3>1 DEF queue_truncate, Fits, Numbered
  <2>3. CASE ~(s.count > pos)
    <3>1. m = n
      BY <1>2, <1>4, <2>3 DEF Lesser
    <3> QED BY <1>1, <1>2, <2>1, <2>3, <3>1 DEF queue_truncate
  <2> QED BY <2>2, <2>3
<1> HIDE DEF t
<1>6. Content(t) = d
  <2>1. ASSUME NEW j \in 1 .. m PROVE t.cells[t.off + j - 1] = d[j]
    <3>1. j \in 1 .. n
      BY <1>4
    <3> QED BY <1>1, <1>2, <1>3, <1>4, <1>5, <3>1 DEF Holds
  <2>2. Holds(t, d) /\ t.count \in Nat
    BY <1>3, <1>4, <1>5, <2>1 DEF Holds
  <2> QED BY <1>3, <2>2, ContentIs
<1>7. IsQueue(V, t)
  <2>1. t.size <= Memory \/ (t.off = 0 /\ t.count = 0)
    <3>1. s.size <= Memory \/ (o = 0 /\ n = 0)
      BY <1>2 DEF IsQueue
    <3>2. n = 0 => m = 0
      BY <1>4
    <3> QED BY <1>5, <3>1, <3>2
  <2> QED BY <1>1, <1>5, <2>1 DEF IsQueue
<1> QED BY <1>6, <1>7 DEF t, d, c

\* A new queue is empty; a copy has the elements of its original
\* (queue_init, queue_init_buffer, queue_init_clone).
LEMMA NewDo ==
  ASSUME NEW V, Stale \in V
  PROVE  /\ IsQueue(V, queue_init) /\ Content(queue_init) = <<>>
         /\ \A size \in Nat : IsQueue(V, queue_init_buffer(size))
         /\ \A s : IsQueue(V, s) /\ queue_init_clone(s).size <= Memory
              => IsQueue(V, queue_init_clone(s)) /\ Content(queue_init_clone(s)) = Content(s)
<1>1. queue_init.cells \in Cells(V) /\ queue_init.off = 0 /\ queue_init.count = 0
  BY DEF queue_init, Cells
<1>2. IsQueue(V, queue_init) /\ Content(queue_init) = <<>>
  BY <1>1, NewFits DEF IsQueue, Content
<1>3. ASSUME NEW size \in Nat PROVE IsQueue(V, queue_init_buffer(size))
  <2>1. queue_init_buffer(size).cells = queue_init.cells /\ queue_init_buffer(size).off = 0 /\ queue_init_buffer(size).count = 0
    BY DEF queue_init_buffer, queue_init
  <2> QED BY <1>1, <2>1, NewFits DEF IsQueue
<1>4. ASSUME NEW s, IsQueue(V, s), queue_init_clone(s).size <= Memory
      PROVE  IsQueue(V, queue_init_clone(s)) /\ Content(queue_init_clone(s)) = Content(s)
  <2> DEFINE t == queue_init_clone(s)
             c == Content(s)
  <2>1. c \in Seq(V) /\ Holds(s, c) /\ s.off \in Nat /\ s.count \in Nat /\ s.left \in Nat /\ s.off + s.count <= Memory
        /\ s.cells \in Cells(V) /\ s.size \in Nat /\ Fits(s)
    BY <1>4, ContentFacts DEF IsQueue
  <2>2. CASE ~s.alloc /\ s.size = 0
    <3>1. s.count = 0
      BY <2>1, <2>2 DEF Fits, Numbered
    <3>2. c = <<>>
      BY <3>1 DEF Content
    <3> QED BY <1>2, <2>2, <3>2 DEF queue_init_clone
  <2>3. CASE ~(~s.alloc /\ s.size = 0)
    <3>1. Fits(t)
      BY <2>1, NewFits
    <3>2. t.off = 0 /\ t.count = s.count /\ t.cells = Move(s.cells, 0, s.off, s.count)
      BY <2>1, <2>3 DEF queue_init_clone, Fits, Numbered
    <3>3. t.size <= Memory
      BY <1>4
    <3> HIDE DEF t, c
    <3>4. t.cells \in Cells(V) /\ Alike(t.cells, 0, s.cells, s.off, s.count)
      <4>1. 0 \in Nat /\ 0 + s.count <= Memory
        BY <2>1, QueueAssumption
      <4> QED BY <2>1, <3>2, <4>1, MoveKeeps
    <3>5. Holds(t, c)
      BY <2>1, <3>2, <3>4 DEF Holds, Alike
    <3>6. Content(t) = c
      BY <2>1, <3>2, <3>5, ContentIs
    <3> QED BY <3>1, <3>3, <3>4, <3>6 DEF IsQueue, t, c
  <2> QED BY <2>2, <2>3
<1> QED BY <1>2, <1>3, <1>4

\* What is in the cells is in the content (queue_pushunique).
LEMMA PushUniqueDoes ==
  ASSUME NEW V, NEW s, IsQueue(V, s), NEW id \in V, queue_pushunique(s, id).size <= Memory
  PROVE  /\ IsQueue(V, queue_pushunique(s, id))
         /\ Content(queue_pushunique(s, id))
              = IF \E i \in DOMAIN Content(s) : Content(s)[i] = id THEN Content(s) ELSE Append(Content(s), id)
<1> DEFINE c == Content(s)
<1>1. c \in Seq(V) /\ Holds(s, c) /\ s.off \in Nat /\ s.count \in Nat
  BY ContentFacts
<1> HIDE DEF c
<1>2. DOMAIN c = 1 .. s.count /\ \A j \in 1 .. s.count : s.cells[s.off + j - 1] = c[j]
  BY <1>1 DEF Holds
<1>3. (\E i \in 0 .. s.count - 1 : s.cells[s.off + i] = id) <=> \E i \in DOMAIN c : c[i] = id
  <2>1. ASSUME NEW i \in 0 .. s.count - 1, s.cells[s.off + i] = id
        PROVE  \E j \in DOMAIN c : c[j] = id
    <3>1. i + 1 \in 1 .. s.count /\ s.off + (i + 1) - 1 = s.off + i
      BY <1>1
    <3> QED BY <1>2, <2>1, <3>1
  <2>2. ASSUME NEW j \in DOMAIN c, c[j] = id
        PROVE  \E i \in 0 .. s.count - 1 : s.cells[s.off + i] = id
    <3>1. j - 1 \in 0 .. s.count - 1 /\ s.off + j - 1 = s.off + (j - 1)
      BY <1>1, <1>2
    <3> QED BY <1>2, <2>2, <3>1
  <2> QED BY <2>1, <2>2
<1>4. CASE \E i \in 0 .. s.count - 1 : s.cells[s.off + i] = id
  BY <1>3, <1>4 DEF queue_pushunique, c
<1>5. CASE ~\E i \in 0 .. s.count - 1 : s.cells[s.off + i] = id
  <2>1. queue_pushunique(s, id) = queue_push(s, id)
    BY <1>5 DEF queue_pushunique
  <2>2. IsQueue(V, queue_push(s, id)) /\ Content(queue_push(s, id)) = Append(c, id)
    BY <2>1, PushDoes DEF c
  <2> QED BY <1>3, <1>5, <2>1, <2>2 DEF c
<1> QED BY <1>4, <1>5

Kind == QueueIds \cup {0, Stale}

\* Every call leaves a queue that is one.
LEMMA StaysQueue ==
  ASSUME IsQueue(Kind, q), [QueueNext]_q
  PROVE  IsQueue(Kind, q')
<1> DEFINE V == Kind
<1>1. 0 \in V /\ Stale \in V /\ QueueIds \subseteq V
  BY DEF Kind
<1> SUFFICES IsQueue(V, q')
  OBVIOUS
<1> HIDE DEF V
<1>2. ASSUME NEW t, t.size <= Memory => IsQueue(V, t), Becomes(t) PROVE IsQueue(V, q')
  <2>1. t.size <= Memory /\ IsQueue(V, t)
    BY <1>2 DEF Becomes
  <2>2. q' = [t EXCEPT !.cells = [i \in DOMAIN t.cells |-> IF i \in Elements(t) THEN t.cells[i] ELSE Stale]]
    BY <1>2 DEF Becomes
  <2>3. [i \in DOMAIN t.cells |-> IF i \in Elements(t) THEN t.cells[i] ELSE Stale] \in Cells(V)
    BY <1>1, <2>1 DEF IsQueue, Cells
  <2> QED BY <2>1, <2>2, <2>3 DEF IsQueue, Fits, Numbered
<1>3. IsQueue(V, q)
  BY DEF V
<1>4. CASE Push
  <2>1. PICK id \in V :
          Becomes(queue_push(q, id)) \/ Becomes(queue_pushunique(q, id)) \/ Becomes(queue_unshift(q, id))
    BY <1>1, <1>4 DEF Push
  <2>2. queue_push(q, id).size <= Memory => IsQueue(V, queue_push(q, id))
    BY <1>3, PushDoes
  <2>3. queue_pushunique(q, id).size <= Memory => IsQueue(V, queue_pushunique(q, id))
    BY <1>3, PushUniqueDoes
  <2>4. queue_unshift(q, id).size <= Memory => IsQueue(V, queue_unshift(q, id))
    BY <1>3, UnshiftDoes
  <2> QED BY <1>2, <2>1, <2>2, <2>3, <2>4
<1>5. CASE Take
  BY <1>2, <1>3, <1>5, EndsDo DEF Take
<1>6. CASE Insert
  <2>1. PICK pos \in Nat, id \in V :
          \/ Becomes(queue_insert(q, pos, id))
          \/ \E id2 \in V : Becomes(queue_insert2(q, pos, id, id2))
          \/ \E n \in Nat : Becomes(queue_insertn(q, pos, n))
    BY <1>1, <1>6, QueueAssumption DEF Insert, Positions
  <2>2. CASE Becomes(queue_insert(q, pos, id))
    BY <1>2, <1>3, <2>2, InsertDoes
  <2>3. CASE \E id2 \in V : Becomes(queue_insert2(q, pos, id, id2))
    BY <1>2, <1>3, <2>3, Insert2Does
  <2>4. CASE \E n \in Nat : Becomes(queue_insertn(q, pos, n))
    BY <1>1, <1>2, <1>3, <2>4, InsertnDoes
  <2> QED BY <2>1, <2>2, <2>3, <2>4
<1>7. CASE Delete
  <2>1. PICK pos \in Nat :
          \/ Becomes(queue_delete(q, pos)) \/ Becomes(queue_delete2(q, pos)) \/ Becomes(queue_truncate(q, pos))
          \/ \E n \in Nat : Becomes(queue_deleten(q, pos, n))
    BY <1>7, QueueAssumption DEF Delete, Positions
  <2>2. IsQueue(V, queue_truncate(q, pos))
    BY <1>3, TruncateDoes
  <2>3. CASE q.size <= Memory
    BY <1>2, <1>3, <2>1, <2>2, <2>3, DeletesDo, 0 \in Nat
  <2>4. CASE ~(q.size <= Memory)
    <3>1. q.count = 0
      BY <1>3, <2>4 DEF IsQueue
    <3>2. queue_delete(q, pos) = q /\ queue_delete2(q, pos) = q /\ \A n \in Nat : queue_deleten(q, pos, n) = q
      BY <3>1 DEF queue_delete, queue_delete2, queue_deleten
    <3> QED BY <1>2, <1>3, <2>1, <2>2, <3>2
  <2> QED BY <2>3, <2>4
<1>8. CASE Anew
  BY <1>1, <1>2, <1>3, <1>8, EndsDo, NewDo DEF Anew
<1>9. CASE UNCHANGED q
  BY <1>3, <1>9
<1> QED BY <1>4, <1>5, <1>6, <1>7, <1>8, <1>9 DEF QueueNext

\* What the calls do with a queue is what they do with a sequence.
LEMMA QueueIsOne == IsQueue(Kind, q) => QueueIsSequence
<1> SUFFICES ASSUME IsQueue(Kind, q) PROVE QueueIsSequence
  OBVIOUS
<1> DEFINE V == Kind
           c == Content(q)
<1>1. 0 \in V /\ Stale \in V /\ QueueIds \subseteq V /\ Positions \subseteq Nat
  BY QueueAssumption DEF Kind, Positions
<1>2. IsQueue(V, q)
  OBVIOUS
<1> HIDE DEF V, c
<1>3. /\ Does(queue_shift(q), From(c, 1)) /\ Does(queue_pop(q), Upto(c, Len(c) - 1))
      /\ Does(queue_empty(q), <<>>) /\ Does(queue_init_clone(q), c)
  BY <1>1, <1>2, EndsDo, NewDo DEF Does, c
<1>4. ASSUME NEW id \in V
      PROVE  /\ Does(queue_push(q, id), Append(c, id)) /\ Does(queue_unshift(q, id), <<id>> \o c)
             /\ Does(queue_pushunique(q, id), IF \E i \in DOMAIN c : c[i] = id THEN c ELSE Append(c, id))
  BY <1>2, PushDoes, UnshiftDoes, PushUniqueDoes DEF Does, c
<1>5. ASSUME NEW id \in V, NEW pos \in Nat
      PROVE  Does(queue_insert(q, pos, id), Upto(c, pos) \o <<id>> \o From(c, pos))
  BY <1>2, InsertDoes DEF Does, c
<1>6. ASSUME NEW id \in V, NEW id2 \in V, NEW pos \in Nat
      PROVE  Does(queue_insert2(q, pos, id, id2), Upto(c, pos) \o <<id, id2>> \o From(c, pos))
  BY <1>2, Insert2Does DEF Does, c
<1>7. ASSUME NEW pos \in Nat, NEW n \in Nat
      PROVE  /\ Does(queue_delete(q, pos), Upto(c, pos) \o From(c, pos + 1))
             /\ Does(queue_delete2(q, pos), Upto(c, pos) \o From(c, pos + 2))
             /\ Does(queue_deleten(q, pos, n), Upto(c, pos) \o From(c, pos + n))
  <2>1. CASE q.size <= Memory
    BY <1>2, <2>1, DeletesDo DEF Does, c
  <2>2. CASE ~(q.size <= Memory)
    <3>1. q.count = 0
      BY <1>2, <2>2 DEF IsQueue
    <3>2. queue_delete(q, pos) = q /\ queue_delete2(q, pos) = q /\ queue_deleten(q, pos, n) = q
      BY <3>1 DEF queue_delete, queue_delete2, queue_deleten
    <3> QED BY <2>2, <3>2 DEF Does
  <2> QED BY <2>1, <2>2
<1>8. ASSUME NEW pos \in Nat
      PROVE  Does(queue_truncate(q, pos), Upto(c, pos))
  BY <1>2, TruncateDoes DEF Does, c
<1>9. ASSUME NEW pos \in Nat, NEW n \in Nat
      PROVE  Does(queue_insertn(q, pos, n), Upto(c, pos) \o [i \in 1 .. n |-> 0] \o From(c, pos))
  BY <1>1, <1>2, InsertnDoes DEF Does, c
<1>10. \A pos \in Positions : 0 \in Nat /\ pos \in Nat
  BY <1>1
<1> QED BY <1>1, <1>3, <1>4, <1>5, <1>6, <1>7, <1>8, <1>9, <1>10 DEF QueueIsSequence, c

\* Wherever in its block a queue has got to by the calls before, and whatever
\* block it has got, each call does with it what it should do with a sequence
\* (src/queue.c, src/queue.h).
THEOREM QueuesAreSequences == QueueSpec => []QueueIsSequence
<1>1. QueueInit => IsQueue(Kind, q)
  <2>1. Stale \in Kind
    BY DEF Kind
  <2> QED BY <2>1, NewDo, QueueAssumption DEF QueueInit
<1>2. IsQueue(Kind, q) /\ [QueueNext]_q => IsQueue(Kind, q)'
  <2> SUFFICES ASSUME IsQueue(Kind, q), [QueueNext]_q PROVE IsQueue(Kind, q')
    BY DEF IsQueue, Fits, Numbered, Cells, Kind
  <2> QED BY StaysQueue
<1>3. IsQueue(Kind, q) => QueueIsSequence
  BY QueueIsOne
<1> QED BY <1>1, <1>2, <1>3, PTL DEF QueueSpec

----------------------------------------------------------------------------

(***************************************************************************)
(* Pages.  N is the number of slots.                                       *)
(***************************************************************************)

BufferOf(N) ==
  [at : [FilePages -> (0 .. N - 1) \cup {-1}], in : [0 .. N - 1 -> FilePages \cup {-1}],
   blob : [0 .. N - 1 -> FilePages \cup {-1}]]

Mapped(b) ==
  /\ \A p \in FilePages : b.at[p] # -1 => b.in[b.at[p]] = p /\ b.blob[b.at[p]] = p
  /\ \A s \in Slots(b) : b.in[s] # -1 => b.at[b.in[s]] = s

IsBuffer(b, N) == b \in BufferOf(N) /\ Mapped(b)

\* The place from best on has no pages but those that belong there.
Cleared(b, best, first, last) == \A s \in best .. best + last - first : b.in[s] \in {-1, first + s - best}

\* Pages first..first + k - 1 are at their place.
Placed(b, best, first, k) ==
  LET now == first .. first + k - 1
      there == best .. best + k - 1
  IN  [at |-> [p \in FilePages |-> IF p \in now THEN best + p - first ELSE b.at[p]],
       in |-> [s \in Slots(b) |-> IF s \in there THEN first + s - best ELSE IF b.in[s] \in now THEN -1 ELSE b.in[s]],
       blob |-> [s \in Slots(b) |-> IF s \in there THEN first + s - best ELSE b.blob[s]]]

\* What pages first..last and a place for them from best on are.
IsPlace(best, first, last, N) ==
  /\ first \in FilePages /\ last \in FilePages /\ first <= last
  /\ best \in 0 .. N - 1 /\ best + last - first \in 0 .. N - 1

LEMMA BufferSlots ==
  ASSUME NEW N \in Nat, NEW b \in BufferOf(N)
  PROVE  Slots(b) = 0 .. N - 1
BY DEF BufferOf, Slots

\* A set of numbers has a least one.
LEMMA LeastOne ==
  ASSUME NEW S, S \subseteq Nat, S # {}
  PROVE  \E x \in S : \A y \in S : x <= y
<1>1. PICK x \in S : \A y \in S : <<y, x>> \notin OpToRel(<, Nat)
  BY NatLessThanWellFounded, WFMin, Zenon
<1>2. ASSUME NEW y \in S, ~(x <= y) PROVE FALSE
  <2>1. y < x /\ x \in Nat /\ y \in Nat
    BY <1>2
  <2>2. <<y, x>> \in OpToRel(<, Nat)
    BY <2>1 DEF OpToRel
  <2> QED BY <1>1, <2>2
<1> QED BY <1>2

\* More slots are free ones (repopage.c, the buffer that grows).
LEMMA EnlargedIs ==
  ASSUME NEW N \in Nat, NEW b, IsBuffer(b, N), NEW n \in Nat \ {0}
  PROVE  \E M \in Nat : n <= M /\ IsBuffer(Enlarged(b, n), M)
<1>1. Slots(b) = 0 .. N - 1 /\ Cardinality(Slots(b)) = N
  BY BufferSlots, FS_Interval DEF IsBuffer
<1>2. CASE n <= N
  BY <1>1, <1>2 DEF Enlarged
<1>3. CASE ~(n <= N)
  <2> DEFINE M == IF n < MinMap THEN MinMap ELSE n
             more(f) == [s \in 0 .. M - 1 |-> IF s \in DOMAIN f THEN f[s] ELSE -1]
             c == [at |-> b.at, in |-> more(b.in), blob |-> more(b.blob)]
  <2>1. M \in Nat /\ n <= M /\ N <= M
    BY <1>3, PageAssumption
  <2>2. b \in BufferOf(N) /\ Mapped(b)
    BY DEF IsBuffer
  <2>3. b = [at |-> b.at, in |-> b.in, blob |-> b.blob] /\ DOMAIN b.in = 0 .. N - 1 /\ DOMAIN b.blob = 0 .. N - 1
    BY <2>2 DEF BufferOf
  <2>4. Enlarged(b, n) = c
    BY <1>1, <1>3, <2>3 DEF Enlarged
  <2>5. c \in BufferOf(M)
    BY <2>1, <2>2, <2>3 DEF BufferOf
  <2>6. Mapped(c)
    <3>1. ASSUME NEW p \in FilePages, c.at[p] # -1 PROVE c.in[c.at[p]] = p /\ c.blob[c.at[p]] = p
      <4>1. b.at[p] # -1 /\ b.at[p] \in 0 .. N - 1
        BY <3>1, <2>2 DEF BufferOf
      <4>2. b.in[b.at[p]] = p /\ b.blob[b.at[p]] = p
        BY <4>1, <2>2 DEF Mapped
      <4>3. b.at[p] \in 0 .. M - 1
        BY <4>1, <2>1
      <4> QED BY <4>1, <4>2, <4>3, <2>3
    <3>2. ASSUME NEW s \in 0 .. M - 1, c.in[s] # -1 PROVE c.at[c.in[s]] = s
      <4>1. s \in 0 .. N - 1 /\ c.in[s] = b.in[s]
        BY <3>2, <2>3
      <4> QED BY <4>1, <3>2, <1>1, <2>2 DEF Mapped
    <3> HIDE DEF M
    <3> QED BY <3>1, <3>2 DEF Mapped, Slots
  <2> QED BY <2>1, <2>4, <2>5, <2>6 DEF IsBuffer
<1> QED BY <1>2, <1>3

\* The chosen place is one.
LEMMA BestIsPlace ==
  ASSUME NEW N \in Nat, NEW b, IsBuffer(b, N), NEW first \in FilePages, NEW last \in FilePages, first <= last,
         last - first + 1 <= N, rr_counter \in Nat
  PROVE  IsPlace(Best(b, first, last), first, last, N)
<1> DEFINE places == Places(b, first, last)
           w == N - 1 - (last - first)
           cost(i) == PlaceCost(b, i, first, last)
           cheapest == {i \in places : \A k \in places : cost(i) <= cost(k)}
<1>0. first \in Int /\ last \in Int
  BY PageAssumption DEF FilePages
<1>1. w \in Nat /\ places = 0 .. w
  BY <1>0, BufferSlots DEF Places, IsBuffer
<1>2. CASE Thrashing(b, first, last)
  <2>1. Cardinality(places) = w + 1
    BY <1>1, FS_Interval
  <2>2. Best(b, first, last) = rr_counter % (w + 1)
    BY <1>2, <2>1 DEF Best
  <2>3. rr_counter % (w + 1) \in 0 .. w
    <3> DEFINE m == w + 1
    <3>1. m \in Nat \ {0}
      BY <1>1
    <3> HIDE DEF m
    <3>2. rr_counter % m \in 0 .. m - 1
      BY <3>1
    <3> QED BY <3>2, <1>1 DEF m
  <2> QED BY <2>2, <2>3, <1>1, <1>0 DEF IsPlace
<1>3. CASE ~Thrashing(b, first, last)
  <2>1. \A i \in places : cost(i) \in Nat
    <3> TAKE i \in places
    <3> DEFINE costing(c) == Cardinality({s \in i .. i + last - first : Cost(b, s, first, last) = c})
    <3>1. i \in Int /\ IsFiniteSet(i .. i + last - first)
      BY <1>1, <1>0, FS_Interval
    <3>2. costing(1) \in Nat /\ costing(3) \in Nat
      BY <3>1, FS_Subset, FS_CardinalityType
    <3>3. Cost(b, i, first, last) \in Nat
      BY DEF Cost
    <3> HIDE DEF costing
    <3>4. Cost(b, i, first, last) + costing(1) + 3 * costing(3) \in Nat
      BY <3>2, <3>3
    <3> QED BY <3>4 DEF PlaceCost, costing
  <2> HIDE DEF cost, places
  <2> DEFINE costs == {cost(i) : i \in places}
  <2>2. \E x \in costs : \A y \in costs : x <= y
    <3>1. costs \subseteq Nat
      BY <2>1
    <3>2. 0 \in places
      BY <1>1
    <3>3. costs # {}
      BY <3>2
    <3> HIDE DEF costs
    <3> QED BY <3>1, <3>3, LeastOne
  <2>3. PICK i \in places : \A k \in places : cost(i) <= cost(k)
    BY <2>2
  <2>4. i \in cheapest
    BY <2>3
  <2>5. cheapest \subseteq Nat /\ cheapest # {}
    BY <2>4, <1>1
  <2>6. \E j \in cheapest : \A k \in cheapest : j <= k
    BY <2>5, LeastOne
  <2>7. Best(b, first, last) = CHOOSE j \in cheapest : \A k \in cheapest : j <= k
    BY <1>3 DEF Best, cost, places
  <2> DEFINE B == CHOOSE j \in cheapest : \A k \in cheapest : j <= k
  <2>8. B \in cheapest
    BY <2>6
  <2>9. B \in 0 .. w
    BY <2>8, <1>1
  <2> HIDE DEF B
  <2>10. B \in 0 .. N - 1 /\ B + last - first \in 0 .. N - 1
    BY <2>9, <1>0, <1>1
  <2> QED BY <2>7, <2>10 DEF IsPlace, B
<1> QED BY <1>2, <1>3

\* Buffers are records, field by field.
LEMMA SetAt ==
  ASSUME NEW b, NEW at, NEW in, NEW blob, b = [at |-> at, in |-> in, blob |-> blob], NEW at2
  PROVE  [b EXCEPT !.at = at2] = [at |-> at2, in |-> in, blob |-> blob]
OBVIOUS

LEMMA SetIn ==
  ASSUME NEW b, NEW at, NEW in, NEW blob, b = [at |-> at, in |-> in, blob |-> blob], NEW in2
  PROVE  [b EXCEPT !.in = in2] = [at |-> at, in |-> in2, blob |-> blob]
OBVIOUS

SetBoth(b, in2, at2) == [b EXCEPT !.in = in2, !.at = at2]

LEMMA SetTwo ==
  ASSUME NEW b, b = [at |-> b.at, in |-> b.in, blob |-> b.blob], NEW at2, NEW in2
  PROVE  SetBoth(b, in2, at2) = [at |-> at2, in |-> in2, blob |-> b.blob]
<1> DEFINE c == [b EXCEPT !.in = in2]
<1>1. c = [at |-> b.at, in |-> in2, blob |-> b.blob]
  BY SetIn
<1> HIDE DEF c
<1>2. [c EXCEPT !.at = at2] = [at |-> at2, in |-> in2, blob |-> b.blob]
  BY <1>1, SetAt
<1> QED BY <1>2 DEF c, SetBoth

LEMMA SetAll ==
  ASSUME NEW b, NEW at, NEW in, NEW blob, b = [at |-> at, in |-> in, blob |-> blob], NEW p, NEW s, NEW from, NEW in2
  PROVE  [b EXCEPT !.blob[s] = from, !.at[p] = s, !.in = in2]
           = [at |-> [at EXCEPT ![p] = s], in |-> in2, blob |-> [blob EXCEPT ![s] = from]]
<1> DEFINE c == [b EXCEPT !.blob[s] = from]
           d == [c EXCEPT !.at[p] = s]
<1>1. c = [at |-> at, in |-> in, blob |-> [blob EXCEPT ![s] = from]]
  OBVIOUS
<1> HIDE DEF c
<1>2. d = [at |-> [at EXCEPT ![p] = s], in |-> in, blob |-> [blob EXCEPT ![s] = from]]
  BY <1>1
<1> HIDE DEF d
<1>3. [d EXCEPT !.in = in2] = [at |-> [at EXCEPT ![p] = s], in |-> in2, blob |-> [blob EXCEPT ![s] = from]]
  BY <1>2
<1> QED BY <1>3 DEF c, d

\* The place is cleared, and nothing is said to be there that was thrown out.
LEMMA EvictedIs ==
  ASSUME NEW N \in Nat, NEW b, IsBuffer(b, N), NEW best, NEW first, NEW last, IsPlace(best, first, last, N)
  PROVE  IsBuffer(Evicted(b, best, first, last), N) /\ Cleared(Evicted(b, best, first, last), best, first, last)
<1> DEFINE gone == {s \in best .. best + last - first : b.in[s] # -1 /\ b.in[s] # first + s - best}
           c == [at |-> [p \in FilePages |-> IF b.at[p] \in gone THEN -1 ELSE b.at[p]],
                 in |-> [s \in 0 .. N - 1 |-> IF s \in gone THEN -1 ELSE b.in[s]],
                 blob |-> b.blob]
<1>1. b \in BufferOf(N) /\ Mapped(b) /\ Slots(b) = 0 .. N - 1
  BY BufferSlots DEF IsBuffer
<1>2. b = [at |-> b.at, in |-> b.in, blob |-> b.blob] /\ DOMAIN b.in = 0 .. N - 1
  BY <1>1 DEF BufferOf
<1>3. Evicted(b, best, first, last) = c
  <2> DEFINE at2 == [p \in FilePages |-> IF b.at[p] \in gone THEN -1 ELSE b.at[p]]
             in2 == [s \in 0 .. N - 1 |-> IF s \in gone THEN -1 ELSE b.in[s]]
  <2>1. Evicted(b, best, first, last) = SetBoth(b, in2, at2)
    BY <1>1 DEF Evicted, SetBoth
  <2>2. c = [at |-> at2, in |-> in2, blob |-> b.blob]
    OBVIOUS
  <2> HIDE DEF gone, at2, in2, c
  <2>3. SetBoth(b, in2, at2) = [at |-> at2, in |-> in2, blob |-> b.blob]
    BY <1>2, SetTwo
  <2> QED BY <2>1, <2>2, <2>3
<1>4. gone \subseteq 0 .. N - 1
  BY PageAssumption DEF IsPlace, FilePages
<1> HIDE DEF gone
<1>5. c \in BufferOf(N)
  BY <1>1 DEF BufferOf
<1>6. ASSUME NEW p \in FilePages, c.at[p] # -1 PROVE c.in[c.at[p]] = p /\ c.blob[c.at[p]] = p
  <2>1. b.at[p] \notin gone /\ c.at[p] = b.at[p] /\ b.at[p] # -1
    BY <1>6
  <2>2. b.at[p] \in 0 .. N - 1
    BY <2>1, <1>1 DEF BufferOf
  <2>3. b.in[b.at[p]] = p /\ b.blob[b.at[p]] = p
    BY <2>1, <1>1 DEF Mapped
  <2> QED BY <2>1, <2>2, <2>3
<1>7. ASSUME NEW s \in 0 .. N - 1, c.in[s] # -1 PROVE c.at[c.in[s]] = s
  <2>1. s \notin gone /\ c.in[s] = b.in[s] /\ b.in[s] # -1
    BY <1>7
  <2>2. b.in[s] \in FilePages
    BY <2>1, <1>1 DEF BufferOf
  <2>3. b.at[b.in[s]] = s
    BY <2>1, <1>1 DEF Mapped
  <2> QED BY <2>1, <2>2, <2>3
<1>8. Mapped(c)
  BY <1>6, <1>7 DEF Mapped, Slots
<1>9. ASSUME NEW s \in best .. best + last - first PROVE c.in[s] \in {-1, first + s - best}
  <2>1. s \in 0 .. N - 1
    BY PageAssumption DEF IsPlace, FilePages
  <2> QED BY <2>1 DEF gone
<1> QED BY <1>3, <1>5, <1>8, <1>9 DEF IsBuffer, Cleared

\* With any number of its pages placed a buffer is one.
LEMMA PlacedIs ==
  ASSUME NEW N \in Nat, NEW b, IsBuffer(b, N), NEW best, NEW first, NEW last, IsPlace(best, first, last, N),
         Cleared(b, best, first, last), NEW k \in 0 .. last - first + 1
  PROVE  IsBuffer(Placed(b, best, first, k), N)
<1> DEFINE c == Placed(b, best, first, k)
           now == first .. first + k - 1
           there == best .. best + k - 1
<1>0. /\ first \in Int /\ last \in Int /\ best \in Int /\ k \in Nat
      /\ now \subseteq FilePages /\ there \subseteq 0 .. N - 1 /\ there \subseteq best .. best + last - first
  BY PageAssumption DEF IsPlace, FilePages
<1>1. b \in BufferOf(N) /\ Mapped(b) /\ Slots(b) = 0 .. N - 1
  BY BufferSlots DEF IsBuffer
<1>2. \A p : p \in now => best + p - first \in there
  BY <1>0
<1>3. \A s : s \in there => first + s - best \in now
  BY <1>0
<1>4. c = [at |-> [p \in FilePages |-> IF p \in now THEN best + p - first ELSE b.at[p]],
           in |-> [s \in 0 .. N - 1 |-> IF s \in there THEN first + s - best ELSE IF b.in[s] \in now THEN -1 ELSE b.in[s]],
           blob |-> [s \in 0 .. N - 1 |-> IF s \in there THEN first + s - best ELSE b.blob[s]]]
  BY <1>1 DEF Placed
<1>5. \A s \in there : b.in[s] \in {-1, first + s - best}
  BY <1>0 DEF Cleared
<1>6. \A p \in now : first + (best + p - first) - best = p
  BY <1>0
<1>7. \A s \in there : best + (first + s - best) - first = s
  BY <1>0
<1> HIDE DEF c, now, there
<1>8. c \in BufferOf(N)
  <2>1. \A p \in FilePages : c.at[p] \in (0 .. N - 1) \cup {-1}
    BY <1>0, <1>1, <1>2, <1>4 DEF BufferOf
  <2>2. \A s \in 0 .. N - 1 : c.in[s] \in FilePages \cup {-1}
    BY <1>0, <1>1, <1>3, <1>4 DEF BufferOf
  <2>3. \A s \in 0 .. N - 1 : c.blob[s] \in FilePages \cup {-1}
    BY <1>0, <1>1, <1>3, <1>4 DEF BufferOf
  <2> QED BY <2>1, <2>2, <2>3, <1>4 DEF BufferOf
<1>9. ASSUME NEW p \in FilePages, c.at[p] # -1 PROVE c.in[c.at[p]] = p /\ c.blob[c.at[p]] = p
  <2>1. CASE p \in now
    BY <2>1, <1>0, <1>2, <1>4, <1>6
  <2>2. CASE p \notin now
    <3>1. c.at[p] = b.at[p] /\ b.at[p] # -1 /\ b.at[p] \in 0 .. N - 1
      BY <2>2, <1>1, <1>4, <1>9 DEF BufferOf
    <3>2. b.in[b.at[p]] = p /\ b.blob[b.at[p]] = p
      BY <3>1, <1>1 DEF Mapped
    <3>3. b.at[p] \notin there
      <4>1. p # -1
        BY PageAssumption DEF FilePages
      <4> QED BY <4>1, <3>2, <2>2, <1>3, <1>5
    <3> QED BY <3>1, <3>2, <3>3, <2>2, <1>4
  <2> QED BY <2>1, <2>2
<1>10. ASSUME NEW s \in 0 .. N - 1, c.in[s] # -1 PROVE c.at[c.in[s]] = s
  <2>1. CASE s \in there
    BY <2>1, <1>0, <1>3, <1>4, <1>7
  <2>2. CASE s \notin there
    <3>1. c.in[s] = b.in[s] /\ b.in[s] # -1 /\ b.in[s] \notin now
      BY <2>2, <1>4, <1>10
    <3>2. b.in[s] \in FilePages /\ b.at[b.in[s]] = s
      BY <3>1, <1>1 DEF BufferOf, Mapped
    <3> QED BY <3>1, <3>2, <1>4
  <2> QED BY <2>1, <2>2
<1>11. Mapped(c)
  <2>1. Slots(c) = 0 .. N - 1
    BY <1>4 DEF Slots
  <2> QED BY <2>1, <1>9, <1>10 DEF Mapped
<1> QED BY <1>8, <1>11 DEF IsBuffer, c

\* Each page in turn gets to its slot (repopage.c, the loop over the pages).
LEMMA FillPlaces ==
  ASSUME NEW N \in Nat, NEW b, IsBuffer(b, N), NEW best, NEW first, NEW last, IsPlace(best, first, last, N),
         Cleared(b, best, first, last), NEW k \in 0 .. last - first
  PROVE  Fill(Placed(b, best, first, k), first + k, best + k) = Placed(b, best, first, k + 1)
<1> DEFINE c == Placed(b, best, first, k)
           d == Placed(b, best, first, k + 1)
           p == first + k
           s == best + k
           now == first .. first + k - 1
           there == best .. best + k - 1
<1>0. /\ first \in Int /\ last \in Int /\ best \in Int /\ k \in Nat
      /\ p \in FilePages /\ s \in 0 .. N - 1 /\ s \in best .. best + last - first
      /\ p \notin now /\ s \notin there /\ p # -1 /\ s # -1
      /\ there \subseteq best .. best + last - first
  BY PageAssumption DEF IsPlace, FilePages
<1>1. b \in BufferOf(N) /\ Mapped(b) /\ Slots(b) = 0 .. N - 1
  BY BufferSlots DEF IsBuffer
<1>2. /\ first .. first + (k + 1) - 1 = now \cup {p}
      /\ best .. best + (k + 1) - 1 = there \cup {s}
  BY <1>0
<1>3. best + p - first = s /\ first + s - best = p
  BY <1>0
<1>4. \A x : x \in there => first + x - best \in now
  BY <1>0
<1>5. \A x \in there : b.in[x] \in {-1, first + x - best}
  BY <1>0 DEF Cleared
<1>6. b.in[s] \in {-1, p}
  BY <1>0, <1>3 DEF Cleared
<1> HIDE DEF now, there, p, s
<1>7. c = [at |-> [x \in FilePages |-> IF x \in now THEN best + x - first ELSE b.at[x]],
           in |-> [x \in 0 .. N - 1 |-> IF x \in there THEN first + x - best ELSE IF b.in[x] \in now THEN -1 ELSE b.in[x]],
           blob |-> [x \in 0 .. N - 1 |-> IF x \in there THEN first + x - best ELSE b.blob[x]]]
  BY <1>1 DEF Placed, now, there
<1>8. d = [at |-> [x \in FilePages |-> IF x \in now \cup {p} THEN best + x - first ELSE b.at[x]],
           in |-> [x \in 0 .. N - 1 |-> IF x \in there \cup {s} THEN first + x - best ELSE IF b.in[x] \in now \cup {p} THEN -1 ELSE b.in[x]],
           blob |-> [x \in 0 .. N - 1 |-> IF x \in there \cup {s} THEN first + x - best ELSE b.blob[x]]]
  BY <1>1, <1>2 DEF Placed
<1> HIDE DEF c, d
<1> DEFINE moved == [t \in 0 .. N - 1 |-> IF t = c.at[p] /\ t # s THEN -1 ELSE c.in[t]]
           from == IF c.at[p] = -1 THEN p ELSE c.blob[c.at[p]]
<1>9. Fill(c, p, s) = [at |-> [c.at EXCEPT ![p] = s], in |-> [moved EXCEPT ![s] = p], blob |-> [c.blob EXCEPT ![s] = from]]
  <2>1. Slots(c) = 0 .. N - 1
    BY <1>7 DEF Slots
  <2>2. c = [at |-> c.at, in |-> c.in, blob |-> c.blob]
    BY <1>7
  <2>3. Fill(c, p, s) = [c EXCEPT !.blob[s] = from, !.at[p] = s, !.in = [moved EXCEPT ![s] = p]]
    BY <2>1 DEF Fill
  <2> HIDE DEF moved, from
  <2> QED BY <2>2, <2>3, SetAll
<1>10. c.at[p] = b.at[p]
  BY <1>0, <1>7
<1>11. from = p
  <2>1. CASE b.at[p] = -1
    BY <2>1, <1>10
  <2>2. CASE b.at[p] # -1
    <3>1. b.at[p] \in 0 .. N - 1 /\ b.in[b.at[p]] = p /\ b.blob[b.at[p]] = p
      BY <2>2, <1>0, <1>1 DEF BufferOf, Mapped
    <3>2. b.at[p] \notin there
      BY <3>1, <1>0, <1>4, <1>5
    <3> QED BY <3>1, <3>2, <2>2, <1>7, <1>10
  <2> QED BY <2>1, <2>2
<1>12. [c.at EXCEPT ![p] = s] = d.at
  BY <1>0, <1>3, <1>7, <1>8
<1>13. [c.blob EXCEPT ![s] = from] = d.blob
  BY <1>0, <1>3, <1>7, <1>8, <1>11
<1>14. [moved EXCEPT ![s] = p] = d.in
  <2>1. ASSUME NEW t \in 0 .. N - 1 PROVE [moved EXCEPT ![s] = p][t] = d.in[t]
    <3>1. CASE t = s
      BY <3>1, <1>0, <1>3, <1>8
    <3>2. CASE t # s /\ t = b.at[p]
      <4>1. b.in[t] = p
        BY <3>2, <1>0, <1>1 DEF BufferOf, Mapped
      <4>2. t \notin there
        BY <4>1, <1>0, <1>4, <1>5
      <4> QED BY <4>1, <4>2, <3>2, <1>8, <1>10
    <3>3. CASE t # s /\ t # b.at[p]
      <4>1. b.in[t] # p
        BY <3>3, <1>0, <1>1 DEF Mapped
      <4> QED BY <4>1, <3>3, <1>7, <1>8, <1>10
    <3> QED BY <3>1, <3>2, <3>3
  <2> QED BY <2>1, <1>8
<1>15. d = [at |-> d.at, in |-> d.in, blob |-> d.blob]
  BY <1>8
<1> QED BY <1>9, <1>12, <1>13, <1>14, <1>15 DEF c, d, p, s

\* And so do the first n: the function's own equation decides it, as the pages
\* that are placed satisfy it.
LEMMA FilledIs ==
  ASSUME NEW N \in Nat, NEW b, IsBuffer(b, N), NEW best, NEW first, NEW last, IsPlace(best, first, last, N),
         NEW n \in 0 .. last - first + 1
  PROVE  Filled(b, best, first, last, n) = Placed(Evicted(b, best, first, last), best, first, n)
<1> DEFINE e == Evicted(b, best, first, last)
           step(f) == [k \in 0 .. n |-> IF k = 0 THEN e ELSE Fill(f[k - 1], first + k - 1, best + k - 1)]
           filled == CHOOSE f : f = step(f)
           placed == [k \in 0 .. n |-> Placed(e, best, first, k)]
<1>0. /\ first \in Int /\ last \in Int /\ best \in Int /\ n \in Nat
      /\ \A k \in 0 .. n : k # 0 => k - 1 \in 0 .. n /\ k - 1 \in 0 .. last - first /\ (k - 1) + 1 = k
      /\ \A k \in 0 .. n : first + k - 1 = first + (k - 1) /\ best + k - 1 = best + (k - 1)
  BY PageAssumption DEF IsPlace, FilePages
<1>1. IsBuffer(e, N) /\ Cleared(e, best, first, last)
  BY EvictedIs
<1>2. Placed(e, best, first, 0) = e
  <2>1. e = [at |-> e.at, in |-> e.in, blob |-> e.blob] /\ Slots(e) = 0 .. N - 1
        /\ e.at = [p \in FilePages |-> e.at[p]] /\ e.in = [s \in 0 .. N - 1 |-> e.in[s]]
        /\ e.blob = [s \in 0 .. N - 1 |-> e.blob[s]]
    BY <1>1, BufferSlots DEF IsBuffer, BufferOf
  <2>2. first .. first + 0 - 1 = {} /\ best .. best + 0 - 1 = {}
    BY <1>0
  <2> HIDE DEF e
  <2>3. Placed(e, best, first, 0)
          = [at |-> [p \in FilePages |-> e.at[p]], in |-> [s \in 0 .. N - 1 |-> e.in[s]],
             blob |-> [s \in 0 .. N - 1 |-> e.blob[s]]]
    BY <2>1, <2>2 DEF Placed
  <2> QED BY <2>1, <2>3
<1> HIDE DEF e
<1>3. \A k \in 0 .. n : k # 0 => Fill(Placed(e, best, first, k - 1), first + k - 1, best + k - 1) = Placed(e, best, first, k)
  <2> TAKE k \in 0 .. n
  <2> HAVE k # 0
  <2> DEFINE j == k - 1
  <2>1. j \in 0 .. last - first /\ j + 1 = k /\ first + k - 1 = first + j /\ best + k - 1 = best + j
    BY <1>0
  <2> HIDE DEF j
  <2>2. Fill(Placed(e, best, first, j), first + j, best + j) = Placed(e, best, first, j + 1)
    BY <2>1, <1>1, FillPlaces
  <2> QED BY <2>1, <2>2 DEF j
<1>4. placed = step(placed)
  <2>1. \A k \in 0 .. n : placed[k] = IF k = 0 THEN e ELSE Fill(placed[k - 1], first + k - 1, best + k - 1)
    <3> TAKE k \in 0 .. n
    <3>1. CASE k = 0
      BY <3>1, <1>2
    <3>2. CASE k # 0
      <4>1. placed[k - 1] = Placed(e, best, first, k - 1) /\ placed[k] = Placed(e, best, first, k)
        BY <3>2, <1>0
      <4> QED BY <4>1, <3>2, <1>3
    <3> QED BY <3>1, <3>2
  <2> HIDE DEF placed
  <2>2. placed = [k \in 0 .. n |-> placed[k]]
    BY DEF placed
  <2> QED BY <2>1, <2>2
<1>5. filled = step(filled)
  <2> HIDE DEF placed, step
  <2> QED BY <1>4
<1> HIDE DEF filled
<1>6. filled[0] = e /\ \A k \in 0 .. n : k # 0 => filled[k] = Fill(filled[k - 1], first + k - 1, best + k - 1)
  BY <1>0, <1>5
<1> DEFINE others == {k \in 0 .. n : filled[k] # Placed(e, best, first, k)}
<1>7. ASSUME others # {} PROVE FALSE
  <2>1. others \subseteq Nat
    OBVIOUS
  <2>2. PICK k \in others : \A j \in others : k <= j
    BY <1>7, <2>1, LeastOne
  <2>3. k \in 0 .. n /\ filled[k] # Placed(e, best, first, k)
    BY <2>2
  <2>4. k # 0
    BY <2>3, <1>2, <1>6
  <2>5. k - 1 \in 0 .. n /\ k - 1 \notin others
    BY <2>2, <2>3, <2>4, <1>0
  <2>6. filled[k - 1] = Placed(e, best, first, k - 1)
    BY <2>5
  <2> QED BY <2>3, <2>4, <2>6, <1>3, <1>6
<1>8. filled[n] = Placed(e, best, first, n)
  BY <1>7, <1>0
<1> QED BY <1>8 DEF filled, Filled, e

\* What is kept of the buffer, its counter and the last answer.
IsPages == (\E N \in Nat : IsBuffer(buffer, N)) /\ rr_counter \in Nat /\ PagesInOrder

\* A page that is in no slot, whatever was in the slot it was read to.
LEMMA FailedIs ==
  ASSUME NEW N \in Nat, NEW b, IsBuffer(b, N), NEW best, NEW first, NEW last, IsPlace(best, first, last, N),
         Cleared(b, best, first, last), NEW n \in 0 .. last - first,
         Placed(b, best, first, n).at[first + n] = -1
  PROVE  IsBuffer([Placed(b, best, first, n) EXCEPT !.blob[best + n] = -1], N)
<1> DEFINE c == Placed(b, best, first, n)
           s == best + n
           d == [c EXCEPT !.blob[s] = -1]
<1>0. /\ first + n \in FilePages /\ s \in 0 .. N - 1 /\ s \in best .. best + last - first
      /\ first + n \notin first .. first + n - 1 /\ s \notin best .. best + n - 1
      /\ first + s - best = first + n /\ -1 \notin FilePages /\ -1 \notin 0 .. N - 1 /\ n \in 0 .. last - first + 1
  BY PageAssumption DEF IsPlace, FilePages
<1>1. IsBuffer(c, N)
  BY <1>0, PlacedIs
<1>2. b.at[first + n] = -1
  BY <1>0 DEF Placed
<1>3. b.in[s] = -1
  <2>1. b.in[s] \in {-1, first + n}
    BY <1>0 DEF Cleared
  <2>2. s \in Slots(b) /\ (b.in[s] # -1 => b.at[b.in[s]] = s)
    BY <1>0, BufferSlots DEF IsBuffer, Mapped
  <2> QED BY <2>1, <2>2, <1>0, <1>2
<1>4. c.in[s] = -1
  <2>1. s \in Slots(b)
    BY <1>0, BufferSlots DEF IsBuffer
  <2>2. c.in[s] = IF b.in[s] \in first .. first + n - 1 THEN -1 ELSE b.in[s]
    BY <2>1, <1>0 DEF Placed
  <2> QED BY <2>2, <1>3
<1> HIDE DEF c, s
<1>5. c \in BufferOf(N) /\ Mapped(c) /\ c = [at |-> c.at, in |-> c.in, blob |-> c.blob]
  BY <1>1 DEF IsBuffer, BufferOf
<1>6. d = [at |-> c.at, in |-> c.in, blob |-> [c.blob EXCEPT ![s] = -1]]
  BY <1>5
<1> HIDE DEF d
<1>7. d \in BufferOf(N)
  BY <1>5, <1>6 DEF BufferOf
<1>8. ASSUME NEW p \in FilePages, d.at[p] # -1 PROVE d.in[d.at[p]] = p /\ d.blob[d.at[p]] = p
  <2>1. c.at[p] # -1 /\ c.at[p] \in 0 .. N - 1 /\ c.in[c.at[p]] = p /\ c.blob[c.at[p]] = p
    BY <1>5, <1>6, <1>8 DEF BufferOf, Mapped
  <2>2. c.at[p] # s
    BY <2>1, <1>0, <1>4
  <2>3. c.blob \in [0 .. N - 1 -> FilePages \cup {-1}]
    BY <1>5 DEF BufferOf
  <2> QED BY <2>1, <2>2, <2>3, <1>6
<1>9. \A t \in Slots(d) : d.in[t] # -1 => d.at[d.in[t]] = t
  BY <1>5, <1>6 DEF Mapped, Slots
<1> QED BY <1>7, <1>8, <1>9 DEF IsBuffer, Mapped, d, c, s

LEMMA LoadIs ==
  ASSUME NEW N \in Nat, NEW b, IsBuffer(b, N), NEW first \in FilePages, NEW last \in FilePages, first <= last,
         last - first + 1 <= N, rr_counter \in Nat, Load(b, first, last)
  PROVE  IsPages'
<1> DEFINE best == Best(b, first, last)
           e == Evicted(b, best, first, last)
           w == last - first
<1>1. IsPlace(best, first, last, N)
  BY BestIsPlace
<1>2. IsBuffer(e, N) /\ Cleared(e, best, first, last)
  BY <1>1, EvictedIs
<1>3. first \in Int /\ last \in Int /\ best \in Int /\ w \in Nat /\ w + 1 \in 0 .. last - first + 1
      /\ \A n \in 0 .. w : n \in 0 .. last - first + 1
  BY <1>1, PageAssumption DEF IsPlace, FilePages
<1>4. rr_counter' \in Nat
  <2> DEFINE x == IF Thrashing(b, first, last) THEN rr_counter + 1 ELSE rr_counter
  <2>1. x \in Nat /\ rr_counter' = x % RRPeriod
    BY DEF Load
  <2> HIDE DEF x
  <2> QED BY <2>1, PageAssumption
<1>5. ReadAt(b, best, first, last)
  BY DEF Load
<1>6. \A n \in 0 .. w + 1 : Filled(b, best, first, last, n) = Placed(e, best, first, n)
  BY <1>1, FilledIs
<1> HIDE DEF best
<1>7. CASE /\ buffer' = Filled(b, best, first, last, last - first + 1)
           /\ loaded' = [first |-> first, last |-> last, slot |-> best]
  <2>1. buffer' = Placed(e, best, first, w + 1)
    BY <1>3, <1>6, <1>7
  <2>2. IsBuffer(buffer', N)
    BY <2>1, <1>1, <1>2, <1>3, PlacedIs
  <2>3. ASSUME NEW p \in first .. last PROVE buffer'.blob[best + p - first] = p
    <3> DEFINE s == best + p - first
    <3>1. s \in best .. best + (w + 1) - 1 /\ first + s - best = p /\ s \in 0 .. N - 1
      BY <1>1, <1>3 DEF IsPlace
    <3>2. s \in Slots(e)
      BY <3>1, <1>2, BufferSlots DEF IsBuffer
    <3> HIDE DEF s
    <3>3. buffer'.blob[s] = p
      BY <2>1, <3>1, <3>2 DEF Placed
    <3> QED BY <3>3 DEF s
  <2>4. PagesInOrder'
    BY <2>3, <1>7 DEF PagesInOrder
  <2> QED BY <2>2, <2>4, <1>4 DEF IsPages
<1>8. CASE \E n \in 0 .. last - first :
             LET c == Filled(b, best, first, last, n)
             IN  /\ c.at[first + n] = -1
                 /\ buffer' = [c EXCEPT !.blob[best + n] = -1]
                 /\ loaded' = [first |-> first, last |-> last, slot |-> -1]
  <2>1. PICK n \in 0 .. last - first :
          /\ Filled(b, best, first, last, n).at[first + n] = -1
          /\ buffer' = [Filled(b, best, first, last, n) EXCEPT !.blob[best + n] = -1]
          /\ loaded' = [first |-> first, last |-> last, slot |-> -1]
    BY <1>8
  <2>2. Filled(b, best, first, last, n) = Placed(e, best, first, n)
    BY <1>3, <1>6
  <2> HIDE DEF e
  <2>3. IsBuffer(buffer', N)
    BY <2>1, <2>2, <1>1, <1>2, FailedIs
  <2>4. PagesInOrder'
    BY <2>1 DEF PagesInOrder
  <2> QED BY <2>3, <2>4, <1>4 DEF IsPages
<1> QED BY <1>5, <1>7, <1>8 DEF ReadAt

LEMMA StaysPages ==
  ASSUME IsPages, [PageNext]_pageVars
  PROVE  IsPages'
<1>1. CASE UNCHANGED pageVars
  BY <1>1 DEF pageVars, IsPages, PagesInOrder
<1>2. CASE PageNext
  <2>1. PICK first \in FilePages, last \in FilePages :
          last - first \in 0 .. MaxRange - 1 /\ repopagestore_load_page_range(first, last)
    BY <1>2 DEF PageNext
  <2>2. PICK N \in Nat : IsBuffer(buffer, N)
    BY DEF IsPages
  <2>3. first \in Int /\ last \in Int /\ first <= last /\ last - first + 1 \in Nat \ {0} /\ first .. last \subseteq FilePages
    BY <2>1, PageAssumption DEF FilePages
  <2>4. CASE Consecutive(buffer, first, last)
    <3>1. loaded' = [first |-> first, last |-> last, slot |-> buffer.at[first]] /\ UNCHANGED <<buffer, rr_counter>>
      BY <2>1, <2>4 DEF repopagestore_load_page_range
    <3>2. ASSUME NEW p \in first .. last PROVE buffer.blob[buffer.at[first] + p - first] = p
      <4>1. buffer.at[p] # -1 /\ buffer.at[p] = buffer.at[first] + p - first
        BY <2>4 DEF Consecutive
      <4>2. buffer.blob[buffer.at[p]] = p
        BY <4>1, <2>2, <2>3 DEF IsBuffer, Mapped
      <4> QED BY <4>1, <4>2
    <3>3. PagesInOrder'
      BY <3>1, <3>2 DEF PagesInOrder
    <3> QED BY <3>1, <3>3 DEF IsPages
  <2>5. CASE ~Consecutive(buffer, first, last)
    <3> DEFINE b == Enlarged(buffer, last - first + 1)
    <3>1. PICK M \in Nat : last - first + 1 <= M /\ IsBuffer(b, M)
      BY <2>2, <2>3, EnlargedIs
    <3>2. Load(b, first, last)
      BY <2>1, <2>5 DEF repopagestore_load_page_range
    <3> HIDE DEF b
    <3> QED BY <2>3, <3>1, <3>2, LoadIs DEF IsPages
  <2> QED BY <2>4, <2>5
<1> QED BY <1>1, <1>2

\* Whichever pages are asked for in whatever order, and wherever reading the file
\* fails: the buffer has what it is said to have, and an answer is the pages that
\* were asked for (src/repopage.c).
THEOREM PagesAreSound == PageSpec => []PagesSound
<1>1. PageInit => IsPages
  <2> SUFFICES ASSUME PageInit PROVE IsPages
    OBVIOUS
  <2>1. 0 .. 0 - 1 = {}
    OBVIOUS
  <2>2. buffer \in BufferOf(0)
    BY <2>1 DEF PageInit, BufferOf
  <2>3. Mapped(buffer)
    BY DEF PageInit, Mapped, Slots
  <2> QED BY <2>2, <2>3 DEF PageInit, IsPages, IsBuffer, PagesInOrder
<1>2. IsPages /\ [PageNext]_pageVars => IsPages'
  BY StaysPages
<1>3. IsPages => PagesSound
  BY DEF IsPages, IsBuffer, Mapped, PagesSound, PagesMapped
<1> QED BY <1>1, <1>2, <1>3, PTL DEF PageSpec

----------------------------------------------------------------------------

(***************************************************************************)
(* Edges.  Element te has L[te] pairs, of to[te][n] and ty[te][n], and the *)
(* array has S cells.                                                      *)
(***************************************************************************)

Cell(d, te, n) == d.edges[te] + 2 * n

Arrays(S) == [edges : [Tes -> Nat], edgedata : [0 .. S - 1 -> Nat]]

\* Where the pairs are: behind one another with a zero at their end, and no two
\* lists overlap. Empty ones are at cell 0.
Packed(d, S, L, to, ty) ==
  /\ S \in Nat \ {0} /\ d \in Arrays(S) /\ d.edgedata[0] = 0
  /\ L \in [Tes -> Nat] /\ to \in [Tes -> [Nat -> Tes]] /\ ty \in [Tes -> [Nat -> Nat]]
  /\ \A te \in Tes : (d.edges[te] = 0 <=> L[te] = 0) /\ Cell(d, te, L[te]) < S /\ d.edgedata[Cell(d, te, L[te])] = 0
  /\ \A te \in Tes : \A n \in 0 .. L[te] - 1 :
       d.edgedata[Cell(d, te, n)] = to[te][n] /\ d.edgedata[Cell(d, te, n) + 1] = ty[te][n]
  /\ \A te, oe \in Tes : te # oe /\ L[te] # 0 /\ L[oe] # 0 =>
       Cell(d, te, L[te]) < d.edges[oe] \/ Cell(d, oe, L[oe]) < d.edges[te]

\* What was asked for.
Triples(as) == as \subseteq Tes \X Tes \X Bits
Asked(as, te, k, b) == <<te, k, b>> \in as
With(as, te, k, b) == as \cup {<<te, k, b>>}

\* Element te has a pair of element k and a type with bit b.
HasPair(L, to, ty, te, k, b) == \E n \in 0 .. L[te] - 1 : to[te][n] = k /\ Has(ty[te][n], b)

\* Which pairs there are: those that were asked for, one for each other element.
Graph(L, to, ty, as) ==
  /\ \A te \in Tes : \A m, n \in 0 .. L[te] - 1 : to[te][m] = to[te][n] => m = n
  /\ \A te \in Tes : \A n \in 0 .. L[te] - 1 : \E b \in Bits : Has(ty[te][n], b)
  /\ Triples(as)
  /\ \A te, k \in Tes : \A b \in Bits : Asked(as, te, k, b) <=> HasPair(L, to, ty, te, k, b)

LEMMA AskedOne ==
  ASSUME NEW as, Triples(as), NEW te \in Tes, NEW k \in Tes, NEW b \in Bits
  PROVE  /\ Triples(With(as, te, k, b))
         /\ \A x, y \in Tes : \A c \in Bits : Asked(With(as, te, k, b), x, y, c) <=> Asked(as, x, y, c) \/ (x = te /\ y = k /\ c = b)
<1>1. <<te, k, b>> \in Tes \X Tes \X Bits
  OBVIOUS
<1>2. Triples(With(as, te, k, b))
  <2> DEFINE a == <<te, k, b>>
             P == Tes \X Tes \X Bits
  <2>1. as \subseteq P /\ a \in P
    BY <1>1 DEF Triples
  <2> HIDE DEF a, P
  <2>2. as \cup {a} \subseteq P
    BY <2>1
  <2> QED BY <2>2 DEF Triples, With, a, P
<1>3. ASSUME NEW x \in Tes, NEW y \in Tes, NEW c \in Bits
      PROVE  Asked(With(as, te, k, b), x, y, c) <=> Asked(as, x, y, c) \/ (x = te /\ y = k /\ c = b)
  <2> DEFINE a == <<te, k, b>>
             z == <<x, y, c>>
  <2>1. z = a <=> x = te /\ y = k /\ c = b
    OBVIOUS
  <2> HIDE DEF a, z
  <2>2. z \in as \cup {a} <=> z \in as \/ z = a
    OBVIOUS
  <2> QED BY <2>1, <2>2 DEF Asked, With, a, z
<1> QED BY <1>2, <1>3

LEMMA SizeIs ==
  ASSUME NEW n \in Nat, NEW f, DOMAIN f = 0 .. n - 1 \/ DOMAIN f = 1 .. n
  PROVE  Size(f) = n
BY FS_Interval DEF Size

\* The cells of a list, and what they have.
LEMMA CellsOf ==
  ASSUME NEW d, NEW S, NEW L, NEW to, NEW ty, Packed(d, S, L, to, ty), NEW te \in Tes
  PROVE  /\ d.edges[te] \in Nat /\ L[te] \in Nat /\ S \in Nat /\ 2 * L[te] < S
         /\ DOMAIN d.edgedata = 0 .. S - 1 /\ Size(d.edgedata) = S
         /\ Cell(d, te, L[te]) \in 0 .. S - 1
         /\ \A n \in 0 .. L[te] : Cell(d, te, n) \in Nat /\ Cell(d, te, n) <= Cell(d, te, L[te])
         /\ \A n \in 0 .. L[te] - 1 : /\ Cell(d, te, n) + 1 < Cell(d, te, L[te])
                                      /\ d.edgedata[Cell(d, te, n)] \in Tes /\ d.edgedata[Cell(d, te, n)] # 0
                                      /\ d.edgedata[Cell(d, te, n) + 1] \in Nat
<1>1. d.edges[te] \in Nat /\ L[te] \in Nat /\ S \in Nat /\ DOMAIN d.edgedata = 0 .. S - 1
  BY DEF Packed, Arrays
<1>2. Size(d.edgedata) = S
  BY <1>1, SizeIs
<1>3. Cell(d, te, L[te]) < S
  BY DEF Packed
<1>4. 2 * L[te] < S /\ Cell(d, te, L[te]) \in 0 .. S - 1
  BY <1>1, <1>3 DEF Cell
<1>5. \A n \in 0 .. L[te] : Cell(d, te, n) \in Nat /\ Cell(d, te, n) <= Cell(d, te, L[te])
  BY <1>1 DEF Cell
<1>6. \A n \in 0 .. L[te] - 1 : Cell(d, te, n) + 1 < Cell(d, te, L[te])
  BY <1>1 DEF Cell
<1>7. \A n \in 0 .. L[te] - 1 :
        d.edgedata[Cell(d, te, n)] = to[te][n] /\ d.edgedata[Cell(d, te, n) + 1] = ty[te][n]
  BY DEF Packed
<1>8. \A n \in 0 .. L[te] - 1 : to[te][n] \in Tes /\ to[te][n] # 0 /\ ty[te][n] \in Nat
  <2>1. to[te] \in [Nat -> Tes] /\ ty[te] \in [Nat -> Nat]
    BY DEF Packed
  <2>2. \A n \in 0 .. L[te] - 1 : n \in Nat
    BY <1>1
  <2>3. 0 \notin Tes
    BY DEF Tes
  <2> QED BY <2>1, <2>2, <2>3
<1> QED BY <1>1, <1>2, <1>4, <1>5, <1>6, <1>7, <1>8

\* The walk along a list ends at its zero.
LEMMA EndIs ==
  ASSUME NEW d, NEW S, NEW L, NEW to, NEW ty, Packed(d, S, L, to, ty), NEW te \in Tes
  PROVE  EndOf(d, te) = Cell(d, te, L[te])
<1> DEFINE ends == {n \in 0 .. Size(d.edgedata) : d.edges[te] + 2 * n \in DOMAIN d.edgedata /\ d.edgedata[d.edges[te] + 2 * n] = 0}
           l == L[te]
<1>1. ends = {n \in 0 .. S : Cell(d, te, n) \in 0 .. S - 1 /\ d.edgedata[Cell(d, te, n)] = 0}
  BY CellsOf DEF Cell
<1>2. l \in ends
  <2>1. d.edgedata[Cell(d, te, l)] = 0
    BY DEF Packed
  <2>2. l \in Nat /\ 2 * l < S /\ S \in Nat /\ Cell(d, te, l) \in 0 .. S - 1
    BY CellsOf
  <2>3. l \in 0 .. S
    BY <2>2
  <2> QED BY <1>1, <2>1, <2>2, <2>3
<1>3. ASSUME NEW n \in ends PROVE l <= n /\ n \in Nat
  <2>1. n \in Nat /\ d.edgedata[Cell(d, te, n)] = 0 /\ l \in Nat
    BY <1>1, CellsOf
  <2>2. n \notin 0 .. l - 1
    BY <2>1, CellsOf
  <2> QED BY <2>1, <2>2
<1> HIDE DEF ends
<1>4. l = CHOOSE n \in ends : \A m \in ends : n <= m
  <2> DEFINE x == CHOOSE n \in ends : \A m \in ends : n <= m
  <2>1. x \in ends /\ \A m \in ends : x <= m
    BY <1>2, <1>3
  <2> HIDE DEF x
  <2>2. x <= l /\ l <= x /\ x \in Nat /\ l \in Nat
    BY <2>1, <1>2, <1>3
  <2>3. x = l
    BY <2>2
  <2> QED BY <2>3 DEF x
<1> QED BY <1>4 DEF EndOf, ends, Cell

LEMMA PairsAre ==
  ASSUME NEW d, NEW S, NEW L, NEW to, NEW ty, Packed(d, S, L, to, ty), NEW te \in Tes
  PROVE  /\ PairsOf(d, te) = {Cell(d, te, n) : n \in 0 .. L[te] - 1}
         /\ EdgesOf(d, te) = {<<to[te][n], ty[te][n]>> : n \in 0 .. L[te] - 1}
<1> DEFINE e == d.edges[te]
           l == L[te]
<1>1. e \in Nat /\ l \in Nat /\ EndOf(d, te) = e + 2 * l
  BY CellsOf, EndIs DEF Cell
<1> HIDE DEF e, l
<1>2. {i \in e .. e + 2 * l - 1 : (i - e) % 2 = 0} = {e + 2 * n : n \in 0 .. l - 1}
  <2>1. ASSUME NEW i \in e .. e + 2 * l - 1, (i - e) % 2 = 0 PROVE \E n \in 0 .. l - 1 : i = e + 2 * n
    <3> DEFINE n == (i - e) \div 2
    <3>1. n \in 0 .. l - 1 /\ i = e + 2 * n
      BY <1>1, <2>1
    <3> QED BY <3>1
  <2>2. ASSUME NEW n \in 0 .. l - 1 PROVE e + 2 * n \in e .. e + 2 * l - 1 /\ (e + 2 * n - e) % 2 = 0
    BY <1>1
  <2> DEFINE A == {i \in e .. e + 2 * l - 1 : (i - e) % 2 = 0}
             B == {e + 2 * n : n \in 0 .. l - 1}
  <2>3. A \subseteq B
    BY <2>1
  <2>4. ASSUME NEW x \in B PROVE x \in A
    <3>1. PICK n \in 0 .. l - 1 : x = e + 2 * n
      OBVIOUS
    <3>2. x \in e .. e + 2 * l - 1 /\ x - e = 2 * n
      BY <3>1, <1>1
    <3>3. (2 * n) % 2 = 0
      OBVIOUS
    <3> QED BY <3>2, <3>3
  <2> HIDE DEF A, B
  <2>5. A = B
    BY <2>3, <2>4
  <2> QED BY <2>5 DEF A, B
<1>3. PairsOf(d, te) = {Cell(d, te, n) : n \in 0 .. L[te] - 1}
  BY <1>1, <1>2 DEF PairsOf, Cell, e, l
<1>4. \A n \in 0 .. L[te] - 1 : d.edgedata[Cell(d, te, n)] = to[te][n] /\ d.edgedata[Cell(d, te, n) + 1] = ty[te][n]
  BY DEF Packed
<1> QED BY <1>3, <1>4 DEF EdgesOf

\* The bits of types.
LEMMA HasBit ==
  ASSUME NEW b \in Bits, NEW c \in Bits
  PROVE  b \in Nat /\ (Has(b, c) <=> b = c)
<1>1. b \in {1, 2, 4, 8} /\ c \in {1, 2, 4, 8}
  BY EdgeAssumption
<1> QED BY <1>1 DEF Has

LEMMA HasOr ==
  ASSUME NEW t \in Nat, NEW b \in Bits, NEW c \in Bits
  PROVE  Or(t, b) \in Nat /\ (Has(Or(t, b), c) <=> Has(t, c) \/ c = b)
<1>1. b \in {1, 2, 4, 8} /\ c \in {1, 2, 4, 8}
  BY EdgeAssumption
<1>2. CASE b = 1
  <2>1. CASE c = 1 BY <1>2, <2>1 DEF Has, Or
  <2>2. CASE c = 2 BY <1>2, <2>2 DEF Has, Or
  <2>3. CASE c = 4 BY <1>2, <2>3 DEF Has, Or
  <2>4. CASE c = 8 BY <1>2, <2>4 DEF Has, Or
  <2> QED BY <1>1, <2>1, <2>2, <2>3, <2>4
<1>3. CASE b = 2
  <2>1. CASE c = 1 BY <1>3, <2>1 DEF Has, Or
  <2>2. CASE c = 2 BY <1>3, <2>2 DEF Has, Or
  <2>3. CASE c = 4 BY <1>3, <2>3 DEF Has, Or
  <2>4. CASE c = 8 BY <1>3, <2>4 DEF Has, Or
  <2> QED BY <1>1, <2>1, <2>2, <2>3, <2>4
<1>4. CASE b = 4
  <2>1. CASE c = 1 BY <1>4, <2>1 DEF Has, Or
  <2>2. CASE c = 2 BY <1>4, <2>2 DEF Has, Or
  <2>3. CASE c = 4 BY <1>4, <2>3 DEF Has, Or
  <2>4. CASE c = 8 BY <1>4, <2>4 DEF Has, Or
  <2> QED BY <1>1, <2>1, <2>2, <2>3, <2>4
<1>5. CASE b = 8
  <2>1. CASE c = 1 BY <1>5, <2>1 DEF Has, Or
  <2>2. CASE c = 2 BY <1>5, <2>2 DEF Has, Or
  <2>3. CASE c = 4 BY <1>5, <2>3 DEF Has, Or
  <2>4. CASE c = 8 BY <1>5, <2>4 DEF Has, Or
  <2> QED BY <1>1, <2>1, <2>2, <2>3, <2>4
<1> QED BY <1>1, <1>2, <1>3, <1>4, <1>5

\* What a list and the array are when the list has got a pair.
Grows(d, d2, S, T, L, to, ty, te, e2, k, t) ==
  /\ T \in Nat /\ S <= T /\ e2 \in Nat \ {0} /\ e2 + 2 * L[te] + 3 = T
  /\ d2.edges = [d.edges EXCEPT ![te] = e2]
  /\ d2.edgedata[e2 + 2 * L[te]] = k /\ d2.edgedata[e2 + 2 * L[te] + 1] = t /\ d2.edgedata[e2 + 2 * L[te] + 2] = 0
  /\ \A n \in 0 .. L[te] - 1 : d2.edgedata[e2 + 2 * n] = to[te][n] /\ d2.edgedata[e2 + 2 * n + 1] = ty[te][n]
  /\ \A c \in 0 .. S - 1 : c < e2 + 2 * L[te] => d2.edgedata[c] = d.edgedata[c]
  /\ \A oe \in Tes : oe # te /\ L[oe] # 0 => Cell(d, oe, L[oe]) < e2

LEMMA GrownPacked ==
  ASSUME NEW d, NEW S, NEW L, NEW to, NEW ty, Packed(d, S, L, to, ty), NEW te \in Tes, NEW k \in Tes, NEW t \in Nat,
         NEW d2, NEW T, NEW e2, d2 \in Arrays(T), Grows(d, d2, S, T, L, to, ty, te, e2, k, t)
  PROVE  Packed(d2, T, [L EXCEPT ![te] = L[te] + 1], [to EXCEPT ![te] = [to[te] EXCEPT ![L[te]] = k]],
                [ty EXCEPT ![te] = [ty[te] EXCEPT ![L[te]] = t]])
<1> DEFINE L2 == [L EXCEPT ![te] = L[te] + 1]
           to2 == [to EXCEPT ![te] = [to[te] EXCEPT ![L[te]] = k]]
           ty2 == [ty EXCEPT ![te] = [ty[te] EXCEPT ![L[te]] = t]]
           l == L[te]
<1>1. /\ L \in [Tes -> Nat] /\ to \in [Tes -> [Nat -> Tes]] /\ ty \in [Tes -> [Nat -> Nat]]
      /\ S \in Nat \ {0} /\ d \in Arrays(S) /\ d.edgedata[0] = 0
  BY DEF Packed
<1>2. l \in Nat /\ to[te] \in [Nat -> Tes] /\ ty[te] \in [Nat -> Nat]
  BY <1>1
<1>3. L2 \in [Tes -> Nat] /\ to2 \in [Tes -> [Nat -> Tes]] /\ ty2 \in [Tes -> [Nat -> Nat]]
  <2>1. L[te] + 1 \in Nat
    BY <1>2
  <2>2. [to[te] EXCEPT ![L[te]] = k] \in [Nat -> Tes] /\ [ty[te] EXCEPT ![L[te]] = t] \in [Nat -> Nat]
    BY <1>2
  <2>3. L2 \in [Tes -> Nat]
    BY <1>1, <2>1
  <2> DEFINE a == [to[te] EXCEPT ![L[te]] = k]
             b == [ty[te] EXCEPT ![L[te]] = t]
  <2> HIDE DEF a, b
  <2>4. [to EXCEPT ![te] = a] \in [Tes -> [Nat -> Tes]] /\ [ty EXCEPT ![te] = b] \in [Tes -> [Nat -> Nat]]
    BY <1>1, <2>2 DEF a, b
  <2> QED BY <2>3, <2>4 DEF a, b
<1>4. /\ T \in Nat /\ S <= T /\ e2 \in Nat \ {0} /\ e2 + 2 * l + 3 = T
      /\ d2.edges = [d.edges EXCEPT ![te] = e2]
      /\ d2.edgedata[e2 + 2 * l] = k /\ d2.edgedata[e2 + 2 * l + 1] = t /\ d2.edgedata[e2 + 2 * l + 2] = 0
      /\ \A n \in 0 .. l - 1 : d2.edgedata[e2 + 2 * n] = to[te][n] /\ d2.edgedata[e2 + 2 * n + 1] = ty[te][n]
      /\ \A c \in 0 .. S - 1 : c < e2 + 2 * l => d2.edgedata[c] = d.edgedata[c]
      /\ \A oe \in Tes : oe # te /\ L[oe] # 0 => Cell(d, oe, L[oe]) < e2
  BY DEF Grows
<1>5. d2.edges[te] = e2 /\ L2[te] = l + 1
      /\ \A oe \in Tes : oe # te => d2.edges[oe] = d.edges[oe] /\ L2[oe] = L[oe] /\ to2[oe] = to[oe] /\ ty2[oe] = ty[oe]
  BY <1>1, <1>4 DEF Arrays
<1>6. \A n \in 0 .. l - 1 : to2[te][n] = to[te][n] /\ ty2[te][n] = ty[te][n]
  BY <1>1, <1>2
<1>7. to2[te][l] = k /\ ty2[te][l] = t
  BY <1>1, <1>2
<1> HIDE DEF L2, to2, ty2, l
<1>8. \A oe \in Tes : oe # te => \A n : Cell(d2, oe, n) = Cell(d, oe, n)
  BY <1>5 DEF Cell
<1>9. \A n \in 0 .. l + 1 : Cell(d2, te, n) = e2 + 2 * n
  BY <1>5 DEF Cell
<1>10. T \in Nat \ {0} /\ d2.edgedata[0] = 0
  <2>1. T \in Nat /\ S <= T /\ e2 \in Nat \ {0} /\ S \in Nat \ {0} /\ l \in Nat
    BY <1>1, <1>2, <1>4
  <2>2. 0 \in 0 .. S - 1 /\ 0 < e2 + 2 * l /\ T \in Nat \ {0}
    BY <2>1
  <2> QED BY <2>2, <1>1, <1>4
<1>11. \A oe \in Tes : oe # te => \A c \in 0 .. Cell(d, oe, L[oe]) : d2.edgedata[c] = d.edgedata[c]
  <2> TAKE oe \in Tes
  <2> HAVE oe # te
  <2>1. Cell(d, oe, L[oe]) < e2
    <3>1. CASE L[oe] = 0
      <4>1. d.edges[oe] = 0
        BY <3>1 DEF Packed
      <4> QED BY <4>1, <3>1, <1>4 DEF Cell
    <3> QED BY <3>1, <1>4
  <2>2. Cell(d, oe, L[oe]) \in 0 .. S - 1
    BY CellsOf
  <2>3. \A c \in 0 .. Cell(d, oe, L[oe]) : c \in 0 .. S - 1 /\ c < e2 + 2 * l
    <3> DEFINE x == Cell(d, oe, L[oe])
    <3>1. x < e2 /\ x \in 0 .. S - 1 /\ e2 \in Nat /\ l \in Nat /\ S \in Nat
      BY <2>1, <2>2, <1>1, <1>2, <1>4
    <3> HIDE DEF x
    <3>2. \A c \in 0 .. x : c \in 0 .. S - 1 /\ c < e2 + 2 * l
      BY <3>1
    <3> QED BY <3>2 DEF x
  <2> QED BY <2>3, <1>4
<1>12. ASSUME NEW oe \in Tes
       PROVE  /\ (d2.edges[oe] = 0 <=> L2[oe] = 0) /\ Cell(d2, oe, L2[oe]) < T /\ d2.edgedata[Cell(d2, oe, L2[oe])] = 0
              /\ \A n \in 0 .. L2[oe] - 1 :
                   d2.edgedata[Cell(d2, oe, n)] = to2[oe][n] /\ d2.edgedata[Cell(d2, oe, n) + 1] = ty2[oe][n]
  <2>1. CASE oe = te
    <3>1. L2[te] # 0 /\ d2.edges[te] # 0
      BY <1>2, <1>4, <1>5
    <3>2. Cell(d2, te, L2[te]) = e2 + 2 * l + 2
      BY <1>2, <1>4, <1>5 DEF Cell
    <3>3. e2 + 2 * l + 2 < T
      BY <1>2, <1>4
    <3>4. ASSUME NEW n \in 0 .. L2[te] - 1
          PROVE  d2.edgedata[Cell(d2, te, n)] = to2[te][n] /\ d2.edgedata[Cell(d2, te, n) + 1] = ty2[te][n]
      <4>1. Cell(d2, te, n) = e2 + 2 * n
        BY <1>2, <1>5, <1>9
      <4>2. CASE n = l
        BY <4>1, <4>2, <1>4, <1>7
      <4>3. CASE n # l
        <5>1. n \in 0 .. l - 1
          BY <4>3, <1>2, <1>5
        <5> QED BY <5>1, <4>1, <1>4, <1>6
      <4> QED BY <4>2, <4>3
    <3> QED BY <2>1, <3>1, <3>2, <3>3, <3>4, <1>4
  <2>2. CASE oe # te
    <3>1. /\ (d.edges[oe] = 0 <=> L[oe] = 0) /\ Cell(d, oe, L[oe]) < S /\ d.edgedata[Cell(d, oe, L[oe])] = 0
          /\ \A n \in 0 .. L[oe] - 1 :
               d.edgedata[Cell(d, oe, n)] = to[oe][n] /\ d.edgedata[Cell(d, oe, n) + 1] = ty[oe][n]
      BY DEF Packed
    <3>2. Cell(d, oe, L[oe]) \in 0 .. Cell(d, oe, L[oe]) /\ Cell(d, oe, L[oe]) \in 0 .. S - 1
      BY CellsOf
    <3>3. \A n \in 0 .. L[oe] - 1 :
            Cell(d, oe, n) \in 0 .. Cell(d, oe, L[oe]) /\ Cell(d, oe, n) + 1 \in 0 .. Cell(d, oe, L[oe])
      <4>1. L[oe] \in Nat /\ d.edges[oe] \in Nat
        BY CellsOf
      <4> QED BY <4>1 DEF Cell
    <3>4. L2[oe] = L[oe] /\ to2[oe] = to[oe] /\ ty2[oe] = ty[oe] /\ d2.edges[oe] = d.edges[oe]
          /\ \A n : Cell(d2, oe, n) = Cell(d, oe, n)
      BY <2>2, <1>5, <1>8
    <3>5. \A c \in 0 .. Cell(d, oe, L[oe]) : d2.edgedata[c] = d.edgedata[c]
      BY <2>2, <1>11
    <3>6. Cell(d, oe, L[oe]) < T
      BY <3>2, <1>1, <1>4
    <3> QED BY <3>1, <3>2, <3>3, <3>4, <3>5, <3>6
  <2> QED BY <2>1, <2>2
<1>13. ASSUME NEW x \in Tes, NEW y \in Tes, x # y, L2[x] # 0, L2[y] # 0
       PROVE  Cell(d2, x, L2[x]) < d2.edges[y] \/ Cell(d2, y, L2[y]) < d2.edges[x]
  <2>1. CASE x # te /\ y # te
    <3>1. Cell(d, x, L[x]) < d.edges[y] \/ Cell(d, y, L[y]) < d.edges[x]
      BY <2>1, <1>5, <1>13 DEF Packed
    <3> QED BY <3>1, <2>1, <1>5, <1>8
  <2>2. CASE x = te /\ y # te
    BY <2>2, <1>4, <1>5, <1>8, <1>13
  <2>3. CASE x # te /\ y = te
    BY <2>3, <1>4, <1>5, <1>8, <1>13
  <2> QED BY <2>1, <2>2, <2>3, <1>13
<1>14. Packed(d2, T, L2, to2, ty2)
  BY <1>3, <1>10, <1>12, <1>13 DEF Packed
<1> QED BY <1>14 DEF L2, to2, ty2

\* Writing cells at the end of an array or over it.
IsArray(a, S) == S \in Nat /\ a \in [0 .. S - 1 -> Nat]
IsCells(cells, m) == m \in Nat /\ cells \in [1 .. m -> Nat]
Longer(m, n) == IF m > n THEN m ELSE n

IsWritten(w, a, S, i, m, cells) ==
  /\ IsArray(w, Longer(i + m, S))
  /\ \A j \in 1 .. m : w[i + j - 1] = cells[j]
  /\ \A k \in 0 .. S - 1 : k \notin i .. i + m - 1 => w[k] = a[k]

LEMMA WrittenIs ==
  ASSUME NEW a, NEW S, IsArray(a, S), NEW cells, NEW m, IsCells(cells, m), NEW i \in 0 .. S
  PROVE  IsWritten(Written(a, i, cells), a, S, i, m, cells)
<1> DEFINE T == Longer(i + m, S)
<1>1. S \in Nat /\ a \in [0 .. S - 1 -> Nat] /\ m \in Nat /\ cells \in [1 .. m -> Nat]
  BY DEF IsArray, IsCells
<1>2. T \in Nat /\ S <= T /\ i + m <= T /\ T = IF i + m > S THEN i + m ELSE S
  BY <1>1 DEF Longer
<1> HIDE DEF T
<1>3. Written(a, i, cells) = [k \in 0 .. T - 1 |-> IF k \in i .. i + m - 1 THEN cells[k - i + 1] ELSE a[k]]
  <2>1. Size(a) = S /\ Size(cells) = m
    BY <1>1, SizeIs
  <2> QED BY <2>1, <1>2 DEF Written
<1>4. \A k \in 0 .. T - 1 : k \in i .. i + m - 1 => k - i + 1 \in 1 .. m
  BY <1>1, <1>2
<1>5. \A k \in 0 .. T - 1 : k \notin i .. i + m - 1 => k \in 0 .. S - 1
  BY <1>1, <1>2
<1>6. Written(a, i, cells) \in [0 .. T - 1 -> Nat]
  <2>1. \A k \in 0 .. T - 1 : (IF k \in i .. i + m - 1 THEN cells[k - i + 1] ELSE a[k]) \in Nat
    BY <1>1, <1>4, <1>5
  <2> QED BY <2>1, <1>3
<1>7. ASSUME NEW j \in 1 .. m PROVE i + j - 1 \in 0 .. T - 1 /\ i + j - 1 \in i .. i + m - 1 /\ (i + j - 1) - i + 1 = j
  BY <1>1, <1>2
<1>8. \A k \in 0 .. S - 1 : k \in 0 .. T - 1
  BY <1>1, <1>2
<1>9. \A j \in 1 .. m : Written(a, i, cells)[i + j - 1] = cells[j]
  BY <1>3, <1>7
<1>10. \A k \in 0 .. S - 1 : k \notin i .. i + m - 1 => Written(a, i, cells)[k] = a[k]
  BY <1>3, <1>8
<1> QED BY <1>2, <1>6, <1>9, <1>10 DEF IsWritten, IsArray, T

NewList(d, te, e, a) == [edges |-> [d.edges EXCEPT ![te] = e], edgedata |-> a]

LEMMA NewListIs ==
  ASSUME NEW S, NEW d \in Arrays(S), NEW te \in Tes, NEW e \in Nat, NEW T, NEW a, IsArray(a, T)
  PROVE  /\ NewList(d, te, e, a) \in Arrays(T)
         /\ NewList(d, te, e, a).edges = [d.edges EXCEPT ![te] = e] /\ NewList(d, te, e, a).edgedata = a
BY DEF Arrays, IsArray, NewList

\* A pair, and the zero behind it.
Pair(k, t) == <<k, t, 0>>

LEMMA PairIs ==
  ASSUME NEW k \in Tes, NEW t \in Nat
  PROVE  /\ IsCells(Pair(k, t), 3)
         /\ Pair(k, t)[1] = k /\ Pair(k, t)[2] = t /\ Pair(k, t)[3] = 0
BY DEF Pair, Tes, IsCells

\* The last list grows where it is (addteedge, the tail of the array).
LEMMA GrowsAtEnd ==
  ASSUME NEW d, NEW S, NEW L, NEW to, NEW ty, Packed(d, S, L, to, ty), NEW te \in Tes, NEW k \in Tes, NEW t \in Nat,
         Cell(d, te, L[te]) + 1 = S
  PROVE  \E T, e2 : Grow(d, te, k, t) \in Arrays(T) /\ Grows(d, Grow(d, te, k, t), S, T, L, to, ty, te, e2, k, t)
<1> DEFINE end == Cell(d, te, L[te])
           l == L[te]
           i == IF end = 0 THEN 1 ELSE end
           e2 == IF end = 0 THEN 1 ELSE d.edges[te]
           a == Written(d.edgedata, i, Pair(k, t))
           d2 == NewList(d, te, e2, a)
           T == i + 3
<1>1. /\ S \in Nat /\ d \in Arrays(S) /\ d.edgedata \in [0 .. S - 1 -> Nat]
      /\ (d.edges[te] = 0 <=> l = 0)
      /\ d = [edges |-> d.edges, edgedata |-> d.edgedata] /\ d.edges \in [Tes -> Nat]
  BY DEF Packed, Arrays
<1>2. d.edges[te] \in Nat /\ l \in Nat /\ end = d.edges[te] + 2 * l /\ DOMAIN d.edgedata = 0 .. S - 1
      /\ Size(d.edgedata) = S /\ EndOf(d, te) = end
  BY CellsOf, EndIs DEF Cell
<1>3. Grow(d, te, k, t) = d2
  <2>1. Grow(d, te, k, t)
          = [d EXCEPT !.edges[te] = IF end = 0 THEN 1 ELSE @, !.edgedata = Written(@, i, <<k, t, 0>>)]
    BY <1>2 DEF Grow
  <2> QED BY <2>1, <1>1 DEF Pair, NewList
<1>0. end + 1 = S
  OBVIOUS
<1> HIDE DEF end, l
<1>4. /\ e2 \in Nat \ {0} /\ e2 + 2 * l = i /\ i \in Nat /\ i \in 0 .. S /\ e2 \in Nat
      /\ T = Longer(i + 3, S) /\ T \in Nat /\ S <= T /\ i <= S
  <2>1. CASE end = 0
    BY <2>1, <1>0, <1>1, <1>2 DEF Longer
  <2>2. CASE end # 0
    BY <2>2, <1>0, <1>1, <1>2 DEF Longer
  <2> QED BY <2>1, <2>2
<1> HIDE DEF i, T, e2
<1>5. IsWritten(a, d.edgedata, S, i, 3, Pair(k, t))
  <2>1. IsArray(d.edgedata, S) /\ IsCells(Pair(k, t), 3) /\ i \in 0 .. S
    BY <1>1, <1>4, PairIs DEF IsArray
  <2> QED BY <2>1, WrittenIs
<1> HIDE DEF a
<1>6. /\ \A j \in 1 .. 3 : a[i + j - 1] = Pair(k, t)[j]
      /\ \A c \in 0 .. S - 1 : c \notin i .. i + 3 - 1 => a[c] = d.edgedata[c]
      /\ IsArray(a, T)
  BY <1>4, <1>5 DEF IsWritten
<1>7. d2 \in Arrays(T) /\ d2.edges = [d.edges EXCEPT ![te] = e2] /\ d2.edgedata = a
  BY <1>1, <1>4, <1>6, NewListIs
<1> HIDE DEF d2
<1>8. a[i] = k /\ a[i + 1] = t /\ a[i + 2] = 0
  <2>1. i + 1 - 1 = i /\ i + 2 - 1 = i + 1 /\ i + 3 - 1 = i + 2
    BY <1>4
  <2>2. a[i + 1 - 1] = k /\ a[i + 2 - 1] = t /\ a[i + 3 - 1] = 0
    BY <1>6, PairIs
  <2> QED BY <2>1, <2>2
<1>9. \A c \in 0 .. S - 1 : c < i => a[c] = d.edgedata[c]
  BY <1>4, <1>6
<1>10. ASSUME NEW n \in 0 .. l - 1 PROVE a[e2 + 2 * n] = to[te][n] /\ a[e2 + 2 * n + 1] = ty[te][n]
  <2>1. d.edges[te] # 0 /\ e2 = d.edges[te] /\ i = end
    BY <1>1, <1>2, <1>10 DEF e2, i
  <2>2. d.edgedata[e2 + 2 * n] = to[te][n] /\ d.edgedata[e2 + 2 * n + 1] = ty[te][n]
    BY <2>1 DEF Packed, Cell, l
  <2>3. e2 + 2 * n \in 0 .. S - 1 /\ e2 + 2 * n < i /\ e2 + 2 * n + 1 \in 0 .. S - 1 /\ e2 + 2 * n + 1 < i
    <3>1. e2 \in Nat /\ l \in Nat /\ S \in Nat /\ i = e2 + 2 * l /\ i <= S
      BY <1>1, <1>2, <1>4
    <3>2. n \in Nat /\ n + 1 <= l
      BY <3>1
    <3> QED BY <3>1, <3>2
  <2> QED BY <2>2, <2>3, <1>9
<1>11. ASSUME NEW oe \in Tes, oe # te, L[oe] # 0 PROVE Cell(d, oe, L[oe]) < e2
  <2> DEFINE x == Cell(d, oe, L[oe])
  <2>1. x \in 0 .. S - 1 /\ d.edges[oe] \in Nat /\ d.edges[oe] # 0 /\ d.edges[oe] <= x
    <3>1. d.edges[oe] # 0
      BY <1>11 DEF Packed
    <3>2. x \in 0 .. S - 1 /\ d.edges[oe] \in Nat /\ L[oe] \in Nat
      BY CellsOf
    <3> QED BY <3>1, <3>2 DEF Cell
  <2>2. end # 0 /\ l # 0
    <3>1. end + 1 = S
      BY DEF end
    <3>2. end # 0
      <4> HIDE DEF x
      <4> QED BY <3>1, <2>1, <1>1
    <3> QED BY <3>2, <1>1, <1>2
  <2>3. x < d.edges[te] \/ end < d.edges[oe]
    BY <2>2, <1>11 DEF Packed, end, l
  <2>4. ~(end < d.edges[oe])
    <3>1. end + 1 = S
      BY DEF end
    <3> HIDE DEF x
    <3> QED BY <2>1, <3>1, <1>1, <1>2
  <2> QED BY <2>2, <2>3, <2>4 DEF e2
<1>12. Grows(d, d2, S, T, L, to, ty, te, e2, k, t)
  <2>1. T \in Nat /\ S <= T /\ e2 \in Nat \ {0} /\ e2 + 2 * L[te] + 3 = T
    BY <1>4 DEF T, l
  <2>2. d2.edgedata[e2 + 2 * L[te]] = k /\ d2.edgedata[e2 + 2 * L[te] + 1] = t /\ d2.edgedata[e2 + 2 * L[te] + 2] = 0
    BY <1>4, <1>7, <1>8 DEF l
  <2>3. \A c \in 0 .. S - 1 : c < e2 + 2 * L[te] => d2.edgedata[c] = d.edgedata[c]
    BY <1>4, <1>7, <1>9 DEF l
  <2>4. \A n \in 0 .. L[te] - 1 : d2.edgedata[e2 + 2 * n] = to[te][n] /\ d2.edgedata[e2 + 2 * n + 1] = ty[te][n]
    BY <1>7, <1>10 DEF l
  <2> QED BY <2>1, <2>2, <2>3, <2>4, <1>7, <1>11 DEF Grows
<1> QED BY <1>3, <1>7, <1>12 DEF d2

\* Others are copied to the end of the array first.
LEMMA GrowsCopied ==
  ASSUME NEW d, NEW S, NEW L, NEW to, NEW ty, Packed(d, S, L, to, ty), NEW te \in Tes, NEW k \in Tes, NEW t \in Nat,
         Cell(d, te, L[te]) + 1 # S
  PROVE  \E T, e2 : Grow(d, te, k, t) \in Arrays(T) /\ Grows(d, Grow(d, te, k, t), S, T, L, to, ty, te, e2, k, t)
<1> DEFINE end == Cell(d, te, L[te])
           l == L[te]
           e == d.edges[te]
           copied == [j \in 1 .. end - e |-> d.edgedata[e + j - 1]]
           b == Written(d.edgedata, S, copied)
           a == Written(b, S + end - e, Pair(k, t))
           d2 == NewList(d, te, S, a)
           R == S + 2 * l
           T == R + 3
<1>1. /\ S \in Nat \ {0} /\ d \in Arrays(S) /\ d.edgedata \in [0 .. S - 1 -> Nat]
      /\ d = [edges |-> d.edges, edgedata |-> d.edgedata] /\ d.edges \in [Tes -> Nat]
  BY DEF Packed, Arrays
<1>2. e \in Nat /\ l \in Nat /\ end = e + 2 * l /\ DOMAIN d.edgedata = 0 .. S - 1
      /\ Size(d.edgedata) = S /\ EndOf(d, te) = end /\ end \in 0 .. S - 1
  BY CellsOf, EndIs DEF Cell
<1>3. Grow(d, te, k, t) = d2
  <2>1. ~(EndOf(d, te) + 1 = Size(d.edgedata))
    BY <1>2
  <2>2. Grow(d, te, k, t) = [d EXCEPT !.edges[te] = S, !.edgedata = Written(Written(@, S, copied), S + end - e, <<k, t, 0>>)]
    BY <2>1, <1>2 DEF Grow
  <2> HIDE DEF copied
  <2> QED BY <2>2, <1>1 DEF Pair, NewList
<1> HIDE DEF end, l, e
<1>4. IsCells(copied, 2 * l) /\ S + end - e = R /\ R \in Nat /\ \A j \in 1 .. 2 * l : copied[j] = d.edgedata[e + j - 1]
  <2>1. end - e = 2 * l /\ S + end - e = R /\ 2 * l \in Nat /\ R \in Nat
    BY <1>1, <1>2
  <2>2. \A j \in 1 .. 2 * l : e + j - 1 \in 0 .. S - 1
    <3>1. e \in Nat /\ S \in Nat /\ 2 * l \in Nat /\ end = e + 2 * l /\ end \in 0 .. S - 1
      BY <1>1, <1>2, <2>1
    <3>2. \A x, y, z \in Nat : x + y \in 0 .. z - 1 => \A j \in 1 .. y : x + j - 1 \in 0 .. z - 1
      OBVIOUS
    <3> QED BY <3>1, <3>2
  <2>3. \A j \in 1 .. 2 * l : d.edgedata[e + j - 1] \in Nat
    BY <2>2, <1>1
  <2>4. copied = [j \in 1 .. 2 * l |-> d.edgedata[e + j - 1]]
    BY <2>1
  <2>5. copied \in [1 .. 2 * l -> Nat] /\ \A j \in 1 .. 2 * l : copied[j] = d.edgedata[e + j - 1]
    BY <2>3, <2>4
  <2> QED BY <2>1, <2>5 DEF IsCells
<1> HIDE DEF copied
<1>5. R = Longer(S + 2 * l, S) /\ S \in 0 .. S /\ S \in Nat /\ T = Longer(R + 3, R) /\ R \in 0 .. R /\ T \in Nat /\ S <= R /\ S <= T
  <2>1. S \in Nat /\ l \in Nat
    BY <1>1, <1>2
  <2>2. \A x, y \in Nat : x + 2 * y = Longer(x + 2 * y, x) /\ x + 2 * y \in Nat /\ x <= x + 2 * y /\ x \in 0 .. x
    BY DEF Longer
  <2>3. \A x \in Nat : x + 3 = Longer(x + 3, x) /\ x + 3 \in Nat /\ x <= x + 3 /\ x \in 0 .. x
    BY DEF Longer
  <2>4. R = Longer(S + 2 * l, S) /\ R \in Nat /\ S <= R /\ S \in 0 .. S
    BY <2>1, <2>2
  <2> HIDE DEF R
  <2>5. T = Longer(R + 3, R) /\ T \in Nat /\ R <= T /\ R \in 0 .. R
    BY <2>3, <2>4
  <2> HIDE DEF T
  <2>6. S <= T
    BY <2>1, <2>4, <2>5
  <2> QED BY <2>1, <2>4, <2>5, <2>6
<1>6. IsWritten(b, d.edgedata, S, S, 2 * l, copied)
  <2>1. IsArray(d.edgedata, S)
    BY <1>1 DEF IsArray
  <2> QED BY <2>1, <1>4, <1>5, WrittenIs
<1> HIDE DEF b
<1>7. /\ \A j \in 1 .. 2 * l : b[S + j - 1] = copied[j]
      /\ \A c \in 0 .. S - 1 : c \notin S .. S + 2 * l - 1 => b[c] = d.edgedata[c]
      /\ IsArray(b, R)
  <2> HIDE DEF R
  <2> QED BY <1>5, <1>6 DEF IsWritten
<1>8. IsWritten(a, b, R, R, 3, Pair(k, t))
  <2>1. a = Written(b, R, Pair(k, t))
    BY <1>4
  <2> HIDE DEF a, R
  <2> QED BY <2>1, <1>5, <1>7, PairIs, WrittenIs
<1> HIDE DEF a
<1>9. /\ \A j \in 1 .. 3 : a[R + j - 1] = Pair(k, t)[j]
      /\ \A c \in 0 .. R - 1 : c \notin R .. R + 3 - 1 => a[c] = b[c]
      /\ IsArray(a, T)
  <2> HIDE DEF R, T
  <2> QED BY <1>5, <1>8 DEF IsWritten
<1> HIDE DEF R, T
<1>10. d2 \in Arrays(T) /\ d2.edges = [d.edges EXCEPT ![te] = S] /\ d2.edgedata = a
  BY <1>1, <1>5, <1>9, NewListIs
<1> HIDE DEF d2
<1>11. a[R] = k /\ a[R + 1] = t /\ a[R + 2] = 0
  <2>1. R + 1 - 1 = R /\ R + 2 - 1 = R + 1 /\ R + 3 - 1 = R + 2
    BY <1>5
  <2>2. a[R + 1 - 1] = k /\ a[R + 2 - 1] = t /\ a[R + 3 - 1] = 0
    BY <1>9, PairIs
  <2> QED BY <2>1, <2>2
<1>12. \A c \in 0 .. S - 1 : a[c] = d.edgedata[c]
  <2>1. \A c \in 0 .. S - 1 : c \in 0 .. R - 1 /\ c \notin R .. R + 3 - 1 /\ c \notin S .. S + 2 * l - 1
    BY <1>2, <1>5
  <2> QED BY <2>1, <1>7, <1>9
<1>13. \A j \in 1 .. 2 * l : a[S + j - 1] = d.edgedata[e + j - 1]
  <2>1. \A j \in 1 .. 2 * l : S + j - 1 \in 0 .. R - 1 /\ S + j - 1 \notin R .. R + 3 - 1
    BY <1>2, <1>5 DEF R
  <2> QED BY <2>1, <1>4, <1>7, <1>9
<1>14. ASSUME NEW n \in 0 .. l - 1 PROVE a[S + 2 * n] = to[te][n] /\ a[S + 2 * n + 1] = ty[te][n]
  <2>1. d.edgedata[e + 2 * n] = to[te][n] /\ d.edgedata[e + 2 * n + 1] = ty[te][n]
    BY DEF Packed, Cell, l, e
  <2>2. 2 * n + 1 \in 1 .. 2 * l /\ 2 * n + 2 \in 1 .. 2 * l
    BY <1>2
  <2>3. a[S + (2 * n + 1) - 1] = d.edgedata[e + (2 * n + 1) - 1] /\ a[S + (2 * n + 2) - 1] = d.edgedata[e + (2 * n + 2) - 1]
    BY <2>2, <1>13
  <2>4. /\ S + (2 * n + 1) - 1 = S + 2 * n /\ e + (2 * n + 1) - 1 = e + 2 * n
        /\ S + (2 * n + 2) - 1 = S + 2 * n + 1 /\ e + (2 * n + 2) - 1 = e + 2 * n + 1
    BY <1>2, <1>5
  <2> QED BY <2>1, <2>3, <2>4
<1>15. \A oe \in Tes : oe # te /\ L[oe] # 0 => Cell(d, oe, L[oe]) < S
  BY DEF Packed
<1>16. Grows(d, d2, S, T, L, to, ty, te, S, k, t)
  <2>1. T \in Nat /\ S <= T /\ S \in Nat \ {0} /\ S + 2 * L[te] + 3 = T /\ S + 2 * L[te] = R
    BY <1>1, <1>5 DEF T, R, l
  <2>2. d2.edgedata[S + 2 * L[te]] = k /\ d2.edgedata[S + 2 * L[te] + 1] = t /\ d2.edgedata[S + 2 * L[te] + 2] = 0
    BY <2>1, <1>10, <1>11
  <2>3. \A c \in 0 .. S - 1 : c < S + 2 * L[te] => d2.edgedata[c] = d.edgedata[c]
    BY <1>10, <1>12
  <2>4. \A n \in 0 .. L[te] - 1 : d2.edgedata[S + 2 * n] = to[te][n] /\ d2.edgedata[S + 2 * n + 1] = ty[te][n]
    BY <1>10, <1>14 DEF l
  <2> QED BY <2>1, <2>2, <2>3, <2>4, <1>10, <1>15 DEF Grows
<1> QED BY <1>3, <1>10, <1>16 DEF d2

\* Setting the bits of a pair moves nothing.
LEMMA TypedPacked ==
  ASSUME NEW d, NEW S, NEW L, NEW to, NEW ty, Packed(d, S, L, to, ty), NEW te \in Tes, NEW n \in 0 .. L[te] - 1,
         NEW t \in Nat, NEW d2, d2 \in Arrays(S), d2.edges = d.edges, d2.edgedata[Cell(d, te, n) + 1] = t,
         \A c \in 0 .. S - 1 : c # Cell(d, te, n) + 1 => d2.edgedata[c] = d.edgedata[c]
  PROVE  Packed(d2, S, L, to, [ty EXCEPT ![te] = [ty[te] EXCEPT ![n] = t]])
<1> DEFINE x == Cell(d, te, n) + 1
           ty2 == [ty EXCEPT ![te] = [ty[te] EXCEPT ![n] = t]]
<1>1. /\ L \in [Tes -> Nat] /\ to \in [Tes -> [Nat -> Tes]] /\ ty \in [Tes -> [Nat -> Nat]]
      /\ S \in Nat \ {0} /\ d \in Arrays(S) /\ d.edgedata[0] = 0 /\ ty[te] \in [Nat -> Nat] /\ n \in Nat
  <2>1. /\ L \in [Tes -> Nat] /\ to \in [Tes -> [Nat -> Tes]] /\ ty \in [Tes -> [Nat -> Nat]]
        /\ S \in Nat \ {0} /\ d \in Arrays(S) /\ d.edgedata[0] = 0
    BY DEF Packed
  <2>2. L[te] \in Nat
    BY <2>1
  <2>3. n \in Nat
    BY <2>2
  <2> QED BY <2>1, <2>3
<1>2. ty2 \in [Tes -> [Nat -> Nat]]
  <2> DEFINE b == [ty[te] EXCEPT ![n] = t]
  <2>1. b \in [Nat -> Nat]
    BY <1>1
  <2> HIDE DEF b
  <2>2. [ty EXCEPT ![te] = b] \in [Tes -> [Nat -> Nat]]
    BY <1>1, <2>1
  <2> QED BY <2>2 DEF b
<1>3. ty2[te][n] = t /\ (\A m \in Nat : m # n => ty2[te][m] = ty[te][m]) /\ \A oe \in Tes : oe # te => ty2[oe] = ty[oe]
  BY <1>1
<1> HIDE DEF ty2
<1>4. \A oe \in Tes : \A m : Cell(d2, oe, m) = Cell(d, oe, m) /\ d2.edges[oe] = d.edges[oe]
  BY DEF Cell
<1>5. L[te] \in Nat /\ d.edges[te] \in Nat /\ L[te] # 0 /\ x = d.edges[te] + 2 * n + 1 /\ x < Cell(d, te, L[te])
      /\ d.edges[te] < x /\ x # 0 /\ n < L[te] /\ x \in Nat /\ Cell(d, te, L[te]) \in 0 .. S - 1
  <2>1. L[te] \in Nat /\ d.edges[te] \in Nat /\ x = d.edges[te] + 2 * n + 1
    BY CellsOf DEF Cell
  <2>2. x < Cell(d, te, L[te]) /\ Cell(d, te, L[te]) \in 0 .. S - 1
    BY CellsOf
  <2> DEFINE e == d.edges[te]
             l == L[te]
             y == Cell(d, te, l)
  <2>3. e \in Nat /\ l \in Nat /\ x = e + 2 * n + 1 /\ n \in 0 .. l - 1 /\ x < y /\ y \in 0 .. S - 1
    BY <2>1, <2>2
  <2> HIDE DEF x, e, l, y
  <2>4. n \in Nat /\ n < l /\ l # 0 /\ e < x /\ x # 0 /\ x \in Nat
    BY <2>3
  <2> QED BY <2>3, <2>4 DEF e, l, y
<1> HIDE DEF x
<1>6. ASSUME NEW oe \in Tes, oe # te, NEW c \in d.edges[oe] .. Cell(d, oe, L[oe])
      PROVE  c # x /\ c \in 0 .. S - 1
  <2>1. d.edges[oe] \in Nat /\ L[oe] \in Nat /\ Cell(d, oe, L[oe]) = d.edges[oe] + 2 * L[oe] /\ Cell(d, oe, L[oe]) \in 0 .. S - 1
    BY CellsOf DEF Cell
  <2>2. CASE L[oe] = 0
    <3>1. d.edges[oe] = 0
      BY <2>2 DEF Packed
    <3>2. c = 0
      BY <3>1, <2>1, <2>2
    <3> QED BY <3>2, <1>1, <1>5
  <2>3. CASE L[oe] # 0
    <3>1. Cell(d, te, L[te]) < d.edges[oe] \/ Cell(d, oe, L[oe]) < d.edges[te]
      BY <1>5, <1>6, <2>3 DEF Packed
    <3> DEFINE y == Cell(d, te, L[te])
               z == Cell(d, oe, L[oe])
               e == d.edges[te]
               f == d.edges[oe]
    <3>2. /\ y < f \/ z < e
          /\ e < x /\ x < y /\ c \in f .. z /\ f \in Nat /\ z \in 0 .. S - 1 /\ e \in Nat /\ x \in Nat /\ y \in Nat /\ S \in Nat
      <4>1. y \in Nat /\ x \in Nat
        BY <1>5
      <4> QED BY <4>1, <3>1, <2>1, <1>1, <1>5
    <3> HIDE DEF y, z, e, f
    <3> QED BY <3>2
  <2> QED BY <2>2, <2>3
<1>7. d2.edgedata[0] = 0
  <2>1. 0 \in 0 .. S - 1
    BY <1>1
  <2> QED BY <2>1, <1>1, <1>5 DEF x
<1>8. ASSUME NEW oe \in Tes
      PROVE  /\ (d2.edges[oe] = 0 <=> L[oe] = 0) /\ Cell(d2, oe, L[oe]) < S /\ d2.edgedata[Cell(d2, oe, L[oe])] = 0
             /\ \A m \in 0 .. L[oe] - 1 :
                  d2.edgedata[Cell(d2, oe, m)] = to[oe][m] /\ d2.edgedata[Cell(d2, oe, m) + 1] = ty2[oe][m]
  <2>1. /\ (d.edges[oe] = 0 <=> L[oe] = 0) /\ Cell(d, oe, L[oe]) < S /\ d.edgedata[Cell(d, oe, L[oe])] = 0
        /\ \A m \in 0 .. L[oe] - 1 :
             d.edgedata[Cell(d, oe, m)] = to[oe][m] /\ d.edgedata[Cell(d, oe, m) + 1] = ty[oe][m]
    BY DEF Packed
  <2>2. L[oe] \in Nat /\ d.edges[oe] \in Nat /\ Cell(d, oe, L[oe]) = d.edges[oe] + 2 * L[oe] /\ Cell(d, oe, L[oe]) \in 0 .. S - 1
        /\ \A m : Cell(d, oe, m) = d.edges[oe] + 2 * m
    BY CellsOf DEF Cell
  <2>3. CASE oe = te
    <3>1. d2.edgedata[Cell(d, te, L[te])] = 0
      <4> DEFINE y == Cell(d, te, L[te])
      <4>1. y \in 0 .. S - 1 /\ x < y /\ x \in Nat /\ d.edgedata[y] = 0
        <5>1. x < y /\ x \in Nat /\ y \in 0 .. S - 1
          BY <1>5
        <5> QED BY <5>1, <2>1, <2>3
      <4> HIDE DEF y
      <4>2. y # x
        BY <4>1
      <4> QED BY <4>1, <4>2 DEF x, y
    <3>2. ASSUME NEW m \in 0 .. L[te] - 1
          PROVE  d2.edgedata[Cell(d, te, m)] = to[te][m] /\ d2.edgedata[Cell(d, te, m) + 1] = ty2[te][m]
      <4>1. /\ Cell(d, te, m) \in 0 .. S - 1 /\ Cell(d, te, m) + 1 \in 0 .. S - 1 /\ Cell(d, te, m) # x
            /\ (m # n => Cell(d, te, m) + 1 # x) /\ m \in Nat
        <5> DEFINE e == d.edges[te]
        <5>1. e \in Nat /\ L[te] \in Nat /\ e + 2 * L[te] < S /\ S \in Nat /\ x = e + 2 * n + 1 /\ Cell(d, te, m) = e + 2 * m
          BY <1>1, <1>5, <2>1, <2>2, <2>3
        <5>2. m \in Nat /\ m + 1 <= L[te]
          BY <5>1
        <5> DEFINE y == Cell(d, te, m)
                   l == L[te]
        <5>3. y = e + 2 * m /\ x = e + 2 * n + 1 /\ e \in Nat /\ m \in Nat /\ n \in Nat /\ m + 1 <= l /\ l \in Nat
              /\ e + 2 * l < S /\ S \in Nat
          BY <5>1, <5>2, <1>1
        <5> HIDE DEF e, y, l
        <5>4. y \in 0 .. S - 1 /\ y + 1 \in 0 .. S - 1
          BY <5>3
        <5>5. y # x
          BY <5>3
        <5>6. m # n => y + 1 # x
          BY <5>3
        <5> QED BY <5>3, <5>4, <5>5, <5>6 DEF y
      <4>2. d2.edgedata[Cell(d, te, m)] = to[te][m]
        BY <4>1, <2>1, <2>3 DEF x
      <4>3. CASE m = n
        BY <4>2, <4>3, <1>3
      <4>4. CASE m # n
        BY <4>1, <4>2, <4>4, <2>1, <2>3, <1>3 DEF x
      <4> QED BY <4>3, <4>4
    <3> QED BY <3>1, <3>2, <2>1, <2>3, <1>4
  <2>4. CASE oe # te
    <3>1. \A c \in d.edges[oe] .. Cell(d, oe, L[oe]) : d2.edgedata[c] = d.edgedata[c]
      BY <2>4, <1>6 DEF x
    <3>2. Cell(d, oe, L[oe]) \in d.edges[oe] .. Cell(d, oe, L[oe])
          /\ \A m \in 0 .. L[oe] - 1 : /\ Cell(d, oe, m) \in d.edges[oe] .. Cell(d, oe, L[oe])
                                       /\ Cell(d, oe, m) + 1 \in d.edges[oe] .. Cell(d, oe, L[oe])
      BY <2>2
    <3> QED BY <3>1, <3>2, <2>1, <2>4, <1>3, <1>4
  <2> QED BY <2>3, <2>4
<1>9. \A a, b \in Tes : a # b /\ L[a] # 0 /\ L[b] # 0 =>
        Cell(d2, a, L[a]) < d2.edges[b] \/ Cell(d2, b, L[b]) < d2.edges[a]
  <2>1. \A a, b \in Tes : a # b /\ L[a] # 0 /\ L[b] # 0 =>
        Cell(d, a, L[a]) < d.edges[b] \/ Cell(d, b, L[b]) < d.edges[a]
    BY DEF Packed
  <2> QED BY <2>1, <1>4
<1>10. Packed(d2, S, L, to, ty2)
  BY <1>1, <1>2, <1>7, <1>8, <1>9 DEF Packed
<1> QED BY <1>10 DEF ty2

Lists(L, to, ty) == L \in [Tes -> Nat] /\ to \in [Tes -> [Nat -> Tes]] /\ ty \in [Tes -> [Nat -> Nat]]

\* A pair for an element that had none.
LEMMA GrownGraph ==
  ASSUME NEW L, NEW to, NEW ty, Lists(L, to, ty), NEW as, Graph(L, to, ty, as), NEW te \in Tes, NEW k \in Tes, NEW b \in Bits,
         \A n \in 0 .. L[te] - 1 : to[te][n] # k,
         NEW L2, NEW to2, NEW ty2,
         L2 = [L EXCEPT ![te] = L[te] + 1], to2 = [to EXCEPT ![te] = [to[te] EXCEPT ![L[te]] = k]],
         ty2 = [ty EXCEPT ![te] = [ty[te] EXCEPT ![L[te]] = b]]
  PROVE  Graph(L2, to2, ty2, With(as, te, k, b))
<1> DEFINE l == L[te]
<1>1. l \in Nat /\ to[te] \in [Nat -> Tes] /\ ty[te] \in [Nat -> Nat]
  BY DEF Lists
<1>2. /\ L2[te] = l + 1 /\ to2[te][l] = k /\ ty2[te][l] = b
      /\ \A n \in 0 .. l - 1 : to2[te][n] = to[te][n] /\ ty2[te][n] = ty[te][n]
      /\ \A oe \in Tes : oe # te => L2[oe] = L[oe] /\ to2[oe] = to[oe] /\ ty2[oe] = ty[oe]
  BY <1>1 DEF Lists
<1>3. \A n \in 0 .. L2[te] - 1 : n = l \/ n \in 0 .. l - 1
  BY <1>1, <1>2
<1>4. l \in 0 .. L2[te] - 1 /\ \A n \in 0 .. l - 1 : n \in 0 .. L2[te] - 1
  BY <1>1, <1>2
<1> HIDE DEF l
<1>5. /\ \A x \in Tes : \A m, n \in 0 .. L[x] - 1 : to[x][m] = to[x][n] => m = n
      /\ \A x \in Tes : \A n \in 0 .. L[x] - 1 : \E c \in Bits : Has(ty[x][n], c)
      /\ Triples(as)
      /\ \A x, y \in Tes : \A c \in Bits : Asked(as, x, y, c) <=> HasPair(L, to, ty, x, y, c)
  BY DEF Graph
<1>6. \A x \in Tes : \A m, n \in 0 .. L2[x] - 1 : to2[x][m] = to2[x][n] => m = n
  <2> TAKE x \in Tes
  <2>1. CASE x = te
    <3> SUFFICES ASSUME NEW m \in 0 .. L2[te] - 1, NEW n \in 0 .. L2[te] - 1, to2[te][m] = to2[te][n] PROVE m = n
      BY <2>1
    <3>1. CASE m = l /\ n = l
      BY <3>1
    <3>2. CASE m # l /\ n = l
      BY <3>2, <1>2, <1>3 DEF l
    <3>3. CASE m = l /\ n # l
      BY <3>3, <1>2, <1>3 DEF l
    <3>4. CASE m # l /\ n # l
      BY <3>4, <1>2, <1>3, <1>5 DEF l
    <3> QED BY <3>1, <3>2, <3>3, <3>4
  <2>2. CASE x # te
    BY <2>2, <1>2, <1>5
  <2> QED BY <2>1, <2>2
<1>7. \A x \in Tes : \A n \in 0 .. L2[x] - 1 : \E c \in Bits : Has(ty2[x][n], c)
  <2> TAKE x \in Tes
  <2> TAKE n \in 0 .. L2[x] - 1
  <2>1. CASE x = te /\ n = l
    BY <2>1, <1>2, HasBit
  <2>2. CASE x = te /\ n # l
    BY <2>2, <1>2, <1>3, <1>5 DEF l
  <2>3. CASE x # te
    BY <2>3, <1>2, <1>5
  <2> QED BY <2>1, <2>2, <2>3
<1>8. ASSUME NEW x \in Tes, NEW y \in Tes, NEW c \in Bits
      PROVE  HasPair(L2, to2, ty2, x, y, c) <=> HasPair(L, to, ty, x, y, c) \/ (x = te /\ y = k /\ c = b)
  <2>1. CASE x # te
    <3>1. L2[x] = L[x] /\ to2[x] = to[x] /\ ty2[x] = ty[x]
      BY <2>1, <1>2
    <3> QED BY <2>1, <3>1 DEF HasPair
  <2>2. CASE x = te
    <3>1. ASSUME HasPair(L2, to2, ty2, te, y, c) PROVE HasPair(L, to, ty, te, y, c) \/ (y = k /\ c = b)
      <4>1. PICK n \in 0 .. L2[te] - 1 : to2[te][n] = y /\ Has(ty2[te][n], c)
        BY <3>1 DEF HasPair
      <4>2. CASE n = l
        BY <4>1, <4>2, <1>2, HasBit
      <4>3. CASE n \in 0 .. l - 1
        BY <4>1, <4>3, <1>2 DEF HasPair, l
      <4> QED BY <4>2, <4>3, <1>3
    <3>2. ASSUME HasPair(L, to, ty, te, y, c) PROVE HasPair(L2, to2, ty2, te, y, c)
      <4>1. PICK n \in 0 .. l - 1 : to[te][n] = y /\ Has(ty[te][n], c)
        BY <3>2 DEF HasPair, l
      <4>2. n \in 0 .. L2[te] - 1 /\ to2[te][n] = y /\ Has(ty2[te][n], c)
        BY <4>1, <1>2, <1>4
      <4> QED BY <4>2 DEF HasPair
    <3>3. ASSUME y = k, c = b PROVE HasPair(L2, to2, ty2, te, y, c)
      <4>1. to2[te][l] = y /\ Has(ty2[te][l], c)
        BY <3>3, <1>2, HasBit
      <4> QED BY <4>1, <1>4 DEF HasPair
    <3> QED BY <2>2, <3>1, <3>2, <3>3
  <2> QED BY <2>1, <2>2
<1>9. /\ Triples(With(as, te, k, b))
      /\ \A x, y \in Tes : \A c \in Bits : Asked(With(as, te, k, b), x, y, c) <=> Asked(as, x, y, c) \/ (x = te /\ y = k /\ c = b)
  BY <1>5, AskedOne
<1>10. \A x, y \in Tes : \A c \in Bits : Asked(With(as, te, k, b), x, y, c) <=> HasPair(L2, to2, ty2, x, y, c)
  BY <1>5, <1>8, <1>9
<1> QED BY <1>6, <1>7, <1>9, <1>10 DEF Graph

\* One more bit.
LEMMA TypedGraph ==
  ASSUME NEW L, NEW to, NEW ty, Lists(L, to, ty), NEW as, Graph(L, to, ty, as), NEW te \in Tes, NEW i \in 0 .. L[te] - 1, NEW b \in Bits,
         NEW ty2, ty2 = [ty EXCEPT ![te] = [ty[te] EXCEPT ![i] = Or(ty[te][i], b)]]
  PROVE  Graph(L, to, ty2, With(as, te, to[te][i], b))
<1>1. L[te] \in Nat /\ to[te] \in [Nat -> Tes] /\ ty[te] \in [Nat -> Nat]
  BY DEF Lists
<1>2. i \in Nat /\ \A n \in 0 .. L[te] - 1 : n \in Nat
  BY <1>1
<1>3. /\ ty2[te][i] = Or(ty[te][i], b)
      /\ \A n \in 0 .. L[te] - 1 : n # i => ty2[te][n] = ty[te][n]
      /\ \A oe \in Tes : oe # te => ty2[oe] = ty[oe]
  BY <1>1, <1>2 DEF Lists
<1>4. ty[te][i] \in Nat /\ to[te][i] \in Tes
  BY <1>1, <1>2
<1>5. /\ \A x \in Tes : \A m, n \in 0 .. L[x] - 1 : to[x][m] = to[x][n] => m = n
      /\ \A x \in Tes : \A n \in 0 .. L[x] - 1 : \E c \in Bits : Has(ty[x][n], c)
      /\ Triples(as)
      /\ \A x, y \in Tes : \A c \in Bits : Asked(as, x, y, c) <=> HasPair(L, to, ty, x, y, c)
  BY DEF Graph
<1>6. \A c \in Bits : Has(ty2[te][i], c) <=> Has(ty[te][i], c) \/ c = b
  BY <1>3, <1>4, HasOr
<1>7. \A x \in Tes : \A n \in 0 .. L[x] - 1 : \E c \in Bits : Has(ty2[x][n], c)
  <2> TAKE x \in Tes
  <2> TAKE n \in 0 .. L[x] - 1
  <2>1. CASE x = te /\ n = i
    BY <2>1, <1>6
  <2>2. CASE x = te /\ n # i
    BY <2>2, <1>3, <1>5
  <2>3. CASE x # te
    BY <2>3, <1>3, <1>5
  <2> QED BY <2>1, <2>2, <2>3
<1>8. ASSUME NEW x \in Tes, NEW y \in Tes, NEW c \in Bits
      PROVE  HasPair(L, to, ty2, x, y, c) <=> HasPair(L, to, ty, x, y, c) \/ (x = te /\ y = to[te][i] /\ c = b)
  <2>1. CASE x # te
    <3>1. ty2[x] = ty[x]
      BY <2>1, <1>3
    <3> QED BY <2>1, <3>1 DEF HasPair
  <2>2. CASE x = te
    <3>1. ASSUME HasPair(L, to, ty2, te, y, c) PROVE HasPair(L, to, ty, te, y, c) \/ (y = to[te][i] /\ c = b)
      <4>1. PICK n \in 0 .. L[te] - 1 : to[te][n] = y /\ Has(ty2[te][n], c)
        BY <3>1 DEF HasPair
      <4>2. CASE n = i
        BY <4>1, <4>2, <1>6 DEF HasPair
      <4>3. CASE n # i
        BY <4>1, <4>3, <1>3 DEF HasPair
      <4> QED BY <4>2, <4>3
    <3>2. ASSUME HasPair(L, to, ty, te, y, c) PROVE HasPair(L, to, ty2, te, y, c)
      <4>1. PICK n \in 0 .. L[te] - 1 : to[te][n] = y /\ Has(ty[te][n], c)
        BY <3>2 DEF HasPair
      <4>2. Has(ty2[te][n], c)
        BY <4>1, <1>3, <1>6
      <4> QED BY <4>1, <4>2 DEF HasPair
    <3>3. ASSUME y = to[te][i], c = b PROVE HasPair(L, to, ty2, te, y, c)
      BY <3>3, <1>6 DEF HasPair
    <3> QED BY <2>2, <3>1, <3>2, <3>3
  <2> QED BY <2>1, <2>2
<1>9. /\ Triples(With(as, te, to[te][i], b))
      /\ \A x, y \in Tes : \A c \in Bits :
           Asked(With(as, te, to[te][i], b), x, y, c) <=> Asked(as, x, y, c) \/ (x = te /\ y = to[te][i] /\ c = b)
  BY <1>4, <1>5, AskedOne
<1>10. \A x, y \in Tes : \A c \in Bits : Asked(With(as, te, to[te][i], b), x, y, c) <=> HasPair(L, to, ty2, x, y, c)
  BY <1>5, <1>8, <1>9
<1> QED BY <1>5, <1>7, <1>9, <1>10 DEF Graph

\* The array has the edges that were asked for.
IsEdges(d, as) == \E S, L, to, ty : Packed(d, S, L, to, ty) /\ Graph(L, to, ty, as)

\* Setting a bit of a pair is asking for it.
LEMMA TypedEdges ==
  ASSUME NEW d, NEW S, NEW L, NEW to, NEW ty, Packed(d, S, L, to, ty), NEW as, Graph(L, to, ty, as), NEW te \in Tes,
         NEW n \in 0 .. L[te] - 1, NEW b \in Bits, NEW d2, d2 \in Arrays(S), d2.edges = d.edges,
         \A c \in 0 .. S - 1 : d2.edgedata[c] = IF c = Cell(d, te, n) + 1 THEN Or(d.edgedata[c], b) ELSE d.edgedata[c]
  PROVE  IsEdges(d2, With(as, te, to[te][n], b))
<1> DEFINE t == Or(ty[te][n], b)
           ty2 == [ty EXCEPT ![te] = [ty[te] EXCEPT ![n] = t]]
           x == Cell(d, te, n) + 1
<1>1. Lists(L, to, ty)
  BY DEF Packed, Lists
<1>2. Graph(L, to, ty2, With(as, te, to[te][n], b))
  BY <1>1, TypedGraph
<1>3. d.edgedata[x] = ty[te][n]
  BY DEF Packed
<1>4. x \in 0 .. S - 1
  <2>1. x < Cell(d, te, L[te]) /\ Cell(d, te, L[te]) \in 0 .. S - 1 /\ L[te] \in Nat /\ S \in Nat /\ d.edges[te] \in Nat
    BY CellsOf
  <2>2. x = d.edges[te] + 2 * n + 1
    BY DEF Cell
  <2> DEFINE y == Cell(d, te, L[te])
             e == d.edges[te]
             l == L[te]
  <2>3. x < y /\ y \in 0 .. S - 1 /\ S \in Nat /\ e \in Nat /\ x = e + 2 * n + 1 /\ l \in Nat /\ n \in 0 .. l - 1
    BY <2>1, <2>2
  <2> HIDE DEF x, y, e, l
  <2> QED BY <2>3
<1>5. t \in Nat
  <2>1. ty[te] \in [Nat -> Nat] /\ L[te] \in Nat
    BY <1>1 DEF Lists
  <2>2. n \in Nat
    BY <2>1
  <2> QED BY <2>1, <2>2, HasOr
<1>6. d2.edgedata[x] = t /\ \A c \in 0 .. S - 1 : c # x => d2.edgedata[c] = d.edgedata[c]
  BY <1>3, <1>4
<1> HIDE DEF t
<1>7. Packed(d2, S, L, to, ty2)
  BY <1>5, <1>6, TypedPacked
<1> QED BY <1>2, <1>7 DEF IsEdges, t

Misses(L, to, te, k) == \A n \in 0 .. L[te] - 1 : to[te][n] # k

\* A list that has got a pair has what was asked for.
LEMMA GrownEdges ==
  ASSUME NEW d, NEW S, NEW L, NEW to, NEW ty, Packed(d, S, L, to, ty), NEW as, Graph(L, to, ty, as), NEW te \in Tes, NEW k \in Tes,
         NEW b \in Bits, Misses(L, to, te, k)
  PROVE  IsEdges(Grow(d, te, k, b), With(as, te, k, b))
<1> DEFINE d2 == Grow(d, te, k, b)
           L2 == [L EXCEPT ![te] = L[te] + 1]
           to2 == [to EXCEPT ![te] = [to[te] EXCEPT ![L[te]] = k]]
           ty2 == [ty EXCEPT ![te] = [ty[te] EXCEPT ![L[te]] = b]]
<1>1. b \in Nat
  BY HasBit
<1>2. PICK T, e2 : d2 \in Arrays(T) /\ Grows(d, d2, S, T, L, to, ty, te, e2, k, b)
  <2>1. CASE Cell(d, te, L[te]) + 1 = S
    BY <1>1, <2>1, GrowsAtEnd
  <2>2. CASE Cell(d, te, L[te]) + 1 # S
    BY <1>1, <2>2, GrowsCopied
  <2> QED BY <2>1, <2>2
<1> HIDE DEF d2
<1>3. Packed(d2, T, L2, to2, ty2)
  BY <1>1, <1>2, GrownPacked
<1>4. Lists(L, to, ty)
  BY DEF Packed, Lists
<1>5. Graph(L2, to2, ty2, With(as, te, k, b))
  BY <1>4, GrownGraph DEF Misses
<1> HIDE DEF L2, to2, ty2
<1> QED BY <1>3, <1>5 DEF IsEdges, d2

\* addteedge adds what is asked for.
LEMMA AddIs ==
  ASSUME NEW d, NEW as, IsEdges(d, as), NEW te \in Tes, NEW k \in Tes, te # k, NEW b \in Bits
  PROVE  IsEdges(addteedge(d, te, k, b), With(as, te, k, b))
<1>1. PICK S, L, to, ty : Packed(d, S, L, to, ty) /\ Graph(L, to, ty, as)
  BY DEF IsEdges
<1> DEFINE known == {i \in PairsOf(d, te) : d.edgedata[i] = k}
<1>2. PairsOf(d, te) = {Cell(d, te, n) : n \in 0 .. L[te] - 1}
  BY <1>1, PairsAre
<1>3. \A n \in 0 .. L[te] - 1 : d.edgedata[Cell(d, te, n)] = to[te][n]
  BY <1>1 DEF Packed
<1>4. CASE known = {}
  <2>1. addteedge(d, te, k, b) = Grow(d, te, k, b)
    BY <1>4 DEF addteedge
  <2>2. Misses(L, to, te, k)
    BY <1>2, <1>3, <1>4 DEF Misses
  <2> QED BY <1>1, <2>1, <2>2, GrownEdges
<1>5. CASE known # {}
  <2> DEFINE array == [i \in DOMAIN d.edgedata |-> IF i - 1 \in known THEN Or(d.edgedata[i], b) ELSE d.edgedata[i]]
  <2>1. PICK n \in 0 .. L[te] - 1 : to[te][n] = k
    BY <1>2, <1>3, <1>5
  <2>2. \A m \in 0 .. L[te] - 1 : to[te][m] = k => m = n
    BY <1>1, <2>1 DEF Graph
  <2>3. known = {Cell(d, te, n)}
    BY <1>2, <1>3, <2>1, <2>2
  <2>4. d = [edges |-> d.edges, edgedata |-> d.edgedata] /\ d.edges \in [Tes -> Nat] /\ d.edgedata \in [0 .. S - 1 -> Nat]
    BY <1>1 DEF Packed, Arrays
  <2>5. addteedge(d, te, k, b) = [edges |-> d.edges, edgedata |-> array]
    <3> HIDE DEF array
    <3>1. addteedge(d, te, k, b) = [d EXCEPT !.edgedata = array]
      BY <1>5 DEF addteedge, array
    <3> QED BY <3>1, <2>4
  <2> HIDE DEF known
  <2>6. ASSUME NEW c \in 0 .. S - 1
        PROVE  array[c] = IF c = Cell(d, te, n) + 1 THEN Or(d.edgedata[c], b) ELSE d.edgedata[c]
    <3>1. c - 1 = Cell(d, te, n) <=> c = Cell(d, te, n) + 1
      <4>1. d.edges[te] \in Nat /\ L[te] \in Nat /\ S \in Nat
        BY <1>1, CellsOf
      <4>2. n \in Nat /\ c \in Nat
        BY <4>1
      <4> QED BY <4>1, <4>2 DEF Cell
    <3> QED BY <2>3, <2>4, <3>1
  <2>7. array \in [0 .. S - 1 -> Nat]
    <3>1. \A c \in 0 .. S - 1 : d.edgedata[c] \in Nat
      BY <2>4
    <3>2. \A c \in 0 .. S - 1 : Or(d.edgedata[c], b) \in Nat
      BY <3>1, HasOr
    <3> QED BY <3>1, <3>2, <2>4
  <2> DEFINE d2 == [edges |-> d.edges, edgedata |-> array]
  <2> HIDE DEF array
  <2>8. d2 \in Arrays(S) /\ d2.edges = d.edges /\ d2.edgedata = array
    BY <2>4, <2>7 DEF Arrays
  <2> HIDE DEF d2
  <2>9. IsEdges(d2, With(as, te, to[te][n], b))
    BY <1>1, <2>6, <2>8, TypedEdges
  <2> QED BY <2>1, <2>5, <2>9 DEF d2
<1> QED BY <1>4, <1>5

\* breakcycle sets a bit of a pair.
LEMMA BrokenIs ==
  ASSUME NEW d, NEW as, IsEdges(d, as), NEW te \in Tes, NEW i \in PairsOf(d, te), NEW b \in Bits
  PROVE  IsEdges([d EXCEPT !.edgedata[i + 1] = Or(@, b)], With(as, te, d.edgedata[i], b))
<1>1. PICK S, L, to, ty : Packed(d, S, L, to, ty) /\ Graph(L, to, ty, as)
  BY DEF IsEdges
<1> DEFINE array == [d.edgedata EXCEPT ![i + 1] = Or(d.edgedata[i + 1], b)]
           d2 == [edges |-> d.edges, edgedata |-> array]
<1>2. PairsOf(d, te) = {Cell(d, te, n) : n \in 0 .. L[te] - 1}
  BY <1>1, PairsAre
<1>3. PICK n \in 0 .. L[te] - 1 : i = Cell(d, te, n)
  BY <1>2
<1>4. d.edgedata[i] = to[te][n]
  BY <1>1, <1>3 DEF Packed
<1>5. d = [edges |-> d.edges, edgedata |-> d.edgedata] /\ d.edges \in [Tes -> Nat] /\ d.edgedata \in [0 .. S - 1 -> Nat]
  BY <1>1 DEF Packed, Arrays
<1>6. [d EXCEPT !.edgedata[i + 1] = Or(@, b)] = d2
  BY <1>5
<1>7. \A c \in 0 .. S - 1 : array[c] = IF c = Cell(d, te, n) + 1 THEN Or(d.edgedata[c], b) ELSE d.edgedata[c]
  BY <1>3, <1>5
<1>8. array \in [0 .. S - 1 -> Nat]
  <2>1. \A c \in 0 .. S - 1 : d.edgedata[c] \in Nat
    BY <1>5
  <2>2. \A c \in 0 .. S - 1 : Or(d.edgedata[c], b) \in Nat
    BY <2>1, HasOr
  <2> QED BY <2>1, <2>2, <1>5
<1> HIDE DEF array
<1>9. d2 \in Arrays(S) /\ d2.edges = d.edges /\ d2.edgedata = array
  BY <1>5, <1>8 DEF Arrays
<1> HIDE DEF d2
<1>10. IsEdges(d2, With(as, te, to[te][n], b))
  BY <1>1, <1>7, <1>9, TypedEdges
<1> QED BY <1>4, <1>6, <1>10

\* At first there are none.
LEMMA NoneIs == IsEdges(NoEdges, {})
<1> DEFINE zero == [te \in Tes |-> 0]
           to == [te \in Tes |-> [n \in Nat |-> 1]]
           ty == [te \in Tes |-> [n \in Nat |-> 0]]
<1>1. 1 \in Tes
  BY EdgeAssumption DEF Tes
<1>2. NoEdges.edges = zero /\ NoEdges.edgedata = [i \in {0} |-> 0] /\ NoEdges \in Arrays(1)
  BY DEF NoEdges, Arrays
<1>3. zero \in [Tes -> Nat] /\ to \in [Tes -> [Nat -> Tes]] /\ ty \in [Tes -> [Nat -> Nat]]
  BY <1>1
<1>4. \A te \in Tes : zero[te] = 0 /\ Cell(NoEdges, te, zero[te]) = 0
  BY <1>2 DEF Cell
<1>5. 0 .. 0 - 1 = {}
  OBVIOUS
<1>6. \A te \in Tes : 0 .. zero[te] - 1 = {}
  BY <1>4, <1>5
<1>7. NoEdges.edgedata[0] = 0 /\ \A te \in Tes : NoEdges.edges[te] = 0
  BY <1>2
<1> HIDE DEF zero, to, ty
<1>8. Packed(NoEdges, 1, zero, to, ty)
  <2>1. 1 \in Nat \ {0} /\ 0 < 1
    OBVIOUS
  <2>2. \A te \in Tes : (NoEdges.edges[te] = 0 <=> zero[te] = 0) /\ Cell(NoEdges, te, zero[te]) < 1
                        /\ NoEdges.edgedata[Cell(NoEdges, te, zero[te])] = 0
    BY <2>1, <1>4, <1>7
  <2>3. \A te \in Tes : \A n \in 0 .. zero[te] - 1 :
          NoEdges.edgedata[Cell(NoEdges, te, n)] = to[te][n] /\ NoEdges.edgedata[Cell(NoEdges, te, n) + 1] = ty[te][n]
    BY <1>6
  <2>4. \A te, oe \in Tes : te # oe /\ zero[te] # 0 /\ zero[oe] # 0 =>
          Cell(NoEdges, te, zero[te]) < NoEdges.edges[oe] \/ Cell(NoEdges, oe, zero[oe]) < NoEdges.edges[te]
    BY <1>4
  <2> QED BY <2>1, <2>2, <2>3, <2>4, <1>2, <1>3, <1>7 DEF Packed
<1>9. Graph(zero, to, ty, {})
  BY <1>6 DEF Graph, HasPair, Asked, Triples
<1> QED BY <1>8, <1>9 DEF IsEdges

\* The image of a finite set that tells its elements apart is as large.
LEMMA ImageSize ==
  ASSUME NEW N, IsFiniteSet(N), NEW T, NEW f \in [N -> T], \A x, y \in N : f[x] = f[y] => x = y,
         \A z \in T : \E x \in N : f[x] = z
  PROVE  IsFiniteSet(T) /\ Cardinality(T) = Cardinality(N)
<1>1. f \in Surjection(N, T)
  BY DEF Surjection
<1>2. f \in Injection(N, T)
  BY DEF Injection, IsInjective
<1> QED BY <1>1, <1>2, FS_Surjection

\* The walk along a list meets what was asked for.
LEMMA WalkMeets ==
  ASSUME NEW d, NEW S, NEW L, NEW to, NEW ty, Packed(d, S, L, to, ty), NEW x \in Tes, NEW y \in Tes, NEW c
  PROVE  (\E e \in EdgesOf(d, x) : e[1] = y /\ Has(e[2], c)) <=> HasPair(L, to, ty, x, y, c)
<1> DEFINE N == 0 .. L[x] - 1
           E == EdgesOf(d, x)
<1>1. E = {<<to[x][n], ty[x][n]>> : n \in N}
  BY PairsAre
<1> HIDE DEF N, E
<1>2. ASSUME NEW e \in E, e[1] = y, Has(e[2], c) PROVE HasPair(L, to, ty, x, y, c)
  <2>1. PICK n \in N : e = <<to[x][n], ty[x][n]>>
    BY <1>1
  <2>2. e[1] = to[x][n] /\ e[2] = ty[x][n]
    BY <2>1
  <2> QED BY <1>2, <2>2 DEF HasPair, N
<1>3. ASSUME HasPair(L, to, ty, x, y, c) PROVE \E e \in E : e[1] = y /\ Has(e[2], c)
  <2>1. PICK n \in N : to[x][n] = y /\ Has(ty[x][n], c)
    BY <1>3 DEF HasPair, N
  <2> DEFINE e == <<to[x][n], ty[x][n]>>
  <2>2. e \in E
    BY <1>1
  <2>3. e[1] = to[x][n] /\ e[2] = ty[x][n]
    OBVIOUS
  <2> HIDE DEF e
  <2> QED BY <2>1, <2>2, <2>3
<1> QED BY <1>2, <1>3 DEF E

LEMMA EachOnce ==
  ASSUME NEW d, NEW S, NEW L, NEW to, NEW ty, Packed(d, S, L, to, ty), NEW as, Graph(L, to, ty, as), NEW te \in Tes
  PROVE  Cardinality({e[1] : e \in EdgesOf(d, te)}) = Cardinality(PairsOf(d, te))
<1> DEFINE N == 0 .. L[te] - 1
           A == {e[1] : e \in EdgesOf(d, te)}
           P == PairsOf(d, te)
           f == [n \in N |-> to[te][n]]
           g == [n \in N |-> Cell(d, te, n)]
<1>1. P = {Cell(d, te, n) : n \in N} /\ EdgesOf(d, te) = {<<to[te][n], ty[te][n]>> : n \in N}
  BY PairsAre
<1>2. A = {to[te][n] : n \in N}
  <2> DEFINE E == EdgesOf(d, te)
  <2>1. \A n \in N : <<to[te][n], ty[te][n]>>[1] = to[te][n]
    OBVIOUS
  <2>2. {e[1] : e \in {<<to[te][n], ty[te][n]>> : n \in N}} = {<<to[te][n], ty[te][n]>>[1] : n \in N}
    OBVIOUS
  <2> HIDE DEF N
  <2> QED BY <1>1, <2>1, <2>2
<1>3. \A m, n \in N : to[te][m] = to[te][n] => m = n
  BY DEF Graph
<1>4. \A m, n \in N : Cell(d, te, m) = Cell(d, te, n) => m = n
  <2>1. d.edges[te] \in Nat /\ L[te] \in Nat
    BY CellsOf
  <2> QED BY <2>1 DEF Cell
<1>5. IsFiniteSet(N)
  <2>1. L[te] \in Nat
    BY CellsOf
  <2> QED BY <2>1, FS_Interval
<1> HIDE DEF N
<1>6. f \in [N -> A] /\ (\A m, n \in N : f[m] = f[n] => m = n) /\ \A z \in A : \E n \in N : f[n] = z
  BY <1>2, <1>3
<1>7. g \in [N -> P] /\ (\A m, n \in N : g[m] = g[n] => m = n) /\ \A z \in P : \E n \in N : g[n] = z
  BY <1>1, <1>4
<1> HIDE DEF A, P, f, g
<1>8. Cardinality(A) = Cardinality(N)
  BY <1>5, <1>6, ImageSize
<1>9. Cardinality(P) = Cardinality(N)
  BY <1>5, <1>7, ImageSize
<1> QED BY <1>8, <1>9 DEF A, P

LEMMA KeptIs == IsEdges(od, asked) => EdgesKept
<1> SUFFICES ASSUME IsEdges(od, asked)
             PROVE  /\ asked = {a \in Tes \X Tes \X Bits : \E e \in EdgesOf(od, a[1]) : e[1] = a[2] /\ Has(e[2], a[3])}
                    /\ \A te \in Tes : Cardinality({e[1] : e \in EdgesOf(od, te)}) = Cardinality(PairsOf(od, te))
  BY DEF EdgesKept
<1>1. PICK S, L, to, ty : Packed(od, S, L, to, ty) /\ Graph(L, to, ty, asked)
  BY DEF IsEdges
<1>2. \A te \in Tes : Cardinality({e[1] : e \in EdgesOf(od, te)}) = Cardinality(PairsOf(od, te))
  BY <1>1, EachOnce
<1> DEFINE P == Tes \X Tes \X Bits
           Met(a) == \E e \in EdgesOf(od, a[1]) : e[1] = a[2] /\ Has(e[2], a[3])
<1>3. asked \subseteq P
  BY <1>1 DEF Graph, Triples
<1>4. ASSUME NEW a \in P PROVE a \in asked <=> Met(a)
  <2>1. a = <<a[1], a[2], a[3]>> /\ a[1] \in Tes /\ a[2] \in Tes /\ a[3] \in Bits
    OBVIOUS
  <2>2. a \in asked <=> Asked(asked, a[1], a[2], a[3])
    BY <2>1 DEF Asked
  <2>3. Asked(asked, a[1], a[2], a[3]) <=> HasPair(L, to, ty, a[1], a[2], a[3])
    BY <1>1, <2>1 DEF Graph
  <2>4. Met(a) <=> HasPair(L, to, ty, a[1], a[2], a[3])
    BY <1>1, <2>1, WalkMeets
  <2> QED BY <2>2, <2>3, <2>4
<1> HIDE DEF P, Met
<1>5. asked = {a \in P : Met(a)}
  BY <1>3, <1>4
<1> QED BY <1>2, <1>5 DEF P, Met

\* The elements that wait for element k: those that have an edge to it and none
\* that was broken.
LEMMA WaitingIs ==
  ASSUME NEW d, NEW as, IsEdges(d, as), NEW k \in Tes
  PROVE  Waiting(d, k) = {i \in Tes : (\E b \in Bits : <<i, k, b>> \in as) /\ <<i, k, TYPE_BROKEN>> \notin as}
<1>1. PICK S, L, to, ty : Packed(d, S, L, to, ty) /\ Graph(L, to, ty, as)
  BY DEF IsEdges
<1> DEFINE Ways(i) == \E e \in EdgesOf(d, i) : e[1] = k /\ ~Has(e[2], TYPE_BROKEN)
<1>2. TYPE_BROKEN \in Bits
  BY EdgeAssumption
<1>3. ASSUME NEW i \in Tes
      PROVE  Ways(i) <=> (\E b \in Bits : Asked(as, i, k, b)) /\ ~Asked(as, i, k, TYPE_BROKEN)
  <2> DEFINE N == 0 .. L[i] - 1
             E == EdgesOf(d, i)
  <2>1. E = {<<to[i][n], ty[i][n]>> : n \in N}
    BY <1>1, PairsAre
  <2>2. \A b \in Bits : Asked(as, i, k, b) <=> \E n \in N : to[i][n] = k /\ Has(ty[i][n], b)
    <3>1. \A b \in Bits : Asked(as, i, k, b) <=> HasPair(L, to, ty, i, k, b)
      BY <1>1 DEF Graph
    <3> QED BY <3>1 DEF HasPair
  <2>3. (\A m, n \in N : to[i][m] = to[i][n] => m = n) /\ \A n \in N : \E b \in Bits : Has(ty[i][n], b)
    BY <1>1 DEF Graph
  <2>4. Ways(i) <=> \E n \in N : to[i][n] = k /\ ~Has(ty[i][n], TYPE_BROKEN)
    <3>1. ASSUME NEW e \in E, e[1] = k, ~Has(e[2], TYPE_BROKEN) PROVE \E n \in N : to[i][n] = k /\ ~Has(ty[i][n], TYPE_BROKEN)
      <4> HIDE DEF N, E
      <4>1. PICK n \in N : e = <<to[i][n], ty[i][n]>>
        BY <2>1
      <4>2. e[1] = to[i][n] /\ e[2] = ty[i][n]
        BY <4>1
      <4> QED BY <3>1, <4>2
    <3>2. ASSUME NEW n \in N, to[i][n] = k, ~Has(ty[i][n], TYPE_BROKEN) PROVE Ways(i)
      <4> DEFINE e == <<to[i][n], ty[i][n]>>
      <4> HIDE DEF N, E
      <4>1. e \in E
        BY <2>1
      <4>2. e[1] = to[i][n] /\ e[2] = ty[i][n]
        OBVIOUS
      <4> HIDE DEF e
      <4> QED BY <3>2, <4>1, <4>2 DEF E
    <3> QED BY <3>1, <3>2
  <2> HIDE DEF N, E, Ways
  <2> QED BY <2>2, <2>3, <2>4, <1>2
<1>4. Waiting(d, k) = {i \in Tes : Ways(i)}
  BY DEF Waiting
<1> HIDE DEF Ways
<1>5. {i \in Tes : Ways(i)} = {i \in Tes : (\E b \in Bits : Asked(as, i, k, b)) /\ ~Asked(as, i, k, TYPE_BROKEN)}
  BY <1>3
<1> QED BY <1>4, <1>5 DEF Asked

(***************************************************************************)
(* Turning the edges round.  Those who wait for the elements up to k are   *)
(* counted; the list of element k lies in front of its end, with one cell  *)
(* for each that waits for it.                                             *)
(***************************************************************************)

UptoWaits(d, k) == {w \in (1 .. k) \X Tes : w[2] \in Waiting(d, w[1])}
Count(d, k) == Cardinality(UptoWaits(d, k))
Waits(d, k) == Cardinality(Waiting(d, k))
Start(d, k) == InvertedEnd(d, k) - Waits(d, k)

LEMMA WaitsAre ==
  ASSUME NEW d, NEW k
  PROVE  IsFiniteSet(Waiting(d, k)) /\ Waiting(d, k) \subseteq Tes /\ Waits(d, k) \in Nat
<1>1. IsFiniteSet(Tes)
  BY EdgeAssumption, FS_Interval DEF Tes
<1>2. Waiting(d, k) \subseteq Tes
  BY DEF Waiting
<1>3. IsFiniteSet(Waiting(d, k))
  BY <1>1, <1>2, FS_Subset
<1> QED BY <1>2, <1>3, FS_CardinalityType DEF Waits

LEMMA UptoWaitsIs ==
  ASSUME NEW d, NEW k \in Nat
  PROVE  IsFiniteSet(UptoWaits(d, k)) /\ Count(d, k) \in Nat
<1>1. IsFiniteSet(Tes) /\ IsFiniteSet(1 .. k)
  BY EdgeAssumption, FS_Interval DEF Tes
<1>2. IsFiniteSet((1 .. k) \X Tes)
  BY <1>1, FS_Product
<1>3. UptoWaits(d, k) \subseteq (1 .. k) \X Tes
  BY DEF UptoWaits
<1>4. IsFiniteSet(UptoWaits(d, k))
  BY <1>2, <1>3, FS_Subset
<1> QED BY <1>4, FS_CardinalityType DEF Count

LEMMA CountNext ==
  ASSUME NEW d, NEW k \in Nat \ {0}
  PROVE  Count(d, k) = Count(d, k - 1) + Waits(d, k)
<1> DEFINE V == Waiting(d, k)
           A == UptoWaits(d, k - 1)
           B == {k} \X V
<1>1. k - 1 \in Nat /\ \A m : m \in 1 .. k <=> m \in 1 .. k - 1 \/ m = k
  OBVIOUS
<1>2. IsFiniteSet(A) /\ Count(d, k - 1) = Cardinality(A) /\ Count(d, k - 1) \in Nat
  BY <1>1, UptoWaitsIs DEF Count
<1>3. IsFiniteSet(V) /\ V \subseteq Tes /\ Waits(d, k) = Cardinality(V) /\ Waits(d, k) \in Nat
  BY WaitsAre DEF Waits
<1>4. IsFiniteSet(B) /\ Cardinality(B) = Waits(d, k)
  <2>1. IsFiniteSet({k}) /\ Cardinality({k}) = 1
    BY FS_Singleton
  <2>2. IsFiniteSet(B) /\ Cardinality(B) = 1 * Cardinality(V)
    <3> HIDE DEF V
    <3> QED BY <1>3, <2>1, FS_Product
  <2> QED BY <1>3, <2>2
<1>5. UptoWaits(d, k) = A \cup B
  <2>1. ASSUME NEW w \in UptoWaits(d, k) PROVE w \in A \cup B
    <3>1. w = <<w[1], w[2]>> /\ w[1] \in 1 .. k /\ w[2] \in Tes /\ w[2] \in Waiting(d, w[1])
      BY DEF UptoWaits
    <3>2. CASE w[1] \in 1 .. k - 1
      <4>1. w \in (1 .. k - 1) \X Tes
        BY <3>1, <3>2
      <4> QED BY <4>1, <3>1 DEF UptoWaits
    <3>3. CASE w[1] = k
      <4>1. w \in {k} \X V
        BY <3>1, <3>3
      <4> QED BY <4>1
    <3> QED BY <3>1, <3>2, <3>3, <1>1
  <2>2. ASSUME NEW w \in A PROVE w \in UptoWaits(d, k)
    <3>1. w = <<w[1], w[2]>> /\ w[1] \in 1 .. k - 1 /\ w[2] \in Tes /\ w[2] \in Waiting(d, w[1])
      BY DEF UptoWaits
    <3>2. w \in (1 .. k) \X Tes
      BY <3>1, <1>1
    <3> QED BY <3>1, <3>2 DEF UptoWaits
  <2>3. ASSUME NEW w \in B PROVE w \in UptoWaits(d, k)
    <3>1. w = <<w[1], w[2]>> /\ w[1] = k /\ w[2] \in V
      OBVIOUS
    <3>2. w \in (1 .. k) \X Tes
      BY <3>1, <1>1, <1>3
    <3> QED BY <3>1, <3>2 DEF UptoWaits
  <2> HIDE DEF A, B
  <2> QED BY <2>1, <2>2, <2>3
<1>6. A \cap B = {}
  <2> SUFFICES ASSUME NEW w \in A, w \in B PROVE FALSE
    OBVIOUS
  <2>1. w[1] \in 1 .. k - 1
    BY DEF UptoWaits
  <2>2. w[1] = k
    OBVIOUS
  <2> QED BY <2>1, <2>2
<1> HIDE DEF A, B, V
<1>7. Cardinality(A \cup B) = Cardinality(A) + Cardinality(B) - Cardinality({})
  BY <1>2, <1>4, <1>6, FS_Union
<1>8. Cardinality({}) = 0
  BY FS_EmptySet
<1> QED BY <1>2, <1>3, <1>4, <1>5, <1>7, <1>8 DEF Count

LEMMA CountGrows ==
  ASSUME NEW d, NEW m \in Nat, NEW k \in Nat, m <= k
  PROVE  Count(d, m) <= Count(d, k)
<1>1. UptoWaits(d, m) \subseteq UptoWaits(d, k)
  <2>1. ASSUME NEW w \in UptoWaits(d, m) PROVE w \in UptoWaits(d, k)
    <3>1. w = <<w[1], w[2]>> /\ w[1] \in 1 .. m /\ w[2] \in Tes /\ w[2] \in Waiting(d, w[1])
      BY DEF UptoWaits
    <3>2. w[1] \in 1 .. k
      BY <3>1
    <3>3. w \in (1 .. k) \X Tes
      BY <3>1, <3>2
    <3> QED BY <3>1, <3>3 DEF UptoWaits
  <2> QED BY <2>1
<1> QED BY <1>1, UptoWaitsIs, FS_Subset DEF Count

\* The lists do not overlap.
LEMMA ListsApart ==
  ASSUME NEW d
  PROVE  /\ \A k \in Tes : /\ InvertedEnd(d, k) \in Nat /\ Start(d, k) \in Nat
                           /\ Start(d, k) + Waits(d, k) = InvertedEnd(d, k)
                           /\ InvertedEnd(d, k) <= InvertedEnd(d, NumTes)
         /\ \A k, m \in Tes : k < m => InvertedEnd(d, k) < Start(d, m)
<1>1. \A k : InvertedEnd(d, k) = 1 + k + Count(d, k)
  BY DEF InvertedEnd, Count, UptoWaits
<1>2. \A k \in Tes : k \in Nat \ {0} /\ k - 1 \in Nat /\ k <= NumTes /\ NumTes \in Nat
  BY EdgeAssumption DEF Tes
<1>3. ASSUME NEW k \in Tes
      PROVE  /\ Count(d, k) \in Nat /\ Count(d, k - 1) \in Nat /\ Waits(d, k) \in Nat
             /\ Count(d, k) = Count(d, k - 1) + Waits(d, k) /\ Count(d, k) <= Count(d, NumTes) /\ Count(d, NumTes) \in Nat
  BY <1>2, UptoWaitsIs, WaitsAre, CountNext, CountGrows
<1>4. \A k \in Tes : InvertedEnd(d, k) \in Nat /\ Start(d, k) = 1 + k + Count(d, k - 1) /\ Start(d, k) \in Nat
                     /\ Start(d, k) + Waits(d, k) = InvertedEnd(d, k) /\ InvertedEnd(d, k) <= InvertedEnd(d, NumTes)
  BY <1>1, <1>2, <1>3 DEF Start
<1>5. ASSUME NEW k \in Tes, NEW m \in Tes, k < m PROVE InvertedEnd(d, k) < Start(d, m)
  <2>1. k <= m - 1 /\ k \in Nat /\ m - 1 \in Nat
    BY <1>2, <1>5
  <2>2. Count(d, k) <= Count(d, m - 1)
    BY <2>1, CountGrows
  <2> QED BY <2>1, <2>2, <1>1, <1>2, <1>3, <1>4, <1>5
<1> QED BY <1>4, <1>5

\* The cells of a list are as many as wait, and each gets one of its own.
LEMMA CellsFit ==
  ASSUME NEW d, NEW k \in Tes
  PROVE  /\ \A i \in Waiting(d, k) : InvertedCell(d, k, i) \in Start(d, k) .. InvertedEnd(d, k) - 1
         /\ \A i, j \in Waiting(d, k) : InvertedCell(d, k, i) = InvertedCell(d, k, j) => i = j
         /\ \A c \in Start(d, k) .. InvertedEnd(d, k) - 1 : \E i \in Waiting(d, k) : InvertedCell(d, k, i) = c
<1> DEFINE V == Waiting(d, k)
           n == Waits(d, k)
           s == Start(d, k)
           Later(i) == {h \in V : h >= i}
           f == [i \in V |-> Cardinality(Later(i))]
<1>1. IsFiniteSet(V) /\ V \subseteq Nat /\ n = Cardinality(V) /\ n \in Nat /\ V \subseteq Int
  BY WaitsAre DEF Waits, Tes
<1>2. s \in Nat /\ InvertedEnd(d, k) = s + n
  BY ListsApart
<1>3. ASSUME NEW i \in V
      PROVE  /\ InvertedCell(d, k, i) = s + f[i] - 1 /\ f[i] = Cardinality(Later(i))
             /\ IsFiniteSet(Later(i)) /\ i \in Later(i) /\ f[i] \in 1 .. n
  <2>1. InvertedCell(d, k, i) = s + f[i] - 1
    BY DEF InvertedCell, Start, Waits
  <2>2. Later(i) \subseteq V /\ i \in Later(i)
    BY <1>1
  <2> HIDE DEF V, Later
  <2>3. IsFiniteSet(Later(i)) /\ Cardinality(Later(i)) <= n /\ Cardinality(Later(i)) \in Nat
    BY <2>2, <1>1, FS_Subset, FS_CardinalityType
  <2>4. Cardinality(Later(i)) # 0
    BY <2>2, <2>3, FS_EmptySet
  <2>5. f[i] = Cardinality(Later(i))
    OBVIOUS
  <2> QED BY <2>1, <2>2, <2>3, <2>4, <2>5, <1>1
<1>4. ASSUME NEW i \in V, NEW j \in V, i < j PROVE f[i] # f[j]
  <2>1. Later(j) \subseteq Later(i)
    BY <1>1, <1>4
  <2>2. i \notin Later(j)
    BY <1>1, <1>4
  <2>3. IsFiniteSet(Later(i)) /\ i \in Later(i) /\ f[i] = Cardinality(Later(i)) /\ f[j] = Cardinality(Later(j))
    BY <1>3
  <2> HIDE DEF Later, f
  <2>4. Cardinality(Later(i)) = Cardinality(Later(j)) => Later(i) = Later(j)
    BY <2>1, <2>3, FS_Subset
  <2> QED BY <2>2, <2>3, <2>4
<1>5. \A i, j \in V : f[i] = f[j] => i = j
  <2> SUFFICES ASSUME NEW i \in V, NEW j \in V, f[i] = f[j] PROVE i = j
    OBVIOUS
  <2>1. i \in Nat /\ j \in Nat
    BY <1>1
  <2> HIDE DEF f, V
  <2>2. ~(i < j) /\ ~(j < i)
    BY <1>4
  <2> QED BY <2>1, <2>2
<1>6. \A c \in 1 .. n : \E i \in V : f[i] = c
  <2>1. f \in [V -> 1 .. n]
    <3>1. \A i \in V : f[i] \in 1 .. n
      BY <1>3
    <3> QED BY <3>1
  <2>2. IsFiniteSet(1 .. n) /\ Cardinality(1 .. n) = n
    BY <1>1, FS_Interval
  <2> HIDE DEF f, V, n
  <2>3. f \in Injection(V, 1 .. n)
    BY <2>1, <1>5 DEF Injection, IsInjective
  <2>4. f \in Surjection(V, 1 .. n)
    BY <2>2, <2>3, <1>1, FS_Injection
  <2> QED BY <2>4 DEF Surjection
<1>7. \A i \in V : f[i] \in 1 .. n /\ InvertedCell(d, k, i) = s + f[i] - 1
  BY <1>3
<1> HIDE DEF V, n, s, f, Later
<1>8. \A i \in V : InvertedCell(d, k, i) \in s .. s + n - 1
  BY <1>1, <1>2, <1>7
<1>9. \A i, j \in V : InvertedCell(d, k, i) = InvertedCell(d, k, j) => i = j
  <2> SUFFICES ASSUME NEW i \in V, NEW j \in V, InvertedCell(d, k, i) = InvertedCell(d, k, j) PROVE i = j
    OBVIOUS
  <2>1. f[i] = f[j]
    BY <1>1, <1>2, <1>7
  <2> QED BY <2>1, <1>5
<1>10. ASSUME NEW c \in s .. s + n - 1 PROVE \E i \in V : InvertedCell(d, k, i) = c
  <2>1. c - s + 1 \in 1 .. n
    BY <1>1, <1>2
  <2>2. PICK i \in V : f[i] = c - s + 1
    BY <2>1, <1>6
  <2>3. s + (c - s + 1) - 1 = c
    BY <1>1, <1>2
  <2> QED BY <2>2, <2>3, <1>7
<1>11. InvertedEnd(d, k) - 1 = s + n - 1
  BY <1>1, <1>2
<1>12. \A c \in s .. s + n - 1 : \E i \in V : InvertedCell(d, k, i) = c
  BY <1>10
<1> HIDE DEF V, s, n
<1>13. /\ \A i \in V : InvertedCell(d, k, i) \in s .. InvertedEnd(d, k) - 1
       /\ \A i, j \in V : InvertedCell(d, k, i) = InvertedCell(d, k, j) => i = j
       /\ \A c \in s .. InvertedEnd(d, k) - 1 : \E i \in V : InvertedCell(d, k, i) = c
  BY <1>8, <1>9, <1>11, <1>12
<1> QED BY <1>13 DEF V, s

\* Each cell is the one of one that waits, or the end of a list.
Owners(d, c) == {w \in Tes \X Tes : w[2] \in Waiting(d, w[1]) /\ c = InvertedCell(d, w[1], w[2])}

LEMMA OwnersAre ==
  ASSUME NEW d, NEW k \in Tes
  PROVE  /\ \A i \in Waiting(d, k) : Owners(d, InvertedCell(d, k, i)) = {<<k, i>>}
         /\ Owners(d, InvertedEnd(d, k)) = {}
<1>1. ASSUME NEW m \in Tes, NEW c \in Start(d, m) .. InvertedEnd(d, m) - 1, c \in Start(d, k) .. InvertedEnd(d, k)
      PROVE  m = k /\ c # InvertedEnd(d, k)
  <2> DEFINE s == Start(d, k)
             e == InvertedEnd(d, k)
             t == Start(d, m)
             f == InvertedEnd(d, m)
  <2>1. s \in Nat /\ e \in Nat /\ t \in Nat /\ f \in Nat /\ (k < m => e < t) /\ (m < k => f < s) /\ k \in Nat /\ m \in Nat
        /\ (m = k => e = f)
    <3>1. k \in Nat /\ m \in Nat
      BY DEF Tes
    <3>2. s \in Nat /\ e \in Nat /\ t \in Nat /\ f \in Nat
      BY ListsApart
    <3>3. (k < m => e < t) /\ (m < k => f < s)
      BY ListsApart
    <3> QED BY <3>1, <3>2, <3>3
  <2>2. c \in t .. f - 1 /\ c \in s .. e
    BY <1>1
  <2> HIDE DEF s, e, t, f
  <2>3. m = k
    BY <2>1, <2>2
  <2>4. c # e
    BY <2>1, <2>2, <2>3
  <2> QED BY <2>3, <2>4 DEF e
<1>2. \A m \in Tes : \A i \in Waiting(d, m) : i \in Tes /\ InvertedCell(d, m, i) \in Start(d, m) .. InvertedEnd(d, m) - 1
  BY CellsFit, WaitsAre
<1>3. ASSUME NEW c, NEW w \in Owners(d, c)
      PROVE  w = <<w[1], w[2]>> /\ w[1] \in Tes /\ w[2] \in Waiting(d, w[1]) /\ c = InvertedCell(d, w[1], w[2])
  BY DEF Owners
<1>4. Start(d, k) \in Nat /\ InvertedEnd(d, k) \in Nat /\ Start(d, k) <= InvertedEnd(d, k)
  <2> DEFINE n == Waits(d, k)
             s == Start(d, k)
             e == InvertedEnd(d, k)
  <2>1. n \in Nat /\ s \in Nat /\ e \in Nat
    BY WaitsAre, ListsApart
  <2>2. s + n = e
    BY ListsApart
  <2> HIDE DEF n, s, e
  <2>3. s <= e
    BY <2>1, <2>2
  <2> QED BY <2>1, <2>3 DEF s, e
<1>5. ASSUME NEW i \in Waiting(d, k) PROVE Owners(d, InvertedCell(d, k, i)) = {<<k, i>>}
  <2> DEFINE c == InvertedCell(d, k, i)
  <2>1. c \in Start(d, k) .. InvertedEnd(d, k)
    BY <1>2, <1>4
  <2>2. ASSUME NEW w \in Owners(d, c) PROVE w = <<k, i>>
    <3>1. w = <<w[1], w[2]>> /\ w[1] \in Tes /\ w[2] \in Waiting(d, w[1]) /\ c = InvertedCell(d, w[1], w[2])
      BY <1>3
    <3>2. w[1] = k
      BY <3>1, <2>1, <1>1, <1>2
    <3>3. w[2] = i
      BY <3>1, <3>2, CellsFit
    <3> QED BY <3>1, <3>2, <3>3
  <2>3. <<k, i>> \in Owners(d, c)
    <3>1. <<k, i>> \in Tes \X Tes
      BY <1>2
    <3> QED BY <3>1 DEF Owners
  <2> QED BY <2>2, <2>3
<1>6. Owners(d, InvertedEnd(d, k)) = {}
  <2> DEFINE c == InvertedEnd(d, k)
  <2> SUFFICES ASSUME NEW w \in Owners(d, c) PROVE FALSE
    OBVIOUS
  <2>1. w[1] \in Tes /\ w[2] \in Waiting(d, w[1]) /\ c = InvertedCell(d, w[1], w[2])
    BY <1>3
  <2>2. c \in Start(d, k) .. InvertedEnd(d, k)
    BY <1>4
  <2> QED BY <2>1, <2>2, <1>1, <1>2
<1> QED BY <1>5, <1>6

\* The new array, and its lists.
Turned(d) ==
  [c \in 0 .. (InvertedEnd(d, NumTes) + 1) - 1 |-> IF Owners(d, c) = {} THEN 0 ELSE (CHOOSE w \in Owners(d, c) : TRUE)[2]]

LEMMA ListIs ==
  ASSUME NEW d, NEW k \in Tes
  PROVE  ListAt(Turned(d), Start(d, k)) = Waiting(d, k)
<1> DEFINE V == Waiting(d, k)
           s == Start(d, k)
           e == InvertedEnd(d, k)
           a == Turned(d)
           D == {c \in DOMAIN a : c >= s /\ \A b \in s .. c : a[b] # 0}
<1>1. s \in Nat /\ e \in Nat /\ s <= e /\ e <= InvertedEnd(d, NumTes) /\ InvertedEnd(d, NumTes) \in Nat
  <2>1. Waits(d, k) \in Nat /\ NumTes \in Tes
    BY WaitsAre, EdgeAssumption DEF Tes
  <2> QED BY <2>1, ListsApart
<1>2. DOMAIN a = 0 .. InvertedEnd(d, NumTes)
  BY <1>1 DEF Turned
<1>3. \A c \in DOMAIN a : a[c] = IF Owners(d, c) = {} THEN 0 ELSE (CHOOSE w \in Owners(d, c) : TRUE)[2]
  BY DEF Turned
<1>4. ASSUME NEW i \in V PROVE InvertedCell(d, k, i) \in s .. e - 1 /\ a[InvertedCell(d, k, i)] = i /\ i # 0
  <2> DEFINE c == InvertedCell(d, k, i)
  <2>1. c \in s .. e - 1
    BY CellsFit
  <2>2. c \in DOMAIN a
    BY <2>1, <1>1, <1>2
  <2>3. Owners(d, c) = {<<k, i>>}
    BY OwnersAre
  <2>4. (CHOOSE w \in {<<k, i>>} : TRUE) = <<k, i>>
    OBVIOUS
  <2>5. a[c] = i
    BY <2>2, <2>3, <2>4, <1>3
  <2>6. i # 0
    BY WaitsAre DEF Tes
  <2> QED BY <2>1, <2>5, <2>6
<1>5. a[e] = 0
  <2>1. e \in DOMAIN a
    BY <1>1, <1>2
  <2>2. Owners(d, e) = {}
    BY OwnersAre
  <2> QED BY <2>1, <2>2, <1>3
<1>6. \A c \in s .. e - 1 : \E i \in V : InvertedCell(d, k, i) = c
  BY CellsFit
<1>7. ListAt(a, s) = {a[c] : c \in D}
  BY DEF ListAt
<1>8. D = s .. e - 1
  <2> HIDE DEF a, s, e, V
  <2>1. \A c \in s .. e - 1 : a[c] # 0 /\ c \in DOMAIN a
    BY <1>1, <1>2, <1>4, <1>6
  <2>2. ASSUME NEW c \in s .. e - 1 PROVE c \in D
    <3>1. \A b \in s .. c : b \in s .. e - 1
      BY <1>1
    <3> QED BY <2>1, <3>1, <1>1
  <2>3. ASSUME NEW c \in D PROVE c \in s .. e - 1
    <3>1. c \in Nat /\ c >= s
      BY <1>1, <1>2
    <3>2. e \notin s .. c
      BY <1>5
    <3> QED BY <3>1, <3>2, <1>1
  <2> HIDE DEF D
  <2> QED BY <2>2, <2>3
<1> HIDE DEF a, s, e, V, D
<1>9. {a[c] : c \in s .. e - 1} = V
  BY <1>4, <1>6
<1> QED BY <1>7, <1>8, <1>9 DEF a, s, V

----------------------------------------------------------------------------

(***************************************************************************)
(* The invariant: until the edges are turned round, they are in place.     *)
(***************************************************************************)
EdgesIn == (inverted = Nothing => IsEdges(od, asked)) /\ InvertedWaits

LEMMA InvertDoes == EdgesIn /\ Invert => EdgesIn'
<1> SUFFICES ASSUME EdgesIn, Invert PROVE EdgesIn'
  OBVIOUS
<1> DEFINE E == [k \in Tes |-> InvertedEnd(od, k) - Cardinality(Waiting(od, k))]
<1>1. inverted' = [edges |-> E, invedgedata |-> Turned(od), ninvedgedata |-> EndOf(od, NumTes) + 1]
  BY DEF Invert, Turned, Owners
<1>2. IsEdges(od, asked) /\ asked' = asked
  BY DEF EdgesIn, Invert
<1> HIDE DEF E
<1>3. inverted'.edges = E /\ inverted'.invedgedata = Turned(od)
  BY <1>1
<1>4. inverted' # Nothing
  <2>1. "edges" \in DOMAIN inverted'
    BY <1>1
  <2>2. DOMAIN Nothing = {}
    BY DEF Nothing
  <2> QED BY <2>1, <2>2
<1>5. ASSUME NEW k \in Tes
      PROVE  ListAt(inverted'.invedgedata, inverted'.edges[k])
               = {i \in Tes : (\E b \in Bits : <<i, k, b>> \in asked') /\ <<i, k, TYPE_BROKEN>> \notin asked'}
  <2>1. E[k] = Start(od, k)
    BY DEF E, Start, Waits
  <2>2. ListAt(Turned(od), Start(od, k)) = Waiting(od, k)
    BY ListIs
  <2>3. Waiting(od, k) = {i \in Tes : (\E b \in Bits : <<i, k, b>> \in asked) /\ <<i, k, TYPE_BROKEN>> \notin asked}
    BY <1>2, WaitingIs
  <2> QED BY <2>1, <2>2, <2>3, <1>2, <1>3
<1>6. InvertedWaits'
  BY <1>5 DEF InvertedWaits
<1> QED BY <1>4, <1>6 DEF EdgesIn

LEMMA StaysEdges == EdgesIn /\ [EdgeNext]_edgeVars => EdgesIn'
<1> SUFFICES ASSUME EdgesIn, [EdgeNext]_edgeVars PROVE EdgesIn'
  OBVIOUS
<1>1. CASE AddEdge
  <2>1. PICK from, to \in Tes, bit \in Bits \ {TYPE_BROKEN} :
          /\ inverted = Nothing /\ od' = addteedge(od, from, to, bit)
          /\ asked' = IF from = to THEN asked ELSE asked \cup {<<from, to, bit>>}
          /\ inverted' = inverted
    BY <1>1 DEF AddEdge
  <2>2. IsEdges(od, asked)
    BY <2>1 DEF EdgesIn
  <2>3. CASE from = to
    <3>1. od' = od /\ asked' = asked
      BY <2>1, <2>3 DEF addteedge
    <3> QED BY <2>1, <2>2, <3>1 DEF EdgesIn, InvertedWaits
  <2>4. CASE from # to
    <3>1. asked' = With(asked, from, to, bit)
      BY <2>1, <2>4 DEF With
    <3>2. IsEdges(od', asked')
      BY <2>1, <2>2, <2>4, <3>1, AddIs
    <3> QED BY <2>1, <3>2 DEF EdgesIn, InvertedWaits
  <2> QED BY <2>3, <2>4
<1>2. CASE BreakEdge
  <2>0. PICK te \in Tes : \E i \in PairsOf(od, te) :
          /\ inverted = Nothing
          /\ od' = [od EXCEPT !.edgedata[i + 1] = Or(@, TYPE_BROKEN)]
          /\ asked' = asked \cup {<<te, od.edgedata[i], TYPE_BROKEN>>}
          /\ inverted' = inverted
    BY <1>2 DEF BreakEdge
  <2>1. PICK i \in PairsOf(od, te) :
          /\ inverted = Nothing
          /\ od' = [od EXCEPT !.edgedata[i + 1] = Or(@, TYPE_BROKEN)]
          /\ asked' = asked \cup {<<te, od.edgedata[i], TYPE_BROKEN>>}
          /\ inverted' = inverted
    BY <2>0
  <2>2. IsEdges(od, asked) /\ TYPE_BROKEN \in Bits
    BY <2>1, EdgeAssumption DEF EdgesIn
  <2>3. asked' = With(asked, te, od.edgedata[i], TYPE_BROKEN)
    BY <2>1 DEF With
  <2>4. IsEdges(od', asked')
    BY <2>1, <2>2, <2>3, BrokenIs
  <2> QED BY <2>1, <2>4 DEF EdgesIn, InvertedWaits
<1>3. CASE Invert
  BY <1>3, InvertDoes
<1>4. CASE Clone
  BY <1>4 DEF Clone, EdgesIn, InvertedWaits
<1>5. CASE UNCHANGED edgeVars
  BY <1>5 DEF edgeVars, EdgesIn, InvertedWaits
<1> QED BY <1>1, <1>2, <1>3, <1>4, <1>5 DEF EdgeNext

\* The edges of a transaction are those that were asked for as lists grow, move and
\* share cells, and turned round they are those that wait for each element
\* (addteedge, breakcycle and transaction_order), of any number of elements.
THEOREM EdgesAreSound == EdgeSpec => []EdgesSound
<1>1. EdgeInit => EdgesIn
  BY NoneIs DEF EdgeInit, EdgesIn, InvertedWaits
<1>2. EdgesIn => EdgesSound
  <2> SUFFICES ASSUME EdgesIn PROVE EdgesKept /\ InvertedWaits
    BY DEF EdgesSound
  <2>1. CASE inverted = Nothing
    BY <2>1, KeptIs DEF EdgesIn
  <2>2. CASE inverted # Nothing
    BY <2>2 DEF EdgesKept, EdgesIn
  <2> QED BY <2>1, <2>2
<1> QED BY <1>1, <1>2, StaysEdges, PTL DEF EdgeSpec
=============================================================================
