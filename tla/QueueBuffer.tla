----------------------------- MODULE QueueBuffer ----------------------------
(***************************************************************************)
(* The queues everything else is built on (src/queue.c, src/queue.h): a    *)
(* sequence of ids somewhere in a block of memory, which is the caller's   *)
(* until it gets too small.                                                *)
(*   A queue is [alloc, size, off, count, left, cells]: whether it has a   *)
(* block of its own, how many cells the block has, where in it the         *)
(* elements begin and how many there are, and the cells that are left      *)
(* behind them. cells are all of memory: a write past the block happens.   *)
(***************************************************************************)
EXTENDS Integers, Sequences

CONSTANTS
  EXTRA_SPACE, EXTRA_SPACE_HEAD,  \* room made when there is none left
  Memory,       \* bound: cells
  MaxCount,     \* bound: elements of a queue
  QueueIds,     \* what is put into queues
  BufferSizes   \* sizes of buffers of callers

ASSUME QueueAssumption ==
  /\ EXTRA_SPACE \in Nat \ {0} /\ EXTRA_SPACE_HEAD \in Nat \ {0}
  /\ Memory \in Nat /\ MaxCount \in Nat /\ BufferSizes \subseteq Nat

VARIABLE q

Lesser(a, b) == IF a < b THEN a ELSE b

\* memmove, memcpy: n cells.
Move(cells, to, from, n) ==
  [i \in DOMAIN cells |-> IF i \in to .. to + n - 1 THEN cells[i - to + from] ELSE cells[i]]

\* What nobody has written, or nobody will read again.
Stale == -1

queue_init == [alloc |-> FALSE, size |-> 0, off |-> 0, count |-> 0, left |-> 0, cells |-> [i \in 0 .. Memory - 1 |-> Stale]]

queue_init_buffer(size) == [queue_init EXCEPT !.size = size, !.left = size]

queue_init_clone(s) ==
  IF ~s.alloc /\ s.size = 0 THEN queue_init
  ELSE [s EXCEPT !.alloc = TRUE, !.size = s.count + EXTRA_SPACE, !.off = 0, !.left = EXTRA_SPACE,
                 !.cells = Move(s.cells, 0, s.off, s.count)]

\* A block of its own, the room in front, or a larger block.
queue_alloc_one(s) ==
  IF ~s.alloc THEN [s EXCEPT !.alloc = TRUE, !.size = s.count + EXTRA_SPACE, !.off = 0, !.left = EXTRA_SPACE,
                             !.cells = Move(s.cells, 0, s.off, s.count)]
  ELSE IF s.off # 0 THEN [s EXCEPT !.off = 0, !.left = s.left + s.off, !.cells = Move(s.cells, 0, s.off, s.count)]
  ELSE [s EXCEPT !.size = s.count + EXTRA_SPACE, !.left = EXTRA_SPACE]

\* Mutant: the caller's buffer is used like a block.
AllocHead_Full(s) ==
  LET r == IF s.left = 0 THEN queue_alloc_one(s) ELSE s
      l == Lesser(r.left, EXTRA_SPACE_HEAD)
  IN  [r EXCEPT !.off = r.off + l, !.left = r.left, !.cells = Move(r.cells, r.off + l, r.off, r.count)]

queue_alloc_one_head(s) ==
  LET r == IF ~s.alloc \/ s.left = 0 THEN queue_alloc_one(s) ELSE s
      l == Lesser(r.left, EXTRA_SPACE_HEAD)
  IN  [r EXCEPT !.off = r.off + l, !.left = r.left - l, !.cells = Move(r.cells, r.off + l, r.off, r.count)]

queue_push(s, id) ==
  LET r == IF s.left = 0 THEN queue_alloc_one(s) ELSE s
  IN  [r EXCEPT !.cells[r.off + r.count] = id, !.count = r.count + 1, !.left = r.left - 1]

queue_pushunique(s, id) ==
  IF \E i \in 0 .. s.count - 1 : s.cells[s.off + i] = id THEN s ELSE queue_push(s, id)

queue_unshift(s, id) ==
  LET r == IF ~s.alloc \/ s.off = 0 THEN queue_alloc_one_head(s) ELSE s
  IN  [r EXCEPT !.off = r.off - 1, !.cells[r.off - 1] = id, !.count = r.count + 1]

queue_shift(s) == IF s.count = 0 THEN s ELSE [s EXCEPT !.off = s.off + 1, !.count = s.count - 1]

\* Mutant: something is popped from an empty queue.
Pop_Empty(s) == [s EXCEPT !.left = s.left + 1, !.count = s.count - 1]

queue_pop(s) == IF s.count = 0 THEN s ELSE [s EXCEPT !.left = s.left + 1, !.count = s.count - 1]

\* What was shifted out of a caller's buffer is gone.
queue_empty(s) ==
  IF s.alloc THEN [s EXCEPT !.off = 0, !.left = s.left + s.off + s.count, !.count = 0]
  ELSE [s EXCEPT !.left = s.left + s.count, !.count = 0]

queue_truncate(s, n) == IF s.count > n THEN [s EXCEPT !.left = s.left + s.count - n, !.count = n] ELSE s

queue_insert(s, pos, id) ==
  LET r == queue_push(s, id)
      at == r.off + pos
  IN  IF pos >= r.count - 1 THEN r
      ELSE [r EXCEPT !.cells = [Move(r.cells, at + 1, at, r.count - 1 - pos) EXCEPT ![at] = id]]

queue_insert2(s, pos, id1, id2) ==
  LET r == queue_push(queue_push(s, id1), id2)
      at == r.off + pos
  IN  IF pos >= r.count - 2 THEN r
      ELSE [r EXCEPT !.cells = [Move(r.cells, at + 2, at, r.count - 2 - pos) EXCEPT ![at] = id1, ![at + 1] = id2]]

\* n zeros. What was shifted out stays in front of a larger block.
queue_insertn(s, pos, n) ==
  LET a == IF s.left < n /\ ~s.alloc THEN queue_alloc_one(s) ELSE s
      r == IF s.left < n THEN [a EXCEPT !.size = a.off + a.count + n + EXTRA_SPACE, !.left = n + EXTRA_SPACE] ELSE a
      p == Lesser(pos, r.count)
      moved == Move(r.cells, r.off + p + n, r.off + p, r.count - p)
  IN  IF n <= 0 THEN s
      ELSE [r EXCEPT !.left = r.left - n, !.count = r.count + n,
                     !.cells = [i \in DOMAIN moved |-> IF i \in r.off + p .. r.off + p + n - 1 THEN 0 ELSE moved[i]]]

queue_delete(s, pos) ==
  IF pos >= s.count THEN s
  ELSE [s EXCEPT !.left = s.left + 1, !.count = s.count - 1,
                 !.cells = Move(s.cells, s.off + pos, s.off + pos + 1, s.count - 1 - pos)]

\* Mutant: the last element alone counts as two.
Delete2_Pair(s, pos) ==
  IF pos >= s.count THEN s
  ELSE [s EXCEPT !.left = s.left + 2, !.count = s.count - 2,
                 !.cells = Move(s.cells, s.off + pos, s.off + pos + 2, s.count - 2 - pos)]

queue_delete2(s, pos) ==
  IF pos >= s.count THEN s
  ELSE IF pos = s.count - 1 THEN [s EXCEPT !.left = s.left + 1, !.count = s.count - 1]
  ELSE [s EXCEPT !.left = s.left + 2, !.count = s.count - 2,
                 !.cells = Move(s.cells, s.off + pos, s.off + pos + 2, s.count - 2 - pos)]

queue_deleten(s, pos, n) ==
  LET k == Lesser(n, s.count - pos)
  IN  IF n <= 0 \/ pos >= s.count THEN s
      ELSE [s EXCEPT !.left = s.left + k, !.count = s.count - k,
                     !.cells = Move(s.cells, s.off + pos, s.off + pos + k, s.count - k - pos)]

----------------------------------------------------------------------------

QueueInit == q \in {queue_init} \cup {queue_init_buffer(size) : size \in BufferSizes}

Elements(s) == s.off .. s.off + s.count - 1

\* A queue grows no further than the bounds; only its elements have values.
Becomes(s) ==
  /\ s.count <= MaxCount /\ s.size <= Memory
  /\ q' = [s EXCEPT !.cells = [i \in DOMAIN s.cells |-> IF i \in Elements(s) THEN s.cells[i] ELSE Stale]]

Positions == 0 .. MaxCount

Push == \E id \in QueueIds : Becomes(queue_push(q, id)) \/ Becomes(queue_pushunique(q, id)) \/ Becomes(queue_unshift(q, id))

Take == Becomes(queue_shift(q)) \/ Becomes(queue_pop(q))

Insert ==
  \E pos \in Positions, id \in QueueIds :
    \/ Becomes(queue_insert(q, pos, id))
    \/ \E id2 \in QueueIds : Becomes(queue_insert2(q, pos, id, id2))
    \/ \E n \in Positions : Becomes(queue_insertn(q, pos, n))

Delete ==
  \E pos \in Positions :
    \/ Becomes(queue_delete(q, pos)) \/ Becomes(queue_delete2(q, pos)) \/ Becomes(queue_truncate(q, pos))
    \/ \E n \in Positions : Becomes(queue_deleten(q, pos, n))

\* queue_free, and a queue that takes the place of another.
Anew == Becomes(queue_empty(q)) \/ Becomes(queue_init) \/ Becomes(queue_init_clone(q))

QueueNext == Push \/ Take \/ Insert \/ Delete \/ Anew

QueueSpec == QueueInit /\ [][QueueNext]_q

----------------------------------------------------------------------------

\* The elements of a queue and the room around them are the block, whichever
\* calls were made before (queue_alloc_one, queue_insertn and all that count
\* left by hand): nothing is ever written outside of it.
QueueFits == q.off >= 0 /\ q.count >= 0 /\ q.left >= 0 /\ q.off + q.count + q.left = q.size

Content(s) == [i \in 1 .. s.count |-> s.cells[s.off + i - 1]]

\* What a call leaves in the queue is what it should do with a sequence.
Does(s, content) == s.size <= Memory => Content(s) = content

From(s, i) == SubSeq(s, i + 1, Len(s))
Upto(s, i) == SubSeq(s, 1, Lesser(i, Len(s)))

\* From whatever layout former calls have left, each call on a queue does what it
\* would do with a sequence.
QueueIsSequence ==
  LET c == Content(q)
  IN  /\ Does(queue_shift(q), From(c, 1)) /\ Does(queue_pop(q), Upto(c, Len(c) - 1))
      /\ Does(queue_empty(q), <<>>) /\ Does(queue_init_clone(q), c)
      /\ \A id \in QueueIds :
           /\ Does(queue_push(q, id), Append(c, id)) /\ Does(queue_unshift(q, id), <<id>> \o c)
           /\ Does(queue_pushunique(q, id), IF \E i \in DOMAIN c : c[i] = id THEN c ELSE Append(c, id))
           /\ \A pos \in Positions :
                /\ Does(queue_insert(q, pos, id), Upto(c, pos) \o <<id>> \o From(c, pos))
                /\ \A id2 \in QueueIds : Does(queue_insert2(q, pos, id, id2), Upto(c, pos) \o <<id, id2>> \o From(c, pos))
      /\ \A pos \in Positions :
           /\ Does(queue_delete(q, pos), Upto(c, pos) \o From(c, pos + 1))
           /\ Does(queue_delete2(q, pos), Upto(c, pos) \o From(c, pos + 2))
           /\ Does(queue_truncate(q, pos), Upto(c, pos))
           /\ \A n \in Positions :
                /\ Does(queue_deleten(q, pos, n), Upto(c, pos) \o From(c, pos + n))
                /\ Does(queue_insertn(q, pos, n), Upto(c, pos) \o [i \in 1 .. n |-> 0] \o From(c, pos))
=============================================================================
