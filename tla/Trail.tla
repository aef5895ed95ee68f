------------------------------- MODULE Trail -------------------------------
(***************************************************************************)
(* The solver's trail: decisionq, decisionq_why and decisionmap (solver.h, *)
(* solver.c), which the C code keeps in three arrays and updates together. *)
(* A trail is a record                                                     *)
(*    q   : decisionq, the literals decided, oldest first                  *)
(*    why : decisionq_why, per decision the rule that forced it, or minus  *)
(*          the rule a free decision was taken for, or 0                   *)
(*    map : decisionmap, per solvable the signed level of its decision     *)
(***************************************************************************)
EXTENDS Rules

EmptyTrail(n) == [q |-> <<>>, why |-> <<>>, map |-> [p \in 1..n |-> 0]]

\* Literal l is decided at level lev; every caller writes the three together.
Decide(t, l, reason, lev) ==
  [q   |-> Append(t.q, l),
   why |-> Append(t.why, reason),
   map |-> [t.map EXCEPT ![Var(l)] = IF l > 0 THEN lev ELSE -lev]]

\* A slip: the decisions are popped, but their entries in decisionmap stay.
Cut_QueueOnly(t, k) ==
  [q |-> SubSeq(t.q, 1, k), why |-> SubSeq(t.why, 1, k), map |-> t.map]

\* The trail whose decisions after the k-th have been popped.
Cut(t, k) ==
  [q   |-> SubSeq(t.q, 1, k),
   why |-> SubSeq(t.why, 1, k),
   map |-> [p \in DOMAIN t.map |->
              IF \E j \in (k + 1)..Len(t.q) : Var(t.q[j]) = p
                THEN 0 ELSE t.map[p]]]

\* How many decisions revert(level) keeps: it pops until the last one is of
\* that level or below.
Kept(t, lev) ==
  Max({0} \cup {k \in DOMAIN t.q : Level(t.map[Var(t.q[k])]) <= lev})

----------------------------------------------------------------------------
(* What the three arrays must agree on.                                    *)

TrailType(t, n) ==
  /\ t.q \in Seq(Literals(1..n))
  /\ t.why \in Seq(Int)
  /\ t.map \in [1..n -> Int]

\* decisionq_why has an entry per decision, and a decided solvable is on the
\* queue exactly once, with the sign its level has in decisionmap.
Agrees(t) ==
  /\ Len(t.why) = Len(t.q)
  /\ \A k \in DOMAIN t.q : IsTrue(t.map, t.q[k])
  /\ \A j, k \in DOMAIN t.q : Var(t.q[j]) = Var(t.q[k]) => j = k
  /\ \A p \in DOMAIN t.map : t.map[p] # 0 => \E k \in DOMAIN t.q : Var(t.q[k]) = p

\* Levels never decrease along the queue: popping to a level removes exactly
\* the decisions above it.
Sorted(t) ==
  \A j, k \in DOMAIN t.q :
    j <= k => Level(t.map[Var(t.q[j])]) <= Level(t.map[Var(t.q[k])])
=============================================================================
