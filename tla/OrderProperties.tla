--------------------------- MODULE OrderProperties ---------------------------
(***************************************************************************)
(* What must hold of transaction_order and transaction_order_add_choices.  *)
(***************************************************************************)
EXTENDS TransactionOrder

EdgeLists(n) == [to : 1..n, type : SUBSET EdgeBits]

\* Every variable holds what the C code keeps in it.
OrderTypeOK ==
  LET n == Len(tes)
  IN  /\ PackagesOf(world) = 1..Len(world.name)
      /\ phase \in {"build", "search", "bind", "order", "done", "choose"}
      /\ \A i \in Elements : tes[i] \in PackagesOf(world)
      /\ DOMAIN edges = Elements /\ DOMAIN mark = Elements
      /\ \A i \in Elements : \A j \in DOMAIN edges[i] : edges[i][j] \in EdgeLists(n)
      /\ \A i \in Elements : mark[i] \in IF phase \in {"search", "bind"} THEN 0..2 ELSE (-1)..n
      /\ \A j \in DOMAIN todo : todo[j] \in (-n)..n /\ todo[j] # 0
      /\ \A k \in DOMAIN cycles : Range(cycles[k].tes) \subseteq Elements
      /\ Range(unbound) \subseteq Range(cycles)
      /\ Range(uninstq) \cup Range(samerepoq) \subseteq Elements
      /\ Range(steps) \cup Range(choices) \cup installed \subseteq PackagesOf(world)

----------------------------------------------------------------------------
(* The search                                                              *)

\* When the search meets an element it is visiting, the stack really holds a
\* cycle: two elements or more, all being visited, each with an unbroken edge to
\* the next and the last to the first.  The four assertions of the search
\* (assert(j >= 0), cycel > 1, te->mark == 1, edgedata[j]) rest on this, although
\* the restarts take elements back that others still have on the stack.
CycleOnStack ==
  phase = "search" /\ todo # <<>> /\ Top > 0 /\ mark[Top] = 1 =>
    /\ CycleStart > 0
    /\ Len(CycleChain) > 1
    /\ \A k \in DOMAIN CycleChain :
         /\ mark[CycleChain[k]] = 1
         /\ Depends(edges, CycleChain[k], Following(CycleChain, k))

\* An element that is done leads over unbroken edges to elements that are done
\* only, whatever cycles were broken since: it never has to be visited again.
DoneIsClosed ==
  phase = "search" =>
    \A i \in Elements : mark[i] = 2 => \A k \in Successors(edges, i) : mark[k] = 2

\* When the search has ended no cycle is left, and the edges that are added
\* afterwards to bind the former cycles together close none ("so we're not
\* creating a new cycle!").
NoCycleLeft == phase \notin {"build", "search"} => Acyclic(edges)

\* An edge is given up only where it must be: the dependencies at least as
\* strong as it lead back from its end to its start.  So a prerequisite is
\* violated only inside a cycle of prerequisites, and a conflict that forces a
\* removal first is always the first to go.
Strength(edge) == Weight(edge.type \ {TYPE_BROKEN, TYPE_CYCLETAIL, TYPE_CYCLEHEAD})
StrongLinks(w) ==
  UNION {{<<i, edges[i][j].to>> : j \in {n \in DOMAIN edges[i] : Strength(edges[i][n]) >= w}} :
           i \in Elements}
LeadBack(links, from, to) ==
  \A S \in SUBSET Elements :
    from \in S /\ (\A l \in links : l[1] \in S => l[2] \in S) => to \in S
BreaksTheWeakest ==
  \A i \in Elements : \A j \in DOMAIN edges[i] :
    ~Unbroken(edges[i][j]) =>
      LET w == Strength(edges[i][j])
      IN  w > 0 /\ LeadBack(StrongLinks(w), edges[i][j].to, i)

----------------------------------------------------------------------------
(* The order                                                               *)

Position(p) == SelectInSeq(steps, LAMBDA q : q = p)

\* In the finished order every element comes behind those it has an unbroken
\* edge to.
OrderRespectsEdges ==
  phase = "done" =>
    \A i, k \in Elements : Depends(edges, i, k) => Position(tes[k]) < Position(tes[i])

\* The ordered transaction has exactly the steps it had before, each once
\* (assert(tr->count == oldcount)), and no element still waits (assert(te->mark
\* == 0)), although the obsoleted packages were taken out and put back.
StepsKept ==
  phase = "done" =>
    /\ Range(steps) = TransactsMap(world) /\ Len(steps) = Cardinality(TransactsMap(world))
    /\ \A i \in Elements : mark[i] = 0

\* An obsoleted package is removed with the first package that replaces it.
ObsoletedFollow ==
  phase = "done" =>
    \A k \in DOMAIN steps : IsObsoleted(world, steps[k]) =>
      \E j \in 1..(k - 1) :
        /\ steps[j] \in Partners(world, steps[k])
        /\ \A m \in (j + 1)..(k - 1) : steps[m] \in Partners(world, steps[j])
        /\ \A m \in 1..(j - 1) : steps[m] \notin Partners(world, steps[k])

\* Without cycles, every package finds what it requires in place when its turn
\* comes, if it is there at all: a new package when it is installed, what is met
\* afterwards; one that goes, until it is removed, what was met before.
\* (transaction_check_order reports it when this fails for a package with
\* scripts.)  One that is replaced is not waited for if it has no scripts, or if
\* what it requires is replaced together with it.
Present(k) ==
  (world.old \cup Range(SubSeq(steps, 1, k))) \ (world.old \cap Range(SubSeq(steps, 1, k - 1)))
Provided(r, S) == Range(r.providers) \cap S # {}
Result == (world.old \ TransactsMap(world)) \cup (TransactsMap(world) \ world.old)
Met(p, r) == Provided(r, IF p \in world.old THEN world.old ELSE Result)
Waited(p, r) ==
  IsObsoleted(world, p) =>
    /\ havescripts(world, p)
    /\ \A q \in Range(r.providers) : Partners(world, q) \cap Partners(world, p) = {}
RequirementsInPlace ==
  phase = "done" /\ cycles = <<>> =>
    \A k \in DOMAIN steps : \A j \in DOMAIN world.requires[steps[k]] :
      LET r == world.requires[steps[k]][j]
      IN  Met(steps[k], r) /\ Waited(steps[k], r) => Provided(r, Present(k))

\* The medium is changed, and a package installed, only when nothing else can be
\* done on the current one, and an uninstall never waits for an install that
\* is not needed for it.
NoNeedlessChange ==
  [][steps # steps' /\ phase = "order" /\ phase' = "order" =>
       LET p == Last(steps')
           open == {i \in Elements : tes[i] \notin Range(steps) /\ mark[i] = 0}
       IN  p \in world.old \/
             /\ \A i \in open : ~IsUninstall(i)
             /\ last' # last => open \cap OnMedium(last) = {}]_vars

----------------------------------------------------------------------------
(* Cycles                                                                  *)

\* What was a cycle is handled in one go as far as dependencies tell: when no
\* edge of it but the one was broken, an element that needs one of the cycle,
\* and that the cycle does not lead to, comes behind all of it, and one that the
\* cycle needs and that does not lead to it comes before all of it.  This is so of
\* what packages need, not of the edges that bind other cycles.  The exception
\* is an element whose edge to the tail, or from the head, was broken in another
\* cycle: a broken edge stays broken when addteedge adds a reason to it.
Whole(c) == \A k \in 1..(Len(c) - 1) : Depends(edges, c[k], c[k + 1])
Broken(es, i, k) == \E j \in DOMAIN es[i] : es[i][j].to = k /\ ~Unbroken(es[i][j])
Needs(es, i, k) ==
  \E j \in DOMAIN es[i] : es[i][j].to = k /\ Unbroken(es[i][j]) /\ Strength(es[i][j]) > 0
CyclesStayTogether ==
  phase = "done" =>
    \A n \in DOMAIN cycles : LET c == cycles[n].tes IN Whole(c) =>
      \A i \in Elements \ Range(c) : \A k, m \in Range(c) :
        /\ /\ Needs(edges, i, k) /\ i \notin Reached(edges, Range(c))
           /\ ~Broken(edges, i, c[1])
           => Position(tes[m]) < Position(tes[i])
        /\ /\ Needs(edges, k, i) /\ Reached(edges, {i}) \cap Range(c) = {}
           /\ ~Broken(edges, Last(c), i)
           => Position(tes[i]) < Position(tes[m])

----------------------------------------------------------------------------
(* The promise                                                             *)

\* The ordering loop, and the application that is offered choices, handle the
\* elements as an order of their dependencies (module DependencyOrder) allows.
Handled ==
  CASE phase \in {"order"} -> {i \in Elements : tes[i] \in Range(steps)}
    [] phase = "done" -> Elements
    [] phase = "choose" -> {i \in Elements : tes[i] \in installed}
    [] OTHER -> {}

Promise == INSTANCE DependencyOrder WITH
  needs   <- IF phase \in {"order", "done", "choose"}
               THEN [i \in Elements |-> Successors(edges, i)] ELSE <<>>,
  handled <- Handled,
  offered <- IF phase = "choose" THEN {i \in Elements : Contains(choices, tes[i])}
             ELSE Handled \cup (IF phase = "order"
                    THEN Range(uninstq) \cup Range(samerepoq) \cup Range(todo) ELSE {})

KeepsPromise == Promise!Spec

\* assert(te->mark > 0 || te->mark == -1) in transaction_order_add_choices: an
\* element that another one is waited for by has not been offered yet. None is
\* offered twice, whatever the application installs on its own account.
ChoiceAsserts ==
  phase = "choose" =>
    /\ IsInjective(choices)
    /\ \A i \in Elements : tes[i] \notin installed => \A k \in Range(invedges[i]) : mark[k] # 0

\* The assertions of transaction.c hold, in the search and for the application.
AssertionsHold == OrderTypeOK /\ CycleOnStack /\ DoneIsClosed /\ ChoiceAsserts

\* No cycle is left, and the finished order has every step once, behind what it
\* waits for and with what it replaces; and it is good for what it is made for: a
\* package finds what it requires in place.
OrderSound ==
  NoCycleLeft /\ OrderRespectsEdges /\ StepsKept /\ ObsoletedFollow /\ RequirementsInPlace

\* The search ends in spite of its restarts, and the transaction is ordered.
EventuallyOrdered == <>(phase = "done")
=============================================================================
