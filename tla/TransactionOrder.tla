-------------------------- MODULE TransactionOrder --------------------------
(***************************************************************************)
(* transaction_order and transaction_order_add_choices (transaction.c).    *)
(* The dependency graph of a transaction is built, its cycles are found by *)
(* a depth-first search with an explicit stack and broken, edges are added *)
(* that keep what was a cycle together, and the elements are put in order, *)
(* uninstalls as early and changes of the medium as rarely as possible.    *)
(* An application can then roll its own order from the graph that was kept.*)
(***************************************************************************)
EXTENDS OrderGraph

CONSTANT Transactions   \* the transactions that may be ordered
CONSTANT MaxEarly       \* how often the application runs ahead of its choices

ASSUME TransactionsAssumption == \A w \in Transactions : IsTransaction(w)

VARIABLES
  world,        \* the package data (see Transaction)
  phase,        \* "build", "search", "bind", "order", "done" or "choose"
  tes,          \* te->p: the packages of the elements
  edges,        \* the edges of the elements (see OrderGraph)
  mark,         \* te->mark
  todo,         \* the stack of the search, its top last: element i to look
                \* at, -i when all edges of i have been visited; then the
                \* elements that can be handled and are on another medium
  cycles,       \* the cycles broken, [tes, weight], oldest first
  unbound,      \* the cycles addcycleedges still has to handle
  invedges,     \* invedgedata: per element, those that wait for it
  uninstq,      \* the uninstalls that can be handled
  samerepoq,    \* the installs from the current medium that can be handled
  last,         \* lastrepo and lastmedia
  steps,        \* trans->steps
  choices,      \* the queue transaction_order_add_choices fills
  installed     \* the packages the application has handled in this round

vars == <<world, phase, tes, edges, mark, todo, cycles, unbound, invedges, uninstq,
          samerepoq, last, steps, choices, installed>>

Elements == DOMAIN tes

IsUninstall(i) == tes[i] \in world.old

\* temedianr
Media(i) == IF IsUninstall(i) THEN 1 ELSE world.media[tes[i]]

Uninstalls == {i \in Elements : IsUninstall(i)}

\* The installs from a medium.
OnMedium(medium) ==
  {i \in Elements \ Uninstalls : world.repo[tes[i]] = medium.repo /\ Media(i) = medium.media}

\* The active steps: an obsoleted package goes when what replaces it comes.
ActiveSteps(w) == Only(StepsOf(w), {p \in TransactsMap(w) : ~IsObsoleted(w, p)})

Init ==
  /\ world \in Transactions
  /\ phase = "build"
  /\ steps = StepsOf(world)
  /\ tes = <<>> /\ edges = <<>> /\ mark = <<>> /\ todo = <<>>
  /\ cycles = <<>> /\ unbound = <<>> /\ invedges = <<>>
  /\ uninstq = <<>> /\ samerepoq = <<>> /\ last = [repo |-> 0, media |-> 0]
  /\ choices = <<>> /\ installed = {}

\* The dependency graph of a transaction: the edges of all its steps.
GraphOf(w) ==
  LET elements == ActiveSteps(w)
      calls == FlattenSeq([k \in DOMAIN StepsOf(w) |-> addsolvableedges(w, elements, StepsOf(w)[k])])
  IN  addteedges([i \in DOMAIN elements |-> <<>>], calls)

\* The elements and the graph are made, and all elements are put on the stack,
\* the first on top.  Without elements there is nothing to do.
Build ==
  /\ phase = "build"
  /\ LET n == Len(ActiveSteps(world))
     IN  /\ phase' = IF n = 0 THEN "done" ELSE "search"
         /\ tes' = ActiveSteps(world)
         /\ edges' = GraphOf(world)
         /\ mark' = [i \in 1..n |-> 0]
         /\ todo' = [i \in 1..n |-> n + 1 - i]
  /\ UNCHANGED <<world, cycles, unbound, invedges, uninstq, samerepoq, last, steps,
                 choices, installed>>

----------------------------------------------------------------------------
(* The search for cycles.  mark is 0 for a new element, 1 while its edges  *)
(* are being visited and 2 when it is done.                                *)

searching == <<world, phase, tes, unbound, invedges, uninstq, samerepoq, last, steps,
               choices, installed>>

Top == Last(todo)

\* All edges of an element have been visited.
Leave ==
  /\ phase = "search" /\ todo # <<>>
  /\ Top < 0
  /\ mark' = [mark EXCEPT ![-Top] = 2]
  /\ todo' = Front(todo)
  /\ UNCHANGED searching /\ UNCHANGED <<edges, cycles>>

SkipDone ==
  /\ phase = "search" /\ todo # <<>>
  /\ Top > 0 /\ mark[Top] = 2
  /\ todo' = Front(todo)
  /\ UNCHANGED searching /\ UNCHANGED <<edges, cycles, mark>>

Enter_Shallow ==
  /\ phase = "search" /\ todo # <<>>
  /\ Top > 0 /\ mark[Top] = 0
  /\ LET open == Only(edges[Top], {e \in Range(edges[Top]) : Unbroken(e) /\ mark[e.to] = 0})
     IN  IF open = <<>>
           THEN /\ mark' = [mark EXCEPT ![Top] = 2]
                /\ todo' = Front(todo)
           ELSE /\ mark' = [mark EXCEPT ![Top] = 1]
                /\ todo' = Front(todo) \o <<-Top>> \o [j \in DOMAIN open |-> open[j].to]
  /\ UNCHANGED searching /\ UNCHANGED <<edges, cycles>>

\* A new element: its edges to elements that are not done go on the stack.
Enter ==
  /\ phase = "search" /\ todo # <<>>
  /\ Top > 0 /\ mark[Top] = 0
  /\ LET open == Only(edges[Top], {e \in Range(edges[Top]) : Unbroken(e) /\ mark[e.to] # 2})
     IN  IF open = <<>>
           THEN /\ mark' = [mark EXCEPT ![Top] = 2]
                /\ todo' = Front(todo)
           ELSE /\ mark' = [mark EXCEPT ![Top] = 1]
                /\ todo' = Front(todo) \o <<-Top>> \o [j \in DOMAIN open |-> open[j].to]
  /\ UNCHANGED searching /\ UNCHANGED <<edges, cycles>>

\* Where the element on top was entered, and the elements entered since: each
\* has an edge to the next, and the last one to the first.
CycleStart == SelectLastInSeq(Front(todo), LAMBDA x : x = -Top)
CycleChain ==
  LET entered == Only(SubSeq(todo, CycleStart, Len(todo) - 1), {-i : i \in Elements})
  IN  [k \in DOMAIN entered |-> -entered[k]]

Following(chain, k) == IF k = Len(chain) THEN chain[1] ELSE chain[k + 1]
EdgeTo(i, k) == SelectInSeq(edges[i], LAMBDA e : e.to = k)

WeakestLink_Strongest(chain) ==
  LET weight(k) == Weight(edges[chain[k]][EdgeTo(chain[k], Following(chain, k))].type)
      weakest == {k \in DOMAIN chain : \A j \in DOMAIN chain : weight(k) >= weight(j)}
  IN  Min(weakest)

\* The place in the chain whose edge breakcycle breaks: one of least weight,
\* the first from a package without scripts if there is one, else the first.
WeakestLink(chain) ==
  LET weight(k) == Weight(edges[chain[k]][EdgeTo(chain[k], Following(chain, k))].type)
      weakest == {k \in DOMAIN chain : \A j \in DOMAIN chain : weight(k) <= weight(j)}
      quiet == {k \in weakest : ~havescripts(world, tes[chain[k]])}
  IN  IF quiet # {} THEN Min(quiet) ELSE Min(weakest)

BreakCycle_Marked ==
  /\ phase = "search" /\ todo # <<>>
  /\ Top > 0 /\ mark[Top] = 1
  /\ LET chain == CycleChain
         l == WeakestLink(chain)
         edge == EdgeTo(chain[l], Following(chain, l))
     IN  /\ cycles' = Append(cycles,
              [tes    |-> SubSeq(chain, l + 1, Len(chain)) \o SubSeq(chain, 1, l),
               weight |-> Weight(edges[chain[l]][edge].type)])
         /\ edges' = [edges EXCEPT ![chain[l]][edge].type = @ \cup {TYPE_BROKEN}]
         /\ mark' = [mark EXCEPT ![Top] = 0]
         /\ todo' = Append(SubSeq(todo, 1, CycleStart - 1), Top)
  /\ UNCHANGED searching

BreakCycle_Spared ==
  /\ phase = "search" /\ todo # <<>>
  /\ Top > 0 /\ mark[Top] = 1
  /\ LET chain == CycleChain
         l == WeakestLink(chain)
         edge == EdgeTo(chain[l], Following(chain, l))
         spared == Weight(edges[chain[l]][edge].type) >= TYPE_PREREQ
     IN  /\ cycles' = IF spared THEN cycles ELSE Append(cycles,
              [tes    |-> SubSeq(chain, l + 1, Len(chain)) \o SubSeq(chain, 1, l),
               weight |-> Weight(edges[chain[l]][edge].type)])
         /\ edges' = [edges EXCEPT ![chain[l]][edge].type =
                         IF spared THEN @ ELSE @ \cup {TYPE_BROKEN}]
         /\ mark' = [i \in Elements |-> IF i \in Range(chain) THEN 0 ELSE mark[i]]
         /\ todo' = Append(SubSeq(todo, 1, CycleStart - 1), Top)
  /\ UNCHANGED searching

\* The element on top is being visited: there is a cycle.  One edge of it is
\* broken, the cycle is recorded from the element behind that edge on, and the
\* search is taken up again at the start of the cycle.
BreakCycle ==
  /\ phase = "search" /\ todo # <<>>
  /\ Top > 0 /\ mark[Top] = 1
  /\ LET chain == CycleChain
         l == WeakestLink(chain)
         edge == EdgeTo(chain[l], Following(chain, l))
     IN  /\ cycles' = Append(cycles,
              [tes    |-> SubSeq(chain, l + 1, Len(chain)) \o SubSeq(chain, 1, l),
               weight |-> Weight(edges[chain[l]][edge].type)])
         /\ edges' = [edges EXCEPT ![chain[l]][edge].type = @ \cup {TYPE_BROKEN}]
         /\ mark' = [i \in Elements |-> IF i \in Range(chain) THEN 0 ELSE mark[i]]
         /\ todo' = Append(SubSeq(todo, 1, CycleStart - 1), Top)
  /\ UNCHANGED searching

\* No element is left: the cycles are to be bound, those of requirements first,
\* the latest first.
EndSearch ==
  /\ phase = "search" /\ todo = <<>>
  /\ phase' = "bind"
  /\ LET latest == Reverse(cycles)
         strong == {c \in Range(cycles) : c.weight >= TYPE_REQ}
     IN  unbound' = Only(latest, strong) \o Only(latest, Range(cycles) \ strong)
  /\ UNCHANGED <<world, tes, edges, mark, todo, cycles, invedges, uninstq, samerepoq, last,
                 steps, choices, installed>>

----------------------------------------------------------------------------
(* addcycleedges.  The first element of a recorded cycle is its tail: all  *)
(* others come before it.  The last one is its head.                       *)

TailEdges_All(es, cycle) ==
  LET wait == Only([i \in DOMAIN es |-> i],
                   {i \in DOMAIN es \ {cycle[1]} : \E k \in Range(Tail(cycle)) : Depends(es, i, k)})
  IN  addteedges(es, [n \in DOMAIN wait |-> <<wait[n], cycle[1], TYPE_CYCLETAIL>>])

\* Elements that need one of the cycle and that the cycle does not need wait
\* for its tail.
TailEdges(es, cycle) ==
  LET wait == Only([i \in DOMAIN es |-> i],
                   {i \in DOMAIN es \ Reached(es, Range(cycle)) :
                      \E k \in Range(Tail(cycle)) : Depends(es, i, k)})
  IN  addteedges(es, [n \in DOMAIN wait |-> <<wait[n], cycle[1], TYPE_CYCLETAIL>>])

HeadEdges_None(es, cycle) == es

\* The head waits for the elements that one of the cycle needs and that do not
\* need the cycle, in the order they are met.
HeadEdges(es, cycle) ==
  LET head == Last(cycle)
      free(k) == Reached(es, {k}) \cap Range(cycle) = {}
      needed == FlattenSeq([i \in DOMAIN Front(cycle) |->
                  LET all == Only(es[cycle[i]], {e \in Range(es[cycle[i]]) : Unbroken(e) /\ free(e.to)})
                  IN  [j \in DOMAIN all |-> all[j].to]])
      wanted == Only(needed, DOMAIN es \ Successors(es, head))
  IN  addteedges(es, [n \in DOMAIN wanted |-> <<head, wanted[n], TYPE_CYCLEHEAD>>])

addcycleedges(es, cycle) == HeadEdges(TailEdges(es, cycle), cycle)

Bind ==
  /\ phase = "bind" /\ unbound # <<>>
  /\ edges' = addcycleedges(edges, Head(unbound).tes)
  /\ unbound' = Tail(unbound)
  /\ UNCHANGED <<world, phase, tes, mark, todo, cycles, invedges, uninstq, samerepoq, last,
                 steps, choices, installed>>

----------------------------------------------------------------------------
(* The final order                                                         *)

\* For each element, those with an unbroken edge to it, the last first.
Inverted ==
  [k \in Elements |->
     Reverse(Only([i \in Elements |-> i], {i \in Elements : Depends(edges, i, k)}))]

\* How many elements element i waits for, by the inverted edges.
WaitsFor(inv, i) == Cardinality({k \in DOMAIN inv : Contains(inv[k], i)})

\* All edges are set up: they are inverted, and the elements that wait for
\* nothing can be handled.
Arrange ==
  /\ phase = "bind" /\ unbound = <<>>
  /\ phase' = "order"
  /\ invedges' = Inverted
  /\ mark' = [i \in Elements |-> WaitsFor(invedges', i)]
  /\ LET ready == Only([i \in Elements |-> i], {i \in Elements : mark'[i] = 0})
     IN  /\ uninstq' = Only(ready, Uninstalls)
         /\ todo' = Only(ready, Elements \ Uninstalls)
  /\ steps' = <<>>
  /\ UNCHANGED <<world, tes, edges, cycles, unbound, samerepoq, last, choices, installed>>

Handle_TwoLeft(i, uninst, same, other, medium) ==
  LET freed == Only(invedges[i], {k \in Elements : mark[k] \in 1..2} \ Range(same \o other \o uninst))
  IN  /\ steps' = Append(steps, tes[i])
      /\ mark' = [k \in Elements |-> IF Contains(invedges[i], k) THEN mark[k] - 1 ELSE mark[k]]
      /\ last' = medium
      /\ uninstq' = uninst \o Only(freed, Uninstalls)
      /\ samerepoq' = same \o Only(freed, OnMedium(medium))
      /\ todo' = other \o Only(freed, Elements \ (Uninstalls \cup OnMedium(medium)))

Handle_AllTodo(i, uninst, same, other, medium) ==
  LET freed == Only(invedges[i], {k \in Elements : mark[k] = 1})
  IN  /\ steps' = Append(steps, tes[i])
      /\ mark' = [k \in Elements |-> IF Contains(invedges[i], k) THEN mark[k] - 1 ELSE mark[k]]
      /\ last' = medium
      /\ uninstq' = uninst \o Only(freed, Uninstalls)
      /\ samerepoq' = same
      /\ todo' = other \o Only(freed, Elements \ Uninstalls)

\* Element i is handled: it becomes a step, and those that waited only for it
\* go on the queue they belong on, behind what these hold.
Handle(i, uninst, same, other, medium) ==
  LET freed == Only(invedges[i], {k \in Elements : mark[k] = 1})
  IN  /\ steps' = Append(steps, tes[i])
      /\ mark' = [k \in Elements |-> IF Contains(invedges[i], k) THEN mark[k] - 1 ELSE mark[k]]
      /\ last' = medium
      /\ uninstq' = uninst \o Only(freed, Uninstalls)
      /\ samerepoq' = same \o Only(freed, OnMedium(medium))
      /\ todo' = other \o Only(freed, Elements \ (Uninstalls \cup OnMedium(medium)))

ordering == <<world, phase, tes, edges, cycles, unbound, invedges, choices, installed>>

HandleUninstall ==
  /\ phase = "order" /\ uninstq # <<>>
  /\ Handle(Head(uninstq), Tail(uninstq), samerepoq, todo, last)
  /\ UNCHANGED ordering

HandleSameMedium ==
  /\ phase = "order" /\ uninstq = <<>> /\ samerepoq # <<>>
  /\ Handle(Head(samerepoq), uninstq, Tail(samerepoq), todo, last)
  /\ UNCHANGED ordering

\* Nothing is left on this medium: the elements of the lowest medium, and of
\* the repository of the first of them, are next.
ChangeMedium ==
  /\ phase = "order" /\ uninstq = <<>> /\ samerepoq = <<>> /\ todo # <<>>
  /\ LET lowest == Min({Media(todo[j]) : j \in DOMAIN todo})
         first == todo[SelectInSeq(todo, LAMBDA k : Media(k) = lowest)]
         medium == [repo |-> world.repo[tes[first]], media |-> lowest]
         same == Only(todo, OnMedium(medium))
     IN  Handle(Head(same), uninstq, Tail(same),
                Only(todo, Elements \ OnMedium(medium)), medium)
  /\ UNCHANGED ordering

add_obsoleted_Again(w, s) ==
  FlattenSeq([k \in DOMAIN s |->
    IF IsObsoleted(w, s[k]) THEN <<>>
    ELSE <<s[k]>> \o (IF IsNew(w, s[k]) THEN transaction_all_obs_pkgs(w, s[k]) ELSE <<>>)])

add_obsoleted_Last(w, s) ==
  LET obsoleted == {p \in TransactsMap(w) : IsObsoleted(w, p)}
  IN  Only(s, TransactsMap(w) \ obsoleted) \o Only(StepsOf(w), obsoleted)

\* transaction_add_obsoleted: every new package is followed by the packages it
\* replaces that are not yet among the steps.
add_obsoleted(w, s) ==
  LET replaced(k) == IF IsNew(w, s[k]) THEN transaction_all_obs_pkgs(w, s[k]) ELSE <<>>
      before(k) == UNION {Range(replaced(j)) : j \in 1..(k - 1)}
  IN  FlattenSeq([k \in DOMAIN s |->
        IF IsObsoleted(w, s[k]) THEN <<>>
        ELSE <<s[k]>> \o Only(replaced(k), Range(replaced(k)) \ before(k))])

Finish ==
  /\ phase = "order" /\ uninstq = <<>> /\ samerepoq = <<>> /\ todo = <<>>
  /\ phase' = "done"
  /\ steps' = add_obsoleted(world, steps)
  /\ UNCHANGED <<world, tes, edges, mark, todo, cycles, unbound, invedges, uninstq,
                 samerepoq, last, choices, installed>>

----------------------------------------------------------------------------
(* transaction_order_add_choices                                           *)

HasOrderdata == phase \in {"done", "choose"} /\ world.keep /\ Elements # {}

\* Without the order data nothing happens.
NoChoices == phase = "done" /\ ~HasOrderdata /\ UNCHANGED vars

FirstChoices_Stale ==
  /\ HasOrderdata
  /\ phase' = "choose"
  /\ LET free == Only([i \in Elements |-> i], {i \in Elements : mark[i] = 0})
     IN  choices' = [j \in DOMAIN free |-> tes[free[j]]]
  /\ installed' = {}
  /\ UNCHANGED <<world, tes, edges, mark, todo, cycles, unbound, invedges, uninstq, samerepoq,
                 last, steps>>

\* The call with chosen = 0, which begins a new round: the marks are counted anew.
FirstChoices ==
  /\ HasOrderdata
  /\ phase' = "choose"
  /\ mark' = [i \in Elements |-> WaitsFor(invedges, i)]
  /\ LET free == Only([i \in Elements |-> i], {i \in Elements : mark'[i] = 0})
     IN  choices' = [j \in DOMAIN free |-> tes[free[j]]]
  /\ installed' = {}
  /\ UNCHANGED <<world, tes, edges, todo, cycles, unbound, invedges, uninstq, samerepoq, last,
                 steps>>

Choose_NoGuard(i) ==
  /\ phase = "choose" /\ tes[i] \notin installed
  /\ LET free == Only(invedges[i], {k \in Elements : mark[k] = 1})
     IN  /\ mark' = [k \in Elements |->
                       IF Contains(invedges[i], k) THEN mark[k] - 1
                       ELSE IF k = i /\ mark[k] > 0 THEN -1 ELSE mark[k]]
         /\ choices' = choices \o [j \in DOMAIN free |-> tes[free[j]]]
  /\ installed' = installed \cup {tes[i]}
  /\ UNCHANGED <<world, phase, tes, edges, todo, cycles, unbound, invedges, uninstq, samerepoq,
                 last, steps>>

Choose_Unmarked(i) ==
  /\ phase = "choose" /\ tes[i] \notin installed
  /\ LET free == Only(invedges[i], {k \in Elements : mark[k] = 1})
     IN  /\ mark' = [k \in Elements |->
                       IF Contains(invedges[i], k) /\ mark[k] > 0 THEN mark[k] - 1 ELSE mark[k]]
         /\ choices' = choices \o [j \in DOMAIN free |-> tes[free[j]]]
  /\ installed' = installed \cup {tes[i]}
  /\ UNCHANGED <<world, phase, tes, edges, todo, cycles, unbound, invedges, uninstq, samerepoq,
                 last, steps>>

Choose_TwoLeft(i) ==
  /\ phase = "choose" /\ tes[i] \notin installed
  /\ LET free == Only(invedges[i], {k \in Elements : mark[k] \in 1..2 /\ ~Contains(choices, tes[k])})
     IN  /\ mark' = [k \in Elements |->
                       IF Contains(invedges[i], k) /\ mark[k] > 0 THEN mark[k] - 1
                       ELSE IF k = i /\ mark[k] > 0 THEN -1 ELSE mark[k]]
         /\ choices' = choices \o [j \in DOMAIN free |-> tes[free[j]]]
  /\ installed' = installed \cup {tes[i]}
  /\ UNCHANGED <<world, phase, tes, edges, todo, cycles, unbound, invedges, uninstq, samerepoq,
                 last, steps>>

\* The application has handled element i.  One it was not offered is marked, so
\* that it is never offered.
Choose(i) ==
  /\ phase = "choose" /\ tes[i] \notin installed
  /\ LET free == Only(invedges[i], {k \in Elements : mark[k] = 1})
     IN  /\ mark' = [k \in Elements |->
                       IF Contains(invedges[i], k) /\ mark[k] > 0 THEN mark[k] - 1
                       ELSE IF k = i /\ mark[k] > 0 THEN -1 ELSE mark[k]]
         /\ choices' = choices \o [j \in DOMAIN free |-> tes[free[j]]]
  /\ installed' = installed \cup {tes[i]}
  /\ UNCHANGED <<world, phase, tes, edges, todo, cycles, unbound, invedges, uninstq, samerepoq,
                 last, steps>>

\* The application takes one of its choices, or runs ahead of them.
Early == {i \in Elements : mark[i] = -1}
ChooseOffered == \E i \in Elements : Contains(choices, tes[i]) /\ Choose(i)
ChooseEarly ==
  \E i \in Elements : ~Contains(choices, tes[i]) /\ Cardinality(Early) < MaxEarly /\ Choose(i)

Order ==
  \/ Build \/ Leave \/ SkipDone \/ Enter \/ BreakCycle \/ EndSearch \/ Bind \/ Arrange
  \/ HandleUninstall \/ HandleSameMedium \/ ChangeMedium \/ Finish

Next == Order \/ NoChoices \/ FirstChoices \/ ChooseOffered \/ ChooseEarly

\* The library runs on once called; the application need not go on.  This is
\* WF_vars(Order) written out: while the transaction is not ordered, a step of
\* Order can be taken.
Running == phase \notin {"done", "choose"}
Fairness == []<>~Running \/ []<><<Order>>_vars

Spec == Init /\ [][Next]_vars /\ Fairness
=============================================================================
