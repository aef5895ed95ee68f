-------------------------- MODULE DependencyOrder --------------------------
(***************************************************************************)
(* What an ordering of a transaction promises: an element is offered as    *)
(* soon as all elements it waits for have been handled, never before and   *)
(* never twice, and the elements are handled one after the other.  Whoever *)
(* handles an element before it is offered does so on its own account;     *)
(* such an element is not offered any more.                                *)
(***************************************************************************)
EXTENDS Naturals, TLAPS

VARIABLES
  needs,     \* per element, those it waits for
  handled,   \* the elements handled in this round
  offered    \* those that could be handled in this round without risk

orderVars == <<needs, handled, offered>>

\* The elements that have nothing left to wait for.
Ready(hs) == {i \in DOMAIN needs : needs[i] \subseteq hs}

Init == needs = <<>> /\ handled = {} /\ offered = {}

\* The elements and what they wait for are settled once.
Settle ==
  /\ needs = <<>>
  /\ \A i \in DOMAIN needs' : needs'[i] \subseteq DOMAIN needs' \ {i}
  /\ handled' = {}
  /\ offered' = {i \in DOMAIN needs' : needs'[i] = {}}

HandleNext(i) ==
  /\ i \in offered \ handled
  /\ handled' = handled \cup {i}
  /\ offered' = offered \cup (Ready(handled') \ handled)
  /\ UNCHANGED needs

HandleEarly(i) ==
  /\ i \notin offered \cup handled
  /\ handled' = handled \cup {i}
  /\ offered' = offered \cup (Ready(handled') \ handled')
  /\ UNCHANGED needs

\* A new round: nothing is handled.
StartOver ==
  /\ handled' = {}
  /\ offered' = Ready({})
  /\ UNCHANGED needs

Next ==
  \/ Settle
  \/ \E i \in DOMAIN needs : HandleNext(i) \/ HandleEarly(i)
  \/ StartOver

Spec == Init /\ [][Next]_orderVars

----------------------------------------------------------------------------
(* What an order that keeps this promise can be relied upon for, whatever  *)
(* the elements and their dependencies are.                                *)

\* Only elements that have nothing left to wait for are offered.
OfferedReady == offered \subseteq Ready(handled)

\* All of them are, but those that were handled before they were offered.
ReadyOffered == Ready(handled) \subseteq offered \cup handled

\* Only elements are handled.
HandledElements == handled \subseteq DOMAIN needs

OfferInv == OfferedReady /\ ReadyOffered /\ HandledElements

\* Handling more makes no element wait.
LEMMA ReadyGrows ==
  ASSUME NEW S, NEW T, S \subseteq T
  PROVE  Ready(S) \subseteq Ready(T)
BY DEF Ready

\* A round begins with the elements that wait for nothing.
LEMMA RoundInv ==
  ASSUME handled' = {}, offered' = {i \in DOMAIN needs' : needs'[i] \subseteq {}}
  PROVE  OfferInv'
BY DEF OfferInv, OfferedReady, ReadyOffered, HandledElements, Ready

\* An element more is handled, and what is ready then is offered.
LEMMA HandledInv ==
  ASSUME OfferInv, UNCHANGED needs, NEW i \in DOMAIN needs, handled' = handled \cup {i},
         offered' = offered \cup (Ready(handled') \ handled)
           \/ offered' = offered \cup (Ready(handled') \ handled')
  PROVE  OfferInv'
<1>1. Ready(handled) \subseteq Ready(handled')
  BY ReadyGrows
<1>2. Ready(handled)' = Ready(handled')
  BY DEF Ready
<1>3. OfferedReady'
  BY <1>1, <1>2 DEF OfferInv, OfferedReady
<1>4. ReadyOffered'
  BY <1>2 DEF ReadyOffered
<1>5. HandledElements'
  BY DEF OfferInv, HandledElements
<1>6. QED
  BY <1>3, <1>4, <1>5 DEF OfferInv

LEMMA InitOfferInv == Init => OfferInv
BY DEF Init, OfferInv, OfferedReady, ReadyOffered, HandledElements, Ready

LEMMA NextOfferInv == OfferInv /\ [Next]_orderVars => OfferInv'
<1> SUFFICES ASSUME OfferInv, [Next]_orderVars
             PROVE  OfferInv'
  OBVIOUS
<1>1. CASE Settle
  <2>1. offered' = {i \in DOMAIN needs' : needs'[i] \subseteq {}}
    BY <1>1 DEF Settle
  <2>2. QED
    BY <1>1, <2>1, RoundInv DEF Settle
<1>2. ASSUME NEW i \in DOMAIN needs, HandleNext(i)
      PROVE  OfferInv'
  BY <1>2, HandledInv DEF HandleNext
<1>3. ASSUME NEW i \in DOMAIN needs, HandleEarly(i)
      PROVE  OfferInv'
  BY <1>3, HandledInv DEF HandleEarly
<1>4. CASE StartOver
  <2>1. offered' = {i \in DOMAIN needs' : needs'[i] \subseteq {}}
    BY <1>4 DEF StartOver, Ready
  <2>2. QED
    BY <1>4, <2>1, RoundInv DEF StartOver
<1>5. CASE UNCHANGED orderVars
  BY <1>5 DEF orderVars, OfferInv, OfferedReady, ReadyOffered, HandledElements, Ready
<1>6. QED
  BY <1>1, <1>2, <1>3, <1>4, <1>5 DEF Next

\* At every moment exactly the elements whose dependencies are all handled are on
\* offer, apart from those the application handled on its own account: what
\* transaction_order and transaction_order_add_choices put on their queues is
\* neither too early nor forgotten.
THEOREM OffersAreRight == Spec => [](OfferedReady /\ ReadyOffered)
<1>1. OfferInv => OfferedReady /\ ReadyOffered
  BY DEF OfferInv
<1>2. QED
  BY <1>1, InitOfferInv, NextOfferInv, PTL DEF Spec

\* A package that is offered stays on offer until a new round begins: nothing the
\* application handles meanwhile makes it wait again.
Steady == handled' # {} => offered \subseteq offered'

THEOREM OffersStand == Spec => [][Steady]_orderVars
<1>1. [Next]_orderVars => [Steady]_orderVars
  BY DEF Next, Settle, HandleNext, HandleEarly, StartOver, Steady, orderVars
<1>2. QED
  BY <1>1, PTL DEF Spec
============================================================================
