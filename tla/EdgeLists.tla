------------------------------ MODULE EdgeLists ------------------------------
(***************************************************************************)
(* The edges of a transaction's elements in memory (src/transaction.c):    *)
(* lists of pairs <to, type> in one array, each with a zero behind it;     *)
(* turned round, lists of elements in another one.  od is [edges,          *)
(* edgedata]: where the list of an element starts, and the array; the      *)
(* types are sums of bits.                                                 *)
(***************************************************************************)
EXTENDS Integers, FiniteSets

CONSTANTS
  NumTes,   \* transaction elements 1..NumTes
  Bits,     \* the bits of types
  MaxData   \* bound: cells of the array

TYPE_BROKEN == 1

ASSUME EdgeAssumption == NumTes \in Nat \ {0} /\ TYPE_BROKEN \in Bits /\ Bits \subseteq {1, 2, 4, 8}

VARIABLES
  od,
  asked,     \* the bits asked for so far: <<from, to, bit>>
  inverted,  \* [edges, invedgedata, ninvedgedata] or <<>>
  clone      \* the same, of a transaction that was cloned

edgeVars == <<od, asked, inverted, clone>>

Tes == 1 .. NumTes
Nothing == <<>>
Has(type, bit) == (type \div bit) % 2 = 1
Or(type, bit) == IF Has(type, bit) THEN type ELSE type + bit
Size(array) == Cardinality(DOMAIN array)

\* The cells of an element's pairs, and where they end.
EndOf(d, te) ==
  LET ends == {n \in 0 .. Size(d.edgedata) : d.edges[te] + 2 * n \in DOMAIN d.edgedata /\ d.edgedata[d.edges[te] + 2 * n] = 0}
  IN  d.edges[te] + 2 * (CHOOSE n \in ends : \A m \in ends : n <= m)

PairsOf(d, te) == {i \in d.edges[te] .. EndOf(d, te) - 1 : (i - d.edges[te]) % 2 = 0}
EdgesOf(d, te) == {<<d.edgedata[i], d.edgedata[i + 1]>> : i \in PairsOf(d, te)}

\* The array with cells written from i on, which may be behind its end.
Written(array, i, cells) ==
  [k \in 0 .. (IF i + Size(cells) > Size(array) THEN i + Size(cells) ELSE Size(array)) - 1 |->
     IF k \in i .. i + Size(cells) - 1 THEN cells[k - i + 1] ELSE array[k]]

\* Mutant: a list grows where it is.
Grow_InPlace(d, te, to, type) ==
  IF EndOf(d, te) = 0 THEN [d EXCEPT !.edges[te] = Size(d.edgedata), !.edgedata = Written(@, Size(d.edgedata), <<to, type, 0>>)]
  ELSE [d EXCEPT !.edgedata = Written(@, EndOf(d, te), <<to, type, 0>>)]

\* A new pair: the last list of the array grows, others are copied to its end
\* first. All empty lists are the zero at the beginning.
Grow(d, te, to, type) ==
  LET end == EndOf(d, te)
      n == Size(d.edgedata)
      copied == [k \in 1 .. end - d.edges[te] |-> d.edgedata[d.edges[te] + k - 1]]
  IN  IF end + 1 = n THEN
        LET i == IF end = 0 THEN 1 ELSE end
        IN  [d EXCEPT !.edges[te] = IF end = 0 THEN 1 ELSE @, !.edgedata = Written(@, i, <<to, type, 0>>)]
      ELSE [d EXCEPT !.edges[te] = n,
                     !.edgedata = Written(Written(@, n, copied), n + end - d.edges[te], <<to, type, 0>>)]

addteedge(d, from, to, bit) ==
  LET known == {i \in PairsOf(d, from) : d.edgedata[i] = to}
  IN  IF from = to THEN d
      ELSE IF known = {} THEN Grow(d, from, to, bit)
      ELSE [d EXCEPT !.edgedata = [i \in DOMAIN @ |-> IF i - 1 \in known THEN Or(@[i], bit) ELSE @[i]]]

----------------------------------------------------------------------------

NoEdges == [edges |-> [te \in Tes |-> 0], edgedata |-> [i \in {0} |-> 0]]

EdgeInit ==
  /\ od = NoEdges
  /\ asked = {} /\ inverted = Nothing /\ clone = Nothing

AddEdge ==
  \E from, to \in Tes, bit \in Bits \ {TYPE_BROKEN} :
    /\ inverted = Nothing
    /\ od' = addteedge(od, from, to, bit) /\ Size(od'.edgedata) <= MaxData
    /\ asked' = IF from = to THEN asked ELSE asked \cup {<<from, to, bit>>}
    /\ UNCHANGED <<inverted, clone>>

\* breakcycle: the pair stays where it is.
BreakEdge ==
  \E te \in Tes : \E i \in PairsOf(od, te) :
    /\ inverted = Nothing
    /\ od' = [od EXCEPT !.edgedata[i + 1] = Or(@, TYPE_BROKEN)]
    /\ asked' = asked \cup {<<te, od.edgedata[i], TYPE_BROKEN>>}
    /\ UNCHANGED <<inverted, clone>>

\* Mutant: broken edges are turned round, too.
Waiting_All(d, k) == {i \in Tes : \E e \in EdgesOf(d, i) : e[1] = k}

\* The elements that wait for element k.
Waiting(d, k) == {i \in Tes : \E e \in EdgesOf(d, i) : e[1] = k /\ ~Has(e[2], TYPE_BROKEN)}

\* The end of element k's list when all edges are turned round.
InvertedEnd(d, k) == 1 + k + Cardinality({w \in (1 .. k) \X Tes : w[2] \in Waiting(d, w[1])})

\* The lists are filled from their ends: the cell that element i gets.
InvertedCell(d, k, i) ==
  InvertedEnd(d, k) - Cardinality(Waiting(d, k)) + Cardinality({h \in Waiting(d, k) : h >= i}) - 1

\* The number that is kept for the new array is one more than j was after the walk
\* over the last list of the old one.
Invert ==
  /\ inverted = Nothing
  /\ LET size == InvertedEnd(od, NumTes) + 1
         owners(c) == {w \in Tes \X Tes : w[2] \in Waiting(od, w[1]) /\ c = InvertedCell(od, w[1], w[2])}
     IN  inverted' = [edges |-> [k \in Tes |-> InvertedEnd(od, k) - Cardinality(Waiting(od, k))],
                      invedgedata |-> [c \in 0 .. size - 1 |-> IF owners(c) = {} THEN 0 ELSE (CHOOSE w \in owners(c) : TRUE)[2]],
                      ninvedgedata |-> EndOf(od, NumTes) + 1]
  /\ od' = NoEdges /\ UNCHANGED <<asked, clone>>

\* transaction_init_clone copies as many cells as the number says. Whatever is behind the array is copied, too.
Clone ==
  /\ inverted # Nothing
  /\ clone' = [inverted EXCEPT !.invedgedata = [c \in 0 .. inverted.ninvedgedata - 1 |-> IF c \in DOMAIN @ THEN @[c] ELSE 0]]
  /\ UNCHANGED <<od, asked, inverted>>

EdgeNext == AddEdge \/ BreakEdge \/ Invert \/ Clone

EdgeSpec == EdgeInit /\ [][EdgeNext]_edgeVars

----------------------------------------------------------------------------

\* The array has the edges that were asked for, each element's own, although lists
\* move and all empty ones are one (addteedge).
EdgesKept ==
  inverted = Nothing =>
    /\ asked = {a \in Tes \X Tes \X Bits : \E e \in EdgesOf(od, a[1]) : e[1] = a[2] /\ Has(e[2], a[3])}
    /\ \A te \in Tes : Cardinality({e[1] : e \in EdgesOf(od, te)}) = Cardinality(PairsOf(od, te))

ListAt(array, i) == {array[c] : c \in {d \in DOMAIN array : d >= i /\ \A b \in i .. d : array[b] # 0}}

\* Turned round, the lists have exactly the elements that wait.
InvertedWaits ==
  inverted # Nothing =>
    \A k \in Tes : ListAt(inverted.invedgedata, inverted.edges[k])
                     = {i \in Tes : (\E b \in Bits : <<i, k, b>> \in asked) /\ <<i, k, TYPE_BROKEN>> \notin asked}

\* Edge lists are neither lost nor mixed up in memory.
EdgesSound == EdgesKept /\ InvertedWaits
=============================================================================
