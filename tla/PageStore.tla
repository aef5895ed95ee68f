------------------------------ MODULE PageStore ------------------------------
(***************************************************************************)
(* The pages of a solv file's vertical data (src/repopage.c): pages are    *)
(* read into the slots of a buffer when they are asked for, those of a     *)
(* range behind one another.                                               *)
(*   A buffer is [at, in, blob]: per page its slot or -1, per slot its     *)
(* page or -1, and per slot the page whose data are in it, -1 for others.  *)
(***************************************************************************)
EXTENDS Integers, FiniteSets

CONSTANTS
  NumPages,   \* pages of the file
  MaxRange,   \* bound: pages asked for at once
  MinMap,     \* fewest slots of a buffer
  RRPeriod    \* bound: the round robin counter is counted modulo this multiple of every number of places

ASSUME PageAssumption == NumPages \in Nat \ {0} /\ MinMap \in Nat \ {0} /\ RRPeriod \in Nat \ {0}

VARIABLES
  buffer,
  rr_counter,
  loaded       \* the last answer: [first, last, slot], slot -1 if there was none

pageVars == <<buffer, rr_counter, loaded>>

FilePages == 0 .. NumPages - 1
Slots(b) == DOMAIN b.in

PageInit ==
  /\ buffer = [at |-> [p \in FilePages |-> -1], in |-> [s \in {} |-> -1], blob |-> [s \in {} |-> -1]]
  /\ rr_counter = 0
  /\ loaded = [first |-> 0, last |-> 0, slot |-> -1]

\* The pages are there already and consecutive.
Consecutive(b, first, last) == \A p \in first .. last : b.at[p] # -1 /\ b.at[p] = b.at[first] + p - first

\* A buffer with enough slots.
Enlarged(b, n) ==
  LET slots == 0 .. (IF n < MinMap THEN MinMap ELSE n) - 1
      more(f) == [s \in slots |-> IF s \in DOMAIN f THEN f[s] ELSE -1]
  IN  IF n <= Cardinality(Slots(b)) THEN b ELSE [b EXCEPT !.in = more(b.in), !.blob = more(b.blob)]

\* Free slots are cheap, those with a page that is asked for less so; the first
\* one counts twice.
Cost(b, s, first, last) == IF b.in[s] = -1 THEN 0 ELSE IF b.in[s] \in first .. last THEN 1 ELSE 3
PlaceCost(b, i, first, last) ==
  LET costing(c) == Cardinality({s \in i .. i + last - first : Cost(b, s, first, last) = c})
  IN  Cost(b, i, first, last) + costing(1) + 3 * costing(3)

\* Where the pages go: the cheapest place, the first of several; but each in
\* turn when all cost the same.
Places(b, first, last) == {i \in Slots(b) : i + last - first \in Slots(b)}

Thrashing(b, first, last) ==
  LET places == Places(b, first, last)
      costs == {PlaceCost(b, i, first, last) : i \in places}
  IN  places = {0} \/ (Cardinality(costs) = 1 /\ costs # {0})

Best(b, first, last) ==
  LET places == Places(b, first, last)
      cost(i) == PlaceCost(b, i, first, last)
      cheapest == {i \in places : \A k \in places : cost(i) <= cost(k)}
  IN  IF Thrashing(b, first, last) THEN rr_counter % Cardinality(places)
      ELSE CHOOSE i \in cheapest : \A k \in cheapest : i <= k

\* Mutant: pages that are asked for are left where they are.
Evicted_Others(b, best, first, last) ==
  LET gone == {s \in best .. best + last - first : b.in[s] # -1 /\ b.in[s] \notin first .. last}
  IN  [b EXCEPT !.in = [s \in Slots(b) |-> IF s \in gone THEN -1 ELSE b.in[s]],
                !.at = [p \in FilePages |-> IF b.at[p] \in gone THEN -1 ELSE b.at[p]]]

\* All pages but those at their right place already are thrown out of the place.
Evicted(b, best, first, last) ==
  LET gone == {s \in best .. best + last - first : b.in[s] # -1 /\ b.in[s] # first + s - best}
  IN  [b EXCEPT !.in = [s \in Slots(b) |-> IF s \in gone THEN -1 ELSE b.in[s]],
                !.at = [p \in FilePages |-> IF b.at[p] \in gone THEN -1 ELSE b.at[p]]]

\* Mutant: the slot a page was copied from still counts as its slot.
Fill_Both(b, p, s) ==
  [b EXCEPT !.blob[s] = IF b.at[p] = -1 THEN p ELSE b.blob[b.at[p]], !.at[p] = s, !.in[s] = p]

\* A page gets to its slot: it is there, is copied from elsewhere, or read.
Fill(b, p, s) ==
  LET moved == [t \in Slots(b) |-> IF t = b.at[p] /\ t # s THEN -1 ELSE b.in[t]]
  IN  [b EXCEPT !.blob[s] = IF b.at[p] = -1 THEN p ELSE b.blob[b.at[p]], !.at[p] = s, !.in = [moved EXCEPT ![s] = p]]

\* The first n pages are where they should be.
Filled(b, best, first, last, n) ==
  LET filled[k \in 0 .. n] ==
        IF k = 0 THEN Evicted(b, best, first, last) ELSE Fill(filled[k - 1], first + k - 1, best + k - 1)
  IN  filled[n]

\* The store has its file, as long as pages are missing. Reading may fail at a page that is not elsewhere: what has been done until then
\* stays.
ReadAt(b, best, first, last) ==
  \/ buffer' = Filled(b, best, first, last, last - first + 1) /\ loaded' = [first |-> first, last |-> last, slot |-> best]
  \/ \E n \in 0 .. last - first :
       LET c == Filled(b, best, first, last, n)
       IN  /\ c.at[first + n] = -1
           /\ buffer' = [c EXCEPT !.blob[best + n] = -1]
           /\ loaded' = [first |-> first, last |-> last, slot |-> -1]

Load(b, first, last) ==
  /\ rr_counter' = (IF Thrashing(b, first, last) THEN rr_counter + 1 ELSE rr_counter) % RRPeriod
  /\ ReadAt(b, Best(b, first, last), first, last)

repopagestore_load_page_range(first, last) ==
  IF Consecutive(buffer, first, last) THEN
    loaded' = [first |-> first, last |-> last, slot |-> buffer.at[first]] /\ UNCHANGED <<buffer, rr_counter>>
  ELSE Load(Enlarged(buffer, last - first + 1), first, last)

PageNext == \E first, last \in FilePages : last - first \in 0 .. MaxRange - 1 /\ repopagestore_load_page_range(first, last)

PageSpec == PageInit /\ [][PageNext]_pageVars

----------------------------------------------------------------------------

\* What the buffer is said to have it has: pages and slots agree, and the data in
\* a slot are its page's, after evictions, copies and failed reads.
PagesMapped ==
  /\ \A p \in FilePages : buffer.at[p] # -1 => buffer.in[buffer.at[p]] = p /\ buffer.blob[buffer.at[p]] = p
  /\ \A s \in Slots(buffer) : buffer.in[s] # -1 => buffer.at[buffer.in[s]] = s

\* Pages that were asked for are behind one another where the answer says.
PagesInOrder ==
  loaded.slot # -1 => \A p \in loaded.first .. loaded.last : buffer.blob[loaded.slot + p - loaded.first] = p

\* Whoever asks for pages gets them, and those that come later do, too.
PagesSound == PagesMapped /\ PagesInOrder
=============================================================================
