----------------------------- MODULE OrderGraph -----------------------------
(***************************************************************************)
(* The dependency graph transaction_order works on (transaction.c).  Its   *)
(* nodes are the transaction elements 1..n, one per active step of the     *)
(* transaction; edges[i] is the list of edges of element i, each           *)
(* [to, type], and says that element `to' has to be handled before i.  A   *)
(* type is the set of its bits.                                            *)
(***************************************************************************)
EXTENDS Transaction

TYPE_BROKEN == 1
TYPE_CON == 2
TYPE_REQ_P == 4
TYPE_PREREQ_P == 8
TYPE_REQ == 16
TYPE_PREREQ == 32
TYPE_CYCLETAIL == 65536
TYPE_CYCLEHEAD == 131072

EdgeBits == {TYPE_BROKEN, TYPE_CON, TYPE_REQ_P, TYPE_PREREQ_P, TYPE_REQ, TYPE_PREREQ,
             TYPE_CYCLETAIL, TYPE_CYCLEHEAD}

\* The type as the number the C code compares.
Weight(type) ==
  LET bit(b) == IF b \in type THEN b ELSE 0
  IN  bit(TYPE_BROKEN) + bit(TYPE_CON) + bit(TYPE_REQ_P) + bit(TYPE_PREREQ_P) + bit(TYPE_REQ) +
      bit(TYPE_PREREQ) + bit(TYPE_CYCLETAIL) + bit(TYPE_CYCLEHEAD)

Unbroken(edge) == TYPE_BROKEN \notin edge.type

\* Element k is reached over an edge of element i that is not broken.
Depends(edges, i, k) == \E j \in DOMAIN edges[i] : edges[i][j].to = k /\ Unbroken(edges[i][j])

Successors(edges, i) == {k \in DOMAIN edges : Depends(edges, i, k)}

\* The elements reached from those of S over edges that are not broken, S
\* included.
Reached(edges, S) ==
  LET step[m \in 0..Cardinality(DOMAIN edges)] ==
        IF m = 0 THEN S
        ELSE step[m - 1] \cup UNION {Successors(edges, i) : i \in step[m - 1]}
  IN  step[Cardinality(DOMAIN edges)]

Acyclic(edges) ==
  \A i \in DOMAIN edges : i \notin Reached(edges, Successors(edges, i))

----------------------------------------------------------------------------
(* What is ordered                                                         *)

IsNew(w, p) == p \notin w.old

Requirement(P) == [pre : BOOLEAN, file : BOOLEAN, providers : Seq(P)]

\* The package data, and decisions of the solver: one per package, none for a
\* package without a repository, and none that keeps what a new package replaces.
IsTransaction(w) ==
  LET P == PackagesOf(w)
  IN  /\ w.name \in Seq(Nat) /\ w.evr \in [P -> Nat] /\ w.media \in [P -> Nat]
      /\ w.old \subseteq P
      /\ w.decision \in Seq(Literals(P))
      /\ \A j, k \in DOMAIN w.decision : Var(w.decision[j]) = Var(w.decision[k]) => j = k
      /\ TransactionInfo(w) \subseteq P \X (TransactsMap(w) \cap w.old)
      /\ \A p \in P : /\ w.requires[p] \in Seq(Requirement(P))
                      /\ w.conflicts[p] \in Seq(Seq(P)) /\ w.triggers[p] \in Seq(Seq(P))
                      /\ IsNew(w, p) => w.repo[p] # 0

----------------------------------------------------------------------------
(* Building the graph                                                      *)

\* addteedge, for a list of calls <<from, to, bit>>: one edge per pair of
\* elements, which collects the bits of all reasons for it, in the order the
\* pairs first come up; none from an element to itself.
addteedges(edges, calls) ==
  [i \in DOMAIN edges |->
     LET bits(k) == {calls[c][3] : c \in {d \in DOMAIN calls : calls[d][1] = i /\ calls[d][2] = k}}
         known == {edges[i][j].to : j \in DOMAIN edges[i]} \cup {i}
         first == {c \in DOMAIN calls : 
                     /\ calls[c][1] = i /\ calls[c][2] \notin known
                     /\ \A d \in 1..(c - 1) : calls[d][1] = i => calls[d][2] # calls[c][2]}
         fresh == Only([c \in DOMAIN calls |-> c], first)
     IN  [j \in DOMAIN edges[i] |-> [edges[i][j] EXCEPT !.type = @ \cup bits(edges[i][j].to)]] \o
         [j \in DOMAIN fresh |->
            [to |-> calls[fresh[j]][2], type |-> bits(calls[fresh[j]][2])]]]

\* The packages addedge puts in the place of package p: an obsoleted one is
\* handled when what replaces it is installed.
Stands(w, p) == IF IsObsoleted(w, p) THEN transaction_all_obs_pkgs(w, p) ELSE <<p>>

\* addedge: the calls of addteedge for an edge between two packages, with the
\* elements tes they stand for.
addedge(w, tes, from, to, bit) ==
  LET te(p) == CHOOSE i \in DOMAIN tes : tes[i] = p
      ends(p) == Only(Stands(w, p), Range(tes))
  IN  FlattenSeq([i \in DOMAIN ends(from) |->
        [j \in DOMAIN ends(to) |-> <<te(ends(from)[i]), te(ends(to)[j]), bit>>]])

\* havescripts: the package has a prerequisite on a file other than ldconfig.
havescripts(w, p) == \E r \in DOMAIN w.requires[p] : w.requires[p][r].pre /\ w.requires[p][r].file

\* The providers of requirement r of package p an edge may lead to: none if p
\* provides it itself; packages that come or go when p goes, packages that
\* come when p comes; when a kept package provides it, only packages that come.
Candidates(w, p, r) ==
  LET moving == TransactsMap(w)
      kept == \E q \in Range(r.providers) : q \in w.old \ moving
      wanted == {q \in moving : (p \in w.old \/ IsNew(w, q)) /\ (kept => IsNew(w, q))}
  IN  IF p \in Range(r.providers) THEN <<>> ELSE Only(r.providers, wanted)

RequirementEdges_Forward(w, p, r) ==
  LET all == Candidates(w, p, r)
      old_bit == IF r.pre THEN TYPE_PREREQ_P ELSE TYPE_REQ_P
      new_bit == IF r.pre THEN TYPE_PREREQ ELSE TYPE_REQ
  IN  [j \in DOMAIN all |-> <<p, all[j], IF p \in w.old THEN old_bit ELSE new_bit>>]

\* The edges of requirement r of package p, as calls of addedge in their order:
\* p waits for what it needs and comes in this transaction; when p goes, what
\* it needs and goes waits for p.  Between two providers of one requirement,
\* the one that goes waits for the one that comes.
RequirementEdges(w, p, r) ==
  LET all == Candidates(w, p, r)
      going == Only(all, w.old)
      coming == Only(all, NewPackages(w))
      old_bit == IF r.pre THEN TYPE_PREREQ_P ELSE TYPE_REQ_P
      new_bit == IF r.pre THEN TYPE_PREREQ ELSE TYPE_REQ
      handover ==
        FlattenSeq([i \in DOMAIN going |->
          LET others == Only(coming, {q \in NewPackages(w) : Partners(w, going[i]) # {q}})
          IN  [j \in DOMAIN others |-> <<going[i], others[j], old_bit>>]])
  IN  IF coming # <<>>
        THEN (IF p \in w.old THEN handover ELSE <<>>) \o
             [j \in DOMAIN coming |->
                <<p, coming[j], IF p \in w.old THEN old_bit ELSE new_bit>>]
      ELSE IF IsObsoleted(w, p) /\ ~havescripts(w, p) THEN <<>>
      ELSE [j \in DOMAIN going |-> <<going[j], p, old_bit>>]

\* The edges of a list of packages p conflicts with: what goes has to be gone
\* before the other comes.
ConflictEdges(w, p, list) ==
  LET others == Only(list, {q \in TransactsMap(w) \ {p} : IsNew(w, q) # IsNew(w, p)})
  IN  [j \in DOMAIN others |->
         IF p \in w.old THEN <<others[j], p, TYPE_CON>> ELSE <<p, others[j], TYPE_CON>>]

\* The edges of a list of packages that trigger scripts of p.
TriggerEdges(w, p, list) ==
  LET hit == Only(list, {q \in TransactsMap(w) \ {p} : IsNew(w, q) /\ w.name[q] # w.name[p]})
  IN  IF p \in w.old THEN [j \in DOMAIN hit |-> <<hit[j], p, TYPE_CON>>] ELSE <<>>

\* addsolvableedges: the calls of addteedge for package p.
addsolvableedges(w, tes, p) ==
  LET calls ==
        FlattenSeq([i \in DOMAIN w.requires[p] |-> RequirementEdges(w, p, w.requires[p][i])]) \o
        FlattenSeq([i \in DOMAIN w.conflicts[p] |-> ConflictEdges(w, p, w.conflicts[p][i])]) \o
        FlattenSeq([i \in DOMAIN w.triggers[p] |-> TriggerEdges(w, p, w.triggers[p][i])])
  IN  FlattenSeq([c \in DOMAIN calls |-> addedge(w, tes, calls[c][1], calls[c][2], calls[c][3])])
=============================================================================
