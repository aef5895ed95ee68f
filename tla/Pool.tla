-------------------------------- MODULE Pool --------------------------------
(***************************************************************************)
(* The pool: solvables, dependencies, provider lists (src/src/pool.c,      *)
(* poolarch.c, poolvendor.c).  A pool is a record W:                       *)
(*   solvables  a sequence of records; 1 is the system solvable            *)
(*   rels       the relations, ids above RelBase, each of them after those *)
(*              it refers to; flags is a set of "GT", "EQ", "LT" or names  *)
(*              a special relation                                         *)
(*   nstrings   the plain ids are 1 .. nstrings                            *)
(*   repos      priority, subpriority and disabled per repository          *)
(*   installed  the installed repository, 0 if there is none               *)
(*   id2arch    the score of each architecture, 0 for unknown ones         *)
(*   vendormask the classes of each vendor                                 *)
(* An evr is 10 * version + release, with release 0 when it has none.      *)
(***************************************************************************)
EXTENDS Integers, Sequences, FiniteSets, SequencesExt

\* A set as a sequence, in order.
Sorted(set, Before(_, _)) == SortSeq(FoldSet(LAMBDA x, t : Append(t, x), <<>>, set), Before)

RelBase == 100
SYSTEMSOLVABLE == 1

ISRELDEP(d) == d > RelBase
GETRELDEP(W, d) == W.rels[d - RelBase]
RelIds(W) == {RelBase + i : i \in DOMAIN W.rels}

ARCH_SRC == 1
ARCH_NOARCH == 2

Solvables(W) == DOMAIN W.solvables
RepoOf(W, p) == W.solvables[p].repo
IsInstalled(W, p) == W.installed # 0 /\ RepoOf(W, p) = W.installed
InstalledSolvables(W) == {p \in Solvables(W) : IsInstalled(W, p)}
InRepo(W, p) == RepoOf(W, p) # 0
Disabled(W, p) == InRepo(W, p) /\ W.repos[RepoOf(W, p)].disabled

pool_installable(W, p) ==
  /\ W.solvables[p].arch # ARCH_SRC
  /\ ~Disabled(W, p)
  /\ W.id2arch[W.solvables[p].arch] # 0

----------------------------------------------------------------------------
(* Versions.  What a relation has to contain to hold between a and b.      *)

Side(a, b) == IF a < b THEN "GT" ELSE IF a = b THEN "EQ" ELSE "LT"

EVRCMP_COMPARE(a, b) == Side(a, b)

EVRCMP_COMPARE_EVONLY(a, b) == Side(a \div 10, b \div 10)

\* A release counts only if both have one.
EVRCMP_MATCH_RELEASE(a, b) ==
  IF a \div 10 # b \div 10 \/ a % 10 = 0 \/ b % 10 = 0 THEN Side(a \div 10, b \div 10) ELSE Side(a, b)

Compare == {"GT", "EQ", "LT"}
NotEqual == {"GT", "LT"}
Mirror(flags) == (flags \cap {"EQ"}) \cup (NotEqual \ flags)

\* A provided range against a required one.
pool_match_flags_evr(pflags, pevr, flags, evr) ==
  /\ pflags # {} /\ flags # {} /\ pflags \subseteq Compare /\ flags \subseteq Compare
  /\ \/ Compare \in {flags, pflags}
     \/ pflags \cap flags \cap NotEqual # {}
     \/ IF pevr = evr
        THEN "EQ" \in pflags \cap flags
        ELSE LET f == CASE flags = NotEqual -> NotEqual
                        [] flags = {"EQ"}   -> pflags
                        [] OTHER            -> Mirror(flags) \cap (pflags \cup NotEqual)
             IN EVRCMP_MATCH_RELEASE(pevr, evr) \in f

\* The name, the version and the architecture of a package against a
\* dependency, whatever it provides.
RECURSIVE pool_match_nevr(_, _, _)
pool_match_nevr(W, p, d) ==
  LET s == W.solvables[p] rd == GETRELDEP(W, d) IN
  CASE ~ISRELDEP(d)                      -> s.name = d
    [] ISRELDEP(d) /\ rd.flags = {"ARCH"}  -> s.arch = rd.evr /\ pool_match_nevr(W, p, rd.name)
    [] ISRELDEP(d) /\ rd.flags = {"OR"}    -> pool_match_nevr(W, p, rd.name) \/ pool_match_nevr(W, p, rd.evr)
    [] ISRELDEP(d) /\ rd.flags \in {{"AND"}, {"WITH"}} ->
         pool_match_nevr(W, p, rd.name) /\ pool_match_nevr(W, p, rd.evr)
    [] ISRELDEP(d) /\ rd.flags \subseteq Compare ->
         /\ pool_match_nevr(W, p, rd.name)
         /\ IF rd.evr = s.evr THEN "EQ" \in rd.flags
            ELSE \/ rd.flags = Compare
                 \/ /\ rd.flags # {}
                    /\ EVRCMP_MATCH_RELEASE(s.evr, rd.evr) \in
                         (IF rd.flags \in {{"EQ"}, NotEqual} THEN rd.flags ELSE Mirror(rd.flags))
    [] OTHER -> FALSE

\* Does what d1 provides match d2?
RECURSIVE pool_match_dep(_, _, _)
pool_match_dep(W, d1, d2) ==
  \/ d1 = d2
  \/ ~ISRELDEP(d1) /\ ISRELDEP(d2) /\ pool_match_dep(W, d1, GETRELDEP(W, d2).name)
  \/ ISRELDEP(d1) /\ ~ISRELDEP(d2) /\ pool_match_dep(W, GETRELDEP(W, d1).name, d2)
  \/ /\ ISRELDEP(d1) /\ ISRELDEP(d2)
     /\ LET r1 == GETRELDEP(W, d1) r2 == GETRELDEP(W, d2) IN
        pool_match_dep(W, r1.name, r2.name) /\ pool_match_flags_evr(r1.flags, r1.evr, r2.flags, r2.evr)

RECURSIVE dep2name(_, _)
dep2name(W, d) == IF ISRELDEP(d) THEN dep2name(W, GETRELDEP(W, d).name) ELSE d

----------------------------------------------------------------------------
(* Provider lists: one array, lists end with 0, whatprovides has offsets.  *)
(* Offset 0 is "none", offset 1 the empty list.                            *)

\* Mutant: from the first solvable on.
ProvidesWalk_Forward(W) ==
  FlattenSeq([p \in Solvables(W) |->
    IF p # SYSTEMSOLVABLE /\ InRepo(W, p) /\ ~Disabled(W, p) /\ (IsInstalled(W, p) \/ pool_installable(W, p))
    THEN [k \in DOMAIN W.solvables[p].provides |-> <<p, dep2name(W, W.solvables[p].provides[k])>>] ELSE <<>>])

\* The pairs of a solvable and a name it provides, as the code walks them.
ProvidesWalk(W) ==
  LET usable(p) == InRepo(W, p) /\ ~Disabled(W, p) /\ (IsInstalled(W, p) \/ pool_installable(W, p))
      pairs(p)  == [k \in DOMAIN W.solvables[p].provides |-> <<p, dep2name(W, W.solvables[p].provides[k])>>]
  IN FlattenSeq([i \in 1 .. Len(W.solvables) |->
       LET p == Len(W.solvables) + 1 - i IN IF usable(p) THEN pairs(p) ELSE <<>>])

\* Count, give every name its place and the terminating 0 behind it, fill from
\* the back.
FillProviders(W) ==
  LET walk    == ProvidesWalk(W)
      count   == [id \in 1 .. W.nstrings |-> Cardinality({k \in DOMAIN walk : walk[k][2] = id})]
      place[id \in 0 .. W.nstrings] ==
        IF id = 0 THEN [next |-> 2, end |-> <<>>]
        ELSE LET t == place[id - 1] IN
             IF count[id] = 0 THEN [t EXCEPT !.end = Append(@, 0)]
             ELSE [next |-> t.next + count[id] + 1, end |-> Append(t.end, t.next + count[id])]
      put(t, e) == IF t.data[t.at[e[2]]] = e[1] THEN t
                   ELSE [at |-> [t.at EXCEPT ![e[2]] = @ - 1], data |-> [t.data EXCEPT ![t.at[e[2]] - 1] = e[1]]]
  IN FoldLeft(put, [at |-> place[W.nstrings].end, data |-> [i \in 0 .. place[W.nstrings].next - 1 |-> 0]], walk)

\* The list at an offset.
ListAt(data, o) ==
  LET last == CHOOSE e \in o .. Cardinality(DOMAIN data) :
                /\ e \notin DOMAIN data \/ data[e] = 0
                /\ \A i \in o .. e - 1 : data[i] # 0
  IN [i \in 1 .. last - o |-> data[o + i - 1]]

\* pool_shrink_whatprovides: equal lists become one, the array is packed. The
\* names whose list an earlier one has, in the order of the sort.
Alias(W, t) ==
  [id \in 1 .. W.nstrings |->
     IF t.at[id] <= 1 THEN id
     ELSE CHOOSE j \in 1 .. id : /\ t.at[j] > 1 /\ ListAt(t.data, t.at[j]) = ListAt(t.data, t.at[id])
                                 /\ \A k \in 1 .. j - 1 : t.at[k] <= 1 \/ ListAt(t.data, t.at[k]) # ListAt(t.data, t.at[id])]

pool_shrink_whatprovides(W, t) ==
  LET alias == Alias(W, t)
      move(u, id) ==
        LET l == ListAt(u.data, t.at[id]) IN
        IF t.at[id] <= 1 THEN u
        ELSE IF alias[id] # id THEN [u EXCEPT !.at[id] = u.at[alias[id]]]
        ELSE [at   |-> [u.at EXCEPT ![id] = u.next],
              data |-> [i \in u.next .. u.next + Len(l) |-> Append(l, 0)[i - u.next + 1]] @@ u.data,
              next |-> u.next + Len(l) + 1]
      packed == FoldLeft(move, [at |-> t.at, data |-> t.data, next |-> 2], [i \in 1 .. W.nstrings |-> i])
  IN [at |-> packed.at, data |-> [i \in 0 .. packed.next - 1 |-> packed.data[i]]]

pool_createwhatprovides(W) == pool_shrink_whatprovides(W, FillProviders(W))

\* pool_whatprovides of a plain id.
NameProviders(t, id) == IF t.at[id] = 0 THEN <<>> ELSE ListAt(t.data, t.at[id])

pushunique(q, l) == FoldLeft(LAMBDA t, x : IF \E i \in DOMAIN t : t[i] = x THEN t ELSE Append(t, x), q, l)

\* Mutant: any version.
ProvidesVersion_Any(W, p, name, flags, evr) ==
  \E k \in DOMAIN W.solvables[p].provides : dep2name(W, W.solvables[p].provides[k]) = name

\* Does solvable p provide the plain id name in a version that fits?
ProvidesVersion(W, p, name, flags, evr) ==
  \E k \in DOMAIN W.solvables[p].provides :
    LET d == W.solvables[p].provides[k] IN
    \/ d = name
    \/ /\ ISRELDEP(d) /\ GETRELDEP(W, d).name = name
       /\ pool_match_flags_evr(GETRELDEP(W, d).flags, GETRELDEP(W, d).evr, flags, evr)

\* pool_addrelproviders, given the lists of what the relation is made of.
RelProviders(W, d, list) ==
  LET rd == GETRELDEP(W, d) IN
  CASE rd.flags \in {{"AND"}, {"WITH"}} ->
         SelectSeq(list[rd.name], LAMBDA p : \E i \in DOMAIN list[rd.evr] : list[rd.evr][i] = p)
    [] rd.flags = {"OR"} -> pushunique(list[rd.name], list[rd.evr])
    [] rd.flags = {"OTHERPROVIDERS"} -> list[rd.evr]
    [] rd.flags = {"NAMESPACE"} -> IF rd.evr \in W.namespace THEN <<SYSTEMSOLVABLE>> ELSE <<>>
    [] rd.flags = {"ARCH"} ->
         IF rd.evr = ARCH_SRC
         THEN SelectSeq([p \in Solvables(W) |-> p],
                        LAMBDA p : W.solvables[p].arch = ARCH_SRC /\ pool_match_nevr(W, p, rd.name))
         ELSE SelectSeq(list[rd.name], LAMBDA p : W.solvables[p].arch = rd.evr)
    [] rd.flags # {} /\ rd.flags \subseteq Compare ->
         SelectSeq(list[rd.name],
           LAMBDA p : IF W.solvables[p].provides = <<>> THEN pool_match_nevr(W, p, d)
                      ELSE ProvidesVersion(W, p, dep2name(W, d), rd.flags, rd.evr))
    [] OTHER -> <<>>

\* The lists of all ids.
ProvidersOf(W, t) ==
  LET names == [id \in 1 .. W.nstrings |-> NameProviders(t, id)]
      upto[i \in 0 .. Len(W.rels)] ==
        IF i = 0 THEN names
        ELSE LET before == upto[i - 1] d == RelBase + i
                 l == RelProviders(W, d, before)
             IN before @@ (d :> l)
  IN upto[Len(W.rels)]

WhatProvides(W) == ProvidersOf(W, pool_createwhatprovides(W))

\* A pool with its provider lists, as solver_solve works on it.
WithProviders(W) ==
  W @@ ("whatprovides" :> WhatProvides(W))

pool_whatprovides(W, d) == W.whatprovides[d]
Provider(W, d) == {W.whatprovides[d][i] : i \in DOMAIN W.whatprovides[d]}
=============================================================================
