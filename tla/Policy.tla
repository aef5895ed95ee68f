------------------------------- MODULE Policy -------------------------------
(***************************************************************************)
(* Which packages are preferred, and which may replace an installed one:   *)
(* src/src/policy.c.  W is a pool with its provider lists, S what the      *)
(* solver knows: its options (allowdowngrade, allowarchchange,             *)
(* allowvendorchange, noupdateprovide, dupmap_all), the maps               *)
(* dupinvolvedmap and decided (the packages decided to be installed), and  *)
(* the obsoletes index.  A list of candidates is a sequence without        *)
(* duplicates.                                                             *)
(***************************************************************************)
EXTENDS Pool

Name(W, p) == W.solvables[p].name
Evr(W, p) == W.solvables[p].evr
Arch(W, p) == W.solvables[p].arch

\* Same class: one architecture may replace the other.
ArchScore(W, p) == W.id2arch[Arch(W, p)]
SameArchClass(a, b) == a \div 65536 = b \div 65536

\* pool_setarchpolicy: the scores a policy gives to its architectures, which
\* are listed with the separator in front of each.
pool_setarchpolicy(narchs, policy) ==
  LET step(t, e) ==
        LET score == t.score + (CASE e[1] = ":" -> 65536 [] e[1] = ">" -> 1 [] OTHER -> 0) IN
        IF t.id2arch[e[2]] # 0 THEN t ELSE [score |-> score, id2arch |-> [t.id2arch EXCEPT ![e[2]] = score]]
  IN FoldLeft(step, [score |-> 65537, id2arch |-> [a \in 1 .. narchs |-> IF a = ARCH_NOARCH THEN 1 ELSE 0]],
              policy).id2arch

\* The obsoletes a package declares against another, as all users of them match.
MatchesObsoletes(W, obs, p) == W.obsoleteusesprovides \/ pool_match_nevr(W, p, obs)

\* solvable_identical, without the build time.
solvable_identical(W, p, q) ==
  LET a == W.solvables[p] b == W.solvables[q] IN
  a.name = b.name /\ a.arch = b.arch /\ a.evr = b.evr /\ a.vendor = b.vendor /\ a.requires = b.requires

----------------------------------------------------------------------------
(* What a decided package recommends, suggests, supplements, enhances.     *)

RECURSIVE solver_dep_fulfilled(_, _, _)
solver_dep_fulfilled(W, decided, d) ==
  IF ISRELDEP(d) /\ GETRELDEP(W, d).flags = {"AND"}
  THEN solver_dep_fulfilled(W, decided, GETRELDEP(W, d).name) /\ solver_dep_fulfilled(W, decided, GETRELDEP(W, d).evr)
  ELSE Provider(W, d) \cap decided # {}

Named(W, seq) == UNION {Provider(W, seq[i]) : i \in DOMAIN seq}
Fulfilled(W, decided, seq) == \E i \in DOMAIN seq : solver_dep_fulfilled(W, decided, seq[i])

Recommended(W, decided, p) ==
  \/ p \in UNION {Named(W, W.solvables[q].recommends) : q \in decided}
  \/ Fulfilled(W, decided, W.solvables[p].supplements)

Suggested(W, decided, p) ==
  \/ p \in UNION {Named(W, W.solvables[q].suggests) : q \in decided}
  \/ Fulfilled(W, decided, W.solvables[p].enhances)

----------------------------------------------------------------------------
(* The filters.                                                            *)

Priority(W, p) == W.repos[RepoOf(W, p)].priority

prune_to_highest_prio(W, plist) ==
  LET others == {i \in DOMAIN plist : ~IsInstalled(W, plist[i])} IN
  SelectSeq(plist, LAMBDA p : IsInstalled(W, p) \/ \A i \in others : Priority(W, plist[i]) <= Priority(W, p))

\* Installed packages first, then by subpriority, then by number.
prune_to_best_version_sortcmp(W, a, b) ==
  LET sub(p) == W.repos[RepoOf(W, p)].subpriority IN
  IF Name(W, a) # Name(W, b) THEN Name(W, a) < Name(W, b)
  ELSE IF IsInstalled(W, a) # IsInstalled(W, b) THEN IsInstalled(W, a)
  ELSE IF sub(a) # sub(b) THEN sub(a) > sub(b)
  ELSE a < b

SortedByName(W, plist) == SortSeq(plist, LAMBDA a, b : prune_to_best_version_sortcmp(W, a, b))

\* Whatever their priorities: the queue that is pruned by priority never gets a
\* second candidate of a name, so it is the first of each name that is left.
prune_to_highest_prio_per_name(W, plist) ==
  LET sorted == SortedByName(W, plist)
      starts(i) == i = 1 \/ Name(W, sorted[i]) # Name(W, sorted[i - 1])
      firsts == SelectSeq([i \in DOMAIN sorted |-> i], starts)
  IN [k \in DOMAIN firsts |-> sorted[firsts[k]]]

\* Keep those that are preferred, and the installed ones, if there are any to
\* prefer and more than one to choose from.
KeepPreferred(W, plist, preferred) ==
  LET others == {i \in DOMAIN plist : ~IsInstalled(W, plist[i])} IN
  IF Cardinality(others) < 2 \/ \A i \in others : plist[i] \notin preferred THEN plist
  ELSE SelectSeq(plist, LAMBDA p : IsInstalled(W, p) \/ p \in preferred)

prune_to_recommended(W, S, plist) ==
  KeepPreferred(W, KeepPreferred(W, plist, {p \in ToSet(plist) : Recommended(W, S.decided, p)}),
                {p \in ToSet(plist) : Suggested(W, S.decided, p)})

prune_to_best_arch(W, plist) ==
  LET scores == {ArchScore(W, plist[i]) : i \in DOMAIN plist} \ {0, 1}
      best == CHOOSE a \in scores : \A b \in scores : a <= b
      kept == SelectSeq(plist, LAMBDA p : ArchScore(W, p) = 1 \/ SameArchClass(ArchScore(W, p), best))
  IN IF Len(plist) < 2 \/ scores = {} \/ kept = <<>> THEN plist ELSE kept

\* One after the other, each candidate strikes out those it obsoletes.
prune_obsoleted(W, plist) ==
  LET strikes(p, q) == /\ Name(W, p) # Name(W, q)
                       /\ \E i \in DOMAIN W.solvables[p].obsoletes :
                            LET obs == W.solvables[p].obsoletes[i] IN
                            q \in Provider(W, obs) /\ MatchesObsoletes(W, obs, q)
      strike(l, i) == IF l[i] = 0 THEN l
                      ELSE [j \in DOMAIN l |-> IF j # i /\ l[j] # 0 /\ strikes(l[i], l[j]) THEN 0 ELSE l[j]]
  IN SelectSeq(FoldLeft(strike, plist, [i \in DOMAIN plist |-> i]), LAMBDA p : p # 0)

\* Mutant: of the same version, none is better.
Better_Same(W, l, i, j) == Name(W, l[i]) = Name(W, l[j]) /\ Evr(W, l[i]) >= Evr(W, l[j])

\* Of the same version, the first of the list.
Better(W, l, i, j) ==
  /\ Name(W, l[i]) = Name(W, l[j])
  /\ Evr(W, l[i]) > Evr(W, l[j]) \/ (Evr(W, l[i]) = Evr(W, l[j]) /\ i < j)

\* The first of the best version of each name.
prune_to_best_version(W, plist) ==
  LET sorted == SortedByName(W, plist)
      best == SelectSeq([i \in DOMAIN sorted |-> i], LAMBDA j : \A i \in DOMAIN sorted : ~Better(W, sorted, i, j))
  IN IF Len(plist) < 2 THEN plist
     ELSE IF Len(best) = 1 THEN <<sorted[best[1]]>>
     ELSE prune_obsoleted(W, [i \in DOMAIN best |-> sorted[best[i]]])

prune_best_arch_name_version(W, plist) == prune_to_best_version(W, prune_to_best_arch(W, plist))

\* Better installed ones than none.
DupKept(plist, kept) == IF kept = <<>> THEN plist ELSE kept

prune_installed_dup_packages(W, S, plist) ==
  LET stays(p) == \/ ~IsInstalled(W, p) \/ ~(S.dupmap_all \/ p \in S.dupinvolvedmap)
                  \/ \E i \in DOMAIN plist : ~IsInstalled(W, plist[i]) /\ solvable_identical(W, p, plist[i])
  IN DupKept(plist, SelectSeq(plist, stays))

policy_filter_unwanted(W, S, plist, mode) ==
  LET prio == IF Len(plist) < 2 THEN plist
              ELSE IF mode # "suggest" THEN prune_to_highest_prio(W, plist)
              ELSE prune_to_highest_prio_per_name(W, plist)
      dup == IF Len(prio) > 1 /\ W.installed # 0 /\ (S.dupmap_all \/ S.dupinvolvedmap # {})
             THEN prune_installed_dup_packages(W, S, prio) ELSE prio
      rec == IF Len(dup) > 1 /\ mode = "choose" THEN prune_to_recommended(W, S, dup) ELSE dup
  IN prune_best_arch_name_version(W, rec)

----------------------------------------------------------------------------
(* May s replace the installed is?                                         *)

policy_illegal_archchange(W, is, s) ==
  /\ Arch(W, is) # Arch(W, s) /\ ARCH_NOARCH \notin {Arch(W, is), Arch(W, s)}
  /\ ~SameArchClass(ArchScore(W, is), ArchScore(W, s))

policy_illegal_vendorchange(W, is, s) ==
  LET v1 == W.solvables[is].vendor v2 == W.solvables[s].vendor IN
  v1 # v2 /\ W.vendormask[v1] \cap W.vendormask[v2] = {}

policy_is_illegal(W, S, is, s, ignore) ==
  {c \in {"downgrade", "archchange", "vendorchange"} \ ignore :
     CASE c = "downgrade"    -> ~S.allowdowngrade /\ Name(W, is) = Name(W, s) /\ Evr(W, is) > Evr(W, s)
       [] c = "archchange"   -> ~S.allowarchchange /\ policy_illegal_archchange(W, is, s)
       [] c = "vendorchange" -> ~S.allowvendorchange /\ policy_illegal_vendorchange(W, is, s)}

----------------------------------------------------------------------------
(* The obsoletes index: for each installed package those of other names    *)
(* that obsolete it, in one array, from a count and a fill from the back.  *)

\* Package i obsoletes the installed p, once for each dependency that says so.
ObsoletesWalk(W) ==
  LET of(i, obs) == SelectSeq(W.whatprovides[obs],
                      LAMBDA p : IsInstalled(W, p) /\ Name(W, p) # Name(W, i) /\ MatchesObsoletes(W, obs, p))
      pairs(i) == FlattenSeq([k \in DOMAIN W.solvables[i].obsoletes |->
                    LET l == of(i, W.solvables[i].obsoletes[k]) IN [j \in DOMAIN l |-> <<i, l[j]>>]])
  IN FlattenSeq([k \in 1 .. Len(W.solvables) |->
       LET i == Len(W.solvables) + 1 - k IN IF pool_installable(W, i) THEN pairs(i) ELSE <<>>])

\* Mutant: no room for the 0 behind a list.
ListEnds_NoZero(count) ==
  LET end[p \in 0 .. Len(count)] == IF p = 0 THEN 0 ELSE end[p - 1] + count[p]
  IN end

\* Where the list of each package ends: behind those of the packages before.
ListEnds(count) ==
  LET end[p \in 0 .. Len(count)] ==
        IF p = 0 THEN 0 ELSE end[p - 1] + (IF count[p] = 0 THEN 0 ELSE count[p] + 1)
  IN end

policy_create_obsolete_index(W) ==
  LET walk == ObsoletesWalk(W)
      count == [p \in Solvables(W) |-> Cardinality({k \in DOMAIN walk : walk[k][2] = p})]
      end  == ListEnds(count)
      put(t, e) == IF t.data[t.at[e[2]]] = e[1] THEN t
                   ELSE [at |-> [t.at EXCEPT ![e[2]] = @ - 1], data |-> [t.data EXCEPT ![t.at[e[2]] - 1] = e[1]]]
  IN FoldLeft(put, [at |-> [p \in Solvables(W) |-> IF count[p] = 0 THEN 0 ELSE end[p]],
                    data |-> [i \in 0 .. end[Len(count)] |-> 0]], walk)

ObsoletersOf(S, p) == IF S.obsoletes.at[p] = 0 THEN <<>> ELSE ListAt(S.obsoletes.data, S.obsoletes.at[p])

----------------------------------------------------------------------------
(* Update candidates for the installed n.                                  *)

MayReplace(W, S, n, p, allow_all) ==
  allow_all \/ policy_is_illegal(W, S, n, p, {"downgrade"}) = {}

\* p has another name, provides that of n and obsoletes n.
ProvidesAndObsoletes(W, n, p) ==
  \E i \in DOMAIN W.solvables[p].obsoletes :
    LET obs == W.solvables[p].obsoletes[i] IN n \in Provider(W, obs) /\ MatchesObsoletes(W, obs, n)

policy_findupdatepackages(W, S, n, allow_all) ==
  LET named == SelectSeq(pool_whatprovides(W, Name(W, n)), LAMBDA p : p # n)
      provobs(p) == Name(W, p) # Name(W, n) /\ ~S.noupdateprovide /\ ProvidesAndObsoletes(W, n, p)
      fits(p) == IF Name(W, p) = Name(W, n)
                 THEN allow_all \/ S.allowdowngrade \/ Evr(W, n) <= Evr(W, p)
                 ELSE provobs(p)
      found == SelectSeq(named, LAMBDA p : fits(p) /\ MayReplace(W, S, n, p, allow_all))
      haveprovobs == \E i \in DOMAIN named : provobs(named[i])
  IN IF haveprovobs THEN found
     ELSE found \o SelectSeq(ObsoletersOf(S, n), LAMBDA p : MayReplace(W, S, n, p, allow_all))
=============================================================================
