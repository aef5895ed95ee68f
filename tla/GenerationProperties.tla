------------------------- MODULE GenerationProperties -------------------------
(***************************************************************************)
(* What the rule generation promises: to those who rely on its lists, to   *)
(* the search (module Engine), and to the user.                            *)
(***************************************************************************)
EXTENDS CleanDeps

R == INSTANCE Rules

Packages == Solvables(pool) \ {SYSTEMSOLVABLE}

Phases == {"start", "index", "installed", "updaters", "jobs", "weak", "unify", "feature", "update", "job",
           "infarch", "dup", "choice", "clean", "strip", "refill", "done"}

Lists == 1 .. pool.nstrings \cup RelIds(pool)

\* The type invariant.
GenerationTypeOK ==
  /\ phase \in Phases
  /\ addedmap \subseteq Solvables(pool) /\ ToSet(workq) \cup ToSet(calls) \subseteq Packages
  /\ \A r \in ToSet(rpm) : ToSet(r) \subseteq Solvables(pool) \cup {-p : p \in Solvables(pool)}
  /\ DOMAIN feature \cup DOMAIN update \subseteq InstalledSolvables(pool)
  /\ \A i \in DOMAIN jobrules : jobrules[i].job \in DOMAIN job
  /\ im \cup userinstalled \cup cleandepsmap \subseteq InstalledSolvables(pool)

----------------------------------------------------------------------------
(* Lists.                                                                  *)

Usable(p) == InRepo(pool, p) /\ ~Disabled(pool, p) /\ (IsInstalled(pool, p) \/ pool_installable(pool, p))

ProvidesName(p, id) == \E d \in ToSet(pool.solvables[p].provides) : dep2name(pool, d) = id

\* Packed from the back, sorted, shared and moved, each provider list still has
\* exactly the packages that provide the name, each once and in order
\* (pool_createwhatprovides, pool_shrink_whatprovides).
ProvidersExact ==
  phase = "installed" =>
    \A id \in 1 .. pool.nstrings :
      pool_whatprovides(pool, id) = Sorted({p \in Packages : Usable(p) /\ ProvidesName(p, id)}, <)

VersionRelations == {d \in RelIds(pool) : GETRELDEP(pool, d).flags # {} /\ GETRELDEP(pool, d).flags \subseteq Compare}

\* pool_addrelproviders, which walks what packages provide by hand, and
\* pool_match_dep agree on who provides a version range.
RelationsAgree ==
  phase = "installed" =>
    \A d \in VersionRelations, p \in Packages :
      Usable(p) /\ pool.solvables[p].provides # <<>> =>
        (p \in Provider(pool, d) <=> \E have \in ToSet(pool.solvables[p].provides) : pool_match_dep(pool, have, d))

\* The obsoletes index has, for each installed package, those that obsolete it,
\* each once and in order (policy_create_obsolete_index).
ObsoletersExact ==
  phase = "installed" =>
    \A p \in InstalledSolvables(pool) :
      ObsoletersOf(S, p) =
        Sorted({q \in Packages : /\ pool_installable(pool, q) /\ Name(pool, q) # Name(pool, p)
                                       /\ \E obs \in ToSet(pool.solvables[q].obsoletes) :
                                            p \in Provider(pool, obs) /\ MatchesObsoletes(pool, obs, p)}, <)

\* Every list that is packed into counted space is what it stands for.
ListsExact == GenerationTypeOK /\ ProvidersExact /\ RelationsAgree /\ ObsoletersExact

\* What the search takes for granted of policy_filter_unwanted: whatever it is
\* given to choose from, some of it is left, nothing is new, and of one name
\* there is one package only.
FiltersKeepChoice ==
  phase = "installed" =>
    \A d \in Lists, mode \in {"choose", "recommend", "suggest"}, decided \in {{}, installedm}, dupall \in BOOLEAN :
      LET plist == SelectSeq(pool_whatprovides(pool, d), LAMBDA p : p # SYSTEMSOLVABLE)
          kept  == policy_filter_unwanted(pool, [S EXCEPT !.decided = decided, !.dupmap_all = dupall], plist, mode)
      IN /\ plist # <<>> => kept # <<>>
         /\ ToSet(kept) \subseteq ToSet(plist)
         /\ \A i, j \in DOMAIN kept : Name(pool, kept[i]) = Name(pool, kept[j]) => i = j

----------------------------------------------------------------------------
(* Rules.                                                                  *)

AllRules ==
  ToSet(rpm) \cup {feature[p] : p \in DOMAIN feature} \cup {update[p] : p \in DOMAIN update}
  \cup {jobrules[i].lits : i \in DOMAIN jobrules} \cup ToSet(infarch) \cup ToSet(dup)
  \cup {choice[i].lits : i \in DOMAIN choice}

\* Whatever a rule can make the solver install, its own dependencies are among
\* the rules (solver_solve: "create rules for all package that could be involved
\* with the solving").
ClosureComplete ==
  phase = "done" => \A r \in AllRules : \A l \in ToSet(r) : l > 0 => l \in addedmap

\* Does package q provide dependency d, going by the two of them alone?
RECURSIVE Fulfills(_, _)
Fulfills(q, d) ==
  LET rd == GETRELDEP(pool, d) IN
  IF ~ISRELDEP(d) THEN q # SYSTEMSOLVABLE /\ Usable(q) /\ ProvidesName(q, d)
  ELSE CASE rd.flags \in {{"AND"}, {"WITH"}} -> Fulfills(q, rd.name) /\ Fulfills(q, rd.evr)
         [] rd.flags = {"OR"}             -> Fulfills(q, rd.name) \/ Fulfills(q, rd.evr)
         [] rd.flags = {"OTHERPROVIDERS"} -> Fulfills(q, rd.evr)
         [] rd.flags = {"NAMESPACE"}      -> q = SYSTEMSOLVABLE /\ rd.evr \in pool.namespace
         [] rd.flags = {"ARCH"}           -> Arch(pool, q) = rd.evr /\ Fulfills(q, rd.name)
         [] OTHER -> /\ q # SYSTEMSOLVABLE /\ Usable(q)
                     /\ \E have \in ToSet(pool.solvables[q].provides) : pool_match_dep(pool, have, d)

\* Broken dependencies of an installed package are none of our business, unless
\* the user asked for it.
Excused(p) == DontFix(pool, S, p)

\* p does not stand q: a conflict, an obsoletes or another version of itself.
Hates(p, q) ==
  /\ ~IsSource(pool, p)
  /\ ~(Excused(p) /\ IsInstalled(pool, q))
  /\ LET s == pool.solvables[p] IN
     \/ \E con \in ToSet(s.conflicts) :
          /\ Fulfills(q, con) /\ (IsPatch(pool, p) => pool_match_nevr(pool, q, con))
          /\ p = q => ~pool.allowselfconflicts /\ ~OtherProviders(pool, con)
     \/ /\ p # q /\ ~NoObs(S, p) /\ ~(IsInstalled(pool, p) /\ pool.noinstalledobsoletes)
        /\ \E obs \in ToSet(s.obsoletes) : Fulfills(q, obs) /\ MatchesObsoletes(pool, obs, q)
     \/ /\ p # q /\ ~(IsInstalled(pool, p) /\ pool.noinstalledobsoletes)
        /\ IsInstalled(pool, p) => IsInstalled(pool, q)
        /\ Fulfills(q, s.name) /\ (pool.implicitobsoleteusesprovides \/ Name(pool, q) = s.name)
        /\ NoObs(S, p) => SameNevra(pool, p, q)

Works(T, p) ==
  /\ Excused(p) \/ IsSource(pool, p) \/ pool_installable(pool, p)
  /\ \A req \in ToSet(pool.solvables[p].requires) :
       \/ \E q \in T : Fulfills(q, req)
       \/ Excused(p) /\ \A q \in InstalledSolvables(pool) : ~Fulfills(q, req)
  /\ \A q \in T : ~Hates(p, q)

\* The rules of the packages allow exactly those sets of packages that fit
\* together, going by the dependencies.
RulesMeanDependencies ==
  phase = "feature" /\ S.noobsoletes = {} =>
    \A T \in SUBSET (addedmap \ {SYSTEMSOLVABLE}) :
      R!Satisfies(T \cup {SYSTEMSOLVABLE}, [i \in DOMAIN rpm |-> [lits |-> rpm[i]]], DOMAIN rpm)
        <=> \A p \in T : Works(T \cup {SYSTEMSOLVABLE}, p)

\* Each rule of the packages can be told apart again later, with a reason that
\* is in the package (solver_allruleinfos, after solver_unifyrules).
RulesExplained ==
  phase = "feature" =>
    \A r \in ToSet(rpm) :
      LET infos == solver_allruleinfos(pool, S, r) IN
      /\ infos # {}
      /\ \A x \in infos :
           /\ -x.from \in ToSet(r) /\ (x.to # 0 => -x.to \in ToSet(r))
           /\ x.type \in {"requires", "nothing_provides_dep"} =>
                x.dep \in ToSet(pool.solvables[x.from].requires) /\ Provider(pool, x.dep) = ToSet(Tail(r))
           /\ x.type = "conflict" => x.dep \in ToSet(pool.solvables[x.from].conflicts)
           /\ x.type \in {"obsoletes", "installed_obsoletes"} => x.dep \in ToSet(pool.solvables[x.from].obsoletes)

\* The rules of the packages are those of their dependencies, in both directions:
\* what they allow, and what each of them comes from.
RpmRulesRight == RulesMeanDependencies /\ RulesExplained

EnabledPolicy(p) == ({update[p]} \cup (IF p \in off THEN {} ELSE {feature[p]})) \ {<<>>}

\* No installed package is silently dropped: it satisfies a rule of its own, or,
\* in a distribution upgrade, has one or counts as orphaned ("Those rules make
\* sure an installed package isn't silently deleted").
InstalledProtected ==
  phase = "job" =>
    \A p \in InstalledSolvables(pool) :
      /\ ~S.dupmap_all => \E r \in EnabledPolicy(p) : p \in ToSet(r)
      /\ EnabledPolicy(p) = {} => p \in ToSet(orphaned)

----------------------------------------------------------------------------
(* What is handed to the search.                                           *)

PolicyAreas == (IF infarch # <<>> THEN {"infarch"} ELSE {}) \cup (IF dup # <<>> THEN {"dup"} ELSE {})

DisabledBy(j) == jobtodisablelist(pool, S, job[j], PolicyAreas)

\* A rule of the array the search works on; key is what finds it in its area.
Rule(area, key, lits, grp) ==
  [rule |-> [lits |-> lits, area |-> area, grp |-> grp, weak |-> <<area, key>> \in weakruleq \/ area = "choice",
             why |-> {}], key |-> key]

Seqs(seq, Of(_)) == [i \in DOMAIN seq |-> Of(i)]

RuleArray ==
  LET inst == Installed(pool) IN
  SelectSeq(
    Seqs(rpm, LAMBDA i : Rule("rpm", i, rpm[i], 0))
      \o Seqs(inst, LAMBDA i : Rule("feature", inst[i], feature[inst[i]], 0))
      \o Seqs(inst, LAMBDA i : Rule("update", inst[i], update[inst[i]], 0))
      \o Seqs(jobrules, LAMBDA i : Rule("job", i, jobrules[i].lits, jobrules[i].job))
      \o Seqs(infarch, LAMBDA i : Rule("infarch", i, infarch[i], Name(pool, -infarch[i][1])))
      \o Seqs(dup, LAMBDA i : Rule("dup", i, dup[i], Name(pool, -dup[i][1])))
      \o Seqs(choice, LAMBDA i : Rule("choice", i, choice[i].lits, 0)),
    LAMBDA x : x.rule.lits # <<>>)

Problem ==
  LET array == RuleArray
      at_(area, p) == {i \in DOMAIN array : array[i].rule.area = area /\ array[i].key = p}
      one(set) == IF set = {} THEN 0 ELSE CHOOSE i \in set : TRUE
      P == Solvables(pool)
  IN [rules |-> [i \in DOMAIN array |-> array[i].rule],
      off |-> UNION {at_("feature", p) : p \in off},
      installed |-> Installed(pool), orphaned |-> orphaned,
      upd |-> [p \in P |-> one(at_("update", p))], feat |-> [p \in P |-> one(at_("feature", p))],
      multiversion |-> [p \in P |-> IF p \in DOMAIN multiversionupdaters THEN ToSet(multiversionupdaters[p]) ELSE {}],
      jobpolicy |-> [j \in DOMAIN job |-> DisabledBy(j)],
      cleandeps |-> [j \in DOMAIN job |-> IF job[j].op = "erase" /\ job[j].cleandeps THEN cleandepsmap ELSE {}],
      recommends |-> [p \in P |-> [k \in DOMAIN pool.solvables[p].recommends |->
                                      pool_whatprovides(pool, pool.solvables[p].recommends[k])]],
      choiceref |-> [i \in {k \in DOMAIN array : array[k].rule.area = "choice"} |-> choice[array[i].key].ref]]

\* The search is given what it assumes (ProblemFits in Rules, the assumption of
\* Engine), with a choice rule for a rule it makes stricter.
FitsSearch ==
  phase = "done" =>
    LET problem == Problem IN
    /\ R!ProblemFits(Solvables(pool), problem)
    /\ \A i \in DOMAIN problem.choiceref :
         LET lits == problem.rules[i].lits whole == problem.rules[problem.choiceref[i]].lits IN
         lits[1] = whole[1] /\ ToSet(lits) \subseteq ToSet(whole) /\ ToSet(lits) # ToSet(whole)

\* The search is given all it needs.
HandedOver == ClosureComplete /\ FitsSearch

DisabledPolicy == UNION {DisabledBy(j) : j \in DOMAIN job}

\* What is false once the job has its way: p stays out, or what p replaces.
FalseBy(lit) ==
  IF lit < 0 THEN {-lit}
  ELSE {-c.d[1] : c \in {x \in ToSet(SameNames(pool, S, lit) \o Obsoletes(pool, S, lit)) : x.d # <<>>}}

\* A job about one package is not held up by the policy for what this package
\* replaces: each update, architecture or upgrade rule that speaks against it is
\* switched off (jobtodisablelist).
JobsBeatPolicy ==
  phase = "done" /\ ~S.dupmap_all =>
    \A i \in DOMAIN jobrules :
      LET j == job[jobrules[i].job] lit == jobrules[i].lits[1] IN
      j.select = "solvable" /\ j.op \in {"install", "erase"} /\ "NOAUTO" \notin j.set =>
        /\ \A p \in InstalledSolvables(pool) :
             <<"update", p>> \notin DisabledPolicy =>
               \A r \in EnabledPolicy(p) : ~ToSet(r) \subseteq FalseBy(lit)
        /\ \A area \in PolicyAreas :
             <<-lit>> \in ToSet(IF area = "infarch" THEN infarch ELSE dup) /\ lit > 0 =>
               <<area, Name(pool, lit)>> \in DisabledPolicy

\* Policy rules hold installed packages, and give way to jobs.
PolicyRight == InstalledProtected /\ JobsBeatPolicy

----------------------------------------------------------------------------
(* Superfluous packages.                                                   *)

Stays == installedm \ (cleandepsmap \cup Erased)

\* Nothing is cleaned up that a package that stays needs, or that the user or a
\* job wants; and what is cleaned up was needed by, or supplemented, something
\* that goes.
CleanDepsJustified ==
  phase = "done" /\ WantsCleanDeps =>
    /\ \A p \in Stays : (ToSet(Needs(p)) \cap installedm) \ Erased \subseteq Stays
    /\ (SelectedBy(pool, job, "userinstalled") \cap installedm) \ Erased \subseteq Stays
    /\ \A p \in cleandepsmap \ Erased :
         \/ \E q \in cleandepsmap \ {p} : p \in ToSet(Needs(q))
         \/ \E d \in ToSet(pool.solvables[p].supplements) :
              dep_possible(pool, d, installedm) /\ ~dep_possible(pool, d, Stays)

\* All rules get made: the work queues, the walk over the weak dependencies and
\* the two loops of the clean-up run dry.
GenerationEnds == <>(phase = "done")
=============================================================================
