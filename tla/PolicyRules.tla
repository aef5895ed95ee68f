----------------------------- MODULE PolicyRules -----------------------------
(***************************************************************************)
(* The rules that are not about dependencies: what keeps installed         *)
(* packages, what forbids inferior architectures and packages of other     *)
(* repositories, what prefers installed packages, and what jobs ask for    *)
(* and switch off (src/src/rules.c, the job section of solver_solve in     *)
(* src/src/solver.c).  S holds updatemap, updatemap_all and dupmap besides  *)
(* what RpmRules needs.  <<>> stands for the dummy rule.                   *)
(***************************************************************************)
EXTENDS RpmRules

Installed(W) == Sorted(InstalledSolvables(W), <)

----------------------------------------------------------------------------
(* Jobs: op, select ("solvable", "oneof", "name", "provides", "repo",      *)
(* "all"), what, weak, cleandeps, set.                                     *)

\* FOR_JOB_SELECT
JobSelect(W, job) ==
  CASE job.select = "solvable" -> <<job.what>>
    [] job.select = "oneof"    -> job.what
    [] job.select = "name"     -> SelectSeq(pool_whatprovides(W, job.what), LAMBDA p : pool_match_nevr(W, p, job.what))
    [] job.select = "provides" -> pool_whatprovides(W, job.what)
    [] OTHER                   -> <<>>

Selected(W, job) == ToSet(JobSelect(W, job))

SelectedBy(W, jobs, op) == UNION {Selected(W, jobs[j]) : j \in {k \in DOMAIN jobs : jobs[k].op = op}}

HasAll(jobs, op) == \E j \in DOMAIN jobs : jobs[j].op = op /\ jobs[j].select = "all"

solver_calculate_noobsmap(W, jobs) == SelectedBy(W, jobs, "noobsoletes")

\* Erasing a given installed package erases what could replace it as well,
\* except what other jobs may install.
EraseToo(W, job, installcandidates) ==
  IF job.select = "solvable" /\ IsInstalled(W, job.what)
  THEN SelectSeq(pool_whatprovides(W, Name(W, job.what)),
         LAMBDA p : /\ p # job.what /\ Name(W, p) = Name(W, job.what)
                    /\ ~IsInstalled(W, p) /\ p \notin installcandidates)
  ELSE <<>>

Assertions(lits) == [i \in DOMAIN lits |-> <<lits[i]>>]

Negative(ps) == [i \in DOMAIN ps |-> -ps[i]]

\* The rules of one job.
JobRules(W, job, installcandidates) ==
  LET l == JobSelect(W, job) IN
  CASE job.op = "install" -> IF l = <<>> THEN << <<-SYSTEMSOLVABLE>> >> ELSE <<l>>
    [] job.op = "erase"   -> Assertions(Negative(EraseToo(W, job, installcandidates) \o l))
    [] job.op = "lock"    -> Assertions([i \in DOMAIN l |-> IF IsInstalled(W, l[i]) THEN l[i] ELSE -l[i]])
    [] OTHER              -> <<>>

\* weaken_solvable_deps: the rpm rules that become weak.
weaken_solvable_deps(rules, p) ==
  {i \in DOMAIN rules : rules[i][1] = -p /\ ~(Len(rules[i]) = 2 /\ rules[i][2] < 0)}

----------------------------------------------------------------------------
(* Update and feature rules.                                               *)

finddistupgradepackages(W, S, n, allow_all) ==
  LET qs == policy_findupdatepackages(W, S, n, allow_all)
      same(q) == Evr(W, n) = Evr(W, q) /\ solvable_identical(W, n, q)
  IN IF qs = <<>>
     THEN [p |-> IF allow_all \/ policy_findupdatepackages(W, S, n, TRUE) = <<>> THEN 0 ELSE -SYSTEMSOLVABLE,
           qs |-> <<>>]
     ELSE [p |-> IF allow_all \/ \E i \in DOMAIN qs : same(qs[i]) THEN n ELSE -SYSTEMSOLVABLE, qs |-> qs]

addduppackages(W, S, n, qs) ==
  pushunique(qs, SelectSeq(policy_findupdatepackages(W, [S EXCEPT !.noupdateprovide = TRUE], n, TRUE),
                           LAMBDA p : p \in S.dupmap))

WantsUpdate(S, n) == S.updatemap_all \/ n \in S.updatemap

\* Mutant: an update becomes an order.
UpdateLits_Others(p, qs) == IF p = 0 THEN <<>> ELSE IF qs # <<>> THEN qs ELSE <<p>>

\* The rule for package p and its replacements.
UpdateLits(p, qs) ==
  IF p = 0 THEN <<>> ELSE IF p = -SYSTEMSOLVABLE /\ qs # <<>> THEN qs ELSE <<p>> \o qs

\* The rule for the candidates qs, of which those that would be installed
\* besides n are left out.
RuleFor(S, n, p, qs, kept) ==
  LET alone == kept = <<>> /\ qs # <<>> /\ p = -SYSTEMSOLVABLE IN
  [lits |-> UpdateLits(p, IF alone THEN qs ELSE kept),
   orphaned |-> alone,
   multiversion |-> IF Len(kept) < Len(qs) /\ WantsUpdate(S, n) THEN qs ELSE <<>>]

RuleAmong(W, S, n, allow_all, p, qs) ==
  RuleFor(S, n, p, qs, IF allow_all THEN qs ELSE SelectSeq(qs, LAMBDA q : q \in S.noobsoletes => SameNevra(W, q, n)))

WithDuplicates(W, S, n, allow_all, found) ==
  IF ~allow_all /\ ~S.dupmap_all /\ found.p \in S.dupinvolvedmap THEN addduppackages(W, S, n, found.qs) ELSE found.qs

FoundUpdates(W, S, n, allow_all) ==
  IF S.dupmap_all THEN finddistupgradepackages(W, S, n, allow_all)
  ELSE [p |-> n, qs |-> policy_findupdatepackages(W, S, n, allow_all)]

\* The rule, whether the package counts as orphaned for want of a rule, and the
\* candidates among which the best is to be chosen because some of them would
\* be installed besides it.
solver_addupdaterule(W, S, n, allow_all) ==
  LET rule(found) == RuleAmong(W, S, n, allow_all, found.p, WithDuplicates(W, S, n, allow_all, found))
  IN rule(FoundUpdates(W, S, n, allow_all))

----------------------------------------------------------------------------
(* Inferior architectures.                                                 *)

\* The considered packages with the name of p.
Namesakes(W, added, p) ==
  SelectSeq(pool_whatprovides(W, Name(W, p)), LAMBDA q : Name(W, q) = Name(W, p) /\ q \in added)

\* One representative of each name, in the order of the solvables.
NameHeads(W, added) ==
  SelectSeq([p \in Solvables(W) |-> p],
            LAMBDA p : /\ p # SYSTEMSOLVABLE /\ p \in added
                       /\ Namesakes(W, added, p) # <<>> /\ Namesakes(W, added, p)[1] = p)

InDup(S, p) == S.dupmap_all \/ p \in S.dupinvolvedmap

infarch_badq(W, S, added, head) ==
  LET l        == Namesakes(W, added, head)
      ignored  == {p \in ToSet(l) : ArchScore(W, p) # 1 /\ IsInstalled(W, p)}
      scores   == {ArchScore(W, p) : p \in ToSet(l) \ ignored} \ {0, 1}
      best     == CHOOSE a \in scores : \A b \in scores : a <= b
      first(a) == SelectSeq(l, LAMBDA p : p \notin ignored /\ ArchScore(W, p) = a)[1]
      kept     == {Arch(W, p) : p \in {q \in ignored : ~InDup(S, q)}}
      allowed  == IF scores # {} /\ kept = {Arch(W, first(best))} THEN {} ELSE kept
      fits(p)  == \E aa \in allowed :
                    \/ Arch(W, p) = aa
                    \/ W.id2arch[aa] # 0 /\ SameArchClass(ArchScore(W, p), W.id2arch[aa])
  IN IF scores = {} THEN <<>>
     ELSE SelectSeq(l, LAMBDA p : /\ ArchScore(W, p) # 1 /\ ~SameArchClass(ArchScore(W, p), best)
                                  /\ ~IsInstalled(W, p) /\ ~fits(p))

solver_addinfarchrules(W, S, added) ==
  Calls(NameHeads(W, added), LAMBDA p : Assertions(Negative(infarch_badq(W, S, added, p))))

----------------------------------------------------------------------------
(* Upgrades to the packages of a repository.                               *)

DupRepos(W, jobs) == {jobs[j].what : j \in {k \in DOMAIN jobs : jobs[k].op = "distupgrade" /\ jobs[k].select = "repo"}}

Dupmap(W, jobs) == {p \in Solvables(W) : RepoOf(W, p) \in DupRepos(W, jobs)}

DupInvolvedmap(W, jobs) ==
  LET replaced(p) ==
        {q \in Provider(W, Name(W, p)) : Name(W, q) = Name(W, p)} \cup
        UNION {{q \in Provider(W, obs) : MatchesObsoletes(W, obs, q)} : obs \in ToSet(W.solvables[p].obsoletes)}
  IN UNION {replaced(p) : p \in Dupmap(W, jobs)} \ {SYSTEMSOLVABLE}

\* The rule against p if p is in no upgrade repository; an installed package
\* may stay if it is the same as one that is.
duprule(W, S, p) ==
  LET same(q) == q \in S.dupmap /\ Evr(W, q) = Evr(W, p) /\ solvable_identical(W, p, q)
  IN When(/\ p \in S.dupinvolvedmap /\ p \notin S.dupmap
          /\ IsInstalled(W, p) => \A q \in Provider(W, Name(W, p)) : ~same(q),
          <<-p>>)

solver_addduprules(W, S, added) ==
  Calls(NameHeads(W, added), LAMBDA h : Calls(Namesakes(W, added, h), LAMBDA p : duprule(W, S, p)))

\* The installed packages that are to be updated because of it.
dup_updates(W, S, added) ==
  {p \in InstalledSolvables(W) \cap added \cap S.dupinvolvedmap :
     \E h \in ToSet(NameHeads(W, added)) : p \in ToSet(Namesakes(W, added, h))}

----------------------------------------------------------------------------
(* Choices: prefer the installed packages, and what updates them.          *)

\* The installed package that p would replace, 0 if there is none.
Blocker(W, p) ==
  LET named == SelectSeq(pool_whatprovides(W, Name(W, p)),
                 LAMBDA q : IsInstalled(W, q) /\ (W.implicitobsoleteusesprovides \/ Name(W, q) = Name(W, p)))
      obsoleted == Calls(W.solvables[p].obsoletes, LAMBDA obs :
                     SelectSeq(pool_whatprovides(W, obs), LAMBDA q : IsInstalled(W, q) /\ MatchesObsoletes(W, obs, q)))
  IN IF named # <<>> THEN named[1] ELSE IF obsoleted # <<>> THEN obsoleted[1] ELSE 0

Positive(lits) == SelectSeq(lits, LAMBDA p : p > 0)

\* policy: the update or feature rule of an installed package; forbidden: what
\* the infarch and dup rules forbid.
choicerule(W, S, lits, policy, forbidden) ==
  LET others  == SelectSeq(Positive(lits), LAMBDA p : InRepo(W, p))
      free(p) == ~IsInstalled(W, p) /\ Blocker(W, p) = 0
      good(p) == IsInstalled(W, p) \/
                 (Blocker(W, p) # 0 /\ p \notin forbidden /\ policy_is_illegal(W, S, Blocker(W, p), p, {}) = {})
      q       == SelectSeq(others, good)
      qi      == {Blocker(W, p) : p \in {x \in ToSet(q) : ~IsInstalled(W, x)}}
      covered == \A b \in qi : ToSet(policy[b]) \subseteq ToSet(lits)
  IN When(/\ lits[1] < 0 /\ ~(Len(lits) = 2 /\ lits[2] < 0)
          /\ \E i \in DOMAIN others : free(others[i])
          /\ q # <<>> /\ ~covered,
          <<lits[1]>> \o q)

solver_addchoicerules(W, S, rpm, policy, forbidden) ==
  IF W.installed = 0 THEN <<>>
  ELSE Calls([rid \in DOMAIN rpm |-> rid],
         LAMBDA rid : LET r == choicerule(W, S, rpm[rid], policy, forbidden)
                      IN When(r # <<>>, [lits |-> r[1], ref |-> rid]))

----------------------------------------------------------------------------
(* What a job switches off: pairs of "update" and an installed package, or *)
(* of "infarch" or "dup" and a name.                                       *)

HasArch(W, d) == ISRELDEP(d) /\ GETRELDEP(W, d).flags = {"ARCH"}

\* The parts of a package the job is definite about.
JobSet(W, job) ==
  LET named == job.select \in {"name", "provides"} /\ ISRELDEP(job.what)
      rd    == GETRELDEP(W, job.what)
  IN IF "NOAUTO" \in job.set THEN job.set \ {"NOAUTO"}
     ELSE job.set \cup
          (IF job.select = "solvable" THEN {"ARCH", "VENDOR", "REPO", "EVR"}
           ELSE IF ~named THEN {}
           ELSE (IF rd.flags = {"EQ"} /\ job.select = "name"
                 THEN (IF rd.evr % 10 # 0 THEN {"EVR"} ELSE {"EV"}) ELSE {})
                \cup (IF HasArch(W, IF rd.flags \subseteq Compare /\ ISRELDEP(rd.name) THEN rd.name ELSE job.what)
                      THEN {"ARCH"} ELSE {}))

\* Mutant: only its own name.
Replaces_SameName(W, p) ==
  {q \in Provider(W, Name(W, p)) : IsInstalled(W, q) /\ Name(W, q) = Name(W, p)}

\* The installed packages p replaces.
Replaces(W, p) ==
  UNION {{q \in Provider(W, obs) : IsInstalled(W, q) /\ MatchesObsoletes(W, obs, q)} :
           obs \in ToSet(W.solvables[p].obsoletes)}
  \cup {q \in Provider(W, Name(W, p)) :
          IsInstalled(W, q) /\ (W.implicitobsoleteusesprovides \/ Name(W, q) = Name(W, p))}

\* Nothing the job is not definite about speaks against replacing is by s.
Tolerated(W, S, set, is, s) ==
  LET ignore  == {c[2] : c \in {x \in {<<"EVR", "downgrade">>, <<"ARCH", "archchange">>, <<"VENDOR", "vendorchange">>} :
                                  x[1] \in set}}
      illegal == policy_is_illegal(W, S, is, s, ignore)
  IN \/ illegal = {}
     \/ illegal = {"downgrade"} /\ "EV" \in set /\ EVRCMP_COMPARE_EVONLY(Evr(W, is), Evr(W, s)) # "EQ"

\* areas: those of "infarch" and "dup" that have rules.
jobtodisablelist(W, S, job, areas) ==
  LET l     == Selected(W, job)
      set   == JobSet(W, job)
      names(part, area) == IF part \in set /\ area \in areas THEN {<<area, Name(W, p)>> : p \in l} ELSE {}
      all   == {is \in InstalledSolvables(W) : l # {} /\ \A p \in l : is \in Replaces(W, p)}
      definite == {"EVR", "ARCH", "VENDOR"} \subseteq set
      updates == IF l \cap InstalledSolvables(W) # {} \/ l \cap S.noobsoletes # {}
                 THEN (IF job.select = "solvable" THEN l \cap InstalledSolvables(W) ELSE {})
                 ELSE {is \in all : definite \/ \A p \in l : Tolerated(W, S, set, is, p)}
  IN CASE job.op = "install" /\ set # {} ->
            names("ARCH", "infarch") \cup names("REPO", "dup") \cup ({"update"} \X updates)
       [] job.op = "erase" -> {"update"} \X (l \cap InstalledSolvables(W))
       [] OTHER -> {}
=============================================================================
