------------------------------- MODULE Rules -------------------------------
(***************************************************************************)
(* Literals, rules, rule areas and problem ids of the dependency solver    *)
(* (rules.h, rules.c, problems.c).                                         *)
(*                                                                         *)
(* A solvable is a positive integer; solvable 1 is the system solvable.    *)
(* A literal is a solvable p ("p is installed") or its negation -p ("p is  *)
(* not installed").  A rule is a record                                    *)
(*    lits : the literals, Rule.p first, then the list Rule.d points to    *)
(*    area : the part of the rule array the rule lives in                  *)
(*    grp  : what solver_disableproblem disables together with the rule:   *)
(*           the job of a job rule, the package name of an infarch or dup  *)
(*           rule (0 in every other area)                                  *)
(*    weak : the rule's bit in weakrulemap                                 *)
(*    why  : the rules a learnt rule was learnt from, {} for the others    *)
(* Whether a rule is disabled (Rule.d negative) is not part of the record: *)
(* the solver keeps the set of the disabled rules.                         *)
(***************************************************************************)
EXTENDS Integers, Sequences, FiniteSets, FiniteSetsExt, SequencesExt

SYSTEMSOLVABLE == 1

Areas == {"rpm", "feature", "update", "job", "infarch", "dup", "choice", "learnt"}

\* The areas from which a rule is disabled, and reported, together with the
\* rules of the same group.
GroupedAreas == {"job", "infarch", "dup"}

Var(l) == IF l > 0 THEN l ELSE -l

Level(x) == IF x < 0 THEN -x ELSE x

Literals(S) == S \cup {-p : p \in S}

\* The elements of s that are in S, in their order.
Only(s, S) ==
  LET only[k \in 0..Len(s)] ==
        IF k = 0 THEN <<>>
        ELSE IF s[k] \in S THEN Append(only[k - 1], s[k]) ELSE only[k - 1]
  IN  only[Len(s)]

----------------------------------------------------------------------------
(* DECISIONMAP_TRUE, DECISIONMAP_FALSE and DECISIONMAP_UNDEF.  A decision  *)
(* map gives each solvable 0 (undecided), the level at which it was        *)
(* decided to be installed, or minus the level at which it was forbidden.  *)

IsTrue(map, l) == IF l > 0 THEN map[l] > 0 ELSE map[-l] < 0

IsFalse(map, l) == IF l > 0 THEN map[l] < 0 ELSE map[-l] > 0

IsUndef(map, l) == map[Var(l)] = 0

Installs(map) == {p \in DOMAIN map : map[p] > 0}

----------------------------------------------------------------------------
(* Classes of rules.                                                       *)

IsAssertion(r) == Len(r.lits) = 1

RulesIn(rs, area) == {i \in DOMAIN rs : rs[i].area = area}

Learnt(rs) == RulesIn(rs, "learnt")

Original(rs) == DOMAIN rs \ Learnt(rs)

WeakRules(rs) == {i \in DOMAIN rs : rs[i].weak}

\* Jobs and package names are numbered from 1.
WellGrouped(rs) ==
  /\ rs \in Seq(Range(rs))
  /\ \A i \in DOMAIN rs :
       rs[i].grp \in Nat /\ (rs[i].grp # 0 <=> rs[i].area \in GroupedAreas)

(***************************************************************************)
(* A problem id is minus the job number for a job and a rule number for    *)
(* every other rule; the infarch and dup rules of one package name share   *)
(* the number of the first of them (analyze_unsolvable_rule).              *)
(***************************************************************************)
GroupOfRule(rs, i) ==
  IF rs[i].area \in GroupedAreas
    THEN {k \in DOMAIN rs : rs[k].area = rs[i].area /\ rs[k].grp = rs[i].grp}
    ELSE {i}

JobProblem(rs, i) == IF rs[i].area = "job" THEN -rs[i].grp ELSE i

ProblemId(rs, i) ==
  IF rs[i].area = "job" THEN -rs[i].grp ELSE Min(GroupOfRule(rs, i))

\* The rules that solver_disableproblem disables for problem id v.
ProblemRules(rs, v) ==
  IF v < 0 THEN {k \in RulesIn(rs, "job") : rs[k].grp = -v}
           ELSE GroupOfRule(rs, v)

----------------------------------------------------------------------------
(* What the rules mean: used to state properties, never by the solver.     *)

\* S, the set of the installed solvables, satisfies a rule's literals.
Holds(S, lits) == \E l \in Range(lits) : IF l > 0 THEN l \in S ELSE -l \notin S

\* The sets of installed solvables, the system solvable always among them.
Worlds(P) == {S \cup {SYSTEMSOLVABLE} : S \in SUBSET P}

Satisfies(S, rs, R) == \A i \in R : Holds(S, rs[i].lits)

Satisfiable(P, rs, R) == \E S \in Worlds(P) : Satisfies(S, rs, R)

Entails(P, rs, R, lits) ==
  \A S \in Worlds(P) : Satisfies(S, rs, R) => Holds(S, lits)

----------------------------------------------------------------------------
(* A solver problem over the solvables P, as the rule generation hands it  *)
(* to the search.                                                          *)

AreaNumber ==
  [rpm |-> 1, feature |-> 2, update |-> 3, job |-> 4, infarch |-> 5, dup |-> 6, choice |-> 7]

RulesFit(P, rs) ==
  /\ WellGrouped(rs)
  /\ \A i \in DOMAIN rs :
       /\ rs[i].area \in DOMAIN AreaNumber
       /\ rs[i].weak \in BOOLEAN /\ rs[i].why = {}
       /\ rs[i].lits \in Seq(Literals(P)) /\ rs[i].lits # <<>>
       /\ \A j, k \in DOMAIN rs[i].lits : Var(rs[i].lits[j]) = Var(rs[i].lits[k]) => j = k
  /\ \A i, k \in DOMAIN rs : i <= k => AreaNumber[rs[i].area] <= AreaNumber[rs[k].area]
  \* "p does not work", "p needs one of", "p excludes"
  /\ \A i \in RulesIn(rs, "rpm") \cup RulesIn(rs, "choice") :
       /\ rs[i].lits[1] < 0 /\ rs[i].lits[1] # -SYSTEMSOLVABLE
       /\ \A k \in 3..Len(rs[i].lits) : rs[i].lits[k] > 0
  \* an upgrade may find nothing that may be installed
  /\ \A i \in RulesIn(rs, "feature") \cup RulesIn(rs, "update") :
       Range(rs[i].lits) \subseteq P \/ rs[i].lits = <<-SYSTEMSOLVABLE>>
  \* an install job makes one rule, other jobs assertions
  /\ \A i \in RulesIn(rs, "job") : IsAssertion(rs[i]) \/ Range(rs[i].lits) \subseteq P
  /\ \A i, k \in RulesIn(rs, "job") :
       /\ i <= k => rs[i].grp <= rs[k].grp
       /\ i # k /\ rs[i].grp = rs[k].grp => IsAssertion(rs[i]) /\ rs[i].weak = rs[k].weak
  /\ \A i \in DOMAIN rs : rs[i].area \in {"infarch", "dup"} =>
       IsAssertion(rs[i]) /\ rs[i].lits[1] < 0

ProblemFits(P, input) ==
  /\ RulesFit(P, input.rules)
  /\ input.off \subseteq RulesIn(input.rules, "feature")
  /\ input.installed \in Seq(P) /\ input.orphaned \in Seq(P)
  /\ \A j, k \in DOMAIN input.installed : input.installed[j] = input.installed[k] => j = k
  /\ Range(input.installed) \cup Range(input.orphaned) \subseteq P \ {SYSTEMSOLVABLE}
  /\ \A p \in P :
       /\ input.upd[p]  \in RulesIn(input.rules, "update") \cup {0}
       /\ input.feat[p] \in RulesIn(input.rules, "feature") \cup {0}
       /\ input.upd[p] # 0 \/ input.feat[p] # 0 => p \in Range(input.installed)
       /\ input.multiversion[p] \subseteq P \ {SYSTEMSOLVABLE}
       /\ input.multiversion[p] # {} => p \in Range(input.installed)
       /\ input.recommends[p] \in Seq(Seq(P))
  /\ {input.rules[i].grp : i \in RulesIn(input.rules, "job")} \subseteq DOMAIN input.jobpolicy
  /\ DOMAIN input.cleandeps = DOMAIN input.jobpolicy
  /\ \A j \in DOMAIN input.jobpolicy :
       /\ input.jobpolicy[j] \subseteq
            ({"update"} \X Range(input.installed)) \cup ({"infarch", "dup"} \X Nat)
       /\ input.cleandeps[j] \subseteq Range(input.installed)
  /\ DOMAIN input.choiceref = RulesIn(input.rules, "choice")
=============================================================================
