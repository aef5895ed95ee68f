-------------------------- MODULE SolverProperties --------------------------
(***************************************************************************)
(* What makes the solver's search correct.                                 *)
(***************************************************************************)
EXTENDS Solver

\* The places where setpropagatelearn is not running and no assertion is
\* waiting to be decided: the main loop holds a propagated set of decisions.
Searching == pc \in {"assert", "assertweak", "propagate", "analyze"}
AtRest == ~Searching /\ level > 0 /\ propagate_index = Len(trail.q)

EnabledRules == DOMAIN rules \ disabled

----------------------------------------------------------------------------
(* The trail.                                                              *)

TypeOK ==
  /\ Len(rules) >= Len(in.rules)
  /\ \A i \in DOMAIN rules : /\ Lits(i) \subseteq Literals(Solvables)
                             /\ rules[i].area \in Areas
                             /\ rules[i].why \subseteq 1..(i - 1)
  /\ disabled \subseteq DOMAIN rules
  /\ DOMAIN w = DOMAIN rules
  /\ watches \in [Literals(Solvables) -> Seq(DOMAIN rules)]
  /\ TrailType(trail, NSolvables)
  /\ propagate_index \in 0..Len(trail.q)
  /\ level \in 0..NSolvables + 1 /\ systemlevel \in 1..NSolvables + 2
  /\ \A b \in DOMAIN branches : Range(branches[b].alts) \subseteq Solvables
  /\ recommendations \in Seq(Solvables)

\* decisionq, decisionq_why and decisionmap describe one assignment, in which
\* every solvable is decided at most once and levels never decrease: the
\* condition under which revert and solver_reset undo exactly what they must.
TrailConsistent == Agrees(trail) /\ Sorted(trail)

\* A decision that is not free follows from its rule and from decisions taken
\* before it, so that analyze and analyze_unsolvable, which walk the queue
\* backwards, meet every decision they need.
ReasonsPrecede ==
  \A k \in DOMAIN trail.q : trail.why[k] > 0 =>
    /\ trail.q[k] \in Lits(trail.why[k])
    /\ \A l \in Lits(trail.why[k]) \ {trail.q[k]} :
         \E j \in 1..(k - 1) : trail.q[j] = -l

\* The search stands on a trail that is one assignment with a reason for each
\* decision (solver.c: propagate, revert, analyze, solver_reset).
TrailSound == TypeOK /\ TrailConsistent /\ ReasonsPrecede

----------------------------------------------------------------------------
(* Propagation.                                                            *)

\* When propagate has returned 0, no enabled rule is false or has only one
\* literal left, though each rule was looked at only when one of its two
\* watches became false.
PropagationComplete ==
  AtRest =>
    \A i \in EnabledRules :
      ~IsAssertion(rules[i]) =>
         \/ \E l \in Lits(i) : IsTrue(trail.map, l)
         \/ Cardinality({l \in Lits(i) : IsUndef(trail.map, l)}) > 1

\* A false watch is harmless only if the other one is true and stays so for as
\* long: revert, which does not look at the watches, may undo the false one
\* alone but never the true one alone.
WatchesSurviveRevert ==
  AtRest =>
    \A i \in EnabledRules : ~IsAssertion(rules[i]) =>
      \A k \in {1, 2} :
        IsFalse(trail.map, w[i][k]) =>
          /\ IsTrue(trail.map, w[i][3 - k])
          /\ LevelOf(w[i][3 - k]) <= LevelOf(w[i][k])

\* Every rule is on the lists of its two watches, once, and on no other: moving
\* a watch, and adding those of a learnt rule, keep the linked lists whole.
WatchListsWhole ==
  \A i \in DOMAIN rules : \A l \in Literals(Solvables) :
    Cardinality({k \in DOMAIN watches[l] : watches[l][k] = i}) =
      IF ~IsAssertion(rules[i]) /\ l \in Range(w[i]) THEN 1 ELSE 0

\* Every enabled assertion has been decided when the main loop runs.
AssertionsDecided ==
  AtRest => \A i \in EnabledRules :
              IsAssertion(rules[i]) => IsTrue(trail.map, rules[i].lits[1])

\* When propagation has ended nothing is left to be derived, and the watches will
\* tell of what comes next, also after decisions were undone.
PropagationSound == PropagationComplete /\ WatchesSurviveRevert /\ WatchListsWhole

----------------------------------------------------------------------------
(* Learning.                                                               *)

\* The rules recorded as the proof of a learnt rule imply it; they decide when
\* the rule is disabled and what a problem is blamed on.
ProofsEntail ==
  \A i \in Learnt(rules) : Entails(Solvables, rules, rules[i].why, rules[i].lits)

----------------------------------------------------------------------------
(* Outcome.                                                                *)

\* The rules of the packages themselves are never given up.
RpmRulesKept == RulesIn(rules, "rpm") \cap disabled \subseteq WeakRules(rules)

\* What the callers of solver_run_sat rely on, SolverPromise, is kept by every
\* step: rules are given up one reported problem, or one weak rule, at a time,
\* every problem is a contradiction and gives up a rule that was in force, and
\* the solution satisfies all the rules still in force.
Promise ==
  INSTANCE SolverPromise WITH
    off      <- disabled \cap DOMAIN in.rules,
    problems <- [k \in DOMAIN problems |-> problems[k].ids],
    outcome  <- CASE pc = "done" -> "solved" [] pc = "hopeless" -> "hopeless"
                  [] OTHER -> "searching",
    result   <- IF pc = "done" THEN Installs(trail.map) ELSE {}

PromiseKept == Promise!Spec

\* A solution satisfies every rule that is enabled.
SolutionSatisfies ==
  pc = "done" => Satisfies(Installs(trail.map), rules, EnabledRules)

\* The proof kept with a problem is one: no installation satisfies its rules.
ProblemProofsHold ==
  \A k \in DOMAIN problems : ~Satisfiable(Solvables, rules, problems[k].proof)

\* While the extras are decided nothing can become unsolvable: the decisions
\* they are made on satisfy every rule.  The callers rely on it.
ExtrasSolvable == level = 0 => pc = "hopeless"

\* solver_run_sat returns.
Termination == <>(pc \in {"done", "hopeless"})

\* The analysis gives up rules, reported or not, only when the original rules
\* that are enabled contradict one another: what was learnt from rules given up
\* before must not have a say in it.
GivesUpOnlyWhenNeeded ==
  [][(pc = "propagate" /\ pc' = "assert") =>
       ~Satisfiable(Solvables, rules, Original(rules) \ disabled)]_vars

----------------------------------------------------------------------------
(* Branches and recommendations.                                           *)

\* Open branches are ordered by level, and what was decided right above the
\* level of one is a free decision: so the reason TakeBranch reads from beyond
\* the end of the queue is never that of a forced decision.
BranchesOpen ==
  \A b \in DOMAIN branches :
    /\ b > 1 => branches[b - 1].level < branches[b].level
    /\ ~Searching =>
         LET k == Kept(trail, branches[b].level) + 1
         IN  k <= Len(trail.q) /\ trail.why[k] <= 0

\* The alternatives of an open branch were all undecided when it was opened.
AlternativesFresh ==
  \A b \in DOMAIN branches : \A p \in Range(branches[b].alts) :
    Undecided(p) \/ LevelOf(p) > branches[b].level

\* The recommendations are installed, in the order of the queue, so that
\* revert, which looks only at the last one, removes those it undoes.
RecommendationsOnTrail ==
  \E f \in {g \in [DOMAIN recommendations -> DOMAIN trail.q] : TRUE} :
    /\ \A j \in DOMAIN recommendations : trail.q[f[j]] = recommendations[j]
    /\ \A j, k \in DOMAIN recommendations : j < k => f[j] < f[k]

\* Weak dependencies, orphans and branches are decided upon what can be undone
\* and taken up again: nothing becomes unsolvable on the way, branches are open,
\* their alternatives are, and recommendations go with their decisions.
ExtrasSound == ExtrasSolvable /\ BranchesOpen /\ AlternativesFresh /\ RecommendationsOnTrail

----------------------------------------------------------------------------
(* The order of the main loop.                                             *)

\* The rules that are still open are looked at when the installed packages
\* have been decided, so that keeping a package comes before anything else the
\* rules allow.
InstalledBeforeRules ==
  pc = "decide" =>
    \A p \in Range(in.installed) : UpdateRule(p) # 0 => ~Undecided(p)

\* What the main loop decides, it decides in its order: of assertions that
\* contradict each other makeruledecisions gives some up and has decided all the
\* others before anything else is, and the installed packages come before the
\* rules that are still open.
DecidedInOrder == AssertionsDecided /\ InstalledBeforeRules

\* A job that could be resolved by a package that is to be updated is not
\* narrowed down to installed packages.
UpdatesNotPruned ==
  pc = "job" /\ OpenJobs # {} =>
    LET job == Min(OpenJobs)
    IN  Candidates(job) \cap in.updatemap # {} => Pruned(job) = Candidates(job)
=============================================================================
