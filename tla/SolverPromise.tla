---------------------------- MODULE SolverPromise ----------------------------
(***************************************************************************)
(* What solver_run_sat promises to its callers (solver_solve and           *)
(* refine_suggestion), without a word about how it searches: it gives up   *)
(* rules, only for a reason, until the remaining ones can be satisfied,    *)
(* and returns a set of packages that satisfies them.                      *)
(***************************************************************************)
EXTENDS Rules

CONSTANTS
  NSolvables,   \* solvables are 1..NSolvables
  Inputs        \* the problems considered: records with a field rules

VARIABLES
  in,        \* the problem being solved
  off,       \* the rules that are not in force
  problems,  \* the problems reported, each a set of problem ids
  outcome,   \* "searching", "solved" or "hopeless"
  result     \* the packages installed by the solution

vars == <<in, off, problems, outcome, result>>

Solvables == 1..NSolvables

InForce == DOMAIN in.rules \ off

RpmRules == RulesIn(in.rules, "rpm")

\* The rules of the packages; a job may weaken those of a package.
HardRules == RpmRules \ WeakRules(in.rules)

PolicyAreas == {"feature", "update", "infarch", "dup"}

Init ==
  /\ in \in Inputs
  /\ off \in SUBSET (DOMAIN in.rules \ HardRules)
  /\ problems = <<>>
  /\ outcome = "searching"
  /\ result = {}

Named(ids) == UNION {ProblemRules(in.rules, v) : v \in ids}

\* A problem names rules that cannot all hold, whatever is installed: what a
\* user has to give up at least one of.
Real(ids) == ~Satisfiable(Solvables, in.rules, HardRules \cup Named(ids))

ProblemIds == {ProblemId(in.rules, i) : i \in DOMAIN in.rules \ RpmRules}
                \cup {JobProblem(in.rules, i) : i \in DOMAIN in.rules \ RpmRules}

\* A problem is reported, and its rules, one of them in force until now, are
\* given up.
Report ==
  /\ outcome = "searching"
  /\ \E ids \in SUBSET ProblemIds :
       /\ problems' = Append(problems, ids)
       /\ Real(ids)
       /\ Named(ids) \cap InForce # {}
       /\ off' = off \cup Named(ids)
  /\ UNCHANGED <<in, outcome, result>>

\* Weak rules are given up without a report; what their jobs held back comes
\* into force.
DropWeak ==
  /\ outcome = "searching"
  /\ off' \in SUBSET (DOMAIN in.rules \ HardRules)
  /\ \E i \in off' \ off : in.rules[i].weak
  /\ \A i \in off' \ off : \E k \in GroupOfRule(in.rules, i) : in.rules[k].weak
  /\ \A i \in off \ off' : in.rules[i].area \in PolicyAreas
  /\ UNCHANGED <<in, problems, outcome, result>>

Solve ==
  /\ outcome = "searching"
  /\ outcome' = "solved"
  /\ result' \in Worlds(Solvables)
  /\ Satisfies(result', in.rules, InForce)
  /\ UNCHANGED <<in, off, problems>>

\* Nothing may be given up, and the rules contradict one another.
GiveUp ==
  /\ outcome = "searching"
  /\ outcome' = "hopeless"
  /\ ~Satisfiable(Solvables, in.rules, InForce)
  /\ \E ids \in SUBSET ProblemIds : problems' = Append(problems, ids) /\ Real(ids)
  /\ UNCHANGED <<in, off, result>>

Next == Report \/ DropWeak \/ Solve \/ GiveUp

Spec == Init /\ [][Next]_vars

----------------------------------------------------------------------------

\* A solution never breaks a rule of the packages themselves.
SolutionIsSound == outcome = "solved" => Satisfies(result, in.rules, HardRules)
=============================================================================
