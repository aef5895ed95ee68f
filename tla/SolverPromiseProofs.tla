------------------------- MODULE SolverPromiseProofs -------------------------
(***************************************************************************)
(* What SolverPromise is good for: whoever keeps it never returns a        *)
(* solution that breaks a rule of the packages.                            *)
(***************************************************************************)
EXTENDS SolverPromise, TrailProofs

\* Only rules that may be given up are out of force.
HardInForce ==
  /\ in \in Inputs
  /\ off \cap HardRules = {}
  /\ SolutionIsSound

LEMMA NamedAreNotHard ==
  ASSUME WellGrouped(in.rules), NEW ids \in SUBSET ProblemIds
  PROVE  Named(ids) \cap HardRules = {}
<1>1. SUFFICES ASSUME NEW v \in ids
               PROVE  ProblemRules(in.rules, v) \cap RpmRules = {}
  BY DEF Named, HardRules
<1>2. PICK i \in DOMAIN in.rules \ RpmRules :
         v \in {ProblemId(in.rules, i), JobProblem(in.rules, i)}
  BY DEF ProblemIds
<1>3. ProblemRules(in.rules, v) = GroupOfRule(in.rules, i)
  BY <1>2, ProblemIdNamesGroup, JobProblemNamesGroup
<1>4. \A k \in GroupOfRule(in.rules, i) : in.rules[k].area = in.rules[i].area
  BY <1>2, GroupStaysInArea
<1>5. in.rules[i].area # "rpm"
  BY <1>2 DEF RpmRules, RulesIn
<1>6. QED BY <1>3, <1>4, <1>5 DEF RpmRules, RulesIn

\* A solution satisfies all rules of the packages but those a job has weakened,
\* whatever problems have been reported and whatever has been given up before:
\* the solver may drop jobs, updates and preferences, never a dependency.
THEOREM SolutionsAreSound ==
  ASSUME \A input \in Inputs : WellGrouped(input.rules)
  PROVE  Spec => []SolutionIsSound
<1>1. Init => HardInForce
  BY DEF Init, HardInForce, SolutionIsSound
<1>2. HardInForce /\ [Next]_vars => HardInForce'
  <2> SUFFICES ASSUME HardInForce, [Next]_vars
               PROVE  HardInForce'
    OBVIOUS
  <2>1. WellGrouped(in.rules)
    BY DEF HardInForce
  <2>2. CASE Report
    <3>1. PICK ids \in SUBSET ProblemIds : off' = off \cup Named(ids)
      BY <2>2 DEF Report
    <3>2. Named(ids) \cap HardRules = {}
      BY <2>1, NamedAreNotHard
    <3>3. QED BY <2>2, <3>1, <3>2 DEF Report, HardInForce, SolutionIsSound, HardRules, RpmRules
  <2>3. CASE DropWeak
    BY <2>3 DEF DropWeak, HardInForce, SolutionIsSound, HardRules, RpmRules
  <2>4. CASE Solve
    <3>1. /\ in' = in /\ off' = off
          /\ Satisfies(result', in.rules, InForce)
      BY <2>4 DEF Solve
    <3>2. HardRules \subseteq InForce
      BY DEF HardInForce, HardRules, RpmRules, RulesIn, InForce
    <3>3. Satisfies(result', in.rules, HardRules)
      BY <3>1, <3>2 DEF Satisfies
    <3>4. QED BY <3>1, <3>3 DEF HardInForce, SolutionIsSound, HardRules, RpmRules
  <2>5. CASE GiveUp
    BY <2>5 DEF GiveUp, HardInForce, SolutionIsSound, HardRules, RpmRules
  <2>6. CASE UNCHANGED vars
    BY <2>6 DEF vars, HardInForce, SolutionIsSound, HardRules, RpmRules
  <2>7. QED BY <2>2, <2>3, <2>4, <2>5, <2>6 DEF Next
<1>3. HardInForce => SolutionIsSound
  BY DEF HardInForce
<1>4. QED BY <1>1, <1>2, <1>3, PTL DEF Spec
=============================================================================
