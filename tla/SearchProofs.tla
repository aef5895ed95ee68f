----------------------------- MODULE SearchProofs -----------------------------
(***************************************************************************)
(* The search is sound, for every set of problems, every number of         *)
(* solvables and every choice of the policy.  First, what it may give up   *)
(* (RpmRulesAreKept).  Then the invariant of the search, SearchInv, and    *)
(* that the main loop keeps it; that propagation, analysis and learning    *)
(* keep it is in ConflictProofs.                                           *)
(***************************************************************************)
EXTENDS SolverProperties, TrailProofs, SequenceTheorems, FiniteSetTheorems

----------------------------------------------------------------------------
(* What is given up.                                                       *)

\* The variables the argument is about.
given == <<in, rules, disabled>>

\* The rule array begins with the rules of the problem, and only learnt rules,
\* which are never weak, are added to it.
RulesGrow ==
  /\ in \in Inputs
  /\ rules \in Seq(Range(rules))
  /\ Len(in.rules) <= Len(rules)
  /\ \A i \in 1..Len(in.rules) : rules[i] = in.rules[i]
  /\ \A i \in 1..Len(rules) : i > Len(in.rules) =>
       rules[i].area = "learnt" /\ ~rules[i].weak /\ rules[i].grp = 0

\* The rules that are never given up.
HardRules == RulesIn(rules, "rpm") \ WeakRules(rules)

HardInForce == HardRules \cap disabled = {}

IInv == RulesGrow /\ HardInForce

----------------------------------------------------------------------------
(* What the rule array is like in every state.                             *)

LEMMA ArrayFacts ==
  ASSUME RulesGrow
  PROVE  /\ WellFormed(in) /\ WellGrouped(in.rules) /\ WellGrouped(rules)
         /\ DOMAIN in.rules \subseteq DOMAIN rules
         /\ \A i \in DOMAIN rules :
              \/ i \in DOMAIN in.rules /\ rules[i] = in.rules[i] /\ rules[i].area # "learnt"
              \/ rules[i].area = "learnt" /\ ~rules[i].weak
<1>1. WellFormed(in) /\ RulesFit(Solvables, in.rules) /\ WellGrouped(in.rules)
  BY InputsAssumption DEF RulesGrow, WellFormed, ProblemFits, RulesFit
<1>2. /\ DOMAIN in.rules = 1..Len(in.rules) /\ Len(in.rules) \in Nat
      /\ DOMAIN rules = 1..Len(rules) /\ Len(rules) \in Nat
  BY <1>1 DEF WellGrouped, RulesGrow
<1>3. DOMAIN in.rules \subseteq DOMAIN rules
  BY <1>2 DEF RulesGrow
<1>4. \A i \in DOMAIN in.rules : rules[i] = in.rules[i] /\ rules[i].area # "learnt"
  BY <1>1, <1>2 DEF RulesGrow, RulesFit, AreaNumber
<1>5. \A i \in DOMAIN rules \ DOMAIN in.rules :
         rules[i].area = "learnt" /\ ~rules[i].weak /\ rules[i].grp = 0
  BY <1>2 DEF RulesGrow
<1>6. WellGrouped(rules)
  <2>1. rules \in Seq(Range(rules))
    BY <1>2 DEF RulesGrow, Range
  <2>2. \A i \in DOMAIN rules :
           rules[i].grp \in Nat /\ (rules[i].grp # 0 <=> rules[i].area \in GroupedAreas)
    BY <1>1, <1>4, <1>5 DEF WellGrouped, GroupedAreas
  <2>3. QED BY <2>1, <2>2 DEF WellGrouped
<1>7. QED BY <1>1, <1>3, <1>4, <1>5, <1>6

\* A rule that may be given up takes no rule with it that may not.
LEMMA GroupIsNotHard ==
  ASSUME NEW i \in DOMAIN rules, i \notin HardRules
  PROVE  GroupOfRule(rules, i) \cap HardRules = {}
<1>1. SUFFICES ASSUME NEW k \in GroupOfRule(rules, i), k \in HardRules
               PROVE  FALSE
  OBVIOUS
<1>2. rules[i].area = "rpm"
  BY <1>1, GroupStaysInArea DEF HardRules, RulesIn
<1>3. k = i
  BY <1>1, <1>2, GroupStaysInArea DEF GroupedAreas
<1>4. QED BY <1>1, <1>3

LEMMA ProblemIsNotHard ==
  ASSUME WellGrouped(rules), NEW i \in DOMAIN rules, i \notin HardRules
  PROVE  /\ ProblemRules(rules, JobProblem(rules, i)) \cap HardRules = {}
         /\ ProblemRules(rules, ProblemId(rules, i)) \cap HardRules = {}
BY GroupIsNotHard, JobProblemNamesGroup, ProblemIdNamesGroup

LEMMA DropIsNotHard ==
  ASSUME NEW dis, dis \cap HardRules = {},
         WellGrouped(rules), NEW i \in DOMAIN rules, i \notin HardRules
  PROVE  /\ DisableProblem(dis, JobProblem(rules, i)) \cap HardRules = {}
         /\ AfterDrop(dis, JobProblem(rules, i)) \cap HardRules = {}
BY ProblemIsNotHard DEF DisableProblem, DisableProblems, AfterDrop

\* enabledisablelearntrules touches learnt rules only.
LEMMA ResetIsNotHard ==
  ASSUME NEW dis, dis \cap HardRules = {}, Reset(dis)
  PROVE  disabled' \cap HardRules = {}
<1>1. disabled' \subseteq dis \cup Learnt(rules)
  BY DEF Reset, WithLearnt
<1>2. Learnt(rules) \cap HardRules = {}
  BY DEF Learnt, RulesIn, HardRules
<1>3. QED BY <1>1, <1>2

\* The steps that leave rules and disabled alone, but for disabled, keep the
\* invariant when what is disabled afterwards is not hard.
LEMMA KeepsInvariant ==
  ASSUME IInv, UNCHANGED <<in, rules>>, disabled' \cap HardRules = {}
  PROVE  IInv'
BY DEF IInv, RulesGrow, HardInForce, HardRules, RulesIn, WeakRules

LEMMA StuttersKeepInvariant ==
  ASSUME IInv, UNCHANGED given
  PROVE  IInv'
BY DEF IInv, given, RulesGrow, HardInForce, HardRules, RulesIn, WeakRules

----------------------------------------------------------------------------
(* The steps that give rules up.                                           *)

\* PendingAssertions, and so Assertion and WeakAssertion, are rules.
LEMMA AssertionFacts ==
  ASSUME RulesGrow
  PROVE  /\ PendingAssertions \ WeakRules(rules) # {} =>
              Assertion \in PendingAssertions \ WeakRules(rules)
         /\ PendingAssertions \cap WeakRules(rules) # {} =>
              WeakAssertion \in PendingAssertions \cap WeakRules(rules)
         /\ PendingAssertions \subseteq DOMAIN rules
<1>1. PendingAssertions \subseteq DOMAIN rules /\ DOMAIN rules \subseteq Nat
  BY ArrayFacts DEF PendingAssertions, WellGrouped
<1>2. QED BY <1>1, MinIsLeast DEF Assertion, WeakAssertion

\* An assertion about the system solvable, or one that wants a package
\* installed, is never a rule of the packages.
LEMMA AgainstFixedIsNotHard ==
  ASSUME RulesGrow, AssertAgainstFixed
  PROVE  Assertion \in DOMAIN rules /\ Assertion \notin HardRules
<1>1. Assertion \in DOMAIN rules
  BY AssertionFacts DEF AssertAgainstFixed, AssertConflict, AssertRule
<1>2. rules[Assertion].lits[1] = -SYSTEMSOLVABLE \/ rules[Assertion].lits[1] > 0
  BY DEF AssertAgainstFixed
<1>3. SUFFICES ASSUME rules[Assertion].area = "rpm"
               PROVE  FALSE
  BY <1>1 DEF HardRules, RulesIn
<1>4. Assertion \in RulesIn(in.rules, "rpm") /\ rules[Assertion] = in.rules[Assertion]
  BY <1>1, <1>3, ArrayFacts DEF RulesIn
<1> DEFINE lits == in.rules[Assertion].lits
<1>5. RulesFit(Solvables, in.rules)
  BY ArrayFacts DEF WellFormed, ProblemFits
<1>6. /\ lits[1] < 0 /\ lits[1] # -SYSTEMSOLVABLE
      /\ lits \in Seq(Literals(Solvables)) /\ lits # <<>>
  BY <1>4, <1>5 DEF RulesFit, RulesIn
<1>7. lits[1] \in Literals(Solvables) /\ lits[1] \in Range(lits)
  BY <1>6 DEF Range
<1>8. lits[1] \in Int
  BY <1>7, SolvablesAssumption DEF Literals, Solvables
<1>9. QED BY <1>2, <1>4, <1>6, <1>8 DEF SYSTEMSOLVABLE

LEMMA PropagateKeepsRules ==
  ASSUME PropagateStep
  PROVE  UNCHANGED given
<1>1. CASE PropagateNext
  BY <1>1 DEF PropagateNext, ruleVars, given
<1>2. CASE PropagateSkip
  BY <1>2 DEF PropagateSkip, ruleVars, given
<1>3. CASE PropagateMove
  BY <1>3 DEF PropagateMove, ruleVars, given
<1>4. CASE PropagateUnit
  BY <1>4 DEF PropagateUnit, ruleVars, given
<1>5. CASE PropagateDone
  BY <1>5 DEF PropagateDone, ruleVars, given
<1>6. QED BY <1>1, <1>2, <1>3, <1>4, <1>5 DEF PropagateStep

LEMMA SystemKeepsRules ==
  ASSUME SystemStep
  PROVE  UNCHANGED given
<1>1. CASE Top
  BY <1>1 DEF Top, ruleVars, given
<1>2. CASE EnterSystem
  BY <1>2 DEF EnterSystem, mainVars, ruleVars, given
<1>3. CASE ResolveJob
  BY <1>3 DEF ResolveJob, mainVars, ruleVars, given
<1>4. CASE JobResolved
  BY <1>4 DEF JobResolved, mainVars, ruleVars, given
<1>5. CASE JobsDone
  BY <1>5 DEF JobsDone, mainVars, ruleVars, given
<1>6. CASE UpdateInstalled
  BY <1>6 DEF UpdateInstalled, mainVars, ruleVars, given
<1>7. CASE UpdateMultiversion
  BY <1>7 DEF UpdateMultiversion, mainVars, ruleVars, given
<1>8. CASE KeepWithoutUpdate
  BY <1>8 DEF KeepWithoutUpdate, KeepInstalled, mainVars, ruleVars, given
<1>9. CASE KeepAfterUpdate
  BY <1>9 DEF KeepAfterUpdate, KeepInstalled, mainVars, ruleVars, given
<1>10. CASE KeepNothing
  BY <1>10 DEF KeepNothing, mainVars, ruleVars, given
<1>11. CASE InstalledBack
  BY <1>11 DEF InstalledBack, mainVars, ruleVars, given
<1>12. CASE InstalledDone
  BY <1>12 DEF InstalledDone, mainVars, ruleVars, given
<1>13. CASE DecideRule
  BY <1>13 DEF DecideRule, mainVars, ruleVars, given
<1>14. CASE DecideBack
  BY <1>14 DEF DecideBack, mainVars, ruleVars, given
<1>15. CASE DecideDone
  BY <1>15 DEF DecideDone, mainVars, ruleVars, given
<1>16. QED BY <1>1, <1>2, <1>3, <1>4, <1>5, <1>6, <1>7, <1>8, <1>9, <1>10, <1>11, <1>12, <1>13, <1>14, <1>15 DEF SystemStep

LEMMA ExtraKeepsRules ==
  ASSUME ExtraStep
  PROVE  UNCHANGED given
<1>1. CASE WeakSingle
  BY <1>1 DEF WeakSingle, mainVars, ruleVars, given
<1>2. CASE WeakNothing
  BY <1>2 DEF WeakNothing, mainVars, ruleVars, given
<1>3. CASE WeakSelect
  BY <1>3 DEF WeakSelect, mainVars, ruleVars, given
<1>4. CASE InstallSupplemented
  BY <1>4 DEF InstallSupplemented, mainVars, ruleVars, given
<1>5. CASE SupplementedBack
  BY <1>5 DEF SupplementedBack, mainVars, ruleVars, given
<1>6. CASE SupplementedDone
  BY <1>6 DEF SupplementedDone, mainVars, ruleVars, given
<1>7. CASE InstallRecommendations
  BY <1>7 DEF InstallRecommendations, mainVars, ruleVars, given
<1>8. CASE RecommendedBack
  BY <1>8 DEF RecommendedBack, mainVars, ruleVars, given
<1>9. CASE RecommendedDone
  BY <1>9 DEF RecommendedDone, mainVars, ruleVars, given
<1>10. CASE KeepOrphan
  BY <1>10 DEF KeepOrphan, mainVars, ruleVars, given
<1>11. CASE DropOrphan
  BY <1>11 DEF DropOrphan, mainVars, ruleVars, given
<1>12. CASE OrphansBack
  BY <1>12 DEF OrphansBack, mainVars, ruleVars, given
<1>13. CASE OrphansDone
  BY <1>13 DEF OrphansDone, mainVars, ruleVars, given
<1>14. CASE TryAlternative
  BY <1>14 DEF TryAlternative, TakeBranch, ruleVars, given
<1>15. CASE Minimize
  BY <1>15 DEF Minimize, TakeBranch, ruleVars, given
<1>16. CASE BackToTop
  BY <1>16 DEF BackToTop, mainVars, ruleVars, given
<1>17. CASE Finish
  BY <1>17 DEF Finish, mainVars, ruleVars, given
<1>18. QED BY <1>1, <1>2, <1>3, <1>4, <1>5, <1>6, <1>7, <1>8, <1>9, <1>10, <1>11, <1>12, <1>13, <1>14, <1>15, <1>16, <1>17 DEF ExtraStep

LEMMA AssertKeepsInvariant ==
  ASSUME IInv, AssertStep
  PROVE  IInv'
<1> USE DEF IInv
<1>1. WellGrouped(rules)
  BY ArrayFacts
<1>2. CASE AssertDecide
  BY <1>2, StuttersKeepInvariant DEF AssertDecide, ruleVars, given
<1>3. CASE AssertDisableLearnt
  <2>1. Assertion \notin HardRules
    BY <1>3 DEF AssertDisableLearnt, HardRules, RulesIn
  <2>2. disabled' \cap HardRules = {}
    BY <1>3, <2>1 DEF AssertDisableLearnt, HardInForce
  <2>3. QED BY <1>3, <2>2, KeepsInvariant DEF AssertDisableLearnt, ruleVars
<1>4. CASE AssertAgainstFixed
  <2>1. DisableProblem(disabled, JobProblem(rules, Assertion)) \cap HardRules = {}
    BY <1>1, <1>4, AgainstFixedIsNotHard, DropIsNotHard DEF HardInForce
  <2>2. QED BY <1>4, <2>1, KeepsInvariant DEF AssertAgainstFixed, ruleVars
<1>5. CASE AssertAgainstPolicy
  <2>1. PICK about \in SUBSET (DOMAIN rules \ RulesIn(rules, "rpm")) :
          disabled' = DisableProblems(disabled, {JobProblem(rules, i) : i \in about})
    BY <1>5 DEF AssertAgainstPolicy, Original
  <2>2. \A i \in about : ProblemRules(rules, JobProblem(rules, i)) \cap HardRules = {}
    BY <1>1, ProblemIsNotHard DEF HardRules
  <2>3. disabled' \cap HardRules = {}
    BY <2>1, <2>2 DEF DisableProblems, HardInForce
  <2>4. QED BY <1>5, <2>3, KeepsInvariant DEF AssertAgainstPolicy, ruleVars
<1>6. CASE AssertPhase1Done
  BY <1>6, StuttersKeepInvariant DEF AssertPhase1Done, ruleVars, given
<1>7. CASE AssertWeakDecide
  BY <1>7, StuttersKeepInvariant DEF AssertWeakDecide, ruleVars, given
<1>8. CASE AssertWeakConflict
  <2>1. WeakAssertion \in DOMAIN rules /\ WeakAssertion \notin HardRules
    BY <1>8, AssertionFacts DEF AssertWeakConflict, HardRules
  <2>2. AfterDrop(disabled, JobProblem(rules, WeakAssertion)) \cap HardRules = {}
    BY <1>1, <2>1, DropIsNotHard DEF HardInForce
  <2>3. QED BY <1>8, <2>2, KeepsInvariant DEF AssertWeakConflict, ruleVars
<1>9. CASE AssertDone
  BY <1>9, StuttersKeepInvariant DEF AssertDone, ruleVars, given
<1>10. QED BY <1>2, <1>3, <1>4, <1>5, <1>6, <1>7, <1>8, <1>9 DEF AssertStep

\* The rule that analyze_unsolvable gives up without a report is weak, and so
\* are the choice rules that go with it.
LEMMA DropWeakIsNotHard ==
  ASSUME IInv, UnsolvableDropWeak
  PROVE  disabled' \cap HardRules = {}
<1> DEFINE weak == Sources(Proof(Visited)) \cap WeakRules(rules)
           last == Max(weak)
           off  == disabled \cup
                     (IF rules[last].area = "choice" THEN ChoiceRulesWith(last) ELSE {})
<1>1. WellGrouped(rules)
  BY ArrayFacts DEF IInv
<1>2. last \in weak
  <2>1. Len(rules) \in Nat /\ weak \subseteq 0..Len(rules) /\ weak # {}
    BY <1>1 DEF UnsolvableDropWeak, WeakRules, WellGrouped
  <2>2. QED BY <2>1, MaxIsGreatest
<1>3. last \in DOMAIN rules /\ last \notin HardRules
  BY <1>2 DEF WeakRules, HardRules
<1>4. ChoiceRulesWith(last) \cap HardRules = {}
  BY DEF ChoiceRulesWith, HardRules, RulesIn
<1>5. off \cap HardRules = {}
  BY <1>4 DEF IInv, HardInForce
<1> HIDE DEF off, last, weak
<1>6. AfterDrop(off, JobProblem(rules, last)) \cap HardRules = {}
  BY <1>1, <1>3, <1>5, DropIsNotHard
<1>7. Reset(AfterDrop(off, JobProblem(rules, last)))
  BY DEF UnsolvableDropWeak, off, last, weak
<1>8. QED BY <1>6, <1>7, ResetIsNotHard

\* A problem that analyze_unsolvable reports names no rule of the packages.
LEMMA ReportIsNotHard ==
  ASSUME IInv, UnsolvableReport
  PROVE  disabled' \cap HardRules = {}
<1>1. \A v \in UnsolvableIds(Visited) : ProblemRules(rules, v) \cap HardRules = {}
  <2>1. Sources(Proof(Visited)) \subseteq DOMAIN rules
    BY DEF Sources, Original
  <2>2. \A i \in Sources(Proof(Visited)) \ RulesIn(rules, "rpm") :
          ProblemRules(rules, ProblemId(rules, i)) \cap HardRules = {}
    BY <2>1, ArrayFacts, ProblemIsNotHard DEF IInv, HardRules
  <2>3. QED BY <2>2 DEF UnsolvableIds
<1>2. DisableProblems(disabled, UnsolvableIds(Visited)) \cap HardRules = {}
  BY <1>1 DEF DisableProblems, IInv, HardInForce
<1>3. QED BY <1>2, ResetIsNotHard DEF UnsolvableReport

\* A learnt rule is appended; nothing else about the rules changes.
LEMMA LearnGrows ==
  ASSUME RulesGrow, Learn
  PROVE  RulesGrow' /\ HardRules' = HardRules /\ disabled' = disabled
<1> DEFINE r == [lits |-> <<an.p>> \o an.r, area |-> "learnt", grp |-> 0,
                 weak |-> FALSE, why |-> an.why]
           n == Len(rules)
           T == Range(rules) \cup {r}
<1>1. rules' = Append(rules, r) /\ in' = in /\ disabled' = disabled
  BY DEF Learn
<1>2. r.area = "learnt" /\ ~r.weak /\ r.grp = 0
  OBVIOUS
<1> HIDE DEF r
<1>3. rules \in Seq(T) /\ n \in Nat /\ DOMAIN rules = 1..n
  <2>1. rules \in Seq(Range(rules))
    BY DEF RulesGrow
  <2>2. QED BY <2>1, SeqMonotonic, LenProperties
<1>4. /\ Len(rules') = n + 1 /\ rules'[n + 1] = r /\ DOMAIN rules' = 1..(n + 1)
      /\ \A i \in 1..n : rules'[i] = rules[i]
  <2>1. r \in T
    OBVIOUS
  <2>2. rules' \in Seq(T)
    BY <1>1, <1>3, <2>1, AppendProperties
  <2>3. QED BY <1>1, <1>3, <2>1, <2>2, AppendProperties, LenProperties
<1>5. rules' \in Seq(Range(rules'))
  <2>1. \A i \in 1..(n + 1) : rules'[i] \in Range(rules')
    BY <1>4 DEF Range
  <2>2. QED BY <2>1, <1>4, <1>3, <1>1, AppendProperties, SeqOfRange
<1>6. Len(in.rules) \in Nat /\ Len(in.rules) <= n
  BY ArrayFacts DEF RulesGrow, WellGrouped
<1>7. RulesGrow'
  <2>1. \A i \in 1..Len(in.rules) : rules'[i] = in.rules[i]
    BY <1>3, <1>4, <1>6 DEF RulesGrow
  <2>2. \A i \in 1..(n + 1) : i > Len(in.rules) =>
          rules'[i].area = "learnt" /\ ~rules'[i].weak /\ rules'[i].grp = 0
    <3>1. \A i \in 1..n : i > Len(in.rules) =>
            rules'[i].area = "learnt" /\ ~rules'[i].weak /\ rules'[i].grp = 0
      BY <1>4 DEF RulesGrow
    <3>2. \A i \in 1..(n + 1) : i \in 1..n \/ i = n + 1
      BY <1>3
    <3>3. QED BY <1>2, <1>4, <3>1, <3>2
  <2>3. QED BY <2>1, <2>2, <1>1, <1>3, <1>4, <1>5, <1>6 DEF RulesGrow
<1>8. HardRules' = HardRules
  <2>1. \A i \in 1..(n + 1) : i \in 1..n \/ i = n + 1
    BY <1>3
  <2>2. QED BY <2>1, <1>2, <1>3, <1>4 DEF HardRules, RulesIn, WeakRules
<1>9. QED BY <1>1, <1>7, <1>8

LEMMA LearnKeepsInvariant ==
  ASSUME IInv, Learn
  PROVE  IInv'
BY LearnGrows DEF IInv, HardInForce

LEMMA ConflictKeepsInvariant ==
  ASSUME IInv, ConflictStep
  PROVE  IInv'
<1>1. CASE UnsolvableDropWeak
  <2>1. UNCHANGED <<in, rules>>
    BY <1>1 DEF UnsolvableDropWeak, ruleVars
  <2>2. QED BY <1>1, <2>1, DropWeakIsNotHard, KeepsInvariant
<1>2. CASE UnsolvableReport
  <2>1. UNCHANGED <<in, rules>>
    BY <1>2 DEF UnsolvableReport, UnsolvableProblem, ruleVars
  <2>2. QED BY <1>2, <2>1, ReportIsNotHard, KeepsInvariant
<1>3. CASE UnsolvableHopeless
  BY <1>3, StuttersKeepInvariant DEF UnsolvableHopeless, UnsolvableProblem, ruleVars, given
<1>4. CASE StartAnalyze
  BY <1>4, StuttersKeepInvariant DEF StartAnalyze, ruleVars, given
<1>5. CASE AnalyzeRule
  BY <1>5, StuttersKeepInvariant DEF AnalyzeRule, ruleVars, given
<1>6. CASE AnalyzeCurrent
  BY <1>6, StuttersKeepInvariant DEF AnalyzeCurrent, AnalyzeStep, ruleVars, given
<1>7. CASE AnalyzeAsserting
  BY <1>7, StuttersKeepInvariant DEF AnalyzeAsserting, AnalyzeStep, ruleVars, given
<1>8. CASE AnalyzeLevel1
  BY <1>8, StuttersKeepInvariant DEF AnalyzeLevel1, AnalyzeStep, ruleVars, given
<1>9. CASE Learn
  BY <1>9, LearnKeepsInvariant
<1>10. QED BY <1>1, <1>2, <1>3, <1>4, <1>5, <1>6, <1>7, <1>8, <1>9 DEF ConflictStep

----------------------------------------------------------------------------

\* What the jobs and packages of the problem hold back are policy rules.
LEMMA InitInvariant == Init => IInv
<1> SUFFICES ASSUME Init
             PROVE  IInv
  OBVIOUS
<1>1. in \in Inputs /\ rules = in.rules /\ WellFormed(in) /\ WellGrouped(in.rules)
  BY InputsAssumption DEF Init, WellFormed, ProblemFits, RulesFit
<1>2. RulesGrow
  <2>1. rules \in Seq(Range(rules)) /\ DOMAIN rules = 1..Len(rules) /\ Len(rules) \in Nat
    BY <1>1 DEF WellGrouped, WellFormed, ProblemFits, RulesFit
  <2>2. QED BY <1>1, <2>1 DEF RulesGrow
<1> DEFINE clean   == CleanDeps(in, in.off)
           entries == DisableList(in, in.off, clean)
<1>3. EnabledJobs(in, in.off) \subseteq DOMAIN in.jobpolicy
  BY <1>1 DEF EnabledJobs, WellFormed, ProblemFits
<1>4. clean \subseteq Range(in.installed)
  BY <1>1, <1>3 DEF CleanDeps, WellFormed, ProblemFits
<1>5. entries \subseteq ({"update"} \X Range(in.installed)) \cup ({"infarch", "dup"} \X Nat)
  <2>1. \A j \in EnabledJobs(in, in.off) :
          in.jobpolicy[j] \subseteq
            ({"update"} \X Range(in.installed)) \cup ({"infarch", "dup"} \X Nat)
    BY <1>1, <1>3 DEF WellFormed, ProblemFits
  <2>2. {<<"update", p>> : p \in clean} \subseteq {"update"} \X Range(in.installed)
    BY <1>4
  <2>3. QED BY <2>1, <2>2 DEF DisableList
<1>6. ASSUME NEW e \in entries
      PROVE  PolicyRules(in, e) \cap HardRules = {}
  <2>1. CASE e[1] = "update"
    <3>1. e[2] \in Solvables
      BY <1>1, <1>5, <1>6, <2>1 DEF WellFormed, ProblemFits
    <3>2. \A i \in {in.upd[e[2]], in.feat[e[2]]} \ {0} : in.rules[i].area # "rpm"
      <4>1. /\ in.upd[e[2]] \in RulesIn(in.rules, "update") \cup {0}
            /\ in.feat[e[2]] \in RulesIn(in.rules, "feature") \cup {0}
        BY <1>1, <3>1 DEF WellFormed, ProblemFits
      <4>2. QED BY <4>1 DEF RulesIn
    <3>3. QED BY <1>1, <2>1, <3>2 DEF PolicyRules, HardRules, RulesIn
  <2>2. CASE e[1] # "update"
    <3>1. e[1] # "rpm"
      BY <1>5, <1>6, <2>2
    <3>2. QED BY <1>1, <2>2, <3>1 DEF PolicyRules, HardRules, RulesIn
  <2>3. QED BY <2>1, <2>2
<1>7. in.off \cap HardRules = {}
  BY <1>1 DEF WellFormed, ProblemFits, HardRules, RulesIn
<1>8. disabled = in.off \cup UNION {PolicyRules(in, e) : e \in entries}
  BY DEF Init
<1>9. HardInForce
  BY <1>6, <1>7, <1>8 DEF HardInForce
<1>10. QED BY <1>2, <1>9 DEF IInv

\* The rules of the packages are never given up: whatever problems are found,
\* whatever weak rules are dropped and learnt rules switched, the search never
\* disables a dependency, but for one a job has weakened.
THEOREM RpmRulesAreKept == Spec => []RpmRulesKept
<1>1. Init => IInv
  BY InitInvariant
<1>2. IInv /\ [Next]_vars => IInv'
  <2> SUFFICES ASSUME IInv, [Next]_vars
               PROVE  IInv'
    OBVIOUS
  <2>1. CASE AssertStep
    BY <2>1, AssertKeepsInvariant
  <2>2. CASE PropagateStep
    BY <2>2, PropagateKeepsRules, StuttersKeepInvariant
  <2>3. CASE ConflictStep
    BY <2>3, ConflictKeepsInvariant
  <2>4. CASE SystemStep
    BY <2>4, SystemKeepsRules, StuttersKeepInvariant
  <2>5. CASE ExtraStep
    BY <2>5, ExtraKeepsRules, StuttersKeepInvariant
  <2>6. CASE Terminated \/ UNCHANGED vars
    BY <2>6, StuttersKeepInvariant DEF Terminated, vars, ruleVars, given
  <2>7. QED BY <2>1, <2>2, <2>3, <2>4, <2>5, <2>6 DEF Next
<1>3. IInv => RpmRulesKept
  BY DEF IInv, HardInForce, HardRules, RpmRulesKept, RulesIn, WeakRules
<1>4. QED BY <1>1, <1>2, <1>3, PTL DEF Spec

----------------------------------------------------------------------------
(* The rules and their watches.                                            *)

RulesTyped ==
  /\ RulesGrow
  /\ \A i \in DOMAIN rules :
       /\ rules[i].lits \in Seq(Literals(Solvables)) /\ rules[i].lits # <<>>
       /\ rules[i].area \in Areas
       /\ rules[i].why \subseteq 1..(i - 1)
  /\ disabled \subseteq DOMAIN rules

\* Rules are watched by two of their literals.
Watching(l) == {i \in DOMAIN rules : ~IsAssertion(rules[i]) /\ l \in {w[i][1], w[i][2]}}

WatchesWhole ==
  /\ w \in Seq([1..2 -> Int]) /\ Len(w) = Len(rules)
  /\ \A i \in DOMAIN rules : ~IsAssertion(rules[i]) =>
       w[i][1] \in Lits(i) /\ w[i][2] \in Lits(i) /\ w[i][1] # w[i][2]
  /\ watches \in [Literals(Solvables) -> Seq(Nat)]
  /\ \A l \in Literals(Solvables) :
       /\ Range(watches[l]) = Watching(l)
       /\ \A j, k \in DOMAIN watches[l] : watches[l][j] = watches[l][k] => j = k

----------------------------------------------------------------------------
(* The trail.                                                              *)

LevelAt(k) == LevelIn(trail, k)

\* What forced a decision is in force, or an assertion.
ReasonsInForce ==
  \A k \in DOMAIN trail.q : trail.why[k] > 0 =>
    IF IsAssertion(rules[trail.why[k]]) THEN LevelAt(k) = 1 ELSE Enabled(trail.why[k])

TrailInv ==
  /\ TrailWhole(trail, rules, NSolvables)
  /\ ReasonsInForce
  /\ level = 0 \/ level = TopLevel(trail)

----------------------------------------------------------------------------
(* The places in the code.                                                 *)

\* In setpropagatelearn or makeruledecisions.
Running == {"assert", "assertweak", "propagate", "analyze"}

Extras == {"weak", "supplemented", "recommended", "orphans", "droporphans"}

SystemBacks == {"jobs.back", "update.back", "keep.back", "decide.back", "branch.back"}

Resting == {"jobs", "job", "installed", "keep", "decide", "branch", "done"} \cup Extras

Propagated == propagate_index = Len(trail.q)

Phases ==
  /\ pc \in Running \cup Resting \cup SystemBacks \cup UncheckedCallers \cup {"top", "hopeless"}
  /\ caller.at \in SystemBacks \cup UncheckedCallers \cup {"top", "jobs"}
  /\ caller = [at |-> caller.at, olevel |-> caller.olevel, disablerules |-> caller.disablerules]
  /\ caller.olevel \in Nat /\ caller.olevel > 0
  /\ level \in Nat /\ (level = 0 => pc = "hopeless")
  /\ systemlevel \in 1..(NSolvables + 1)
  /\ propagate_index \in 0..Len(trail.q) /\ visit \in Nat
  /\ pc \in {"assert", "assertweak"} =>
       /\ level = 1 /\ propagate_index = 0
       /\ caller.at \in SystemBacks \cup {"top"}
       /\ \A k \in DOMAIN trail.q : trail.why[k] > 0 => IsAssertion(rules[trail.why[k]])
  /\ pc \in {"propagate", "analyze"} =>
       /\ visit > 0 => propagate_index > 0
       /\ \A k \in DOMAIN trail.q :
            k > propagate_index \/ (k = propagate_index /\ visit > 0) => LevelAt(k) = level
  /\ pc = "analyze" => level > 1
  /\ pc \notin Running => visit = 0
  /\ pc \in Resting \cup UncheckedCallers => Propagated
  /\ pc \in SystemBacks \cup {"top"} => level = 1 \/ Propagated

\* The main loop is at a place, or waits for propagation to return there.
At(place) == pc = place \/ (pc \in Running /\ caller.at = place)

LocalsType(r) ==
  /\ DOMAIN r = {"i", "n", "pass", "passlevel", "installedpos", "dqs", "dqmap",
                 "decisioncount", "pkg", "rec", "installedone"}
  /\ r.i \in Nat \ {0} /\ r.n \in Nat /\ r.pass \in 0..1 /\ r.passlevel \in Nat
  /\ r.installedpos \in Nat
  /\ r.dqs \subseteq Solvables /\ r.dqmap \subseteq Solvables
  /\ r.decisioncount \in Nat /\ r.pkg \in 0..NSolvables /\ r.rec \in Nat
  /\ r.installedone \in BOOLEAN

Locals ==
  /\ LocalsType(loc)
  /\ loc.installedpos = 1 \/ loc.installedpos \in 1..NInstalled
  /\ pc \in {"installed", "keep"} \/ At("update.back") \/ At("keep.back") =>
       loc.i \in 1..NInstalled /\ loc.n > 0
  /\ pc = "decide" => loc.n = 1 /\ (loc.i = 1 \/ loc.i \in 1..Len(rules))
  /\ At("decide.back") => loc.i \in 1..Len(rules)
  /\ pc = "recommended" => loc.decisioncount <= Len(trail.q)

----------------------------------------------------------------------------
(* The analysis of a conflict.                                             *)

SeenAt(lev) == {v \in an.seen : LevelOf(v) = lev}

\* Solvable v is decided by one of the decisions not looked at yet.
Waiting(v) == \E k \in 1..an.idx : Var(trail.q[k]) = v

\* The rule that is false, not looked at yet.
Starting ==
  /\ an = [NoAnalysis EXCEPT !.c = an.c, !.idx = Len(trail.q)]
  /\ an.c \in DOMAIN rules
  /\ \A l \in Lits(an.c) : IsFalse(trail.map, l)
  /\ \E l \in Lits(an.c) : LevelOf(l) = level

\* The rule to resolve next forced the decision looked at last.
Resolving(lev) ==
  an.c # 0 => /\ an.idx < Len(trail.q) /\ trail.why[an.idx + 1] = an.c
              /\ an.why # {}
              /\ LevelAt(an.idx + 1) = lev

\* Literals of the current level are left.
AtCurrent ==
  /\ an.p = 0 /\ ~an.done /\ an.why # {}
  /\ an.num > 0 /\ an.num = Cardinality(SeenAt(level))
  /\ an.l1num = Cardinality(SeenAt(1))
  /\ \A v \in an.seen : IF LevelOf(v) \in {1, level} THEN Waiting(v)
                        ELSE v \in {Var(l) : l \in Range(an.r)}
  /\ Resolving(level)

\* Literals of level 1 are left.
AtGround ==
  /\ an.p # 0 /\ ~an.done /\ an.why # {}
  /\ an.num = 0 /\ an.l1num = Cardinality(an.seen) + 1
  /\ \A v \in an.seen : LevelOf(v) = 1 /\ Waiting(v)
  /\ Resolving(1)

\* The learnt rule is complete.
Analysed == an.p # 0 /\ an.done /\ an.c = 0 /\ an.why # {}

AnalysisType(a) ==
  /\ DOMAIN a = {"c", "idx", "seen", "num", "l1num", "r", "rlevel", "why", "p", "done"}
  /\ a.c \in 0..Len(rules) /\ a.idx \in 0..Len(trail.q)
  /\ a.seen \subseteq Solvables /\ a.num \in Nat /\ a.l1num \in Nat
  /\ a.r \in Seq(Literals(Solvables)) /\ a.rlevel \in Nat
  /\ a.why \subseteq DOMAIN rules /\ a.p \in Int /\ a.done \in BOOLEAN

Analysis ==
  pc = "analyze" =>
    /\ Starting \/ AtCurrent \/ AtGround \/ Analysed
    /\ AnalysisType(an)
    /\ \A v \in an.seen : ~Undecided(v)
    /\ an.rlevel \in 1..(level - 1)
    /\ \A l \in Range(an.r) : IsFalse(trail.map, l) /\ LevelOf(l) \in 2..an.rlevel
    /\ an.rlevel = 1 \/ \E l \in Range(an.r) : LevelOf(l) = an.rlevel
    /\ an.p # 0 => /\ an.p \in Literals(Solvables)
                   /\ IsFalse(trail.map, an.p) /\ LevelOf(an.p) = level

----------------------------------------------------------------------------
(* Branches and recommendations.                                           *)

BranchType == [alts : Seq(Solvables) \ {<<>>}, level : Nat \ {0}]

Branches ==
  /\ branches \in Seq(BranchType)
  /\ \A b \in DOMAIN branches :
       /\ branches[b].level < level
       /\ \A p \in Range(branches[b].alts) : Undecided(p) \/ LevelOf(p) > branches[b].level
  /\ \A a, b \in DOMAIN branches : a < b => branches[a].level < branches[b].level

Recommendations ==
  /\ recommendations \in Seq(Solvables) /\ RecommendationsOnTrail
  /\ pc \in {"assert", "assertweak"} => recommendations = <<>>

----------------------------------------------------------------------------
(* Watches.                                                                *)

\* Rule i has been looked at since its watch l became false.
Noticed(i, l) ==
  /\ IsFalse(trail.map, l)
  /\ \E k \in 1..propagate_index :
       /\ trail.q[k] = -l
       /\ k = propagate_index /\ visit > 0 =>
            \A j \in DOMAIN watches[l] : j >= visit => watches[l][j] # i

\* Once a rule in force has been looked at since one of its watches became false,
\* the other watch is true, and is undone no earlier.
WatchesGuard ==
  level > 0 =>
  \A i \in EnabledRules : ~IsAssertion(rules[i]) =>
    \A a \in {1, 2} : Noticed(i, w[i][a]) =>
      IsTrue(trail.map, w[i][3 - a]) /\ LevelOf(w[i][3 - a]) <= LevelOf(w[i][a])

----------------------------------------------------------------------------
(* Learning.                                                               *)

TrueIn(S, l) == IF l > 0 THEN l \in S ELSE -l \notin S

\* The literal about v that is false.
FalseLit(v) == IF Installed(v) THEN -v ELSE v

\* The literals of the clause the rules resolved so far imply.
Derived ==
  Range(an.r) \cup ({an.p} \ {0}) \cup {FalseLit(v) : v \in an.seen}
    \cup (IF an.c # 0 THEN {-trail.q[an.idx + 1]} ELSE {})

\* At the end it is the learnt rule.
DerivedFollows ==
  pc = "analyze" /\ an.why # {} =>
    \A S \in Worlds(Solvables) :
      Satisfies(S, rules, an.why) =>
        \E l \in (IF an.done THEN {an.p} \cup Range(an.r) ELSE Derived) : TrueIn(S, l)

\* The rules resolved are in force, or decided at level 1.
Usable(i) ==
  \/ Enabled(i) /\ ~IsAssertion(rules[i])
  \/ \E k \in DOMAIN trail.q : LevelAt(k) = 1 /\ trail.why[k] = i

UsesRulesInForce ==
  pc = "analyze" => \A i \in an.why \cup ({an.c} \ {0}) : Usable(i)

----------------------------------------------------------------------------
(* Extras.                                                                 *)

InExtras ==
  \/ pc \in Extras \cup UncheckedCallers
  \/ pc \in {"propagate", "analyze"} /\ caller.at \in UncheckedCallers

\* There is a solution of the rules in force and of what is decided for good.
ExtrasHaveSolution ==
  InExtras =>
    \E S \in Worlds(Solvables) :
      /\ \A i \in EnabledRules : ~IsAssertion(rules[i]) => Holds(S, rules[i].lits)
      /\ \A k \in DOMAIN trail.q : LevelAt(k) = 1 => TrueIn(S, trail.q[k])

\* The proof kept with a problem is made of rules, and is one.
Problems ==
  /\ problems \in Seq(Range(problems))
  /\ \A k \in DOMAIN problems :
       /\ problems[k].proof \subseteq DOMAIN rules
       /\ ~Satisfiable(Solvables, rules, problems[k].proof)

SearchInv ==
  /\ RulesTyped /\ WatchesWhole /\ TrailInv /\ Phases /\ Locals /\ Analysis
  /\ Branches /\ Recommendations
  /\ WatchesGuard
  /\ ProofsEntail /\ DerivedFollows /\ UsesRulesInForce
  /\ ExtrasHaveSolution
  /\ Problems

----------------------------------------------------------------------------
(* What the invariant says about rules, levels and literals.               *)

\* What is known of every rule: it has literals, all of them literals of
\* solvables, and an assertion has one.
LEMMA RuleFacts ==
  ASSUME RulesTyped
  PROVE  /\ Len(rules) \in Nat /\ DOMAIN rules = 1..Len(rules)
         /\ WellFormed(in) /\ Len(in.rules) \in Nat /\ DOMAIN in.rules = 1..Len(in.rules)
         /\ \A i \in DOMAIN rules :
              /\ rules[i].lits \in Seq(Literals(Solvables))
              /\ Len(rules[i].lits) \in Nat /\ Len(rules[i].lits) > 0
              /\ DOMAIN rules[i].lits = 1..Len(rules[i].lits)
              /\ rules[i].lits[1] \in Lits(i)
              /\ Lits(i) \subseteq Literals(Solvables)
              /\ \A l : l \in Lits(i) <=> \E k \in 1..Len(rules[i].lits) : rules[i].lits[k] = l
              /\ IsAssertion(rules[i]) => Lits(i) = {rules[i].lits[1]}
<1>1. Len(rules) \in Nat /\ DOMAIN rules = 1..Len(rules) /\ WellFormed(in)
  BY ArrayFacts DEF RulesTyped, RulesGrow
<1>2. Len(in.rules) \in Nat /\ DOMAIN in.rules = 1..Len(in.rules)
  BY <1>1, ArrayFacts DEF RulesTyped, WellGrouped
<1>3. ASSUME NEW i \in DOMAIN rules
      PROVE  /\ rules[i].lits \in Seq(Literals(Solvables))
             /\ Len(rules[i].lits) \in Nat /\ Len(rules[i].lits) > 0
             /\ DOMAIN rules[i].lits = 1..Len(rules[i].lits)
             /\ rules[i].lits[1] \in Lits(i)
             /\ Lits(i) \subseteq Literals(Solvables)
             /\ \A l : l \in Lits(i) <=> \E k \in 1..Len(rules[i].lits) : rules[i].lits[k] = l
             /\ IsAssertion(rules[i]) => Lits(i) = {rules[i].lits[1]}
  <2>1. rules[i].lits \in Seq(Literals(Solvables)) /\ rules[i].lits # <<>>
    BY <1>3 DEF RulesTyped
  <2>2. /\ Len(rules[i].lits) \in Nat /\ Len(rules[i].lits) > 0
        /\ DOMAIN rules[i].lits = 1..Len(rules[i].lits)
    BY <2>1
  <2>3. /\ \A l : l \in Lits(i) <=> \E k \in 1..Len(rules[i].lits) : rules[i].lits[k] = l
        /\ Lits(i) \subseteq Literals(Solvables)
    BY <2>1, RangeFacts DEF Lits
  <2>4. 1 \in 1..Len(rules[i].lits)
    BY <2>2
  <2>5. rules[i].lits[1] \in Lits(i)
    BY <2>3, <2>4
  <2>6. ASSUME IsAssertion(rules[i]) PROVE Lits(i) = {rules[i].lits[1]}
    <3>1. \A k \in 1..Len(rules[i].lits) : k = 1
      BY <2>6 DEF IsAssertion
    <3>2. \A l : l \in Lits(i) <=> l = rules[i].lits[1]
      BY <2>3, <2>4, <3>1
    <3>3. QED BY <3>2
  <2>7. QED BY <2>1, <2>2, <2>3, <2>5, <2>6
<1>4. QED BY <1>1, <1>2, <1>3

\* There are no more levels than solvables.
LEMMA LevelsBounded ==
  ASSUME NEW n \in Nat, NEW t, NEW rs, TrailWhole(t, rs, n)
  PROVE  Len(t.q) <= n /\ TopLevel(t) \in 1..n
<1> DEFINE m == Len(t.q)
           f == [k \in 1..m |-> Var(t.q[k])]
<1>1. /\ m \in Nat /\ m > 0 /\ DOMAIN t.q = 1..m
      /\ \A k \in 1..m : Var(t.q[k]) \in 1..n /\ LevelIn(t, k) \in 1..k
  BY DecisionFacts
<1>2. \A j, k \in 1..m : Var(t.q[j]) = Var(t.q[k]) => j = k
  BY <1>1 DEF TrailWhole, Agrees
<1>3. m <= n
  <2>1. SUFFICES ASSUME ~(m <= n) PROVE FALSE
    OBVIOUS
  <2>2. IsFiniteSet(1..m) /\ Cardinality(1..m) = m /\ IsFiniteSet(1..n) /\ Cardinality(1..n) = n
    <3>1. 1 \in Int /\ m \in Int /\ n \in Int
      BY <1>1
    <3>2. /\ IsFiniteSet(1..m) /\ Cardinality(1..m) = IF 1 > m THEN 0 ELSE m - 1 + 1
          /\ IsFiniteSet(1..n) /\ Cardinality(1..n) = IF 1 > n THEN 0 ELSE n - 1 + 1
      BY <3>1, FS_Interval
    <3>3. QED BY <1>1, <3>2
  <2>3. f \in [1..m -> 1..n]
    BY <1>1
  <2>4. \E x, y \in 1..m : x # y /\ f[x] = f[y]
    <3> HIDE DEF f
    <3>1. Cardinality(1..n) < Cardinality(1..m)
      BY <1>1, <2>1, <2>2
    <3>2. QED BY <2>2, <2>3, <3>1, FS_PigeonHole
  <2>5. QED BY <1>2, <2>4
<1>4. m \in 1..m
  BY <1>1
<1>5. QED BY <1>1, <1>3, <1>4 DEF TopLevel

\* The trail is whole and the current level is its top level, unless the
\* search has given up.
LEMMA SearchFacts ==
  ASSUME SearchInv
  PROVE  /\ NSolvables \in Nat /\ NSolvables > 0
         /\ TrailWhole(trail, rules, NSolvables)
         /\ level # 0 => level = TopLevel(trail)
         /\ level \in Nat /\ level <= NSolvables
         /\ TopLevel(trail) \in 1..NSolvables
<1>1. NSolvables \in Nat /\ NSolvables > 0
  BY SolvablesAssumption
<1>2. TrailWhole(trail, rules, NSolvables) /\ (level # 0 => level = TopLevel(trail))
  BY DEF SearchInv, TrailInv
<1>3. TopLevel(trail) \in 1..NSolvables
  BY <1>1, <1>2, LevelsBounded
<1>4. QED BY <1>1, <1>2, <1>3

----------------------------------------------------------------------------
(* Counting literals.                                                      *)

\* A sequence of literals about different solvables names as many of them.
LEMMA VarsCount ==
  ASSUME NEW A, IsFiniteSet(A), \A x, y \in A : Var(x) = Var(y) => x = y
  PROVE  /\ IsFiniteSet({Var(x) : x \in A})
         /\ Cardinality({Var(x) : x \in A}) = Cardinality(A)
<1> DEFINE V == {Var(x) : x \in A}
           f == [x \in A |-> Var(x)]
<1>1. f \in [A -> V] /\ \A x \in A : f[x] = Var(x)
  OBVIOUS
<1>2. \A y \in V : \E x \in A : f[x] = y
  BY <1>1
<1>3. f \in Bijection(A, V)
  <2>1. \A x, y \in A : f[x] = f[y] => x = y
    BY <1>1
  <2> HIDE DEF f, V
  <2>2. f \in Injection(A, V)
    BY <1>1, <2>1 DEF Injection, IsInjective
  <2>3. f \in Surjection(A, V)
    BY <1>1, <1>2 DEF Surjection
  <2>4. QED BY <2>2, <2>3 DEF Bijection
<1> HIDE DEF f, V
<1>4. ExistsBijection(A, V)
  BY <1>3 DEF ExistsBijection
<1>5. IsFiniteSet(V) /\ Cardinality(V) = Cardinality(A)
  BY <1>4, FS_Bijection
<1>6. QED BY <1>5 DEF V

\* Counting what is added to a set.
LEMMA CountAdds ==
  ASSUME NEW S, NEW T, IsFiniteSet(S), IsFiniteSet(T), S \cap T = {}
  PROVE  IsFiniteSet(S \cup T) /\ Cardinality(S \cup T) = Cardinality(S) + Cardinality(T)
<1>1. /\ IsFiniteSet(S \cup T)
      /\ Cardinality(S \cup T) = Cardinality(S) + Cardinality(T) - Cardinality(S \cap T)
  BY FS_Union
<1>2. Cardinality(S \cap T) = 0
  BY FS_EmptySet
<1>3. Cardinality(S) \in Nat /\ Cardinality(T) \in Nat
  BY FS_CardinalityType
<1>4. QED BY <1>1, <1>2, <1>3

----------------------------------------------------------------------------
(* The steps of the main loop are of three kinds.                          *)

\* Nothing is decided.
Moves ==
  /\ pc \notin Running /\ pc' \notin {"assert", "assertweak", "analyze"}
  /\ UNCHANGED <<in, ruleVars, disabled, problems, searchVars, level, visit, an>>

\* A choice with the alternatives alts is left open at level lev.
LeavesOpen(brs, alts, lev) ==
  /\ alts \in Seq(Solvables) /\ alts # <<>>
  /\ \A p \in Range(alts) : Undecided(p) \/ LevelOf(p) > lev
  /\ branches' = Append(brs, [alts |-> alts, level |-> lev])

\* A literal that may be decided for a reason that forces nothing.
Decision(lit, reason) ==
  /\ lit \in Literals(Solvables) /\ IsUndef(trail.map, lit)
  /\ reason \in -Len(rules)..0
  /\ trail' = Decide(trail, lit, reason, level + 1)
  /\ branches' = branches \/ \E alts : LeavesOpen(branches, alts, level)
  /\ \/ recommendations' = recommendations
     \/ lit \in Solvables /\ recommendations' = Append(recommendations, lit)

\* A free decision on the level above.
Decides ==
  /\ pc \in Resting /\ level > 0
  /\ \E lit, reason : Decision(lit, reason)
  /\ pc' = "propagate" /\ level' = level + 1 /\ visit' = 0
  /\ caller'.at \in SystemBacks \cup UncheckedCallers
  /\ caller' = [at |-> caller'.at, olevel |-> level, disablerules |-> caller'.disablerules]
  /\ caller'.at \in UncheckedCallers => pc \in Extras
  /\ UNCHANGED <<in, ruleVars, disabled, problems, propagate_index, an>>

\* A literal that is decided again above level g, to which the search goes back.
Redecision(g, lit, reason) ==
  /\ g \in 1..(level - 1)
  /\ lit \in Solvables /\ (Undecided(lit) \/ LevelOf(lit) > g)
  /\ reason \in -Len(rules)..0
  /\ trail' = Decide(Reverted(g), lit, reason, g + 1)
  /\ propagate_index' = Kept(trail, g)
  /\ recommendations' = SubSeq(recommendations, 1, RecommendationsKept(Kept(trail, g)))
  /\ level' = g + 1
  /\ caller' = [at |-> caller'.at, olevel |-> g, disablerules |-> caller'.disablerules]

\* Of the open branches those below level g are kept.
Keeps(brs, g) ==
  \E n \in 0..Len(branches) :
    /\ brs = SubSeq(branches, 1, n)
    /\ \A b \in 1..n : branches[b].level < g

\* A free decision in place of those above a level that an open branch left.
GoesBack ==
  /\ pc = "branch" /\ level > 0
  /\ \E g, lit, reason :
       /\ Redecision(g, lit, reason)
       /\ \E brs : /\ Keeps(brs, g)
                   /\ branches' = brs \/ \E alts : LeavesOpen(brs, alts, g)
  /\ pc' = "propagate" /\ visit' = 0
  /\ caller'.at = "branch.back"
  /\ UNCHANGED <<in, ruleVars, disabled, problems, an>>

\* What the main loop can do.
MainStep == Moves \/ Decides \/ GoesBack

----------------------------------------------------------------------------

\* What the policy leaves of some candidates is a sequence of them.
LEMMA SelectionFacts ==
  ASSUME NEW dq, dq \subseteq Solvables, NEW sel \in Selections(dq)
  PROVE  sel \in Seq(dq) /\ sel # <<>>
<1>1. PICK s \in SUBSET dq : sel \in SetToSeqs(s)
  BY DEF Selections, SetToAllKPermutations
<1>2. IsFiniteSet(s) /\ Cardinality(s) \in Nat
  <2>1. IsFiniteSet(1..NSolvables)
    BY SolvablesAssumption, FS_Interval
  <2>2. QED BY <1>1, <2>1, FS_Subset, FS_CardinalityType DEF Solvables
<1>3. sel \in [1..Cardinality(s) -> s]
  BY <1>1 DEF SetToSeqs
<1>4. sel \in Seq(dq)
  BY <1>2, <1>3
<1>5. QED BY <1>4 DEF Selections

\* Where the main loop decides there is a level and nothing is being visited.
LEMMA TypedAtRest ==
  ASSUME SearchInv, pc \in Resting
  PROVE  /\ level > 0 /\ level = TopLevel(trail) /\ level \in 1..NSolvables /\ visit = 0
         /\ \A p \in Solvables : p \in Literals(Solvables) /\ -p \in Literals(Solvables)
              /\ Var(p) = p /\ Var(-p) = p
         /\ \A p \in Solvables : Undecided(p) =>
              IsUndef(trail.map, p) /\ IsUndef(trail.map, -p)
         /\ -Len(rules)..0 = {-x : x \in 0..Len(rules)} /\ Len(rules) \in Nat
         /\ DOMAIN rules = 1..Len(rules)
<1>1. NSolvables \in Nat /\ Len(rules) \in Nat /\ DOMAIN rules = 1..Len(rules)
  BY SearchFacts, RuleFacts DEF SearchInv
<1>2. level # 0 /\ visit = 0
  BY DEF SearchInv, Phases, Resting, Running, Extras
<1>3. level = TopLevel(trail) /\ level \in 1..NSolvables
  BY <1>2, SearchFacts
<1>4. ASSUME NEW p \in Solvables
      PROVE  p \in Literals(Solvables) /\ -p \in Literals(Solvables) /\ Var(p) = p /\ Var(-p) = p
  BY <1>1 DEF Solvables, Literals, Var
<1>5. ASSUME NEW p \in Solvables, Undecided(p)
      PROVE  IsUndef(trail.map, p) /\ IsUndef(trail.map, -p)
  BY <1>4, <1>5 DEF IsUndef, Undecided
<1>6. \A x \in Int : x \in -Len(rules)..0 <=> -x \in 0..Len(rules)
  BY <1>1
<1>7. -Len(rules)..0 = {-x : x \in 0..Len(rules)}
  <2>1. \A x \in 0..Len(rules) : -x \in -Len(rules)..0
    BY <1>1
  <2>2. \A y \in -Len(rules)..0 : -y \in 0..Len(rules) /\ y = -(-y)
    BY <1>1
  <2>3. QED BY <2>1, <2>2
<1>8. QED BY <1>1, <1>2, <1>3, <1>4, <1>5, <1>7

\* setpropagatelearn, called by the main loop.
LEMMA SetDecides ==
  ASSUME SearchInv, pc \in Resting,
         NEW lit \in Literals(Solvables), IsUndef(trail.map, lit),
         NEW reason \in 0..Len(rules), NEW at \in SystemBacks \cup UncheckedCallers,
         at \in UncheckedCallers => pc \in Extras, NEW dis,
         SetPropagateLearn(trail, level, lit, dis, reason, at),
         branches' = branches \/ \E alts : LeavesOpen(branches, alts, level),
         \/ recommendations' = recommendations
         \/ lit \in Solvables /\ recommendations' = Append(recommendations, lit),
         UNCHANGED mainVars
  PROVE  Decides
<1>1. level > 0 /\ -reason \in -Len(rules)..0
  BY TypedAtRest
<1>2. Decision(lit, -reason)
  BY <1>1 DEF Decision, SetPropagateLearn
<1>3. QED BY <1>1, <1>2 DEF Decides, SetPropagateLearn, mainVars, ruleVars

\* selectandinstall, called by the main loop.
LEMMA SelectDecides ==
  ASSUME SearchInv, pc \in Resting,
         NEW dq, dq \subseteq Solvables, \A p \in dq : Undecided(p),
         NEW reason \in 0..Len(rules), NEW at \in SystemBacks,
         SelectAndInstall(dq, reason, at), UNCHANGED <<mainVars, recommendations>>
  PROVE  Decides
<1>1. PICK sel \in Selections(dq) :
         /\ branches' = OpenBranch(branches, Tail(sel), level)
         /\ SetPropagateLearn(trail, level, Head(sel), in.disablerules, reason, at)
  BY DEF SelectAndInstall
<1>2. sel \in Seq(dq) /\ sel # <<>>
  BY SelectionFacts
<1>3. Head(sel) \in dq /\ Tail(sel) \in Seq(dq)
  BY <1>2, HeadTailProperties
<1>4. Head(sel) \in Literals(Solvables) /\ IsUndef(trail.map, Head(sel))
  BY <1>3, TypedAtRest
<1>5. branches' = branches \/ \E alts : LeavesOpen(branches, alts, level)
  <2>1. CASE Tail(sel) = <<>>
    BY <1>1, <2>1 DEF OpenBranch
  <2>2. CASE Tail(sel) # <<>>
    <3>1. branches' = Append(branches, [alts |-> Tail(sel), level |-> level])
      BY <1>1, <2>2 DEF OpenBranch
    <3>2. Range(Tail(sel)) \subseteq dq
      BY <1>3, RangeFacts
    <3>3. Tail(sel) \in Seq(Solvables)
      BY <1>3
    <3>4. LeavesOpen(branches, Tail(sel), level)
      BY <2>2, <3>1, <3>2, <3>3 DEF LeavesOpen
    <3>5. QED BY <3>4
  <2>3. QED BY <2>1, <2>2
<1>6. at \in SystemBacks \cup UncheckedCallers /\ at \notin UncheckedCallers
  BY DEF SystemBacks, UncheckedCallers
<1>7. QED BY <1>1, <1>4, <1>5, <1>6, SetDecides

\* The steps of the main loop that only move on.
LEMMA MovingSteps ==
  ASSUME SearchInv
  PROVE  /\ Top \/ EnterSystem \/ JobResolved \/ JobsDone => Moves
         /\ KeepNothing \/ InstalledBack \/ InstalledDone \/ DecideBack \/ DecideDone => Moves
         /\ WeakNothing \/ WeakSelect \/ SupplementedBack \/ SupplementedDone => Moves
         /\ RecommendedBack \/ RecommendedDone \/ OrphansBack \/ OrphansDone => Moves
         /\ BackToTop \/ Finish => Moves
<1>1. pc = "top" => visit = 0
  BY DEF SearchInv, Phases, Running
<1>2. Top \/ EnterSystem \/ JobResolved \/ JobsDone => Moves
  BY <1>1 DEF Top, EnterSystem, JobResolved, JobsDone, Moves, mainVars, searchVars, Running
<1>3. KeepNothing \/ InstalledBack \/ InstalledDone \/ DecideBack \/ DecideDone => Moves
  BY DEF KeepNothing, InstalledBack, InstalledDone, DecideBack, DecideDone, Moves, mainVars,
         searchVars, Running
<1>4. WeakNothing \/ WeakSelect \/ SupplementedBack \/ SupplementedDone => Moves
  BY DEF WeakNothing, WeakSelect, SupplementedBack, SupplementedDone, Moves, mainVars,
         searchVars, Running
<1>5. RecommendedBack \/ RecommendedDone \/ OrphansBack \/ OrphansDone => Moves
  BY DEF RecommendedBack, RecommendedDone, OrphansBack, OrphansDone, Moves, mainVars,
         searchVars, Running
<1>6. BackToTop \/ Finish => Moves
  BY DEF BackToTop, Finish, Moves, mainVars, searchVars, Running
<1>7. QED BY <1>2, <1>3, <1>4, <1>5, <1>6

\* The rule a package is updated by, and the candidates it gives.
LEMMA UpdateFacts ==
  ASSUME SearchInv
  PROVE  /\ \A i \in DOMAIN rules : Candidates(i) \subseteq Solvables /\ \A q \in Candidates(i) : Undecided(q)
         /\ \A p \in Solvables : /\ in.upd[p] \in 0..Len(rules) /\ in.feat[p] \in 0..Len(rules)
                                 /\ UpdateRule(p) \in 0..Len(rules)
                                 /\ in.multiversion[p] \subseteq Solvables
         /\ in.installed \in Seq(Solvables) /\ NInstalled \in Nat
         /\ \A k \in 1..NInstalled : in.installed[k] \in Solvables
         /\ in.orphaned \in Seq(Solvables)
         /\ \A k \in 1..Len(in.orphaned) : in.orphaned[k] \in Solvables
         /\ \A p \in Solvables : in.recommends[p] \in Seq(Seq(Solvables))
<1>1. /\ Len(rules) \in Nat /\ DOMAIN rules = 1..Len(rules) /\ ProblemFits(Solvables, in)
      /\ Len(in.rules) \in Nat /\ DOMAIN in.rules = 1..Len(in.rules)
      /\ Len(in.rules) <= Len(rules)
  BY RuleFacts DEF SearchInv, RulesTyped, WellFormed, RulesGrow
<1>2. ASSUME NEW i \in DOMAIN rules
      PROVE  Candidates(i) \subseteq Solvables /\ \A q \in Candidates(i) : Undecided(q)
  <2>1. Lits(i) \subseteq Literals(Solvables)
    BY <1>2, RuleFacts DEF SearchInv
  <2>2. \A l \in Literals(Solvables) : l > 0 => l \in Solvables
    BY SolvablesAssumption DEF Literals, Solvables
  <2>3. QED BY <2>1, <2>2 DEF Candidates
<1>3. ASSUME NEW p \in Solvables
      PROVE  /\ in.upd[p] \in 0..Len(rules) /\ in.feat[p] \in 0..Len(rules)
             /\ UpdateRule(p) \in 0..Len(rules)
             /\ in.multiversion[p] \subseteq Solvables
             /\ in.recommends[p] \in Seq(Seq(Solvables))
  <2>1. /\ in.upd[p] \in RulesIn(in.rules, "update") \cup {0}
        /\ in.feat[p] \in RulesIn(in.rules, "feature") \cup {0}
        /\ in.multiversion[p] \subseteq Solvables
        /\ in.recommends[p] \in Seq(Seq(Solvables))
    BY <1>1 DEF ProblemFits
  <2>2. in.upd[p] \in 0..Len(rules) /\ in.feat[p] \in 0..Len(rules)
    BY <1>1, <2>1 DEF RulesIn
  <2>3. QED BY <2>1, <2>2 DEF UpdateRule
<1>4. in.installed \in Seq(Solvables) /\ in.orphaned \in Seq(Solvables)
  BY <1>1 DEF ProblemFits
<1>5. QED BY <1>2, <1>3, <1>4 DEF NInstalled

\* prune_to_recommended and its like only take candidates away.
LEMMA PrunedFacts ==
  ASSUME SearchInv, NEW i \in DOMAIN rules
  PROVE  Pruned(i) \subseteq Candidates(i)
<1> DEFINE place == {k \in DOMAIN rules[i].lits : rules[i].lits[k] \in Candidates(i)}
           nth(k) == Cardinality({j \in place : j <= k})
           inst  == {k \in place : IsInstalled(rules[i].lits[k])}
           stop  == {k \in inst : rules[i].lits[k] \in in.updatemap}
           front == IF stop = {} THEN inst ELSE {k \in inst : k <= Min(stop)}
           left  == IF stop = {} THEN {} ELSE {k \in place : nth(k) > Cardinality(front)}
<1>1. front \subseteq place /\ left \subseteq place
  OBVIOUS
<1>2. Pruned(i) = IF in.updateall \/ front = {} THEN Candidates(i)
                  ELSE {rules[i].lits[k] : k \in front \cup left}
  BY DEF Pruned
<1>3. \A k \in place : rules[i].lits[k] \in Candidates(i)
  OBVIOUS
<1> HIDE DEF place, front, left
<1>4. QED BY <1>1, <1>2, <1>3

\* Resolving a job decides one of its candidates.
LEMMA ResolveJobDecides ==
  ASSUME SearchInv, ResolveJob
  PROVE  Decides
<1> DEFINE job == Min(OpenJobs)
<1>1. pc = "job" /\ OpenJobs # {} /\ SelectAndInstall(Pruned(job), job, "jobs.back")
      /\ UNCHANGED <<mainVars, recommendations>>
  BY DEF ResolveJob
<1>2. OpenJobs \subseteq DOMAIN rules /\ DOMAIN rules = 1..Len(rules) /\ Len(rules) \in Nat
  BY RuleFacts DEF OpenJobs, RulesIn, SearchInv
<1>3. OpenJobs \subseteq Nat
  BY <1>2
<1>4. job \in OpenJobs
  BY <1>1, <1>3, MinIsLeast
<1> HIDE DEF job
<1>5. Pruned(job) \subseteq Solvables /\ \A q \in Pruned(job) : Undecided(q)
  BY <1>2, <1>4, PrunedFacts, UpdateFacts
<1>6. job \in 0..Len(rules) /\ pc \in Resting /\ "jobs.back" \in SystemBacks
  BY <1>1, <1>2, <1>4 DEF Resting, SystemBacks
<1>7. QED BY <1>1, <1>5, <1>6, SelectDecides

\* The place of the package visited next.
LEMMA NextInstalled ==
  ASSUME SearchInv, pc = "installed", StepsToNext # {}
  PROVE  /\ NInstalled > 0 /\ AtNextInstalled.i \in 1..NInstalled
         /\ Min(StepsToNext) \in Nat
         /\ in.installed[AtNextInstalled.i] \in Solvables
         /\ ToResolve(in.installed[AtNextInstalled.i])
<1>1. loc.i \in 1..NInstalled /\ loc.n \in Nat /\ loc.n > 0
  BY DEF SearchInv, Locals, LocalsType
<1>2. NInstalled \in Nat /\ NInstalled > 0
  BY <1>1, UpdateFacts
<1>3. StepsToNext \subseteq Nat
  BY <1>1, <1>2 DEF StepsToNext
<1> DEFINE k == Min(StepsToNext)
<1>4. k \in StepsToNext
  BY <1>3, MinIsLeast
<1>5. k \in Nat /\ ToResolve(in.installed[Place(k)])
  BY <1>3, <1>4 DEF StepsToNext
<1>6. Place(k) \in 1..NInstalled
  <2>1. loc.i - 1 + k \in Int
    BY <1>1, <1>5
  <2> HIDE DEF k
  <2>2. QED BY <1>2, <2>1, CycleStays DEF Place
<1>7. AtNextInstalled.i = Place(k)
  BY DEF AtNextInstalled
<1>8. QED BY <1>2, <1>5, <1>6, <1>7, UpdateFacts

\* Updating an installed package decides one of the candidates.
LEMMA UpdateInstalledDecides ==
  ASSUME SearchInv, UpdateInstalled
  PROVE  Decides
<1> DEFINE p == in.installed[AtNextInstalled.i]
<1>1. /\ pc = "installed" /\ StepsToNext # {} /\ loc' = AtNextInstalled /\ in' = in
      /\ UNCHANGED <<mainVars, recommendations>>
  BY DEF UpdateInstalled, mainVars
<1>2. /\ UpdateCandidates(in.installed[loc'.i]) # {}
      /\ SelectAndInstall(UpdateCandidates(in.installed[loc'.i]), UpdateRule(in.installed[loc'.i]), "update.back")
  BY DEF UpdateInstalled
<1>3. UpdateCandidates(p) # {} /\ SelectAndInstall(UpdateCandidates(p), UpdateRule(p), "update.back")
  BY <1>1, <1>2
<1>4. p \in Solvables /\ ToResolve(p)
  BY <1>1, NextInstalled
<1> HIDE DEF p
<1>5. UpdateRule(p) \in 0..Len(rules) /\ UpdateRule(p) # 0
  BY <1>4, UpdateFacts DEF ToResolve
<1>6. UpdateRule(p) \in DOMAIN rules
  BY <1>5, RuleFacts DEF SearchInv
<1>7. UpdateCandidates(p) \subseteq Solvables /\ \A q \in UpdateCandidates(p) : Undecided(q)
  BY <1>6, UpdateFacts DEF UpdateCandidates
<1>8. pc \in Resting /\ "update.back" \in SystemBacks
  BY <1>1 DEF Resting, SystemBacks
<1>9. QED BY <1>1, <1>3, <1>5, <1>7, <1>8, SelectDecides

\* The same for a package of which there may be several versions.
LEMMA UpdateMultiversionSteps ==
  ASSUME SearchInv, UpdateMultiversion
  PROVE  Decides \/ Moves
<1> DEFINE p == in.installed[AtNextInstalled.i]
<1>1. /\ pc = "installed" /\ StepsToNext # {} /\ loc' = AtNextInstalled /\ in' = in
      /\ UNCHANGED <<mainVars, recommendations>>
  BY DEF UpdateMultiversion, mainVars
<1>2. \/ \E q \in MultiversionUpdates(p) :
           SelectAndInstall({q}, IF in.feat[p] = 0 THEN in.upd[p] ELSE in.feat[p], "update.back")
      \/ pc' = "keep" /\ UNCHANGED <<trail, branches, level, caller, visit>>
  BY <1>1 DEF UpdateMultiversion
<1>4. p \in Solvables /\ ToResolve(p)
  BY <1>1, NextInstalled
<1> HIDE DEF p
<1>5. (IF in.feat[p] = 0 THEN in.upd[p] ELSE in.feat[p]) \in 0..Len(rules)
  BY <1>4, UpdateFacts
<1>6. \A q \in MultiversionUpdates(p) : q \in Solvables /\ Undecided(q)
  BY <1>4, UpdateFacts DEF MultiversionUpdates
<1>7. pc \in Resting /\ "update.back" \in SystemBacks
  BY <1>1 DEF Resting, SystemBacks
<1>8. CASE pc' = "keep" /\ UNCHANGED <<trail, branches, level, caller, visit>>
  BY <1>1, <1>8 DEF Moves, mainVars, searchVars, Running
<1>9. CASE \E q \in MultiversionUpdates(p) :
              SelectAndInstall({q}, IF in.feat[p] = 0 THEN in.upd[p] ELSE in.feat[p], "update.back")
  <2>1. PICK q \in MultiversionUpdates(p) :
              SelectAndInstall({q}, IF in.feat[p] = 0 THEN in.upd[p] ELSE in.feat[p], "update.back")
    BY <1>9
  <2>2. {q} \subseteq Solvables /\ \A x \in {q} : Undecided(x)
    BY <1>6
  <2>3. QED BY <1>1, <1>5, <1>7, <2>1, <2>2, SelectDecides
<1>10. QED BY <1>2, <1>8, <1>9

\* Keeping an installed package decides it.
LEMMA KeepDecides ==
  ASSUME SearchInv, pc \in {"installed", "keep"}, NEW p \in Solvables, NEW next, KeepInstalled(p, next)
  PROVE  Decides
<1>1. /\ p \in Literals(Solvables) /\ -p \in Literals(Solvables)
      /\ IsUndef(trail.map, p) /\ IsUndef(trail.map, -p)
      /\ 0 \in 0..Len(rules)
  <2>1. pc \in Resting
    BY DEF Resting
  <2>2. QED BY <2>1, TypedAtRest DEF KeepInstalled
<1>2. in.upd[p] \in 0..Len(rules)
  BY UpdateFacts
<1>3. pc \in Resting /\ "keep.back" \in SystemBacks \cup UncheckedCallers /\ "keep.back" \notin UncheckedCallers
  BY DEF Resting, SystemBacks, UncheckedCallers
<1>4. UNCHANGED mainVars /\ branches' = branches /\ recommendations' = recommendations
  BY DEF KeepInstalled
<1>5. CASE p \in policy.cleandeps
  BY <1>1, <1>3, <1>4, <1>5, SetDecides DEF KeepInstalled
<1>6. CASE p \notin policy.cleandeps
  BY <1>1, <1>2, <1>3, <1>4, <1>6, SetDecides DEF KeepInstalled
<1>7. QED BY <1>5, <1>6

\* Keeping it instead of, or after, an update.
LEMMA KeepSteps ==
  ASSUME SearchInv, KeepWithoutUpdate \/ KeepAfterUpdate
  PROVE  Decides
<1>1. CASE KeepWithoutUpdate
  <2>1. /\ pc = "installed" /\ StepsToNext # {}
        /\ KeepInstalled(in.installed[AtNextInstalled.i], AtNextInstalled)
    BY <1>1 DEF KeepWithoutUpdate
  <2>2. QED BY <2>1, NextInstalled, KeepDecides
<1>2. CASE KeepAfterUpdate
  <2>1. pc = "keep" /\ KeepInstalled(in.installed[loc.i], loc)
    BY <1>2 DEF KeepAfterUpdate
  <2>2. loc.i \in 1..NInstalled
    BY <2>1 DEF SearchInv, Locals
  <2>3. QED BY <2>1, <2>2, UpdateFacts, KeepDecides
<1>3. QED BY <1>1, <1>2

\* The rule decided next.
LEMMA NextOpen ==
  ASSUME SearchInv, pc = "decide", StepsToOpen # {}
  PROVE  Rule(Min(StepsToOpen)) \in DOMAIN rules /\ Min(StepsToOpen) \in Nat /\ Len(rules) > 0
<1>1. loc.i \in Nat /\ loc.n = 1 /\ Len(rules) \in Nat /\ DOMAIN rules = 1..Len(rules)
  BY RuleFacts DEF SearchInv, Locals, LocalsType
<1>2. StepsToOpen \subseteq 0..(Len(rules) - 1)
  BY <1>1 DEF StepsToOpen
<1>3. Len(rules) > 0 /\ StepsToOpen \subseteq Nat
  <2>1. \A k \in 0..(Len(rules) - 1) : Len(rules) > 0 /\ k \in Nat
    BY <1>1
  <2>2. QED BY <1>2, <2>1
<1> DEFINE k == Min(StepsToOpen)
<1>4. k \in Nat
  BY <1>3, MinIsLeast
<1>5. loc.i - 1 + k \in Int
  BY <1>1, <1>4
<1> HIDE DEF k
<1>6. Rule(k) \in 1..Len(rules)
  BY <1>1, <1>3, <1>5, CycleStays DEF Rule
<1>7. QED BY <1>1, <1>3, <1>4, <1>6 DEF k

\* An open rule is resolved by deciding one of its literals.
LEMMA DecideRuleDecides ==
  ASSUME SearchInv, DecideRule
  PROVE  Decides
<1> DEFINE i == Rule(Min(StepsToOpen))
<1>1. /\ pc = "decide" /\ StepsToOpen # {} /\ SelectAndInstall(Candidates(i), i, "decide.back")
      /\ UNCHANGED <<mainVars, recommendations>>
  BY DEF DecideRule
<1>2. i \in DOMAIN rules
  BY <1>1, NextOpen
<1> HIDE DEF i
<1>3. i \in 0..Len(rules) /\ Candidates(i) \subseteq Solvables /\ \A q \in Candidates(i) : Undecided(q)
  BY <1>2, UpdateFacts, RuleFacts DEF SearchInv
<1>4. pc \in Resting /\ "decide.back" \in SystemBacks
  BY <1>1 DEF Resting, SystemBacks
<1>5. QED BY <1>1, <1>3, <1>4, SelectDecides

\* Installing what is wanted weakly decides it.
LEMMA InstallDecides ==
  ASSUME SearchInv, pc \in Extras, NEW p \in Solvables, Undecided(p),
         NEW at \in UncheckedCallers, InstallRecommended(p, at),
         branches' = branches \/ \E alts : LeavesOpen(branches, alts, level),
         UNCHANGED mainVars
  PROVE  Decides
<1>1. pc \in Resting
  BY DEF Resting
<1>2. p \in Literals(Solvables) /\ IsUndef(trail.map, p) /\ 0 \in 0..Len(rules)
  BY <1>1, TypedAtRest
<1>3. SetPropagateLearn(trail, level, p, FALSE, 0, at) /\ recommendations' = Append(recommendations, p)
  BY DEF InstallRecommended
<1>4. QED BY <1>1, <1>2, <1>3, SetDecides

\* What is recommended or supplemented is undecided.
LEMMA WeakCandidates ==
  ASSUME SearchInv, NEW p \in Recommended \cup Supplemented
  PROVE  p \in Solvables /\ Undecided(p)
<1>1. CASE p \in Supplemented
  BY <1>1 DEF Supplemented
<1>2. CASE p \in Recommended
  <2>1. PICK x \in Solvables : p \in Missing(x)
    BY <1>2 DEF Recommended
  <2>2. PICK provs \in Range(in.recommends[x]) : p \in Range(provs) /\ Undecided(p)
    BY <2>1 DEF Missing
  <2>3. in.recommends[x] \in Seq(Seq(Solvables))
    BY UpdateFacts
  <2>4. provs \in Seq(Solvables)
    BY <2>2, <2>3, RangeFacts
  <2>5. p \in Solvables
    BY <2>2, <2>4, RangeFacts
  <2>6. QED BY <2>2, <2>5
<1>3. QED BY <1>1, <1>2

\* Weak dependencies decide a recommended or supplemented package.
LEMMA WeakDecides ==
  ASSUME SearchInv, WeakSingle \/ InstallSupplemented
  PROVE  Decides
<1>1. CASE WeakSingle
  <2>1. PICK p \in Solvables : Recommended \cup Supplemented = {p} /\ InstallRecommended(p, "weak.back")
    BY <1>1 DEF WeakSingle
  <2>2. Undecided(p)
    BY <2>1, WeakCandidates
  <2>3. pc \in Extras /\ "weak.back" \in UncheckedCallers /\ UNCHANGED mainVars /\ branches' = branches
    BY <1>1 DEF WeakSingle, Extras, UncheckedCallers
  <2>4. QED BY <2>1, <2>2, <2>3, InstallDecides
<1>2. CASE InstallSupplemented
  <2>1. OpenSupplements # {} /\ InstallRecommended(Min(OpenSupplements), "supplemented.back")
    BY <1>2 DEF InstallSupplemented
  <2>2. OpenSupplements \subseteq Solvables
    BY DEF OpenSupplements, SearchInv, Locals, LocalsType
  <2>3. Min(OpenSupplements) \in OpenSupplements
    <3>1. OpenSupplements \subseteq Nat
      BY <2>2 DEF Solvables
    <3>2. QED BY <2>1, <3>1, MinIsLeast
  <2>4. Min(OpenSupplements) \in Solvables /\ Undecided(Min(OpenSupplements))
    BY <2>2, <2>3 DEF OpenSupplements
  <2>5. /\ pc \in Extras /\ "supplemented.back" \in UncheckedCallers /\ UNCHANGED mainVars
        /\ branches' = branches
    BY <1>2 DEF InstallSupplemented, Extras, UncheckedCallers
  <2>6. QED BY <2>1, <2>4, <2>5, InstallDecides
<1>3. QED BY <1>1, <1>2

\* What is left to choose from of the providers of a recommendation.
LEMMA ProviderFacts ==
  ASSUME SearchInv, NEW p \in Solvables, NEW k \in DOMAIN in.recommends[p]
  PROVE  /\ ProvidersLeft(p, k) \in Seq(Solvables)
         /\ \A q \in Range(ProvidersLeft(p, k)) : Undecided(q)
<1>1. in.recommends[p] \in Seq(Seq(Solvables))
  BY UpdateFacts
<1>2. in.recommends[p][k] \in Seq(Solvables)
  BY <1>1
<1> DEFINE und == {q \in loc.dqmap : Undecided(q)}
           left == Only(in.recommends[p][k], und)
<1>3. left \in Seq(Solvables) /\ Range(left) = Range(in.recommends[p][k]) \cap und
  <2> HIDE DEF und
  <2>1. QED BY <1>2, OnlyPicks
<1>4. <<>> \in Seq(Solvables) /\ Range(<<>>) = {}
  BY DEF Range
<1>5. ProvidersLeft(p, k) = <<>> \/ ProvidersLeft(p, k) = left
  BY DEF ProvidersLeft
<1> HIDE DEF left
<1>6. QED BY <1>3, <1>4, <1>5

\* Installing a recommendation of package p decides one of its providers.
LEMMA RecommendedFromDecides ==
  ASSUME SearchInv, pc = "recommended", NEW p \in Solvables, NEW from \in Nat,
         OpenRecommends(p, from) # {}, NEW next,
         RecommendedFrom(p, Min(OpenRecommends(p, from)), next), UNCHANGED mainVars
  PROVE  Decides
<1> DEFINE k == Min(OpenRecommends(p, from))
           dq == ProvidersLeft(p, k)
<1>1. in.recommends[p] \in Seq(Seq(Solvables))
  BY UpdateFacts
<1>2. OpenRecommends(p, from) \subseteq Nat
  BY <1>1 DEF OpenRecommends
<1>3. k \in OpenRecommends(p, from)
  BY <1>2, MinIsLeast
<1>4. k \in DOMAIN in.recommends[p] /\ dq # <<>>
  BY <1>3 DEF OpenRecommends
<1> HIDE DEF k
<1>5. dq \in Seq(Solvables) /\ \A q \in Range(dq) : Undecided(q)
  BY <1>4, ProviderFacts
<1>6. /\ branches' = OpenBranch(branches, Tail(dq), level)
      /\ InstallRecommended(Head(dq), "recommended.back")
  BY DEF RecommendedFrom, k
<1> HIDE DEF dq
<1>7. Head(dq) \in Solvables /\ Tail(dq) \in Seq(Solvables) /\ Head(dq) \in Range(dq)
      /\ Range(Tail(dq)) \subseteq Range(dq)
  <2>1. Head(dq) \in Solvables /\ Tail(dq) \in Seq(Solvables)
    BY <1>4, <1>5, HeadTailProperties
  <2>2. Head(dq) = dq[1] /\ 1 \in 1..Len(dq)
    BY <1>4, <1>5
  <2>3. Head(dq) \in Range(dq)
    BY <1>5, <2>2, RangeFacts
  <2>4. ASSUME NEW j \in 1..Len(Tail(dq))
        PROVE  Tail(dq)[j] \in Range(dq)
    <3>1. Tail(dq)[j] = dq[j + 1] /\ j + 1 \in 1..Len(dq)
      BY <1>4, <1>5
    <3>2. QED BY <1>5, <3>1, RangeFacts
  <2>5. Range(Tail(dq)) \subseteq Range(dq)
    <3>1. Tail(dq) \in Seq(Solvables)
      BY <2>1
    <3>2. \A x : x \in Range(Tail(dq)) <=> \E j \in 1..Len(Tail(dq)) : Tail(dq)[j] = x
      BY <3>1, RangeFacts
    <3>3. QED BY <2>4, <3>2
  <2>6. QED BY <2>1, <2>3, <2>5
<1>8. branches' = branches \/ \E alts : LeavesOpen(branches, alts, level)
  <2>1. CASE Tail(dq) = <<>>
    BY <1>6, <2>1 DEF OpenBranch
  <2>2. CASE Tail(dq) # <<>>
    <3>1. LeavesOpen(branches, Tail(dq), level)
      BY <1>5, <1>6, <1>7, <2>2 DEF OpenBranch, LeavesOpen
    <3>2. QED BY <3>1
  <2>3. QED BY <2>1, <2>2
<1>9. pc \in Extras /\ "recommended.back" \in UncheckedCallers
  BY DEF Extras, UncheckedCallers
<1>10. QED BY <1>5, <1>6, <1>7, <1>8, <1>9, InstallDecides

\* The first decision whose recommendations are open is about a package.
LEMMA AskingFacts ==
  ASSUME SearchInv, pc = "recommended", AskingDecisions # {}
  PROVE  /\ trail.q[Min(AskingDecisions)] \in Solvables
         /\ Min(AskingDecisions) \in AskingDecisions /\ Min(AskingDecisions) \in Nat
         /\ OpenRecommends(trail.q[Min(AskingDecisions)], 1) # {}
<1>1. /\ loc.i \in Nat /\ loc.i > 0 /\ loc.decisioncount \in Nat /\ loc.decisioncount <= Len(trail.q)
      /\ Len(trail.q) \in Nat
  BY SearchFacts, DecisionFacts DEF SearchInv, Locals, LocalsType
<1>2. AskingDecisions \subseteq Nat /\ AskingDecisions \subseteq 1..Len(trail.q)
  BY <1>1 DEF AskingDecisions
<1>3. Min(AskingDecisions) \in AskingDecisions
  BY <1>2, MinIsLeast
<1> DEFINE k == Min(AskingDecisions)
<1>4. trail.q[k] \in Literals(1..NSolvables)
  BY <1>2, <1>3, SearchFacts, DecisionFacts
<1>5. trail.q[k] > SYSTEMSOLVABLE /\ OpenRecommends(trail.q[k], 1) # {}
  BY <1>3 DEF AskingDecisions
<1>6. trail.q[k] \in Solvables
  BY <1>4, <1>5, SearchFacts DEF Literals, Solvables, SYSTEMSOLVABLE
<1>7. QED BY <1>2, <1>3, <1>5, <1>6

\* Installing recommendations decides.
LEMMA InstallRecommendationsDecides ==
  ASSUME SearchInv, InstallRecommendations
  PROVE  Decides
<1>1. pc = "recommended" /\ UNCHANGED mainVars
  BY DEF InstallRecommendations
<1>2. CASE MoreOfPackage
  <2>1. RecommendedFrom(loc.pkg, Min(OpenRecommends(loc.pkg, loc.rec)), loc.i)
    BY <1>2 DEF InstallRecommendations
  <2>2. OpenRecommends(loc.pkg, loc.rec) # {} /\ loc.pkg # 0
    BY <1>2 DEF MoreOfPackage
  <2>3. loc.pkg \in Solvables /\ loc.rec \in Nat
    BY <2>2, SearchFacts DEF SearchInv, Locals, LocalsType, Solvables
  <2>4. QED BY <1>1, <2>1, <2>2, <2>3, RecommendedFromDecides
<1>3. CASE ~MoreOfPackage
  <2> DEFINE k == Min(AskingDecisions)
             p == trail.q[k]
  <2>1. AskingDecisions # {} /\ RecommendedFrom(p, Min(OpenRecommends(p, 1)), k + 1)
    BY <1>3 DEF InstallRecommendations
  <2>2. p \in Solvables /\ OpenRecommends(p, 1) # {}
    BY <1>1, <2>1, AskingFacts
  <2> HIDE DEF k, p
  <2>3. QED BY <1>1, <2>1, <2>2, RecommendedFromDecides
<1>4. QED BY <1>2, <1>3

\* Keeping or dropping an orphan decides it.
LEMMA OrphanDecides ==
  ASSUME SearchInv, KeepOrphan \/ DropOrphan
  PROVE  Decides
<1>1. OpenOrphans \subseteq 1..Len(in.orphaned) /\ OrphansToKeep \subseteq OpenOrphans
  <2>1. DOMAIN in.orphaned = 1..Len(in.orphaned)
    BY UpdateFacts
  <2>2. QED BY <2>1 DEF OpenOrphans, OrphansToKeep
<1>2. OpenOrphans \subseteq Nat /\ OrphansToKeep \subseteq Nat
  BY <1>1
<1>3. \A k \in OpenOrphans : in.orphaned[k] \in Solvables /\ Undecided(in.orphaned[k])
  BY <1>1, UpdateFacts DEF OpenOrphans
<1>4. "orphans.back" \in UncheckedCallers /\ "droporphans.back" \in UncheckedCallers
  BY DEF UncheckedCallers
<1>5. CASE KeepOrphan
  <2> DEFINE k == Min(OrphansToKeep)
  <2>1. /\ pc = "orphans" /\ OrphansToKeep # {}
        /\ SetPropagateLearn(trail, level, in.orphaned[k], FALSE, 0, "orphans.back")
        /\ UNCHANGED <<mainVars, branches, recommendations>>
    BY <1>5 DEF KeepOrphan
  <2>2. k \in OpenOrphans
    BY <1>1, <1>2, <2>1, MinIsLeast
  <2> HIDE DEF k
  <2>3. in.orphaned[k] \in Solvables /\ Undecided(in.orphaned[k])
    BY <1>3, <2>2
  <2>4. pc \in Extras /\ pc \in Resting
    BY <2>1 DEF Extras, Resting
  <2>5. /\ in.orphaned[k] \in Literals(Solvables) /\ IsUndef(trail.map, in.orphaned[k])
        /\ 0 \in 0..Len(rules)
    BY <2>3, <2>4, TypedAtRest
  <2>6. QED BY <1>4, <2>1, <2>4, <2>5, SetDecides
<1>6. CASE DropOrphan
  <2> DEFINE k == Min(OpenOrphans)
  <2>1. /\ pc = "droporphans" /\ OpenOrphans # {}
        /\ SetPropagateLearn(trail, level, -in.orphaned[k], FALSE, 0, "droporphans.back")
        /\ UNCHANGED <<mainVars, branches, recommendations>>
    BY <1>6 DEF DropOrphan
  <2>2. k \in OpenOrphans
    BY <1>2, <2>1, MinIsLeast
  <2> HIDE DEF k
  <2>3. in.orphaned[k] \in Solvables /\ Undecided(in.orphaned[k])
    BY <1>3, <2>2
  <2>4. pc \in Extras /\ pc \in Resting
    BY <2>1 DEF Extras, Resting
  <2>5. /\ -in.orphaned[k] \in Literals(Solvables) /\ IsUndef(trail.map, -in.orphaned[k])
        /\ 0 \in 0..Len(rules)
    BY <2>3, <2>4, TypedAtRest
  <2>6. QED BY <1>4, <2>1, <2>4, <2>5, SetDecides
<1>7. QED BY <1>5, <1>6

\* The place of the last branch opened below a level.
LEMMA BelowFacts ==
  ASSUME NEW brs, Len(brs) \in Nat, DOMAIN brs = 1..Len(brs), NEW g \in Nat,
         \A b \in 1..Len(brs) : brs[b].level \in Nat,
         \A a, b \in 1..Len(brs) : a < b => brs[a].level < brs[b].level
  PROVE  \E n \in 0..Len(brs) : /\ BranchesBelow(brs, g) = SubSeq(brs, 1, n)
                                /\ \A b \in 1..n : brs[b].level < g
<1> DEFINE S == {0} \cup {k \in DOMAIN brs : brs[k].level < g}
           n == Max(S)
<1>1. S \subseteq 0..Len(brs) /\ S # {}
  OBVIOUS
<1>2. n \in S
  <2> HIDE DEF S
  <2>1. QED BY <1>1, MaxIsGreatest
<1>3. BranchesBelow(brs, g) = SubSeq(brs, 1, n)
  BY DEF BranchesBelow
<1> HIDE DEF n
<1>4. n \in 0..Len(brs) /\ (n # 0 => brs[n].level < g)
  BY <1>1, <1>2
<1>5. ASSUME NEW b \in 1..n PROVE brs[b].level < g
  <2>1. n \in 1..Len(brs) /\ b \in 1..Len(brs) /\ (b < n \/ b = n)
    BY <1>4
  <2>2. brs[b].level \in Nat /\ brs[n].level \in Nat /\ brs[n].level < g
    BY <1>4, <2>1
  <2>3. QED BY <2>1, <2>2
<1>6. QED BY <1>3, <1>4, <1>5

\* Open branches have alternatives, and levels in order below the current one.
LEMMA BranchFacts ==
  ASSUME SearchInv
  PROVE  /\ Len(branches) \in Nat /\ DOMAIN branches = 1..Len(branches)
         /\ \A b \in 1..Len(branches) :
              /\ branches[b].level \in Nat /\ branches[b].level > 0 /\ branches[b].level < level
              /\ branches[b].level \in 1..(level - 1)
              /\ branches[b].alts \in Seq(Solvables) /\ branches[b].alts # <<>>
              /\ Head(branches[b].alts) \in Range(branches[b].alts)
              /\ \A p \in Range(branches[b].alts) : p \in Solvables /\ (Undecided(p) \/ LevelOf(p) > branches[b].level)
         /\ \A a, b \in 1..Len(branches) : a < b => branches[a].level < branches[b].level
<1>1. Len(branches) \in Nat /\ DOMAIN branches = 1..Len(branches) /\ level \in Nat
  BY SearchFacts DEF SearchInv, Branches
<1>2. ASSUME NEW b \in 1..Len(branches)
      PROVE  /\ branches[b].level \in Nat /\ branches[b].level > 0 /\ branches[b].level < level
             /\ branches[b].level \in 1..(level - 1)
             /\ branches[b].alts \in Seq(Solvables) /\ branches[b].alts # <<>>
             /\ Head(branches[b].alts) \in Range(branches[b].alts)
             /\ \A p \in Range(branches[b].alts) : p \in Solvables /\ (Undecided(p) \/ LevelOf(p) > branches[b].level)
  <2>1. branches[b] \in BranchType
    BY <1>1 DEF SearchInv, Branches
  <2>2. /\ branches[b].level \in Nat /\ branches[b].level > 0
        /\ branches[b].alts \in Seq(Solvables) /\ branches[b].alts # <<>>
    BY <2>1 DEF BranchType
  <2>3. branches[b].level < level /\ branches[b].level \in 1..(level - 1)
    BY <1>1, <2>2 DEF SearchInv, Branches
  <2>4. Head(branches[b].alts) = branches[b].alts[1] /\ 1 \in 1..Len(branches[b].alts)
    BY <2>2
  <2>5. Head(branches[b].alts) \in Range(branches[b].alts) /\ Range(branches[b].alts) \subseteq Solvables
    BY <2>2, <2>4, RangeFacts
  <2>6. \A p \in Range(branches[b].alts) : Undecided(p) \/ LevelOf(p) > branches[b].level
    BY <1>1 DEF SearchInv, Branches
  <2>7. QED BY <2>2, <2>3, <2>5, <2>6
<1>3. \A a, b \in 1..Len(branches) : a < b => branches[a].level < branches[b].level
  BY <1>1 DEF SearchInv, Branches
<1>4. QED BY <1>1, <1>2, <1>3

\* Taking a branch, as the two loops over the branches do it.
LEMMA TakeGoesBack ==
  ASSUME SearchInv, pc = "branch", NEW g \in 1..Len(branches),
         NEW p \in Range(branches[g].alts), NEW left, TakeBranch(branches[g], p, left),
         NEW brs, Keeps(brs, branches[g].level),
         left = brs \/ \E alts : /\ alts \in Seq(Solvables) /\ alts # <<>>
                                 /\ \A q \in Range(alts) : Undecided(q) \/ LevelOf(q) > branches[g].level
                                 /\ left = Append(brs, [alts |-> alts, level |-> branches[g].level])
  PROVE  GoesBack
<1> DEFINE lev == branches[g].level
           t == Reverted(lev)
           reason == -trail.why[Len(t.q) + 1]
<1>1. /\ lev \in 1..(level - 1) /\ p \in Solvables /\ (Undecided(p) \/ LevelOf(p) > lev)
  BY BranchFacts
<1>2. level > 0 /\ level = TopLevel(trail) /\ level \in 1..NSolvables /\ Len(rules) \in Nat
  BY TypedAtRest DEF Resting
<1>3. lev \in 1..TopLevel(trail) /\ lev < TopLevel(trail)
  BY <1>1, <1>2
<1>4. /\ Len(t.q) = Kept(trail, lev) /\ Kept(trail, lev) \in 1..Len(trail.q)
      /\ Kept(trail, lev) < Len(trail.q)
  <2> HIDE DEF lev
  <2>1. QED BY <1>3, SearchFacts, RevertWhole DEF Reverted
<1>5. /\ reason >= 0
      /\ propagate_index' = Len(t.q)
      /\ recommendations' = SubSeq(recommendations, 1, RecommendationsKept(Len(t.q)))
      /\ branches' = left
      /\ SetPropagateLearn(t, lev, p, in.disablerules, reason, "branch.back")
      /\ UNCHANGED <<in, ruleVars, disabled, policy, problems, an, systemlevel, loc>>
  BY DEF TakeBranch
<1>6. trail.why[Len(t.q) + 1] \in -Len(rules)..Len(rules)
  <2>1. Len(t.q) + 1 \in DOMAIN trail.q
    BY <1>4, SearchFacts, DecisionFacts
  <2> HIDE DEF t
  <2>2. QED BY <2>1, SearchFacts DEF TrailWhole, Reasons
<1> HIDE DEF t, lev
<1>7. -reason \in -Len(rules)..0
  BY <1>2, <1>5, <1>6
<1>8. Redecision(lev, p, -reason)
  BY <1>1, <1>4, <1>5, <1>7 DEF Redecision, SetPropagateLearn, t
<1>9. branches' = brs \/ \E alts : LeavesOpen(brs, alts, lev)
  BY <1>5 DEF LeavesOpen, lev
<1>10. Keeps(brs, lev)
  BY DEF lev
<1>11. QED BY <1>2, <1>5, <1>8, <1>9, <1>10 DEF GoesBack, SetPropagateLearn

\* Minimizing goes back to a branch.
LEMMA MinimizeGoesBack ==
  ASSUME SearchInv, Minimize
  PROVE  GoesBack
<1>1. pc = "branch"
  BY DEF Minimize
<1>2. PICK b \in DOMAIN branches :
        /\ Improvable(b) # {}
        /\ TakeBranch(branches[b], branches[b].alts[Min(Improvable(b))],
                      BranchesBelow(branches, branches[b].level))
  BY DEF Minimize
<1>3. b \in 1..Len(branches) /\ branches[b].alts \in Seq(Solvables)
  BY BranchFacts
<1>4. Min(Improvable(b)) \in Improvable(b)
  <2>1. Improvable(b) \subseteq Nat
    BY <1>3 DEF Improvable
  <2>2. QED BY <1>2, <2>1, MinIsLeast
<1>5. branches[b].alts[Min(Improvable(b))] \in Range(branches[b].alts)
  BY <1>3, <1>4 DEF Improvable, Range
<1>6. PICK n \in 0..Len(branches) :
           /\ BranchesBelow(branches, branches[b].level) = SubSeq(branches, 1, n)
           /\ \A a \in 1..n : branches[a].level < branches[b].level
  <2>1. branches[b].level \in Nat
    BY <1>3, BranchFacts
  <2>2. \E n \in 0..Len(branches) :
           /\ BranchesBelow(branches, branches[b].level) = SubSeq(branches, 1, n)
           /\ \A a \in 1..n : branches[a].level < branches[b].level
    BY <2>1, BranchFacts, BelowFacts
  <2>3. QED BY <2>2
<1>7. Keeps(BranchesBelow(branches, branches[b].level), branches[b].level)
  BY <1>6 DEF Keeps
<1>8. QED BY <1>1, <1>2, <1>3, <1>5, <1>7, TakeGoesBack

\* Trying an alternative goes back to a branch.
LEMMA TryGoesBack ==
  ASSUME SearchInv, TryAlternative
  PROVE  GoesBack
<1> DEFINE n == Len(branches)
           g == branches[n]
           brs == BranchesBelow(Front(branches), g.level)
<1>1. /\ pc = "branch" /\ branches # <<>>
      /\ TakeBranch(Last(branches), Head(Last(branches).alts),
           OpenBranch(BranchesBelow(Front(branches), Last(branches).level), Tail(Last(branches).alts), Last(branches).level))
  BY DEF TryAlternative
<1>2. branches \in Seq(BranchType) /\ n \in Nat /\ DOMAIN branches = 1..n
  BY DEF SearchInv, Branches
<1>3. n > 0 /\ n \in 1..n /\ n - 1 \in 0..n
  BY <1>1, <1>2
<1>4. Last(branches) = g
  BY DEF Last
<1>5. /\ TakeBranch(g, Head(g.alts), OpenBranch(brs, Tail(g.alts), g.level))
  BY <1>1, <1>4
<1> DEFINE front == Front(branches)
<1>6. Len(front) = n - 1 /\ DOMAIN front = 1..(n - 1) /\ \A b \in 1..(n - 1) : front[b] = branches[b]
  <2>1. front = SubSeq(branches, 1, n - 1)
    BY DEF Front
  <2>2. QED BY <1>2, <1>3, <2>1
<1>7. /\ g.level \in Nat /\ g.alts \in Seq(Solvables) /\ g.alts # <<>>
      /\ Head(g.alts) \in Range(g.alts)
      /\ \A p \in Range(g.alts) : Undecided(p) \/ LevelOf(p) > g.level
  BY <1>3, BranchFacts
<1>8. PICK k \in 0..(n - 1) : brs = SubSeq(front, 1, k) /\ \A b \in 1..k : front[b].level < g.level
  <2>1. \A b \in 1..(n - 1) : b \in 1..n
    BY <1>2
  <2>2. \A b \in 1..(n - 1) : front[b].level \in Nat
    BY <1>6, <2>1, BranchFacts
  <2>3. \A a, b \in 1..(n - 1) : a < b => front[a].level < front[b].level
    BY <1>6, <2>1, BranchFacts
  <2> HIDE DEF front, g
  <2>4. Len(front) \in Nat
    BY <1>2, <1>3, <1>6
  <2>5. \E k \in 0..Len(front) : /\ BranchesBelow(front, g.level) = SubSeq(front, 1, k)
                                 /\ \A b \in 1..k : front[b].level < g.level
    BY <1>6, <1>7, <2>2, <2>3, <2>4, BelowFacts
  <2>6. QED BY <1>6, <2>5 DEF front
<1>9. brs = SubSeq(branches, 1, k) /\ k \in 0..n /\ \A b \in 1..k : branches[b].level < g.level
  <2>1. k \in 0..n /\ k \in Nat /\ k <= n - 1 /\ \A b \in 1..k : b \in 1..(n - 1)
    BY <1>2, <1>3
  <2>2. front = SubSeq(branches, 1, n - 1)
    BY DEF Front
  <2>3. SubSeq(front, 1, k) = SubSeq(branches, 1, k)
    BY <1>2, <1>3, <1>6, <2>1
  <2>4. QED BY <1>6, <1>8, <2>1, <2>3
<1>10. Keeps(brs, g.level)
  <2> HIDE DEF brs, g
  <2>1. QED BY <1>9 DEF Keeps
<1>11. \/ OpenBranch(brs, Tail(g.alts), g.level) = brs
       \/ \E alts : /\ alts \in Seq(Solvables) /\ alts # <<>>
                    /\ \A q \in Range(alts) : Undecided(q) \/ LevelOf(q) > g.level
                    /\ OpenBranch(brs, Tail(g.alts), g.level) = Append(brs, [alts |-> alts, level |-> g.level])
  <2> HIDE DEF brs, g
  <2>1. CASE Tail(g.alts) = <<>>
    BY <2>1 DEF OpenBranch
  <2>2. CASE Tail(g.alts) # <<>>
    <3>1. Tail(g.alts) \in Seq(Solvables)
      BY <1>7
    <3>2. ASSUME NEW q \in Range(Tail(g.alts))
          PROVE  q \in Range(g.alts)
      <4>1. PICK j \in 1..Len(Tail(g.alts)) : Tail(g.alts)[j] = q
        BY <3>1, RangeFacts
      <4>2. g.alts[j + 1] = q /\ j + 1 \in 1..Len(g.alts)
        BY <1>7, <4>1
      <4>3. QED BY <1>7, <4>2, RangeFacts
    <3>3. OpenBranch(brs, Tail(g.alts), g.level) = Append(brs, [alts |-> Tail(g.alts), level |-> g.level])
      BY <2>2 DEF OpenBranch
    <3>4. QED BY <1>7, <2>2, <3>1, <3>2, <3>3
  <2>3. QED BY <2>1, <2>2
<1> HIDE DEF brs
<1>12. QED BY <1>1, <1>3, <1>5, <1>7, <1>10, <1>11, TakeGoesBack

----------------------------------------------------------------------------
(* What decisions and reverts change, for literals.                        *)

\* Trail u is t with one decision more.
GrewBy(u, t, rs, l, reason, lev) ==
  /\ TrailWhole(u, rs, NSolvables) /\ TopLevel(u) = lev
  /\ Len(u.q) = Len(t.q) + 1 /\ DOMAIN u.q = 1..(Len(t.q) + 1)
  /\ u.q[Len(t.q) + 1] = l /\ u.why[Len(t.q) + 1] = reason
  /\ LevelIn(u, Len(t.q) + 1) = lev
  /\ \A k \in 1..Len(t.q) : /\ u.q[k] = t.q[k] /\ u.why[k] = t.why[k]
                            /\ LevelIn(u, k) = LevelIn(t, k)
  /\ IsTrue(u.map, l) /\ IsFalse(u.map, -l) /\ Level(u.map[Var(l)]) = lev
  /\ \A x \in Literals(Solvables) :
       /\ ~IsUndef(t.map, x) => u.map[Var(x)] = t.map[Var(x)] /\ Var(x) # Var(l)
       /\ IsTrue(t.map, x) => IsTrue(u.map, x) /\ ~IsUndef(t.map, x)
       /\ IsFalse(t.map, x) => IsFalse(u.map, x) /\ ~IsUndef(t.map, x)
       /\ IsTrue(u.map, x) => IsTrue(t.map, x) \/ x = l
       /\ IsFalse(u.map, x) => IsFalse(t.map, x) \/ x = -l
       /\ IsUndef(u.map, x) => IsUndef(t.map, x)

\* Trail c is t without what was decided above lev.
ShrankTo(c, t, rs, lev, k) ==
  /\ TrailWhole(c, rs, NSolvables) /\ TopLevel(c) = lev
  /\ k \in 1..Len(t.q) /\ Len(c.q) = k /\ DOMAIN c.q = 1..k
  /\ \A j \in 1..Len(t.q) : j <= k <=> LevelIn(t, j) <= lev
  /\ \A j \in 1..k : /\ c.q[j] = t.q[j] /\ c.why[j] = t.why[j]
                     /\ LevelIn(c, j) = LevelIn(t, j)
  /\ lev < TopLevel(t) => k < Len(t.q) /\ t.why[k + 1] <= 0
  /\ \A x \in Literals(Solvables) :
       /\ c.map[Var(x)] = IF Level(t.map[Var(x)]) <= lev THEN t.map[Var(x)] ELSE 0
       /\ IsTrue(c.map, x) <=> IsTrue(t.map, x) /\ Level(t.map[Var(x)]) <= lev
       /\ IsFalse(c.map, x) <=> IsFalse(t.map, x) /\ Level(t.map[Var(x)]) <= lev
       /\ IsUndef(c.map, x) <=> IsUndef(t.map, x) \/ Level(t.map[Var(x)]) > lev

\* What the decision map says of a literal.
LEMMA MapFacts ==
  ASSUME NEW map \in [Solvables -> Int], NEW x \in Literals(Solvables)
  PROVE  /\ Var(x) \in Solvables /\ x \in Int /\ x # 0 /\ map[Var(x)] \in Int
         /\ Level(map[Var(x)]) \in Nat /\ (Level(map[Var(x)]) = 0 <=> map[Var(x)] = 0)
         /\ IsTrue(map, x) <=> (IF x > 0 THEN map[Var(x)] > 0 ELSE map[Var(x)] < 0)
         /\ IsFalse(map, x) <=> (IF x > 0 THEN map[Var(x)] < 0 ELSE map[Var(x)] > 0)
         /\ IsUndef(map, x) <=> map[Var(x)] = 0
<1>1. Var(x) \in Solvables /\ x \in Int /\ x # 0
  BY SolvablesAssumption, LiteralFacts DEF Solvables
<1>2. map[Var(x)] \in Int
  BY <1>1
<1>3. Level(map[Var(x)]) \in Nat /\ (Level(map[Var(x)]) = 0 <=> map[Var(x)] = 0)
  BY <1>2 DEF Level
<1>4. QED BY <1>1, <1>2, <1>3 DEF IsTrue, IsFalse, IsUndef, Var

\* Deciding an undecided literal makes the trail grow by it.
LEMMA DecideGrows ==
  ASSUME NEW t, NEW rs, TrailWhole(t, rs, NSolvables), Len(rs) \in Nat,
         NEW l \in Literals(Solvables), IsUndef(t.map, l),
         NEW reason \in -Len(rs)..Len(rs), NEW lev \in Nat,
         IF reason > 0
           THEN /\ lev = TopLevel(t) /\ l \in Range(rs[reason].lits)
                /\ \A x \in Range(rs[reason].lits) \ {l} :
                     x \in Literals(Solvables) /\ IsFalse(t.map, x)
           ELSE lev = TopLevel(t) + 1
  PROVE  GrewBy(Decide(t, l, reason, lev), t, rs, l, reason, lev)
<1> DEFINE u == Decide(t, l, reason, lev)
<1>1. NSolvables \in Nat /\ Solvables = 1..NSolvables
  BY SolvablesAssumption DEF Solvables
<1>2. TopLevel(t) \in 1..NSolvables
  BY <1>1, LevelsBounded
<1>3. lev > 0 /\ reason \in Int
  BY <1>2
<1>4. TrailWhole(u, rs, NSolvables)
  BY <1>1, DecideWhole
<1>5. /\ Len(u.q) = Len(t.q) + 1 /\ DOMAIN u.q = 1..(Len(t.q) + 1)
      /\ u.q[Len(t.q) + 1] = l /\ u.why[Len(t.q) + 1] = reason
      /\ LevelIn(u, Len(t.q) + 1) = lev /\ TopLevel(u) = lev
      /\ \A k \in 1..Len(t.q) : /\ u.q[k] = t.q[k] /\ u.why[k] = t.why[k]
                                /\ LevelIn(u, k) = LevelIn(t, k)
      /\ \A x \in Literals(Solvables) : Var(x) # Var(l) => u.map[Var(x)] = t.map[Var(x)]
      /\ Level(u.map[Var(l)]) = lev /\ IsTrue(u.map, l) /\ IsFalse(u.map, -l)
  BY <1>1, <1>3, DecideAdds
<1>6. u.map \in [Solvables -> Int] /\ t.map \in [Solvables -> Int]
  BY <1>1, <1>4 DEF TrailWhole, TrailType
<1> HIDE DEF u
<1>7. ASSUME NEW x \in Literals(Solvables)
      PROVE  /\ ~IsUndef(t.map, x) => u.map[Var(x)] = t.map[Var(x)] /\ Var(x) # Var(l)
             /\ IsTrue(t.map, x) => IsTrue(u.map, x) /\ ~IsUndef(t.map, x)
             /\ IsFalse(t.map, x) => IsFalse(u.map, x) /\ ~IsUndef(t.map, x)
             /\ IsTrue(u.map, x) => IsTrue(t.map, x) \/ x = l
             /\ IsFalse(u.map, x) => IsFalse(t.map, x) \/ x = -l
             /\ IsUndef(u.map, x) => IsUndef(t.map, x)
  <2>1. /\ x \in Int /\ x # 0 /\ l \in Int /\ l # 0
        /\ t.map[Var(x)] \in Int /\ u.map[Var(x)] \in Int
        /\ IsTrue(t.map, x) <=> (IF x > 0 THEN t.map[Var(x)] > 0 ELSE t.map[Var(x)] < 0)
        /\ IsFalse(t.map, x) <=> (IF x > 0 THEN t.map[Var(x)] < 0 ELSE t.map[Var(x)] > 0)
        /\ IsUndef(t.map, x) <=> t.map[Var(x)] = 0
        /\ IsTrue(u.map, x) <=> (IF x > 0 THEN u.map[Var(x)] > 0 ELSE u.map[Var(x)] < 0)
        /\ IsFalse(u.map, x) <=> (IF x > 0 THEN u.map[Var(x)] < 0 ELSE u.map[Var(x)] > 0)
        /\ IsUndef(u.map, x) <=> u.map[Var(x)] = 0
        /\ IsUndef(t.map, l) <=> t.map[Var(l)] = 0
    BY <1>6, MapFacts
  <2>2. CASE Var(x) # Var(l)
    BY <1>5, <2>1, <2>2
  <2>3. CASE Var(x) = Var(l)
    <3>1. x = l \/ x = -l
      BY <2>1, <2>3 DEF Var
    <3>2. t.map[Var(x)] = 0 /\ ~IsTrue(t.map, x) /\ ~IsFalse(t.map, x)
      BY <2>1, <2>3
    <3>3. IsTrue(u.map, l) <=> (IF l > 0 THEN u.map[Var(l)] > 0 ELSE u.map[Var(l)] < 0)
      BY <1>6, MapFacts
    <3>4. u.map[Var(x)] # 0 /\ ~IsUndef(u.map, x)
      BY <1>5, <2>1, <2>3, <3>3
    <3>5. x = -l => ~IsTrue(u.map, x)
      BY <1>5, <2>1, <2>3, <3>3
    <3>6. x = l => ~IsFalse(u.map, x)
      BY <1>5, <2>1, <2>3, <3>3
    <3>7. QED BY <2>1, <3>1, <3>2, <3>4, <3>5, <3>6
  <2>4. QED BY <2>2, <2>3
<1>8. GrewBy(u, t, rs, l, reason, lev)
  BY <1>4, <1>5, <1>7 DEF GrewBy
<1>9. QED BY <1>8 DEF u

\* revert makes the trail shrink to the decisions of the levels that are left.
LEMMA RevertShrinks ==
  ASSUME NEW t, NEW rs, TrailWhole(t, rs, NSolvables), NEW lev \in 1..TopLevel(t)
  PROVE  ShrankTo(Cut(t, Kept(t, lev)), t, rs, lev, Kept(t, lev))
<1> DEFINE k == Kept(t, lev)
           c == Cut(t, k)
<1>1. NSolvables \in Nat /\ Solvables = 1..NSolvables
  BY SolvablesAssumption DEF Solvables
<1>2. lev \in Nat /\ lev > 0
  <2>1. TopLevel(t) \in 1..NSolvables
    BY <1>1, LevelsBounded
  <2>2. QED BY <2>1
<1>3. /\ TrailWhole(c, rs, NSolvables) /\ TopLevel(c) = lev
      /\ k \in 1..Len(t.q) /\ Len(c.q) = k /\ DOMAIN c.q = 1..k
      /\ \A j \in 1..Len(t.q) : j <= k <=> LevelIn(t, j) <= lev
      /\ \A j \in 1..k : /\ c.q[j] = t.q[j] /\ c.why[j] = t.why[j]
                         /\ LevelIn(c, j) = LevelIn(t, j)
      /\ \A p \in Solvables : c.map[p] = IF Level(t.map[p]) <= lev THEN t.map[p] ELSE 0
      /\ lev < TopLevel(t) => k < Len(t.q) /\ t.why[k + 1] <= 0
  BY <1>1, RevertWhole
<1>4. c.map \in [Solvables -> Int] /\ t.map \in [Solvables -> Int]
  BY <1>1, <1>3 DEF TrailWhole, TrailType
<1> HIDE DEF c, k
<1>5. ASSUME NEW x \in Literals(Solvables)
      PROVE  /\ c.map[Var(x)] = IF Level(t.map[Var(x)]) <= lev THEN t.map[Var(x)] ELSE 0
             /\ IsTrue(c.map, x) <=> IsTrue(t.map, x) /\ Level(t.map[Var(x)]) <= lev
             /\ IsFalse(c.map, x) <=> IsFalse(t.map, x) /\ Level(t.map[Var(x)]) <= lev
             /\ IsUndef(c.map, x) <=> IsUndef(t.map, x) \/ Level(t.map[Var(x)]) > lev
  <2>1. /\ x \in Int /\ x # 0 /\ Var(x) \in Solvables
        /\ t.map[Var(x)] \in Int /\ c.map[Var(x)] \in Int /\ Level(t.map[Var(x)]) \in Nat
        /\ IsTrue(t.map, x) <=> (IF x > 0 THEN t.map[Var(x)] > 0 ELSE t.map[Var(x)] < 0)
        /\ IsFalse(t.map, x) <=> (IF x > 0 THEN t.map[Var(x)] < 0 ELSE t.map[Var(x)] > 0)
        /\ IsUndef(t.map, x) <=> t.map[Var(x)] = 0
        /\ IsTrue(c.map, x) <=> (IF x > 0 THEN c.map[Var(x)] > 0 ELSE c.map[Var(x)] < 0)
        /\ IsFalse(c.map, x) <=> (IF x > 0 THEN c.map[Var(x)] < 0 ELSE c.map[Var(x)] > 0)
        /\ IsUndef(c.map, x) <=> c.map[Var(x)] = 0
    BY <1>4, MapFacts
  <2>2. c.map[Var(x)] = IF Level(t.map[Var(x)]) <= lev THEN t.map[Var(x)] ELSE 0
    BY <1>3, <2>1
  <2>3. QED BY <1>2, <2>1, <2>2
<1>6. ShrankTo(c, t, rs, lev, k)
  BY <1>3, <1>5 DEF ShrankTo
<1>7. QED BY <1>6 DEF c, k

----------------------------------------------------------------------------
(* What the decisions of the main loop do to the trail.                    *)

\* A decision of the main loop makes the trail grow.
LEMMA DecidesGrows ==
  ASSUME SearchInv, Decides
  PROVE  \E lit, reason : /\ Decision(lit, reason)
                          /\ GrewBy(trail', trail, rules, lit, reason, level + 1)
<1>1. PICK lit, reason : Decision(lit, reason)
  BY DEF Decides
<1>2. /\ level = TopLevel(trail) /\ level \in Nat /\ Len(rules) \in Nat
      /\ TrailWhole(trail, rules, NSolvables)
  BY TypedAtRest, SearchFacts DEF Decides
<1>3. reason \in -Len(rules)..Len(rules) /\ ~(reason > 0) /\ level + 1 \in Nat
  BY <1>1, <1>2 DEF Decision
<1>4. GrewBy(Decide(trail, lit, reason, level + 1), trail, rules, lit, reason, level + 1)
  BY <1>1, <1>2, <1>3, DecideGrows DEF Decision
<1>5. QED BY <1>1, <1>4 DEF Decision

\* Going back to a branch makes the trail shrink and grow again.
LEMMA RedecisionGrows ==
  ASSUME SearchInv, level > 0, NEW g, NEW lit, NEW reason, Redecision(g, lit, reason)
  PROVE  /\ ShrankTo(Reverted(g), trail, rules, g, Kept(trail, g))
         /\ GrewBy(trail', Reverted(g), rules, lit, reason, g + 1)
         /\ g \in Nat /\ g > 0 /\ g < level
<1>1. /\ level = TopLevel(trail) /\ level \in Nat /\ Len(rules) \in Nat
      /\ TrailWhole(trail, rules, NSolvables)
  BY SearchFacts, RuleFacts DEF SearchInv
<1>2. g \in Nat /\ g > 0 /\ g < level /\ g \in 1..TopLevel(trail)
  BY <1>1 DEF Redecision
<1>3. ShrankTo(Reverted(g), trail, rules, g, Kept(trail, g))
  BY <1>1, <1>2, RevertShrinks DEF Reverted
<1>4. lit \in Literals(Solvables) /\ IsUndef(Reverted(g).map, lit)
  <2>1. lit \in Solvables /\ (Undecided(lit) \/ LevelOf(lit) > g)
    BY DEF Redecision
  <2>2. lit \in Literals(Solvables) /\ Var(lit) = lit
    BY <2>1, SolvablesAssumption DEF Solvables, Literals, Var
  <2>3. IsUndef(trail.map, lit) \/ Level(trail.map[Var(lit)]) > g
    BY <2>1, <2>2 DEF IsUndef, Undecided, LevelOf
  <2>4. QED BY <1>3, <2>2, <2>3 DEF ShrankTo
<1>5. reason \in -Len(rules)..Len(rules) /\ ~(reason > 0) /\ g + 1 \in Nat
  BY <1>1, <1>2 DEF Redecision
<1>6. TrailWhole(Reverted(g), rules, NSolvables) /\ TopLevel(Reverted(g)) = g
  BY <1>3 DEF ShrankTo
<1>7. GrewBy(Decide(Reverted(g), lit, reason, g + 1), Reverted(g), rules, lit, reason, g + 1)
  BY <1>1, <1>4, <1>5, <1>6, DecideGrows
<1>8. QED BY <1>2, <1>3, <1>7 DEF Redecision

----------------------------------------------------------------------------
(* Control: where the main loop goes.                                      *)

\* Every step of the main loop moves on, decides or goes back.
LEMMA MainSteps ==
  ASSUME SearchInv, SystemStep \/ ExtraStep
  PROVE  MainStep
<1>1. CASE Top \/ EnterSystem \/ JobResolved \/ JobsDone
  BY <1>1, MovingSteps DEF MainStep
<1>2. CASE KeepNothing \/ InstalledBack \/ InstalledDone \/ DecideBack \/ DecideDone
  BY <1>2, MovingSteps DEF MainStep
<1>3. CASE WeakNothing \/ WeakSelect \/ SupplementedBack \/ SupplementedDone
  BY <1>3, MovingSteps DEF MainStep
<1>4. CASE RecommendedBack \/ RecommendedDone \/ OrphansBack \/ OrphansDone
  BY <1>4, MovingSteps DEF MainStep
<1>5. CASE BackToTop \/ Finish
  BY <1>5, MovingSteps DEF MainStep
<1>6. CASE ResolveJob \/ UpdateInstalled \/ KeepWithoutUpdate \/ KeepAfterUpdate \/ DecideRule
  BY <1>6, ResolveJobDecides, UpdateInstalledDecides, KeepSteps, DecideRuleDecides DEF MainStep
<1>7. CASE UpdateMultiversion
  BY <1>7, UpdateMultiversionSteps DEF MainStep
<1>8. CASE WeakSingle \/ InstallSupplemented \/ InstallRecommendations \/ KeepOrphan \/ DropOrphan
  BY <1>8, WeakDecides, InstallRecommendationsDecides, OrphanDecides DEF MainStep
<1>9. CASE TryAlternative \/ Minimize
  BY <1>9, TryGoesBack, MinimizeGoesBack DEF MainStep
<1>10. QED BY <1>1, <1>2, <1>3, <1>4, <1>5, <1>6, <1>7, <1>8, <1>9 DEF SystemStep, ExtraStep

\* A step that decides nothing, to a place of the main loop.
LEMMA MovesPhases ==
  ASSUME SearchInv, Moves, UNCHANGED caller, pc # "hopeless",
         pc' \in Resting \cup {"top"}, pc' \in Resting => Propagated,
         systemlevel' \in {systemlevel, level, level + 1}
  PROVE  Phases' /\ level > 0
<1>1. /\ level \in 1..NSolvables /\ NSolvables \in Nat /\ visit = 0 /\ pc \notin Running
      /\ systemlevel \in 1..(NSolvables + 1) /\ propagate_index \in 0..Len(trail.q)
      /\ caller.at \in SystemBacks \cup UncheckedCallers \cup {"top", "jobs"}
      /\ caller = [at |-> caller.at, olevel |-> caller.olevel, disablerules |-> caller.disablerules]
      /\ caller.olevel \in Nat /\ caller.olevel > 0
      /\ pc \in Resting \cup UncheckedCallers => Propagated
      /\ pc \in SystemBacks \cup {"top"} => level = 1 \/ Propagated
      /\ pc \in Resting \cup SystemBacks \cup UncheckedCallers \cup {"top"}
  BY SearchFacts DEF SearchInv, Phases, Moves
<1>2. systemlevel' \in 1..(NSolvables + 1)
  BY <1>1
<1>3. /\ level' = level /\ visit' = 0 /\ propagate_index' = propagate_index /\ trail' = trail
      /\ rules' = rules /\ pc' \notin Running /\ pc' \notin UncheckedCallers /\ pc' \notin SystemBacks
      /\ pc' # "hopeless"
  BY <1>1 DEF Moves, searchVars, ruleVars, Resting, Running, Extras, UncheckedCallers, SystemBacks
<1>4. level = 1 \/ Propagated
  BY <1>1
<1>5. (level = 1 \/ Propagated)' /\ (pc' \in Resting => Propagated')
  BY <1>3, <1>4 DEF Propagated
<1>6. Phases'
  <2>1. pc' \in Running \cup Resting \cup SystemBacks \cup UncheckedCallers \cup {"top", "hopeless"}
    OBVIOUS
  <2>2. pc' \notin {"assert", "assertweak", "propagate", "analyze"}
    BY <1>3 DEF Running
  <2>3. /\ level' \in Nat /\ (level' = 0 => pc' = "hopeless")
        /\ caller' = caller
        /\ visit' \in Nat /\ propagate_index' \in 0..Len(trail'.q)
    BY <1>1, <1>3
  <2>4. /\ caller'.at \in SystemBacks \cup UncheckedCallers \cup {"top", "jobs"}
        /\ caller'.olevel \in Nat /\ caller'.olevel > 0
    BY <1>1, <2>3
  <2>41. caller' = [at |-> caller'.at, olevel |-> caller'.olevel, disablerules |-> caller'.disablerules]
    BY <1>1, <2>3
  <2>5. QED BY <2>41, <1>2, <1>3, <1>5, <2>1, <2>2, <2>3, <2>4 DEF Phases, Running
<1>7. QED BY <1>1, <1>6

\* What the local variables are, at a place of the main loop.
LocalsAt(place) ==
  /\ LocalsType(loc)
  /\ loc.installedpos = 1 \/ loc.installedpos \in 1..NInstalled
  /\ place \in {"installed", "keep", "update.back", "keep.back"} =>
       loc.i \in 1..NInstalled /\ loc.n > 0
  /\ place = "decide" => loc.n = 1 /\ (loc.i = 1 \/ loc.i \in 1..Len(rules))
  /\ place = "decide.back" => loc.i \in 1..Len(rules)
  /\ place = "recommended" => loc.decisioncount <= Len(trail.q)

\* Where the caller of the engine is, or the main loop itself.
Placed == IF pc \in Running THEN caller.at ELSE pc

\* What is known of the local variables depends only on that place.
LEMMA LocalsPlaced ==
  ASSUME Phases
  PROVE  Locals <=> LocalsAt(Placed)
<1>1. caller.at \notin {"installed", "keep", "decide", "recommended"}
  BY DEF Phases, SystemBacks, UncheckedCallers
<1>2. CASE pc \in Running
  BY <1>1, <1>2 DEF Placed, Running, Locals, LocalsAt, At
<1>3. CASE pc \notin Running
  BY <1>3 DEF Placed, Locals, LocalsAt, At
<1>4. QED BY <1>2, <1>3

\* The head of the main loop.
LEMMA TopPhases ==
  ASSUME SearchInv, Top
  PROVE  Phases'
<1>1. /\ level \in 1..NSolvables /\ NSolvables \in Nat /\ visit = 0 /\ pc = "top"
      /\ level = TopLevel(trail) /\ TrailWhole(trail, rules, NSolvables)
  BY SearchFacts DEF SearchInv, Phases, Top, Running
<1>2. CASE level # 1
  <2>1. pc' = "jobs" /\ UNCHANGED caller /\ UNCHANGED systemlevel
    BY <1>2 DEF Top
  <2>2. Propagated
    BY <1>1, <1>2 DEF SearchInv, Phases
  <2>3. Moves
    BY MovingSteps
  <2>4. QED BY <1>1, <2>1, <2>2, <2>3, MovesPhases DEF Resting
<1>3. CASE level = 1
  <2>1. /\ pc' = "propagate"
        /\ caller' = [at |-> "jobs", olevel |-> 1, disablerules |-> in.disablerules]
        /\ visit' = 0 /\ UNCHANGED <<rules, trail, propagate_index, level, systemlevel>>
    BY <1>3 DEF Top, searchVars, ruleVars
  <2>2. \A k \in DOMAIN trail.q : LevelAt(k) = 1
    <3>1. DOMAIN trail.q = 1..Len(trail.q) /\ Len(trail.q) \in Nat
          /\ \A k \in 1..Len(trail.q) : LevelIn(trail, k) \in 1..k /\ LevelIn(trail, k) <= TopLevel(trail)
      BY <1>1, DecisionFacts
    <3>2. QED BY <1>1, <1>3, <3>1 DEF LevelAt
  <2>3. \A k \in DOMAIN trail'.q : LevelAt(k)' = 1
    BY <2>1, <2>2 DEF LevelAt
  <2>4. /\ systemlevel \in 1..(NSolvables + 1) /\ propagate_index \in 0..Len(trail.q)
    BY DEF SearchInv, Phases
  <2>5. /\ pc' \in Running /\ pc' \notin Resting /\ pc' \notin UncheckedCallers
        /\ pc' \notin SystemBacks /\ pc' \notin {"top", "hopeless", "assert", "assertweak", "analyze"}
    BY <2>1 DEF Running, Resting, Extras, UncheckedCallers, SystemBacks
  <2>6. caller'.at = "jobs" /\ caller'.olevel = 1
    BY <2>1
  <2>7. QED BY <1>1, <1>3, <2>1, <2>3, <2>4, <2>5, <2>6 DEF Phases
<1>4. QED BY <1>2, <1>3

\* A decision is propagated next.
LEMMA DecidesPhases ==
  ASSUME SearchInv, Decides, systemlevel' = systemlevel
  PROVE  Phases'
<1>1. PICK lit, reason : GrewBy(trail', trail, rules, lit, reason, level + 1)
  BY DecidesGrows
<1>2. /\ pc \in Resting /\ level \in 1..NSolvables /\ NSolvables \in Nat
      /\ pc' = "propagate" /\ level' = level + 1 /\ visit' = 0
      /\ caller'.at \in SystemBacks \cup UncheckedCallers /\ caller'.olevel = level
      /\ caller' = [at |-> caller'.at, olevel |-> caller'.olevel, disablerules |-> caller'.disablerules]
      /\ propagate_index' = propagate_index /\ rules' = rules
      /\ propagate_index = Len(trail.q)
      /\ systemlevel \in 1..(NSolvables + 1)
  BY TypedAtRest, SearchFacts DEF Decides, ruleVars, SearchInv, Phases, Propagated
<1>3. /\ pc' \in Running /\ pc' \notin Resting /\ pc' \notin UncheckedCallers
      /\ pc' \notin SystemBacks /\ pc' \notin {"top", "hopeless", "assert", "assertweak", "analyze"}
  BY <1>2 DEF Running, Resting, Extras, UncheckedCallers, SystemBacks
<1>4. Len(trail'.q) = Len(trail.q) + 1 /\ Len(trail.q) \in Nat
      /\ DOMAIN trail'.q = 1..(Len(trail.q) + 1) /\ LevelIn(trail', Len(trail.q) + 1) = level + 1
  BY <1>1, SearchFacts, DecisionFacts DEF GrewBy
<1>5. \A k \in DOMAIN trail'.q :
         k > propagate_index' \/ (k = propagate_index' /\ visit' > 0) => LevelIn(trail', k) = level'
  <2>1. SUFFICES ASSUME NEW k \in DOMAIN trail'.q, k > Len(trail.q)
                 PROVE  LevelIn(trail', k) = level + 1
    BY <1>2
  <2>2. k = Len(trail.q) + 1
    BY <1>4, <2>1
  <2>3. QED BY <1>4, <2>2
<1>6. /\ level' \in Nat /\ level' # 0 /\ level \in Nat /\ level > 0
      /\ propagate_index' \in 0..Len(trail'.q)
  BY <1>2, <1>4
<1>7. QED BY <1>2, <1>3, <1>5, <1>6 DEF Phases, LevelAt

\* So is what is decided when a branch is taken.
LEMMA GoesBackPhases ==
  ASSUME SearchInv, GoesBack, systemlevel' = systemlevel
  PROVE  Phases'
<1>1. PICK g, lit, reason : Redecision(g, lit, reason)
  BY DEF GoesBack
<1> DEFINE t == Reverted(g)
<1>2. /\ ShrankTo(t, trail, rules, g, Kept(trail, g))
      /\ GrewBy(trail', t, rules, lit, reason, g + 1)
      /\ g \in Nat /\ g > 0
  BY <1>1, RedecisionGrows DEF GoesBack
<1> HIDE DEF t
<1>3. /\ pc' = "propagate" /\ level' = g + 1 /\ visit' = 0
      /\ caller'.at = "branch.back" /\ caller'.olevel = g
      /\ caller' = [at |-> caller'.at, olevel |-> caller'.olevel, disablerules |-> caller'.disablerules]
      /\ propagate_index' = Kept(trail, g) /\ rules' = rules
      /\ systemlevel \in 1..(NSolvables + 1)
  BY <1>1 DEF GoesBack, Redecision, ruleVars, SearchInv, Phases
<1>4. /\ pc' \in Running /\ pc' \notin Resting /\ pc' \notin UncheckedCallers
      /\ pc' \notin SystemBacks /\ pc' \notin {"top", "hopeless", "assert", "assertweak", "analyze"}
      /\ caller'.at \in SystemBacks
  BY <1>3 DEF Running, Resting, Extras, UncheckedCallers, SystemBacks
<1>5. /\ Kept(trail, g) = Len(t.q) /\ Len(t.q) \in Nat /\ Len(trail'.q) = Len(t.q) + 1
      /\ DOMAIN trail'.q = 1..(Len(t.q) + 1) /\ LevelIn(trail', Len(t.q) + 1) = g + 1
  BY <1>2 DEF ShrankTo, GrewBy
<1>6. \A k \in DOMAIN trail'.q :
         k > propagate_index' \/ (k = propagate_index' /\ visit' > 0) => LevelIn(trail', k) = level'
  <2>1. SUFFICES ASSUME NEW k \in DOMAIN trail'.q, k > Len(t.q)
                 PROVE  LevelIn(trail', k) = g + 1
    BY <1>3, <1>5
  <2>2. k = Len(t.q) + 1
    BY <1>5, <2>1
  <2>3. QED BY <1>5, <2>2
<1>7. /\ level' \in Nat /\ level' # 0
      /\ propagate_index' \in 0..Len(trail'.q)
  BY <1>2, <1>3, <1>5
<1>8. QED BY <1>2, <1>3, <1>4, <1>6, <1>7 DEF Phases, LevelAt

\* The local variables that mean the same everywhere.
LocalsTyped ==
  /\ LocalsType(loc)
  /\ loc.installedpos = 1 \/ loc.installedpos \in 1..NInstalled

\* The loop over the installed packages is at one of them.
Walking == loc.i \in 1..NInstalled /\ loc.n > 0

\* The local variables, place by place.
LEMMA LocalsFacts ==
  ASSUME SearchInv
  PROVE  /\ LocalsTyped
         /\ pc \in {"installed", "keep", "update.back", "keep.back"} => Walking
         /\ pc = "decide" => loc.n = 1 /\ (loc.i = 1 \/ loc.i \in 1..Len(rules))
         /\ pc = "decide.back" => loc.i \in 1..Len(rules)
         /\ pc = "recommended" => loc.decisioncount <= Len(trail.q)
BY DEF SearchInv, Locals, LocalsTyped, Walking, At

\* Moving to a place of the main loop.
LEMMA MovesControl ==
  ASSUME SearchInv, Moves, UNCHANGED caller, pc # "hopeless",
         pc' \in Resting \cup {"top"}, pc' \in Resting => Propagated,
         systemlevel' \in {systemlevel, level, level + 1},
         LocalsTyped',
         pc' \in {"installed", "keep"} => Walking',
         pc' = "decide" => loc'.n = 1 /\ (loc'.i = 1 \/ loc'.i \in 1..Len(rules)),
         pc' = "recommended" => loc'.decisioncount <= Len(trail.q)
  PROVE  Phases' /\ Locals'
<1>1. Phases'
  BY MovesPhases
<1>2. /\ ~At("update.back")' /\ ~At("keep.back")' /\ ~At("decide.back")'
  BY DEF At, Resting, Extras, Running
<1>3. rules' = rules /\ trail' = trail
  BY DEF Moves, ruleVars, searchVars
<1>4. QED BY <1>1, <1>2, <1>3 DEF Locals, LocalsTyped, Walking

\* The moves around the jobs lead to places that fit the local variables.
LEMMA JobMovesControl ==
  ASSUME SearchInv, EnterSystem \/ JobResolved \/ JobsDone
  PROVE  Phases' /\ Locals'
<1>1. Moves /\ in' = in
  BY MovingSteps DEF EnterSystem, JobResolved, JobsDone, mainVars
<1>2. LocalsTyped /\ level \in Nat /\ (level > 0 \/ pc = "hopeless")
  BY LocalsFacts, SearchFacts DEF SearchInv, Phases
<1>3. NInstalled \in Nat /\ NInstalled' = NInstalled
  BY <1>1, UpdateFacts DEF NInstalled
<1>4. CASE EnterSystem
  <2>1. /\ pc = "jobs" /\ pc' \in {"job", "decide"} /\ loc' = [loc EXCEPT !.i = 1, !.n = 1]
        /\ UNCHANGED <<caller, systemlevel>>
    BY <1>4 DEF EnterSystem
  <2>2. LocalsTyped' /\ loc'.n = 1 /\ loc'.i = 1
    BY <1>2, <1>3, <2>1 DEF LocalsTyped, LocalsType
  <2>3. pc \in Resting /\ pc' \in Resting
    BY <2>1 DEF Resting
  <2>4. Propagated
    BY <2>3 DEF SearchInv, Phases
  <2>5. pc' \notin {"installed", "keep", "recommended"} /\ pc # "hopeless"
    BY <2>1
  <2>6. QED BY <1>1, <2>1, <2>2, <2>3, <2>4, <2>5, MovesControl
<1>5. CASE JobResolved
  <2>1. /\ pc = "jobs.back" /\ UNCHANGED caller
        /\ IF level <= caller.olevel
             THEN systemlevel' = level + 1 /\ pc' = "top" /\ UNCHANGED loc
             ELSE pc' = "job" /\ loc' = [loc EXCEPT !.i = @ + 1] /\ UNCHANGED systemlevel
    BY <1>5 DEF JobResolved
  <2>2. LocalsTyped'
    <3>1. /\ LocalsType([loc EXCEPT !.i = loc.i + 1])
          /\ [loc EXCEPT !.i = loc.i + 1].installedpos = loc.installedpos
      BY <1>2 DEF LocalsTyped, LocalsType
    <3>2. QED BY <1>2, <1>3, <2>1, <3>1 DEF LocalsTyped
  <2>3. caller.olevel \in Nat /\ caller.olevel > 0 /\ (level = 1 \/ Propagated)
    BY <2>1 DEF SearchInv, Phases, SystemBacks
  <2>4. /\ pc' \in Resting \cup {"top"} /\ (pc' \in Resting => Propagated)
    BY <1>2, <2>1, <2>3 DEF Resting, Extras
  <2>5. pc' \notin {"installed", "keep", "decide", "recommended"} /\ pc # "hopeless"
    BY <2>1
  <2>6. QED BY <1>1, <2>1, <2>2, <2>4, <2>5, MovesControl
<1>6. CASE JobsDone
  <2>1. /\ pc = "job" /\ UNCHANGED caller
        /\ IF in.installed # <<>>
             THEN /\ systemlevel' = level + 1
                  /\ pc' = "installed"
                  /\ loc' = [loc EXCEPT !.pass = IF in.updatemap = {} THEN 1 ELSE 0,
                                        !.passlevel = level, !.i = loc.installedpos, !.n = 1]
             ELSE /\ systemlevel' = level
                  /\ pc' = "decide"
                  /\ loc' = [loc EXCEPT !.i = 1, !.n = 1]
    BY <1>6 DEF JobsDone
  <2>2. in.installed # <<>> => NInstalled > 0
    <3>1. in.installed \in Seq(Solvables)
      BY UpdateFacts
    <3>2. QED BY <3>1 DEF NInstalled
  <2>20. /\ (IF in.updatemap = {} THEN 1 ELSE 0) \in 0..1 /\ level \in Nat
         /\ in.installed # <<>> => loc.installedpos \in Nat \ {0} /\ loc.installedpos \in 1..NInstalled
    BY <1>2, <1>3, <2>1, <2>2 DEF LocalsTyped
  <2> DEFINE Right == LocalsTyped' /\ (pc' = "installed" => Walking') /\ (pc' = "decide" => loc'.n = 1 /\ loc'.i = 1)
  <2>21. ASSUME in.installed # <<>> PROVE Right
    <3>0. /\ loc' = [loc EXCEPT !.pass = IF in.updatemap = {} THEN 1 ELSE 0,
                               !.passlevel = level, !.i = loc.installedpos, !.n = 1]
          /\ pc' = "installed" /\ level \in Nat /\ LocalsType(loc)
      BY <1>2, <2>1, <2>21 DEF LocalsTyped
    <3>1. LocalsType(loc') /\ loc'.i = loc.installedpos /\ loc'.n = 1
          /\ loc'.installedpos = loc.installedpos
      BY <2>20, <2>21, <3>0 DEF LocalsType
    <3>2. QED BY <1>2, <1>3, <2>1, <2>20, <2>21, <3>0, <3>1 DEF LocalsTyped, Walking
  <2>22. ASSUME in.installed = <<>> PROVE Right
    <3>0. loc' = [loc EXCEPT !.i = 1, !.n = 1] /\ pc' = "decide" /\ LocalsType(loc)
      BY <1>2, <2>1, <2>22 DEF LocalsTyped
    <3>1. LocalsType(loc') /\ loc'.i = 1 /\ loc'.n = 1 /\ loc'.installedpos = loc.installedpos
      BY <3>0 DEF LocalsType
    <3>2. QED BY <1>2, <1>3, <3>0, <3>1 DEF LocalsTyped
  <2>3. LocalsTyped' /\ (pc' = "installed" => Walking') /\ (pc' = "decide" => loc'.n = 1 /\ loc'.i = 1)
    BY <2>21, <2>22
  <2>4. pc \in Resting /\ pc' \in Resting
    BY <2>1 DEF Resting
  <2>5. Propagated
    BY <2>4 DEF SearchInv, Phases
  <2>6. pc' \notin {"keep", "recommended"} /\ pc # "hopeless"
    BY <2>1
  <2>9. QED BY <1>1, <2>1, <2>3, <2>4, <2>5, <2>6, MovesControl
<1>7. QED BY <1>4, <1>5, <1>6

\* The next place of the walk over the installed packages.
LEMMA PlaceFacts ==
  ASSUME SearchInv, Walking, NEW k \in Nat
  PROVE  NInstalled \in Nat /\ NInstalled > 0 /\ Place(k) \in 1..NInstalled
<1>1. NInstalled \in Nat
  BY UpdateFacts
<1>2. NInstalled > 0 /\ loc.i - 1 + k \in Int
  BY <1>1 DEF Walking
<1>3. QED BY <1>1, <1>2, CycleStays DEF Place

\* So do the moves of the loop over the installed packages.
LEMMA InstalledMovesControl ==
  ASSUME SearchInv, KeepNothing \/ InstalledBack \/ InstalledDone
  PROVE  Phases' /\ Locals'
<1>1. Moves /\ in' = in /\ UNCHANGED caller
  BY MovingSteps DEF KeepNothing, InstalledBack, InstalledDone, mainVars
<1>2. LocalsTyped /\ level \in Nat /\ (level > 0 \/ pc = "hopeless")
  BY LocalsFacts, SearchFacts DEF SearchInv, Phases
<1>3. Walking /\ pc \in {"installed", "keep", "update.back", "keep.back"}
  BY LocalsFacts DEF KeepNothing, InstalledBack, InstalledDone
<1>4. NInstalled \in Nat /\ NInstalled > 0 /\ NInstalled' = NInstalled /\ Place(1) \in 1..NInstalled
  BY <1>1, <1>3, PlaceFacts DEF NInstalled
<1>41. LocalsType(NextPlace) /\ NextPlace.i \in 1..NInstalled /\ NextPlace.n > 0
       /\ NextPlace.installedpos = loc.installedpos
  <2>1. loc.n \in Nat /\ loc.n > 0 /\ LocalsType(loc)
    BY <1>2, <1>3 DEF LocalsTyped, LocalsType, Walking
  <2>2. loc.n + 1 \in Nat /\ loc.n + 1 > 0 /\ Place(1) \in Nat \ {0}
    BY <1>4, <2>1
  <2> HIDE DEF NextPlace
  <2>3. NextPlace = [loc EXCEPT !.i = Place(1), !.n = loc.n + 1]
    BY DEF NextPlace
  <2>4. /\ LocalsType(NextPlace) /\ NextPlace.i = Place(1) /\ NextPlace.n = loc.n + 1
        /\ NextPlace.installedpos = loc.installedpos
    BY <2>1, <2>2, <2>3 DEF LocalsType
  <2>5. QED BY <1>4, <2>2, <2>4
<1>5. CASE KeepNothing
  <2>1. pc = "keep" /\ pc' = "installed" /\ loc' = NextPlace /\ UNCHANGED systemlevel
    BY <1>5 DEF KeepNothing
  <2>2. LocalsTyped' /\ Walking'
    BY <1>2, <1>4, <1>41, <2>1 DEF LocalsTyped, Walking
  <2>3. pc \in Resting /\ pc' \in Resting
    BY <2>1 DEF Resting
  <2>4. Propagated
    BY <2>3 DEF SearchInv, Phases
  <2>5. QED BY <1>1, <2>1, <2>2, <2>3, <2>4, MovesControl
<1>6. CASE InstalledBack
  <2>1. /\ pc \in {"update.back", "keep.back"}
        /\ IF level <= caller.olevel
             THEN IF level = 1 \/ level < loc.passlevel
                    THEN /\ pc' = "top"
                         /\ systemlevel' = level + 1
                         /\ loc' = [loc EXCEPT !.installedpos = loc.i]
                    ELSE /\ pc' = "installed"
                         /\ loc' = [loc EXCEPT !.n = IF level < caller.olevel THEN 1 ELSE @]
                         /\ UNCHANGED systemlevel
             ELSE /\ IF pc = "update.back"
                       THEN pc' = "keep" /\ UNCHANGED loc
                       ELSE pc' = "installed" /\ loc' = NextPlace
                  /\ UNCHANGED systemlevel
    BY <1>6 DEF InstalledBack
  <2>2. /\ LocalsType([loc EXCEPT !.installedpos = loc.i])
        /\ [loc EXCEPT !.installedpos = loc.i].i = loc.i /\ [loc EXCEPT !.installedpos = loc.i].n = loc.n
        /\ [loc EXCEPT !.installedpos = loc.i].installedpos = loc.i
        /\ \A n \in Nat : /\ LocalsType([loc EXCEPT !.n = n]) /\ [loc EXCEPT !.n = n].i = loc.i
                           /\ [loc EXCEPT !.n = n].installedpos = loc.installedpos
                           /\ [loc EXCEPT !.n = n].n = n
    BY <1>2 DEF LocalsTyped, LocalsType
  <2>21. loc.n \in Nat /\ 1 \in Nat
    BY <1>2 DEF LocalsTyped, LocalsType
  <2>22. \/ loc' = loc
         \/ loc' = NextPlace
         \/ loc' = [loc EXCEPT !.installedpos = loc.i]
         \/ \E n \in Nat : n > 0 /\ loc' = [loc EXCEPT !.n = n]
    BY <1>3, <2>1, <2>21 DEF Walking
  <2>3. LocalsTyped' /\ Walking'
    BY <1>2, <1>3, <1>4, <1>41, <2>2, <2>22 DEF LocalsTyped, Walking
  <2>4. caller.olevel \in Nat /\ caller.olevel > 0 /\ (level = 1 \/ Propagated)
    BY <2>1 DEF SearchInv, Phases, SystemBacks
  <2>5. /\ pc' \in Resting \cup {"top"} /\ (pc' \in Resting => Propagated)
    BY <1>2, <2>1, <2>4 DEF Resting, Extras
  <2>6. pc' \notin {"decide", "recommended"} /\ pc # "hopeless" /\ systemlevel' \in {systemlevel, level, level + 1}
    BY <2>1
  <2>7. QED BY <1>1, <2>3, <2>5, <2>6, MovesControl
<1>7. CASE InstalledDone
  <2>1. /\ pc = "installed" /\ pc' \in {"installed", "decide"}
        /\ LocalsType(loc') /\ loc'.i = 1 /\ loc'.n = 1 /\ loc'.installedpos = 1
        /\ systemlevel' \in {systemlevel, level}
    <3>1. LocalsType(loc) /\ level \in Nat /\ pc = "installed" /\ 1 \in 0..1 /\ 1 \in Nat \ {0} /\ 1 \in Nat
      BY <1>2, <1>7 DEF LocalsTyped, InstalledDone
    <3>2. CASE loc.pass = 0
      <4>1. /\ loc' = [loc EXCEPT !.pass = 1, !.passlevel = level, !.installedpos = 1, !.i = 1, !.n = 1]
            /\ UNCHANGED <<pc, systemlevel>>
        BY <1>7, <3>2 DEF InstalledDone
      <4>2. QED BY <3>1, <4>1 DEF LocalsType
    <3>3. CASE loc.pass # 0
      <4>1. /\ loc' = [loc EXCEPT !.installedpos = 1, !.i = 1, !.n = 1]
            /\ pc' = "decide" /\ systemlevel' = level
        BY <1>7, <3>3 DEF InstalledDone
      <4>2. QED BY <3>1, <4>1 DEF LocalsType
    <3>4. QED BY <3>2, <3>3
  <2>2. LocalsTyped' /\ Walking'
    BY <1>2, <1>4, <2>1 DEF LocalsTyped, Walking
  <2>3. pc \in Resting /\ pc' \in Resting
    BY <2>1 DEF Resting
  <2>4. Propagated
    BY <2>3 DEF SearchInv, Phases
  <2>5. pc' # "recommended" /\ pc # "hopeless" /\ systemlevel' \in {systemlevel, level, level + 1}
    BY <2>1
  <2>6. QED BY <1>1, <2>1, <2>2, <2>3, <2>4, <2>5, MovesControl
<1>8. QED BY <1>5, <1>6, <1>7

\* What is known wherever the main loop moves.
LEMMA RestFacts ==
  ASSUME SearchInv
  PROVE  /\ LocalsTyped /\ LocalsType(loc) /\ level \in Nat /\ (level > 0 \/ pc = "hopeless")
         /\ caller.olevel \in Nat /\ caller.olevel > 0
         /\ pc \in Resting \cup UncheckedCallers => Propagated
         /\ pc \in SystemBacks \cup {"top"} => level = 1 \/ Propagated
         /\ Len(trail.q) \in Nat /\ NInstalled \in Nat
BY LocalsFacts, SearchFacts, UpdateFacts, DecisionFacts DEF SearchInv, Phases, LocalsTyped

\* The moves around open rules.
LEMMA DecideMovesControl ==
  ASSUME SearchInv, DecideBack \/ DecideDone
  PROVE  Phases' /\ Locals'
<1>1. Moves /\ in' = in /\ UNCHANGED caller /\ UNCHANGED systemlevel /\ NInstalled' = NInstalled
  BY MovingSteps DEF DecideBack, DecideDone, mainVars, NInstalled
<1>2. CASE DecideBack
  <2>1. /\ pc = "decide.back"
        /\ IF level < systemlevel \/ level = 1
             THEN pc' = "top" /\ UNCHANGED loc
             ELSE pc' = "decide" /\ loc' = [loc EXCEPT !.i = Rule(1), !.n = 1]
    BY <1>2 DEF DecideBack
  <2>2. LocalsTyped /\ LocalsType(loc) /\ loc.i \in 1..Len(rules) /\ Len(rules) \in Nat /\ level > 0
        /\ (level = 1 \/ Propagated) /\ level \in Nat
    BY <2>1, RestFacts, LocalsFacts, RuleFacts DEF SearchInv, SystemBacks
  <2>3. Rule(1) \in 1..Len(rules)
    <3>1. loc.i - 1 + 1 \in Int /\ Len(rules) > 0
      BY <2>2
    <3>2. QED BY <2>2, <3>1, CycleStays DEF Rule
  <2>4. LocalsTyped' /\ (pc' = "decide" => loc'.n = 1 /\ loc'.i \in 1..Len(rules))
    <3>1. CASE pc' = "top"
      BY <1>1, <2>1, <2>2, <3>1 DEF LocalsTyped
    <3>2. CASE pc' # "top"
      <4>1. loc' = [loc EXCEPT !.i = Rule(1), !.n = 1] /\ Rule(1) \in Nat \ {0}
        BY <2>1, <2>2, <2>3, <3>2
      <4>2. LocalsType(loc') /\ loc'.i = Rule(1) /\ loc'.n = 1 /\ loc'.installedpos = loc.installedpos
        BY <2>2, <4>1 DEF LocalsType
      <4>3. QED BY <1>1, <2>2, <2>3, <4>2 DEF LocalsTyped
    <3>3. QED BY <3>1, <3>2
  <2>5. pc' \in Resting \cup {"top"} /\ (pc' \in Resting => Propagated) /\ pc # "hopeless"
        /\ pc' \notin {"installed", "keep", "recommended"}
    BY <2>1, <2>2 DEF Resting, Extras
  <2>6. QED BY <1>1, <2>4, <2>5, MovesControl
<1>3. CASE DecideDone
  <2>1. /\ pc = "decide" /\ pc' \in {"weak", "orphans"}
        /\ loc' = [loc EXCEPT !.i = 1, !.installedone = FALSE]
    BY <1>3 DEF DecideDone
  <2>2. LocalsTyped /\ LocalsType(loc) /\ Propagated
    BY <2>1, RestFacts DEF Resting
  <2>3. LocalsTyped'
    <3>1. LocalsType(loc') /\ loc'.installedpos = loc.installedpos
      BY <2>1, <2>2 DEF LocalsType
    <3>2. QED BY <1>1, <2>2, <3>1 DEF LocalsTyped
  <2>4. pc' \in Resting \cup {"top"} /\ pc # "hopeless"
        /\ pc' \notin {"installed", "keep", "recommended", "decide"}
    BY <2>1 DEF Resting, Extras
  <2>5. QED BY <1>1, <2>2, <2>3, <2>4, MovesControl
<1>4. QED BY <1>2, <1>3

\* The moves around weak dependencies.
LEMMA WeakMovesControl ==
  ASSUME SearchInv, WeakNothing \/ WeakSelect \/ SupplementedBack \/ SupplementedDone
  PROVE  Phases' /\ Locals'
<1>1. /\ Moves /\ in' = in /\ UNCHANGED caller /\ UNCHANGED systemlevel /\ NInstalled' = NInstalled
      /\ UNCHANGED trail
  BY MovingSteps DEF WeakNothing, WeakSelect, SupplementedBack, SupplementedDone, mainVars, NInstalled
<1>2. /\ pc \in {"weak", "supplemented.back", "supplemented"}
      /\ pc' \in {"top", "orphans", "supplemented", "recommended"}
  BY DEF WeakNothing, WeakSelect, SupplementedBack, SupplementedDone
<1>3. pc \in Resting \cup UncheckedCallers /\ pc' \in Resting \cup {"top"} /\ pc # "hopeless"
      /\ pc' \notin {"installed", "keep", "decide"}
  BY <1>2 DEF Resting, Extras, UncheckedCallers
<1>4. /\ LocalsTyped /\ LocalsType(loc) /\ Propagated /\ Len(trail.q) \in Nat
  BY <1>3, RestFacts
<1>5. LocalsTyped' /\ (pc' = "recommended" => loc'.decisioncount <= Len(trail.q))
  <2>1. CASE WeakNothing
    <3>1. loc' = loc /\ pc' = "orphans"
      BY <2>1 DEF WeakNothing
    <3>2. QED BY <1>1, <1>4, <3>1 DEF LocalsTyped
  <2>2. CASE WeakSelect
    <3>1. pc' = "supplemented"
      BY <2>2 DEF WeakSelect
    <3>2. PICK best \in (SUBSET (Recommended \cup Supplemented)) \ {{}} :
            loc' = [loc EXCEPT !.dqs = Supplemented, !.dqmap = best,
                               !.decisioncount = Len(trail.q), !.i = 1]
      BY <2>2 DEF WeakSelect
    <3>3. Supplemented \subseteq Solvables /\ best \subseteq Solvables
      BY WeakCandidates
    <3>4. LocalsType(loc') /\ loc'.installedpos = loc.installedpos
      BY <1>4, <3>2, <3>3 DEF LocalsType
    <3>5. QED BY <1>1, <1>4, <3>1, <3>4 DEF LocalsTyped
  <2>3. CASE SupplementedBack
    <3>1. loc' = [loc EXCEPT !.i = loc.i + 1] /\ pc' # "recommended"
      BY <2>3 DEF SupplementedBack
    <3>2. LocalsType(loc') /\ loc'.installedpos = loc.installedpos
      BY <1>4, <3>1 DEF LocalsType
    <3>3. QED BY <1>1, <1>4, <3>1, <3>2 DEF LocalsTyped
  <2>4. CASE SupplementedDone
    <3>1. CASE Len(trail.q) < loc.decisioncount
      <4>1. loc' = loc /\ pc' = "top"
        BY <2>4, <3>1 DEF SupplementedDone
      <4>2. QED BY <1>1, <1>4, <4>1 DEF LocalsTyped
    <3>2. CASE ~(Len(trail.q) < loc.decisioncount)
      <4>1. loc' = [loc EXCEPT !.i = 1, !.pkg = 0]
        BY <2>4, <3>2 DEF SupplementedDone
      <4>2. /\ LocalsType(loc') /\ loc'.installedpos = loc.installedpos
            /\ loc'.decisioncount = loc.decisioncount /\ loc.decisioncount \in Nat
        BY <1>4, <4>1, SolvablesAssumption DEF LocalsType
      <4>3. loc'.decisioncount <= Len(trail.q)
        BY <1>4, <3>2, <4>2
      <4>4. QED BY <1>1, <1>4, <4>2, <4>3 DEF LocalsTyped
    <3>3. QED BY <3>1, <3>2
  <2>5. QED BY <2>1, <2>2, <2>3, <2>4
<1>6. QED BY <1>1, <1>3, <1>4, <1>5, MovesControl

\* The moves around recommendations and orphans.
LEMMA ExtraMovesControl ==
  ASSUME SearchInv, RecommendedBack \/ RecommendedDone \/ OrphansBack \/ OrphansDone
  PROVE  Phases' /\ Locals'
<1>1. /\ Moves /\ in' = in /\ UNCHANGED caller /\ UNCHANGED systemlevel /\ NInstalled' = NInstalled
      /\ UNCHANGED trail
  BY MovingSteps DEF RecommendedBack, RecommendedDone, OrphansBack, OrphansDone, mainVars, NInstalled
<1>2. /\ pc \in {"recommended.back", "recommended", "orphans.back", "droporphans.back", "orphans", "droporphans"}
      /\ pc' \in {"top", "recommended", "orphans", "droporphans", "branch"}
  BY DEF RecommendedBack, RecommendedDone, OrphansBack, OrphansDone
<1>3. pc \in Resting \cup UncheckedCallers /\ pc' \in Resting \cup {"top"} /\ pc # "hopeless"
      /\ pc' \notin {"installed", "keep", "decide"}
  BY <1>2 DEF Resting, Extras, UncheckedCallers
<1>4. /\ LocalsTyped /\ LocalsType(loc) /\ Propagated /\ Len(trail.q) \in Nat
  BY <1>3, RestFacts
<1>5. LocalsTyped' /\ (pc' = "recommended" => loc'.decisioncount <= Len(trail.q))
  <2>1. CASE RecommendedBack
    <3>1. /\ loc' = loc
          /\ pc' = IF level <= caller.olevel \/ Len(trail.q) < loc.decisioncount
                     THEN "top" ELSE "recommended"
      BY <2>1 DEF RecommendedBack
    <3>2. loc.decisioncount \in Nat
      BY <1>4 DEF LocalsType
    <3>3. QED BY <1>1, <1>4, <3>1, <3>2 DEF LocalsTyped
  <2>2. CASE RecommendedDone \/ OrphansBack
    <3>1. loc' = loc /\ pc' # "recommended"
      BY <2>2 DEF RecommendedDone, OrphansBack
    <3>2. QED BY <1>1, <1>4, <3>1 DEF LocalsTyped
  <2>3. CASE OrphansDone
    <3>1. loc' = [loc EXCEPT !.i = 1] /\ pc' # "recommended"
      BY <2>3 DEF OrphansDone
    <3>2. LocalsType(loc') /\ loc'.installedpos = loc.installedpos
      BY <1>4, <3>1 DEF LocalsType
    <3>3. QED BY <1>1, <1>4, <3>1, <3>2 DEF LocalsTyped
  <2>4. QED BY <2>1, <2>2, <2>3
<1>6. QED BY <1>1, <1>3, <1>4, <1>5, MovesControl

\* Starting again, and the end.
LEMMA EndMovesControl ==
  ASSUME SearchInv, BackToTop \/ Finish
  PROVE  Phases' /\ Locals'
<1>1. /\ Moves /\ in' = in /\ UNCHANGED caller /\ UNCHANGED systemlevel /\ NInstalled' = NInstalled
      /\ UNCHANGED loc
  BY MovingSteps DEF BackToTop, Finish, mainVars, NInstalled
<1>2. /\ pc \in {"weak.back", "branch.back", "branch"}
      /\ pc' \in {"top", "done"} /\ (pc = "branch" <=> pc' = "done")
  BY DEF BackToTop, Finish
<1>3. pc' \in Resting \cup {"top"} /\ pc # "hopeless" /\ (pc' \in Resting => pc \in Resting)
      /\ pc' \notin {"installed", "keep", "decide", "recommended"}
  BY <1>2 DEF Resting, Extras
<1>4. LocalsTyped /\ (pc' \in Resting => Propagated)
  BY <1>3, RestFacts
<1>5. LocalsTyped'
  BY <1>1, <1>4 DEF LocalsTyped
<1>6. QED BY <1>1, <1>3, <1>4, <1>5, MovesControl

\* A decision of the main loop goes where its caller remembers to go on.
LEMMA RunsLocals ==
  ASSUME pc' = "propagate", LocalsTyped',
         caller'.at \in {"update.back", "keep.back"} => Walking',
         caller'.at = "decide.back" => loc'.i \in 1..Len(rules')
  PROVE  Locals'
<1>1. pc' \notin {"installed", "keep", "decide", "recommended", "update.back", "keep.back", "decide.back"}
  OBVIOUS
<1>2. QED BY <1>1 DEF Locals, LocalsTyped, Walking, At

\* The head of the main loop leaves the local variables as they must be.
LEMMA TopLocals ==
  ASSUME SearchInv, Top
  PROVE  Locals'
<1>1. pc = "top" /\ loc' = loc /\ in' = in /\ ((pc' = "propagate" /\ caller'.at = "jobs") \/ pc' = "jobs")
  BY DEF Top
<1>2. LocalsTyped'
  BY <1>1, RestFacts DEF LocalsTyped, NInstalled
<1>3. CASE pc' = "propagate"
  BY <1>1, <1>2, <1>3, RunsLocals
<1>4. CASE pc' = "jobs"
  BY <1>2, <1>4 DEF Locals, LocalsTyped, At, Running
<1>5. QED BY <1>1, <1>3, <1>4

\* So do the decisions on jobs and open rules.
LEMMA SystemDecidesControl ==
  ASSUME SearchInv, ResolveJob \/ DecideRule
  PROVE  Phases' /\ Locals'
<1>1. Decides /\ systemlevel' = systemlevel /\ UNCHANGED <<in, rules>>
  BY ResolveJobDecides, DecideRuleDecides DEF ResolveJob, DecideRule, mainVars, ruleVars
<1>2. Phases' /\ pc' = "propagate"
  BY <1>1, DecidesPhases DEF Decides
<1>3. LocalsTyped /\ LocalsType(loc) /\ NInstalled' = NInstalled
  BY <1>1, RestFacts DEF NInstalled
<1>4. CASE ResolveJob
  <2>1. loc' = [loc EXCEPT !.i = Min(OpenJobs)] /\ caller'.at = "jobs.back"
    BY <1>4 DEF ResolveJob, SelectAndInstall, SetPropagateLearn
  <2>2. Min(OpenJobs) \in Nat \ {0}
    <3>1. OpenJobs \subseteq 1..Len(rules) /\ Len(rules) \in Nat
      BY RuleFacts DEF SearchInv, OpenJobs, RulesIn
    <3>2. OpenJobs # {} /\ OpenJobs \subseteq Nat
      BY <1>4, <3>1 DEF ResolveJob
    <3>3. Min(OpenJobs) \in OpenJobs
      BY <3>2, MinIsLeast
    <3>4. \A x \in 1..Len(rules) : x \in Nat \ {0}
      BY <3>1
    <3>5. Min(OpenJobs) \in 1..Len(rules)
      BY <3>1, <3>3
    <3>6. QED BY <3>4, <3>5
  <2> HIDE DEF OpenJobs
  <2>3. LocalsType(loc') /\ loc'.installedpos = loc.installedpos
    BY <1>3, <2>1, <2>2 DEF LocalsType
  <2>4. LocalsTyped'
    BY <1>3, <2>3 DEF LocalsTyped
  <2>5. QED BY <1>2, <2>1, <2>4, RunsLocals
<1>5. CASE DecideRule
  <2> DEFINE i == Rule(Min(StepsToOpen))
  <2>1. loc' = [loc EXCEPT !.i = i] /\ caller'.at = "decide.back"
    BY <1>5 DEF DecideRule, SelectAndInstall, SetPropagateLearn
  <2>2. i \in 1..Len(rules) /\ Len(rules) \in Nat
    BY <1>5, NextOpen, RuleFacts DEF DecideRule, SearchInv
  <2> HIDE DEF i
  <2>3. LocalsType(loc') /\ loc'.installedpos = loc.installedpos /\ loc'.i = i
    BY <1>3, <2>1, <2>2 DEF LocalsType
  <2>4. LocalsTyped'
    BY <1>3, <2>3 DEF LocalsTyped
  <2>5. QED BY <1>1, <1>2, <2>1, <2>2, <2>3, <2>4, RunsLocals
<1>6. QED BY <1>4, <1>5

\* The next installed package is one.
LEMMA AtNextTyped ==
  ASSUME SearchInv, pc = "installed", StepsToNext # {}, loc' = AtNextInstalled, in' = in
  PROVE  LocalsTyped' /\ Walking'
<1>1. /\ NInstalled \in Nat /\ AtNextInstalled.i \in 1..NInstalled /\ Min(StepsToNext) \in Nat
      /\ LocalsTyped /\ LocalsType(loc) /\ Walking /\ NInstalled' = NInstalled
  BY NextInstalled, LocalsFacts, RestFacts DEF NInstalled
<1>2. AtNextInstalled = [loc EXCEPT !.i = Place(Min(StepsToNext)), !.n = loc.n + Min(StepsToNext)]
  BY DEF AtNextInstalled
<1>3. AtNextInstalled.i = Place(Min(StepsToNext))
  BY DEF AtNextInstalled
<1>4. Place(Min(StepsToNext)) \in 1..NInstalled /\ Place(Min(StepsToNext)) \in Nat \ {0}
  BY <1>1, <1>3
<1>5. loc.n + Min(StepsToNext) \in Nat /\ loc.n + Min(StepsToNext) > 0
  BY <1>1 DEF Walking, LocalsType
<1> HIDE DEF AtNextInstalled
<1>6. /\ LocalsType(loc') /\ loc'.installedpos = loc.installedpos
      /\ loc'.i = Place(Min(StepsToNext)) /\ loc'.n = loc.n + Min(StepsToNext)
  BY <1>1, <1>2, <1>4, <1>5 DEF LocalsType
<1>7. QED BY <1>1, <1>4, <1>5, <1>6 DEF LocalsTyped, Walking

\* The decisions on installed packages.
LEMMA InstalledDecidesControl ==
  ASSUME SearchInv, UpdateInstalled \/ UpdateMultiversion \/ KeepWithoutUpdate \/ KeepAfterUpdate
  PROVE  Phases' /\ Locals'
<1>1. /\ Decides \/ (Moves /\ UpdateMultiversion)
      /\ systemlevel' = systemlevel /\ UNCHANGED <<in, rules>>
  BY UpdateInstalledDecides, UpdateMultiversionSteps, KeepSteps
     DEF UpdateInstalled, UpdateMultiversion, KeepWithoutUpdate, KeepAfterUpdate, KeepInstalled, mainVars, ruleVars
<1>2. LocalsTyped' /\ Walking'
  <2>1. CASE KeepAfterUpdate
    <3>1. pc = "keep" /\ loc' = loc
      BY <2>1 DEF KeepAfterUpdate, KeepInstalled
    <3>2. LocalsTyped /\ Walking /\ NInstalled' = NInstalled
      BY <1>1, <3>1, LocalsFacts DEF NInstalled
    <3>3. QED BY <3>1, <3>2 DEF LocalsTyped, Walking
  <2>2. CASE UpdateInstalled \/ UpdateMultiversion \/ KeepWithoutUpdate
    <3>1. pc = "installed" /\ StepsToNext # {} /\ loc' = AtNextInstalled
      BY <2>2 DEF UpdateInstalled, UpdateMultiversion, KeepWithoutUpdate, KeepInstalled
    <3>2. QED BY <1>1, <3>1, AtNextTyped
  <2>3. QED BY <2>1, <2>2
<1>3. CASE Decides
  <2>1. Phases' /\ pc' = "propagate"
    BY <1>1, <1>3, DecidesPhases DEF Decides
  <2>2. CASE UpdateMultiversion /\ pc' = "keep"
    BY <2>1, <2>2
  <2>3. CASE ~(UpdateMultiversion /\ pc' = "keep")
    <3>1. caller'.at \in {"update.back", "keep.back"}
      <4>1. CASE UpdateInstalled
        BY <4>1 DEF UpdateInstalled, SelectAndInstall, SetPropagateLearn
      <4>2. CASE UpdateMultiversion
        <5>1. \/ \E q, r : SelectAndInstall({q}, r, "update.back")
              \/ pc' = "keep"
          BY <4>2 DEF UpdateMultiversion
        <5>2. \E q, r : SelectAndInstall({q}, r, "update.back")
          BY <2>3, <4>2, <5>1
        <5>3. QED BY <5>2 DEF SelectAndInstall, SetPropagateLearn
      <4>3. CASE KeepWithoutUpdate \/ KeepAfterUpdate
        BY <4>3 DEF KeepWithoutUpdate, KeepAfterUpdate, KeepInstalled, SetPropagateLearn
      <4>4. QED BY <4>1, <4>2, <4>3
    <3>2. QED BY <1>2, <2>1, <3>1, RunsLocals
  <2>4. QED BY <2>2, <2>3
<1>4. CASE Moves /\ UpdateMultiversion /\ ~Decides
  <2>1. /\ pc = "installed"
        /\ \/ \E q, r : SelectAndInstall({q}, r, "update.back")
           \/ pc' = "keep" /\ UNCHANGED <<trail, branches, level, caller, visit>>
    <3>1. pc = "installed" /\ StepsToNext # {} /\ loc' = AtNextInstalled
      BY <1>4 DEF UpdateMultiversion
    <3>2. in.installed[loc'.i] \in Solvables
      BY <3>1, NextInstalled
    <3>3. QED BY <1>4, <3>1, <3>2 DEF UpdateMultiversion
  <2>2. pc' = "keep" /\ UNCHANGED caller
    <3>1. CASE \E q, r : SelectAndInstall({q}, r, "update.back")
      <4>1. pc' = "propagate" /\ level' = level + 1
        BY <3>1 DEF SelectAndInstall, SetPropagateLearn
      <4>2. level' = level /\ level \in Nat
        BY <1>4, RestFacts DEF Moves
      <4>3. QED BY <4>1, <4>2
    <3>2. QED BY <2>1, <3>1
  <2>3. pc \in Resting /\ pc' \in Resting /\ Propagated /\ pc # "hopeless"
    BY <2>1, <2>2, RestFacts DEF Resting
  <2>4. pc' \notin {"decide", "recommended"}
    BY <2>2
  <2>5. QED BY <1>1, <1>2, <1>4, <2>2, <2>3, <2>4, MovesControl
<1>5. QED BY <1>1, <1>3, <1>4

\* The decisions on weak dependencies and orphans.
LEMMA WeakDecidesControl ==
  ASSUME SearchInv, WeakSingle \/ InstallSupplemented \/ KeepOrphan \/ DropOrphan
  PROVE  Phases' /\ Locals'
<1>1. Decides /\ systemlevel' = systemlevel /\ UNCHANGED <<in, rules>>
  BY WeakDecides, OrphanDecides
     DEF WeakSingle, InstallSupplemented, KeepOrphan, DropOrphan, mainVars, ruleVars
<1>2. Phases' /\ pc' = "propagate"
  BY <1>1, DecidesPhases DEF Decides
<1>3. LocalsTyped /\ LocalsType(loc) /\ NInstalled' = NInstalled
  BY <1>1, RestFacts DEF NInstalled
<1>4. caller'.at \in {"weak.back", "supplemented.back", "orphans.back", "droporphans.back"}
  <2>1. CASE WeakSingle
    BY <2>1 DEF WeakSingle, InstallRecommended, SetPropagateLearn
  <2>2. CASE InstallSupplemented
    BY <2>2 DEF InstallSupplemented, InstallRecommended, SetPropagateLearn
  <2>3. CASE KeepOrphan
    BY <2>3 DEF KeepOrphan, SetPropagateLearn
  <2>4. CASE DropOrphan
    BY <2>4 DEF DropOrphan, SetPropagateLearn
  <2>5. QED BY <2>1, <2>2, <2>3, <2>4
<1>5. LocalsTyped'
  <2>1. CASE WeakSingle
    BY <1>3, <2>1 DEF WeakSingle, LocalsTyped
  <2>2. CASE InstallSupplemented
    <3> DEFINE k == Min(OpenSupplements)
    <3>1. loc' = [loc EXCEPT !.i = k] /\ OpenSupplements # {}
      BY <2>2 DEF InstallSupplemented
    <3>2. OpenSupplements \subseteq Solvables
      BY <1>3 DEF OpenSupplements, LocalsType
    <3>3. OpenSupplements \subseteq Nat
      BY <3>2 DEF Solvables
    <3>4. k \in Solvables
      BY <3>1, <3>2, <3>3, MinIsLeast
    <3> HIDE DEF k
    <3>5. k \in Nat \ {0}
      BY <3>4, SolvablesAssumption DEF Solvables
    <3>6. LocalsType(loc') /\ loc'.installedpos = loc.installedpos
      BY <1>3, <3>1, <3>5 DEF LocalsType
    <3>7. QED BY <1>3, <3>6 DEF LocalsTyped
  <2>3. CASE KeepOrphan \/ DropOrphan
    <3>1. PICK S \in SUBSET OpenOrphans :
             /\ S # {}
             /\ \/ loc' = [loc EXCEPT !.i = Min(S) + 1, !.installedone = TRUE]
                \/ loc' = [loc EXCEPT !.i = Min(S) + 1]
      <4>1. CASE KeepOrphan
        BY <4>1 DEF KeepOrphan, OrphansToKeep
      <4>2. CASE DropOrphan
        BY <4>2 DEF DropOrphan
      <4>3. QED BY <2>3, <4>1, <4>2
    <3>2. OpenOrphans \subseteq DOMAIN in.orphaned /\ DOMAIN in.orphaned \subseteq Nat
      BY UpdateFacts DEF OpenOrphans
    <3>3. S \subseteq Nat
      BY <3>2
    <3>4. Min(S) \in Nat
      BY <3>1, <3>3, MinIsLeast
    <3> DEFINE k == Min(S) + 1
    <3>5. k \in Nat \ {0}
      BY <3>4
    <3>6. loc' = [loc EXCEPT !.i = k, !.installedone = TRUE] \/ loc' = [loc EXCEPT !.i = k]
      BY <3>1
    <3> HIDE DEF k
    <3>7. LocalsType(loc') /\ loc'.installedpos = loc.installedpos
      <4>1. CASE loc' = [loc EXCEPT !.i = k, !.installedone = TRUE]
        BY <1>3, <3>5, <4>1 DEF LocalsType
      <4>2. CASE loc' = [loc EXCEPT !.i = k]
        BY <1>3, <3>5, <4>2 DEF LocalsType
      <4>3. QED BY <3>6, <4>1, <4>2
    <3>8. QED BY <1>3, <3>7 DEF LocalsTyped
  <2>4. QED BY <2>1, <2>2, <2>3
<1>6. caller'.at \notin {"update.back", "keep.back", "decide.back"}
  BY <1>4
<1>7. QED BY <1>2, <1>5, <1>6, RunsLocals

\* The decisions on recommendations.
LEMMA RecommendationsControl ==
  ASSUME SearchInv, InstallRecommendations
  PROVE  Phases' /\ Locals'
<1>1. Decides /\ systemlevel' = systemlevel /\ UNCHANGED <<in, rules>> /\ pc = "recommended"
  BY InstallRecommendationsDecides DEF InstallRecommendations, mainVars, ruleVars
<1>2. Phases' /\ pc' = "propagate"
  BY <1>1, DecidesPhases DEF Decides
<1>3. LocalsTyped /\ LocalsType(loc) /\ NInstalled' = NInstalled
  BY <1>1, RestFacts DEF NInstalled
<1>4. PICK p, from, next :
        /\ p \in Solvables /\ from \in Nat /\ next \in Nat \ {0}
        /\ OpenRecommends(p, from) # {}
        /\ RecommendedFrom(p, Min(OpenRecommends(p, from)), next)
  <2>1. CASE MoreOfPackage
    <3>1. RecommendedFrom(loc.pkg, Min(OpenRecommends(loc.pkg, loc.rec)), loc.i)
      BY <2>1 DEF InstallRecommendations
    <3>2. loc.pkg # 0 /\ OpenRecommends(loc.pkg, loc.rec) # {}
      BY <2>1 DEF MoreOfPackage
    <3>3. loc.pkg \in Solvables /\ loc.rec \in Nat /\ loc.i \in Nat \ {0}
      BY <1>3, <3>2, SolvablesAssumption DEF LocalsType, Solvables
    <3>4. QED BY <3>1, <3>2, <3>3
  <2>2. CASE ~MoreOfPackage
    <3> DEFINE k == Min(AskingDecisions)
    <3>1. AskingDecisions # {} /\ RecommendedFrom(trail.q[k], Min(OpenRecommends(trail.q[k], 1)), k + 1)
      BY <2>2 DEF InstallRecommendations
    <3>2. trail.q[k] \in Solvables /\ k \in Nat /\ OpenRecommends(trail.q[k], 1) # {}
      BY <1>1, <3>1, AskingFacts
    <3>3. k + 1 \in Nat \ {0} /\ 1 \in Nat
      BY <3>2
    <3>4. QED BY <3>1, <3>2, <3>3
  <2>3. QED BY <2>1, <2>2
<1> DEFINE k == Min(OpenRecommends(p, from))
<1>5. in.recommends[p] \in Seq(Seq(Solvables))
  BY <1>4, UpdateFacts
<1>6. OpenRecommends(p, from) \subseteq Nat /\ OpenRecommends(p, from) \subseteq DOMAIN in.recommends[p]
  BY <1>5 DEF OpenRecommends
<1>7. k \in Nat /\ k \in DOMAIN in.recommends[p]
  BY <1>4, <1>6, MinIsLeast
<1>8. ProvidersLeft(p, k) \in Seq(Solvables)
  BY <1>4, <1>7, ProviderFacts
<1>9. /\ loc' = [loc EXCEPT !.i = IF Len(ProvidersLeft(p, k)) > 1 THEN Len(ProvidersLeft(p, k)) + 2 ELSE next,
                            !.pkg = p, !.rec = k + 1]
      /\ caller'.at = "recommended.back"
  BY <1>4 DEF RecommendedFrom, InstallRecommended, SetPropagateLearn
<1> DEFINE i == IF Len(ProvidersLeft(p, k)) > 1 THEN Len(ProvidersLeft(p, k)) + 2 ELSE next
           r == k + 1
<1>10. i \in Nat \ {0} /\ r \in Nat /\ p \in 0..NSolvables
  BY <1>4, <1>7, <1>8, SolvablesAssumption DEF Solvables
<1>11. loc' = [loc EXCEPT !.i = i, !.pkg = p, !.rec = r]
  BY <1>9
<1> HIDE DEF i, r
<1>12. LocalsType(loc') /\ loc'.installedpos = loc.installedpos
  BY <1>3, <1>10, <1>11 DEF LocalsType
<1>13. LocalsTyped'
  BY <1>3, <1>12 DEF LocalsTyped
<1>14. QED BY <1>2, <1>9, <1>13, RunsLocals

\* The decisions on branches.
LEMMA BranchControl ==
  ASSUME SearchInv, TryAlternative \/ Minimize
  PROVE  Phases' /\ Locals'
<1>1. GoesBack /\ systemlevel' = systemlevel /\ UNCHANGED <<in, rules, loc>>
  BY TryGoesBack, MinimizeGoesBack DEF TryAlternative, Minimize, TakeBranch, ruleVars
<1>2. Phases' /\ pc' = "propagate" /\ caller'.at = "branch.back"
  BY <1>1, GoesBackPhases DEF GoesBack
<1>3. LocalsTyped /\ NInstalled' = NInstalled
  BY <1>1, RestFacts DEF NInstalled
<1>4. LocalsTyped'
  BY <1>1, <1>3 DEF LocalsTyped
<1>5. QED BY <1>2, <1>4, RunsLocals

\* Whatever the main loop does, the next place fits the local variables.
LEMMA MainControl ==
  ASSUME SearchInv, SystemStep \/ ExtraStep
  PROVE  Phases' /\ Locals'
<1>1. CASE Top
  BY <1>1, TopPhases, TopLocals
<1>2. CASE EnterSystem \/ JobResolved \/ JobsDone
  BY <1>2, JobMovesControl
<1>3. CASE KeepNothing \/ InstalledBack \/ InstalledDone
  BY <1>3, InstalledMovesControl
<1>4. CASE DecideBack \/ DecideDone
  BY <1>4, DecideMovesControl
<1>5. CASE WeakNothing \/ WeakSelect \/ SupplementedBack \/ SupplementedDone
  BY <1>5, WeakMovesControl
<1>6. CASE RecommendedBack \/ RecommendedDone \/ OrphansBack \/ OrphansDone
  BY <1>6, ExtraMovesControl
<1>7. CASE BackToTop \/ Finish
  BY <1>7, EndMovesControl
<1>8. CASE ResolveJob \/ DecideRule
  BY <1>8, SystemDecidesControl
<1>9. CASE UpdateInstalled \/ UpdateMultiversion \/ KeepWithoutUpdate \/ KeepAfterUpdate
  BY <1>9, InstalledDecidesControl
<1>10. CASE WeakSingle \/ InstallSupplemented \/ KeepOrphan \/ DropOrphan
  BY <1>10, WeakDecidesControl
<1>11. CASE InstallRecommendations
  BY <1>11, RecommendationsControl
<1>12. CASE TryAlternative \/ Minimize
  BY <1>12, BranchControl
<1>13. QED BY <1>1, <1>2, <1>3, <1>4, <1>5, <1>6, <1>7, <1>8, <1>9, <1>10, <1>11, <1>12
              DEF SystemStep, ExtraStep

----------------------------------------------------------------------------
(* What a step leaves alone.                                               *)

\* The parts of the invariant about the rules and problems.
Standing == RulesTyped /\ WatchesWhole /\ ProofsEntail /\ Problems

\* What holds of rules, watches, proofs and problems stays as long as they do.
LEMMA StandingStays ==
  ASSUME Standing, UNCHANGED <<in, ruleVars, disabled, problems>>
  PROVE  Standing'
<1>1. /\ in' = in /\ rules' = rules /\ w' = w /\ watches' = watches
      /\ disabled' = disabled /\ problems' = problems
  BY DEF ruleVars
<1>2. RulesTyped'
  BY <1>1 DEF Standing, RulesTyped, RulesGrow
<1>3. WatchesWhole'
  BY <1>1 DEF Standing, WatchesWhole, Lits, Watching
<1>4. ProofsEntail'
  BY <1>1 DEF Standing, ProofsEntail
<1>5. Problems'
  BY <1>1 DEF Standing, Problems
<1>6. QED BY <1>2, <1>3, <1>4, <1>5 DEF Standing

\* The parts about an analysis that is not running.
LEMMA NotAnalysing ==
  ASSUME pc' # "analyze"
  PROVE  Analysis' /\ DerivedFollows' /\ UsesRulesInForce'
BY DEF Analysis, DerivedFollows, UsesRulesInForce

\* A move changes nothing that the invariant speaks of.
LEMMA MovesKeep ==
  ASSUME SearchInv, Moves
  PROVE  /\ Standing' /\ TrailInv' /\ Branches' /\ Recommendations' /\ WatchesGuard'
         /\ Analysis' /\ DerivedFollows' /\ UsesRulesInForce'
<1>1. /\ in' = in /\ rules' = rules /\ w' = w /\ watches' = watches
      /\ disabled' = disabled /\ problems' = problems /\ trail' = trail
      /\ propagate_index' = propagate_index /\ branches' = branches
      /\ recommendations' = recommendations /\ level' = level /\ visit' = visit
      /\ pc' \notin {"assert", "assertweak", "analyze"}
  BY DEF Moves, ruleVars, searchVars
<1>2. Standing'
  BY <1>1, StandingStays DEF SearchInv, Standing, ruleVars
<1>3. TrailInv'
  BY <1>1 DEF SearchInv, TrailInv, ReasonsInForce, LevelAt, Enabled
<1>4. Branches'
  BY <1>1 DEF SearchInv, Branches, Undecided, LevelOf
<1>5. Recommendations'
  BY <1>1 DEF SearchInv, Recommendations, RecommendationsOnTrail
<1>6. WatchesGuard'
  BY <1>1 DEF SearchInv, WatchesGuard, Noticed, EnabledRules, LevelOf
<1>7. QED BY <1>1, <1>2, <1>3, <1>4, <1>5, <1>6, NotAnalysing

----------------------------------------------------------------------------
(* The trail grows by a decision.                                          *)

\* A literal decided for a rule in force keeps the trail.
LEMMA TrailGrows ==
  ASSUME SearchInv, UNCHANGED <<ruleVars, disabled>>, NEW l, NEW reason, NEW lev,
         GrewBy(trail', trail, rules, l, reason, lev),
         reason > 0 => IF IsAssertion(rules[reason]) THEN lev = 1 ELSE Enabled(reason),
         level' = lev
  PROVE  TrailInv'
<1>1. TrailWhole(trail', rules', NSolvables) /\ level' = TopLevel(trail')
  BY DEF GrewBy, ruleVars
<1>2. /\ Len(trail.q) \in Nat /\ DOMAIN trail.q = 1..Len(trail.q)
      /\ DOMAIN trail'.q = 1..(Len(trail.q) + 1)
      /\ rules' = rules /\ disabled' = disabled
  BY SearchFacts, DecisionFacts DEF GrewBy, ruleVars
<1>3. ASSUME NEW k \in DOMAIN trail'.q, trail'.why[k] > 0
      PROVE  IF IsAssertion(rules[trail'.why[k]]) THEN LevelIn(trail', k) = 1 ELSE Enabled(trail'.why[k])
  <2>1. CASE k = Len(trail.q) + 1
    BY <1>3, <2>1 DEF GrewBy
  <2>2. CASE k \in 1..Len(trail.q)
    <3>1. trail'.why[k] = trail.why[k] /\ LevelIn(trail', k) = LevelIn(trail, k)
      BY <2>2 DEF GrewBy
    <3>2. QED BY <1>2, <1>3, <2>2, <3>1 DEF SearchInv, TrailInv, ReasonsInForce, LevelAt
  <2>3. QED BY <1>2, <2>1, <2>2
<1>4. QED BY <1>1, <1>2, <1>3 DEF TrailInv, ReasonsInForce, LevelAt, Enabled

\* A rule that was noticed is still well watched.
LEMMA GuardGrows ==
  ASSUME SearchInv, NEW t, NEW u, NEW rs, NEW l, NEW reason, NEW lev,
         t.map \in [Solvables -> Int], GrewBy(u, t, rs, l, reason, lev),
         NEW x \in Literals(Solvables), NEW y \in Literals(Solvables),
         IsFalse(t.map, x), IsTrue(t.map, y),
         Level(t.map[Var(y)]) <= Level(t.map[Var(x)])
  PROVE  IsTrue(u.map, y) /\ Level(u.map[Var(y)]) <= Level(u.map[Var(x)])
<1>1. u.map[Var(x)] = t.map[Var(x)] /\ u.map[Var(y)] = t.map[Var(y)] /\ IsTrue(u.map, y)
  BY DEF GrewBy
<1>2. QED BY <1>1

\* Watches are literals.
LEMMA WatchFacts ==
  ASSUME SearchInv, NEW i \in DOMAIN rules, ~IsAssertion(rules[i]), NEW a \in {1, 2}
  PROVE  /\ w[i][a] \in Lits(i) /\ w[i][a] \in Literals(Solvables)
         /\ w[i][3 - a] \in Lits(i) /\ w[i][3 - a] \in Literals(Solvables)
         /\ 3 - a \in {1, 2} /\ w[i][a] # w[i][3 - a] /\ 3 - (3 - a) = a
<1>1. w[i][1] \in Lits(i) /\ w[i][2] \in Lits(i) /\ w[i][1] # w[i][2]
  BY DEF SearchInv, WatchesWhole
<1>2. Lits(i) \subseteq Literals(Solvables)
  BY RuleFacts DEF SearchInv
<1>3. CASE a = 1
  BY <1>1, <1>2, <1>3
<1>4. CASE a = 2
  BY <1>1, <1>2, <1>4
<1>5. QED BY <1>3, <1>4

\* The alternatives of the branches that stay open stay open.
LEMMA BranchesGrow ==
  ASSUME NEW t, NEW u, NEW rs, NEW l \in Literals(Solvables), NEW reason, NEW lev,
         t.map \in [Solvables -> Int], GrewBy(u, t, rs, l, reason, lev),
         NEW p \in Solvables, NEW g \in Nat, g < lev,
         t.map[p] = 0 \/ Level(t.map[p]) > g
  PROVE  u.map[p] = 0 \/ Level(u.map[p]) > g
<1>1. p \in Literals(Solvables) /\ Var(p) = p
  BY SolvablesAssumption DEF Literals, Var, Solvables
<1>2. CASE ~IsUndef(t.map, p)
  BY <1>1, <1>2 DEF GrewBy, IsUndef
<1>3. CASE IsUndef(t.map, p) /\ IsUndef(u.map, p)
  BY <1>1, <1>3 DEF IsUndef
<1>4. CASE IsUndef(t.map, p) /\ ~IsUndef(u.map, p)
  <2>1. u.map \in [Solvables -> Int]
    BY DEF GrewBy, TrailWhole, TrailType, Solvables
  <2>2. IsTrue(u.map, p) \/ IsFalse(u.map, p)
    BY <1>1, <1>4, <2>1, MapFacts
  <2>3. ~IsTrue(t.map, p) /\ ~IsFalse(t.map, p)
    BY <1>1, <1>4, MapFacts
  <2>4. p = l \/ p = -l
    BY <1>1, <2>2, <2>3 DEF GrewBy
  <2>5. Var(l) = p
    <3>1. p \in Int /\ p > 0 /\ l \in Int
      BY <1>1, MapFacts, SolvablesAssumption DEF Solvables
    <3>2. QED BY <2>4, <3>1 DEF Var
  <2>6. QED BY <2>5 DEF GrewBy
<1>5. QED BY <1>2, <1>3, <1>4

----------------------------------------------------------------------------
(* Branches, when the trail changes.                                       *)

\* Branches brs are open on a trail with decision map map, below level lev.
BranchesAt(brs, map, lev) ==
  /\ brs \in Seq(BranchType)
  /\ \A b \in DOMAIN brs :
       /\ brs[b].level < lev
       /\ \A p \in Range(brs[b].alts) : map[p] = 0 \/ Level(map[p]) > brs[b].level
  /\ \A a, b \in DOMAIN brs : a < b => brs[a].level < brs[b].level

\* The invariant on branches, with its three variables as parameters.
LEMMA BranchesAre == Branches <=> BranchesAt(branches, trail.map, level)
<1>1. \A p \in Solvables : Var(p) = p
  BY SolvablesAssumption DEF Solvables, Var
<1>2. ASSUME branches \in Seq(BranchType), NEW b \in DOMAIN branches, NEW p \in Range(branches[b].alts)
      PROVE  p \in Solvables
  <2>1. branches[b] \in BranchType
    BY <1>2
  <2>2. branches[b].alts \in Seq(Solvables)
    BY <2>1 DEF BranchType
  <2>3. QED BY <1>2, <2>2, RangeFacts
<1>3. QED BY <1>1, <1>2 DEF Branches, BranchesAt, Undecided, LevelOf

\* Branches have alternatives and a level.
LEMMA BranchesTyped ==
  ASSUME NEW brs, NEW map, NEW lev, BranchesAt(brs, map, lev)
  PROVE  /\ Len(brs) \in Nat /\ DOMAIN brs = 1..Len(brs)
         /\ \A b \in 1..Len(brs) :
              /\ brs[b] \in BranchType /\ brs[b].level \in Nat /\ brs[b].level > 0
              /\ brs[b].alts \in Seq(Solvables) /\ Range(brs[b].alts) \subseteq Solvables
<1>1. brs \in Seq(BranchType)
  BY DEF BranchesAt
<1>2. Len(brs) \in Nat /\ DOMAIN brs = 1..Len(brs)
  BY <1>1
<1>3. ASSUME NEW b \in 1..Len(brs)
      PROVE  /\ brs[b] \in BranchType /\ brs[b].level \in Nat /\ brs[b].level > 0
             /\ brs[b].alts \in Seq(Solvables) /\ Range(brs[b].alts) \subseteq Solvables
  <2>1. brs[b] \in BranchType
    BY <1>1, <1>2
  <2>2. brs[b].level \in Nat /\ brs[b].level > 0 /\ brs[b].alts \in Seq(Solvables)
    BY <2>1 DEF BranchType
  <2>3. QED BY <2>1, <2>2, RangeFacts
<1>4. QED BY <1>2, <1>3

\* Opening a branch at the current level.
LEMMA BranchesOpened ==
  ASSUME NEW brs, NEW map, NEW lev \in Nat, lev > 0, BranchesAt(brs, map, lev),
         NEW alts \in Seq(Solvables), alts # <<>>,
         \A p \in Range(alts) : map[p] = 0 \/ Level(map[p]) > lev
  PROVE  BranchesAt(Append(brs, [alts |-> alts, level |-> lev]), map, lev + 1)
<1> DEFINE new == [alts |-> alts, level |-> lev]
           m == Len(brs)
           s == Append(brs, new)
<1>1. /\ m \in Nat /\ DOMAIN brs = 1..m
      /\ \A b \in 1..m : brs[b].level \in Nat
  BY BranchesTyped
<1>2. new \in BranchType
  BY DEF BranchType
<1>3. brs \in Seq(BranchType)
  BY DEF BranchesAt
<1> HIDE DEF new
<1>4. s \in Seq(BranchType) /\ Len(s) = m + 1
  BY <1>2, <1>3
<1>5. DOMAIN s = 1..(m + 1) /\ s[m + 1] = new /\ \A b \in 1..m : s[b] = brs[b]
  BY <1>1, <1>2, <1>3, <1>4
<1> HIDE DEF s
<1>6. new.level = lev /\ new.alts = alts
  BY DEF new
<1>7. \A b \in 1..m : /\ brs[b].level < lev
                      /\ \A p \in Range(brs[b].alts) : map[p] = 0 \/ Level(map[p]) > brs[b].level
  BY <1>1 DEF BranchesAt
<1>8. ASSUME NEW b \in 1..(m + 1)
      PROVE  /\ s[b].level < lev + 1
             /\ \A p \in Range(s[b].alts) : map[p] = 0 \/ Level(map[p]) > s[b].level
  <2>1. CASE b = m + 1
    BY <1>5, <1>6, <2>1
  <2>2. CASE b \in 1..m
    <3>1. s[b] = brs[b] /\ brs[b].level < lev /\ brs[b].level \in Nat
      BY <1>1, <1>5, <1>7, <2>2
    <3>2. \A p \in Range(s[b].alts) : map[p] = 0 \/ Level(map[p]) > s[b].level
      BY <1>7, <2>2, <3>1
    <3>3. QED BY <3>1, <3>2
  <2>3. QED BY <1>1, <2>1, <2>2
<1>9. ASSUME NEW a \in 1..(m + 1), NEW b \in 1..(m + 1), a < b PROVE s[a].level < s[b].level
  <2>1. a \in 1..m /\ s[a] = brs[a]
    BY <1>1, <1>5, <1>9
  <2>2. CASE b = m + 1
    BY <1>5, <1>6, <1>7, <2>1, <2>2
  <2>3. CASE b \in 1..m
    BY <1>1, <1>5, <1>9, <2>1, <2>3 DEF BranchesAt
  <2>4. QED BY <1>1, <2>2, <2>3
<1>10. QED BY <1>4, <1>5, <1>8, <1>9 DEF BranchesAt, s, new

\* Branches stay good when the trail grows.
LEMMA BranchesStay ==
  ASSUME NEW brs, NEW t, NEW u, NEW rs, NEW l \in Literals(Solvables), NEW reason, NEW lev \in Nat,
         t.map \in [Solvables -> Int], GrewBy(u, t, rs, l, reason, lev),
         BranchesAt(brs, t.map, lev)
  PROVE  BranchesAt(brs, u.map, lev)
<1>1. ASSUME NEW b \in DOMAIN brs, NEW p \in Range(brs[b].alts)
      PROVE  u.map[p] = 0 \/ Level(u.map[p]) > brs[b].level
  <2>1. brs[b].level \in Nat /\ brs[b].level < lev /\ p \in Solvables
    BY <1>1, BranchesTyped DEF BranchesAt
  <2>2. t.map[p] = 0 \/ Level(t.map[p]) > brs[b].level
    BY <1>1 DEF BranchesAt
  <2>3. QED BY <2>1, <2>2, BranchesGrow
<1>2. QED BY <1>1 DEF BranchesAt

\* Those below level g stay good when the trail shrinks to it.
LEMMA BranchesCut ==
  ASSUME NEW brs, NEW t, NEW c, NEW lev \in Nat, NEW g \in Nat, NEW k, t.map \in [Solvables -> Int],
         ShrankTo(c, t, rules, g, k), BranchesAt(brs, t.map, lev),
         NEW n \in 0..Len(brs), \A b \in 1..n : brs[b].level < g
  PROVE  BranchesAt(SubSeq(brs, 1, n), c.map, g)
<1> DEFINE s == SubSeq(brs, 1, n)
<1>1. /\ Len(brs) \in Nat /\ DOMAIN brs = 1..Len(brs) /\ brs \in Seq(BranchType)
      /\ \A b \in 1..Len(brs) : brs[b].level \in Nat /\ Range(brs[b].alts) \subseteq Solvables
  BY BranchesTyped DEF BranchesAt
<1>2. n \in Nat /\ 1..n \subseteq 1..Len(brs)
  BY <1>1
<1>3. s \in Seq(BranchType) /\ DOMAIN s = 1..n /\ \A b \in 1..n : s[b] = brs[b]
  BY <1>1, <1>2
<1> HIDE DEF s
<1>4. ASSUME NEW b \in 1..n, NEW p \in Range(brs[b].alts)
      PROVE  c.map[p] = 0 \/ Level(c.map[p]) > brs[b].level
  <2>0. p \in Solvables
    BY <1>1, <1>2, <1>4
  <2>1. p \in Literals(Solvables) /\ Var(p) = p
    BY <2>0, SolvablesAssumption DEF Literals, Var, Solvables
  <2>2. t.map[p] = 0 \/ Level(t.map[p]) > brs[b].level
    BY <1>1, <1>2, <1>4 DEF BranchesAt
  <2>3. c.map[p] = IF Level(t.map[p]) <= g THEN t.map[p] ELSE 0
    BY <2>1 DEF ShrankTo
  <2>4. QED BY <2>2, <2>3
<1>5. BranchesAt(s, c.map, g)
  <2>1. \A b \in DOMAIN s :
          /\ s[b].level < g
          /\ \A p \in Range(s[b].alts) : c.map[p] = 0 \/ Level(c.map[p]) > s[b].level
    BY <1>3, <1>4
  <2>2. \A a, b \in DOMAIN s : a < b => s[a].level < s[b].level
    <3>1. \A a, b \in 1..n : a < b => brs[a].level < brs[b].level
      BY <1>1, <1>2 DEF BranchesAt
    <3>2. QED BY <1>3, <3>1
  <2>3. QED BY <1>3, <2>1, <2>2 DEF BranchesAt
<1>6. QED BY <1>5 DEF s

----------------------------------------------------------------------------
(* Recommendations, when the trail changes.                                *)

\* f finds the recommendations recs in the queue q, in their order.
Placing(f, recs, q) ==
  /\ f \in [DOMAIN recs -> DOMAIN q]
  /\ \A j \in DOMAIN recs : q[f[j]] = recs[j]
  /\ \A j, k \in DOMAIN recs : j < k => f[j] < f[k]

\* The recommendations recs are in the queue q.
RecommendedAt(recs, q) == recs \in Seq(Solvables) /\ \E f : Placing(f, recs, q)

\* The invariant on recommendations, stated by them.
RecommendationsPlaced ==
  /\ RecommendedAt(recommendations, trail.q)
  /\ pc \in {"assert", "assertweak"} => recommendations = <<>>

\* It is the same.
LEMMA RecommendationsAre == Recommendations <=> RecommendationsPlaced
BY DEF Recommendations, RecommendedAt, RecommendationsOnTrail, Placing, RecommendationsPlaced

\* Recommendations stay in a queue that grows.
LEMMA RecommendedStay ==
  ASSUME NEW recs, NEW q, NEW u, DOMAIN q \subseteq DOMAIN u, \A k \in DOMAIN q : u[k] = q[k],
         RecommendedAt(recs, q)
  PROVE  RecommendedAt(recs, u)
<1>1. PICK f : Placing(f, recs, q)
  BY DEF RecommendedAt
<1>2. f \in [DOMAIN recs -> DOMAIN u] /\ \A j \in DOMAIN recs : f[j] \in DOMAIN q
  BY <1>1 DEF Placing
<1>3. Placing(f, recs, u)
  BY <1>1, <1>2 DEF Placing
<1>4. QED BY <1>3 DEF RecommendedAt

\* One more is in the queue when it is decided as well.
LEMMA RecommendedAdded ==
  ASSUME NEW recs, NEW q, NEW u, NEW n \in Nat, DOMAIN q = 1..n, DOMAIN u = 1..(n + 1),
         \A k \in 1..n : u[k] = q[k], RecommendedAt(recs, q),
         NEW p \in Solvables, u[n + 1] = p
  PROVE  RecommendedAt(Append(recs, p), u)
<1> DEFINE m == Len(recs)
           s == Append(recs, p)
<1>1. PICK f : Placing(f, recs, q)
  BY DEF RecommendedAt
<1>2. recs \in Seq(Solvables) /\ m \in Nat /\ DOMAIN recs = 1..m
  BY DEF RecommendedAt
<1>3. s \in Seq(Solvables) /\ DOMAIN s = 1..(m + 1) /\ s[m + 1] = p /\ \A j \in 1..m : s[j] = recs[j]
  BY <1>2
<1> HIDE DEF s
<1> DEFINE g == [j \in 1..(m + 1) |-> IF j = m + 1 THEN n + 1 ELSE f[j]]
<1>4. /\ \A j \in 1..m : f[j] \in 1..n /\ q[f[j]] = recs[j]
      /\ \A j, k \in 1..m : j < k => f[j] < f[k]
  BY <1>1, <1>2 DEF Placing
<1>5. /\ g[m + 1] = n + 1 /\ \A j \in 1..m : g[j] = f[j] /\ j # m + 1
  BY <1>2
<1>51. DOMAIN g = 1..(m + 1)
  OBVIOUS
<1>52. g = [j \in 1..(m + 1) |-> g[j]]
  OBVIOUS
<1> HIDE DEF g
<1>6. \A j \in 1..(m + 1) : j = m + 1 \/ j \in 1..m
  BY <1>2
<1>7. \A j \in 1..(m + 1) : g[j] \in 1..(n + 1) /\ u[g[j]] = s[j]
  <2>1. SUFFICES ASSUME NEW j \in 1..(m + 1) PROVE g[j] \in 1..(n + 1) /\ u[g[j]] = s[j]
    OBVIOUS
  <2>2. CASE j = m + 1
    BY <1>3, <1>5, <2>2
  <2>3. CASE j \in 1..m
    <3>1. g[j] = f[j] /\ f[j] \in 1..n
      BY <1>4, <1>5, <2>3
    <3>2. u[f[j]] = q[f[j]] /\ q[f[j]] = recs[j] /\ recs[j] = s[j]
      BY <1>3, <1>4, <2>3, <3>1
    <3>3. QED BY <3>1, <3>2
  <2>4. QED BY <1>6, <2>2, <2>3
<1>8. ASSUME NEW j \in 1..(m + 1), NEW k \in 1..(m + 1), j < k PROVE g[j] < g[k]
  <2>1. j \in 1..m /\ g[j] = f[j] /\ f[j] \in 1..n
    BY <1>2, <1>4, <1>5, <1>8
  <2>2. CASE k = m + 1
    BY <1>5, <2>1, <2>2
  <2>3. CASE k \in 1..m
    BY <1>4, <1>5, <1>8, <2>1, <2>3
  <2>4. QED BY <1>6, <2>2, <2>3
<1>9. Placing(g, s, u)
  BY <1>3, <1>52, <1>7, <1>8 DEF Placing
<1>10. QED BY <1>3, <1>9 DEF RecommendedAt, s

\* What revert counts as the recommendations left, decision by decision.
Pops(left, n, k, m, recs, q) ==
  /\ left[0] = m
  /\ \A j \in 1..(n - k) :
       left[j] = IF left[j - 1] > 0 /\ recs[left[j - 1]] = q[n - j + 1]
                   THEN left[j - 1] - 1 ELSE left[j - 1]

\* The loop of revert over the recommendations.
LEMMA RecommendationsPop ==
  ASSUME NEW k \in Nat, Len(trail.q) \in Nat, k <= Len(trail.q), Len(recommendations) \in Nat
  PROVE  \E left : /\ Pops(left, Len(trail.q), k, Len(recommendations), recommendations, trail.q)
                   /\ RecommendationsKept(k) = left[Len(trail.q) - k]
<1> DEFINE n == Len(trail.q)
           N == n - k
           m == Len(recommendations)
           Popped(j, x) == IF x > 0 /\ recommendations[x] = trail.q[n - j + 1] THEN x - 1 ELSE x
           step == [x \in (1..N) \X Int |-> Popped(x[1], x[2])]
           Rec(g) == g = [j \in 0..N |-> IF j = 0 THEN m
                            ELSE IF g[j - 1] > 0 /\ recommendations[g[j - 1]] = trail.q[n - j + 1]
                                   THEN g[j - 1] - 1 ELSE g[j - 1]]
<1>1. N \in Nat /\ m \in Int
  OBVIOUS
<1>2. step \in [(1..N) \X Int -> Int]
  <2>1. ASSUME NEW j \in 1..N, NEW x \in Int PROVE Popped(j, x) \in Int
    OBVIOUS
  <2>2. QED BY <2>1
<1>3. ASSUME NEW j \in 1..N, NEW x \in Int PROVE step[<<j, x>>] = Popped(j, x)
  OBVIOUS
<1> HIDE DEF step, N, m
<1>4. PICK f : Built(f, N, Int, m, step)
  BY <1>1, <1>2, Iterates
<1>5. f \in [0..N -> Int] /\ f[0] = m /\ \A j \in 1..N : f[j] = Popped(j, f[j - 1])
  <2>1. f \in [0..N -> Int] /\ f[0] = m /\ \A j \in 1..N : f[j] = step[<<j, f[j - 1]>>]
    BY <1>4 DEF Built
  <2>2. \A j \in 1..N : f[j - 1] \in Int
    BY <1>1, <2>1
  <2>3. \A j \in 1..N : step[<<j, f[j - 1]>>] = Popped(j, f[j - 1])
    BY <1>3, <2>2
  <2>4. QED BY <2>1, <2>3
<1>6. Rec(f)
  <2> DEFINE rhs == [j \in 0..N |-> IF j = 0 THEN m
                            ELSE IF f[j - 1] > 0 /\ recommendations[f[j - 1]] = trail.q[n - j + 1]
                                   THEN f[j - 1] - 1 ELSE f[j - 1]]
  <2>1. ASSUME NEW j \in 0..N PROVE f[j] = rhs[j]
    <3>1. CASE j = 0
      BY <1>5, <3>1
    <3>2. CASE j # 0
      <4>1. j \in 1..N
        BY <1>1, <3>2
      <4>2. QED BY <1>5, <3>2, <4>1
    <3>3. QED BY <3>1, <3>2
  <2>2. f = [j \in 0..N |-> f[j]] /\ rhs = [j \in 0..N |-> rhs[j]]
    BY <1>5
  <2> HIDE DEF rhs
  <2>3. f = rhs
    BY <2>1, <2>2
  <2>4. QED BY <2>3 DEF rhs
<1> DEFINE o == CHOOSE g : Rec(g)
<1>7. Rec(o) /\ RecommendationsKept(k) = o[N]
  <2>1. RecommendationsKept(k) = o[N]
    BY DEF RecommendationsKept, N, m
  <2> HIDE DEF Rec
  <2>2. QED BY <1>6, <2>1
<1> HIDE DEF o
<1>8. Pops(o, n, k, m, recommendations, trail.q)
  <2>1. \A j \in 0..N : o[j] = IF j = 0 THEN m
                            ELSE IF o[j - 1] > 0 /\ recommendations[o[j - 1]] = trail.q[n - j + 1]
                                   THEN o[j - 1] - 1 ELSE o[j - 1]
    BY <1>7
  <2>2. 0 \in 0..N /\ \A j \in 1..N : j \in 0..N /\ j # 0
    BY <1>1
  <2>3. QED BY <2>1, <2>2 DEF Pops, N
<1>9. QED BY <1>7, <1>8 DEF N, m

\* What revert pops from the recommendations is what it pops from the queue.
LEMMA RecommendedPopped ==
  ASSUME SearchInv, NEW k \in 0..Len(trail.q), NEW q, DOMAIN q = 1..k,
         \A j \in 1..k : q[j] = trail.q[j]
  PROVE  RecommendedAt(SubSeq(recommendations, 1, RecommendationsKept(k)), q)
<1> DEFINE n == Len(trail.q)
           recs == recommendations
           m == Len(recs)
<1>1. n \in Nat /\ DOMAIN trail.q = 1..n /\ n - k \in Nat /\ k \in Nat
  <2>1. TrailWhole(trail, rules, NSolvables)
    BY SearchFacts
  <2>2. n \in Nat /\ DOMAIN trail.q = 1..n
    BY <2>1, DecisionFacts, SolvablesAssumption
  <2>3. QED BY <2>2
<1>2. RecommendedAt(recs, trail.q)
  BY RecommendationsAre DEF SearchInv, RecommendationsPlaced
<1>3. recs \in Seq(Solvables) /\ m \in Nat /\ DOMAIN recs = 1..m
  BY <1>2 DEF RecommendedAt
<1>4. PICK f : Placing(f, recs, trail.q)
  BY <1>2 DEF RecommendedAt
<1>5. /\ \A j \in 1..m : f[j] \in 1..n /\ trail.q[f[j]] = recs[j]
      /\ \A i, j \in 1..m : i < j => f[i] < f[j]
  BY <1>1, <1>3, <1>4 DEF Placing
<1>6. PICK left : /\ Pops(left, n, k, m, recs, trail.q)
                  /\ RecommendationsKept(k) = left[n - k]
  BY <1>1, <1>3, RecommendationsPop
<1> DEFINE N == n - k
           Right(j) == left[j] \in 0..m /\ \A r \in 1..left[j] : f[r] <= n - j
           P == {j \in 0..N : Right(j)}
<1>7. left[0] = m /\ \A j \in 1..N : left[j] = IF left[j - 1] > 0 /\ recs[left[j - 1]] = trail.q[n - j + 1]
                                                  THEN left[j - 1] - 1 ELSE left[j - 1]
  BY <1>6 DEF Pops
<1> HIDE DEF n, m, recs
<1>8. N \in Nat
  BY <1>1
<1>9. 0 \in P
  <2>1. \A r \in 1..m : f[r] <= n - 0
    BY <1>1, <1>5
  <2>2. left[0] \in 0..m
    BY <1>3, <1>7
  <2>3. QED BY <1>7, <1>8, <2>1, <2>2
<1>10. ASSUME NEW j \in 1..N, j - 1 \in P PROVE j \in P
  <2>1. j \in Nat /\ j \in 0..N
    BY <1>1
  <2>2. left[j - 1] \in 0..m /\ \A r \in 1..left[j - 1] : f[r] <= n - (j - 1)
    BY <1>10
  <2> DEFINE L == left[j - 1]
  <2> HIDE DEF L, N
  <2>3. L \in 0..m /\ \A r \in 1..L : f[r] <= n - (j - 1)
    BY <2>2 DEF L
  <2>4. CASE L > 0 /\ recs[L] = trail.q[n - j + 1]
    <3>1. left[j] = L - 1
      BY <1>7, <2>4 DEF L
    <3>2. ASSUME NEW r \in 1..(L - 1) PROVE f[r] <= n - j
      <4>1. r \in 1..m /\ L \in 1..m /\ r < L /\ L \in 1..L
        BY <1>3, <2>3, <2>4
      <4>2. f[r] < f[L] /\ f[L] <= n - (j - 1) /\ f[r] \in 1..n /\ f[L] \in 1..n
        BY <1>5, <2>3, <4>1
      <4>3. QED BY <1>1, <2>1, <4>2
    <3>3. L - 1 \in 0..m
      BY <1>3, <2>3, <2>4
    <3>4. QED BY <2>1, <3>1, <3>2, <3>3
  <2>5. CASE ~(L > 0 /\ recs[L] = trail.q[n - j + 1])
    <3>1. left[j] = L
      BY <1>7, <2>5 DEF L
    <3>2. ASSUME NEW r \in 1..L PROVE f[r] <= n - j
      <4>1. r \in 1..m /\ L \in 1..m /\ L > 0
        BY <1>3, <2>3
      <4>2. f[r] \in 1..n /\ f[L] \in 1..n /\ f[L] <= n - (j - 1)
        BY <1>5, <2>3, <4>1
      <4>3. f[L] # n - j + 1
        BY <1>5, <2>5, <4>1
      <4>4. f[L] <= n - j
        BY <1>1, <2>1, <4>2, <4>3
      <4>5. r < L \/ r = L
        BY <1>3, <2>3, <4>1
      <4>6. f[r] <= f[L]
        BY <1>5, <4>1, <4>2, <4>5
      <4>7. QED BY <1>1, <2>1, <4>2, <4>4, <4>6
    <3>4. QED BY <2>1, <2>3, <3>1, <3>2
  <2>6. QED BY <2>4, <2>5
<1>11. N \in P
  <2> HIDE DEF P, N
  <2>1. 0..N \subseteq P
    BY <1>8, <1>9, <1>10, UpTo
  <2>2. QED BY <1>8, <2>1
<1> DEFINE e == left[N]
           s == SubSeq(recs, 1, e)
<1>12. e \in 0..m /\ \A r \in 1..e : f[r] <= k
  <2>1. n - N = k
    BY <1>1
  <2>2. QED BY <1>11, <2>1
<1>13. RecommendationsKept(k) = e
  BY <1>6 DEF n
<1> HIDE DEF e, P, N
<1>14. 1..e \subseteq 1..m /\ e \in Nat
  BY <1>3, <1>12
<1>15. s \in Seq(Solvables) /\ DOMAIN s = 1..e /\ \A j \in 1..e : s[j] = recs[j]
  BY <1>3, <1>12, <1>14
<1> HIDE DEF s
<1> DEFINE g == [j \in 1..e |-> f[j]]
<1>16. \A j \in 1..e : f[j] \in 1..k /\ q[f[j]] = s[j]
  <2>1. SUFFICES ASSUME NEW j \in 1..e PROVE f[j] \in 1..k /\ q[f[j]] = s[j]
    OBVIOUS
  <2>2. f[j] \in 1..n /\ trail.q[f[j]] = recs[j] /\ f[j] <= k
    BY <1>5, <1>12, <1>14
  <2>3. f[j] \in 1..k
    BY <1>1, <2>2
  <2>4. QED BY <1>15, <2>2, <2>3
<1>17. \A i, j \in 1..e : i < j => f[i] < f[j]
  BY <1>5, <1>14
<1>18. Placing(g, s, q)
  BY <1>15, <1>16, <1>17 DEF Placing
<1>19. RecommendedAt(s, q)
  BY <1>15, <1>18 DEF RecommendedAt
<1>20. QED BY <1>13, <1>19 DEF s, recs

\* What the invariant says about the trail.
LEMMA TrailFacts ==
  ASSUME SearchInv
  PROVE  /\ trail.map \in [Solvables -> Int] /\ TrailWhole(trail, rules, NSolvables)
         /\ Len(trail.q) \in Nat /\ Len(trail.q) > 0 /\ DOMAIN trail.q = 1..Len(trail.q)
         /\ propagate_index \in 0..Len(trail.q) /\ propagate_index \in Nat
         /\ Solvables = 1..NSolvables
         /\ \A k \in 1..Len(trail.q) :
              /\ trail.q[k] \in Literals(Solvables) /\ -trail.q[k] \in Literals(Solvables)
              /\ IsTrue(trail.map, trail.q[k]) /\ IsFalse(trail.map, -trail.q[k])
              /\ Var(-trail.q[k]) = Var(trail.q[k]) /\ -(-trail.q[k]) = trail.q[k]
              /\ LevelAt(k) = LevelIn(trail, k) /\ LevelAt(k) \in 1..TopLevel(trail)
              /\ LevelOf(trail.q[k]) = LevelAt(k) /\ LevelOf(-trail.q[k]) = LevelAt(k)
         /\ \A l \in Literals(Solvables) :
              /\ -l \in Literals(Solvables) /\ Var(-l) = Var(l) /\ -(-l) = l
              /\ Var(l) \in Solvables /\ l \in Int /\ l # 0
              /\ IsFalse(trail.map, l) <=> IsTrue(trail.map, -l)
              /\ IsTrue(trail.map, l) <=> \E k \in 1..Len(trail.q) : trail.q[k] = l
              /\ IsFalse(trail.map, l) <=> \E k \in 1..Len(trail.q) : trail.q[k] = -l
              /\ ~(IsTrue(trail.map, l) /\ IsFalse(trail.map, l))
              /\ IsUndef(trail.map, l) <=> ~IsTrue(trail.map, l) /\ ~IsFalse(trail.map, l)
              /\ LevelOf(l) \in Nat /\ LevelOf(l) = Level(trail.map[Var(l)])
              /\ ~IsUndef(trail.map, l) => LevelOf(l) \in 1..TopLevel(trail)
<1>1. /\ NSolvables \in Nat /\ Solvables = 1..NSolvables /\ TrailWhole(trail, rules, NSolvables)
      /\ propagate_index \in 0..Len(trail.q)
  BY SearchFacts DEF Solvables, SearchInv, Phases
<1>2. trail.map \in [Solvables -> Int]
  BY <1>1 DEF TrailWhole, TrailType
<1>3. Len(trail.q) \in Nat /\ Len(trail.q) > 0 /\ DOMAIN trail.q = 1..Len(trail.q)
  BY <1>1, DecisionFacts
<1>4. \A l \in Literals(Solvables) :
        /\ -l \in Literals(Solvables) /\ Var(-l) = Var(l) /\ -(-l) = l
        /\ Var(l) \in Solvables /\ l \in Int /\ l # 0
        /\ IsFalse(trail.map, l) <=> IsTrue(trail.map, -l)
        /\ IsTrue(trail.map, l) <=> \E k \in 1..Len(trail.q) : trail.q[k] = l
        /\ IsFalse(trail.map, l) <=> \E k \in 1..Len(trail.q) : trail.q[k] = -l
        /\ ~(IsTrue(trail.map, l) /\ IsFalse(trail.map, l))
        /\ IsUndef(trail.map, l) <=> ~IsTrue(trail.map, l) /\ ~IsFalse(trail.map, l)
        /\ LevelOf(l) \in Nat /\ LevelOf(l) = Level(trail.map[Var(l)])
        /\ ~IsUndef(trail.map, l) => LevelOf(l) \in 1..TopLevel(trail)
  BY <1>1, ValueFacts, LiteralFacts DEF LevelOf
<1>5. ASSUME NEW k \in 1..Len(trail.q)
      PROVE  /\ trail.q[k] \in Literals(Solvables) /\ -trail.q[k] \in Literals(Solvables)
             /\ IsTrue(trail.map, trail.q[k]) /\ IsFalse(trail.map, -trail.q[k])
             /\ Var(-trail.q[k]) = Var(trail.q[k]) /\ -(-trail.q[k]) = trail.q[k]
             /\ LevelAt(k) = LevelIn(trail, k) /\ LevelAt(k) \in 1..TopLevel(trail)
             /\ LevelOf(trail.q[k]) = LevelAt(k) /\ LevelOf(-trail.q[k]) = LevelAt(k)
  <2>1. /\ trail.q[k] \in Literals(Solvables) /\ IsTrue(trail.map, trail.q[k])
        /\ LevelIn(trail, k) \in 1..k /\ LevelIn(trail, k) <= TopLevel(trail)
    BY <1>1, DecisionFacts
  <2>2. /\ -trail.q[k] \in Literals(Solvables) /\ Var(-trail.q[k]) = Var(trail.q[k])
        /\ -(-trail.q[k]) = trail.q[k]
    BY <1>4, <2>1
  <2>3. IsFalse(trail.map, -trail.q[k])
    BY <1>4, <2>1, <2>2
  <2>4. LevelAt(k) = LevelIn(trail, k) /\ LevelOf(trail.q[k]) = LevelAt(k) /\ LevelOf(-trail.q[k]) = LevelAt(k)
    BY <2>2 DEF LevelAt, LevelOf, LevelIn
  <2>5. LevelAt(k) \in 1..TopLevel(trail)
    <3>1. TopLevel(trail) \in 1..NSolvables
      BY SearchFacts
    <3>2. QED BY <2>1, <2>4, <3>1
  <2>6. QED BY <2>1, <2>2, <2>3, <2>4, <2>5
<1>6. QED BY <1>1, <1>2, <1>3, <1>4, <1>5

\* A free decision leaves the watches as they are.
LEMMA DecidesGuard ==
  ASSUME SearchInv, Decides
  PROVE  WatchesGuard'
<1>1. PICK lit, reason : GrewBy(trail', trail, rules, lit, reason, level + 1)
  BY DecidesGrows
<1>2. /\ rules' = rules /\ w' = w /\ watches' = watches /\ disabled' = disabled /\ visit' = 0
      /\ propagate_index' = propagate_index /\ pc \in Resting /\ level > 0
  BY DEF Decides, ruleVars
<1>3. visit = 0
  BY <1>2, TypedAtRest
<1>4. SUFFICES ASSUME NEW i \in EnabledRules, ~IsAssertion(rules[i]), NEW a \in {1, 2},
                      Noticed(i, w[i][a])'
               PROVE  /\ IsTrue(trail'.map, w[i][3 - a])
                      /\ Level(trail'.map[Var(w[i][3 - a])]) <= Level(trail'.map[Var(w[i][a])])
  BY <1>2 DEF WatchesGuard, EnabledRules, LevelOf
<1> DEFINE x == w[i][a]
           y == w[i][3 - a]
<1>5. x \in Literals(Solvables) /\ y \in Literals(Solvables)
  BY <1>4, WatchFacts DEF EnabledRules
<1> HIDE DEF x, y
<1>6. Noticed(i, x)
  <2>1. PICK k \in 1..propagate_index : trail'.q[k] = -x
    BY <1>2, <1>4 DEF Noticed, x
  <2>2. k \in 1..Len(trail.q) /\ trail.q[k] = -x
    BY <1>1, <2>1, TrailFacts DEF GrewBy
  <2>3. IsFalse(trail.map, x)
    BY <1>5, <2>2, TrailFacts
  <2>4. QED BY <1>3, <2>1, <2>2, <2>3 DEF Noticed
<1>7. IsFalse(trail.map, x) /\ IsTrue(trail.map, y) /\ Level(trail.map[Var(y)]) <= Level(trail.map[Var(x)])
  BY <1>2, <1>4, <1>6 DEF SearchInv, WatchesGuard, Noticed, LevelOf, x, y
<1>8. IsTrue(trail'.map, y) /\ Level(trail'.map[Var(y)]) <= Level(trail'.map[Var(x)])
  BY <1>1, <1>5, <1>7, TrailFacts, GuardGrows
<1>9. QED BY <1>8 DEF x, y

\* A decision keeps the invariant, but for the control variables.
LEMMA DecidesKeep ==
  ASSUME SearchInv, Decides
  PROVE  /\ Standing' /\ TrailInv' /\ Branches' /\ Recommendations' /\ WatchesGuard'
         /\ Analysis' /\ DerivedFollows' /\ UsesRulesInForce'
<1>1. PICK lit, reason : /\ Decision(lit, reason)
                         /\ GrewBy(trail', trail, rules, lit, reason, level + 1)
  BY DecidesGrows
<1>2. /\ rules' = rules /\ disabled' = disabled /\ level' = level + 1 /\ pc' # "analyze"
      /\ level \in Nat /\ level > 0
      /\ UNCHANGED <<in, ruleVars, disabled, problems>>
  BY SearchFacts DEF Decides, ruleVars
<1>3. Standing'
  BY <1>2, StandingStays DEF SearchInv, Standing
<1>4. ~(reason > 0)
  BY <1>1, SearchFacts, RuleFacts DEF Decision, SearchInv
<1>5. TrailInv'
  BY <1>1, <1>2, <1>4, TrailGrows
<1>6. BranchesAt(branches, trail.map, level)
  BY BranchesAre DEF SearchInv
<1>7. BranchesAt(branches', trail.map, level + 1)
  <2>1. CASE branches' = branches
    <3>1. \A b \in DOMAIN branches : branches[b].level \in Nat
      BY <1>6, BranchesTyped
    <3>2. \A b \in DOMAIN branches : branches[b].level < level + 1
      BY <1>2, <1>6, <3>1 DEF BranchesAt
    <3>3. QED BY <1>6, <2>1, <3>2 DEF BranchesAt
  <2>2. CASE \E alts : LeavesOpen(branches, alts, level)
    <3>1. PICK alts : LeavesOpen(branches, alts, level)
      BY <2>2
    <3>2. alts \in Seq(Solvables) /\ alts # <<>> /\ branches' = Append(branches, [alts |-> alts, level |-> level])
      BY <3>1 DEF LeavesOpen
    <3>3. \A p \in Range(alts) : trail.map[p] = 0 \/ Level(trail.map[p]) > level
      <4>1. \A p \in Range(alts) : p \in Solvables /\ Var(p) = p
        BY <3>2, RangeFacts, SolvablesAssumption DEF Solvables, Var
      <4>2. QED BY <3>1, <4>1 DEF LeavesOpen, Undecided, LevelOf
    <3>4. QED BY <1>2, <1>6, <3>2, <3>3, BranchesOpened
  <2>3. QED BY <1>1, <2>1, <2>2 DEF Decision
<1>8. Branches'
  <2>1. BranchesAt(branches', trail'.map, level + 1)
    <3>1. lit \in Literals(Solvables) /\ level + 1 \in Nat
      BY <1>1, <1>2 DEF Decision
    <3>2. QED BY <1>1, <1>7, <3>1, TrailFacts, BranchesStay
  <2>2. (Branches <=> BranchesAt(branches, trail.map, level))'
    BY BranchesAre, PTL
  <2>3. QED BY <1>2, <2>1, <2>2
<1>9. Recommendations'
  <2>1. RecommendedAt(recommendations, trail.q)
    BY RecommendationsAre DEF SearchInv, RecommendationsPlaced
  <2>2. /\ DOMAIN trail'.q = 1..(Len(trail.q) + 1) /\ trail'.q[Len(trail.q) + 1] = lit
        /\ \A k \in 1..Len(trail.q) : trail'.q[k] = trail.q[k]
    BY <1>1 DEF GrewBy
  <2>3. DOMAIN trail.q = 1..Len(trail.q) /\ Len(trail.q) \in Nat
    BY TrailFacts
  <2>4. RecommendedAt(recommendations', trail'.q)
    <3>1. CASE recommendations' = recommendations
      <4>1. DOMAIN trail.q \subseteq DOMAIN trail'.q
        BY <2>2, <2>3
      <4>2. QED BY <2>1, <2>2, <2>3, <3>1, <4>1, RecommendedStay
    <3>2. CASE lit \in Solvables /\ recommendations' = Append(recommendations, lit)
      BY <2>1, <2>2, <2>3, <3>2, RecommendedAdded
    <3>3. QED BY <1>1, <3>1, <3>2 DEF Decision
  <2>5. (Recommendations <=> RecommendationsPlaced)'
    BY RecommendationsAre, PTL
  <2>6. pc' = "propagate"
    BY DEF Decides
  <2>7. QED BY <2>4, <2>5, <2>6 DEF RecommendationsPlaced
<1>10. QED BY <1>2, <1>3, <1>5, <1>8, <1>9, DecidesGuard, NotAnalysing

\* A rule that was noticed is well watched when decisions above a level are
\* undone and another is taken.
LEMMA GuardReverts ==
  ASSUME SearchInv, NEW c, NEW u, NEW g \in Nat, NEW k, ShrankTo(c, trail, rules, g, k),
         NEW l, NEW reason, NEW lev, NEW rs, GrewBy(u, c, rs, l, reason, lev),
         NEW x \in Literals(Solvables), NEW y \in Literals(Solvables),
         NEW j \in 1..k, trail.q[j] = -x,
         IsTrue(trail.map, y), LevelOf(y) <= LevelOf(x)
  PROVE  IsTrue(u.map, y) /\ Level(u.map[Var(y)]) <= Level(u.map[Var(x)])
<1>1. j \in 1..Len(trail.q) /\ LevelIn(trail, j) <= g
  <2>1. k \in 1..Len(trail.q) /\ Len(trail.q) \in Nat
    BY TrailFacts DEF ShrankTo
  <2>2. j \in 1..Len(trail.q) /\ j <= k
    BY <2>1
  <2>3. QED BY <2>2 DEF ShrankTo
<1>2. LevelOf(x) = LevelIn(trail, j) /\ IsFalse(trail.map, x)
  <2>1. Var(-x) = Var(x)
    BY TrailFacts
  <2>2. QED BY <1>1, <2>1, TrailFacts DEF LevelIn, LevelOf
<1>3. LevelOf(x) <= g /\ LevelOf(y) <= g
  <2>1. LevelOf(x) \in Nat /\ LevelOf(y) \in Nat
    BY TrailFacts
  <2>2. QED BY <1>1, <1>2, <2>1
<1>4. /\ IsFalse(c.map, x) /\ IsTrue(c.map, y)
      /\ c.map[Var(x)] = trail.map[Var(x)] /\ c.map[Var(y)] = trail.map[Var(y)]
  <2>1. LevelOf(x) = Level(trail.map[Var(x)]) /\ LevelOf(y) = Level(trail.map[Var(y)])
    BY DEF LevelOf
  <2>2. QED BY <1>2, <1>3, <2>1 DEF ShrankTo
<1>5. c.map \in [Solvables -> Int]
  BY DEF ShrankTo, TrailWhole, TrailType, Solvables
<1>6. Level(c.map[Var(y)]) <= Level(c.map[Var(x)])
  BY <1>4 DEF LevelOf
<1>7. QED BY <1>4, <1>5, <1>6, GuardGrows

\* Free decisions keep the reasons in force.
LEMMA TrailReverts ==
  ASSUME SearchInv, UNCHANGED disabled, NEW c, NEW g \in Nat, NEW k, ShrankTo(c, trail, rules, g, k),
         NEW l, NEW reason, NEW lev, GrewBy(trail', c, rules', l, reason, lev), level' = lev,
         DOMAIN rules \subseteq DOMAIN rules', \A i \in DOMAIN rules : rules'[i] = rules[i],
         reason > 0 => IF IsAssertion(rules'[reason]) THEN lev = 1 ELSE reason \notin disabled
  PROVE  TrailInv'
<1>1. TrailWhole(trail', rules', NSolvables) /\ level' = TopLevel(trail')
  BY DEF GrewBy
<1>2. /\ k \in 1..Len(trail.q) /\ Len(trail.q) \in Nat /\ Len(c.q) = k
      /\ DOMAIN trail'.q = 1..(k + 1) /\ disabled' = disabled
      /\ \A j \in 1..k : j \in 1..Len(trail.q)
  BY TrailFacts DEF GrewBy, ShrankTo
<1>3. ASSUME NEW j \in DOMAIN trail'.q, trail'.why[j] > 0
      PROVE  IF IsAssertion(rules'[trail'.why[j]]) THEN LevelIn(trail', j) = 1 ELSE trail'.why[j] \notin disabled
  <2>1. CASE j = k + 1
    BY <1>2, <1>3, <2>1 DEF GrewBy
  <2>2. CASE j \in 1..k
    <3>1. trail'.why[j] = trail.why[j] /\ LevelIn(trail', j) = LevelIn(trail, j)
      BY <1>2, <2>2 DEF GrewBy, ShrankTo
    <3>2. trail.why[j] \in DOMAIN rules
      <4>1. trail.why[j] \in -Len(rules)..Len(rules)
        BY <1>2, <2>2, TrailFacts DEF TrailWhole, Reasons
      <4>2. QED BY <1>3, <3>1, <4>1, RuleFacts DEF SearchInv
    <3>3. rules'[trail.why[j]] = rules[trail.why[j]]
      BY <3>2
    <3>4. j \in DOMAIN trail.q
      BY <1>2, <2>2, TrailFacts
    <3>5. QED BY <1>3, <3>1, <3>3, <3>4 DEF SearchInv, TrailInv, ReasonsInForce, LevelAt, Enabled
  <2>3. QED BY <1>2, <2>1, <2>2
<1>4. QED BY <1>1, <1>3 DEF TrailInv, ReasonsInForce, LevelAt, Enabled

\* So does going back to a branch.
LEMMA GoesBackKeeps ==
  ASSUME SearchInv, GoesBack
  PROVE  /\ Standing' /\ TrailInv' /\ Branches' /\ Recommendations' /\ WatchesGuard'
         /\ Analysis' /\ DerivedFollows' /\ UsesRulesInForce'
<1>1. PICK g, lit, reason :
        /\ Redecision(g, lit, reason)
        /\ \E brs : /\ Keeps(brs, g)
                    /\ branches' = brs \/ \E alts : LeavesOpen(brs, alts, g)
  BY DEF GoesBack
<1>2. PICK brs : /\ Keeps(brs, g)
                 /\ branches' = brs \/ \E alts : LeavesOpen(brs, alts, g)
  BY <1>1
<1> DEFINE c == Reverted(g)
           k == Kept(trail, g)
<1>3. /\ rules' = rules /\ w' = w /\ watches' = watches /\ disabled' = disabled
      /\ visit' = 0 /\ pc' # "analyze" /\ pc \in Resting /\ level > 0
      /\ UNCHANGED <<in, ruleVars, disabled, problems>>
  BY DEF GoesBack, ruleVars, Resting
<1>4. /\ ShrankTo(c, trail, rules, g, k) /\ GrewBy(trail', c, rules, lit, reason, g + 1)
      /\ g \in Nat /\ g > 0 /\ g < level
  BY <1>1, <1>3, RedecisionGrows
<1>5. /\ level' = g + 1 /\ propagate_index' = k
      /\ recommendations' = SubSeq(recommendations, 1, RecommendationsKept(k))
      /\ lit \in Solvables /\ reason \in -Len(rules)..0
  BY <1>1 DEF Redecision
<1>6. ~(reason > 0) /\ lit \in Literals(Solvables)
  BY <1>5, RuleFacts DEF SearchInv, Literals
<1>7. /\ k \in 1..Len(trail.q) /\ Len(trail.q) \in Nat /\ Len(c.q) = k
      /\ DOMAIN trail'.q = 1..(k + 1)
      /\ \A j \in 1..k : trail'.q[j] = trail.q[j] /\ j \in 1..Len(trail.q)
      /\ visit = 0 /\ propagate_index = Len(trail.q)
  <2>1. k \in 1..Len(trail.q) /\ Len(trail.q) \in Nat /\ Len(c.q) = k
    BY <1>4, TrailFacts DEF ShrankTo
  <2>2. DOMAIN trail'.q = 1..(k + 1) /\ \A j \in 1..k : trail'.q[j] = trail.q[j] /\ j \in 1..Len(trail.q)
    BY <1>4, <2>1 DEF ShrankTo, GrewBy
  <2>3. visit = 0 /\ propagate_index = Len(trail.q)
    BY <1>3, TypedAtRest DEF SearchInv, Phases, Propagated
  <2>4. QED BY <2>1, <2>2, <2>3
<1> HIDE DEF c, k
<1>8. Standing'
  BY <1>3, StandingStays DEF SearchInv, Standing
<1>9. TrailInv'
  BY <1>3, <1>4, <1>5, <1>6, TrailReverts
<1>10. Branches'
  <2>1. BranchesAt(branches, trail.map, level) /\ level \in Nat
    BY BranchesAre, SearchFacts DEF SearchInv
  <2>2. PICK n \in 0..Len(branches) : /\ brs = SubSeq(branches, 1, n)
                                      /\ \A b \in 1..n : branches[b].level < g
    BY <1>2 DEF Keeps
  <2>3. BranchesAt(brs, c.map, g)
    BY <1>4, <2>1, <2>2, TrailFacts, BranchesCut
  <2>4. BranchesAt(branches', c.map, g + 1)
    <3>1. CASE branches' = brs
      <4>1. \A b \in DOMAIN brs : brs[b].level \in Nat
        BY <2>3, BranchesTyped
      <4>2. \A b \in DOMAIN brs : brs[b].level < g + 1
        BY <1>4, <2>3, <4>1 DEF BranchesAt
      <4>3. QED BY <2>3, <3>1, <4>2 DEF BranchesAt
    <3>2. CASE \E alts : LeavesOpen(brs, alts, g)
      <4>1. PICK alts : LeavesOpen(brs, alts, g)
        BY <3>2
      <4>2. alts \in Seq(Solvables) /\ alts # <<>> /\ branches' = Append(brs, [alts |-> alts, level |-> g])
        BY <4>1 DEF LeavesOpen
      <4>3. \A p \in Range(alts) : c.map[p] = 0 \/ Level(c.map[p]) > g
        <5>1. SUFFICES ASSUME NEW p \in Range(alts) PROVE c.map[p] = 0 \/ Level(c.map[p]) > g
          OBVIOUS
        <5>2. p \in Solvables
          BY <4>2, RangeFacts
        <5>3. Var(p) = p /\ p \in Literals(Solvables)
          BY <5>2, SolvablesAssumption DEF Solvables, Var, Literals
        <5>4. trail.map[p] = 0 \/ Level(trail.map[p]) > g
          BY <4>1, <5>3 DEF LeavesOpen, Undecided, LevelOf
        <5>5. c.map[p] = IF Level(trail.map[p]) <= g THEN trail.map[p] ELSE 0
          BY <1>4, <5>3 DEF ShrankTo
        <5>6. Level(trail.map[p]) \in Nat
          BY <5>3, TrailFacts DEF LevelOf
        <5>7. QED BY <1>4, <5>4, <5>5, <5>6
      <4>4. QED BY <1>4, <2>3, <4>2, <4>3, BranchesOpened
    <3>3. QED BY <1>2, <3>1, <3>2
  <2>5. BranchesAt(branches', trail'.map, g + 1)
    <3>1. c.map \in [Solvables -> Int] /\ g + 1 \in Nat
      BY <1>4 DEF ShrankTo, TrailWhole, TrailType, Solvables
    <3>2. QED BY <1>4, <1>6, <2>4, <3>1, BranchesStay
  <2>6. (Branches <=> BranchesAt(branches, trail.map, level))'
    BY BranchesAre, PTL
  <2>7. QED BY <1>5, <2>5, <2>6
<1>11. Recommendations'
  <2>1. DOMAIN c.q = 1..k /\ \A j \in 1..k : c.q[j] = trail.q[j]
    BY <1>4 DEF ShrankTo
  <2>2. k \in 0..Len(trail.q) /\ DOMAIN c.q \subseteq DOMAIN trail'.q
    BY <1>7, <2>1
  <2>3. RecommendedAt(recommendations', c.q)
    BY <1>5, <2>1, <2>2, RecommendedPopped
  <2>4. \A j \in DOMAIN c.q : trail'.q[j] = c.q[j]
    BY <1>7, <2>1
  <2>5. RecommendedAt(recommendations', trail'.q)
    BY <2>2, <2>3, <2>4, RecommendedStay
  <2>6. (Recommendations <=> RecommendationsPlaced)'
    BY RecommendationsAre, PTL
  <2>7. pc' = "propagate"
    BY DEF GoesBack
  <2>8. QED BY <2>5, <2>6, <2>7 DEF RecommendationsPlaced
<1>12. WatchesGuard'
  <2>1. SUFFICES ASSUME NEW i \in EnabledRules, ~IsAssertion(rules[i]), NEW a \in {1, 2},
                        Noticed(i, w[i][a])'
                 PROVE  /\ IsTrue(trail'.map, w[i][3 - a])
                        /\ Level(trail'.map[Var(w[i][3 - a])]) <= Level(trail'.map[Var(w[i][a])])
    BY <1>3 DEF WatchesGuard, EnabledRules, LevelOf
  <2> DEFINE x == w[i][a]
             y == w[i][3 - a]
  <2>2. x \in Literals(Solvables) /\ y \in Literals(Solvables)
    BY <2>1, WatchFacts DEF EnabledRules
  <2> HIDE DEF x, y
  <2>3. PICK j \in 1..k : trail'.q[j] = -x
    BY <1>3, <1>5, <2>1 DEF Noticed, x
  <2>4. j \in 1..propagate_index /\ trail.q[j] = -x /\ j \in 1..Len(trail.q)
    BY <1>7, <2>3
  <2>5. Noticed(i, x)
    BY SMTT(30), <1>7, <2>2, <2>4, TrailFacts DEF Noticed
  <2>6. IsTrue(trail.map, y) /\ LevelOf(y) <= LevelOf(x)
    BY <1>3, <2>1, <2>5 DEF SearchInv, WatchesGuard, x, y
  <2>7. IsTrue(trail'.map, y) /\ Level(trail'.map[Var(y)]) <= Level(trail'.map[Var(x)])
    BY <1>4, <2>2, <2>3, <2>4, <2>6, GuardReverts
  <2>8. QED BY <2>7 DEF x, y
<1>13. QED BY <1>3, <1>8, <1>9, <1>10, <1>11, <1>12, NotAnalysing

----------------------------------------------------------------------------
(* The extras are decided upon a solution.                                 *)

\* S satisfies the rules of rs in force, and agrees with what t has decided at
\* level 1.
SolutionOf(S, rs, dis, t) ==
  /\ S \in Worlds(Solvables)
  /\ \A i \in DOMAIN rs \ dis : ~IsAssertion(rs[i]) => Holds(S, rs[i].lits)
  /\ \A k \in DOMAIN t.q : LevelIn(t, k) = 1 => TrueIn(S, t.q[k])

\* The invariant on extras, with a name for the solution.
LEMMA ExtrasAre ==
  ExtrasHaveSolution <=> (InExtras => \E S : SolutionOf(S, rules, disabled, trail))
BY DEF ExtrasHaveSolution, SolutionOf, EnabledRules, LevelAt

\* A clause holds if one of its literals is true.
LEMMA HoldsIs ==
  ASSUME NEW S, NEW lits
  PROVE  Holds(S, lits) <=> \E l \in Range(lits) : TrueIn(S, l)
BY DEF Holds, TrueIn

\* What is decided is true in the solution it makes.
LEMMA DecidedIsInstalled ==
  ASSUME SearchInv
  PROVE  /\ Installs(trail.map) \in Worlds(Solvables)
         /\ \A l \in Literals(Solvables) :
              /\ IsTrue(trail.map, l) => TrueIn(Installs(trail.map), l)
              /\ (l < 0 /\ ~IsFalse(trail.map, l)) => TrueIn(Installs(trail.map), l)
<1> DEFINE S == Installs(trail.map)
<1>1. DOMAIN trail.map = Solvables
  BY TrailFacts
<1>2. SYSTEMSOLVABLE \in S
  <2>1. trail.q[1] = SYSTEMSOLVABLE /\ 1 \in 1..Len(trail.q)
    BY TrailFacts DEF TrailWhole, Stairs
  <2>2. IsTrue(trail.map, SYSTEMSOLVABLE)
    BY <2>1, TrailFacts
  <2>3. SYSTEMSOLVABLE \in Solvables
    BY SolvablesAssumption DEF SYSTEMSOLVABLE, Solvables
  <2>4. QED BY <1>1, <2>2, <2>3 DEF IsTrue, Installs, SYSTEMSOLVABLE
<1>3. S \subseteq Solvables /\ S = S \cup {SYSTEMSOLVABLE}
  BY <1>1, <1>2 DEF Installs
<1>4. S \in Worlds(Solvables)
  <2> HIDE DEF S
  <2>1. QED BY <1>3 DEF Worlds
<1>5. ASSUME NEW l \in Literals(Solvables)
      PROVE  /\ IsTrue(trail.map, l) => TrueIn(S, l)
             /\ (l < 0 /\ ~IsFalse(trail.map, l)) => TrueIn(S, l)
  <2>1. /\ l \in Int /\ l # 0 /\ Var(l) \in Solvables /\ trail.map[Var(l)] \in Int
        /\ l > 0 => Var(l) = l
        /\ ~(l > 0) => Var(l) = -l
    BY TrailFacts DEF Var
  <2>2. CASE l > 0
    BY <1>1, <2>1, <2>2 DEF IsTrue, TrueIn, Installs
  <2>3. CASE ~(l > 0)
    BY <1>1, <2>1, <2>3 DEF IsTrue, IsFalse, TrueIn, Installs
  <2>4. QED BY <2>2, <2>3
<1>6. QED BY <1>4, <1>5

\* What has been propagated is well watched.
LEMMA PropagatedGuard ==
  ASSUME SearchInv, level > 0, Propagated, visit = 0,
         NEW i \in EnabledRules, ~IsAssertion(rules[i]), NEW a \in {1, 2},
         IsFalse(trail.map, w[i][a])
  PROVE  IsTrue(trail.map, w[i][3 - a]) /\ LevelOf(w[i][3 - a]) <= LevelOf(w[i][a])
<1>1. w[i][a] \in Literals(Solvables)
  BY WatchFacts DEF EnabledRules
<1>2. PICK k \in 1..Len(trail.q) : trail.q[k] = -w[i][a]
  BY <1>1, TrailFacts
<1>3. Noticed(i, w[i][a])
  BY <1>2 DEF Noticed, Propagated
<1>4. QED BY <1>3 DEF SearchInv, WatchesGuard

\* A rule that is neither true nor to be decided upon is satisfied by what is
\* installed.
LEMMA NothingToDecide ==
  ASSUME SearchInv, level > 0, Propagated, visit = 0,
         NEW i \in EnabledRules, ~IsAssertion(rules[i]), ~ToDecide(i)
  PROVE  Holds(Installs(trail.map), rules[i].lits)
<1> DEFINE S == Installs(trail.map)
<1>1. /\ i \in DOMAIN rules /\ Len(rules[i].lits) \in Nat /\ Len(rules[i].lits) > 0
      /\ Lits(i) \subseteq Literals(Solvables) /\ Enabled(i)
      /\ \A l : l \in Lits(i) <=> \E k \in 1..Len(rules[i].lits) : rules[i].lits[k] = l
  BY RuleFacts DEF SearchInv, EnabledRules, Enabled
<1>2. SUFFICES \E x \in Lits(i) : TrueIn(S, x)
  BY HoldsIs DEF Lits
<1>3. CASE Len(rules[i].lits) = 2
  <2>1. PICK l \in Lits(i) : ~(l > 0 /\ Undecided(l))
    BY <1>1, <1>3 DEF ToDecide
  <2>2. l \in Literals(Solvables) /\ l \in Int /\ l # 0
    BY <1>1, <2>1, TrailFacts
  <2>3. CASE IsTrue(trail.map, l) \/ (~IsFalse(trail.map, l) /\ l < 0)
    BY <2>1, <2>2, <2>3, DecidedIsInstalled
  <2>4. CASE IsFalse(trail.map, l)
    <3>1. /\ w[i][1] \in Lits(i) /\ w[i][2] \in Lits(i) /\ w[i][1] # w[i][2]
      BY <1>1 DEF SearchInv, WatchesWhole
    <3>2. l = w[i][1] \/ l = w[i][2]
      <4>1. \A x \in Lits(i) : x = rules[i].lits[1] \/ x = rules[i].lits[2]
        <5>1. \A k \in 1..2 : k = 1 \/ k = 2
          OBVIOUS
        <5>2. QED BY <1>1, <1>3, <5>1
      <4>2. QED BY <2>1, <3>1, <4>1
    <3>3. PICK a \in {1, 2} : l = w[i][a]
      BY <3>2
    <3>4. w[i][3 - a] \in Lits(i) /\ w[i][3 - a] \in Literals(Solvables)
      BY <1>1, WatchFacts
    <3>5. IsTrue(trail.map, w[i][3 - a])
      BY <2>4, <3>3, PropagatedGuard
    <3>6. QED BY <3>4, <3>5, DecidedIsInstalled
  <2>5. l < 0 \/ IsTrue(trail.map, l) \/ IsFalse(trail.map, l)
    <3>1. l > 0 => Var(l) = l
      BY DEF Var
    <3>2. QED BY <2>1, <2>2, <3>1, TrailFacts DEF Undecided, IsUndef
  <2> HIDE DEF S
  <2>6. QED BY <2>3, <2>4, <2>5
<1>4. CASE Len(rules[i].lits) # 2
  <2>1. ~Open(i)
    BY <1>1, <1>4 DEF ToDecide, IsAssertion
  <2>2. PICK l \in Lits(i) : ~(IF l < 0 THEN Installed(-l) ELSE ~Installed(l))
    BY <2>1 DEF Open
  <2>3. l \in Int /\ l # 0 /\ l \in Literals(Solvables)
    BY <1>1, TrailFacts
  <2>4. TrueIn(S, l)
    <3>1. DOMAIN trail.map = Solvables /\ Var(l) \in Solvables
      BY <2>3, TrailFacts
    <3>2. CASE l > 0
      BY <2>2, <2>3, <3>1, <3>2 DEF TrueIn, Installs, Installed, Var
    <3>3. CASE l < 0
      BY <2>2, <2>3, <3>1, <3>3 DEF TrueIn, Installs, Installed, Var
    <3>4. QED BY <2>3, <3>2, <3>3
  <2>5. QED BY <2>4
<1>5. QED BY <1>3, <1>4

\* When no rule is left to decide, what is decided is a solution.
LEMMA DecidedIsSolution ==
  ASSUME SearchInv, pc = "decide", StepsToOpen = {}
  PROVE  SolutionOf(Installs(trail.map), rules, disabled, trail)
<1>1. level > 0 /\ Propagated /\ visit = 0
  BY TypedAtRest DEF SearchInv, Phases, Resting
<1>2. ASSUME NEW i \in DOMAIN rules \ disabled, ~IsAssertion(rules[i])
      PROVE  Holds(Installs(trail.map), rules[i].lits)
  <2>1. Len(rules) \in Nat /\ i \in 1..Len(rules) /\ Len(rules) > 0
    BY RuleFacts DEF SearchInv
  <2>2. loc.n = 1 /\ loc.i \in 1..Len(rules)
    BY <2>1 DEF SearchInv, Locals
  <2>3. PICK k \in 0..(Len(rules) - 1) : ((loc.i - 1 + k) % Len(rules)) + 1 = i
    BY <2>1, <2>2, CycleReaches
  <2>4. ~ToDecide(i)
    BY <2>2, <2>3 DEF StepsToOpen, Rule
  <2>5. QED BY <1>1, <1>2, <2>4, NothingToDecide DEF EnabledRules
<1>3. ASSUME NEW k \in DOMAIN trail.q PROVE TrueIn(Installs(trail.map), trail.q[k])
  BY DecidedIsInstalled, TrailFacts
<1>4. QED BY <1>2, <1>3, DecidedIsInstalled DEF SolutionOf

\* The main loop enters the extras when nothing is left to decide.
LEMMA EntersExtras ==
  ASSUME SearchInv, SystemStep \/ ExtraStep, Moves \/ Decides, InExtras'
  PROVE  InExtras \/ (pc = "decide" /\ StepsToOpen = {})
<1>1. CASE Decides
  <2>1. pc' = "propagate" /\ (caller'.at \in UncheckedCallers => pc \in Extras)
    BY <1>1 DEF Decides
  <2>2. pc' \notin Extras \cup UncheckedCallers
    BY <2>1 DEF Extras, UncheckedCallers
  <2>3. QED BY <2>1, <2>2 DEF InExtras
<1>2. CASE Moves
  <2>1. CASE Top \/ EnterSystem \/ JobResolved \/ JobsDone
    BY <2>1 DEF Top, EnterSystem, JobResolved, JobsDone, InExtras, Extras, UncheckedCallers
  <2>2. CASE UpdateMultiversion \/ KeepNothing \/ InstalledBack \/ InstalledDone \/ DecideBack
    <3>1. CASE UpdateMultiversion
      <4>1. pc' = "keep" \/ (pc' = "propagate" /\ caller'.at = "update.back")
        <5>1. ASSUME NEW dq, NEW reason, SelectAndInstall(dq, reason, "update.back")
              PROVE  pc' = "propagate" /\ caller'.at = "update.back"
          BY <5>1 DEF SelectAndInstall, SetPropagateLearn
        <5>2. QED BY <3>1, <5>1 DEF UpdateMultiversion
      <4>2. QED BY <4>1 DEF InExtras, Extras, UncheckedCallers
    <3>2. CASE KeepNothing \/ InstalledBack \/ InstalledDone \/ DecideBack
      BY <3>2 DEF KeepNothing, InstalledBack, InstalledDone, DecideBack, InExtras, Extras, UncheckedCallers
    <3>3. QED BY <2>2, <3>1, <3>2
  <2>3. CASE ResolveJob \/ UpdateInstalled \/ DecideRule
    BY <2>3 DEF ResolveJob, UpdateInstalled, DecideRule, SelectAndInstall, SetPropagateLearn, InExtras,
                Extras, UncheckedCallers
  <2>4. CASE KeepWithoutUpdate \/ KeepAfterUpdate
    BY <2>4 DEF KeepWithoutUpdate, KeepAfterUpdate, KeepInstalled, SetPropagateLearn, InExtras,
                Extras, UncheckedCallers
  <2>5. CASE DecideDone
    BY <2>5 DEF DecideDone
  <2>6. CASE TryAlternative \/ Minimize
    BY <2>6 DEF TryAlternative, Minimize, TakeBranch, SetPropagateLearn, InExtras, Extras, UncheckedCallers
  <2>7. CASE BackToTop \/ Finish
    BY <2>7 DEF BackToTop, Finish, InExtras, Extras, UncheckedCallers
  <2>8. CASE WeakSingle \/ WeakNothing \/ WeakSelect \/ InstallSupplemented \/ SupplementedBack \/ SupplementedDone
    <3>1. pc \in Extras \cup UncheckedCallers
      BY <2>8 DEF WeakSingle, WeakNothing, WeakSelect, InstallSupplemented, SupplementedBack,
                  SupplementedDone, Extras, UncheckedCallers
    <3>2. QED BY <3>1 DEF InExtras
  <2>9. CASE InstallRecommendations \/ RecommendedBack \/ RecommendedDone \/ KeepOrphan \/ DropOrphan \/ OrphansBack
    <3>1. pc \in Extras \cup UncheckedCallers
      BY <2>9 DEF InstallRecommendations, RecommendedBack, RecommendedDone, KeepOrphan, DropOrphan,
                  OrphansBack, Extras, UncheckedCallers
    <3>2. QED BY <3>1 DEF InExtras
  <2>10. CASE OrphansDone
    <3>1. pc \in Extras \cup UncheckedCallers
      BY <2>10 DEF OrphansDone, Extras, UncheckedCallers
    <3>2. QED BY <3>1 DEF InExtras
  <2>11. QED BY <2>1, <2>2, <2>3, <2>4, <2>5, <2>6, <2>7, <2>8, <2>9, <2>10 DEF SystemStep, ExtraStep
<1>3. QED BY <1>1, <1>2

\* The main loop enters the extras only with a solution, and goes on with it.
LEMMA MainExtras ==
  ASSUME SearchInv, SystemStep \/ ExtraStep
  PROVE  ExtrasHaveSolution'
<1>1. SUFFICES ASSUME InExtras' PROVE \E S : SolutionOf(S, rules', disabled', trail')
  <2>1. (ExtrasHaveSolution <=> (InExtras => \E S : SolutionOf(S, rules, disabled, trail)))'
    BY ExtrasAre, PTL
  <2>2. QED BY <2>1 DEF SolutionOf, TrueIn, LevelIn
<1>2. ~GoesBack
  BY <1>1 DEF GoesBack, InExtras, SystemBacks, UncheckedCallers, Extras
<1>3. Moves \/ Decides
  BY <1>2, MainSteps DEF MainStep
<1>4. \E S : SolutionOf(S, rules, disabled, trail)
  <2>1. CASE InExtras
    BY <2>1, ExtrasAre DEF SearchInv
  <2>2. CASE pc = "decide" /\ StepsToOpen = {}
    BY <2>2, DecidedIsSolution
  <2>3. QED BY <1>1, <1>3, <2>1, <2>2, EntersExtras
<1>5. PICK S : SolutionOf(S, rules, disabled, trail)
  BY <1>4
<1>6. CASE Moves
  <2>1. rules' = rules /\ disabled' = disabled /\ trail' = trail
    BY <1>6 DEF Moves, ruleVars, searchVars
  <2>2. QED BY <1>5, <2>1
<1>7. CASE Decides
  <2>1. PICK lit, reason : GrewBy(trail', trail, rules, lit, reason, level + 1)
    BY <1>7, DecidesGrows
  <2>2. rules' = rules /\ disabled' = disabled /\ level + 1 # 1 /\ Len(trail.q) \in Nat
    BY <1>7, SearchFacts, TrailFacts DEF Decides, ruleVars
  <2>3. ASSUME NEW k \in DOMAIN trail'.q, LevelIn(trail', k) = 1
        PROVE  TrueIn(S, trail'.q[k])
    <3>1. k # Len(trail.q) + 1 /\ k \in 1..(Len(trail.q) + 1)
      BY <2>1, <2>2, <2>3 DEF GrewBy
    <3>2. k \in 1..Len(trail.q)
      BY <2>2, <3>1
    <3>3. trail'.q[k] = trail.q[k] /\ LevelIn(trail, k) = 1 /\ k \in DOMAIN trail.q
      BY <2>1, <2>3, <3>2, TrailFacts DEF GrewBy
    <3>4. QED BY <1>5, <3>3 DEF SolutionOf
  <2>4. SolutionOf(S, rules', disabled', trail')
    BY <1>5, <2>2, <2>3 DEF SolutionOf
  <2>5. QED BY <2>4
<1>8. QED BY <1>3, <1>6, <1>7

\* A step of the main loop keeps the invariant.
LEMMA MainKeeps ==
  ASSUME SearchInv, SystemStep \/ ExtraStep
  PROVE  SearchInv'
<1>1. Phases' /\ Locals' /\ ExtrasHaveSolution'
  BY MainControl, MainExtras
<1>2. /\ Standing' /\ TrailInv' /\ Branches' /\ Recommendations' /\ WatchesGuard'
      /\ Analysis' /\ DerivedFollows' /\ UsesRulesInForce'
  BY MainSteps, MovesKeep, DecidesKeep, GoesBackKeeps DEF MainStep
<1>3. QED BY <1>1, <1>2 DEF SearchInv, Standing

----------------------------------------------------------------------------
(* The assertions.                                                         *)

\* Rules that are given up with another are rules.
LEMMA GroupFits ==
  ASSUME RulesTyped, NEW i \in DOMAIN rules
  PROVE  /\ ProblemRules(rules, JobProblem(rules, i)) \subseteq DOMAIN rules
         /\ ProblemRules(rules, ProblemId(rules, i)) \subseteq DOMAIN rules
<1>1. WellGrouped(rules)
  BY ArrayFacts DEF RulesTyped
<1>2. GroupOfRule(rules, i) \subseteq DOMAIN rules
  BY DEF GroupOfRule
<1>3. QED BY <1>1, <1>2, JobProblemNamesGroup, ProblemIdNamesGroup

\* What a dropped weak rule disables are rules.
LEMMA DropFits ==
  ASSUME RulesTyped, NEW i \in DOMAIN rules, NEW dis, dis \subseteq DOMAIN rules
  PROVE  /\ DisableProblem(dis, JobProblem(rules, i)) \subseteq DOMAIN rules
         /\ AfterDrop(dis, JobProblem(rules, i)) \subseteq DOMAIN rules
<1>1. ProblemRules(rules, JobProblem(rules, i)) \subseteq DOMAIN rules
  BY GroupFits
<1>2. DisableProblem(dis, JobProblem(rules, i)) \subseteq DOMAIN rules
  BY <1>1 DEF DisableProblem, DisableProblems
<1>3. QED BY <1>2 DEF AfterDrop

\* No recommendations are in any queue.
LEMMA NoneRecommended == ASSUME NEW q PROVE RecommendedAt(<<>>, q)
<1> DEFINE f == [j \in {} |-> 0]
<1>1. DOMAIN <<>> = {} /\ <<>> \in Seq(Solvables)
  OBVIOUS
<1>2. f \in [DOMAIN <<>> -> DOMAIN q]
  BY <1>1
<1>3. Placing(f, <<>>, q)
  BY <1>1, <1>2 DEF Placing
<1>4. QED BY <1>1, <1>3 DEF RecommendedAt

\* At level 1 no branch is open.
LEMMA NoBranches ==
  ASSUME NEW brs, NEW map, NEW lev, lev \in 0..1, BranchesAt(brs, map, 1)
  PROVE  \A m : BranchesAt(brs, m, lev)
<1>1. DOMAIN brs = {} /\ brs \in Seq(BranchType)
  <2>1. /\ brs \in Seq(BranchType)
        /\ \A b \in DOMAIN brs : brs[b].level \in Nat /\ brs[b].level > 0 /\ brs[b].level < 1
    BY BranchesTyped DEF BranchesAt
  <2>2. \A b \in DOMAIN brs : FALSE
    BY <2>1
  <2>3. QED BY <2>1, <2>2
<1>2. QED BY <1>1 DEF BranchesAt

\* What holds while the assertions are decided.
LEMMA AssertFacts ==
  ASSUME SearchInv, pc \in {"assert", "assertweak"}
  PROVE  /\ level = 1 /\ propagate_index = 0 /\ TopLevel(trail) = 1
         /\ caller.at \in SystemBacks \cup {"top"}
         /\ recommendations = <<>> /\ BranchesAt(branches, trail.map, 1)
         /\ \A k \in DOMAIN trail.q : trail.why[k] > 0 => IsAssertion(rules[trail.why[k]])
         /\ \A k \in 1..Len(trail.q) : LevelAt(k) = 1
<1>1. /\ level = 1 /\ propagate_index = 0 /\ caller.at \in SystemBacks \cup {"top"}
      /\ \A k \in DOMAIN trail.q : trail.why[k] > 0 => IsAssertion(rules[trail.why[k]])
  BY DEF SearchInv, Phases
<1>2. TopLevel(trail) = 1
  BY <1>1, SearchFacts
<1>3. recommendations = <<>>
  BY DEF SearchInv, Recommendations
<1>4. BranchesAt(branches, trail.map, 1)
  BY <1>1, BranchesAre DEF SearchInv
<1>5. \A k \in 1..Len(trail.q) : LevelAt(k) = 1
  BY <1>2, TrailFacts
<1>6. QED BY <1>1, <1>2, <1>3, <1>4, <1>5

\* A step that decides assertions, or gives rules up, keeps the invariant.
LEMMA AssertFrame ==
  ASSUME SearchInv, pc \in {"assert", "assertweak"},
         UNCHANGED <<in, ruleVars, propagate_index, branches, recommendations, level,
                     systemlevel, caller, an, loc>>,
         disabled' \subseteq DOMAIN rules, Problems', visit' \in Nat,
         TrailWhole(trail', rules, NSolvables), TopLevel(trail') = 1,
         \A k \in DOMAIN trail'.q : trail'.why[k] > 0 => IsAssertion(rules[trail'.why[k]]),
         pc' \in {"assert", "assertweak"} \/ (pc' = caller.at /\ visit' = 0)
  PROVE  SearchInv'
<1>1. /\ in' = in /\ rules' = rules /\ w' = w /\ watches' = watches
      /\ propagate_index' = propagate_index /\ branches' = branches
      /\ recommendations' = recommendations /\ level' = level /\ systemlevel' = systemlevel
      /\ caller' = caller /\ an' = an /\ loc' = loc
  BY DEF ruleVars
<1>2. /\ level = 1 /\ propagate_index = 0 /\ caller.at \in SystemBacks \cup {"top"}
      /\ recommendations = <<>> /\ BranchesAt(branches, trail.map, 1)
  BY AssertFacts
<1>3. /\ RulesTyped' /\ WatchesWhole' /\ ProofsEntail'
  BY <1>1 DEF SearchInv, RulesTyped, RulesGrow, WatchesWhole, Lits, Watching, ProofsEntail
<1>4. /\ Len(trail'.q) \in Nat /\ DOMAIN trail'.q = 1..Len(trail'.q)
      /\ \A k \in 1..Len(trail'.q) : LevelIn(trail', k) = 1
  <2>1. /\ Len(trail'.q) \in Nat /\ DOMAIN trail'.q = 1..Len(trail'.q)
        /\ \A k \in 1..Len(trail'.q) : LevelIn(trail', k) \in 1..k /\ LevelIn(trail', k) <= 1
    BY DecisionFacts, SolvablesAssumption
  <2>2. ASSUME NEW k \in 1..Len(trail'.q) PROVE LevelIn(trail', k) = 1
    <3>1. LevelIn(trail', k) \in 1..k /\ LevelIn(trail', k) <= 1
      BY <2>1
    <3>2. QED BY <3>1
  <2>3. QED BY <2>1, <2>2
<1>5. TrailInv'
  BY <1>1, <1>2, <1>4 DEF TrailInv, ReasonsInForce, LevelAt, LevelIn
<1>6. pc' \in {"assert", "assertweak"} \/ (pc' \in SystemBacks \cup {"top"} /\ visit' = 0)
  BY <1>2
<1>7. Phases'
  <2>1. /\ caller.at \in SystemBacks \cup UncheckedCallers \cup {"top", "jobs"}
        /\ caller = [at |-> caller.at, olevel |-> caller.olevel, disablerules |-> caller.disablerules]
        /\ caller.olevel \in Nat /\ caller.olevel > 0
        /\ systemlevel \in 1..(NSolvables + 1)
    BY DEF SearchInv, Phases
  <2>2. pc' \in Running \cup Resting \cup SystemBacks \cup UncheckedCallers \cup {"top", "hopeless"}
    BY <1>6 DEF Running
  <2>3. pc' \notin {"propagate", "analyze"} /\ pc' \notin Resting \cup UncheckedCallers
    BY <1>6 DEF Resting, SystemBacks, UncheckedCallers, Extras
  <2>4. pc' \notin Running => visit' = 0
    BY <1>6 DEF Running
  <2>5. level' \in Nat /\ level' # 0 /\ propagate_index' \in 0..Len(trail'.q)
    BY <1>1, <1>2, <1>4
  <2>6. QED BY <1>1, <1>2, <1>4, <2>1, <2>2, <2>3, <2>4, <2>5 DEF Phases
<1>8. Locals'
  <2>1. Placed' = Placed
    BY <1>1, <1>6 DEF Placed, Running, SystemBacks
  <2>2. LocalsAt(Placed)
    BY LocalsPlaced DEF SearchInv
  <2>3. Placed # "recommended"
    BY <1>2 DEF Placed, Running, SystemBacks
  <2>4. LocalsAt(Placed)'
    BY <1>1, <2>1, <2>2, <2>3 DEF LocalsAt, NInstalled
  <2>5. (Phases => (Locals <=> LocalsAt(Placed)))'
    BY LocalsPlaced, PTL
  <2>6. QED BY <1>7, <2>4, <2>5
<1>9. Branches'
  <2>1. BranchesAt(branches', trail'.map, level')
    BY <1>1, <1>2, NoBranches
  <2>2. (Branches <=> BranchesAt(branches, trail.map, level))'
    BY BranchesAre, PTL
  <2>3. QED BY <2>1, <2>2
<1>10. Recommendations'
  <2>1. RecommendedAt(recommendations', trail'.q)
    BY <1>1, <1>2, NoneRecommended
  <2>2. (Recommendations <=> RecommendationsPlaced)'
    BY RecommendationsAre, PTL
  <2>3. QED BY <1>1, <1>2, <2>1, <2>2 DEF RecommendationsPlaced
<1>11. WatchesGuard'
  <2>1. ~\E k \in 1..0 : TRUE
    OBVIOUS
  <2>2. QED BY <1>1, <1>2, <2>1 DEF WatchesGuard, Noticed
<1>12. pc' # "analyze" /\ ExtrasHaveSolution'
  BY <1>6 DEF ExtrasHaveSolution, InExtras, Extras, UncheckedCallers, SystemBacks
<1>13. QED BY <1>3, <1>5, <1>7, <1>8, <1>9, <1>10, <1>11, <1>12, NotAnalysing DEF SearchInv

\* A problem is reported.
LEMMA ProblemAdded ==
  ASSUME Problems, NEW x, x.proof \subseteq DOMAIN rules, ~Satisfiable(Solvables, rules, x.proof),
         problems' = Append(problems, x), rules' = rules
  PROVE  Problems'
<1> DEFINE n == Len(problems)
           T == Range(problems) \cup {x}
<1>1. problems \in Seq(Range(problems))
  BY DEF Problems
<1>2. problems \in Seq(T) /\ n \in Nat /\ DOMAIN problems = 1..n
  BY <1>1
<1>3. problems' \in Seq(T) /\ DOMAIN problems' = 1..(n + 1) /\ problems'[n + 1] = x
      /\ \A k \in 1..n : problems'[k] = problems[k]
  BY <1>2
<1>4. problems' \in Seq(Range(problems'))
  <2>1. Len(problems') = n + 1 /\ \A k \in 1..(n + 1) : problems'[k] \in Range(problems')
    BY <1>2, <1>3 DEF Range
  <2>2. QED BY <1>3, <2>1
<1>5. ASSUME NEW k \in DOMAIN problems'
      PROVE  problems'[k].proof \subseteq DOMAIN rules /\ ~Satisfiable(Solvables, rules, problems'[k].proof)
  <2>1. k = n + 1 \/ k \in 1..n
    BY <1>2, <1>3
  <2>2. CASE k = n + 1
    BY <1>3, <2>2
  <2>3. CASE k \in 1..n
    BY <1>2, <1>3, <2>3 DEF Problems
  <2>4. QED BY <2>1, <2>2, <2>3
<1>6. QED BY <1>4, <1>5 DEF Problems

\* Problems stay as long as the rules do.
LEMMA ProblemsStay ==
  ASSUME Problems, UNCHANGED <<rules, problems>>
  PROVE  Problems'
BY DEF Problems

\* An assertion is decided.
LEMMA AssertionGrows ==
  ASSUME SearchInv, pc \in {"assert", "assertweak"}, NEW i \in DOMAIN rules, IsAssertion(rules[i]),
         IsUndef(trail.map, rules[i].lits[1]), trail' = Decide(trail, rules[i].lits[1], i, 1)
  PROVE  /\ TrailWhole(trail', rules, NSolvables) /\ TopLevel(trail') = 1
         /\ \A k \in DOMAIN trail'.q : trail'.why[k] > 0 => IsAssertion(rules[trail'.why[k]])
<1>1. /\ i \in -Len(rules)..Len(rules) /\ i > 0 /\ Len(rules) \in Nat
      /\ rules[i].lits[1] \in Literals(Solvables) /\ Range(rules[i].lits) = {rules[i].lits[1]}
  <2>1. /\ Len(rules) \in Nat /\ DOMAIN rules = 1..Len(rules)
        /\ rules[i].lits[1] \in Lits(i) /\ Lits(i) \subseteq Literals(Solvables)
        /\ Lits(i) = {rules[i].lits[1]}
    BY RuleFacts DEF SearchInv
  <2>2. i \in -Len(rules)..Len(rules) /\ i > 0
    BY <2>1
  <2>3. QED BY <2>1, <2>2 DEF Lits
<1>2. TopLevel(trail) = 1 /\ TrailWhole(trail, rules, NSolvables)
  BY AssertFacts, TrailFacts
<1>3. GrewBy(trail', trail, rules, rules[i].lits[1], i, 1)
  BY <1>1, <1>2, DecideGrows
<1>4. ASSUME NEW k \in DOMAIN trail'.q, trail'.why[k] > 0 PROVE IsAssertion(rules[trail'.why[k]])
  <2>1. Len(trail.q) \in Nat /\ DOMAIN trail.q = 1..Len(trail.q)
    BY TrailFacts
  <2>2. k = Len(trail.q) + 1 \/ k \in 1..Len(trail.q)
    BY <1>3, <2>1 DEF GrewBy
  <2>3. CASE k = Len(trail.q) + 1
    BY <1>3, <2>3 DEF GrewBy
  <2>4. CASE k \in 1..Len(trail.q)
    BY <1>3, <1>4, <2>1, <2>4, AssertFacts DEF GrewBy
  <2>5. QED BY <2>2, <2>3, <2>4
<1>5. QED BY <1>3, <1>4 DEF GrewBy

\* An assertion contradicts the one that decided the opposite.
LEMMA Opposing ==
  ASSUME SearchInv, pc \in {"assert", "assertweak"}, NEW i \in DOMAIN rules, IsAssertion(rules[i]),
         IsFalse(trail.map, rules[i].lits[1])
  PROVE  /\ trail.why[Opposite(i)] \in 0..Len(rules)
         /\ trail.why[Opposite(i)] > 0 => ~Satisfiable(Solvables, rules, {i, trail.why[Opposite(i)]})
         /\ rules[i].lits[1] = -SYSTEMSOLVABLE =>
              /\ trail.why[Opposite(i)] = 0
              /\ ~Satisfiable(Solvables, rules, {i})
<1> DEFINE lit == rules[i].lits[1]
           k == Opposite(i)
           r == trail.why[k]
<1>1. lit \in Literals(Solvables) /\ Range(rules[i].lits) = {lit} /\ Len(rules) \in Nat /\ DOMAIN rules = 1..Len(rules)
  BY RuleFacts DEF SearchInv, Lits
<1>2. k \in 1..Len(trail.q) /\ trail.q[k] = -lit
  <2>1. \E j \in DOMAIN trail.q : trail.q[j] = -lit
    BY <1>1, TrailFacts
  <2>2. k \in DOMAIN trail.q /\ trail.q[k] = -lit
    BY <2>1 DEF Opposite
  <2>3. QED BY <2>2, TrailFacts
<1>3. /\ TrailWhole(trail, rules, NSolvables) /\ Len(trail.q) \in Nat /\ DOMAIN trail.q = 1..Len(trail.q)
      /\ \A j \in 1..Len(trail.q) : LevelIn(trail, j) = 1
  BY TrailFacts, AssertFacts
<1> HIDE DEF k
<1>4. r \in -Len(rules)..Len(rules) /\ (k = 1 => r = 0) /\ (k # 1 => r > 0)
  <2>1. r \in -Len(rules)..Len(rules)
    BY <1>2, <1>3 DEF TrailWhole, Reasons
  <2>2. k = 1 => r = 0
    BY <1>3 DEF TrailWhole, Stairs
  <2>3. ASSUME k # 1 PROVE r > 0
    <3>1. k \in 2..Len(trail.q) /\ k - 1 \in 1..Len(trail.q)
      BY <1>2, <1>3, <2>3
    <3>2. LevelIn(trail, k) = 1 /\ LevelIn(trail, k - 1) = 1
      BY <1>2, <1>3, <3>1
    <3>3. r > 0 \/ LevelIn(trail, k) = LevelIn(trail, k - 1) + 1
      BY <1>3, <3>1 DEF TrailWhole, Stairs
    <3>4. QED BY <3>2, <3>3
  <2>4. QED BY <2>1, <2>2, <2>3
<1>5. r \in 0..Len(rules)
  BY <1>1, <1>4
<1>6. ASSUME NEW S PROVE ~(TrueIn(S, lit) /\ TrueIn(S, -lit))
  BY <1>1, TrailFacts DEF TrueIn
<1>7. ASSUME r > 0 PROVE ~Satisfiable(Solvables, rules, {i, r})
  <2>1. IsAssertion(rules[r]) /\ r \in DOMAIN rules
    BY <1>1, <1>2, <1>3, <1>4, <1>7, AssertFacts
  <2>2. Range(rules[r].lits) = {rules[r].lits[1]} /\ -lit \in Range(rules[r].lits)
    <3>1. Range(rules[r].lits) = {rules[r].lits[1]}
      BY <2>1, RuleFacts DEF SearchInv, Lits
    <3>2. trail.q[k] \in Range(rules[r].lits)
      BY <1>2, <1>3, <1>7 DEF TrailWhole, Reasons
    <3>3. QED BY <1>2, <3>1, <3>2
  <2>3. SUFFICES ASSUME NEW S, Holds(S, rules[i].lits), Holds(S, rules[r].lits) PROVE FALSE
    BY DEF Satisfiable, Satisfies
  <2>4. TrueIn(S, lit) /\ TrueIn(S, -lit)
    BY <1>1, <2>2, <2>3, HoldsIs
  <2>5. QED BY <1>6, <2>4
<1>8. ASSUME lit = -SYSTEMSOLVABLE PROVE r = 0 /\ ~Satisfiable(Solvables, rules, {i})
  <2>1. k = 1
    <3>1. trail.q[1] = SYSTEMSOLVABLE /\ 1 \in 1..Len(trail.q)
      BY <1>3, TrailFacts DEF TrailWhole, Stairs
    <3>2. trail.q[k] = SYSTEMSOLVABLE
      <4>1. \A x \in Int : -(-x) = x
        OBVIOUS
      <4>2. SYSTEMSOLVABLE \in Int
        BY DEF SYSTEMSOLVABLE
      <4>3. -(-SYSTEMSOLVABLE) = SYSTEMSOLVABLE
        BY <4>1, <4>2
      <4>4. trail.q[k] = -(-SYSTEMSOLVABLE)
        BY <1>2, <1>8
      <4>5. QED BY <4>3, <4>4
    <3>3. QED BY <1>2, <1>3, <3>1, <3>2 DEF TrailWhole, Agrees
  <2>2. ~Satisfiable(Solvables, rules, {i})
    <3>1. SUFFICES ASSUME NEW S \in Worlds(Solvables), Holds(S, rules[i].lits) PROVE FALSE
      BY DEF Satisfiable, Satisfies
    <3>2. TrueIn(S, lit)
      BY <1>1, <3>1, HoldsIs
    <3>3. SYSTEMSOLVABLE \in S
      BY DEF Worlds
    <3>4. QED BY <1>8, <3>2, <3>3 DEF TrueIn, SYSTEMSOLVABLE
  <2>3. QED BY <1>4, <2>1, <2>2
<1>9. QED BY <1>5, <1>7, <1>8 DEF k

\* A step of makeruledecisions keeps the invariant.
LEMMA AssertKeeps ==
  ASSUME SearchInv, AssertStep
  PROVE  SearchInv'
<1>1. /\ pc \in {"assert", "assertweak"}
      /\ UNCHANGED <<in, ruleVars, propagate_index, branches, recommendations, level,
                     systemlevel, caller, an, loc>>
      /\ pc' \in {"assert", "assertweak"} \/ (pc' = caller.at /\ visit' = 0)
  BY DEF AssertStep, AssertDecide, AssertDisableLearnt, AssertAgainstFixed, AssertAgainstPolicy,
         AssertConflict, AssertRule, AssertPhase1Done, AssertWeakDecide, AssertWeakConflict, AssertDone,
         searchVars
<1>2. /\ TrailWhole(trail, rules, NSolvables) /\ TopLevel(trail) = 1
      /\ \A k \in DOMAIN trail.q : trail.why[k] > 0 => IsAssertion(rules[trail.why[k]])
      /\ Len(trail.q) \in Nat /\ Len(trail.q) > 0 /\ DOMAIN trail.q = 1..Len(trail.q)
  BY <1>1, AssertFacts, TrailFacts
<1>3. /\ RulesTyped /\ RulesGrow /\ Problems /\ disabled \subseteq DOMAIN rules /\ rules' = rules
      /\ Len(rules) \in Nat /\ DOMAIN rules = 1..Len(rules) /\ DOMAIN rules \subseteq Nat
  BY <1>1, RuleFacts DEF SearchInv, RulesTyped, ruleVars
<1>4. /\ pc = "assert" /\ PendingAssertions \ WeakRules(rules) # {} =>
           Assertion \in DOMAIN rules /\ IsAssertion(rules[Assertion])
      /\ pc = "assertweak" /\ PendingAssertions \cap WeakRules(rules) # {} =>
           WeakAssertion \in DOMAIN rules /\ IsAssertion(rules[WeakAssertion])
  BY <1>3, AssertionFacts DEF PendingAssertions
<1>5. ASSUME UNCHANGED problems PROVE Problems'
  BY <1>3, <1>5, ProblemsStay
<1>6. ASSUME UNCHANGED trail
      PROVE  /\ TrailWhole(trail', rules, NSolvables) /\ TopLevel(trail') = 1
             /\ \A k \in DOMAIN trail'.q : trail'.why[k] > 0 => IsAssertion(rules[trail'.why[k]])
  BY <1>2, <1>6
<1>7. CASE AssertDecide \/ AssertWeakDecide
  <2>1. PICK i \in DOMAIN rules : /\ IsAssertion(rules[i]) /\ IsUndef(trail.map, rules[i].lits[1])
                                  /\ trail' = Decide(trail, rules[i].lits[1], i, 1) /\ visit' = i + 1
    BY <1>4, <1>7 DEF AssertDecide, AssertWeakDecide, AssertRule
  <2>2. disabled' = disabled /\ problems' = problems
    BY <1>7 DEF AssertDecide, AssertWeakDecide
  <2>3. /\ TrailWhole(trail', rules, NSolvables) /\ TopLevel(trail') = 1
        /\ \A k \in DOMAIN trail'.q : trail'.why[k] > 0 => IsAssertion(rules[trail'.why[k]])
    BY <1>1, <2>1, AssertionGrows
  <2>4. visit' \in Nat
    BY <1>3, <2>1
  <2>5. QED BY <1>1, <1>3, <1>5, <2>2, <2>3, <2>4, AssertFrame
<1>8. CASE AssertDisableLearnt \/ AssertAgainstFixed
  <2>1. /\ Assertion \in DOMAIN rules /\ IsAssertion(rules[Assertion]) /\ visit' = Assertion + 1
        /\ IsFalse(trail.map, rules[Assertion].lits[1]) /\ UNCHANGED trail
    BY <1>4, <1>8 DEF AssertDisableLearnt, AssertAgainstFixed, AssertConflict, AssertRule, searchVars
  <2>2. visit' \in Nat
    BY <1>3, <2>1
  <2>3. disabled' \subseteq DOMAIN rules
    <3>1. DisableProblem(disabled, JobProblem(rules, Assertion)) \subseteq DOMAIN rules
      BY <1>3, <2>1, DropFits
    <3>2. QED BY <1>3, <1>8, <2>1, <3>1 DEF AssertDisableLearnt, AssertAgainstFixed
  <2>4. Problems'
    <3>1. CASE AssertDisableLearnt
      BY <1>5, <3>1 DEF AssertDisableLearnt
    <3>2. CASE AssertAgainstFixed
      <4> DEFINE r == trail.why[Opposite(Assertion)]
                 x == [ids |-> {JobProblem(rules, Assertion)}, proof |-> {Assertion, r} \ {0}]
      <4>1. problems' = Append(problems, x)
        BY <3>2 DEF AssertAgainstFixed
      <4>2. /\ r \in 0..Len(rules)
            /\ r > 0 => ~Satisfiable(Solvables, rules, {Assertion, r})
            /\ rules[Assertion].lits[1] = -SYSTEMSOLVABLE =>
                 r = 0 /\ ~Satisfiable(Solvables, rules, {Assertion})
        BY <1>1, <2>1, Opposing
      <4>3. rules[Assertion].lits[1] = -SYSTEMSOLVABLE \/ r > 0
        BY <3>2 DEF AssertAgainstFixed
      <4>4. x.proof = IF r > 0 THEN {Assertion, r} ELSE {Assertion}
        <5>1. Assertion # 0 /\ r \in Nat
          BY <1>3, <2>1, <4>2
        <5>2. QED BY <5>1
      <4>5. x.proof \subseteq DOMAIN rules
        <5>1. r > 0 => r \in DOMAIN rules
          BY <1>3, <4>2
        <5>2. QED BY <2>1, <4>4, <5>1
      <4>6. ~Satisfiable(Solvables, rules, x.proof)
        BY <4>2, <4>3, <4>4
      <4> HIDE DEF x
      <4>7. QED BY <1>3, <4>1, <4>5, <4>6, ProblemAdded
    <3>3. QED BY <1>8, <3>1, <3>2
  <2>5. QED BY <1>1, <1>6, <2>1, <2>2, <2>3, <2>4, AssertFrame
<1>9. CASE AssertAgainstPolicy
  <2> DEFINE r == trail.why[Opposite(Assertion)]
             about == {i \in Original(rules) \ (RulesIn(rules, "rpm") \cup WeakRules(rules)) :
                         /\ Enabled(i) /\ IsAssertion(rules[i])
                         /\ Var(rules[i].lits[1]) = Var(rules[Assertion].lits[1])}
             ids == {JobProblem(rules, i) : i \in about}
             x == [ids |-> ids, proof |-> {Assertion, r}]
  <2>1. /\ Assertion \in DOMAIN rules /\ IsAssertion(rules[Assertion])
        /\ IsFalse(trail.map, rules[Assertion].lits[1])
    BY <1>4, <1>9 DEF AssertAgainstPolicy, AssertConflict, AssertRule
  <2>2. /\ r > 0 /\ problems' = Append(problems, x) /\ disabled' = DisableProblems(disabled, ids)
        /\ trail' = Cut(trail, 1) /\ visit' = 1
    BY <1>9 DEF AssertAgainstPolicy
  <2>3. disabled' \subseteq DOMAIN rules
    <3>1. about \subseteq DOMAIN rules
      BY DEF Original
    <3>2. \A i \in about : ProblemRules(rules, JobProblem(rules, i)) \subseteq DOMAIN rules
      BY <1>3, <3>1, GroupFits
    <3>3. QED BY <1>3, <2>2, <3>2 DEF DisableProblems
  <2>4. Problems'
    <3>1. /\ r \in 0..Len(rules)
          /\ r > 0 => ~Satisfiable(Solvables, rules, {Assertion, r})
      BY <1>1, <2>1, Opposing
    <3>2. x.proof \subseteq DOMAIN rules
      BY <1>3, <2>1, <2>2, <3>1
    <3>3. x.proof = {Assertion, r}
      OBVIOUS
    <3> HIDE DEF x, r
    <3>4. QED BY <1>3, <2>2, <3>1, <3>2, <3>3, ProblemAdded
  <2>5. /\ TrailWhole(trail', rules, NSolvables) /\ TopLevel(trail') = 1
        /\ \A k \in DOMAIN trail'.q : trail'.why[k] > 0 => IsAssertion(rules[trail'.why[k]])
    <3>1. 1 \in 1..Len(trail.q) /\ LevelIn(trail, 1) = 1
      BY <1>1, <1>2, AssertFacts, TrailFacts
    <3>2. /\ TrailWhole(Cut(trail, 1), rules, NSolvables) /\ TopLevel(Cut(trail, 1)) = 1
          /\ DOMAIN Cut(trail, 1).q = 1..1
          /\ \A j \in 1..1 : Cut(trail, 1).why[j] = trail.why[j]
      BY <1>2, <3>1, CutWhole, SolvablesAssumption
    <3>3. QED BY <1>2, <2>2, <3>1, <3>2
  <2>6. QED BY <1>1, <2>2, <2>3, <2>4, <2>5, AssertFrame
<1>10. CASE AssertPhase1Done \/ AssertDone
  <2>1. visit' \in Nat /\ disabled' = disabled /\ problems' = problems /\ trail' = trail
    BY <1>10 DEF AssertPhase1Done, AssertDone, searchVars
  <2>2. QED BY <1>1, <1>3, <1>5, <1>6, <2>1, AssertFrame
<1>11. CASE AssertWeakConflict
  <2>1. /\ WeakAssertion \in DOMAIN rules /\ visit' = WeakAssertion + 1
        /\ disabled' = AfterDrop(disabled, JobProblem(rules, WeakAssertion))
        /\ UNCHANGED <<trail, problems>>
    BY <1>4, <1>11 DEF AssertWeakConflict, searchVars
  <2>2. visit' \in Nat /\ disabled' \subseteq DOMAIN rules
    BY <1>3, <2>1, DropFits
  <2>3. QED BY <1>1, <1>5, <1>6, <2>1, <2>2, AssertFrame
<1>12. QED BY <1>7, <1>8, <1>9, <1>10, <1>11 DEF AssertStep
=============================================================================
