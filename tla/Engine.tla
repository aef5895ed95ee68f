------------------------------- MODULE Engine -------------------------------
(***************************************************************************)
(* The dependency solver's engine (solver.c): what solver_run_sat calls to *)
(* search.  The assertion rules (makeruledecisions), unit propagation with *)
(* two watched literals (propagate), conflict analysis with learning       *)
(* (analyze, setpropagatelearn), the analysis of an unsolvable situation,  *)
(* which disables rules and starts over (analyze_unsolvable,               *)
(* solver_reset), and the selection of a candidate (selectandinstall).     *)
(* Solver adds the main loop.  The rules are made elsewhere and are an     *)
(* input.                                                                  *)
(*                                                                         *)
(* The solver is sequential.  One step of the model is one rule visited by *)
(* propagate, one rule resolved by analyze, one assertion turned into a    *)
(* decision, or one decision of a phase of the main loop.  The only choice *)
(* left open is the policy's: which candidates policy_filter_unwanted      *)
(* keeps, and in which order.                                              *)
(*                                                                         *)
(* An operator whose name ends in _ and a word is a slip the code could    *)
(* have had; nothing uses it but the run that shows a property catches it. *)
(***************************************************************************)
EXTENDS Trail

CONSTANTS
  NSolvables,   \* solvables are 1..NSolvables, the system solvable first
  Inputs        \* the solver problems considered, see WellFormed

VARIABLES
  in,              \* the problem being solved, a member of Inputs
  rules,           \* the rule array; learnt rules are appended to it
  disabled,        \* the rules whose d is negative
  w,               \* per rule, <<w1, w2>>
  watches,         \* per literal, the list of the rules that watch it
  policy,          \* the maps noupdate and cleandepsmap
  problems,        \* the problems found, each with its proof
  trail,           \* decisionq, decisionq_why, decisionmap
  propagate_index, \* the decisions propagated so far
  branches,        \* open choices: alternatives and the level left behind
  recommendations, \* the solvables installed because they are recommended
  pc,              \* the place in the code
  level,           \* level of solver_run_sat and setpropagatelearn
  systemlevel,
  caller,          \* who waits for setpropagatelearn, and what it remembers
  visit,           \* how far makeruledecisions or propagate is in its list
  an,              \* the local variables of analyze
  loc              \* the local variables of the loops

ruleVars == <<rules, w, watches>>
searchVars == <<trail, propagate_index, branches, recommendations>>
vars == <<in, ruleVars, disabled, policy, problems, searchVars, pc, level,
          systemlevel, caller, visit, an, loc>>

Solvables == 1..NSolvables

Undecided(p) == trail.map[p] = 0
Installed(p) == trail.map[p] > 0

Enabled(i) == i \notin disabled

\* FOR_RULELITERALS, as a set.
Lits(i) == Range(rules[i].lits)

NoDecision == [at |-> "top", olevel |-> 1, disablerules |-> FALSE]

NoAnalysis ==
  [c |-> 0, idx |-> 0, seen |-> {}, num |-> 0, l1num |-> 0, r |-> <<>>,
   rlevel |-> 1, why |-> {}, p |-> 0, done |-> FALSE]

NoLocals ==
  [i |-> 1, n |-> 1, pass |-> 0, passlevel |-> 1, installedpos |-> 1,
   dqs |-> {}, dqmap |-> {}, decisioncount |-> 0, pkg |-> 0, rec |-> 1,
   installedone |-> FALSE]

----------------------------------------------------------------------------
(* The problem: what solver_solve has prepared when it calls               *)
(* solver_run_sat.                                                         *)

\* A member of Inputs is a record
\*   rules        the rule array before anything is learnt
\*   off          the rules disabled when they were made (feature rules whose
\*                update rule differs)
\*   installed    the installed packages, in order
\*   upd, feat    per solvable, its update and its feature rule, 0 for none
\*   updatemap, updateall   the packages to update
\*   multiversion per solvable, the candidates among which the best is chosen if
\*                some of them may be installed beside it (multiversionupdaters)
\*   jobpolicy    per job, what jobtodisablelist makes of it: pairs of "update"
\*                and a package, or "infarch" or "dup" and a package name
\*   cleandeps    per job, the packages it makes superfluous
\*   choiceref    per choice rule, the rule it was made from
\*   recommends   per solvable, the lists of providers of its recommendations
\*   supplements  per solvable, the solvables that trigger it
\*   obsoletes    per solvable, what it obsoletes
\*   orphaned, dupall, drop   the orphans, and which packages a distribution
\*                upgrade drops
\*   ignorerecommended, callback, doweak, disablerules   the solver's flags
WellFormed(input) == ProblemFits(Solvables, input)

ASSUME SolvablesAssumption == NSolvables \in Nat /\ NSolvables > 0

ASSUME InputsAssumption == \A input \in Inputs : WellFormed(input)

\* The rules an entry of jobtodisablelist stands for: both policy rules of an
\* installed package, or the infarch or dup rules of a package name.
PolicyRules(input, entry) ==
  IF entry[1] = "update"
    THEN {input.upd[entry[2]], input.feat[entry[2]]} \ {0}
    ELSE {i \in RulesIn(input.rules, entry[1]) : input.rules[i].grp = entry[2]}

\* The jobs that have an enabled rule.
EnabledJobs(input, dis) ==
  {input.rules[i].grp : i \in RulesIn(input.rules, "job") \ dis}

CleanDeps(input, dis) == UNION {input.cleandeps[j] : j \in EnabledJobs(input, dis)}

\* What solver_disablepolicyrules and solver_reenablepolicyrules collect: the
\* entries of every enabled job, and the packages on the way out.
DisableList(input, dis, clean) ==
  {<<"update", p>> : p \in clean}
    \cup UNION {input.jobpolicy[j] : j \in EnabledJobs(input, dis)}

UpdatesOf(entries) == {e[2] : e \in {x \in entries : x[1] = "update"}}

\* makewatches: w1 on the first literal, w2 on the second, and every list in
\* the order of the rule array.
FirstWatches(rs) ==
  [i \in DOMAIN rs |-> IF IsAssertion(rs[i]) THEN <<rs[i].lits[1], 0>>
                                             ELSE <<rs[i].lits[1], rs[i].lits[2]>>]

Watches(rs, ws) ==
  [l \in Literals(Solvables) |->
     Only([i \in DOMAIN rs |-> i],
          {i \in DOMAIN rs : ~IsAssertion(rs[i]) /\ l \in {ws[i][1], ws[i][2]}})]

Init ==
  /\ in \in Inputs
  /\ rules = in.rules
  /\ LET clean   == CleanDeps(in, in.off)
         entries == DisableList(in, in.off, clean)
     IN  /\ policy = [noupdate |-> UpdatesOf(entries), cleandeps |-> clean]
         /\ disabled = in.off \cup UNION {PolicyRules(in, e) : e \in entries}
  /\ w = FirstWatches(rules)
  /\ watches = Watches(rules, w)
  /\ problems = <<>>
  /\ trail = Decide(EmptyTrail(NSolvables), SYSTEMSOLVABLE, 0, 1)
  /\ propagate_index = 0
  /\ branches = <<>>
  /\ recommendations = <<>>
  /\ pc = "assert"
  /\ level = 1
  /\ systemlevel = 2
  /\ caller = NoDecision
  /\ visit = 1
  /\ an = NoAnalysis
  /\ loc = NoLocals

----------------------------------------------------------------------------
(* Disabling rules, and enabling the policy rules a disabled job held back *)

\* reenableupdaterule enables the feature rule only where there is no update
\* rule; an infarch or dup name gets back all its rules.
ReenabledRules(entry) ==
  IF entry[1] = "update" /\ in.upd[entry[2]] # 0
    THEN {in.upd[entry[2]]}
    ELSE PolicyRules(in, entry)

\* Only the first rule of a job or of a package name.
DisableProblems_First(dis, ids) == dis \cup {Min(ProblemRules(rules, v)) : v \in ids}

\* solver_disableproblem for every problem id in ids.
DisableProblems(dis, ids) == dis \cup UNION {ProblemRules(rules, v) : v \in ids}

\* The callers that drop a weak rule also call solver_reenablepolicyrules for
\* the rule's job: what no other job holds back is enabled again, and
\* cleandepsmap is computed anew unless the job has nothing to give back.
DisableProblem(dis, v) == DisableProblems(dis, {v})

Returned(dis, v) ==
  IF v < 0 THEN in.jobpolicy[-v] \ DisableList(in, dis, CleanDeps(in, dis)) ELSE {}

AfterDrop(dis, v) ==
  LET off == DisableProblem(dis, v)
  IN  off \ UNION {ReenabledRules(e) : e \in Returned(off, v)}

PolicyAfterDrop(dis, v) ==
  LET off == DisableProblem(dis, v)
  IN  [noupdate  |-> policy.noupdate \ UpdatesOf(Returned(off, v)),
       cleandeps |-> IF v < 0 /\ in.jobpolicy[-v] # {}
                       THEN CleanDeps(in, off) ELSE policy.cleandeps]

\* solver_disablechoicerules: with choice rule i go all choice rules made from
\* a rule that shares one of the literals that i left out of its own.
ChoiceRulesWith(i) ==
  LET positive(k) == {l \in Lits(k) : l > 0}
      left == positive(in.choiceref[i]) \ positive(i)
  IN  {k \in RulesIn(rules, "choice") : positive(in.choiceref[k]) \cap left # {}}

----------------------------------------------------------------------------
(* makeruledecisions.  Phase 1, pc "assert": the assertions that are not   *)
(* weak, in the order of the rule array, decided at level 1.  visit is the *)
(* next rule to look at.                                                   *)

\* The scan starts behind the next rule.
PendingAssertions_Late ==
  {i \in DOMAIN rules : i > visit /\ IsAssertion(rules[i]) /\ Enabled(i)
                        /\ ~IsTrue(trail.map, rules[i].lits[1])}

PendingAssertions ==
  {i \in DOMAIN rules : i >= visit /\ IsAssertion(rules[i]) /\ Enabled(i)
                        /\ ~IsTrue(trail.map, rules[i].lits[1])}

Assertion == Min(PendingAssertions \ WeakRules(rules))

\* The decision that contradicts rule i's assertion, and the rule it is from.
Opposite(i) == CHOOSE k \in DOMAIN trail.q : trail.q[k] = -rules[i].lits[1]

AssertRule ==
  /\ pc = "assert"
  /\ PendingAssertions \ WeakRules(rules) # {}

AssertDecide ==
  /\ AssertRule
  /\ LET lit == rules[Assertion].lits[1] IN
       /\ IsUndef(trail.map, lit)
       /\ trail' = Decide(trail, lit, Assertion, 1)
  /\ visit' = Assertion + 1
  /\ UNCHANGED <<in, ruleVars, disabled, policy, problems, propagate_index,
                 branches, recommendations, pc, level, systemlevel, caller, an, loc>>

AssertConflict ==
  /\ AssertRule
  /\ IsFalse(trail.map, rules[Assertion].lits[1])

\* A learnt assertion that is in conflict is disabled and nothing is reported.
AssertDisableLearnt ==
  /\ AssertConflict
  /\ rules[Assertion].area = "learnt"
  /\ disabled' = disabled \cup {Assertion}
  /\ visit' = Assertion + 1
  /\ UNCHANGED <<in, ruleVars, policy, problems, searchVars, pc, level,
                 systemlevel, caller, an, loc>>

\* A conflict with the system solvable, or with a decision forced by an rpm
\* rule: the rule alone is the problem, and the decisions made so far stay.
AssertAgainstFixed ==
  /\ AssertConflict
  /\ rules[Assertion].area # "learnt"
  /\ LET reason == trail.why[Opposite(Assertion)]
         v      == JobProblem(rules, Assertion)
     IN  /\ \/ rules[Assertion].lits[1] = -SYSTEMSOLVABLE
            \/ /\ reason > 0
               /\ rules[reason].area = "rpm"
               /\ rules[Assertion].lits[1] > 0
         /\ problems' = Append(problems,
                          [ids |-> {v}, proof |-> {Assertion, reason} \ {0}])
         /\ disabled' = DisableProblem(disabled, v)
  /\ visit' = Assertion + 1
  /\ UNCHANGED <<in, ruleVars, policy, searchVars, pc, level, systemlevel,
                 caller, an, loc>>

\* Any other conflict: every feature to choice assertion about the solvable is
\* reported and disabled, and the assertions are decided again from the start.
AssertAgainstPolicy ==
  /\ AssertConflict
  /\ rules[Assertion].area # "learnt"
  /\ LET reason == trail.why[Opposite(Assertion)]
         about  == {i \in Original(rules) \ (RulesIn(rules, "rpm") \cup WeakRules(rules)) :
                      /\ Enabled(i) /\ IsAssertion(rules[i])
                      /\ Var(rules[i].lits[1]) = Var(rules[Assertion].lits[1])}
         ids    == {JobProblem(rules, i) : i \in about}
     IN  /\ reason > 0
         /\ rules[reason].area # "rpm"
         /\ problems' = Append(problems, [ids |-> ids, proof |-> {Assertion, reason}])
         /\ disabled' = DisableProblems(disabled, ids)
  /\ trail' = Cut(trail, 1)
  /\ visit' = 1
  /\ UNCHANGED <<in, ruleVars, policy, propagate_index, branches,
                 recommendations, pc, level, systemlevel, caller, an, loc>>

AssertPhase1Done ==
  /\ pc = "assert"
  /\ PendingAssertions \subseteq WeakRules(rules)
  /\ pc' = "assertweak"
  /\ visit' = 1
  /\ UNCHANGED <<in, ruleVars, disabled, policy, problems, searchVars, level,
                 systemlevel, caller, an, loc>>

(* Phase 2, pc "assertweak": the weak assertions.  One that is in conflict *)
(* is disabled, with its job; the decisions made so far stay.              *)

WeakAssertion == Min(PendingAssertions \cap WeakRules(rules))

AssertWeakDecide ==
  /\ pc = "assertweak"
  /\ PendingAssertions \cap WeakRules(rules) # {}
  /\ LET lit == rules[WeakAssertion].lits[1] IN
       /\ IsUndef(trail.map, lit)
       /\ trail' = Decide(trail, lit, WeakAssertion, 1)
  /\ visit' = WeakAssertion + 1
  /\ UNCHANGED <<in, ruleVars, disabled, policy, problems, propagate_index,
                 branches, recommendations, pc, level, systemlevel, caller, an, loc>>

AssertWeakConflict ==
  /\ pc = "assertweak"
  /\ PendingAssertions \cap WeakRules(rules) # {}
  /\ IsFalse(trail.map, rules[WeakAssertion].lits[1])
  /\ disabled' = AfterDrop(disabled, JobProblem(rules, WeakAssertion))
  /\ policy' = PolicyAfterDrop(disabled, JobProblem(rules, WeakAssertion))
  /\ visit' = WeakAssertion + 1
  /\ UNCHANGED <<in, ruleVars, problems, searchVars, pc, level, systemlevel,
                 caller, an, loc>>

AssertDone ==
  /\ pc = "assertweak"
  /\ PendingAssertions \cap WeakRules(rules) = {}
  /\ pc' = caller.at
  /\ visit' = 0
  /\ UNCHANGED <<in, ruleVars, disabled, policy, problems, searchVars, level,
                 systemlevel, caller, an, loc>>

----------------------------------------------------------------------------
(* solver_reset: forget the decisions, adapt the learnt rules to the rules *)
(* that are disabled now, and make the assertion decisions again.          *)

\* Learnt rules are never disabled again: their proofs are not looked at.
WithLearnt_Stale(dis) == dis

\* enabledisablelearntrules: a learnt rule is off if a rule of its proof is.
WithLearnt(dis) ==
  LET off[i \in Learnt(rules)] ==
        \E k \in rules[i].why : IF k \in Learnt(rules) THEN off[k] ELSE k \in dis
  IN  (dis \ Learnt(rules)) \cup {i \in Learnt(rules) : off[i]}

\* The caller of setpropagatelearn gets the answer 1; the main loop, which has
\* no decision to come back to, starts again.
Reset(dis) ==
  /\ disabled' = WithLearnt(dis)
  /\ trail' = Decide(EmptyTrail(NSolvables), SYSTEMSOLVABLE, 0, 1)
  /\ propagate_index' = 0
  /\ recommendations' = <<>>
  /\ branches' = <<>>
  /\ visit' = 1
  /\ level' = 1
  /\ caller' = [caller EXCEPT !.at = IF @ = "jobs" THEN "top" ELSE @]
  /\ pc' = "assert"

----------------------------------------------------------------------------
(* propagate, pc "propagate".  Falsified is the literal the decision being *)
(* propagated made false; visit walks the list of the rules that watch it  *)
(* (0 when no decision is being propagated).                               *)

Falsified == -trail.q[propagate_index]

Visiting == visit > 0 /\ visit <= Len(watches[Falsified])

Visited == watches[Falsified][visit]

\* The place among w1, w2 of the watch that triggered, and the other watch.
Triggered == IF w[Visited][1] = Falsified THEN 1 ELSE 2

OtherWatch == w[Visited][3 - Triggered]

\* A rule needs nothing if it is disabled or its other watch is true.
Settled == ~Enabled(Visited) \/ IsTrue(trail.map, OtherWatch)

\* Undecided literals are passed over.
Unfalsified_True ==
  {k \in DOMAIN rules[Visited].lits :
     /\ rules[Visited].lits[k] # OtherWatch
     /\ IsTrue(trail.map, rules[Visited].lits[k])}

\* The places in the rule of the literals the watch can move to; it moves to
\* the first of them.
Unfalsified ==
  {k \in DOMAIN rules[Visited].lits :
     /\ rules[Visited].lits[k] # OtherWatch
     /\ ~IsFalse(trail.map, rules[Visited].lits[k])}

NewWatch == rules[Visited].lits[Min(Unfalsified)]

PropagateNext ==
  /\ pc = "propagate"
  /\ ~Visiting
  /\ propagate_index < Len(trail.q)
  /\ propagate_index' = propagate_index + 1
  /\ visit' = 1
  /\ UNCHANGED <<in, ruleVars, disabled, policy, problems, trail, branches,
                 recommendations, pc, level, systemlevel, caller, an, loc>>

PropagateSkip ==
  /\ pc = "propagate"
  /\ Visiting
  /\ Settled
  /\ visit' = visit + 1
  /\ UNCHANGED <<in, ruleVars, disabled, policy, problems, searchVars, pc,
                 level, systemlevel, caller, an, loc>>

\* The next rule on the list is passed over as well.
PropagateMove_Skips ==
  /\ pc = "propagate"
  /\ Visiting
  /\ ~Settled
  /\ Unfalsified # {}
  /\ w' = [w EXCEPT ![Visited][Triggered] = NewWatch]
  /\ watches' = [watches EXCEPT ![Falsified] = RemoveAt(@, visit),
                                ![NewWatch] = <<Visited>> \o @]
  /\ visit' = visit + 1
  /\ UNCHANGED <<in, rules, disabled, policy, problems, searchVars, pc, level,
                 systemlevel, caller, an, loc>>

\* The rule stays on the list it leaves.
PropagateMove_Twice ==
  /\ pc = "propagate"
  /\ Visiting
  /\ ~Settled
  /\ Unfalsified # {}
  /\ w' = [w EXCEPT ![Visited][Triggered] = NewWatch]
  /\ watches' = [watches EXCEPT ![NewWatch] = <<Visited>> \o @]
  /\ visit' = visit + 1
  /\ UNCHANGED <<in, rules, disabled, policy, problems, searchVars, pc, level,
                 systemlevel, caller, an, loc>>

\* The watch moves to a literal that is not false; the rule leaves the list
\* being walked, so visit stays, and goes to the front of the other.
PropagateMove ==
  /\ pc = "propagate"
  /\ Visiting
  /\ ~Settled
  /\ Unfalsified # {}
  /\ w' = [w EXCEPT ![Visited][Triggered] = NewWatch]
  /\ watches' = [watches EXCEPT ![Falsified] = RemoveAt(@, visit),
                                ![NewWatch] = <<Visited>> \o @]
  /\ UNCHANGED <<in, rules, disabled, policy, problems, searchVars, pc, level,
                 systemlevel, caller, visit, an, loc>>

\* Only the other watch is left: it must become true.
PropagateUnit ==
  /\ pc = "propagate"
  /\ Visiting
  /\ ~Settled
  /\ Unfalsified = {}
  /\ ~IsFalse(trail.map, OtherWatch)
  /\ trail' = Decide(trail, OtherWatch, Visited, level)
  /\ visit' = visit + 1
  /\ UNCHANGED <<in, ruleVars, disabled, policy, problems, propagate_index,
                 branches, recommendations, pc, level, systemlevel, caller, an, loc>>

\* Every literal of the rule is false.
Conflict ==
  /\ pc = "propagate"
  /\ Visiting
  /\ ~Settled
  /\ Unfalsified = {}
  /\ IsFalse(trail.map, OtherWatch)

PropagateDone ==
  /\ pc = "propagate"
  /\ ~Visiting
  /\ propagate_index = Len(trail.q)
  /\ pc' = caller.at
  /\ visit' = 0
  /\ UNCHANGED <<in, ruleVars, disabled, policy, problems, searchVars, level,
                 systemlevel, caller, an, loc>>

----------------------------------------------------------------------------
(* analyze_unsolvable: a rule is false at level 1.                         *)

FalseVars(i) == {Var(l) : l \in {x \in Lits(i) : ~IsTrue(trail.map, x)}}

\* The decisions that made rule cr false, found by walking the queue
\* backwards: seen[k] are the solvables marked when decision k is looked at.
Responsible(cr) ==
  LET n == Len(trail.q)
      seen[k \in 1..n] ==
        IF k = n THEN FalseVars(cr)
        ELSE seen[k + 1] \cup
               (IF Var(trail.q[k + 1]) \in seen[k + 1]
                  THEN FalseVars(trail.why[k + 1]) ELSE {})
  IN  {k \in 1..n : Var(trail.q[k]) \in seen[k]}

\* Only the rules that forced the literals of the false rule itself.
Proof_Direct(cr) ==
  {cr} \cup {trail.why[k] : k \in {j \in DOMAIN trail.q : Var(trail.q[j]) \in FalseVars(cr)}}

Proof(cr) == {cr} \cup {trail.why[k] : k \in Responsible(cr)}

\* analyze_unsolvable_rule: learnt rules are replaced by what they were
\* learnt from.
Sources(R) ==
  LET from[i \in DOMAIN rules] ==
        IF rules[i].area = "learnt" THEN UNION {from[k] : k \in rules[i].why} ELSE {i}
  IN  Original(rules) \cap UNION {from[i] : i \in R}

\* The rules of the packages are reported as well.
UnsolvableIds_All(cr) == {ProblemId(rules, i) : i \in Sources(Proof(cr))}

UnsolvableIds(cr) ==
  {ProblemId(rules, i) : i \in Sources(Proof(cr)) \ RulesIn(rules, "rpm")}

Unsolvable ==
  /\ Conflict
  /\ level = 1
  /\ \A k \in Responsible(Visited) : trail.why[k] > 0

\* The last weak rule involved is disabled and nothing is reported.
UnsolvableDropWeak ==
  /\ Unsolvable
  /\ LET weak == Sources(Proof(Visited)) \cap WeakRules(rules)
         last == Max(weak)
         v    == JobProblem(rules, last)
         off  == disabled \cup
                   (IF rules[last].area = "choice" THEN ChoiceRulesWith(last) ELSE {})
     IN  /\ weak # {}
         /\ policy' = PolicyAfterDrop(off, v)
         /\ Reset(AfterDrop(off, v))
  /\ UNCHANGED <<in, ruleVars, problems, systemlevel, an, loc>>

UnsolvableProblem ==
  /\ Unsolvable
  /\ Sources(Proof(Visited)) \cap WeakRules(rules) = {}
  /\ problems' = Append(problems, [ids |-> UnsolvableIds(Visited), proof |-> Proof(Visited)])
  /\ UNCHANGED <<in, ruleVars, policy, systemlevel, an, loc>>

UnsolvableReport ==
  /\ caller.disablerules
  /\ UnsolvableProblem
  /\ Reset(DisableProblems(disabled, UnsolvableIds(Visited)))

\* The callers for weak dependencies and orphans do not look for the 0 that
\* setpropagatelearn returns when nothing can be disabled.
UncheckedCallers == {"weak.back", "supplemented.back", "recommended.back",
                     "orphans.back", "droporphans.back"}

UnsolvableHopeless ==
  /\ ~caller.disablerules
  /\ UnsolvableProblem
  /\ level' = 0
  /\ visit' = 0
  /\ pc' = IF caller.at \in UncheckedCallers THEN caller.at ELSE "hopeless"
  /\ UNCHANGED <<disabled, searchVars, caller>>

----------------------------------------------------------------------------
(* analyze, pc "analyze": resolve the false rule with the rules that forced*)
(* its literals, newest decision first, until one literal of the current   *)
(* level is left; then do the same with the decisions of level 1 that were *)
(* met.  The record an holds                                               *)
(*    c     : the rule to resolve next, 0 if there is none (l1retry)       *)
(*    idx   : the decisions not yet looked at                              *)
(*    seen  : the marked solvables                                         *)
(*    num, l1num : marked literals of the current level, of level 1        *)
(*    r, p  : the literals of the learnt rule, p the one that will be true *)
(*    rlevel: the highest level in r                                       *)
(*    why   : the rules resolved, as a set                                 *)
(*    done  : the loop has been left                                       *)

StartAnalyze ==
  /\ Conflict
  /\ level > 1
  /\ an' = [NoAnalysis EXCEPT !.c = Visited, !.idx = Len(trail.q)]
  /\ pc' = "analyze"
  /\ UNCHANGED <<in, ruleVars, disabled, policy, problems, searchVars, level,
                 systemlevel, caller, visit, loc>>

LevelOf(l) == Level(trail.map[Var(l)])

AnalyzeRule ==
  /\ pc = "analyze"
  /\ an.c # 0
  /\ LET new      == {l \in Lits(an.c) : ~IsTrue(trail.map, l) /\ Var(l) \notin an.seen}
         at(lev)  == {l \in new : LevelOf(l) = lev}
         lower    == {l \in new : LevelOf(l) \notin {1, level}}
     IN  an' = [an EXCEPT
                  !.c      = 0,
                  !.why    = @ \cup {an.c},
                  !.seen   = @ \cup {Var(l) : l \in new},
                  !.num    = @ + Cardinality(at(level)),
                  !.l1num  = @ + Cardinality(at(1)),
                  !.r      = @ \o Only(rules[an.c].lits, lower),
                  !.rlevel = Max({@} \cup {LevelOf(l) : l \in lower})]
  /\ UNCHANGED <<in, ruleVars, disabled, policy, problems, searchVars, pc,
                 level, systemlevel, caller, visit, loc>>

\* The newest marked decision; the code asserts that there is one.
NextMarked == Max({k \in 1..an.idx : Var(trail.q[k]) \in an.seen})

AnalyzeStep ==
  /\ pc = "analyze"
  /\ an.c = 0
  /\ ~an.done
  /\ UNCHANGED <<in, ruleVars, disabled, policy, problems, searchVars, pc,
                 level, systemlevel, caller, visit, loc>>

ReasonAt(k) == IF trail.why[k] > 0 THEN trail.why[k] ELSE 0

\* More than one literal of the current level is left.
AnalyzeCurrent ==
  /\ AnalyzeStep
  /\ an.num > 1
  /\ an' = [an EXCEPT !.idx = NextMarked - 1, !.num = @ - 1,
                      !.seen = @ \ {Var(trail.q[NextMarked])},
                      !.c = ReasonAt(NextMarked)]

\* The last literal of the current level becomes p.  With literals of level 1
\* still marked, only their marks stay and their pass begins.
AnalyzeAsserting ==
  /\ AnalyzeStep
  /\ an.num = 1
  /\ an' = [an EXCEPT !.idx = NextMarked - 1, !.num = 0,
                      !.p = -trail.q[NextMarked],
                      !.seen = @ \ ({Var(trail.q[NextMarked])}
                                      \cup (IF an.l1num > 0
                                              THEN {Var(l) : l \in Range(an.r)} ELSE {})),
                      !.l1num = IF @ > 0 THEN @ + 1 ELSE @,
                      !.done = an.l1num = 0]

\* The pass over level 1 is left out.
AnalyzeLevel1_Skipped ==
  /\ AnalyzeStep
  /\ an.num = 0
  /\ an' = [an EXCEPT !.l1num = 0, !.done = TRUE]

\* The level 1 pass counts a literal off before it looks for the next.
AnalyzeLevel1 ==
  /\ AnalyzeStep
  /\ an.num = 0
  /\ an' = IF an.l1num = 1
             THEN [an EXCEPT !.l1num = 0, !.done = TRUE]
             ELSE [an EXCEPT !.idx = NextMarked - 1, !.l1num = @ - 1,
                             !.seen = @ \ {Var(trail.q[NextMarked])},
                             !.c = ReasonAt(NextMarked)]

----------------------------------------------------------------------------
(* revert, and what setpropagatelearn does with the learnt rule.           *)

\* Recommendations outlive their decisions.
RecommendationsKept_All(k) == Len(recommendations)

\* revert pops a recommendation with its decision when it is the last one:
\* left[j] are those left when j decisions have been popped.
RecommendationsKept(k) ==
  LET n == Len(trail.q)
      left[j \in 0..(n - k)] ==
        IF j = 0 THEN Len(recommendations)
        ELSE IF left[j - 1] > 0 /\ recommendations[left[j - 1]] = trail.q[n - j + 1]
               THEN left[j - 1] - 1 ELSE left[j - 1]
  IN  left[n - k]

Reverted(lev) == Cut(trail, Kept(trail, lev))

\* A branch opened at the level stays open.
BranchesBelow_Same(brs, lev) ==
  SubSeq(brs, 1, Max({0} \cup {k \in DOMAIN brs : brs[k].level <= lev}))

\* Branches opened at or above the level are closed.
BranchesBelow(brs, lev) ==
  SubSeq(brs, 1, Max({0} \cup {k \in DOMAIN brs : brs[k].level < lev}))

\* The second watch is left where solver_addrule put it.
HighestOf_First(r) == r[1]

\* The first of the literals in r with the highest level (watch2onhighest).
HighestOf(r) ==
  r[Min({k \in DOMAIN r : \A j \in DOMAIN r : LevelOf(r[j]) <= LevelOf(r[k])})]

\* The learnt rule is not kept.
Learn_Forgets ==
  /\ pc = "analyze"
  /\ an.done
  /\ an.rlevel < level
  /\ trail' = Reverted(an.rlevel)
  /\ propagate_index' = Kept(trail, an.rlevel)
  /\ branches' = BranchesBelow(branches, an.rlevel)
  /\ level' = an.rlevel
  /\ pc' = "propagate"
  /\ visit' = 0
  /\ an' = NoAnalysis
  /\ UNCHANGED <<in, ruleVars, disabled, policy, problems, recommendations,
                 systemlevel, caller, loc>>

\* Only the decisions are reverted: propagation goes on from where it was.
Learn_KeepsIndex ==
  /\ pc = "analyze"
  /\ an.done
  /\ an.rlevel < level
  /\ trail' = Reverted(an.rlevel)
  /\ level' = an.rlevel
  /\ pc' = "propagate"
  /\ visit' = 0
  /\ UNCHANGED <<in, ruleVars, disabled, policy, problems, propagate_index, branches,
                 recommendations, systemlevel, caller, an, loc>>

Learn ==
  /\ pc = "analyze"
  /\ an.done
  /\ an.rlevel < level
  /\ LET lev   == an.rlevel
         new   == Len(rules) + 1
         watch == <<an.p, IF an.r = <<>> THEN 0 ELSE HighestOf(an.r)>>
     IN  /\ rules' = Append(rules, [lits |-> <<an.p>> \o an.r, area |-> "learnt",
                                    grp |-> 0, weak |-> FALSE, why |-> an.why])
         /\ w' = Append(w, watch)
         /\ watches' = IF an.r = <<>> THEN watches
                       ELSE [l \in DOMAIN watches |->
                               IF l \in Range(watch) THEN <<new>> \o watches[l]
                                                     ELSE watches[l]]
         /\ trail' = Decide(Reverted(lev), an.p, new, lev)
         /\ propagate_index' = Kept(trail, lev)
         /\ recommendations' =
              SubSeq(recommendations, 1, RecommendationsKept(Kept(trail, lev)))
         /\ branches' = BranchesBelow(branches, lev)
         /\ level' = lev
  /\ pc' = "propagate"
  /\ visit' = 0
  /\ an' = NoAnalysis
  /\ UNCHANGED <<in, disabled, policy, problems, systemlevel, caller, loc>>

----------------------------------------------------------------------------
(* Decisions.                                                              *)

\* setpropagatelearn: literal lit is decided on the level above the current
\* one, for rule reason, and propagated; at is where its caller goes on.
SetPropagateLearn(t, lev, lit, disablerules, reason, at) ==
  /\ trail' = Decide(t, lit, -reason, lev + 1)
  /\ level' = lev + 1
  /\ caller' = [at |-> at, olevel |-> lev, disablerules |-> disablerules]
  /\ visit' = 0
  /\ pc' = "propagate"

\* What policy_filter_unwanted and the supplements check may leave of the
\* candidates dq, best first.
Selections(dq) == SetToAllKPermutations(dq) \ {<<>>}

OpenBranch(brs, alts, lev) ==
  IF alts = <<>> THEN brs ELSE Append(brs, [alts |-> alts, level |-> lev])

SelectAndInstall(dq, reason, at) ==
  \E sel \in Selections(dq) :
    /\ branches' = OpenBranch(branches, Tail(sel), level)
    /\ SetPropagateLearn(trail, level, Head(sel), in.disablerules, reason, at)
=============================================================================
