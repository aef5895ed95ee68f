------------------------------ MODULE Solutions ------------------------------
(***************************************************************************)
(* The solutions of the problems solver_solve found (problems.c).  When    *)
(* the search is over the problems are written into one flat queue, and    *)
(* for each of them, when the application first asks, create_solutions     *)
(* tries what happens if one of its rules stays given up: refine_suggestion*)
(* puts the others in force again and searches again, giving up further    *)
(* rules until there is a solution.                                        *)
(*                                                                         *)
(* Every search is the search of Solver, with its own rules and decisions; *)
(* the variables added here are what lies around it.                       *)
(***************************************************************************)
EXTENDS Solver

CONSTANT MaxAsks   \* how many problems an application asks about

VARIABLES
  found,      \* problems after solver_prepare_solutions: ids, proof, solidx
  solutions,  \* the flat queue solv->solutions
  cs,         \* the local variables of create_solutions
  ref,        \* the local variables of refine_suggestion
  asked       \* the problems asked about, in order

solutionVars == <<found, solutions, cs, ref, asked>>
allVars == <<vars, solutionVars>>

\* The marks that take the place of a package in a pair of a solution.
SOLUTION_JOB == 0
SOLUTION_DISTUPGRADE == -1
SOLUTION_INFARCH == -2

\* Inputs of this module have two more fields
\*   essential    the jobs marked SOLVER_ESSENTIAL
\*   noobsoletes  the packages installed beside what they would replace
ASSUME EssentialAssumption ==
  \A input \in Inputs : /\ input.essential \subseteq DOMAIN input.jobpolicy
                        /\ input.noobsoletes \subseteq Solvables

NoCreation == [solidx |-> 0, ids |-> <<>>, i |-> 1, nsol |-> 0, essentialok |-> FALSE,
               start |-> <<>>, saved |-> <<>>]

NoRefinement == [sug |-> 0, refined |-> <<>>, disabled |-> <<>>]

\* Position k of the queue, counted from 0 as in the code.
At(k) == solutions[k + 1]
Put(q, k, v) == [q EXCEPT ![k + 1] = v]

SolutionsInit ==
  /\ Init
  /\ found = <<>>
  /\ solutions = <<>>
  /\ cs = NoCreation
  /\ ref = NoRefinement
  /\ asked = <<>>

----------------------------------------------------------------------------
(* solver_prepare_solutions.                                               *)

\* Per problem the mark -1 for "not refined yet", one place per id and a 0.
Block(ids) == <<-1>> \o SetToSeq(ids) \o <<0>>

Queued ==
  FoldLeft(LAMBDA q, pb : q \o Block(pb.ids), <<0>>, problems)

BlockStart(n) ==
  1 + FoldLeft(LAMBDA k, pb : k + Cardinality(pb.ids) + 2, 0, SubSeq(problems, 1, n - 1))

\* The flags are those of the searches refine_suggestion starts.
PrepareSolutions ==
  /\ pc = "done"
  /\ cs = NoCreation
  /\ found' = [n \in DOMAIN problems |->
                 [ids |-> problems[n].ids, proof |-> problems[n].proof, solidx |-> BlockStart(n)]]
  /\ solutions' = IF problems = <<>> THEN <<>> ELSE Queued
  /\ pc' = "prepared"
  /\ in' = [in EXCEPT !.disablerules = FALSE, !.doweak = FALSE]
  /\ UNCHANGED <<ruleVars, disabled, policy, problems, searchVars, level, systemlevel,
                 caller, visit, an, loc, cs, ref, asked>>

----------------------------------------------------------------------------
(* create_solutions.                                                       *)

\* problems_sortcmp: rules before jobs, essential jobs last.
Before(a, b) ==
  LET rank(v) == IF v > 0 THEN 0 ELSE IF -v \in in.essential THEN 2 ELSE 1
  IN  rank(a) < rank(b) \/ (rank(a) = rank(b) /\ a < b)

\* The last id is taken for the end mark.
IdsAt_Short(k) ==
  LET end == Min({j \in DOMAIN solutions : j > k + 1 /\ solutions[j] = 0})
  IN  SortSeq(SubSeq(solutions, k + 2, end - 2), Before)

IdsAt(k) ==
  LET end == Min({j \in DOMAIN solutions : j > k + 1 /\ solutions[j] = 0})
  IN  SortSeq(SubSeq(solutions, k + 2, end - 1), Before)

\* solver_solution_count, solver_next_solution: the first of them to ask.
CreateSolutions ==
  /\ pc = "prepared"
  /\ Len(asked) < MaxAsks
  /\ \E n \in DOMAIN found :
       /\ At(found[n].solidx) < 0
       /\ asked' = Append(asked, n)
       /\ cs' = [NoCreation EXCEPT !.solidx = found[n].solidx, !.ids = IdsAt(found[n].solidx),
                                   !.start = disabled, !.saved = <<trail, recommendations>>]
  /\ problems' = <<>>
  /\ pc' = "suggest"
  /\ UNCHANGED <<in, ruleVars, disabled, policy, searchVars, level, systemlevel,
                 caller, visit, an, loc, found, solutions, ref>>

IsEssential(v) == v < 0 /\ -v \in in.essential

\* An essential job is not even tried unless nothing else is left.
SuggestNot ==
  /\ pc = "suggest"
  /\ cs.i <= Len(cs.ids)
  /\ ~cs.essentialok /\ IsEssential(cs.ids[cs.i])
  /\ ref' = [NoRefinement EXCEPT !.sug = cs.ids[cs.i]]
  /\ pc' = "convert"
  /\ UNCHANGED <<in, ruleVars, disabled, policy, problems, searchVars, level, systemlevel,
                 caller, visit, an, loc, found, solutions, cs, asked>>

\* solver_reset, after which the code goes on at the given place.
ResetFor(dis, at) ==
  /\ disabled' = WithLearnt(dis)
  /\ trail' = Decide(EmptyTrail(NSolvables), SYSTEMSOLVABLE, 0, 1)
  /\ propagate_index' = 0
  /\ recommendations' = <<>>
  /\ branches' = <<>>
  /\ visit' = 1
  /\ level' = 1
  /\ caller' = [NoDecision EXCEPT !.at = at]
  /\ pc' = "assert"

Suggest ==
  /\ pc = "suggest"
  /\ cs.i <= Len(cs.ids)
  /\ cs.essentialok \/ ~IsEssential(cs.ids[cs.i])
  /\ ref' = [NoRefinement EXCEPT !.sug = cs.ids[cs.i], !.refined = <<cs.ids[cs.i]>>]
  /\ ResetFor(disabled, "refine.enable")
  /\ UNCHANGED <<in, ruleVars, policy, problems, systemlevel, an, loc, found, solutions, cs, asked>>

----------------------------------------------------------------------------
(* refine_suggestion.                                                      *)

\* The other policy rule of the same package, 0 if it was dropped.
FeatureOf(i) == Max({0} \cup {in.feat[p] : p \in {q \in Solvables : in.upd[q] = i}})
UpdateOf(i)  == Max({0} \cup {in.upd[p] : p \in {q \in Solvables : in.feat[q] = i}})

IsUpdate(v)  == v > 0 /\ rules[v].area = "update"
IsFeature(v) == v > 0 /\ rules[v].area = "feature"

\* The rules given up stay off.
EnableProblems_Nothing(dis, ids) == dis

\* solver_enableproblem for each of ids: of the two policy rules of a package
\* the update rule is preferred, and the feature rule is off while it is on.
EnableProblems(dis, ids) ==
  LET named == UNION {ProblemRules(rules, v) : v \in {x \in ids : ~IsFeature(x)}}
      off   == (dis \ named) \cup ({FeatureOf(v) : v \in {x \in ids : IsUpdate(x)}} \ {0})
  IN  off \ {v \in ids : IsFeature(v) /\ UpdateOf(v) \in off}

\* A rule given up for a package leaves its feature rule in force.
WithFeatures(dis, ids) == dis \ {FeatureOf(v) : v \in {x \in ids : IsUpdate(x)}}

\* What giving up the suggestion's job frees, or the package's feature rule.
RefineEnable ==
  /\ pc = "refine.enable"
  /\ LET others == Range(cs.ids) \ {ref.sug}
         on     == EnableProblems(disabled, others)
         freed  == IF ref.sug < 0 THEN AfterDrop(on, ref.sug) ELSE WithFeatures(on, {ref.sug})
     IN  /\ policy' = IF ref.sug < 0 THEN PolicyAfterDrop(on, ref.sug) ELSE policy
         /\ ResetFor(freed \ (WeakRules(rules) \cap Original(rules)), "refine.search")
  /\ problems' = <<>>
  /\ UNCHANGED <<in, ruleVars, systemlevel, an, loc, found, solutions, cs, ref, asked>>

\* solver_run_sat, unless the assertions alone have shown a problem.
RefineSearch ==
  /\ pc = "refine.search"
  /\ pc' = IF problems = <<>> THEN "top" ELSE "refine.check"
  /\ level' = 1
  /\ systemlevel' = 2
  /\ caller' = NoDecision
  /\ loc' = NoLocals
  /\ visit' = 0
  /\ UNCHANGED <<in, ruleVars, disabled, policy, problems, searchVars, an, solutionVars>>

SearchReturned == cs # NoCreation /\ pc \in {"done", "hopeless", "refine.check"}

\* The rules of the first problem that may be given up: none that belongs to
\* the problem being solved, except, in the second pass, those after sug.
Allowed(pass) ==
  LET mine(v) == \E j \in DOMAIN cs.ids :
                   /\ cs.ids[j] = v
                   /\ pass = 2 => ref.sug \notin Range(SubSeq(cs.ids, 1, j))
  IN  {v \in problems[1].ids : /\ v = ref.sug \/ ~mine(v)
                               /\ cs.essentialok \/ ~IsEssential(v)}

\* Feature rules go only if nothing else can.
Chosen ==
  LET all == IF Allowed(1) # {} THEN Allowed(1) ELSE Allowed(2)
      upd == {v \in all : ~IsFeature(v)}
  IN  IF upd # {} /\ \A v \in all : v > 0 THEN upd ELSE all

RefineOne ==
  /\ SearchReturned
  /\ problems # <<>>
  /\ Cardinality(Chosen) = 1
  /\ LET v   == CHOOSE x \in Chosen : TRUE
         off == WithFeatures(DisableProblem(disabled, v), {v})
     IN  /\ ref' = [ref EXCEPT !.disabled = Append(@, v),
                               !.refined = IF IsFeature(v) THEN @ ELSE Append(@, v)]
         /\ policy' = IF v < 0 THEN PolicyAfterDrop(off, v) ELSE policy
         /\ ResetFor(IF v < 0 THEN AfterDrop(off, v) ELSE off, "refine.search")
  /\ problems' = <<>>
  /\ UNCHANGED <<in, ruleVars, systemlevel, an, loc, found, solutions, cs, asked>>

\* It is not known which of them will do: all go, and none is recorded.
RefineMany ==
  /\ SearchReturned
  /\ problems # <<>>
  /\ Cardinality(Chosen) > 1
  /\ ref' = [ref EXCEPT !.disabled = @ \o SetToSeq(Chosen)]
  /\ ResetFor(WithFeatures(DisableProblems(disabled, Chosen), Chosen), "refine.search")
  /\ problems' = <<>>
  /\ UNCHANGED <<in, ruleVars, policy, systemlevel, an, loc, found, solutions, cs, asked>>

\* "all done, get us back into the same state as before": also the reason why
\* the decisions and not the rules are what the conversion looks at.
RefineEnd(refined) ==
  LET on      == EnableProblems(EnableProblems(disabled, Range(ref.disabled)), Range(cs.ids))
      clean   == CleanDeps(in, on)
      entries == DisableList(in, on, clean)
      off     == on \cup UNION {PolicyRules(in, e) : e \in entries}
  IN  /\ ref' = [ref EXCEPT !.refined = refined, !.disabled = <<>>]
      /\ disabled' = DisableProblems(off, Range(cs.ids))
      /\ policy' = [noupdate |-> UpdatesOf(entries), cleandeps |-> clean]
      /\ pc' = "convert"
      /\ UNCHANGED <<in, ruleVars, problems, searchVars, level, systemlevel, caller, visit,
                     an, loc, found, solutions, cs, asked>>

RefineSolved  == SearchReturned /\ problems = <<>> /\ RefineEnd(ref.refined)

RefineInvalid == SearchReturned /\ problems # <<>> /\ Chosen = {} /\ RefineEnd(<<>>)

----------------------------------------------------------------------------
(* convertsolution: what a rule that was given up means to a user.         *)

\* The installed package of a name that an infarch or dup rule forbids.
Replacement(why) ==
  LET group == {k \in GroupOfRule(rules, why) : Installed(-rules[k].lits[1])}
  IN  IF group = {} THEN 0 ELSE -rules[Min(group)].lits[1]

Marked(mark, p) == IF p = 0 THEN <<>> ELSE <<mark, p>>

\* Every candidate for an update, whether the search installed it or not.
Updates_Any(p, why) ==
  SelectSeq(rules[IF in.feat[p] # 0 THEN in.feat[p] ELSE why].lits,
            LAMBDA l : l > 0 /\ ~IsInstalled(l))

\* Installed packages that take the place of p, by its widest policy rule.
Updates(p, why) ==
  LET wide == IF in.feat[p] # 0 THEN in.feat[p] ELSE why
  IN  IF IsAssertion(rules[wide]) THEN <<>>
      ELSE SelectSeq(rules[wide].lits, LAMBDA l : l > 0 /\ Installed(l) /\ ~IsInstalled(l))

\* A replacement that is installed beside p needs a second pair.
UpdatePairs(p, why) ==
  LET ups == Updates(p, why)
      own == SelectSeq(ups, LAMBDA l : l \notin in.noobsoletes)
  IN  IF own # <<>> THEN <<p, Head(own)>>
      ELSE IF ups # <<>> THEN <<p, Last(ups), p, 0>>
      ELSE <<p, 0>>

Pairs(why) ==
  IF why < 0 THEN <<SOLUTION_JOB, -why>>
  ELSE CASE rules[why].area = "infarch" -> Marked(SOLUTION_INFARCH, Replacement(why))
         [] rules[why].area = "dup" -> Marked(SOLUTION_DISTUPGRADE, Replacement(why))
         [] rules[why].area = "update" ->
              LET p == CHOOSE q \in Solvables : in.upd[q] = why
              IN  IF \E l \in Lits(why) : l > 0 /\ Installed(l) THEN <<>>
                  ELSE IF in.dupall /\ rules[why].lits[1] # p /\ Installed(p)
                    THEN <<SOLUTION_DISTUPGRADE, p>>
                  ELSE IF Installed(p) THEN <<>>
                  ELSE UpdatePairs(p, why)
         [] OTHER -> <<>>

AllPairs(ids) == FlattenSeq([k \in DOMAIN ids |-> Pairs(ids[k])])

\* If nothing helps, the first rule of the problem that can be converted.
Faked ==
  LET some == {k \in DOMAIN cs.ids : Pairs(cs.ids[k]) # <<>>}
  IN  IF some = {} THEN <<>> ELSE Pairs(cs.ids[Min(some)])

NothingLeft == cs.nsol = 0 /\ cs.i = Len(cs.ids)

\* The pairs are appended with their number in front and an end mark, and the
\* place of the problem's next solution gets their position.
Record(pairs) ==
  /\ solutions' = Put(solutions \o <<Len(pairs) \div 2>> \o pairs \o <<0, 0>>,
                      cs.solidx + 1 + cs.nsol, Len(solutions))
  /\ cs' = [cs EXCEPT !.i = @ + 1, !.nsol = @ + 1]

Goto(place) ==
  /\ pc' = place
  /\ UNCHANGED <<in, ruleVars, disabled, policy, problems, searchVars, level, systemlevel,
                 caller, visit, an, loc, found, ref, asked>>

\* Suggestions that did not work out are recorded too.
Convert_Always ==
  /\ pc = "convert"
  /\ Record(AllPairs(ref.refined))
  /\ Goto("suggest")

Convert ==
  /\ pc = "convert"
  /\ AllPairs(ref.refined) # <<>>
  /\ Record(AllPairs(ref.refined))
  /\ Goto("suggest")

\* The second round does not allow for essential jobs either.
ConvertNot_Again ==
  /\ pc = "convert"
  /\ AllPairs(ref.refined) = <<>>
  /\ cs' = [cs EXCEPT !.i = IF NothingLeft THEN 1 ELSE @ + 1]
  /\ UNCHANGED solutions
  /\ Goto("suggest")

ConvertNot ==
  /\ pc = "convert"
  /\ AllPairs(ref.refined) = <<>>
  /\ \/ /\ ~NothingLeft
        /\ cs' = [cs EXCEPT !.i = @ + 1]
        /\ UNCHANGED solutions
     \/ /\ NothingLeft /\ ~cs.essentialok
        /\ cs' = [cs EXCEPT !.i = 1, !.essentialok = TRUE]
        /\ UNCHANGED solutions
     \/ /\ NothingLeft /\ cs.essentialok /\ Faked # <<>>
        /\ Record(Faked)
     \/ /\ NothingLeft /\ cs.essentialok /\ Faked = <<>>
        /\ cs' = [cs EXCEPT !.i = @ + 1]
        /\ UNCHANGED solutions
  /\ Goto("suggest")

\* The end mark overwrites the position of the last offer.
SolutionsCreated_MarkEarly ==
  /\ pc = "suggest"
  /\ cs.i > Len(cs.ids)
  /\ solutions' = Put(Put(solutions, cs.solidx + cs.nsol, 0), cs.solidx, cs.nsol)
  /\ trail' = cs.saved[1]
  /\ recommendations' = cs.saved[2]
  /\ problems' = [n \in DOMAIN found |-> [ids |-> found[n].ids, proof |-> found[n].proof]]
  /\ cs' = NoCreation
  /\ ref' = NoRefinement
  /\ pc' = "prepared"
  /\ UNCHANGED <<in, ruleVars, disabled, policy, propagate_index, branches, level, systemlevel,
                 caller, visit, an, loc, found, asked>>

\* The end of create_solutions: the decisions and the problems come back.
SolutionsCreated ==
  /\ pc = "suggest"
  /\ cs.i > Len(cs.ids)
  /\ solutions' = Put(Put(solutions, cs.solidx + 1 + cs.nsol, 0), cs.solidx, cs.nsol)
  /\ trail' = cs.saved[1]
  /\ recommendations' = cs.saved[2]
  /\ problems' = [n \in DOMAIN found |-> [ids |-> found[n].ids, proof |-> found[n].proof]]
  /\ cs' = NoCreation
  /\ ref' = NoRefinement
  /\ pc' = "prepared"
  /\ UNCHANGED <<in, ruleVars, disabled, policy, propagate_index, branches, level, systemlevel,
                 caller, visit, an, loc, found, asked>>

----------------------------------------------------------------------------
(* What the application reads.                                             *)

\* solver_solution_count
SolutionCount(n) == At(found[n].solidx)

\* solver_next_solutionelement, until it returns 0.
Elements(n, s) ==
  LET idx  == At(found[n].solidx + s)
      end  == Min({k \in 0..((Len(solutions) - idx - 3) \div 2) : At(idx + 1 + 2*k) = 0 /\ At(idx + 2 + 2*k) = 0})
  IN  SubSeq(solutions, idx + 2, idx + 1 + 2*end)

\* solver_take_solution: what a queue of jobs becomes.  A job that is given up
\* is emptied in its place; a job asked for is added unless it is there.
TakenPairs(pairs) == {<<pairs[2*k - 1], pairs[2*k]>> : k \in 1..(Len(pairs) \div 2)}

TakeSolution(n, s) ==
  LET pairs == TakenPairs(Elements(n, s))
  IN  [noop    |-> {pr[2] : pr \in {x \in pairs : x[1] = SOLUTION_JOB}},
       install |-> {pr[2] : pr \in {x \in pairs : x[1] # SOLUTION_JOB /\ x[2] > 0}},
       erase   |-> {pr[1] : pr \in {x \in pairs : x[1] > 0 /\ x[2] = 0}}]

\* solver_findallproblemrules
FindAllProblemRules(n) == Sources(found[n].proof)

\* Only the rules of the packages are looked at.
FindProblemRule_RpmOnly(n) == FindAllProblemRules(n) \cap RulesIn(rules, "rpm")

\* solver_findproblemrule: a dependency explains a problem best, then a
\* conflict, an update rule, a job.  Which of several depends on their order.
FindProblemRule(n) ==
  LET all == FindAllProblemRules(n)
      conflict(i) == Len(rules[i].lits) = 2 /\ \A l \in Lits(i) : l < 0
      rpm == all \cap RulesIn(rules, "rpm")
      kinds == <<{i \in rpm : ~conflict(i)}, {i \in rpm : conflict(i)},
                 all \cap RulesIn(rules, "update"),
                 all \cap {i \in DOMAIN rules : rules[i].area \in GroupedAreas}>>
      some == {k \in DOMAIN kinds : kinds[k] # {}}
  IN  IF some = {} THEN {} ELSE kinds[Min(some)]

----------------------------------------------------------------------------

InSearch == cs # NoCreation \/ pc # "done"

SearchStep ==
  /\ InSearch
  /\ AssertStep \/ PropagateStep \/ ConflictStep \/ SystemStep \/ ExtraStep
  /\ UNCHANGED solutionVars

CreateStep == CreateSolutions \/ SuggestNot \/ Suggest \/ Convert \/ ConvertNot \/ SolutionsCreated

RefineStep ==
  RefineEnable \/ RefineSearch \/ RefineOne \/ RefineMany \/ RefineSolved \/ RefineInvalid

Answered ==
  /\ pc = "prepared"
  /\ UNCHANGED allVars

SolutionsNext == SearchStep \/ PrepareSolutions \/ CreateStep \/ RefineStep \/ Answered

SolutionsSpec == SolutionsInit /\ [][SolutionsNext]_allVars

\* create_solutions runs to its end once it is called.
FairSolutions == SolutionsSpec /\ WF_allVars(SearchStep \/ PrepareSolutions \/ CreateStep \/ RefineStep)

----------------------------------------------------------------------------
(* What makes the proposed solutions right.                                *)

HardRules == RulesIn(rules, "rpm") \ WeakRules(rules)

Named(ids) == UNION {ProblemRules(rules, v) : v \in ids}

\* The offers written so far: solution s of problem n.
Recorded ==
  {<<n, s>> \in (DOMAIN found) \X (1..NSolvables) :
     s <= IF found[n].solidx = cs.solidx THEN cs.nsol ELSE SolutionCount(n)}

\* The marks and lengths in the flat queue belong together: every problem's
\* block starts where its predecessor ends and every offer is complete
\* (solver_prepare_solutions, create_solutions).
SolutionsTypeOK ==
  /\ pc \in {"prepared", "suggest", "convert"} =>
       \A n \in DOMAIN found : At(found[n].solidx) \in -1..Cardinality(found[n].ids)
  /\ \A o \in Recorded : Elements(o[1], o[2]) # <<>>
  /\ Len(asked) <= MaxAsks

\* A solution that is offered works: the decisions of the last search of
\* refine_suggestion satisfy what the packages need, and every rule of the
\* problem that was tried before and that the solution does not give up.
OffersWork ==
  pc = "convert" /\ ref.refined # <<>> =>
    Satisfies(Installs(trail.map), rules,
              HardRules \cup Named(Range(SubSeq(cs.ids, 1, cs.i - 1)) \ Range(ref.refined)))

\* What an application has been offered stays as it was read, although
\* create_solutions moves and extends the one queue all offers live in when
\* it is asked about the next problem.
OffersStay ==
  [][ /\ Recorded \subseteq Recorded'
      /\ \A o \in Recorded : Elements(o[1], o[2])' = Elements(o[1], o[2])]_allVars

\* Every problem somebody asked about has a solution to offer, if need be one
\* that gives up an essential job.
EveryProblemSolved ==
  pc = "prepared" => \A n \in DOMAIN found : SolutionCount(n) # 0

\* An application that takes an offer (solver_take_solution) does not ask for
\* the impossible: some set of packages meets what the packages need and every
\* install and erase job the offer adds.
OffersTakeable ==
  pc = "prepared" =>
    \A o \in Recorded :
      LET taken == TakeSolution(o[1], o[2])
      IN  \E S \in Worlds(Solvables \ {SYSTEMSOLVABLE}) :
            /\ Satisfies(S, rules, HardRules)
            /\ taken.install \subseteq S
            /\ taken.erase \cap S = {}

\* The assertions of solver_findproblemrule (problems.c:816, problems.c:885):
\* behind a problem there are only rules it can tell apart, and one to show.
ProblemsExplained ==
  pc = "prepared" =>
    \A n \in DOMAIN found :
      /\ \A i \in FindAllProblemRules(n) : rules[i].area \notin {"feature", "choice"}
      /\ FindProblemRule(n) # {}

\* Offers are whole, work, and can be taken (refine_suggestion, convertsolution).
OffersSound == SolutionsTypeOK /\ OffersWork /\ OffersTakeable

\* Every problem gets an offer and an explanation.
ProblemsAnswered == EveryProblemSolved /\ ProblemsExplained

\* Whatever is asked about, create_solutions comes to its end.
CreationEnds == pc = "suggest" ~> pc = "prepared"
=============================================================================
