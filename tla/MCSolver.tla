------------------------------ MODULE MCSolver ------------------------------
(***************************************************************************)
(* The solver problems the runs check, built from menus of rules.          *)
(***************************************************************************)
EXTENDS SolverProperties

R(area, grp, lits) == [lits |-> lits, area |-> area, grp |-> grp, weak |-> FALSE, why |-> {}]
Rpm(lits)     == R("rpm", 0, lits)
Job(g, lits)  == R("job", g, lits)
Update(lits)  == R("update", 0, lits)
Feature(lits) == R("feature", 0, lits)
Weak(r)       == [r EXCEPT !.weak = TRUE]

\* The rules of the menu with a number in S, in the order of the menu.
Pick(menu, S) ==
  LET order == SelectSeq([k \in DOMAIN menu |-> k], LAMBDA k : k \in S)
  IN  [k \in DOMAIN order |-> menu[order[k]]]

Packages == Solvables \ {SYSTEMSOLVABLE}

\* A problem about rules rs with njobs jobs, and nothing installed.
Plain(rs, njobs) ==
  [rules |-> rs, off |-> {}, installed |-> <<>>,
   upd |-> [p \in Solvables |-> 0], feat |-> [p \in Solvables |-> 0],
   updatemap |-> {}, updateall |-> FALSE, multiversion |-> [p \in Solvables |-> {}],
   jobpolicy |-> [j \in 1..njobs |-> {}], cleandeps |-> [j \in 1..njobs |-> {}],
   choiceref |-> [i \in {} |-> 0],
   recommends |-> [p \in Solvables |-> <<>>], supplements |-> [p \in Solvables |-> {}],
   obsoletes |-> [p \in Solvables |-> {}],
   orphaned |-> <<>>, dupall |-> FALSE, drop |-> {},
   ignorerecommended |-> FALSE, callback |-> FALSE, doweak |-> TRUE, disablerules |-> TRUE]

----------------------------------------------------------------------------
(* Jobs that leave a choice, over packages that exclude or need each other *)
(* in ways the choice does not see: conflicts, learnt rules, unsolvable    *)
(* situations, problems of several jobs.  Two more inputs bring a conflict *)
(* that depends on decisions of three levels, and a rule learnt from a job *)
(* that is given up later.                                                 *)

ChoiceRpm == <<Rpm(<<-2, -3>>), Rpm(<<-2, 6>>), Rpm(<<-3, 5>>), Rpm(<<-3, -6>>), Rpm(<<-4, -5>>),
               Rpm(<<-4, 2>>), Rpm(<<-5, 3, 4>>), Rpm(<<-6, -4>>), Rpm(<<-2, -5>>)>>
ChoiceJobs == <<Job(1, <<2, 3, 4>>), Job(2, <<3, 5, 6>>), Job(3, <<4, 6>>), Job(4, <<2, 5>>),
                Job(5, <<6, 3, 4>>), Job(6, <<-3>>)>>

\* The solutions of a problem: with few of them the search runs into conflicts.
Mentioned(rs) == {Var(l) : l \in UNION {Range(rs[i].lits) : i \in DOMAIN rs}}
Solutions(rs) == {S \in Worlds(Mentioned(rs)) : Satisfies(S, rs, DOMAIN rs)}

DeepInput(x, y) ==
  Plain(<<Rpm(<<-2, -5>>), Rpm(<<-3, -6>>), Rpm(<<-4, x, 7>>), Rpm(<<-4, y, 8>>), Rpm(<<-7, -8>>),
          Job(1, <<2, 5>>), Job(2, <<3, 6>>), Job(3, <<4, 7>>)>>, 3)

LateInput ==
  Plain(<<Rpm(<<-4, 7>>), Rpm(<<-7, 8>>), Rpm(<<-7, -8>>), Rpm(<<-5, -2>>), Rpm(<<-5, -3>>),
          Rpm(<<-6, -2>>), Rpm(<<-6, -3>>),
          Job(1, <<5, 6>>), Job(2, <<2, 3>>), Job(3, <<5, 4>>)>>, 3)

ChoiceInputs ==
  {DeepInput(5, 6), DeepInput(6, 5), LateInput} \cup
  {input \in {Plain(Pick(ChoiceRpm, P) \o Pick(ChoiceJobs, {1, 2, 3} \cup J), 6) :
                P \in kSubset(5, 1..9), J \in {{4}, {5}, {4, 6}}} :
     Cardinality(Solutions(input.rules)) <= 2}

----------------------------------------------------------------------------
(* Two installed packages, 2 without and 3 with updates (4 in the update   *)
(* rule, 5 as well in the feature rule), jobs that clash with what keeps   *)
(* them, and weak jobs.                                                    *)

\* The update and feature rules of package p: those that start with p.
RuleOf(rs, area, p) ==
  LET own == {i \in RulesIn(rs, area) : rs[i].lits[1] = p}
  IN  IF own = {} THEN 0 ELSE Min(own)

WithInstalled(input, inst, updates) ==
  [input EXCEPT !.installed = inst, !.updatemap = updates,
     !.off  = RulesIn(input.rules, "feature"),
     !.upd  = [p \in Solvables |-> RuleOf(input.rules, "update", p)],
     !.feat = [p \in Solvables |-> RuleOf(input.rules, "feature", p)]]

\* What a job keeps the policy rules from doing: holds gives the packages.
Holding(input, holds) ==
  [input EXCEPT !.jobpolicy = [j \in DOMAIN @ |->
     IF j \in DOMAIN holds THEN {<<"update", p>> : p \in holds[j]} ELSE {}]]

KeepRpm == <<Rpm(<<-5>>), Rpm(<<-2, 3>>), Rpm(<<-4, -2>>), Rpm(<<-3, 2>>),
              Rpm(<<-3, -4>>), Rpm(<<-3, -5>>), Rpm(<<-4, -5>>)>>
KeepPolicy == <<Feature(<<3, 4, 5>>), Update(<<2>>), Update(<<3, 4>>)>>
KeepJobs == <<Weak(Job(1, <<-2>>)), Job(2, <<4>>), Job(3, <<-3>>), Weak(Job(4, <<2>>)),
              Job(5, <<5>>), Job(6, <<4, 5>>), Job(7, <<-2>>), Job(8, <<3>>), Job(9, <<-1>>)>>
KeepHolds == (1 :> {2}) @@ (3 :> {3}) @@ (4 :> {2}) @@ (7 :> {2})

KeepInputs ==
  {[Holding(WithInstalled(Plain(Pick(KeepRpm, P \cup {5, 6, 7}) \o KeepPolicy \o Pick(KeepJobs, J), 9),
                          <<2, 3>>, U), KeepHolds)
      EXCEPT !.disablerules = 9 \notin J, !.doweak = FALSE] :
     P \in SUBSET (1..4) \ kSubset(3, 1..4), J \in kSubset(2, 1..9) \cup kSubset(3, 1..8),
     U \in {{}, {3}}}

\* A learnt assertion meets an assertion that a dropped weak job held back.
DroppedInput ==
  Holding(WithInstalled(
    Plain(<<Rpm(<<-2, 5>>), Rpm(<<-2, -5>>), Rpm(<<-4, -5>>), Rpm(<<-4, -3>>), Rpm(<<-2, -3>>),
            Update(<<2>>),
            Job(1, <<2, 4>>), Weak(Job(2, <<3, 5>>))>>, 2), <<2>>, {}), 2 :> {2})

\* A choice rule that prefers a provider which cannot be installed.
PreferredInput(provider) ==
  LET choice == [R("choice", 0, <<-2, 3>>) EXCEPT !.weak = TRUE]
  IN  [Plain(<<Rpm(<<-2, 3, 4>>), Rpm(<<-3, -provider>>), Job(1, <<2>>), Job(2, <<provider, 5>>),
               choice>>, 2) EXCEPT !.choiceref = 5 :> 1]

\* Architectures and distribution upgrades that leave only one package of a
\* name, wanted otherwise by the jobs and by an installed package.
OtherArchInput(area, job) ==
  WithInstalled(Plain(<<Rpm(<<-2, 4, 5>>), Update(<<2>>), Job(1, job),
                        R(area, 1, <<-4>>), R(area, 1, <<-5>>)>>, 1), <<2>>, {})

\* The job that erases 2 erases 3 as well if nothing else keeps it.
CleanDepsInput(rpm, all) ==
  [WithInstalled(Plain(rpm \o <<Rpm(<<-4, -5>>), Update(<<2>>), Update(<<3>>), Update(<<4, 5>>),
                        Job(1, <<-2>>)>>, 1), <<2, 3, 4>>, {})
     EXCEPT !.jobpolicy = <<{<<"update", 2>>}>>, !.cleandeps = <<{3}>>, !.updateall = all]

PolicyInputs ==
  KeepInputs \cup {DroppedInput}
    \cup {PreferredInput(p) : p \in {2, 4}}
    \cup {OtherArchInput(a, job) : a \in {"infarch", "dup"}, job \in {<<4>>, <<5, 4>>, <<-2>>}}
    \cup {CleanDepsInput(rpm, all) : rpm \in {<<>>, <<Rpm(<<-4, 3>>)>>, <<Rpm(<<-5, 3>>), Rpm(<<-4>>)>>},
                                      all \in BOOLEAN}

----------------------------------------------------------------------------
(* Updates that get in the way of one another: 2 and 3 are installed, with *)
(* the updates 4 and 5, 5 and 6, which exclude what they replace and need  *)
(* things the choice does not see, so that decisions for installed         *)
(* packages are learnt from and undone.                                    *)

Replacing == <<Rpm(<<-2, -4>>), Rpm(<<-2, -5>>), Rpm(<<-3, -5>>), Rpm(<<-3, -6>>), Rpm(<<-5, -6>>)>>
UpdateRpm == <<Rpm(<<-4, 6>>), Rpm(<<-4, 7>>), Rpm(<<-4, -7>>), Rpm(<<-5, -7>>), Rpm(<<-5, 4>>),
               Rpm(<<-6, 7, 8>>), Rpm(<<-3, 7, 8>>), Rpm(<<-7, -3>>), Rpm(<<-8, 5, 6>>)>>
UpdateJobs == {<<>>, <<Job(1, <<4, 5, 6>>)>>, <<Weak(Job(1, <<5, 6>>)), Job(2, <<-2>>)>>}

UpdateRules(P) ==
  Replacing \o Pick(UpdateRpm, P) \o <<Update(<<2, 4, 5>>), Update(<<3, 5, 6>>)>>

\* What makes for few solutions, and what leaves rules open.
Crowded == {P \in kSubset(4, 1..9) : Cardinality(Solutions(UpdateRules(P))) <= 4}
Roomy == {{6, 7}, {2, 6, 7}, {1, 4, 7}}

\* 4 and 5 are updates of 2; 4 may be installed beside it.
BesideInput(rpm) ==
  [WithInstalled(Plain(<<Rpm(<<-2, -5>>), Rpm(<<-3, -6>>)>> \o rpm \o
                       <<Feature(<<2, 4, 5>>), Update(<<2, 5>>), Update(<<3, 6>>)>>, 0), <<2, 3>>, {})
     EXCEPT !.updateall = TRUE, !.multiversion[2] = {4, 5}, !.doweak = FALSE]

BesideRpm == <<Rpm(<<-4, 6>>), Rpm(<<-4, -5>>), Rpm(<<-5, -6>>), Rpm(<<-4, 3>>)>>

UpdateInputs ==
  {BesideInput(Pick(BesideRpm, P)) : P \in SUBSET (1..4)} \cup
  {[WithInstalled(Plain(UpdateRules(P) \o jobs, 2), <<2, 3>>, U)
      EXCEPT !.updateall = U = {}, !.doweak = FALSE] :
     P \in Crowded \cup Roomy, jobs \in UpdateJobs, U \in {{}, {2}, {3}}}

----------------------------------------------------------------------------
(* Weak dependencies, orphans and branches: 2 is installed and has no      *)
(* update rule, 3 is wanted and recommends things that exclude each other. *)

ExtraRpm == <<Rpm(<<-4, -5>>), Rpm(<<-4, 6>>), Rpm(<<-5, -6>>), Rpm(<<-6, 4, 5>>), Rpm(<<-2, -6>>),
              Rpm(<<-4, 2>>), Rpm(<<-5, 2>>), Rpm(<<-5, 6, 4>>)>>

ExtraJobs == {<<Job(1, <<3>>)>>, <<Job(1, <<3, 6>>), Job(2, <<4, 5>>)>>}

ExtraInputs ==
  {[Plain(Pick(ExtraRpm, P) \o jobs, 2) EXCEPT
      !.installed  = <<2>>,
      !.recommends = [@ EXCEPT ![3] = first, ![4] = <<<<6>>>>],
      !.supplements = [@ EXCEPT ![5] = supp, ![6] = {5}],
      !.obsoletes = [@ EXCEPT ![2] = {6}],
      !.orphaned = <<2>>, !.dupall = TRUE, !.drop = IF ignore THEN {2} ELSE {},
      !.ignorerecommended = ignore, !.callback = callback] :
     P \in {{2}, {2, 5, 6}, {1, 3, 7, 8}, {1, 2, 3, 4, 5}}, jobs \in ExtraJobs,
     first \in {<<<<4, 5>>>>, <<<<5, 4>>, <<6>>>>, <<<<4>>, <<6, 5>>>>}, supp \in {{}, {2, 3}},
     ignore \in BOOLEAN, callback \in BOOLEAN}

\* 3 needs 4 or 5, neither of which can be installed: a problem, and nothing
\* for the weak dependencies to run into.
HopelessExtra ==
  [Plain(<<Rpm(<<-3, 4, 5>>), Rpm(<<-4, 6>>), Rpm(<<-4, -6>>), Rpm(<<-5, 6>>), Rpm(<<-5, -6>>),
           Job(1, <<3>>)>>, 1) EXCEPT !.recommends = [@ EXCEPT ![3] = <<<<4>>>>]]

ExtrasInputs == ExtraInputs \cup {HopelessExtra}

\* The problems of the run of the main loop.
MainInputs == UpdateInputs \cup PolicyInputs \cup ExtrasInputs

----------------------------------------------------------------------------
(* Inputs on which the code does not do what its comments say.             *)

\* An erase job for two packages, weak, one of them wanted by another job: the
\* installed 2 is decided to go before the job is dropped.
WeakEraseInputs ==
  {Holding(WithInstalled(
     Plain(<<Update(<<2>>), Job(1, <<3>>), Weak(Job(2, <<-2>>)), Weak(Job(2, <<-3>>))>>, 2),
     <<2>>, {}), 2 :> {2})}

\* A job for the installed 2, which is to be updated, or its update 3.
PruneInputs ==
  {WithInstalled(Plain(<<Rpm(<<-2, -3>>), Update(<<2, 3>>), Job(1, lits)>>, 1), <<2>>, {2}) :
     lits \in {<<2, 3>>, <<3, 2>>}}
=============================================================================
