------------------------------- MODULE Solver -------------------------------
(***************************************************************************)
(* The main loop of the dependency solver, solver_run_sat (solver.c): it   *)
(* resolves the jobs, then the installed packages, then the rules that are *)
(* still open, then the weak dependencies and the orphans, and last tries  *)
(* the branches it left open.  Every decision goes through                 *)
(* setpropagatelearn, which Engine models; Engine also explains the        *)
(* variables.  A loop that only looks for something to do is one step, to  *)
(* the first place where there is something.                               *)
(***************************************************************************)
EXTENDS Engine

\* A rule whose negative literals are installed and of whose positive ones
\* none is: the undecided ones can be chosen from.
Open(i) == \A l \in Lits(i) : IF l < 0 THEN Installed(-l) ELSE ~Installed(l)

Candidates(i) == {l \in Lits(i) : l > 0 /\ Undecided(l)}

mainVars == <<in, ruleVars, disabled, policy, problems, propagate_index, an>>

\* The head of the main loop.  With level 1 the assertions are propagated.
Top ==
  /\ pc = "top"
  /\ IF level = 1
       THEN /\ pc' = "propagate"
            /\ caller' = [at |-> "jobs", olevel |-> 1, disablerules |-> in.disablerules]
       ELSE /\ pc' = "jobs"
            /\ UNCHANGED caller
  /\ visit' = 0
  /\ UNCHANGED <<in, ruleVars, disabled, policy, problems, searchVars, level,
                 systemlevel, an, loc>>

----------------------------------------------------------------------------
(* Jobs.                                                                   *)

OpenJobs ==
  {i \in RulesIn(rules, "job") :
     i >= loc.i /\ Enabled(i) /\ Open(i) /\ Candidates(i) # {}}

IsInstalled(p) == p \in Range(in.installed)

\* "prune to installed if not updating", in place as the code does it: the
\* installed candidates of job rule i are moved to the front one by one, and
\* one that is to be updated stops the loop with what has been moved so far left
\* in place.
Pruned(i) ==
  LET place == {k \in DOMAIN rules[i].lits : rules[i].lits[k] \in Candidates(i)}
      nth(k) == Cardinality({j \in place : j <= k})
      inst  == {k \in place : IsInstalled(rules[i].lits[k])}
      stop  == {k \in inst : rules[i].lits[k] \in in.updatemap}
      front == IF stop = {} THEN inst ELSE {k \in inst : k <= Min(stop)}
      left  == IF stop = {} THEN {} ELSE {k \in place : nth(k) > Cardinality(front)}
  IN  IF in.updateall \/ front = {} THEN Candidates(i)
      ELSE {rules[i].lits[k] : k \in front \cup left}

\* Above systemlevel the decisions for the jobs and for the installed packages
\* are left alone.
EnterSystem ==
  /\ pc = "jobs"
  /\ pc' = IF level < systemlevel THEN "job" ELSE "decide"
  /\ loc' = [loc EXCEPT !.i = 1, !.n = 1]
  /\ UNCHANGED <<mainVars, trail, branches, recommendations, level,
                 systemlevel, caller, visit>>

ResolveJob ==
  /\ pc = "job"
  /\ OpenJobs # {}
  /\ LET job == Min(OpenJobs) IN
       /\ SelectAndInstall(Pruned(job), job, "jobs.back")
       /\ loc' = [loc EXCEPT !.i = job]
  /\ UNCHANGED <<mainVars, recommendations, systemlevel>>

JobResolved ==
  /\ pc = "jobs.back"
  /\ IF level <= caller.olevel
       THEN /\ systemlevel' = level + 1
            /\ pc' = "top"
            /\ UNCHANGED loc
       ELSE /\ pc' = "job"
            /\ loc' = [loc EXCEPT !.i = @ + 1]
            /\ UNCHANGED systemlevel
  /\ UNCHANGED <<mainVars, trail, branches, recommendations, level, caller, visit>>

\* The installed packages are visited in two passes if some of them are to be
\* updated.
JobsDone ==
  /\ pc = "job"
  /\ OpenJobs = {}
  /\ IF in.installed # <<>>
       THEN /\ systemlevel' = level + 1
            /\ pc' = "installed"
            /\ loc' = [loc EXCEPT !.pass = IF in.updatemap = {} THEN 1 ELSE 0,
                                  !.passlevel = level, !.i = loc.installedpos, !.n = 1]
       ELSE /\ systemlevel' = level
            /\ pc' = "decide"
            /\ loc' = [loc EXCEPT !.i = 1, !.n = 1]
  /\ UNCHANGED <<mainVars, trail, branches, recommendations, level, caller, visit>>

----------------------------------------------------------------------------
(* Installed packages, pc "installed": loc.i is the place in the list of   *)
(* the installed packages, walked cyclically from installedpos, loc.n      *)
(* counts the packages visited in this pass.                               *)

\* The update rule, or the feature rule where the update rule is disabled or
\* was dropped; 0 for an orphan.
UpdateRule(p) ==
  IF in.upd[p] # 0 /\ (Enabled(in.upd[p]) \/ in.feat[p] = 0) THEN in.upd[p]
                                                             ELSE in.feat[p]

\* An update was asked for, or p is not kept anyway, and no job forbids it.
WantsUpdate(p) ==
  /\ p \notin policy.noupdate
  /\ \/ ~Undecided(p) \/ in.updateall \/ p \in in.updatemap
     \/ rules[UpdateRule(p)].lits[1] # p

UpdateCandidates(p) ==
  IF ~WantsUpdate(p) \/ in.multiversion[p] # {} \/ \E l \in Lits(UpdateRule(p)) : Installed(l)
    THEN {} ELSE Candidates(UpdateRule(p))

\* Updates that may be installed beside p: the policy picks one of them, or p.
MultiversionUpdates(p) == {q \in in.multiversion[p] : WantsUpdate(p) /\ Undecided(q)}

\* A visit to installed package p does something.
ToResolve(p) ==
  /\ ~Installed(p)
  /\ loc.pass = 0 => p \in in.updatemap
  /\ UpdateRule(p) # 0
  /\ Undecided(p) \/ UpdateCandidates(p) # {} \/ MultiversionUpdates(p) # {}

NInstalled == Len(in.installed)

\* The package k places after the current one, and the steps to the next one
\* that has to be resolved.
Place(k) == ((loc.i - 1 + k) % NInstalled) + 1

\* The last package of the round is not visited.
StepsToNext_Short ==
  {k \in 0..(NInstalled - loc.n - 1) : ToResolve(in.installed[Place(k)])}

StepsToNext ==
  {k \in 0..(NInstalled - loc.n) : ToResolve(in.installed[Place(k)])}

AtNextInstalled ==
  [loc EXCEPT !.i = Place(Min(StepsToNext)), !.n = @ + Min(StepsToNext)]

\* "install best version", if there are candidates.
UpdateInstalled ==
  /\ pc = "installed"
  /\ StepsToNext # {}
  /\ loc' = AtNextInstalled
  /\ LET p == in.installed[loc'.i] IN
       /\ UpdateCandidates(p) # {}
       /\ SelectAndInstall(UpdateCandidates(p), UpdateRule(p), "update.back")
  /\ UNCHANGED <<mainVars, recommendations, systemlevel>>

\* "make sure best version is chosen": nothing is installed if that is p itself
\* or is installed already.
UpdateMultiversion ==
  /\ pc = "installed"
  /\ StepsToNext # {}
  /\ loc' = AtNextInstalled
  /\ LET p == in.installed[loc'.i] IN
       \/ \E q \in MultiversionUpdates(p) :
            SelectAndInstall({q}, IF in.feat[p] = 0 THEN in.upd[p] ELSE in.feat[p], "update.back")
       \/ /\ MultiversionUpdates(p) # {}
          /\ pc' = "keep"
          /\ UNCHANGED <<trail, branches, level, caller, visit>>
  /\ UNCHANGED <<mainVars, recommendations, systemlevel>>

\* "if still undecided keep package", or erase it with the job that cleans up.
KeepInstalled(p, next) ==
  /\ Undecided(p)
  /\ loc' = next
  /\ IF p \in policy.cleandeps
       THEN SetPropagateLearn(trail, level, -p, in.disablerules, 0, "keep.back")
       ELSE SetPropagateLearn(trail, level, p, in.disablerules, in.upd[p], "keep.back")
  /\ UNCHANGED <<mainVars, branches, recommendations, systemlevel>>

KeepWithoutUpdate ==
  /\ pc = "installed"
  /\ StepsToNext # {}
  /\ LET p == in.installed[AtNextInstalled.i] IN
       /\ UpdateCandidates(p) = {} /\ MultiversionUpdates(p) = {}
       /\ KeepInstalled(p, AtNextInstalled)

KeepAfterUpdate ==
  /\ pc = "keep"
  /\ KeepInstalled(in.installed[loc.i], loc)

NextPlace == [loc EXCEPT !.i = Place(1), !.n = @ + 1]

KeepNothing ==
  /\ pc = "keep"
  /\ ~Undecided(in.installed[loc.i])
  /\ pc' = "installed"
  /\ loc' = NextPlace
  /\ UNCHANGED <<mainVars, trail, branches, recommendations, level,
                 systemlevel, caller, visit>>

\* The decision was reverted: below the level of the pass the main loop starts
\* again and comes back to this package first, else the package is visited
\* once more, and all the others too if decisions were lost.
InstalledBack ==
  /\ pc \in {"update.back", "keep.back"}
  /\ IF level <= caller.olevel
       THEN IF level = 1 \/ level < loc.passlevel
              THEN /\ pc' = "top"
                   /\ systemlevel' = level + 1
                   /\ loc' = [loc EXCEPT !.installedpos = loc.i]
              ELSE /\ pc' = "installed"
                   /\ loc' = [loc EXCEPT !.n = IF level < caller.olevel THEN 1 ELSE @]
                   /\ UNCHANGED systemlevel
       ELSE /\ IF pc = "update.back"
                 THEN pc' = "keep" /\ UNCHANGED loc
                 ELSE pc' = "installed" /\ loc' = NextPlace
            /\ UNCHANGED systemlevel
  /\ UNCHANGED <<mainVars, trail, branches, recommendations, level, caller, visit>>

InstalledDone ==
  /\ pc = "installed"
  /\ StepsToNext = {}
  /\ IF loc.pass = 0
       THEN /\ loc' = [loc EXCEPT !.pass = 1, !.passlevel = level,
                                  !.installedpos = 1, !.i = 1, !.n = 1]
            /\ UNCHANGED <<pc, systemlevel>>
       ELSE /\ loc' = [loc EXCEPT !.installedpos = 1, !.i = 1, !.n = 1]
            /\ pc' = "decide"
            /\ systemlevel' = level
  /\ UNCHANGED <<mainVars, trail, branches, recommendations, level, caller, visit>>

----------------------------------------------------------------------------
(* Open rules, pc "decide": the rules are walked cyclically from loc.i; a  *)
(* decision starts the count loc.n again.                                  *)

\* Rules with more than two literals are passed over.
ToDecide_Binary(i) ==
  /\ Enabled(i)
  /\ Len(rules[i].lits) = 2
  /\ \A l \in Lits(i) : l > 0 /\ Undecided(l)

\* A binary rule needs two undecided positive literals, a longer one must be
\* open; assertions were decided at the start.
ToDecide(i) ==
  /\ Enabled(i)
  /\ CASE Len(rules[i].lits) = 1 -> FALSE
       [] Len(rules[i].lits) = 2 -> \A l \in Lits(i) : l > 0 /\ Undecided(l)
       [] OTHER -> Open(i)

Rule(k) == ((loc.i - 1 + k) % Len(rules)) + 1

StepsToOpen == {k \in 0..(Len(rules) - loc.n) : ToDecide(Rule(k))}

\* The code asserts that a rule found here leaves a choice.
DecideRule ==
  /\ pc = "decide"
  /\ StepsToOpen # {}
  /\ LET i == Rule(Min(StepsToOpen)) IN
       /\ Cardinality(Candidates(i)) > 1
       /\ SelectAndInstall(Candidates(i), i, "decide.back")
       /\ loc' = [loc EXCEPT !.i = i]
  /\ UNCHANGED <<mainVars, recommendations, systemlevel>>

DecideBack ==
  /\ pc = "decide.back"
  /\ IF level < systemlevel \/ level = 1
       THEN pc' = "top" /\ UNCHANGED loc
       ELSE pc' = "decide" /\ loc' = [loc EXCEPT !.i = Rule(1), !.n = 1]
  /\ UNCHANGED <<mainVars, trail, branches, recommendations, level,
                 systemlevel, caller, visit>>

DecideDone ==
  /\ pc = "decide"
  /\ StepsToOpen = {}
  /\ pc' = IF in.doweak THEN "weak" ELSE "orphans"
  /\ loc' = [loc EXCEPT !.i = 1, !.installedone = FALSE]
  /\ UNCHANGED <<mainVars, trail, branches, recommendations, level,
                 systemlevel, caller, visit>>

----------------------------------------------------------------------------
(* Weak dependencies, pc "weak".                                           *)

\* Candidates of the recommendations of p, of those nothing satisfies yet.
Missing(p) ==
  LET open == {provs \in Range(in.recommends[p]) : \A q \in Range(provs) : ~Installed(q)}
  IN  UNION {{q \in Range(provs) : Undecided(q)} : provs \in open}

\* An installed package that a distribution upgrade drops is not wanted back.
Dropped(p) == in.dupall /\ IsInstalled(p) /\ p \in in.drop

AsksForRecommended(p) == Installed(p) /\ ~(in.ignorerecommended /\ IsInstalled(p))

\* What the packages in S obsolete is left out of both lists.
Obsoleted == UNION {in.obsoletes[p] : p \in {q \in Range(in.installed) : Installed(q)}}

Recommended ==
  {q \in UNION {Missing(p) : p \in {x \in Solvables : AsksForRecommended(x)}} : ~Dropped(q)}
    \ Obsoleted

\* Supplements that hold; with ignorerecommended only those that did not hold
\* before, with the packages installed so far alone.
Supplementing(p) == \E t \in in.supplements[p] : Installed(t)

SupplementedBefore(p) ==
  \E t \in in.supplements[p] : Installed(t) /\ (IsInstalled(t) \/ t = SYSTEMSOLVABLE)

Supplemented ==
  {p \in Solvables :
     /\ Undecided(p) /\ Supplementing(p) /\ ~Dropped(p)
     /\ ~(in.ignorerecommended /\ SupplementedBefore(p))} \ Obsoleted

InstallRecommended(p, at) ==
  /\ recommendations' = Append(recommendations, p)
  /\ SetPropagateLearn(trail, level, p, FALSE, 0, at)

\* A single candidate is installed without a choice.
WeakSingle ==
  /\ pc = "weak"
  /\ \E p \in Solvables :
       /\ Recommended \cup Supplemented = {p}
       /\ InstallRecommended(p, "weak.back")
  /\ UNCHANGED <<mainVars, branches, systemlevel, loc>>

WeakNothing ==
  /\ pc = "weak"
  /\ Recommended \cup Supplemented = {}
  /\ pc' = "orphans"
  /\ UNCHANGED <<mainVars, trail, branches, recommendations, level,
                 systemlevel, caller, visit, loc>>

\* Of several, the policy keeps the best ones: loc.dqmap.
WeakSelect ==
  /\ pc = "weak"
  /\ Cardinality(Recommended \cup Supplemented) > 1
  /\ \E best \in (SUBSET (Recommended \cup Supplemented)) \ {{}} :
       loc' = [loc EXCEPT !.dqs = Supplemented, !.dqmap = best,
                          !.decisioncount = Len(trail.q), !.i = 1]
  /\ pc' = "supplemented"
  /\ UNCHANGED <<mainVars, trail, branches, recommendations, level,
                 systemlevel, caller, visit>>

\* In the order of their numbers, from loc.i.
OpenSupplements == {p \in loc.dqs \cap loc.dqmap : p >= loc.i /\ Undecided(p)}

InstallSupplemented ==
  /\ pc = "supplemented"
  /\ OpenSupplements # {}
  /\ InstallRecommended(Min(OpenSupplements), "supplemented.back")
  /\ loc' = [loc EXCEPT !.i = Min(OpenSupplements)]
  /\ UNCHANGED <<mainVars, branches, systemlevel>>

SupplementedBack ==
  /\ pc = "supplemented.back"
  /\ pc' = IF level <= caller.olevel THEN "top" ELSE "supplemented"
  /\ loc' = [loc EXCEPT !.i = @ + 1]
  /\ UNCHANGED <<mainVars, trail, branches, recommendations, level,
                 systemlevel, caller, visit>>

SupplementedDone ==
  /\ pc = "supplemented"
  /\ OpenSupplements = {}
  /\ IF Len(trail.q) < loc.decisioncount
       THEN pc' = "top" /\ UNCHANGED loc
       ELSE pc' = "recommended" /\ loc' = [loc EXCEPT !.i = 1, !.pkg = 0]
  /\ UNCHANGED <<mainVars, trail, branches, recommendations, level,
                 systemlevel, caller, visit>>

\* pc "recommended": the recommendations of the packages that were installed
\* before, in the order of the queue.  loc.i is the next decision to look at,
\* loc.pkg the package whose recommendations are being walked, from loc.rec.
\* Providers that were forbidden meanwhile are offered as well.
ProvidersLeft_Any(p, k) ==
  LET provs == in.recommends[p][k]
  IN  IF \E q \in Range(provs) : Installed(q) THEN <<>>
      ELSE Only(provs, loc.dqmap)

ProvidersLeft(p, k) ==
  LET provs == in.recommends[p][k]
  IN  IF \E q \in Range(provs) : Installed(q) THEN <<>>
      ELSE Only(provs, {q \in loc.dqmap : Undecided(q)})

OpenRecommends(p, from) ==
  {k \in DOMAIN in.recommends[p] : k >= from /\ ProvidersLeft(p, k) # <<>>}

AskingDecisions ==
  {k \in loc.i..loc.decisioncount :
     LET p == trail.q[k] IN
       /\ p > SYSTEMSOLVABLE /\ AsksForRecommended(p) /\ OpenRecommends(p, 1) # {}}

MoreOfPackage == loc.pkg # 0 /\ OpenRecommends(loc.pkg, loc.rec) # {}

\* "open a branch" counts the alternatives with the variable of the loop over
\* the decisions, which goes on from there.
RecommendedFrom(p, k, next) ==
  LET dq == ProvidersLeft(p, k) IN
    /\ branches' = OpenBranch(branches, Tail(dq), level)
    /\ InstallRecommended(Head(dq), "recommended.back")
    /\ loc' = [loc EXCEPT !.i = IF Len(dq) > 1 THEN Len(dq) + 2 ELSE next,
                          !.pkg = p, !.rec = k + 1]

InstallRecommendations ==
  /\ pc = "recommended"
  /\ IF MoreOfPackage
       THEN RecommendedFrom(loc.pkg, Min(OpenRecommends(loc.pkg, loc.rec)), loc.i)
       ELSE /\ AskingDecisions # {}
            /\ LET k == Min(AskingDecisions)
                   p == trail.q[k]
               IN  RecommendedFrom(p, Min(OpenRecommends(p, 1)), k + 1)
  /\ UNCHANGED <<mainVars, systemlevel>>

RecommendedBack ==
  /\ pc = "recommended.back"
  /\ pc' = IF level <= caller.olevel \/ Len(trail.q) < loc.decisioncount
             THEN "top" ELSE "recommended"
  /\ UNCHANGED <<mainVars, trail, branches, recommendations, level,
                 systemlevel, caller, visit, loc>>

RecommendedDone ==
  /\ pc = "recommended"
  /\ ~MoreOfPackage /\ AskingDecisions = {}
  /\ pc' = "top"
  /\ UNCHANGED <<mainVars, trail, branches, recommendations, level,
                 systemlevel, caller, visit, loc>>

----------------------------------------------------------------------------
(* Orphans of a distribution upgrade: first those that stay, pc "orphans", *)
(* and when all of them are decided the others, pc "droporphans".          *)

OpenOrphans ==
  IF in.dupall /\ in.installed # <<>>
    THEN {k \in DOMAIN in.orphaned : k >= loc.i /\ Undecided(in.orphaned[k])} ELSE {}

OrphansToKeep == {k \in OpenOrphans : in.orphaned[k] \notin in.drop}

KeepOrphan ==
  /\ pc = "orphans"
  /\ OrphansToKeep # {}
  /\ LET k == Min(OrphansToKeep) IN
       /\ SetPropagateLearn(trail, level, in.orphaned[k], FALSE, 0, "orphans.back")
       /\ loc' = [loc EXCEPT !.i = k + 1, !.installedone = TRUE]
  /\ UNCHANGED <<mainVars, branches, recommendations, systemlevel>>

DropOrphan ==
  /\ pc = "droporphans"
  /\ OpenOrphans # {}
  /\ LET k == Min(OpenOrphans) IN
       /\ SetPropagateLearn(trail, level, -in.orphaned[k], FALSE, 0, "droporphans.back")
       /\ loc' = [loc EXCEPT !.i = k + 1]
  /\ UNCHANGED <<mainVars, branches, recommendations, systemlevel>>

OrphansBack ==
  /\ pc \in {"orphans.back", "droporphans.back"}
  /\ pc' = CASE level < caller.olevel -> "top"
             [] pc = "orphans.back" -> "orphans"
             [] OTHER -> "droporphans"
  /\ UNCHANGED <<mainVars, trail, branches, recommendations, level,
                 systemlevel, caller, visit, loc>>

OrphansDone ==
  /\ \/ /\ pc = "orphans"
        /\ OrphansToKeep = {}
        /\ pc' = IF loc.installedone THEN "top" ELSE "droporphans"
     \/ /\ pc = "droporphans"
        /\ OpenOrphans = {}
        /\ pc' = "branch"
  /\ loc' = [loc EXCEPT !.i = 1]
  /\ UNCHANGED <<mainVars, trail, branches, recommendations, level,
                 systemlevel, caller, visit>>

----------------------------------------------------------------------------
(* Branches, pc "branch".  With a solution callback every alternative is   *)
(* tried, the newest first; without one, an alternative that ended up      *)
(* installed anyway is decided in place of the candidate chosen.           *)

\* Goes back to branch g and takes p; the reason is the one of the decision
\* reverted last, read from beyond the end of the queue.
TakeBranch(g, p, left) ==
  LET t      == Reverted(g.level)
      reason == -trail.why[Len(t.q) + 1]
  IN  /\ reason >= 0
      /\ propagate_index' = Len(t.q)
      /\ recommendations' = SubSeq(recommendations, 1, RecommendationsKept(Len(t.q)))
      /\ branches' = left
      /\ SetPropagateLearn(t, g.level, p, in.disablerules, reason, "branch.back")
      /\ UNCHANGED <<in, ruleVars, disabled, policy, problems, an, systemlevel, loc>>

\* The alternative stays on the branch it was taken from.
TryAlternative_Again ==
  /\ pc = "branch"
  /\ in.callback
  /\ branches # <<>>
  /\ LET g == Last(branches) IN
       TakeBranch(g, Head(g.alts),
                  OpenBranch(BranchesBelow(Front(branches), g.level), g.alts, g.level))

TryAlternative ==
  /\ pc = "branch"
  /\ in.callback
  /\ branches # <<>>
  /\ LET g == Last(branches) IN
       TakeBranch(g, Head(g.alts),
                  OpenBranch(BranchesBelow(Front(branches), g.level), Tail(g.alts), g.level))

\* Alternatives that were installed above the level after their branch.
Improvable(b) ==
  {k \in DOMAIN branches[b].alts : trail.map[branches[b].alts[k]] > branches[b].level + 1}

Minimize ==
  /\ pc = "branch"
  /\ ~in.callback
  /\ \E b \in DOMAIN branches :
       /\ Improvable(b) # {}
       /\ \A c \in 1..(b - 1) : Improvable(c) = {}
       /\ TakeBranch(branches[b], branches[b].alts[Min(Improvable(b))],
                     BranchesBelow(branches, branches[b].level))

BackToTop ==
  /\ pc \in {"weak.back", "branch.back"}
  /\ pc' = "top"
  /\ UNCHANGED <<mainVars, trail, branches, recommendations, level,
                 systemlevel, caller, visit, loc>>

Finish ==
  /\ pc = "branch"
  /\ IF in.callback THEN branches = <<>>
                    ELSE \A b \in DOMAIN branches : Improvable(b) = {}
  /\ pc' = "done"
  /\ UNCHANGED <<mainVars, trail, branches, recommendations, level,
                 systemlevel, caller, visit, loc>>

\* solver_run_sat has returned.
Terminated == pc \in {"done", "hopeless"} /\ UNCHANGED vars

----------------------------------------------------------------------------

AssertStep ==
  \/ AssertDecide \/ AssertDisableLearnt \/ AssertAgainstFixed \/ AssertAgainstPolicy
  \/ AssertPhase1Done \/ AssertWeakDecide \/ AssertWeakConflict \/ AssertDone

PropagateStep ==
  \/ PropagateNext \/ PropagateSkip \/ PropagateMove \/ PropagateUnit \/ PropagateDone

ConflictStep ==
  \/ UnsolvableDropWeak \/ UnsolvableReport \/ UnsolvableHopeless \/ StartAnalyze
  \/ AnalyzeRule \/ AnalyzeCurrent \/ AnalyzeAsserting \/ AnalyzeLevel1 \/ Learn

SystemStep ==
  \/ Top \/ EnterSystem \/ ResolveJob \/ JobResolved \/ JobsDone
  \/ UpdateInstalled \/ UpdateMultiversion \/ KeepWithoutUpdate \/ KeepAfterUpdate \/ KeepNothing
  \/ InstalledBack \/ InstalledDone \/ DecideRule \/ DecideBack \/ DecideDone

ExtraStep ==
  \/ WeakSingle \/ WeakNothing \/ WeakSelect
  \/ InstallSupplemented \/ SupplementedBack \/ SupplementedDone
  \/ InstallRecommendations \/ RecommendedBack \/ RecommendedDone
  \/ KeepOrphan \/ DropOrphan \/ OrphansBack \/ OrphansDone
  \/ TryAlternative \/ Minimize \/ BackToTop \/ Finish

Next ==
  AssertStep \/ PropagateStep \/ ConflictStep \/ SystemStep \/ ExtraStep \/ Terminated

Spec == Init /\ [][Next]_vars

\* The solver is a sequential program: as long as it can step, it does.
FairSpec == Spec /\ WF_vars(Next)
=============================================================================
