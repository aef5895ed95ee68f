---------------------------- MODULE RuleGeneration ----------------------------
(***************************************************************************)
(* solver_solve up to the search (src/src/solver.c): which packages matter, *)
(* and the rules for them, area after area.  An action is one turn of a    *)
(* loop of solver_solve, or of the loop of solver_addrpmrulesforsolvable   *)
(* (src/src/rules.c) it calls.                                             *)
(***************************************************************************)
EXTENDS PolicyRules

CONSTANT
  Calls_   \* calls of solver_solve: records with pool, job and the options

VARIABLES
  in,            \* the call
  pool,          \* its pool, with the provider lists
  S,             \* the options, maps and the obsoletes index
  phase,         \* the section of solver_solve
  todo,          \* what the section's loop has still to look at
  calls,         \* solvables for which the rules are to be made, one by one
  workq, addedmap, \* of solver_addrpmrulesforsolvable
  at,            \* where solver_addrpmrulesforweak goes on
  installcandidatemap, hasdupjob,
  rpm,           \* the rules of the packages
  feature, update, \* per installed package; <<>> if there is none
  off,           \* packages whose feature rule is disabled
  orphaned, multiversionupdaters,
  jobrules,      \* rules of jobs, with the number of the job
  infarch, dup, choice,
  weakruleq      \* pairs of an area and what the rule is found by in it

localVars   == <<installcandidatemap, hasdupjob>>
closureVars == <<calls, workq, addedmap, at, localVars, rpm>>
policyVars  == <<feature, update, off, orphaned, multiversionupdaters>>
extraVars   == <<infarch, dup, choice>>
generationVars == <<in, pool, S, phase, todo, closureVars, policyVars, jobrules, extraVars, weakruleq>>

job == in.job

NoRules == [p \in {} |-> <<>>]

GenerationInit ==
  /\ in \in Calls_
  /\ pool = in.pool
  /\ S = in.options
  /\ phase = "start"
  /\ todo = <<>> /\ calls = <<>> /\ workq = <<>>
  /\ addedmap = {SYSTEMSOLVABLE}
  /\ at = 1
  /\ installcandidatemap = {} /\ hasdupjob = FALSE
  /\ rpm = <<>>
  /\ feature = NoRules /\ update = NoRules /\ off = {} /\ orphaned = <<>>
  /\ multiversionupdaters = NoRules
  /\ jobrules = <<>> /\ infarch = <<>> /\ dup = <<>> /\ choice = <<>>
  /\ weakruleq = {}

----------------------------------------------------------------------------
(* Provider lists, obsoletes index, and the jobs that are needed early.    *)

CreateProviders ==
  /\ phase = "start"
  /\ pool' = WithProviders(in.pool)
  /\ phase' = "index"
  /\ UNCHANGED <<in, S, todo, closureVars, policyVars, jobrules, extraVars, weakruleq>>

Prepare ==
  /\ phase = "index"
  /\ LET installed(op) == SelectedBy(pool, job, op) \cap InstalledSolvables(pool)
         all(op) == pool.installed # 0 /\ HasAll(job, op)
     IN S' = [S EXCEPT !.obsoletes = policy_create_obsolete_index(pool),
                       !.noobsoletes = solver_calculate_noobsmap(pool, job),
                       !.fixmap = installed("verify"), !.fixmap_all = @ \/ all("verify"),
                       !.updatemap = installed("update"), !.updatemap_all = @ \/ all("update")]
  /\ calls' = Installed(pool)
  /\ phase' = "installed"
  /\ UNCHANGED <<in, pool, todo, workq, addedmap, at, localVars, rpm, policyVars, jobrules,
                 extraVars, weakruleq>>

----------------------------------------------------------------------------
(* The rules of the packages.                                              *)

\* One package of the work queue of solver_addrpmrulesforsolvable.
AddRpmRules ==
  /\ workq # <<>>
  /\ LET n == Head(workq) IN
     \/ /\ n \in addedmap
        /\ workq' = Tail(workq)
        /\ UNCHANGED <<addedmap, rpm>>
     \/ /\ n \notin addedmap
        /\ addedmap' = addedmap \cup {n}
        /\ rpm' = FoldLeft(solver_addrule, rpm, RpmCalls(pool, S, n))
        /\ workq' = Tail(workq) \o SelectSeq(Reached(pool, S, n), LAMBDA p : p \notin addedmap')
  /\ UNCHANGED <<in, pool, S, phase, todo, calls, at, localVars, policyVars, jobrules,
                 extraVars, weakruleq>>

Idle == workq = <<>> /\ calls = <<>>

NextCall ==
  /\ workq = <<>> /\ calls # <<>>
  /\ calls' = Tail(calls)
  /\ workq' = <<Head(calls)>>
  /\ UNCHANGED <<in, pool, S, phase, todo, addedmap, at, localVars, rpm, policyVars,
                 jobrules, extraVars, weakruleq>>

\* The loop of a section is over.
NextPhase(from, to, list) ==
  /\ phase = from /\ Idle /\ todo = <<>>
  /\ phase' = to
  /\ todo' = list

Numbers(seq) == [i \in DOMAIN seq |-> i]

SkipTo ==
  /\ \/ NextPhase("installed", "updaters", Installed(pool))
     \/ NextPhase("updaters", "jobs", Numbers(job))
     \/ NextPhase("jobs", "weak", <<>>)
     \/ NextPhase("feature", "update", Installed(pool))
     \/ NextPhase("update", "job", Numbers(job))
     \/ NextPhase("job", "infarch", <<>>)
  /\ UNCHANGED <<in, pool, S, closureVars, policyVars, jobrules, extraVars, weakruleq>>

\* Mutant: only the updates the options allow.
AddUpdaters_Allowed ==
  /\ phase = "updaters" /\ Idle /\ todo # <<>>
  /\ calls' = <<Head(todo)>> \o policy_findupdatepackages(pool, S, Head(todo), FALSE)
  /\ todo' = Tail(todo)
  /\ UNCHANGED <<in, pool, S, phase, workq, addedmap, at, localVars, rpm, policyVars,
                 jobrules, extraVars, weakruleq>>

\* solver_addrpmrulesforupdaters
AddUpdaters ==
  /\ phase = "updaters" /\ Idle /\ todo # <<>>
  /\ calls' = <<Head(todo)>> \o policy_findupdatepackages(pool, S, Head(todo), TRUE)
  /\ todo' = Tail(todo)
  /\ UNCHANGED <<in, pool, S, phase, workq, addedmap, at, localVars, rpm, policyVars,
                 jobrules, extraVars, weakruleq>>

AddJobPackages ==
  /\ phase = "jobs" /\ Idle /\ todo # <<>>
  /\ LET j == job[Head(todo)] IN
     /\ calls' = IF j.op = "install" THEN JobSelect(pool, j) ELSE <<>>
     /\ installcandidatemap' = installcandidatemap \cup (IF j.op = "install" THEN Selected(pool, j) ELSE {})
     /\ S' = IF j.op = "distupgrade" /\ j.select = "all"
             THEN [S EXCEPT !.dupmap_all = TRUE, !.updatemap_all = TRUE] ELSE S
     /\ hasdupjob' = (hasdupjob \/ (j.op = "distupgrade" /\ ~S'.dupmap_all))
  /\ todo' = Tail(todo)
  /\ UNCHANGED <<in, pool, phase, workq, addedmap, at, rpm, policyVars, jobrules, extraVars, weakruleq>>

\* Mutant: also those that are considered already.
WeaklyPossible_Again(p) ==
  /\ pool_installable(pool, p)
  /\ AnyPossible(pool, pool.solvables[p].supplements \o pool.solvables[p].enhances, addedmap)

\* Could p be selected because of what it supplements or enhances?
WeaklyPossible(p) ==
  /\ p \notin addedmap /\ pool_installable(pool, p)
  /\ \/ AnyPossible(pool, pool.solvables[p].supplements, addedmap)
     \/ AnyPossible(pool, pool.solvables[p].enhances, addedmap)

\* solver_addrpmrulesforweak goes round until it has found none for one round.
Round == LET n == Len(pool.solvables) IN [k \in 1 .. n |-> ((at + k - 2) % n) + 1]

AddWeak ==
  /\ phase = "weak" /\ Idle
  /\ LET found == SelectSeq(Round, WeaklyPossible) IN
     \/ /\ found # <<>>
        /\ workq' = <<found[1]>>
        /\ at' = found[1] + 1
        /\ UNCHANGED phase
     \/ /\ found = <<>>
        /\ phase' = "unify"
        /\ UNCHANGED <<workq, at>>
  /\ UNCHANGED <<in, pool, S, todo, calls, addedmap, localVars, rpm, policyVars, jobrules,
                 extraVars, weakruleq>>

\* solver_unifyrules, and the maps for an upgrade to repositories.
Unify ==
  /\ phase = "unify"
  /\ rpm' = solver_unifyrules(rpm)
  /\ S' = IF hasdupjob
          THEN [S EXCEPT !.dupmap = Dupmap(pool, job), !.dupinvolvedmap = DupInvolvedmap(pool, job)] ELSE S
  /\ phase' = "feature"
  /\ todo' = Installed(pool)
  /\ UNCHANGED <<in, pool, calls, workq, addedmap, at, localVars, policyVars, jobrules,
                 extraVars, weakruleq>>

----------------------------------------------------------------------------
(* The rules that keep installed packages, and those of the jobs.          *)

Put(f, p, v) == [x \in DOMAIN f \cup {p} |-> IF x = p THEN v ELSE f[x]]

AddFeatureRule ==
  /\ phase = "feature" /\ todo # <<>>
  /\ feature' = Put(feature, Head(todo), solver_addupdaterule(pool, S, Head(todo), TRUE).lits)
  /\ todo' = Tail(todo)
  /\ UNCHANGED <<in, pool, S, phase, closureVars, update, off, orphaned, multiversionupdaters, jobrules,
                 extraVars, weakruleq>>

\* Of two rules that are the same one goes; of two others the feature rule is
\* disabled.  If packages may be uninstalled, both are kept as weak rules.
AddUpdateRule ==
  /\ phase = "update" /\ todo # <<>>
  /\ \E u \in {solver_addupdaterule(pool, S, Head(todo), FALSE)} :
     LET p  == Head(todo)
         sr == feature[p]
         same == u.lits = sr
     IN /\ orphaned' = orphaned \o When(u.orphaned, p) \o When(sr \in {<<>>, <<p>>}, p)
        /\ multiversionupdaters' = Put(multiversionupdaters, p, u.multiversion)
        /\ update' = Put(update, p, IF same /\ S.allowuninstall THEN <<>> ELSE u.lits)
        /\ feature' = IF same /\ ~S.allowuninstall THEN Put(feature, p, <<>>) ELSE feature
        /\ off' = IF u.lits # <<>> /\ ~same /\ ~S.allowuninstall THEN off \cup {p} ELSE off
        /\ weakruleq' = IF ~S.allowuninstall \/ u.lits = <<>> THEN weakruleq
                        ELSE weakruleq \cup {<<"feature", p>>} \cup (IF same THEN {} ELSE {<<"update", p>>})
  /\ todo' = Tail(todo)
  /\ UNCHANGED <<in, pool, S, phase, closureVars, jobrules, extraVars>>

AddJobRules ==
  /\ phase = "job" /\ todo # <<>>
  /\ LET j   == Head(todo)
         new == JobRules(pool, job[j], installcandidatemap)
     IN /\ jobrules' = jobrules \o [k \in DOMAIN new |-> [lits |-> new[k], job |-> j]]
        /\ weakruleq' = weakruleq
             \cup (IF job[j].weak THEN {<<"job", k>> : k \in Len(jobrules) + 1 .. Len(jobrules) + Len(new)} ELSE {})
             \cup (IF job[j].op = "weakendeps" /\ job[j].select = "solvable"
                   THEN {<<"rpm", i>> : i \in weaken_solvable_deps(rpm, job[j].what)} ELSE {})
        /\ S' = IF job[j].op # "droporphaned" THEN S
                ELSE [S EXCEPT !.droporphanedmap_all = @ \/ job[j].select = "all",
                               !.droporphanedmap = @ \cup (Selected(pool, job[j]) \cap InstalledSolvables(pool))]
  /\ todo' = Tail(todo)
  /\ UNCHANGED <<in, pool, phase, closureVars, policyVars, extraVars>>

----------------------------------------------------------------------------
(* The rest of the policy rules.                                           *)

AddInfarchRules ==
  /\ phase = "infarch"
  /\ infarch' = IF S.noinfarchcheck THEN <<>> ELSE solver_addinfarchrules(pool, S, addedmap)
  /\ phase' = "dup"
  /\ UNCHANGED <<in, pool, S, todo, closureVars, policyVars, jobrules, dup, choice, weakruleq>>

AddDupRules ==
  /\ phase = "dup"
  /\ dup' = IF hasdupjob THEN solver_addduprules(pool, S, addedmap) ELSE <<>>
  /\ S' = IF hasdupjob THEN [S EXCEPT !.updatemap = @ \cup dup_updates(pool, S, addedmap)] ELSE S
  /\ phase' = "choice"
  /\ UNCHANGED <<in, pool, todo, closureVars, policyVars, jobrules, infarch, choice, weakruleq>>

\* The update rule of a package, or else its feature rule.
PolicyRule(p) == IF update[p] # <<>> THEN update[p] ELSE feature[p]

AddChoiceRules ==
  /\ phase = "choice"
  /\ choice' = solver_addchoicerules(pool, S, rpm, [p \in InstalledSolvables(pool) |-> PolicyRule(p)],
                                     {-r[1] : r \in ToSet(infarch) \cup ToSet(dup)})
  /\ phase' = "clean"
  /\ UNCHANGED <<in, pool, S, todo, closureVars, policyVars, jobrules, infarch, dup, weakruleq>>

GenerationNext ==
  \/ CreateProviders \/ Prepare \/ AddRpmRules \/ NextCall \/ SkipTo \/ AddUpdaters \/ AddJobPackages \/ AddWeak \/ Unify
  \/ AddFeatureRule \/ AddUpdateRule \/ AddJobRules \/ AddInfarchRules \/ AddDupRules \/ AddChoiceRules
=============================================================================
