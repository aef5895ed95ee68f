------------------------------- MODULE CleanDeps -------------------------------
(***************************************************************************)
(* What erasing with SOLVER_CLEANDEPS makes superfluous:                   *)
(* solver_createcleandepsmap (src/src/rules.c), as solver_disablepolicyrules *)
(* calls it once all rules have been made.  An action is one turn of one   *)
(* of its two loops over the queue.                                        *)
(***************************************************************************)
EXTENDS RuleGeneration

VARIABLES
  iq,            \* packages to look at
  im,            \* packages that stay
  userinstalled, \* packages to keep; in the second loop those to erase
  cleandepsmap

cleanVars == <<iq, im, userinstalled, cleandepsmap>>

installedm == InstalledSolvables(pool)

CleanInit ==
  /\ GenerationInit
  /\ iq = <<>> /\ im = {} /\ userinstalled = {} /\ cleandepsmap = {}

JobLiterals == {jobrules[i].lits : i \in DOMAIN jobrules}

\* The erasing assertions, in order.
Erasing == SelectSeq(jobrules, LAMBDA r : Len(r.lits) = 1 /\ r.lits[1] < 0)
Erased == {-Erasing[i].lits[1] : i \in DOMAIN Erasing}

WithCleanDeps(r) == job[r.job].op = "erase" /\ job[r.job].cleandeps

WantsCleanDeps == pool.installed # 0 /\ \E j \in DOMAIN job : job[j].op = "erase" /\ job[j].cleandeps

StartClean ==
  /\ phase = "clean"
  /\ IF WantsCleanDeps
     THEN /\ userinstalled' =
               ((SelectedBy(pool, job, "userinstalled") \cup {p \in UNION {ToSet(l) : l \in JobLiterals} : p > 0}) \cap installedm)
                 \ Erased
          /\ LET start == SelectSeq(Erasing, LAMBDA r : IsInstalled(pool, -r.lits[1]) /\ WithCleanDeps(r))
             IN iq' = [i \in DOMAIN start |-> -start[i].lits[1]]
          /\ im' = installedm
          /\ phase' = "strip"
     ELSE /\ phase' = "done"
          /\ UNCHANGED <<iq, im, userinstalled>>
  /\ UNCHANGED <<in, pool, S, todo, closureVars, policyVars, jobrules, extraVars, weakruleq, cleandepsmap>>

\* What p requires or recommends.
Needs(p) == Calls(pool.solvables[p].requires \o pool.solvables[p].recommends, LAMBDA d : pool_whatprovides(pool, d))

\* Packages whose supplements are no longer fulfilled by m.
Unsupplemented(m) ==
  SelectSeq(Installed(pool),
    LAMBDA p : /\ p \in m
               /\ \E d \in ToSet(pool.solvables[p].supplements) :
                    ~dep_possible(pool, d, m) /\ dep_possible(pool, d, installedm))

\* First loop: take out a package and look at what it needs.
Strip ==
  /\ phase = "strip" /\ iq # <<>>
  /\ LET ip == Head(iq) IN
     IF ip \notin im \/ ip \in userinstalled
     THEN /\ iq' = Tail(iq)
          /\ UNCHANGED im
     ELSE /\ im' = im \ {ip}
          /\ LET rest == Tail(iq) \o SelectSeq(Needs(ip), LAMBDA p : p \in im')
             IN iq' = IF rest = <<>> THEN Unsupplemented(im') ELSE rest
  /\ UNCHANGED <<generationVars, userinstalled, cleandepsmap>>

\* Mutant: the packages that stay are not looked at.
FromStaying_Nothing == <<>>

FromStaying == Sorted(im', <)

\* Between the loops: start from what stays, from what the jobs want, and from
\* packages named as installed by the user.
Turn ==
  /\ phase = "strip" /\ iq = <<>>
  /\ userinstalled' = Erased \cap installedm
  /\ im' = im \ Erased
  /\ LET named == SelectSeq(job, LAMBDA j : /\ j.op = "userinstalled" /\ j.select = "solvable"
                                            /\ ~IsInstalled(pool, j.what))
     IN iq' = FromStaying
              \o Calls(jobrules, LAMBDA r : Positive(r.lits))
              \o [k \in DOMAIN named |-> named[k].what]
  /\ phase' = "refill"
  /\ UNCHANGED <<in, pool, S, todo, closureVars, policyVars, jobrules, extraVars, weakruleq, cleandepsmap>>

\* Second loop: put back what is needed by what stays.
Refill ==
  /\ phase = "refill" /\ iq # <<>>
  /\ LET ip    == Head(iq)
         back  == pushunique(<<>>, SelectSeq(Needs(ip), LAMBDA p : p \in installedm \ (im \cup userinstalled \cup {ip})))
         im1   == im \cup ToSet(back)
         rest  == Tail(iq) \o back
         \* each of them counts for those after it
         more  == FoldLeft(LAMBDA m, p : IF /\ p \notin m /\ p \notin userinstalled
                                            /\ AnyPossible(pool, pool.solvables[p].supplements, m)
                                         THEN m \cup {p} ELSE m, im1, Installed(pool))
     IN /\ iq' = IF rest = <<>> THEN Sorted(more \ im1, <) ELSE rest
        /\ im' = IF rest = <<>> THEN more ELSE im1
  /\ UNCHANGED <<generationVars, userinstalled, cleandepsmap>>

\* Mutant: all that does not stay.
FinishClean_All ==
  /\ phase = "refill" /\ iq = <<>>
  /\ cleandepsmap' = Solvables(pool) \ im
  /\ phase' = "done"
  /\ UNCHANGED <<in, pool, S, todo, closureVars, policyVars, jobrules, extraVars, weakruleq, iq, im, userinstalled>>

FinishClean ==
  /\ phase = "refill" /\ iq = <<>>
  /\ cleandepsmap' = installedm \ im
  /\ phase' = "done"
  /\ UNCHANGED <<in, pool, S, todo, closureVars, policyVars, jobrules, extraVars, weakruleq, iq, im, userinstalled>>

vars == <<generationVars, cleanVars>>

Next ==
  \/ GenerationNext /\ UNCHANGED cleanVars
  \/ StartClean \/ Strip \/ Turn \/ Refill \/ FinishClean
  \/ phase = "done" /\ UNCHANGED vars

\* Weak fairness of Next with its ENABLED written out: there is a next step
\* until all is done (a deadlock would be reported).
Progress == []<>(phase = "done") \/ []<><<TRUE>>_vars

Spec == CleanInit /\ [][Next]_vars /\ Progress
=============================================================================
