----------------------------- MODULE MCGeneration -----------------------------
(***************************************************************************)
(* The pools, jobs and options the run checks the rule generation with.    *)
(***************************************************************************)
EXTENDS GenerationProperties

NameA == 1  NameB == 2  NameC == 3  NameD == 4
X86 == 3    I586 == 4

Rel(name, flags, evr) == [name |-> name, flags |-> flags, evr |-> evr]

Relations ==
  <<Rel(NameA, {"GT", "EQ"}, 20), Rel(NameA, {"EQ"}, 11), Rel(NameB, {"LT"}, 20),
    Rel(5, {"NAMESPACE"}, 1), Rel(NameB, {"OR"}, NameC), Rel(NameC, {"ARCH"}, X86),
    Rel(NameA, {"EQ"}, 21), Rel(NameB, {"EQ"}, 11), Rel(NameB, {"EQ"}, 21), Rel(NameC, {"EQ"}, 10),
    Rel(NameC, {"EQ"}, 20), Rel(NameD, {"EQ"}, 10), Rel(NameA, {"WITH"}, NameC),
    Rel(NameB, {"OR"}, 104), Rel(NameA, {"LT", "GT"}, 21), Rel(NameA, {"EQ"}, 10)>>
A_GE_2 == 101  A_11 == 102  B_LT_2 == 103  NS == 104  B_OR_C == 105  C_X86 == 106  A_21 == 107
B_11 == 108    B_21 == 109  C_10 == 110    C_20 == 111  D_10 == 112  A_WITH_C == 113  B_OR_NS == 114
A_NE_21 == 115  A_10 == 116

Solvable(name, evr, repo, provides) ==
  [name |-> name, evr |-> evr, arch |-> X86, vendor |-> 1, repo |-> repo, provides |-> provides,
   requires |-> <<>>, conflicts |-> <<>>, obsoletes |-> <<>>, recommends |-> <<>>, suggests |-> <<>>,
   supplements |-> <<>>, enhances |-> <<>>]

\* 2, 3 and 8 are installed, 4 and 5 are updates, 6 and 7 are new.
BaseSolvables ==
  <<[Solvable(7, 0, 0, <<>>) EXCEPT !.arch = ARCH_NOARCH],
    Solvable(NameA, 11, 1, <<A_11>>),
    [Solvable(NameB, 11, 1, <<B_11>>) EXCEPT !.requires = <<NameA>>],
    Solvable(NameA, 21, 2, <<A_21>>),
    [Solvable(NameB, 21, 2, <<B_21>>) EXCEPT !.requires = <<A_GE_2>>],
    Solvable(NameC, 10, 2, <<C_10>>),
    [Solvable(NameC, 20, 3, <<C_20>>) EXCEPT !.arch = I586],
    Solvable(NameD, 10, 1, <<D_10>>)>>

BasePool ==
  [solvables |-> BaseSolvables, rels |-> Relations, nstrings |-> 7,
   repos |-> [r \in 1 .. 3 |-> [priority |-> 0, subpriority |-> 0, disabled |-> FALSE]],
   installed |-> 1, id2arch |-> pool_setarchpolicy(4, << <<"", X86>>, <<":", I586>> >>),
   vendormask |-> << {1}, {2} >>, namespace |-> {1}, obsoleteusesprovides |-> FALSE,
   implicitobsoleteusesprovides |-> FALSE, noinstalledobsoletes |-> FALSE, allowselfconflicts |-> FALSE,
   patches |-> {}]

\* What makes a pool interesting.
Twist(t, W) ==
  LET with(p, field, v) == [W EXCEPT !.solvables[p][field] = v] IN
  CASE t = "vendor"    -> [W EXCEPT !.solvables[4].vendor = 2, !.solvables[5].vendor = 2]
    [] t = "arch"      -> with(4, "arch", I586)
    [] t = "replaces"  -> [W EXCEPT !.solvables[6].provides = <<C_10, A_10>>, !.solvables[6].obsoletes = <<NameA>>]
    [] t = "conflicts" -> with(6, "conflicts", <<B_LT_2>>)
    [] t = "broken"    -> with(3, "requires", <<C_20, NameA>>)
    [] t = "weak"      -> [W EXCEPT !.solvables[8].supplements = <<NameA>>, !.solvables[7].supplements = <<A_GE_2>>,
                                    !.solvables[7].requires = <<NameD>>]
    [] t = "namespace" -> [W EXCEPT !.solvables[6].requires = <<B_OR_NS>>, !.solvables[4].conflicts = <<NS>>]
    [] t = "split"     -> [W EXCEPT !.solvables[5].obsoletes = <<NameD>>, !.solvables[2].recommends = <<NameD>>]
    [] t = "self"      -> [W EXCEPT !.solvables[5].conflicts = <<NameB>>, !.solvables[6].requires = <<B_OR_C, A_NE_21>>]
    [] t = "needs"     -> [W EXCEPT !.solvables[8].requires = <<NameB>>, !.solvables[3].recommends = <<NameC, NameD>>]
    [] t = "copy"      -> [W EXCEPT !.solvables[5] = [W.solvables[2] EXCEPT !.repo = 2], !.repos[3].priority = 1]
    [] t = "foreign"   -> [W EXCEPT !.solvables[8].arch = I586, !.solvables[7].name = NameD,
                                    !.solvables[7].provides = <<D_10>>, !.solvables[6].name = NameD]
    [] t = "fresh"     -> [W EXCEPT !.installed = 0, !.solvables[7].requires = <<C_X86, A_WITH_C>>]
    [] t = "either"    -> [W EXCEPT !.solvables[7].provides = <<C_20, A_21>>, !.solvables[6].requires = <<A_GE_2>>]

Twists == {"vendor", "arch", "replaces", "conflicts", "broken", "weak", "namespace", "split", "self", "needs",
           "copy", "foreign", "fresh", "either"}

TwistedPools ==
  {Twist(t, BasePool) : t \in Twists} \cup {Twist(t, Twist(u, BasePool)) : t, u \in Twists \ {"fresh", "copy"}}

Job(op, select, what) ==
  [op |-> op, select |-> select, what |-> what, weak |-> FALSE, cleandeps |-> FALSE, set |-> {}]

Clean(j) == [j EXCEPT !.cleandeps = TRUE]

JobLists ==
  {<<>>, <<Job("install", "solvable", 6)>>, <<Job("install", "solvable", 7), Job("erase", "solvable", 2)>>,
   <<Job("install", "solvable", 4), Job("update", "all", 0)>>,
   <<Job("install", "name", NameC), Job("lock", "solvable", 8)>>,
   <<Job("install", "provides", A_GE_2), Job("verify", "all", 0)>>,
   <<Job("install", "name", A_21), [Job("erase", "name", NameB) EXCEPT !.weak = TRUE]>>,
   <<Job("install", "oneof", <<5, 6>>), Job("weakendeps", "solvable", 5)>>,
   <<Job("install", "name", C_X86), Job("droporphaned", "all", 0)>>,
   <<Clean(Job("erase", "solvable", 2))>>, <<Clean(Job("erase", "solvable", 3)), Job("userinstalled", "name", NameA)>>,
   <<Clean(Job("erase", "solvable", 8)), Job("userinstalled", "solvable", 6)>>,
   <<Job("distupgrade", "repo", 2)>>, <<Job("distupgrade", "repo", 3), Job("install", "solvable", 7)>>,
   <<Job("distupgrade", "all", 0)>>,
   <<Job("noobsoletes", "name", NameA), Job("update", "name", NameA)>>,
   <<Job("install", "name", NameD), Job("install", "solvable", 5)>>}

Options ==
  [allowdowngrade |-> FALSE, allowarchchange |-> FALSE, allowvendorchange |-> FALSE, allowuninstall |-> FALSE,
   noupdateprovide |-> FALSE, noinfarchcheck |-> FALSE,
   fixmap |-> {}, fixmap_all |-> FALSE, updatemap |-> {}, updatemap_all |-> FALSE,
   droporphanedmap |-> {}, droporphanedmap_all |-> FALSE, dupmap_all |-> FALSE, dupmap |-> {},
   dupinvolvedmap |-> {}, noobsoletes |-> {}, decided |-> {}, obsoletes |-> [at |-> <<>>, data |-> <<>>]]

Call_(W, jobs, options) == [pool |-> W, job |-> jobs, options |-> options]

MainCalls ==
  {Call_(W, jobs, Options) : W \in TwistedPools, jobs \in JobLists}
  \cup {Call_(W, <<Job("update", "all", 0)>>, o) :
          W \in {Twist(t, BasePool) : t \in Twists},
          o \in {[Options EXCEPT !.allowuninstall = TRUE], [Options EXCEPT !.noupdateprovide = TRUE],
                 [Options EXCEPT !.allowvendorchange = TRUE, !.allowarchchange = TRUE]}}
=============================================================================
