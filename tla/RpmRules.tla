------------------------------ MODULE RpmRules ------------------------------
(***************************************************************************)
(* The rules a package stands for: what solver_addrpmrulesforsolvable does *)
(* with one package, solver_addrule and solver_unifyrules                  *)
(* (src/src/rules.c).  A rule is the sequence of its literals.  S holds the *)
(* maps fixmap and noobsoletes and the flag fixmap_all besides what Policy *)
(* needs.  W has the pool's flags and the names of the patches.            *)
(***************************************************************************)
EXTENDS Policy

\* A call of addrpmrule: the literal p, the list or literal d, and why.
Call(p, d, type, dep) == [p |-> p, d |-> d, type |-> type, dep |-> dep]

\* Mutant: only looks at a single literal.
SelfFulfilling_Single(p, d) == d = <<p>> \/ d = <<-p>>

\* solver_addrule, for a rule of the packages: a rule that cannot be violated
\* is none, two literals are put in order, the last rule is not repeated.
SelfFulfilling(p, d) == d = <<p>> \/ \E i \in DOMAIN d : d[i] = -p

Normal(p, d) == IF Len(d) = 1 /\ p > d[1] THEN <<d[1], p>> ELSE <<p>> \o d

\* Mutant: a rule for the same package counts as repeated.
solver_addrule_SameHead(rules, call) ==
  IF SelfFulfilling(call.p, call.d) \/ (rules # <<>> /\ Last(rules)[1] = Normal(call.p, call.d)[1])
  THEN rules ELSE Append(rules, Normal(call.p, call.d))

solver_addrule(rules, call) ==
  IF SelfFulfilling(call.p, call.d) \/ (rules # <<>> /\ Last(rules) = Normal(call.p, call.d))
  THEN rules ELSE Append(rules, Normal(call.p, call.d))

\* unifyrules_sortcmp: literal by literal, a list that ends counts as 0.
RuleBefore(a, b) ==
  LET x == Append(a, 0) y == Append(b, 0) IN
  \E k \in DOMAIN x \cap DOMAIN y : x[k] < y[k] /\ \A j \in 1 .. k - 1 : x[j] = y[j]

solver_unifyrules(rules) == Sorted(ToSet(rules), RuleBefore)

----------------------------------------------------------------------------
(* The calls for package n, in the order the code makes them.              *)

\* Broken dependencies of installed packages stay broken.
DontFix(W, S, n) == IsInstalled(W, n) /\ ~S.fixmap_all /\ n \notin S.fixmap

IsSource(W, n) == Arch(W, n) = ARCH_SRC

\* One call, or none.
When(c, call) == IF c THEN <<call>> ELSE <<>>

Calls(seq, Of(_)) == FlattenSeq([i \in DOMAIN seq |-> Of(seq[i])])

NotInstallable(W, S, n) ==
  When(~DontFix(W, S, n) /\ ~IsSource(W, n) /\ ~pool_installable(W, n), Call(-n, <<>>, "not_installable", 0))

\* Is the requirement enforced, and does it ask for anything?
Enforced(W, S, n, req) ==
  LET dp == pool_whatprovides(W, req) IN
  /\ dp = <<>> \/ dp[1] # SYSTEMSOLVABLE
  /\ DontFix(W, S, n) => \E i \in DOMAIN dp : IsInstalled(W, dp[i])

Requires(W, S, n) ==
  Calls(W.solvables[n].requires,
    LAMBDA req : When(Enforced(W, S, n, req),
      Call(-n, pool_whatprovides(W, req),
           IF pool_whatprovides(W, req) = <<>> THEN "nothing_provides_dep" ELSE "requires", req)))

IsPatch(W, n) == Name(W, n) \in W.patches

\* makemultiversionconflict: other versions that may be installed besides the
\* one a patch excludes.
OtherVersions(W, S, p, con) ==
  SelectSeq(pool_whatprovides(W, Name(W, p)),
            LAMBDA q : /\ Name(W, q) = Name(W, p) /\ Arch(W, q) = Arch(W, p)
                       /\ q \in S.noobsoletes /\ ~pool_match_nevr(W, q, con))

OtherProviders(W, con) == ISRELDEP(con) /\ GETRELDEP(W, con).flags = {"OTHERPROVIDERS"}

ConflictCall(W, S, n, p, con) ==
  LET excluded == /\ IsPatch(W, n) => pool_match_nevr(W, p, con)
                  /\ ~(DontFix(W, S, n) /\ IsInstalled(W, p))
      self == p = n /\ ~W.allowselfconflicts
      others == IF IsPatch(W, n) /\ p \in S.noobsoletes /\ ISRELDEP(con) THEN OtherVersions(W, S, p, con) ELSE <<>>
  IN IF self
     THEN When(excluded /\ ~OtherProviders(W, con), Call(-n, <<>>, "self_conflict", con))
     ELSE When(excluded, Call(-n, <<-p>> \o others, "conflict", con))

Conflicts(W, S, n) ==
  Calls(W.solvables[n].conflicts,
    LAMBDA con : Calls(pool_whatprovides(W, con), LAMBDA p : ConflictCall(W, S, n, p, con)))

NoObs(S, n) == n \in S.noobsoletes

Obsoletes(W, S, n) ==
  IF NoObs(S, n) THEN <<>>
  ELSE Calls(W.solvables[n].obsoletes,
         LAMBDA obs : Calls(pool_whatprovides(W, obs),
           LAMBDA p : When(/\ p # n
                           /\ ~(DontFix(W, S, n) /\ IsInstalled(W, p))
                           /\ MatchesObsoletes(W, obs, p),
                           Call(-n, <<-p>>, IF IsInstalled(W, n) THEN "installed_obsoletes" ELSE "obsoletes", obs))))

SameNevra(W, p, q) == Name(W, p) = Name(W, q) /\ Evr(W, p) = Evr(W, q) /\ Arch(W, p) = Arch(W, q)

\* A package replaces its other versions.
SameNames(W, S, n) ==
  Calls(pool_whatprovides(W, Name(W, n)),
    LAMBDA p : When(/\ p # n
                    /\ IsInstalled(W, n) => ~DontFix(W, S, n) /\ IsInstalled(W, p)
                    /\ NoObs(S, n) => SameNevra(W, n, p)
                    /\ W.implicitobsoleteusesprovides \/ Name(W, p) = Name(W, n),
                    IF Name(W, p) = Name(W, n) THEN Call(-n, <<-p>>, "same_name", 0)
                    ELSE Call(-n, <<-p>>, "implicit_obsoletes", Name(W, n))))

RpmCalls(W, S, n) ==
  NotInstallable(W, S, n) \o Requires(W, S, n)
  \o (IF IsSource(W, n) THEN <<>>
      ELSE Conflicts(W, S, n)
           \o (IF IsInstalled(W, n) /\ W.noinstalledobsoletes THEN <<>>
               ELSE Obsoletes(W, S, n) \o SameNames(W, S, n)))

\* Packages whose rules are needed as well.
Reached(W, S, n) ==
  LET required == SelectSeq(W.solvables[n].requires,
                    LAMBDA req : Enforced(W, S, n, req) /\ pool_whatprovides(W, req) # <<>>)
      weak == IF IsSource(W, n) THEN <<>> ELSE W.solvables[n].recommends \o W.solvables[n].suggests
  IN Calls(required \o weak, LAMBDA d : pool_whatprovides(W, d))

\* dep_possible: can the dependency be met with the packages in m?
RECURSIVE dep_possible(_, _, _)
dep_possible(W, d, m) ==
  IF ISRELDEP(d) /\ GETRELDEP(W, d).flags = {"AND"}
  THEN dep_possible(W, GETRELDEP(W, d).name, m) /\ dep_possible(W, GETRELDEP(W, d).evr, m)
  ELSE Provider(W, d) \cap m # {}

AnyPossible(W, seq, m) == \E i \in DOMAIN seq : dep_possible(W, seq[i], m)

----------------------------------------------------------------------------
(* What a rule is about: addrpmruleinfo, solver_allruleinfos and           *)
(* solver_ruleinfo find out by making the calls again.                     *)

\* Mutant: only those of the first.
CallsFor_First(W, S, lits) == RpmCalls(W, S, -lits[1])

\* The calls a rule may come from: those of its first literal, and of its
\* second if it excludes two packages.
CallsFor(W, S, lits) ==
  RpmCalls(W, S, -lits[1]) \o (IF Len(lits) = 2 /\ lits[2] < 0 THEN RpmCalls(W, S, -lits[2]) ELSE <<>>)

\* The packages a call names, p before the other one; same_name in the order
\* of the rule.
FromTo(call, lits) ==
  LET neg(l) == IF l < 0 THEN -l ELSE 0
      at(s, k) == IF k \in DOMAIN s THEN neg(s[k]) ELSE 0
  IN IF call.type = "same_name" THEN <<at(lits, 1), at(lits, 2)>> ELSE <<neg(call.p), at(call.d, 1)>>

solver_allruleinfos(W, S, lits) ==
  LET calls == CallsFor(W, S, lits)
      found == {i \in DOMAIN calls : Normal(calls[i].p, calls[i].d) = lits}
  IN {[type |-> calls[i].type, from |-> FromTo(calls[i], lits)[1], to |-> FromTo(calls[i], lits)[2],
       dep |-> calls[i].dep] : i \in found}
=============================================================================
