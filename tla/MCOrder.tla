------------------------------ MODULE MCOrder ------------------------------
(***************************************************************************)
(* The transactions the runs of transaction_order check.                   *)
(***************************************************************************)
EXTENDS OrderProperties

None(n) == [p \in 1..n |-> <<>>]

\* n packages of different names, all new, which require each other as reqs says.
AllNew(n, reqs) ==
  [old |-> {}, decision |-> [k \in 1..n |-> k], name |-> [p \in 1..n |-> p],
   evr |-> [p \in 1..n |-> 1], content |-> [p \in 1..n |-> p],
   obsoletes |-> [p \in 1..n |-> {}], noobs |-> {}, pseudo |-> {},
   requires |-> reqs, conflicts |-> None(n), triggers |-> None(n),
   repo |-> [p \in 1..n |-> 1], media |-> [p \in 1..n |-> 1],
   arch |-> [p \in 1..n |-> 1], keep |-> FALSE]

Req(providers)    == [pre |-> FALSE, file |-> FALSE, providers |-> providers]
PreReq(providers) == [pre |-> TRUE, file |-> FALSE, providers |-> providers]
Script(providers) == [pre |-> TRUE, file |-> TRUE, providers |-> providers]

\* The requirements of a package: one of kind f[q] on every q that f names.
RequiresOf(f) ==
  LET qs == SetToSortSeq({q \in DOMAIN f : f[q] # "none"}, <)
      made(q) == CASE f[q] = "req" -> Req(<<q>>) [] f[q] = "pre" -> PreReq(<<q>>)
                   [] OTHER -> Script(<<q>>)
  IN  [j \in DOMAIN qs |-> made(qs[j])]

----------------------------------------------------------------------------
(* All graphs over three packages with two kinds of requirements, and the  *)
(* graphs over four packages in which every package requires one or two.   *)

Kinds(p, kinds, n) == {f \in [1..n -> kinds \cup {"none"}] : f[p] = "none"}

ThreePackages ==
  {AllNew(3, <<RequiresOf(f), RequiresOf(g), RequiresOf(h)>>) :
     f \in Kinds(1, {"req", "script"}, 3), g \in Kinds(2, {"req", "pre"}, 3),
     h \in Kinds(3, {"req", "pre"}, 3)}

Some(p, n, most) == {f \in Kinds(p, {"req"}, n) :
                       Cardinality({q \in 1..n : f[q] = "req"}) \in 1..most}
FourPackages ==
  {AllNew(4, <<RequiresOf(f), RequiresOf(g), RequiresOf(h), RequiresOf(e)>>) :
     f \in Some(1, 4, 2), g \in Some(2, 4, 2), h \in Some(3, 4, 2), e \in Some(4, 4, 2)}

----------------------------------------------------------------------------
(* Updates: packages 1..m are installed, m+1..n are new.                   *)

Update(m, n, names, obs, gone, reqs) ==
  [AllNew(n, reqs) EXCEPT
     !.old = 1..m, !.name = names, !.obsoletes = obs,
     !.decision = [k \in 1..n |-> IF k \in gone THEN -k ELSE k],
     !.repo = [p \in 1..n |-> IF p <= m THEN 0 ELSE 1]]

\* What is replaced goes; what stays or comes, and has what it requires at the
\* end; and what was installed had what it requires.
IsSolution(w) ==
  LET moving == TransactsMap(w)
      result == (w.old \ moving) \cup (moving \ w.old)
  IN  /\ \A e \in TransactionInfo(w) : e[2] \in moving
      /\ \A p \in result : \A j \in DOMAIN w.requires[p] : Provided(w.requires[p][j], result)

\* At most two packages require something, packages 3 and 4 may obsolete the
\* one of the other name, and package 3 may be an update of package 1.
Providers == {<<q>> : q \in 1..4} \cup {<<q, r>> : q \in 1..2, r \in 3..4} \cup {<<1, 2>>, <<3, 4>>}
OneOrTwoRequire ==
  {[None(4) EXCEPT ![p] = <<Script(r)>>, ![q] = <<Req(s)>>] :
     p \in 1..4, q \in 1..4, r \in Providers, s \in {<<1>>, <<2>>, <<3>>, <<4>>, <<1, 3>>, <<2, 4>>}}

UpdateWorlds ==
  {w \in {Update(2, 4, <<1, 2, a, 2>>, <<{}, {}, o, q>>, gone, reqs) :
            a \in {1, 3}, o \in {{}, {2}}, q \in {{}, {1}}, gone \in SUBSET {1, 2},
            reqs \in OneOrTwoRequire} : IsSolution(w)}

\* All ways in which two new packages replace three installed ones.
ReplaceWorlds ==
  {w \in {Update(3, 5, <<1, 2, 2, a, b>>, <<{}, {}, {}, o, q>>, gone, None(5)) :
            a \in 1..3, b \in 1..3, o \in SUBSET (1..3), q \in SUBSET (1..3),
            gone \in SUBSET (1..3)} : IsSolution(w)}

\* Three packages on two media or repositories, with an uninstall that a
\* conflict or a trigger wants early.
MediaWorlds ==
  {[Update(1, 4, <<1, 2, 3, 4>>, [p \in 1..4 |-> {}], {1},
           [None(4) EXCEPT ![2] = x, ![4] = y]) EXCEPT
      !.conflicts = [None(4) EXCEPT ![2] = <<c>>], !.triggers = [None(4) EXCEPT ![1] = <<t>>],
      !.media = [p \in 1..4 |-> IF p \in late THEN 2 ELSE 1],
      !.repo = [p \in 1..4 |-> IF p = 1 THEN 0 ELSE IF p \in second THEN 2 ELSE 1]] :
     x \in {<<>>, <<Req(<<3>>)>>, <<Req(<<1, 4>>)>>}, y \in {<<>>, <<Req(<<2>>)>>},
     c \in {<<>>, <<1>>}, t \in {<<>>, <<3>>},
     late \in SUBSET (2..4), second \in SUBSET (2..4)}

----------------------------------------------------------------------------
(* Orders the application rolls itself: the three-package graphs and one   *)
(* update that brings four elements.                                       *)

ChoiceWorlds ==
  {[w EXCEPT !.keep = TRUE] : w \in ThreePackages} \cup
  {[Update(2, 5, <<1, 2, 2, 4, 5>>, [p \in 1..5 |-> {}], {1, 2}, reqs) EXCEPT
      !.conflicts = [None(5) EXCEPT ![4] = <<<<1>>>>], !.keep = TRUE] :
     reqs \in {[None(5) EXCEPT ![3] = <<Req(<<4>>), PreReq(<<5>>)>>, ![5] = x] :
                 x \in {<<>>, <<Req(<<3>>)>>, <<Req(<<4>>)>>}}}

\* Nothing to do, and a single package.
SmallWorlds ==
  {[AllNew(1, None(1)) EXCEPT !.decision = d, !.keep = k] : d \in {<<1>>, <<-1>>}, k \in BOOLEAN}

OrderWorlds ==
  UpdateWorlds \cup (ReplaceWorlds \cup (FourPackages \cup (MediaWorlds \cup
    (ChoiceWorlds \cup SmallWorlds))))
=============================================================================
