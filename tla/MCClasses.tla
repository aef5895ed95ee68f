------------------------------ MODULE MCClasses ------------------------------
(***************************************************************************)
(* The properties of classification, and the transactions they are checked *)
(* on: two new packages replace three installed ones in every way.         *)
(***************************************************************************)
EXTENDS TransactionClasses

\* What a front end that goes through the steps shows of package p: its own
\* line, or its place in the line of a package that replaces it or that it
\* replaces, when that line shows partners.
OwnLine(p) == transaction_type(world, p, mode) # "IGNORE"
InLineOf(p, q) ==
  /\ OwnLine(q) /\ q \in Partners(world, p)
  /\ transaction_type(world, q, mode) \notin Alone
  /\ ShownWith(world, p, q, mode)

\* The counts are of the classes a step can have, and no more than the steps.
ClassesTypeOK ==
  /\ mode \in Modes
  /\ IsSuffix(rest, StepsOf(world))
  /\ \A c \in DOMAIN classes : classes[c] \in 1..(Len(StepsOf(world)) - Len(rest))

\* Whatever the mode hides, every package of the transaction is shown ("otherwise
\* parts of the transaction might not be shown to the user").  rpm is to be told of
\* all but the packages it removes with those that replace them.
NothingHidden ==
  rest = <<>> =>
  \A p \in TransactsMap(world) \ world.pseudo :
    OwnLine(p) \/ IF "RPM_ONLY" \in mode THEN IsObsoleted(world, p)
                  ELSE \E q \in PackagesOf(world) : InLineOf(p, q)

\* A step that is shown for itself though its side is not shown is not shown a
\* second time in the line of its partner.
ShownOnce ==
  rest = <<>> =>
  \A p \in TransactsMap(world) \ world.pseudo :
    OwnLine(p) /\ transaction_type(world, p, mode) \in Alone =>
      \A q \in PackagesOf(world) : ~InLineOf(p, q)

\* Every package of the transaction has its place in what is shown, one only.
ShownRight == ClassesTypeOK /\ NothingHidden /\ ShownOnce

\* A class holds as many packages as it was counted for ("classify_pkgs can be
\* used to return all packages of a type").
ClassCountsMatch ==
  rest = <<>> =>
    \A c \in DOMAIN classes : Cardinality(classify_pkgs(world, mode, c)) = classes[c]

----------------------------------------------------------------------------
None(n) == [p \in 1..n |-> <<>>]

\* Packages 1 to 3 are installed, 4 and 5 are new.  Versions are 1 but for
\* those of v, package 4 is installed beside other versions if beside holds, and
\* may be the same package as 1.
Change(names, v, arch, obs, gone, beside, same) ==
  [old |-> 1..3, decision |-> [k \in 1..5 |-> IF k \in gone THEN -k ELSE k],
   name |-> names, evr |-> [p \in 1..5 |-> IF p = v THEN 2 ELSE 1],
   content |-> [p \in 1..5 |-> IF same /\ p = 4 THEN 1 ELSE p],
   obsoletes |-> <<{}, {}, {}>> \o obs, noobs |-> IF beside THEN {4} ELSE {}, pseudo |-> {},
   requires |-> None(5), conflicts |-> None(5), triggers |-> None(5),
   repo |-> [p \in 1..5 |-> IF p <= 3 THEN 0 ELSE 1], media |-> [p \in 1..5 |-> 1],
   arch |-> arch, vendor |-> [p \in 1..5 |-> IF p \in {1, 4} THEN 0 ELSE 2]]

\* What is replaced goes, and equal packages have the same name, version and
\* architecture.
IsChange(w) ==
  /\ \A e \in TransactionInfo(w) : e[2] \in TransactsMap(w)
  /\ w.content[4] = 1 => w.name[4] = w.name[1] /\ w.evr[4] = w.evr[1] /\ w.arch[4] = w.arch[1]

AllWorlds ==
  {w \in {Change(<<1, 2, 2, a, b>>, v, <<1, 1, 2, 1, IF v = 4 THEN 2 ELSE 1>>, <<o, q>>, gone,
              beside, same) :
            a \in 1..2, b \in 2..3, v \in {2, 4}, o \in SUBSET (1..3),
            q \in {{}, {1}, {1, 2}}, gone \in {1..3, {2, 3}},
            beside \in BOOLEAN, same \in BOOLEAN} : IsChange(w)}

ShowModes ==
  SUBSET {"SHOW_ACTIVE", "SHOW_ALL", "SHOW_OBSOLETES"} \cup
  {{"RPM_ONLY"}, {"CHANGE_IS_REINSTALL"}, {"SHOW_ACTIVE", "SHOW_MULTIINSTALL"}}
==============================================================================
