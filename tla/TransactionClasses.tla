-------------------------- MODULE TransactionClasses --------------------------
(***************************************************************************)
(* transaction_classify and transaction_classify_pkgs (transaction.c): the *)
(* steps of a transaction are gone through once and counted by the type    *)
(* they are shown under; changes of architecture and vendor are counted by *)
(* what changes into what.  The order the classes are listed in is left    *)
(* out.  A world has one more field here, vendor (0 for none).             *)
(***************************************************************************)
EXTENDS Transaction

CONSTANTS
  Transactions,   \* the transactions that may be classified
  Modes           \* the modes they may be classified with

VARIABLES
  world, mode,
  rest,      \* the steps not yet gone through
  classes    \* per class met so far, how many steps are in it

vars == <<world, mode, rest, classes>>

\* A package without a vendor has vendor id 1, the empty string.
Vendor(w, p) == IF w.vendor[p] = 0 THEN 1 ELSE w.vendor[p]

TypeClass(type) == [kind |-> type, from |-> 0, to |-> 0]

\* The class of a change from a to b; none if nothing changes, one for all if
\* the mode merges them.
ChangeClasses(kind, merge, m, a, b) ==
  IF a = b THEN {}
  ELSE IF merge \in m THEN {TypeClass(kind)} ELSE {[kind |-> kind, from |-> a, to |-> b]}

ClassesOf_NewToo(w, m, p) ==
  LET q == transaction_obs_pkg(w, p)
      changes ==
        ChangeClasses("ARCHCHANGE", "MERGE_ARCHCHANGES", m, w.arch[p], w.arch[q]) \cup
        ChangeClasses("VENDORCHANGE", "MERGE_VENDORCHANGES", m, Vendor(w, p), Vendor(w, q))
  IN  ({TypeClass(transaction_type(w, p, m))} \ {TypeClass("IGNORE")}) \cup
      (IF Partners(w, p) # {} THEN changes ELSE {})

\* What step p is counted in, if it is shown at all; the changes are looked at for installed packages
\* that are replaced.
ClassesOf(w, m, p) ==
  LET q == transaction_obs_pkg(w, p)
      changes ==
        ChangeClasses("ARCHCHANGE", "MERGE_ARCHCHANGES", m, w.arch[p], w.arch[q]) \cup
        ChangeClasses("VENDORCHANGE", "MERGE_VENDORCHANGES", m, Vendor(w, p), Vendor(w, q))
  IN  ({TypeClass(transaction_type(w, p, m))} \ {TypeClass("IGNORE")}) \cup
      (IF IsObsoleted(w, p) THEN changes ELSE {})

Init ==
  /\ world \in Transactions
  /\ mode \in Modes
  /\ rest = StepsOf(world)
  /\ classes = [c \in {} |-> 0]

ClassifyStep_FromOne ==
  /\ rest # <<>>
  /\ LET mine == ClassesOf(world, mode, Head(rest))
         count(c) == IF c \in DOMAIN classes THEN classes[c] ELSE 1
     IN  classes' = [c \in DOMAIN classes \cup mine |-> count(c) + (IF c \in mine THEN 1 ELSE 0)]
  /\ rest' = Tail(rest)
  /\ UNCHANGED <<world, mode>>

ClassifyStep ==
  /\ rest # <<>>
  /\ LET mine == ClassesOf(world, mode, Head(rest))
         count(c) == IF c \in DOMAIN classes THEN classes[c] ELSE 0
     IN  classes' = [c \in DOMAIN classes \cup mine |-> count(c) + (IF c \in mine THEN 1 ELSE 0)]
  /\ rest' = Tail(rest)
  /\ UNCHANGED <<world, mode>>

Spec == Init /\ [][ClassifyStep]_vars

\* transaction_classify_pkgs: the packages of a class; a change from 0 to 0
\* stands for all changes of the kind.
classify_pkgs(w, m, c) ==
  LET q(p) == transaction_obs_pkg(w, p)
      all == c.from = 0 /\ c.to = 0
  IN  CASE c.kind = "ARCHCHANGE" ->
             {p \in TransactsMap(w) : /\ IsObsoleted(w, p)
                                      /\ all \/ (w.arch[p] = c.from /\ w.arch[q(p)] = c.to)}
        [] c.kind = "VENDORCHANGE" ->
             {p \in TransactsMap(w) : /\ IsObsoleted(w, p)
                                      /\ all \/ (Vendor(w, p) = c.from /\ Vendor(w, q(p)) = c.to)}
        [] OTHER -> {p \in TransactsMap(w) : transaction_type(w, p, m) = c.kind}
===============================================================================
