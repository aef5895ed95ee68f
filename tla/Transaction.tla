----------------------------- MODULE Transaction -----------------------------
(***************************************************************************)
(* The transaction a solved problem leads to (transaction.c): its steps,   *)
(* which new package replaces which installed one, and the type under      *)
(* which a step is shown.  Everything here is computed from a world w, a   *)
(* record of the package data the code reads:                              *)
(*    old       : the solvables of the installed repository                *)
(*    decision  : decisionq, the literals decided, oldest first            *)
(*    name, evr : per package; names and versions are numbers, compared as *)
(*                strcmp and evrcmp compare them                           *)
(*    content   : two packages of one name and evr are solvable_identical  *)
(*                iff they have the same content                           *)
(*    obsoletes : per package, the installed packages its obsoletes match  *)
(*    noobs     : the packages installed beside their other versions       *)
(*    pseudo    : the packages named patch: or pattern:                    *)
(*    requires  : per package, its requirements in order; a requirement is *)
(*                [pre, file, providers]: it stands behind the             *)
(*                prerequisite marker, it names a file other than ldconfig,*)
(*                and the packages that provide it, in provider order      *)
(*    conflicts, triggers : per package, the provider lists of its         *)
(*                conflicts and triggers                                   *)
(*    repo, media : per package, its repository and its medium in there    *)
(*    arch      : per package, its architecture                            *)
(*    keep      : transaction_order is to keep its data (KEEP_ORDERDATA)   *)
(* The pool's flags have their defaults: obsoletes match names, and an     *)
(* update replaces the packages of its name.                               *)
(***************************************************************************)
EXTENDS Rules

PackagesOf(w) == DOMAIN w.name

NewPackages(w) == PackagesOf(w) \ w.old

----------------------------------------------------------------------------
(* transaction_calculate                                                   *)

\* transactsmap: the installed packages decided against and the new ones
\* decided for.
TransactsMap(w) ==
  {p \in w.old : \E k \in DOMAIN w.decision : w.decision[k] = -p} \cup
  {p \in NewPackages(w) : \E k \in DOMAIN w.decision : w.decision[k] = p}

\* steps: the installed packages that go in the order of their ids, then the
\* new ones in the order of their decisions.
StepsOf(w) ==
  Only([p \in PackagesOf(w) |-> p], TransactsMap(w) \cap w.old) \o
  Only(w.decision, TransactsMap(w))

\* The installed packages p2 that package p replaces for having its name; one
\* installed beside its other versions replaces only its own.
SameName(w, p) ==
  {p2 \in TransactsMap(w) \cap w.old :
     /\ w.name[p2] = w.name[p]
     /\ p \in w.noobs => w.evr[p2] = w.evr[p] /\ w.arch[p2] = w.arch[p]}

\* transaction_info: the pairs of a new package and one it replaces.
TransactionInfo(w) ==
  UNION {{p} \X (SameName(w, p) \cup (IF p \in w.noobs THEN {} ELSE w.obsoletes[p])) :
           p \in TransactsMap(w) \ w.old}

\* obsq_sortcmp on two partners a and b of package p: the one of p's own name
\* first, then by name, then the highest version.
PartnerBefore(w, p, a, b) ==
  IF w.name[a] # w.name[b]
    THEN \/ w.name[a] = w.name[p]
         \/ w.name[b] # w.name[p] /\ w.name[a] < w.name[b]
    ELSE \/ w.evr[a] > w.evr[b]
         \/ w.evr[a] = w.evr[b] /\ a < b

Partners(w, p) ==
  IF p \in w.old THEN {q \in PackagesOf(w) : <<q, p>> \in TransactionInfo(w)}
                 ELSE {q \in PackagesOf(w) : <<p, q>> \in TransactionInfo(w)}

\* transaction_all_obs_pkgs: what p replaces or, for an installed p, what
\* replaces it, the best partner first.
transaction_all_obs_pkgs(w, p) ==
  LET all == Partners(w, p)
      rank(q) == Cardinality({r \in all : PartnerBefore(w, p, r, q)})
  IN  [k \in 1..Cardinality(all) |-> CHOOSE q \in all : rank(q) = k - 1]

\* transaction_obs_pkg: the best partner of p, or 0.  For an installed p it is
\* the one create_transaction_info keeps in transaction_installed, with a minus
\* sign there when p has several.
transaction_obs_pkg(w, p) ==
  IF Partners(w, p) = {} THEN 0 ELSE transaction_all_obs_pkgs(w, p)[1]

IsObsoleted(w, p) == p \in w.old /\ Partners(w, p) # {}

----------------------------------------------------------------------------
(* transaction_type.  A mode is the set of its flags.                      *)

VersionChange(w, s, s2, same, up, down, else) ==
  CASE w.evr[s] = w.evr[s2] /\ w.content[s] = w.content[s2] -> same
    [] w.evr[s] < w.evr[s2] -> up
    [] w.evr[s] > w.evr[s2] -> down
    [] OTHER -> else

transaction_base_type(w, p) ==
  LET p2 == transaction_obs_pkg(w, p)
      samename == w.name[p] = w.name[p2]
  IN  IF p \notin TransactsMap(w) THEN "IGNORE"
      ELSE IF p \in w.old
        THEN IF p2 = 0 THEN "ERASE"
             ELSE IF ~samename THEN "OBSOLETED"
             ELSE VersionChange(w, p, p2, "REINSTALLED", "UPGRADED", "DOWNGRADED", "CHANGED")
      ELSE IF p \in w.noobs
        THEN IF p2 = 0 THEN "MULTIINSTALL" ELSE "MULTIREINSTALL"
      ELSE IF p2 = 0 THEN "INSTALL"
      ELSE IF ~samename THEN "OBSOLETES"
      ELSE VersionChange(w, p, p2, "REINSTALL", "DOWNGRADE", "UPGRADE", "CHANGE")

\* What the application does not tell apart.
MergedType(type, mode) ==
  CASE type = "MULTIINSTALL" /\ "SHOW_MULTIINSTALL" \notin mode -> "INSTALL"
    [] type = "MULTIREINSTALL" /\ "SHOW_MULTIINSTALL" \notin mode -> "REINSTALL"
    [] type = "CHANGED" /\ "CHANGE_IS_REINSTALL" \in mode -> "REINSTALLED"
    [] type = "CHANGE" /\ "CHANGE_IS_REINSTALL" \in mode -> "REINSTALL"
    [] OTHER -> type

\* The types of steps that have no partners.
Alone == {"ERASE", "INSTALL", "MULTIINSTALL"}

\* The type of a step whose partners are not shown with it.
AloneType(w, p, type) ==
  IF p \in w.old THEN "ERASE"
  ELSE IF type = "MULTIREINSTALL" THEN "MULTIINSTALL" ELSE "INSTALL"

\* A package q that is shown as a step of its own shows p with it: all its
\* partners under SHOW_ALL, else the best one; one of another name only under
\* SHOW_OBSOLETES.
ShownWith(w, p, q, mode) ==
  /\ "SHOW_OBSOLETES" \in mode \/ w.name[q] = w.name[p]
  /\ IF "SHOW_ALL" \in mode THEN p \in Partners(w, q) ELSE transaction_obs_pkg(w, q) = p

PassiveType_Ignored(w, p, type, mode) == "IGNORE"

PassiveType_OwnLine(w, p, type, mode) ==
  LET q == transaction_obs_pkg(w, p)
  IN  IF transaction_obs_pkg(w, q) = p THEN "IGNORE" ELSE AloneType(w, p, type)

\* The type of a replacing or replaced step on the side the mode does not show.
PassiveType(w, p, type, mode) ==
  LET q == transaction_obs_pkg(w, p)
      replaces == "SHOW_OBSOLETES" \notin mode /\ w.name[q] # w.name[p]
      shown == \/ transaction_obs_pkg(w, q) = p
               \/ \E r \in Partners(w, p) : ShownWith(w, p, r, mode)
  IN  IF {"SHOW_ALL", "SHOW_OBSOLETES"} \subseteq mode \/ (~replaces /\ shown)
        THEN "IGNORE"
        ELSE AloneType(w, p, type)

\* The type of such a step on the side the mode shows.
ActiveType(p, type, mode) ==
  CASE type = "OBSOLETED" /\ "SHOW_OBSOLETES" \notin mode -> "ERASE"
    [] type = "OBSOLETES" /\ "SHOW_OBSOLETES" \notin mode -> "INSTALL"
    [] OTHER -> type

\* What rpm is to be fed: an obsoleted package goes with what replaces it.
RpmType(w, p, type) ==
  IF type \in Alone THEN type
  ELSE IF p \in w.old THEN "IGNORE"
  ELSE IF type = "MULTIREINSTALL" THEN "MULTIINSTALL" ELSE "INSTALL"

transaction_type(w, p, mode) ==
  LET base == transaction_base_type(w, p)
      type == MergedType(base, mode)
  IN  IF p \in w.pseudo \/ base = "IGNORE" THEN "IGNORE"
      ELSE IF "RPM_ONLY" \in mode THEN RpmType(w, p, base)
      ELSE IF type \in Alone THEN type
      ELSE IF (p \in w.old) # ("SHOW_ACTIVE" \in mode) THEN ActiveType(p, type, mode)
      ELSE PassiveType(w, p, type, mode)
=============================================================================
