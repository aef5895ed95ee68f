------------------------------ MODULE Attributes ------------------------------
(***************************************************************************)
(* What a repository promises about packages and their attributes,         *)
(* whatever ids, schemata and files it keeps them in: a call has the       *)
(* effect it names and no other, publishing changes nothing but when       *)
(* attributes can be seen, and what was saved is there again after a       *)
(* restart.  An attribute is [type, val] by name; directories are paths,   *)
(* ids texts, structures are attributes again.                             *)
(* Refined by Repository (src/src/repo.c, repodata.c, ext/repo_write.c and *)
(* src/src/repo_solv.c).                                                   *)
(***************************************************************************)
EXTENDS Integers, Sequences, TLC

CONSTANTS Calls,    \* what the application may ask for
          Packages  \* the packages there are at first

VARIABLES parts,   \* the repodatas: state, and by entry what is published and what is pending
          packages, \* what a package itself has, its dependencies in front of and behind the marker
          cache    \* what was saved

attributeVars == <<parts, packages, cache>>

META == -1

None == [n \in {} |-> 0]
With(f, x, v) == LET g == (x :> v) @@ f IN [y \in {z \in DOMAIN g : DOMAIN g[z] # {}} |-> g[y]]
At(f, x) == IF x \in DOMAIN f THEN f[x] ELSE None

Part(state, published) == [state |-> state, published |-> published, pending |-> None]

----------------------------------------------------------------------------
(* Calls.                                                                  *)

Pending(c) == At(parts[c.part].pending, c.x)

\* What is pending for an entry.
Pend(c, attrs) == parts' = [parts EXCEPT ![c.part].pending = With(@, c.x, attrs)]

Put(c, val) == Pend(c, (c.name :> [type |-> c.type, val |-> val]) @@ Pending(c))

Set(c) == Put(c, c.val)

\* An array gets one item more.
Add(c) ==
  Put(c, Append(IF c.name \in DOMAIN Pending(c) THEN Pending(c)[c.name].val ELSE <<>>, c.val))

Forget(c) == Pend(c, [n \in DOMAIN Pending(c) \ {c.name} |-> Pending(c)[n]])

\* What the other entry has and this one has not.
Merge(c) == Pend(c, Pending(c) @@ At(parts[c.part].pending, c.from))

\* Some of what the other entry has, in place of what is here or not.
Copy(c) ==
  LET other == At(parts[c.part].pending, c.from)
      some  == [n \in DOMAIN other \cap c.names |-> other[n]]
  IN Pend(c, IF c.overwrite THEN some @@ Pending(c) ELSE Pending(c) @@ some)

\* A dependency is in one place only. One that is asked for behind the marker
\* is moved there (marker > 0), one that is asked for in front of it (marker < 0)
\* may stay behind it, one without a marker comes at the end.
Depend(c) ==
  LET old == packages[c.x][c.name]
      new == CASE c.val \in old.after \/ (c.val \in old.before /\ c.marker <= 0) -> old
               [] c.marker < 0 \/ (c.marker = 0 /\ ~old.marked) -> [old EXCEPT !.before = @ \cup {c.val}]
               [] OTHER -> [before |-> old.before \ {c.val}, after |-> old.after \cup {c.val}, marked |-> TRUE]
  IN packages' = [packages EXCEPT ![c.x][c.name] = new]

NoDeps == [before |-> {}, after |-> {}, marked |-> FALSE]
Package(name) == [name |-> name, vendor |-> <<>>, provides |-> NoDeps, requires |-> NoDeps, rpmdbid |-> 0]

Do(c) ==
  \/ /\ c.op \in {"set", "add", "forget", "merge", "copy"}
     /\ c.part \in DOMAIN parts /\ parts[c.part].state = "available"
     /\ \/ c.op = "set" /\ Set(c)
        \/ c.op = "add" /\ Add(c)
        \/ c.op = "forget" /\ Forget(c)
        \/ c.op = "merge" /\ Merge(c)
        \/ c.op = "copy" /\ Copy(c)
     /\ UNCHANGED packages
  \/ c.op = "part" /\ parts' = Append(parts, Part("available", None)) /\ UNCHANGED packages
  \/ c.op = "depend" /\ Depend(c) /\ UNCHANGED parts
  \/ c.op = "own" /\ packages' = [packages EXCEPT ![c.x][c.name] = c.val] /\ UNCHANGED parts
  \/ c.op = "solvable" /\ packages' = Append(packages, Package(c.val)) /\ UNCHANGED parts

Call == (\E c \in Calls : Do(c)) /\ UNCHANGED cache

\* What is pending takes the place of what was published under the same name.
Publish(p) == [p EXCEPT !.published = [x \in DOMAIN @ \cup DOMAIN p.pending |-> At(p.pending, x) @@ At(@, x)], !.pending = None]

Internalize == parts' = [i \in DOMAIN parts |-> Publish(parts[i])] /\ UNCHANGED <<packages, cache>>

----------------------------------------------------------------------------
(* Files.                                                                  *)

\* What the file of parts 1 .. n says: what only the last part may have is left
\* out in the others.
LastOnly == {"external", "keys"}
Kept(i, n, x) == LET p == At(parts[i].published, x) IN [m \in DOMAIN p \ (IF i < n THEN LastOnly ELSE {}) |-> p[m]]

RECURSIVE Joined(_, _, _)
Joined(x, i, n) == IF i > n THEN None ELSE Kept(i, n, x) @@ Joined(x, i + 1, n)

Content(n) ==
  LET entries == UNION {DOMAIN parts[i].published : i \in 1 .. n}
      some    == {x \in entries : DOMAIN Joined(x, 1, n) # {}}
  IN [x \in some |-> Joined(x, 1, n)]

Settled(i) == parts[i].state = "available" /\ parts[i].pending = None

\* All parts are written to one file, and one can go on with what was written.
SaveAll ==
  /\ \A i \in DOMAIN parts : Settled(i)
  /\ cache' = [cache EXCEPT !.saved = TRUE, !.main = Content(Len(parts)), !.packages = packages]
  /\ parts' \in {parts, <<Part("available", Content(Len(parts)))>>}
  /\ UNCHANGED packages

\* Or the first part to one file and the second to another.
SaveMain ==
  /\ Settled(1)
  /\ cache' = [cache EXCEPT !.saved = TRUE, !.main = Content(1), !.packages = packages]
  /\ UNCHANGED <<parts, packages>>

SaveExt ==
  /\ 2 \in DOMAIN parts /\ Settled(2)
  /\ cache' = [cache EXCEPT !.ext = parts[2].published]
  /\ UNCHANGED <<parts, packages>>

\* What the main file says about others.
External(content) == IF "external" \in DOMAIN At(content, META) THEN At(content, META)["external"].val ELSE <<>>

\* After a restart there is what was saved; the other file is not read yet.
Restart ==
  /\ cache.saved
  /\ parts' = <<Part("available", cache.main)>>
                \o [i \in DOMAIN External(cache.main) |-> Part("stub", With(None, META, External(cache.main)[i]))]
  /\ packages' = cache.packages
  /\ UNCHANGED cache

\* The other file is read when something of it is asked for; what cannot be
\* read is never there.
Load ==
  /\ \E i \in DOMAIN parts :
       /\ parts[i].state = "stub"
       /\ parts' \in {[parts EXCEPT ![i] = Part("available", cache.ext)], [parts EXCEPT ![i].state = "error"]}
  /\ UNCHANGED <<packages, cache>>

Init ==
  /\ parts = <<Part("available", None)>>
  /\ packages = [x \in DOMAIN Packages |-> Package(Packages[x])]
  /\ cache = [saved |-> FALSE, main |-> None, packages |-> <<>>, ext |-> None]

Next == Call \/ Internalize \/ SaveAll \/ SaveMain \/ SaveExt \/ Restart \/ Load

Spec == Init /\ [][Next]_attributeVars
=============================================================================
