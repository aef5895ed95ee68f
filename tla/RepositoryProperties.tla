------------------------- MODULE RepositoryProperties -------------------------
(***************************************************************************)
(* What Repository must keep, stated by what ids, keys and directories     *)
(* stand for.                                                              *)
(***************************************************************************)
EXTENDS Repository

----------------------------------------------------------------------------
(* What the repodatas say.                                                 *)

\* The value of an attribute: from the values of its items, and what the
\* structures among them say.
ValueOf(V, D, key, val, Struct(_)) ==
  CASE key.type = "id" -> TextOf(V, D, val)
    [] key.type = "constantid" -> TextOf(V, D, key.size)
    [] key.type = "constant" -> key.size
    [] key.type = "idarray" -> [j \in DOMAIN val |-> TextOf(V, D, val[j][1])]
    [] key.type = "dirstr" -> [j \in DOMAIN val |-> <<DirPath(V, D, val[j][1]), val[j][2]>>]
    [] key.type = "flexarray" -> [j \in DOMAIN val |-> Struct(val[j])]
    [] OTHER -> val

\* Of a list of attributes, by name.
Named(D, list, Value(_)) ==
  LET name(j) == D.keys[list[j].key].name IN
  [n \in {name(j) : j \in DOMAIN list} |->
     LET a == list[CHOOSE j \in DOMAIN list : name(j) = n] IN [type |-> D.keys[a.key].type, val |-> Value(a)]]

\* What an entry or a structure says, from the list of what it has.
RECURSIVE Said(_, _, _)
Said(V, D, list) == Named(D, list, LAMBDA a : ValueOf(V, D, D.keys[a.key], a.val, LAMBDA sub : Said(V, D, sub)))

\* What has been set for an entry or a handle.
RECURSIVE Waiting(_, _, _)
Waiting(V, D, h) ==
  LET value(a) == LET key == D.keys[a.key] IN
                  ValueOf(V, D, key, IF key.type \in ArrayTypes THEN ArrayItems(D, a.val, Width(key.type)) ELSE a.val,
                          LAMBDA item : Waiting(V, D, item[1]))
  IN Named(D, [j \in DOMAIN AttrsOf(D, h) |-> [key |-> AttrsOf(D, h)[j][1], val |-> AttrsOf(D, h)[j][2]]], value)

\* By entry, only those that say something.
ByEntry(V, Says(_)) ==
  LET entries == {META} \cup DOMAIN V.solvables
  IN [x \in {y \in entries : DOMAIN Says(Entry(V, y)) # {}} |-> Says(Entry(V, x))]

PartOf(V, D) ==
  [state |-> D.state,
   published |-> ByEntry(V, LAMBDA h : Said(V, D, repodata_search(D, h))),
   pending |-> ByEntry(V, LAMBDA h : Waiting(V, D, h))]

PartsOf(V) == [i \in DOMAIN V.data |-> PartOf(V, V.data[i])]

DepsOf(V, off, marker) ==
  LET list == Deps(V, off) m == Place(list, marker) IN
  [marked |-> m # 0,
   before |-> {Meaning(V, list[j]) : j \in 1 .. (IF m = 0 THEN Len(list) ELSE m - 1)},
   after  |-> IF m = 0 THEN {} ELSE {Meaning(V, list[j]) : j \in m + 1 .. Len(list)}]

PackagesOf(V) ==
  [x \in DOMAIN V.solvables |->
     LET s == V.solvables[x] IN
     [name |-> Meaning(V, s.name), vendor |-> IF s.vendor = 0 THEN <<>> ELSE Meaning(V, s.vendor),
      provides |-> DepsOf(V, s.provides, ProvidesMarker(V)), requires |-> DepsOf(V, s.requires, RequiresMarker(V)),
      rpmdbid |-> IF x \in DOMAIN V.rpmdbid THEN V.rpmdbid[x] ELSE 0]]

\* A pool to read files in.
Reader == [strings |-> <<0, PREREQMARKER, FILEMARKER>>, rels |-> <<>>, start |-> 2, solvables |-> <<>>,
           idarray |-> <<>>, lastoff |-> 0, rpmdbid |-> <<>>, data |-> <<>>]

\* What a file says, as it is read: attributes and, from the main file, packages.
NothingSaved == [published |-> [x \in {} |-> 0], packages |-> <<>>]
MainSays(V) == [published |-> PartOf(V, V.data[1]).published, packages |-> PackagesOf(V)]
ExtSays(V) == PartOf(V, V.data[1]).published
ReadFile(F) == repo_add_solv_flags(Reader, F, 0, FALSE, "no").W

CacheOf(f, main) ==
  [saved |-> f.main # <<>>, main |-> main.published, packages |-> main.packages,
   ext |-> IF f.ext = <<>> THEN NothingSaved.published ELSE ExtSays(ReadFile(f.ext[1]))]

\* The calls of all menus, with structures as the attributes they have.
StructOf(list) ==
  FoldLeft(LAMBDA f, b : LET old == IF b.name \in DOMAIN f THEN f[b.name].val ELSE <<>> IN
                         (b.name :> [type |-> b.type, val |-> IF b.type \in ArrayTypes THEN Append(old, b.val) ELSE b.val]) @@ f,
           [n \in {} |-> 0], list)

AbstractCalls ==
  {IF c.op \in {"set", "add"} /\ c.type = "flexarray" THEN [c EXCEPT !.val = StructOf(@)] ELSE c
     : c \in UNION {{m[j] : j \in DOMAIN m} : m \in Menus}}

\* All that is kept, as a value: it is worked out once for each state.
View(V, f) == [parts |-> PartsOf(V), packages |-> PackagesOf(V), cache |-> CacheOf(f, IF f.main = <<>> THEN NothingSaved ELSE MainSays(ReadFile(f.main[1])))]

VARIABLE view

propertyVars == <<W, menu, file, left, lives, view>>

PropertyInit == Init /\ view = View(W, file)
Seen == view' = View(W', file')
PropertyNext ==
  \/ Call /\ Seen
  \/ repo_internalize /\ Seen
  \/ Lookup /\ Seen
  \/ SaveAll /\ Seen
  \/ SaveMain /\ Seen
  \/ SaveExt /\ Seen
  \/ Restart /\ Seen

PropertySpec == PropertyInit /\ [][PropertyNext]_propertyVars

A == INSTANCE Attributes WITH Calls <- AbstractCalls, Packages <- [x \in DOMAIN Packages |-> <<Packages[x]>>],
                              parts <- view.parts, packages <- view.packages, cache <- view.cache

\* Whatever ids, keys, schemata, offsets and files attributes are kept in, and
\* whatever else the pool has: a call changes what it names and nothing else,
\* publishing joins it with what is there, what is written is read again by an
\* application with other ids, and a stub is loaded to what was saved or is
\* never there (repodata.c, repo.c, repo_write.c, repo_solv.c).
KeepsAttributes == A!Spec

----------------------------------------------------------------------------

\* Every id is one of the pool or of the repodata's own, a relation is made of
\* older ids, and a place in the data is that of an entry.
RepositoryTypeOK ==
  /\ \A j \in DOMAIN W.rels : \A id \in {W.rels[j].name, W.rels[j].evr} :
       id \in DOMAIN W.strings \/ id \in RelBase + 1 .. RelBase + j - 1
  /\ \A x \in DOMAIN W.solvables :
       /\ W.solvables[x].name \in DOMAIN W.strings
       /\ {W.solvables[x].provides, W.solvables[x].requires} \subseteq 0 .. Len(W.idarray)
  /\ \A i \in DOMAIN W.data :
       LET D == W.data[i] IN
       /\ D.state \in {"available", "stub", "error"}
       /\ DOMAIN D.offs = D.start .. D.end - 1
       /\ \A x \in DOMAIN D.offs : D.offs[x] \in 0 .. Len(D.incore)
       /\ \A j \in DOMAIN D.schemata : ToSet(D.schemata[j]) \subseteq DOMAIN D.keys

\* The short cuts to a single attribute, by the schema and for META by the table
\* of offsets, lead to what walking over the entry finds (find_key_data and
\* forward_to_key against repodata_search), and a repository's answer is that of
\* the first repodata that has one, unless a stub may have it (repo_lookup_str).
LookupsAgree ==
  \A i \in DOMAIN W.data : \A x \in {META} \cup DOMAIN W.solvables :
    LET D == W.data[i] h == Entry(W, x) list == repodata_search(D, h) name(j) == D.keys[list[j].key].name IN
    \A j \in DOMAIN list :
      /\ repodata_lookup_type(D, h, name(j)) = D.keys[list[j].key].type
      /\ find_key_data(D, h, name(j)) = list[j].val
      /\ LET answer == repo_lookup(W, h, name(j)) IN
         D.state = "available" =>
           IF answer.part = 0 THEN \E s \in 1 .. i - 1 : W.data[s].state = "stub" /\ HasKey(W.data[s], name(j))
           ELSE answer.part <= i /\ (answer.part = i => answer.val = list[j].val)

\* What a file says can be read in one pass: relations and directories are made
\* of earlier ones, no directory is there twice, and no key is there for nothing.
FileWellFormed(F) ==
  LET n == Len(F.texts) dp == ReadDirs(F, [j \in DOMAIN F.texts |-> j]) IN
  /\ F.texts[1] = 0 /\ IsInjective(F.texts)
  /\ \A j \in DOMAIN F.rels : {F.rels[j].name, F.rels[j].evr} \subseteq 1 .. n + j - 1
  /\ \A j \in DOMAIN F.dirs : F.dirs[j] \in 1 .. n + j
  /\ \A d, e \in {d \in DOMAIN dp.dirs : dp.dirs[d] > 0} : PathOf(dp, d) = PathOf(dp, e) => d = e
  /\ UNION {ToSet(F.schemata[j]) : j \in DOMAIN F.schemata} = DOMAIN F.keys
FilesWellFormed == \A F \in ToSet(file.main \o file.ext) : FileWellFormed(F)

\* What ids, schemata, offsets and files are made of is there, and the ways to a
\* value lead to the same one.
RepositorySound == RepositoryTypeOK /\ LookupsAgree /\ FilesWellFormed
=============================================================================
