------------------------------ MODULE Repository ------------------------------
(***************************************************************************)
(* A repository in a pool (src/src/repo.c) and the life of an application  *)
(* with it: it sets attributes and dependencies, makes them visible, looks *)
(* them up, writes the repository to solv files, and starts anew from      *)
(* them, in a pool with other ids (examples/solv.c: writecachedrepo,       *)
(* usecachedrepo).  Attributes that are kept in a file of their own are a  *)
(* stub until they are asked for.                                          *)
(***************************************************************************)
EXTENDS SolvRead

CONSTANTS Menus,      \* the calls an application makes: a set of sequences
          Pools,      \* the pools it starts with
          Packages,   \* the names of the packages there are at first
          Spelling,   \* the name or type of a key that a text spells
          Cuts,       \* how a file can be damaged
          MaxCalls,   \* bound: calls of the application
          MaxLater    \* bound: calls after it has started anew

VARIABLES W,          \* pool and repository
          menu,       \* the calls of this application
          file,       \* what is on disk: main and ext
          left,       \* calls left
          lives       \* bound: restarts left

repositoryVars == <<W, menu, file, left, lives>>

----------------------------------------------------------------------------
(* Dependencies.                                                           *)

\* The state with the array, and where it starts.
repo_addid(V, off, id) ==
  LET n    == Len(V.idarray)
      room == IF off = 0 THEN V.idarray
              ELSE IF off = V.lastoff THEN SubSeq(V.idarray, 1, n - 1)
              ELSE V.idarray \o IdArray(V, off)
      at   == IF off # 0 /\ off = V.lastoff THEN off ELSE n + 1
  IN [V |-> [V EXCEPT !.idarray = room \o <<id, 0>>, !.lastoff = at], off |-> at]

\* The ids of a list that starts at off become list.
Overwrite(V, off, list) ==
  [V EXCEPT !.idarray = SubSeq(@, 1, off - 1) \o list \o SubSeq(@, off + Len(list), Len(@))]

repo_addid_dep(V, off, id, marker) ==
  LET list == IdArray(V, off)
      m    == IF marker < 0 THEN -marker ELSE marker
      at   == Place(list, id)
      mark == Place(list, m)
      n    == Len(list)
      gone == SubSeq(list, 1, at - 1) \o SubSeq(list, at + 1, n)
      two  == repo_addid(V, off, m)
  IN IF off = 0 THEN (IF marker > 0 THEN LET one == repo_addid(V, 0, marker) IN repo_addid(one.V, one.off, id)
                      ELSE repo_addid(V, 0, id))
     ELSE IF marker = 0 THEN (IF at # 0 THEN [V |-> V, off |-> off] ELSE repo_addid(V, off, id))
     ELSE IF at # 0 /\ (marker < 0 \/ mark \in 1 .. at) THEN [V |-> V, off |-> off]
     ELSE IF at # 0 /\ mark = 0 THEN repo_addid(Overwrite(V, off, Append(gone, m)), off, id)
     ELSE IF at # 0 THEN [V |-> Overwrite(V, off, Append(gone, id)), off |-> off]
     ELSE IF marker > 0 /\ mark = 0 THEN repo_addid(two.V, two.off, id)
     ELSE IF marker < 0 /\ mark # 0
          THEN LET before == SubSeq(list, 1, mark - 1) \o <<id, m>> \o SubSeq(list, mark + 1, n) IN
               repo_addid(Overwrite(V, off, SubSeq(before, 1, n)), off, before[n + 1])
     ELSE repo_addid(V, off, id)

----------------------------------------------------------------------------
(* Calls.                                                                  *)

\* A text as an id of the pool or of the repodata's own.
Intern(V, i, text) == IF V.data[i].localpool THEN [V EXCEPT !.data[i] = WithLocal(@, text)] ELSE WithText(V, text)
IdOf(V, i, text) == IF V.data[i].localpool THEN LocalId(V.data[i], text) ELSE StrId(V, text)

\* The directory of a path, which begins with the empty text of the root.
repodata_str2dir(V, i, path) ==
  LET step(t, text) ==
        LET U == Intern(t.V, i, text)
            r == dirpool_add_dir(U.data[i].dirpool, t.did, IdOf(U, i, text))
        IN [V |-> [U EXCEPT !.data[i].dirpool = r.dp], did |-> r.did]
  IN FoldLeft(step, [V |-> V, did |-> 0], path)

\* An entry of the repository: META, or the place of a solvable.
Entry(V, x) == IF x = META THEN META ELSE V.start + x - 1

\* The repodata after an attribute has been set or an item added.
SetAttr(V, i, h, a) ==
  LET U == IF a.type \in {"id", "constantid"} THEN Intern(V, i, a.val) ELSE V
      D == U.data[i]
  IN [U EXCEPT !.data[i] =
        CASE a.type = "id" -> repodata_set_id(D, h, a.name, IdOf(U, i, a.val))
          [] a.type = "constantid" -> repodata_set_constantid(D, h, a.name, IdOf(U, i, a.val))
          [] a.type = "num" -> repodata_set_num(D, h, a.name, a.val)
          [] a.type = "str" -> repodata_set_str(D, h, a.name, a.val)
          [] a.type = "void" -> repodata_set_void(D, h, a.name)
          [] a.type = "constant" -> repodata_set_constant(D, h, a.name, a.val)]

SetIds(V, i, h, a) ==
  LET U == FoldLeft(LAMBDA u, text : Intern(u, i, text), V, a.val) IN
  [U EXCEPT !.data[i] = repodata_set_idarray(@, h, a.name, [j \in DOMAIN a.val |-> IdOf(U, i, a.val[j])])]

\* A structure: a handle gets attributes, before or after the handle is added.
RECURSIVE AddAttr(_, _, _, _)
AddAttr(V, i, h, a) ==
  CASE a.type = "idarray" -> LET U == Intern(V, i, a.val) IN
                             [U EXCEPT !.data[i] = repodata_add_idarray(@, h, a.name, IdOf(U, i, a.val))]
    [] a.type = "dirstr"  -> LET t == repodata_str2dir(V, i, a.val[1]) IN
                             [t.V EXCEPT !.data[i] = repodata_add_dirstr(@, h, a.name, t.did, a.val[2])]
    [] a.type = "flexarray" ->
         LET U      == [V EXCEPT !.data[i] = repodata_new_handle(@)]
             handle == -(U.data[i].nxattrs - 1)
             fill(u) == FoldLeft(LAMBDA v, b : IF b.type \in ArrayTypes THEN AddAttr(v, i, handle, b) ELSE SetAttr(v, i, handle, b),
                                 u, a.val)
             hang(u) == [u EXCEPT !.data[i] = repodata_add_flexarray(@, h, a.name, handle)]
         IN IF a.first THEN fill(hang(U)) ELSE hang(fill(U))

\* What callers take care of: an attribute of an entry is in one repodata only,
\* an array that has just been taken back is not added to, nor is one that
\* another entry shares after a merge.
Names(D, h) ==
  LET list == repodata_search(D, h)
      keys == [j \in DOMAIN list |-> list[j].key] \o [j \in DOMAIN AttrsOf(D, h) |-> AttrsOf(D, h)[j][1]]
  IN {D.keys[keys[j]].name : j \in DOMAIN keys}

KeysNamed(D, names) == {k \in DOMAIN D.keys : D.keys[k].name \in names}

Careful(c) ==
  LET h == Entry(W, c.x) D == W.data[c.part] pos == AttrPos(D, h, c.name) IN
  /\ \A i \in DOMAIN W.data \ {c.part} : c.name \notin Names(W.data[i], h)
  /\ c.op = "add" =>
       /\ D.last.handle = h /\ D.keys[D.last.key].name = c.name => pos # 0
       /\ pos # 0 => \A g \in DOMAIN D.attrs \ {h} :
            \A j \in DOMAIN D.attrs[g] : D.attrs[g][j] # D.attrs[h][pos]

CallData(c) ==
  /\ c.op \in {"set", "add", "forget", "merge", "copy"}
  /\ c.part \in DOMAIN W.data /\ W.data[c.part].state = "available"
  /\ c.x \in DOMAIN W.solvables \cup {META}
  /\ LET h == Entry(W, c.x) IN
     W' = CASE c.op = "set" -> IF c.type = "idarray" THEN SetIds(W, c.part, h, c) ELSE SetAttr(W, c.part, h, c)
            [] c.op = "add" -> AddAttr(W, c.part, h, c)
            [] c.op = "forget" -> [W EXCEPT !.data[c.part] = repodata_delete_uninternalized(@, h, c.name)]
            [] c.op = "merge" -> [W EXCEPT !.data[c.part] = repodata_merge_attrs(@, h, Entry(W, c.from))]
            [] c.op = "copy" -> [W EXCEPT !.data[c.part] =
                                   repodata_merge_some_attrs(@, h, Entry(W, c.from), KeysNamed(@, c.names), c.overwrite)]
  /\ c.op \in {"set", "add"} => Careful(c)
  /\ c.op \in {"merge", "copy"} => \A i \in DOMAIN W.data \ {c.part} : Names(W.data[i], Entry(W, c.x)) = {}

\* The text or relation a dependency is, in the pool: the state and the id.
WithRel(V, rel) ==
  LET U == IF RelId(V, rel) # 0 THEN V ELSE [V EXCEPT !.rels = Append(@, rel)] IN [V |-> U, id |-> RelId(U, rel)]

RECURSIVE Dep(_, _)
Dep(V, dep) ==
  IF Len(dep) = 1 THEN LET U == WithText(V, dep[1]) IN [V |-> U, id |-> StrId(U, dep[1])]
  ELSE LET evr(name) == [name |-> name.id, evr |-> Dep(name.V, dep[3])]
           rel(t) == WithRel(t.evr.V, [name |-> t.name, flags |-> dep[1], evr |-> t.evr.id])
       IN rel(evr(Dep(V, dep[2])))

\* A dependency is added, in front of the marker or behind it.
CallDepend(c) ==
  /\ c.op = "depend" /\ c.x \in DOMAIN W.solvables
  /\ LET text == IF c.name = "provides" THEN FILEMARKER ELSE PREREQMARKER
         d    == Dep(W, c.val)
         r    == repo_addid_dep(d.V, d.V.solvables[c.x][c.name], d.id, c.marker * StrId(W, text))
     IN W' = [r.V EXCEPT !.solvables[c.x][c.name] = r.off]

\* A solvable's vendor, its number in the rpm database, a new solvable, a new
\* repodata.
CallOwn(c) ==
  \/ /\ c.op = "own" /\ c.x \in DOMAIN W.solvables
     /\ W' = IF c.name = "vendor" THEN LET V == WithText(W, c.val[1]) IN [V EXCEPT !.solvables[c.x].vendor = StrId(V, c.val[1])]
             ELSE [W EXCEPT !.rpmdbid = [j \in DOMAIN W.solvables |-> IF j = c.x THEN c.val ELSE IF j \in DOMAIN @ THEN @[j] ELSE 0]]
  \/ /\ c.op = "solvable"
     /\ LET V == WithText(W, c.val[1]) IN
        W' = [V EXCEPT !.solvables = Append(@, [NoFields EXCEPT !.name = StrId(V, c.val[1])]),
                       !.rpmdbid = IF @ = <<>> THEN @ ELSE Append(@, 0)]
  \/ c.op = "part" /\ W' = [W EXCEPT !.data = Append(@, repodata_initdata(c.local))]

Call ==
  /\ left > 0 /\ left' = left - 1
  /\ \E i \in DOMAIN menu : CallData(menu[i]) \/ CallDepend(menu[i]) \/ CallOwn(menu[i])
  /\ UNCHANGED <<menu, file, lives>>

\* Those that have attributes waiting.
repo_internalize ==
  /\ left > 0 /\ left' = left - 1
  /\ W' = [W EXCEPT !.data = [i \in DOMAIN @ |-> repodata_internalize(@[i])]]
  /\ UNCHANGED <<menu, file, lives>>

----------------------------------------------------------------------------
(* Looking up.                                                             *)

\* A repodata knows a name if it has a key of that name.
HasKey(D, name) == \E k \in DOMAIN D.keys : D.keys[k].name = name

\* The repodatas that are asked for an attribute of an entry, in order.
Asked(V, h, name) ==
  SelectSeq([i \in DOMAIN V.data |-> i],
            LAMBDA i : (h = META \/ h \in V.data[i].start .. V.data[i].end - 1) /\ HasKey(V.data[i], name))

\* Mutant: one that could not be loaded is tried again.
Loads_Again(D) == D.state \in {"stub", "error"}

\* A stub is loaded, one that could not be loaded is left alone.
Loads(D) == D.state = "stub"

\* The first that has it, or must be loaded first; 0 if there is none.
Answering(V, h, name) ==
  LET asked == Asked(V, h, name)
      stops(i) == Loads(V.data[i]) \/ (V.data[i].state = "available" /\ repodata_lookup_type(V.data[i], h, name) # "none")
      pos == SelectInSeq(asked, stops)
  IN IF pos = 0 THEN 0 ELSE asked[pos]

\* The value repo_lookup_str, _num, _id, _idarray find, by the type of the key.
repo_lookup(V, h, name) ==
  LET i == Answering(V, h, name) IN
  IF i = 0 \/ Loads(V.data[i]) THEN [part |-> 0] ELSE [part |-> i, val |-> find_key_data(V.data[i], h, name)]

\* Mutant: the state is left as it was while loading.
LoadStub_Loading(i, local, cut) ==
  LET loading == [W EXCEPT !.data[i].state = "loading"]
      r       == repo_add_solv_flags(loading, file.ext[1], i, local, cut)
  IN IF r.ok THEN [r.W EXCEPT !.data[i].state = "available"] ELSE r.W

\* A stub is loaded (repodata_load_stub, load_repodata): the file is found, or
\* it is not, or it is damaged.
LoadStub(i, local, cut) ==
  LET loading == [W EXCEPT !.data[i].state = "loading"]
      r       == repo_add_solv_flags(loading, file.ext[1], i, local, cut)
  IN [r.W EXCEPT !.data[i].state = IF r.ok THEN "available" ELSE "error"]

Lookup ==
  \E a \in {menu[j] : j \in {k \in DOMAIN menu : menu[k].op \in {"set", "add"}}} :
    /\ a.x = META \/ a.x \in DOMAIN W.solvables
    /\ LET i == Answering(W, Entry(W, a.x), a.name) IN
       /\ i # 0 /\ Loads(W.data[i])
       /\ \/ file.ext # <<>> /\ \E local \in BOOLEAN, cut \in Cuts : W' = LoadStub(i, local, cut)
          \/ file.ext = <<>> /\ W' = [W EXCEPT !.data[i].state = "error"]
    /\ UNCHANGED <<menu, file, left, lives>>

----------------------------------------------------------------------------
(* Saving and starting anew.                                               *)

\* A stub for each external file the main one names: it knows the keys it would
\* have, and has what is said about it.
StubData(V, D, entry) ==
  LET value(name) == entry[SelectInSeq(entry, LAMBDA a : D.keys[a.key].name = name)].val
      keys   == value("keys")
      blank  == repodata_extend_block(repodata_initdata(FALSE), D.start, D.end - D.start)
      about  == repodata_set_str(blank, META, "location", value("location"))
      listed == FoldLeft(LAMBDA S, item : repodata_add_idarray(S, META, "keys", item[1]), about, keys)
      known  == FoldLeft(LAMBDA S, j : WithKey(S, Key(Spelling[V.strings[keys[2 * j - 1][1]]], Spelling[V.strings[keys[2 * j][1]]], 0)),
                         listed, [j \in 1 .. Len(keys) \div 2 |-> j])
  IN repodata_internalize([known EXCEPT !.state = "stub"])

repodata_create_stubs(V, i) ==
  LET D    == V.data[i]
      list == repodata_search(D, META)
      pos  == SelectInSeq(list, LAMBDA a : D.keys[a.key].name = "external")
  IN IF pos = 0 THEN V
     ELSE [V EXCEPT !.data = @ \o [j \in DOMAIN list[pos].val |-> StubData(V, D, list[pos].val[j])]]

\* The application publishes before it saves.
Settled(i) == W.data[i].state = "available" /\ \A h \in DOMAIN W.data[i].attrs : AttrsOf(W.data[i], h) = <<>>

\* The repository without its data, in the same pool.
repo_empty(V) == [V EXCEPT !.solvables = <<>>, !.idarray = <<>>, !.lastoff = 0, !.rpmdbid = <<>>, !.data = <<>>]

\* Everything in one file; the application switches to what it has saved, if
\* no other repository's solvables are in between.
SaveAll ==
  /\ left > 0 /\ left' = left - 1
  /\ \A i \in DOMAIN W.data : Settled(i)
  /\ \E main \in {repo_write(W, 0)} :
     /\ file' = [file EXCEPT !.main = <<main>>]
     /\ W' \in {W, repo_add_solv_flags(repo_empty(W), main, 0, FALSE, "no").W}
  /\ UNCHANGED <<menu, lives>>

\* The first repodata in the main file.
SaveMain ==
  /\ left > 0 /\ left' = left - 1
  /\ Settled(1)
  /\ file' = [file EXCEPT !.main = <<repo_write([W EXCEPT !.data = <<@[1]>>], 0)>>]
  /\ UNCHANGED <<W, menu, lives>>

\* The second in a file of its own, which then takes its place.
SaveExt ==
  /\ left > 0 /\ left' = left - 1
  /\ 2 \in DOMAIN W.data /\ Settled(2)
  /\ \E ext \in {repo_write(W, 2)} :
     LET whole == [W EXCEPT !.data[2] = [repodata_extend_block(@, W.start, Nsolvables(W)) EXCEPT !.state = "loading"]]
     IN /\ file' = [file EXCEPT !.ext = <<ext>>]
        /\ W' \in {W, [repo_add_solv_flags(whole, ext, 2, FALSE, "no").W EXCEPT !.data[2].state = "available"]}
  /\ UNCHANGED <<menu, lives>>

Restart ==
  /\ file.main # <<>> /\ lives > 0 /\ lives' = lives - 1
  /\ \E P \in Pools :
       LET V == repo_add_solv_flags(P, file.main[1], 0, FALSE, "no").W IN W' = repodata_create_stubs(V, 1)
  /\ left' = MaxLater
  /\ UNCHANGED <<menu, file>>

----------------------------------------------------------------------------

\* A pool with the packages, and an empty repodata.
WithPackages(P) ==
  LET V == WithTexts(P, Packages) IN
  [V EXCEPT !.solvables = [x \in DOMAIN Packages |-> [NoFields EXCEPT !.name = StrId(V, Packages[x])]],
            !.data = <<repodata_initdata(FALSE)>>]

Init ==
  /\ \E P \in Pools : W = WithPackages(P)
  /\ menu \in Menus
  /\ file = [main |-> <<>>, ext |-> <<>>]
  /\ left = MaxCalls /\ lives = 1

Next == Call \/ repo_internalize \/ Lookup \/ SaveAll \/ SaveMain \/ SaveExt \/ Restart

Spec == Init /\ [][Next]_repositoryVars
=============================================================================
