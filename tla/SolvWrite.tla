------------------------------- MODULE SolvWrite ------------------------------
(***************************************************************************)
(* Writing a repository to a solv file (ext/repo_write.c).  The state of   *)
(* the library is a record W:                                              *)
(*   strings    the texts of the string pool, by id                        *)
(*   rels       the relations, ids above RelBase                           *)
(*   start      the id of the repository's first solvable                  *)
(*   solvables  name and vendor, offsets of provides and requires          *)
(*   idarray    where dependencies are, lists ending with 0; lastoff       *)
(*   rpmdbid    a number per solvable, or <<>>                             *)
(*   data       the repodatas                                              *)
(* A file has the same in its own, denser numbering.                       *)
(***************************************************************************)
EXTENDS Repodata

CONSTANT Vertical  \* the attributes repo_write_stdkeyfilter keeps out of core

RelBase == 1000
ISRELDEP(id) == id > RelBase

\* The texts of the two markers.
PREREQMARKER == 1
FILEMARKER == 2

\* The id of a text, 0 if the pool does not have it.
StrId(W, text) == SelectInSeq(W.strings, LAMBDA s : s = text)

TextOf(W, D, id) == IF D.localpool THEN D.spool[id] ELSE W.strings[id]

Nsolvables(W) == Len(W.solvables)
SolvableAt(W, x) == W.solvables[x - W.start + 1]

RECURSIVE IdArray(_, _)
IdArray(W, off) == IF W.idarray[off] = 0 THEN <<>> ELSE <<W.idarray[off]>> \o IdArray(W, off + 1)
Deps(W, off) == IF off = 0 THEN <<>> ELSE IdArray(W, off)

RequiresMarker(W) == StrId(W, PREREQMARKER)
ProvidesMarker(W) == StrId(W, FILEMARKER)

\* What a dependency says, whatever ids stand for it.
RECURSIVE Meaning(_, _)
Meaning(W, id) ==
  IF ISRELDEP(id) THEN <<W.rels[id - RelBase].flags, Meaning(W, W.rels[id - RelBase].name), Meaning(W, W.rels[id - RelBase].evr)>>
  ELSE <<W.strings[id]>>

----------------------------------------------------------------------------
(* Which keys are written.                                                 *)

\* What is only taken from the last repodata.
LastOnly == {"external", "keys"}

\* only is the repodata to write, 0 for the whole repository.
Written(only, i) == only \in {0, i}

SolvableKeys ==
  <<Key("name", "id", 0), Key("vendor", "id", 0), Key("provides", "rel_idarray", 0), Key("requires", "rel_idarray", 0),
    Key("rpmdbid", "u32", 0)>>

\* A key as it is in the file: the id of a constant by its text, the storage
\* the filter wants.
FileKey(W, D, key) ==
  [key EXCEPT !.size = IF key.type = "constantid" THEN TextOf(W, D, key.size)
                       ELSE IF key.type = "constant" THEN @ ELSE 0,
              !.storage = IF key.name \in Vertical THEN "vertical" ELSE "incore"]

WantedKey(key) == key.type # "deleted"

Usable(D) == D.state \in {"available", "loading"}

\* The target's keys, before those that are not used are removed.
TargetKeys(W, only) ==
  LET own   == IF only = 0 THEN SolvableKeys ELSE <<>>
      solvs == IF W.solvables # <<>> THEN <<Key(SOLVABLES, "flexarray", 0)>> ELSE <<>>
      add(T, i) == FoldLeft(LAMBDA U, key : IF WantedKey(key) THEN WithKey(U, FileKey(W, W.data[i], key)) ELSE U,
                            T, W.data[i].keys)
      base == [repodata_initdata(TRUE) EXCEPT !.keys = own \o solvs]
  IN FoldLeft(LAMBDA T, i : IF Written(only, i) /\ Usable(W.data[i]) THEN add(T, i) ELSE T, base, [i \in DOMAIN W.data |-> i])

\* The target's key for key k of repodata i, 0 if it is not written.
KeyMap(W, T, i, k) ==
  LET key == W.data[i].keys[k] IN
  IF ~WantedKey(key) \/ (key.name \in LastOnly /\ i # Len(W.data)) THEN 0 ELSE repodata_key2id(T, FileKey(W, W.data[i], key))

----------------------------------------------------------------------------
(* First pass: what is needed.                                             *)

\* u is [T, subs, texts, rels, dirs]: the target with its schemata, those of
\* array elements in the order the elements end, each use of a string, a
\* relation, and a directory.
RECURSIVE incneedid(_, _, _)
incneedid(W, u, id) ==
  IF ISRELDEP(id)
  THEN LET rd == W.rels[id - RelBase] IN
       incneedid(W, incneedid(W, [u EXCEPT !.rels = Append(@, id)], rd.evr), rd.name)
  ELSE [u EXCEPT !.texts = Append(@, W.strings[id])]

incneedidarray(W, u, ids) == FoldLeft(LAMBDA v, id : incneedid(W, v, id), u, ids)

\* An id of an attribute: local strings go to the file's own pool.
NeedId(W, D, u, id) ==
  IF ISRELDEP(id) THEN incneedid(W, u, id) ELSE [u EXCEPT !.texts = Append(@, TextOf(W, D, id))]

\* A directory of repodata i, as its path of texts.
DirPath(W, D, dir) == [i \in DOMAIN PathOf(D.dirpool, dir) |-> TextOf(W, D, PathOf(D.dirpool, dir)[i])]

NeedValue(W, i, u, key, val) ==
  LET D == W.data[i] IN
  CASE key.type = "id" -> NeedId(W, D, u, val)
    [] key.type = "idarray" -> FoldLeft(LAMBDA v, item : NeedId(W, D, v, item[1]), u, val)
    [] key.type = "dirstr" -> [u EXCEPT !.dirs = @ \o [j \in DOMAIN val |-> <<i, val[j][1]>>]]
    [] OTHER -> u

\* The schema of a list of attributes gets a key, unless the key before is the
\* same.
RecordKey(schema, k) == IF schema # <<>> /\ schema[Len(schema)] = k THEN schema ELSE Append(schema, k)

\* The list of an entry, or of an element of an array; gives the schema too.
RECURSIVE repo_write_collect_needed(_, _, _, _, _)
repo_write_collect_needed(W, i, u, schema, list) ==
  LET D == W.data[i]
      step(t, a) ==
        LET k == KeyMap(W, t.u.T, i, a.key)
            element(v, sub) ==
              LET inner == repo_write_collect_needed(W, i, v, <<>>, sub) IN
              [inner.u EXCEPT !.T = WithSchema(@, inner.schema),
                              !.subs = Append(@, repodata_schema2id(WithSchema(inner.u.T, inner.schema), inner.schema))]
        IN IF k = 0 THEN t
           ELSE [schema |-> RecordKey(t.schema, k),
                 u |-> IF D.keys[a.key].type = "flexarray" THEN FoldLeft(element, t.u, a.val)
                       ELSE NeedValue(W, i, t.u, D.keys[a.key], a.val)]
  IN FoldLeft(step, [u |-> u, schema |-> schema], list)

\* All repodatas about one solvable, or META.
CollectEntry(W, only, u, schema, x) ==
  FoldLeft(LAMBDA t, i : IF Written(only, i) /\ Usable(W.data[i])
                         THEN repo_write_collect_needed(W, i, t.u, t.schema, repodata_search(W.data[i], x)) ELSE t,
           [u |-> u, schema |-> schema], [i \in DOMAIN W.data |-> i])

\* What the solvable has itself: key, type, the value; the order is that of the
\* second pass.
OwnFields(W, x) ==
  LET s == SolvableAt(W, x) IN
  <<[key |-> "name", ids |-> <<s.name>>]>>
    \o (IF s.vendor # 0 THEN <<[key |-> "vendor", ids |-> <<s.vendor>>]>> ELSE <<>>)
    \o (IF s.provides # 0 THEN <<[key |-> "provides", ids |-> Deps(W, s.provides)]>> ELSE <<>>)
    \o (IF s.requires # 0 THEN <<[key |-> "requires", ids |-> Deps(W, s.requires)]>> ELSE <<>>)
    \o (IF W.rpmdbid # <<>> THEN <<[key |-> "rpmdbid", ids |-> <<>>]>> ELSE <<>>)

NamedKey(T, name) == SelectInSeq(T.keys, LAMBDA k : k.name = name)

CollectSolvable(W, only, u, x) ==
  LET own   == IF only = 0 THEN OwnFields(W, x) ELSE <<>>
      needs == FoldLeft(LAMBDA v, f : incneedidarray(W, v, f.ids), u, own)
      e     == CollectEntry(W, only, needs, [j \in DOMAIN own |-> NamedKey(u.T, own[j].key)], x)
  IN [e.u EXCEPT !.T = WithSchema(@, e.schema), !.solv = Append(@, repodata_schema2id(WithSchema(e.u.T, e.schema), e.schema))]

\* The whole first pass; main is the schema of META, solv those of the
\* solvables. If no solvable has anything, the main schema is made again.
Main(W, all, full, metaonly) ==
  LET any == \E j \in DOMAIN all.solv : all.solv[j] # 0
      again(T) == WithSchema([T EXCEPT !.schemata = SubSeq(@, 1, Len(@) - 1)], metaonly)
      named(T) == [all EXCEPT !.T = T] @@ [any |-> any, main |-> repodata_schema2id(T, IF any THEN full ELSE metaonly)]
  IN named(IF any \/ W.solvables = <<>> THEN all.T ELSE again(all.T))

CollectRest(W, only, meta, full) ==
  LET begun == [meta.u EXCEPT !.T = WithSchema(@, full)]
  IN Main(W, FoldLeft(LAMBDA u, x : CollectSolvable(W, only, u, x), begun, [j \in DOMAIN W.solvables |-> W.start + j - 1]),
          full, meta.schema)

CollectFrom(W, only, meta) ==
  CollectRest(W, only, meta, IF W.solvables = <<>> THEN meta.schema ELSE Append(meta.schema, NamedKey(meta.u.T, SOLVABLES)))

Collected(W, only) ==
  CollectFrom(W, only, CollectEntry(W, only, [T |-> TargetKeys(W, only), subs |-> <<>>, texts |-> <<>>, rels |-> <<>>,
                                              dirs |-> <<>>, solv |-> <<>>], <<>>, META))
----------------------------------------------------------------------------
(* Numbering.                                                              *)

\* Those most needed first; the empty text is always number 1.
Ordered(set, need) ==
  SortSeq(SetAsSeq(set), LAMBDA x, y : need[x] > need[y] \/ (need[x] = need[y] /\ x < y))

Uses(seq) == [x \in ToSet(seq) |-> Cardinality({i \in DOMAIN seq : seq[i] = x})]

\* Mutant: all keys.
UsedKeys_All(T) == [k \in DOMAIN T.keys |-> k]

\* The keys that some schema has, by their new ids.
UsedKeys(T) == LET used == UNION {ToSet(T.schemata[i]) : i \in DOMAIN T.schemata} IN SortSeq(SetAsSeq(used), <)

\* A component of the writer's own directory pool stands for a text.
OwnComp(text) == text + 1

\* Each directory of a repodata that is used is put into a pool of the file.
putinowndirpool(W, c) ==
  LET add(dp, path) ==
        FoldLeft(LAMBDA t, text : LET r == dirpool_add_dir(t.dp, t.did, OwnComp(text)) IN r,
                 [dp |-> dp, did |-> 0], path).dp
  IN FoldLeft(LAMBDA dp, use : add(dp, DirPath(W, W.data[use[1]], use[2])), NoDirs, c.dirs)

\* Or the pool of the only repodata with directories is written, as far as it
\* is used: 1 for a directory that is used, 2 for a parent of one.
RECURSIVE ParentsUsed(_, _, _)
ParentsUsed(dp, used, dir) ==
  IF dir = 0 THEN [used EXCEPT ![0] = 2]
  ELSE IF used[dir] = 2 THEN used
  ELSE IF used[dir] = 1 THEN [used EXCEPT ![dir] = 2]
  ELSE ParentsUsed(dp, [used EXCEPT ![dir] = 2], dirpool_parent(dp, dir))

setdirused(dp, used, dir) ==
  IF used[dir] # 0 THEN used ELSE ParentsUsed(dp, [used EXCEPT ![dir] = 1], dirpool_parent(dp, dir))

\* dirmap: the directories, or minus the parent where a block starts.
RECURSIVE traverse_dirs(_, _, _, _)
traverse_dirs(dp, dirmap, dir, used) ==
  LET parent == Len(dirmap) + 1
      level  == SelectSeq(Siblings(dp, dir), LAMBDA d : used[d] # 0 /\ ~(d = 1 /\ parent = 1))
      listed == dirmap \o (IF parent = 1 THEN <<1>> ELSE <<>>) \o level
      below(t, at) ==
        LET child == dirpool_child(dp, t[at]) IN
        IF used[t[at]] # 2 \/ child = 0 THEN t ELSE traverse_dirs(dp, Append(t, -at), child, used)
  IN FoldLeft(below, listed, [j \in 1 .. Len(listed) - parent + 1 |-> parent + j - 1])

NoDirectories == [dp |-> NoDirs, own |-> FALSE, texts |-> <<>>, dirmap |-> <<>>, entries |-> <<>>]

\* The repodatas with directories.
DirData(W, only) ==
  {i \in DOMAIN W.data : /\ Written(only, i) /\ Usable(W.data[i])
                         /\ \E k \in DOMAIN W.data[i].keys : W.data[i].keys[k].type = "dirstr"}

\* The text of a component: the pool is that of repodata i, or the file's own.
DirText(W, i, comp) == IF i # 0 THEN TextOf(W, W.data[i], comp) ELSE comp - 1

DirectoryList(W, i, dp, used, dirmap) ==
  LET comps == SetAsSeq({d \in DOMAIN dp.dirs : d > 1 /\ used[d] # 0 /\ dp.dirs[d] > 0})
  IN [dp |-> dp, own |-> i = 0, dirmap |-> dirmap,
      texts |-> [j \in DOMAIN comps |-> DirText(W, i, dp.dirs[comps[j]])],
      entries |-> [j \in DOMAIN dirmap |-> IF dirmap[j] > 0 THEN DirText(W, i, dp.dirs[dirmap[j]]) ELSE dirmap[j]]]

Traversed(W, i, dp, used) ==
  DirectoryList(W, i, dp, used, traverse_dirs(dp, <<>>, dirpool_child(dp, 0), [used EXCEPT ![1] = IF @ = 0 THEN 1 ELSE @]))

UsedOf(W, i, dp, uses) ==
  Traversed(W, i, dp, IF i = 0 THEN [d \in DOMAIN dp.dirs |-> 2]
                      ELSE FoldLeft(LAMBDA u, use : setdirused(dp, u, use[2]), [d \in DOMAIN dp.dirs |-> 0], uses))

\* The file's directories: pool, the texts of components, dirmap, and the texts
\* that go with it.
Directories(W, c, with) ==
  LET one == CHOOSE i \in with : TRUE IN
  IF c.dirs = <<>> THEN NoDirectories
  ELSE IF Cardinality(with) = 1 THEN UsedOf(W, one, Traversable(W.data[one].dirpool), c.dirs)
  ELSE UsedOf(W, 0, Traversable(putinowndirpool(W, c)), c.dirs)

NumberingWith(c, keys, dirs) ==
  LET const == [j \in DOMAIN keys |-> c.T.keys[keys[j]]]
      ids   == SelectSeq(const, LAMBDA k : k.type = "constantid")
      uses  == Uses(c.texts \o [j \in DOMAIN ids |-> ids[j].size] \o dirs.texts)
      rels  == Uses(c.rels)
  IN [texts |-> <<0>> \o Ordered(DOMAIN uses \ {0}, uses), rels |-> Ordered(DOMAIN rels, rels), keys |-> keys, dirs |-> dirs]

Numbering(W, only, c) == NumberingWith(c, UsedKeys(c.T), Directories(W, c, DirData(W, only)))

Place(seq, x) == SelectInSeq(seq, LAMBDA y : y = x)

\* The file's id of a text, of a dependency, and of a directory.
TextNum(N, text) == Place(N.texts, text)
FileId(W, N, id) == IF ISRELDEP(id) THEN Len(N.texts) + Place(N.rels, id) ELSE TextNum(N, W.strings[id])

DirNum(W, N, i, dir) ==
  IF ~N.dirs.own THEN Place(N.dirs.dirmap, dir)
  ELSE LET path == DirPath(W, W.data[i], dir)
           comps == [j \in DOMAIN path |-> OwnComp(path[j])]
       IN Place(N.dirs.dirmap, CHOOSE d \in DOMAIN N.dirs.dp.dirs \ {0} : N.dirs.dp.dirs[d] > 0 /\ PathOf(N.dirs.dp, d) = comps)

----------------------------------------------------------------------------
(* Second pass: the data.                                                  *)

\* Sorted on both sides of the mark.
SortedAround(nums, mark, i) ==
  IF i = 0 THEN SortSeq(nums, <)
  ELSE SortSeq(SubSeq(nums, 1, i - 1), <) \o <<mark>> \o SortSeq(SubSeq(nums, i + 1, Len(nums)), <)

\* Differences; the mark becomes 0.
Differences(all, mark) ==
  LET old(j) == IF j = 1 \/ all[j - 1] = mark THEN 0 ELSE all[j - 1] n == Len(all)
  IN [j \in 1 .. n |-> 2 * (IF all[j] = mark THEN 0 ELSE all[j] - old(j) + 1) + Mark(j, n)]

SortedDifferences(nums, mark) == Differences(SortedAround(nums, mark, Place(nums, mark)), mark)

data_addidarray_sort(W, N, ids, marker) ==
  IF ids = <<>> THEN <<1>>
  ELSE SortedDifferences([j \in DOMAIN ids |-> FileId(W, N, ids[j])], IF marker = 0 THEN 0 ELSE TextNum(N, W.strings[marker]))

\* u is [inc, ext, sub]: the data in core, that of vertical keys, and how many
\* schemata of elements are used up.
RECURSIVE repo_write_adddata(_, _, _, _, _, _)
repo_write_adddata(W, N, c, i, u, list) ==
  LET D == W.data[i]
      num(id) == IF ISRELDEP(id) THEN FileId(W, N, id) ELSE TextNum(N, TextOf(W, D, id))
      cells(a) ==
        LET type == D.keys[a.key].type n == Len(a.val) IN
        CASE type \in NoData -> <<>>
          [] type = "id" -> <<num(a.val)>>
          [] type = "idarray" -> [j \in 1 .. n |-> 2 * num(a.val[j][1]) + Mark(j, n)]
          [] type = "dirstr" -> FlattenSeq([j \in 1 .. n |-> <<2 * DirNum(W, N, i, a.val[j][1]) + Mark(j, n), a.val[j][2]>>])
          [] OTHER -> <<a.val>>
      add(v, a) ==
        LET k == KeyMap(W, c.T, i, a.key)
            element(w, sub) ==
              repo_write_adddata(W, N, c, i, [w EXCEPT !.inc = Append(@, c.subs[w.sub]), !.sub = @ + 1], sub)
        IN IF k = 0 THEN v
           ELSE IF D.keys[a.key].type = "flexarray"
                THEN FoldLeft(element, [v EXCEPT !.inc = Append(@, Len(a.val))], a.val)
           ELSE IF c.T.keys[k].storage = "vertical"
                THEN [v EXCEPT !.inc = @ \o <<Len(v.ext[k]), Len(cells(a))>>, !.ext[k] = @ \o cells(a)]
           ELSE [v EXCEPT !.inc = @ \o cells(a)]
  IN FoldLeft(add, u, list)

AddEntry(W, only, N, c, u, x) ==
  FoldLeft(LAMBDA v, i : IF Written(only, i) /\ Usable(W.data[i])
                         THEN repo_write_adddata(W, N, c, i, v, repodata_search(W.data[i], x)) ELSE v,
           u, [i \in DOMAIN W.data |-> i])

\* What the solvable has itself.
OwnCells(W, N, x) ==
  LET s == SolvableAt(W, x)
      list(off, marker) == IF off = 0 THEN <<>> ELSE <<[off |-> off, marker |-> marker]>>
      lists == list(s.provides, ProvidesMarker(W)) \o list(s.requires, RequiresMarker(W))
  IN <<FileId(W, N, s.name)>> \o (IF s.vendor # 0 THEN <<FileId(W, N, s.vendor)>> ELSE <<>>)
       \o FlattenSeq([j \in DOMAIN lists |-> data_addidarray_sort(W, N, Deps(W, lists[j].off), lists[j].marker)])
       \o (IF W.rpmdbid # <<>> THEN <<W.rpmdbid[x - W.start + 1]>> ELSE <<>>)

AddSolvable(W, only, N, c, u, x) ==
  LET schema == c.solv[x - W.start + 1] IN
  AddEntry(W, only, N, c, [u EXCEPT !.inc = @ \o <<schema>> \o (IF only = 0 THEN OwnCells(W, N, x) ELSE <<>>)], x)

FileRel(W, N, rel) ==
  LET rd == W.rels[rel - RelBase] IN [name |-> FileId(W, N, rd.name), flags |-> rd.flags, evr |-> FileId(W, N, rd.evr)]

\* The data of META and all solvables.
SecondPass(W, only, N, c) ==
  LET begun == [inc |-> <<c.main>>, ext |-> [k \in DOMAIN c.T.keys |-> <<>>], sub |-> 1]
      all(meta) == FoldLeft(LAMBDA v, x : AddSolvable(W, only, N, c, v, x), [meta EXCEPT !.inc = Append(@, Nsolvables(W))],
                            [j \in DOMAIN W.solvables |-> W.start + j - 1])
  IN IF c.any THEN all(AddEntry(W, only, N, c, begun, META)) ELSE AddEntry(W, only, N, c, begun, META)

FileOf(W, N, c, u) ==
  LET key(k) == LET t == c.T.keys[k] IN
                [t EXCEPT !.size = IF t.storage = "vertical" THEN Len(u.ext[k])
                                   ELSE IF t.type = "constantid" THEN TextNum(N, t.size) ELSE @]
      dir(j, e) == IF j = 1 THEN 1 ELSE IF e < 0 THEN Len(N.texts) + 1 - e ELSE TextNum(N, e)
  IN [texts |-> N.texts, rels |-> [j \in DOMAIN N.rels |-> FileRel(W, N, N.rels[j])],
      dirs |-> [j \in DOMAIN N.dirs.entries |-> dir(j, N.dirs.entries[j])],
      numsolv |-> IF c.any THEN Nsolvables(W) ELSE 0,
      keys |-> [j \in DOMAIN N.keys |-> key(N.keys[j])],
      schemata |-> [j \in DOMAIN c.T.schemata |-> [m \in DOMAIN c.T.schemata[j] |-> Place(N.keys, c.T.schemata[j][m])]],
      inc |-> u.inc, vertical |-> FlattenSeq([j \in DOMAIN N.keys |-> u.ext[N.keys[j]]])]

WriteNumbered(W, only, c, N) == FileOf(W, N, c, SecondPass(W, only, N, c))
WriteCollected(W, only, c) == WriteNumbered(W, only, c, Numbering(W, only, c))

\* The file.
repo_write(W, only) == WriteCollected(W, only, Collected(W, only))
=============================================================================
