------------------------------- MODULE Repodata -------------------------------
(***************************************************************************)
(* Attributes of solvables (src/src/repodata.c).  A repodata D has         *)
(*   keys       name, type, size (of a constant) and storage, by key id    *)
(*   schemata   lists of key ids; schema 0 is empty                        *)
(*   attrs      what was set since the last internalize: for a solvable,   *)
(*              META or a handle, pairs of a key id and a value            *)
(*   attrids    the array where array values start (attriddata)            *)
(*   incore     the data: for each entry its schema and what follows       *)
(*   offs       where the entry of a solvable starts, 0 if nowhere         *)
(*   vincore, vdata  data of vertical keys: added since, from the file     *)
(* One cell of incore holds what one data_addid or data_addblob writes; an *)
(* id with an end mark is 2 * id + 1, without it 2 * id.  Strings are      *)
(* numbers: texts.  An id of a string is its place in the string pool.     *)
(***************************************************************************)
EXTENDS Integers, Sequences, FiniteSets, TLC, SequencesExt

----------------------------------------------------------------------------
(***************************************************************************)
(* The directory pool a repodata has (src/src/dirpool.c): directories in   *)
(* one array, in blocks.  A positive entry is the component of the         *)
(* directory with that id; a block starts with minus its parent.  trav     *)
(* chains the blocks: from a directory to the last block of its children,  *)
(* from there, at its parent link, to the block before.                    *)
(*   A pool is a record of two functions on 0 .. ndirs - 1; trav is empty  *)
(* until it is needed.                                                     *)
(***************************************************************************)

NoDirs == [dirs |-> <<>>, trav |-> <<>>]

ndirs(dp) == Cardinality(DOMAIN dp.dirs)

\* Where the block of an entry starts.
RECURSIVE BlockStart(_, _)
BlockStart(dp, did) == IF dp.dirs[did] <= 0 THEN did ELSE BlockStart(dp, did - 1)

dirpool_parent(dp, did) == IF did = 0 THEN 0 ELSE -dp.dirs[BlockStart(dp, did - 1)]

dirpool_make_dirtraverse(dp) ==
  LET link[i \in -1 .. ndirs(dp) - 1] ==
        IF i = -1 THEN [j \in DOMAIN dp.dirs |-> 0]
        ELSE IF dp.dirs[i] > 0 THEN link[i - 1]
        ELSE LET t == link[i - 1] IN (-dp.dirs[i] :> i + 1) @@ (i :> t[-dp.dirs[i]]) @@ t
  IN IF dp.dirs = <<>> THEN dp ELSE [dp EXCEPT !.trav = link[ndirs(dp) - 1]]

Traversable(dp) == IF dp.trav = <<>> THEN dirpool_make_dirtraverse(dp) ELSE dp

dirpool_child(dp, did) == dp.trav[did]

dirpool_sibling(dp, did) ==
  IF did + 1 < ndirs(dp) /\ dp.dirs[did + 1] > 0 THEN did + 1
  ELSE LET start == BlockStart(dp, did) IN IF start = 0 THEN 0 ELSE dp.trav[start]

\* The children of a directory, in the order the links give.
RECURSIVE Siblings(_, _)
Siblings(dp, did) == IF did = 0 THEN <<>> ELSE <<did>> \o Siblings(dp, dirpool_sibling(dp, did))

\* The entry with component comp in the blocks from ds on, 0 if there is none.
RECURSIVE FindDir(_, _, _)
FindDir(dp, ds, comp) ==
  IF ds = 0 THEN 0
  ELSE LET ends   == {d \in ds .. ndirs(dp) : d = ndirs(dp) \/ dp.dirs[d] <= 0}
           end    == CHOOSE d \in ends : \A e \in ends : d <= e
           hits   == {d \in ds .. end - 1 : dp.dirs[d] = comp}
       IN IF hits # {} THEN CHOOSE d \in hits : \A e \in hits : d <= e
          ELSE FindDir(dp, IF ds = 1 THEN 0 ELSE dp.trav[ds - 1], comp)

\* A new block for children of parent, linked in front of the others.
LinkBlock(dp, parent) ==
  LET n == ndirs(dp) IN
  [dirs |-> (n :> -parent) @@ dp.dirs, trav |-> (parent :> n + 1) @@ (n :> dp.trav[parent]) @@ dp.trav]

\* The pool afterwards and the id of the directory.
dirpool_add_dir(dp0, parent, comp) ==
  LET dp1   == IF dp0.dirs = <<>> THEN [dirs |-> (0 :> 0) @@ (1 :> 1), trav |-> <<>>] ELSE dp0
      dp    == Traversable(dp1)
      found == FindDir(dp, dp.trav[parent], comp)
      last  == BlockStart(dp, ndirs(dp) - 1)
      room  == IF dp.dirs[last] # -parent THEN LinkBlock(dp, parent) ELSE dp
      did   == ndirs(room)
  IN IF parent = 0 /\ comp = 1 THEN [dp |-> dp1, did |-> 1]
     ELSE IF found # 0 THEN [dp |-> dp, did |-> found]
     ELSE [dp |-> [dirs |-> (did :> comp) @@ room.dirs, trav |-> (did :> 0) @@ room.trav], did |-> did]

\* The components from the top down to a directory: what it stands for.
RECURSIVE PathOf(_, _)
PathOf(dp, did) == IF did = 0 THEN <<>> ELSE Append(PathOf(dp, dirpool_parent(dp, did)), dp.dirs[did])

----------------------------------------------------------------------------
(* Attributes.                                                             *)

META == -1
SOLVABLES == "solvables"

NoData == {"void", "constant", "constantid", "deleted"}
ArrayTypes == {"idarray", "dirstr", "flexarray"}
Width(type) == IF type = "dirstr" THEN 2 ELSE 1

repodata_initdata(localpool) ==
  [localpool |-> localpool, spool |-> IF localpool THEN <<0>> ELSE <<>>, dirpool |-> NoDirs, state |-> "available",
   keys |-> <<>>, schemata |-> <<>>, attrs |-> <<>>, nxattrs |-> 0, attrids |-> <<>>, start |-> 0, end |-> 0,
   offs |-> <<>>, incore |-> <<>>, mainschema |-> 0, mainoffs |-> <<>>, vincore |-> <<>>, vdata |-> <<>>,
   voffs |-> <<>>, lastvoff |-> 0, last |-> [handle |-> 0, key |-> 0, len |-> 0], stub |-> 0]

----------------------------------------------------------------------------
(* Keys and schemata.                                                      *)

SameKey(k, key) == k.name = key.name /\ k.type = key.type /\ (k.type \in {"constant", "constantid"} => k.size = key.size)

\* 0 if there is no such key.
repodata_key2id(D, key) == SelectInSeq(D.keys, LAMBDA k : SameKey(k, key))

WithKey(D, key) == IF repodata_key2id(D, key) # 0 THEN D ELSE [D EXCEPT !.keys = Append(@, key)]

Key(name, type, size) == [name |-> name, type |-> type, size |-> size, storage |-> "incore"]

repodata_id2schema(D, id) == IF id = 0 THEN <<>> ELSE D.schemata[id]

repodata_schema2id(D, schema) == IF schema = <<>> THEN 0 ELSE SelectInSeq(D.schemata, LAMBDA s : s = schema)

WithSchema(D, schema) ==
  IF schema = <<>> \/ repodata_schema2id(D, schema) # 0 THEN D ELSE [D EXCEPT !.schemata = Append(@, schema)]

----------------------------------------------------------------------------
(* Walking over data.                                                      *)

\* Behind the array that starts at dp.
RECURSIVE SkipArray(_, _, _)
SkipArray(cells, dp, width) == IF cells[dp] % 2 = 1 THEN dp + width ELSE SkipArray(cells, dp + width, width)

data_skip(cells, dp, type) ==
  CASE type \in NoData -> dp
    [] type \in {"idarray", "dirstr"} -> SkipArray(cells, dp, Width(type))
    [] OTHER -> dp + 1

RECURSIVE data_skip_key(_, _, _), data_skip_schema(_, _, _), SkipElements(_, _, _)
data_skip_key(D, dp, key) ==
  IF key.type = "flexarray" THEN SkipElements(D, dp + 1, D.incore[dp])
  ELSE IF key.storage = "vertical" THEN dp + 2
  ELSE IF key.storage = "solvable" THEN dp
  ELSE data_skip(D.incore, dp, key.type)
data_skip_schema(D, dp, schema) ==
  FoldLeft(LAMBDA at, k : data_skip_key(D, at, D.keys[k]), dp, repodata_id2schema(D, schema))
SkipElements(D, dp, n) == IF n = 0 THEN dp ELSE SkipElements(D, data_skip_schema(D, dp + 1, D.incore[dp]), n - 1)

\* Where the data of an entry starts, behind its schema; 0 for none.
solvid2data(D, x) ==
  LET at_ == IF x = META THEN 1 ELSE D.offs[x]
      dp  == IF D.incore = <<>> \/ (x # META /\ x \notin D.start .. D.end - 1) THEN -1 ELSE at_
  IN [dp |-> dp + 1, schema |-> IF dp <= 0 THEN 0 ELSE D.incore[dp]]

\* The place of a key in the data of an entry.
forward_to_key(D, k, schema, dp) ==
  LET keys == repodata_id2schema(D, schema)
      pos  == SelectInSeq(keys, LAMBDA j : j = k)
  IN IF D.mainoffs # <<>> /\ dp = D.mainoffs[1] /\ schema = D.mainschema THEN D.mainoffs[pos]
     ELSE FoldLeft(LAMBDA at, j : data_skip_key(D, at, D.keys[j]), dp, SubSeq(keys, 1, pos - 1))

\* The cells the data of a key is in, and where it starts there.
get_data(D, k, dp) ==
  IF D.keys[k].storage = "incore" THEN [cells |-> D.incore, dp |-> dp]
  ELSE LET off == D.incore[dp] IN
       IF off >= D.lastvoff THEN [cells |-> D.vincore, dp |-> off - D.lastvoff + 1]
       ELSE [cells |-> D.vdata, dp |-> off + D.voffs[k] + 1]

\* A set as a sequence, in no particular order.
SetAsSeq(set) == FoldSet(LAMBDA x, t : Append(t, x), <<>>, set)

\* The id of the first key of that name in the entry, 0 if it has none.
KeyOf(D, x, name) ==
  LET keys == repodata_id2schema(D, solvid2data(D, x).schema)
      pos  == SelectInSeq(keys, LAMBDA k : D.keys[k].name = name)
  IN IF solvid2data(D, x).dp = 0 \/ pos = 0 THEN 0 ELSE keys[pos]

----------------------------------------------------------------------------
(* Reading.                                                                *)

RECURSIVE ArrayCells(_, _, _)
ArrayCells(cells, dp, width) ==
  LET item == <<cells[dp] \div 2>> \o (IF width = 2 THEN <<cells[dp + 1]>> ELSE <<>>)
  IN IF cells[dp] % 2 = 1 THEN <<item>> ELSE <<item>> \o ArrayCells(cells, dp + width, width)

\* What a key says at a place: the values data_fetch delivers one by one, or
\* for an array of structures what each has (repodata_search with SEARCH_SUB).
RECURSIVE ReadValue(_, _, _), ReadEntry(_, _, _), ReadElements(_, _, _)
ReadValue(D, k, dp) ==
  LET key == D.keys[k] at_ == get_data(D, k, dp) IN
  CASE key.type \in {"void", "deleted"} -> 0
    [] key.type \in {"constant", "constantid"} -> key.size
    [] key.type \in {"idarray", "dirstr"} -> ArrayCells(at_.cells, at_.dp, Width(key.type))
    [] key.type = "flexarray" -> ReadElements(D, dp + 1, D.incore[dp])
    [] OTHER -> at_.cells[at_.dp]
ReadEntry(D, schema, dp) ==
  LET step(t, k) == [dp   |-> data_skip_key(D, t.dp, D.keys[k]),
                     list |-> IF D.keys[k].type = "deleted" \/ D.keys[k].name = SOLVABLES \/ D.keys[k].storage = "solvable" THEN t.list
                              ELSE Append(t.list, [key |-> k, val |-> ReadValue(D, k, t.dp)])]
  IN FoldLeft(step, [dp |-> dp, list |-> <<>>], repodata_id2schema(D, schema)).list
ReadElements(D, dp, n) ==
  IF n = 0 THEN <<>>
  ELSE <<ReadEntry(D, D.incore[dp], dp + 1)>> \o ReadElements(D, data_skip_schema(D, dp + 1, D.incore[dp]), n - 1)

\* Everything an entry has, in the order of its schema.
repodata_search(D, x) ==
  LET e == solvid2data(D, x) IN IF e.dp = 0 THEN <<>> ELSE ReadEntry(D, e.schema, e.dp)

\* The type of an attribute, "none" if the entry does not have it.
repodata_lookup_type(D, x, name) == LET k == KeyOf(D, x, name) IN IF k = 0 THEN "none" ELSE D.keys[k].type

\* The value of an attribute the entry has.
find_key_data(D, x, name) ==
  LET e == solvid2data(D, x) k == KeyOf(D, x, name) IN ReadValue(D, k, forward_to_key(D, k, e.schema, e.dp))

----------------------------------------------------------------------------
(* Setting.                                                                *)

\* Make room for a solvable.
repodata_extend(D, p) ==
  LET from == IF D.start = D.end \/ p < D.start THEN p ELSE D.start
      to   == IF D.start = D.end \/ p >= D.end THEN p + 1 ELSE D.end
  IN [D EXCEPT !.start = from, !.end = to, !.offs = @ @@ [q \in from .. to - 1 |-> 0]]

repodata_extend_block(D, start, num) ==
  IF num = 0 THEN D ELSE repodata_extend(repodata_extend(D, start), start + num - 1)

\* Forget the solvables from end on.
repodata_shrink(D, end) ==
  LET kept == {h \in DOMAIN D.attrs : h < end}
      to   == IF D.start >= end THEN D.start ELSE end
  IN IF D.end <= end THEN D
     ELSE [D EXCEPT !.start = IF D.start >= end THEN 0 ELSE @, !.end = IF D.start >= end THEN 0 ELSE end,
                    !.offs = [q \in D.start .. to - 1 |-> @[q]], !.attrs = [h \in kept |-> @[h]]]

repodata_new_handle(D) ==
  LET n == IF D.nxattrs = 0 THEN 2 ELSE D.nxattrs IN [D EXCEPT !.nxattrs = n + 1, !.attrs = (-n :> <<>>) @@ @]

AttrsOf(D, h) == IF h \in DOMAIN D.attrs THEN D.attrs[h] ELSE <<>>

\* The list of attributes of a solvable, META or a handle comes into being.
repodata_get_attrp(D, h) ==
  LET room == IF h > 0 /\ h \notin D.start .. D.end - 1 THEN repodata_extend(D, h) ELSE D
  IN IF h \in DOMAIN room.attrs THEN room
     ELSE [room EXCEPT !.attrs = (h :> <<>>) @@ @, !.nxattrs = IF h = META /\ @ = 0 THEN 2 ELSE @]

\* The place of an attribute of that name, 0 if there is none.
AttrPos(D, h, name) == SelectInSeq(AttrsOf(D, h), LAMBDA a : D.keys[a[1]].name = name)

repodata_insert_keyid(D0, h, k, val, overwrite) ==
  LET D   == repodata_get_attrp(D0, h)
      pos == AttrPos(D, h, D.keys[k].name)
  IN IF pos = 0 THEN [D EXCEPT !.attrs[h] = Append(@, <<k, val>>)]
     ELSE IF overwrite \/ D.keys[D.attrs[h][pos][1]].type = "deleted" THEN [D EXCEPT !.attrs[h][pos] = <<k, val>>]
     ELSE D

repodata_set(D0, h, key, val) ==
  LET D == WithKey(D0, key) IN repodata_insert_keyid(D, h, repodata_key2id(D, key), val, TRUE)

repodata_set_id(D, h, name, id) == repodata_set(D, h, Key(name, "id", 0), id)
repodata_set_num(D, h, name, num) == repodata_set(D, h, Key(name, "num", 0), num)
repodata_set_str(D, h, name, str) == repodata_set(D, h, Key(name, "str", 0), str)
repodata_set_void(D, h, name) == repodata_set(D, h, Key(name, "void", 0), 0)
repodata_set_constant(D, h, name, c) == repodata_set(D, h, Key(name, "constant", c), 0)
repodata_set_constantid(D, h, name, id) == repodata_set(D, h, Key(name, "constantid", id), 0)

\* Behind the last value of the array that starts at val.
RECURSIVE ArrayEnd(_, _, _)
ArrayEnd(D, val, width) == IF D.attrids[val] = 0 THEN val ELSE ArrayEnd(D, val + width, width)

\* Mutant: the cached place is used although something has been added since.
AddArray_Stale(D, h, name, type) ==
  LET width == Width(type)
      same  == h = D.last.handle /\ D.keys[D.last.key].name = name /\ D.keys[D.last.key].type = type
      pos   == AttrPos(D, h, name)
      k     == IF pos = 0 THEN 0 ELSE D.attrs[h][pos][1]
      n     == Len(D.attrids)
      fresh == LET E == repodata_set(D, h, Key(name, type, 0), n + 1) IN
               [E EXCEPT !.last = [handle |-> h, key |-> repodata_key2id(E, Key(name, type, 0)), len |-> n + width + 1]]
  IN IF same THEN [D EXCEPT !.attrids = SubSeq(@, 1, n - 1), !.last.len = @ + width]
     ELSE IF pos = 0 \/ D.keys[k].type # type THEN fresh
     ELSE LET from == D.attrs[h][pos][2] end == ArrayEnd(D, from, width) IN
          [D EXCEPT !.attrids = IF end = n THEN SubSeq(@, 1, n - 1) ELSE @ \o SubSeq(@, from, end - 1),
                    !.attrs[h][pos] = IF end = n THEN @ ELSE <<k, n + 1>>,
                    !.last = [handle |-> h, key |-> k, len |-> (IF end = n THEN n - 1 ELSE n + end - from) + width + 1]]

\* Make an array attribute end at the end of attrids, without its final 0.
repodata_add_array(D, h, name, type) ==
  LET width == Width(type)
      same  == /\ h = D.last.handle /\ D.last.len = Len(D.attrids)
               /\ D.keys[D.last.key].name = name /\ D.keys[D.last.key].type = type
      pos   == AttrPos(D, h, name)
      k     == IF pos = 0 THEN 0 ELSE D.attrs[h][pos][1]
      n     == Len(D.attrids)
      fresh == LET E == repodata_set(D, h, Key(name, type, 0), n + 1) IN
               [E EXCEPT !.last = [handle |-> h, key |-> repodata_key2id(E, Key(name, type, 0)), len |-> n + width + 1]]
  IN IF same THEN [D EXCEPT !.attrids = SubSeq(@, 1, n - 1), !.last.len = @ + width]
     ELSE IF pos = 0 \/ D.keys[k].type # type THEN fresh
     ELSE LET from == D.attrs[h][pos][2] end == ArrayEnd(D, from, width) IN
          [D EXCEPT !.attrids = IF end = n THEN SubSeq(@, 1, n - 1) ELSE @ \o SubSeq(@, from, end - 1),
                    !.attrs[h][pos] = IF end = n THEN @ ELSE <<k, n + 1>>,
                    !.last = [handle |-> h, key |-> k, len |-> (IF end = n THEN n - 1 ELSE n + end - from) + width + 1]]

\* One more item, an id or a directory and a text, and the final 0.
AddItem(D, h, name, type, item) ==
  LET E == repodata_add_array(D, h, name, type) IN [E EXCEPT !.attrids = @ \o item \o <<0>>]

repodata_add_idarray(D, h, name, id) == AddItem(D, h, name, "idarray", <<id>>)
repodata_add_dirstr(D, h, name, dir, str) == AddItem(D, h, name, "dirstr", <<dir, str>>)
repodata_add_flexarray(D, h, name, handle) == AddItem(D, h, name, "flexarray", <<handle>>)

repodata_set_idarray(D, h, name, ids) ==
  LET E == repodata_set(D, h, Key(name, "idarray", 0), Len(D.attrids) + 1) IN [E EXCEPT !.attrids = @ \o ids \o <<0>>]

repodata_delete_uninternalized(D0, h, name) ==
  LET D == repodata_get_attrp(D0, h) IN
  [D EXCEPT !.attrs[h] = SelectSeq(@, LAMBDA a : D.keys[a[1]].name # name)]

repodata_merge_attrs(D, dest, src) ==
  IF dest = src THEN D
  ELSE FoldLeft(LAMBDA E, a : repodata_insert_keyid(E, dest, a[1], a[2], FALSE), D, AttrsOf(D, src))

\* keys are the ids of keys.
repodata_merge_some_attrs(D, dest, src, keys, overwrite) ==
  IF dest = src THEN D
  ELSE FoldLeft(LAMBDA E, a : IF a[1] \in keys THEN repodata_insert_keyid(E, dest, a[1], a[2], overwrite) ELSE E,
                D, AttrsOf(D, src))

\* A string gets an id of the pool the repodata uses.
LocalId(D, text) == SelectInSeq(D.spool, LAMBDA s : s = text)
WithLocal(D, text) == IF LocalId(D, text) # 0 THEN D ELSE [D EXCEPT !.spool = Append(@, text)]

----------------------------------------------------------------------------
(* Making it visible.                                                      *)

\* The values of an array that starts at val, by width.
ArrayItems(D, val, width) ==
  LET n == (ArrayEnd(D, val, width) - val) \div width
  IN [i \in 1 .. n |-> SubSeq(D.attrids, val + (i - 1) * width, val + i * width - 1)]

\* t is [D, inc, vinc]: the data so far, incore and vertical.
AddCells(t, key, cells) ==
  IF key.storage = "vertical"
  THEN [t EXCEPT !.vinc = @ \o cells, !.inc = @ \o <<t.D.lastvoff + Len(t.vinc), Len(cells)>>]
  ELSE [t EXCEPT !.inc = @ \o cells]

Mark(i, n) == IF i = n THEN 1 ELSE 0

RECURSIVE repodata_serialize_key(_, _, _)
repodata_serialize_key(t, k, val) ==
  LET D     == t.D
      key   == D.keys[k]
      items == ArrayItems(D, val, Width(key.type))
      n     == Len(items)
      element(u, item) ==
        LET attrs  == AttrsOf(D, item[1])
            schema == [i \in DOMAIN attrs |-> attrs[i][1]]
            E      == WithSchema(u.D, schema)
        IN FoldLeft(LAMBDA v, a : repodata_serialize_key(v, a[1], a[2]),
                    [u EXCEPT !.D = E, !.inc = Append(@, repodata_schema2id(E, schema))], attrs)
  IN CASE key.type \in NoData -> t
       [] key.type = "idarray" -> AddCells(t, key, [i \in 1 .. n |-> 2 * items[i][1] + Mark(i, n)])
       [] key.type = "dirstr"  -> AddCells(t, key, FlattenSeq([i \in 1 .. n |-> <<2 * items[i][1] + Mark(i, n), items[i][2]>>]))
       [] key.type = "flexarray" -> FoldLeft(element, AddCells(t, key, <<n>>), items)
       [] OTHER -> AddCells(t, key, <<val>>)

\* seen, by key: -1 data to keep, 0 nothing, else 1 + the new value.
NewSeen(D, old, attrs) ==
  [k \in DOMAIN D.keys |->
     LET last == SelectLastInSeq(attrs, LAMBDA a : a[1] = k)
     IN IF last # 0 THEN attrs[last][2] + 1 ELSE IF k \in ToSet(old) THEN -1 ELSE 0]

\* One key of the schema of an entry: what is there already is copied, or
\* skipped if there is a new value.
MergeKey(t, k, x) ==
  LET D   == t.D
      dp  == IF t.old > 0 THEN data_skip_key(D, t.dp, D.keys[k]) ELSE t.dp
      off == IF x = META THEN [t EXCEPT !.mainoffs = Append(@, Len(t.inc) + 1)] ELSE t
      u   == [off EXCEPT !.dp = dp, !.old = IF @ > 0 THEN @ - 1 ELSE 0]
  IN IF t.seen[k] = -1 THEN [u EXCEPT !.inc = @ \o SubSeq(D.incore, t.dp, dp - 1)]
     ELSE IF t.seen[k] # 0 THEN repodata_serialize_key(u, k, t.seen[k] - 1) ELSE u

SolvablesKey(D) == repodata_key2id(D, Key(SOLVABLES, "flexarray", 0))

\* The keys of the entry one by one, from the old data at dp.
MergeKeys(t, x, E, sid, dp, old, seen) ==
  LET begun == [t EXCEPT !.D = [E EXCEPT !.offs = IF x = META THEN @ ELSE [@ EXCEPT ![x] = Len(t.inc) + 1],
                                         !.mainschema = IF x = META THEN sid ELSE @],
                         !.inc = Append(@, sid), !.dp = dp, !.seen = seen, !.old = Len(old)]
      done  == FoldLeft(LAMBDA u, k : MergeKey(u, k, x), begun,
                        SelectSeq(repodata_id2schema(E, sid), LAMBDA k : k # SolvablesKey(E)))
      count(u) == [u EXCEPT !.inc = Append(@, E.end - E.start), !.mainoffs = Append(@, Len(u.inc) + 1)]
  IN IF SolvablesKey(E) \in ToSet(repodata_id2schema(E, sid)) THEN count(done) ELSE done

MergeSchema(t, x, e, old, seen, fresh) ==
  LET D == t.D E == WithSchema(D, old \o fresh) IN
  IF fresh = <<>> THEN MergeKeys(t, x, D, e.schema, e.dp, old, seen)
  ELSE MergeKeys(t, x, E, repodata_schema2id(E, old \o fresh), e.dp, old, seen)

\* The entry of a solvable or META: old keys first, in their order, new ones
\* behind them, and for META the solvables at the end.
MergeOld(t, x, e, old) ==
  LET attrs == AttrsOf(t.D, x)
      fresh == SelectSeq([i \in DOMAIN attrs |-> attrs[i][1]], LAMBDA k : k \notin ToSet(old))
      solvs == IF x = META /\ t.D.start # t.D.end THEN <<SolvablesKey(t.D)>> ELSE <<>>
  IN MergeSchema(t, x, e, old, NewSeen(t.D, old, attrs), fresh \o solvs)

MergeEntry(t, x) ==
  LET e == solvid2data(t.D, x)
  IN MergeOld(t, x, e, SelectSeq(repodata_id2schema(t.D, e.schema), LAMBDA k : x = META => k # SolvablesKey(t.D)))

\* Mutant: offsets that are known already stay.
Internalized_OldOffsets(t) ==
  [t.D EXCEPT !.incore = t.inc, !.vincore = t.vinc, !.attrs = <<>>, !.nxattrs = 0, !.attrids = <<>>,
              !.mainoffs = [i \in DOMAIN t.mainoffs |-> IF i \in DOMAIN @ THEN @[i] ELSE t.mainoffs[i]],
              !.last = [handle |-> 0, key |-> 0, len |-> 0]]

Internalized(t) ==
  [t.D EXCEPT !.incore = t.inc, !.vincore = t.vinc, !.mainoffs = t.mainoffs, !.attrs = <<>>, !.nxattrs = 0,
              !.attrids = <<>>, !.last = [handle |-> 0, key |-> 0, len |-> 0]]

repodata_internalize(D0) ==
  LET D    == IF D0.start # D0.end THEN WithKey(D0, Key(SOLVABLES, "flexarray", 0)) ELSE D0
      base == [D |-> D, inc |-> <<>>, vinc |-> D.vincore, dp |-> 0, seen |-> <<>>, old |-> 0, mainoffs |-> <<>>]
      entries == <<META>> \o [i \in 1 .. D.end - D.start |-> D.start + i - 1]
  IN IF DOMAIN D0.attrs = {} THEN D0 ELSE Internalized(FoldLeft(MergeEntry, base, entries))
=============================================================================
