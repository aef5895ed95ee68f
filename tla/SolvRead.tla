------------------------------- MODULE SolvRead -------------------------------
(***************************************************************************)
(* Reading a solv file (src/repo_solv.c): its ids are mapped to those of   *)
(* the pool, or kept in a string pool of the repodata (local); its data    *)
(* become a new repodata, or replace one that is being loaded (parent).    *)
(* cut says where the file breaks off: "no", "header", "early" (before the *)
(* solvables) or "late" (among them).                                      *)
(***************************************************************************)
EXTENDS SolvWrite

\* A text gets an id of the pool.
WithText(W, text) == IF StrId(W, text) # 0 THEN W ELSE [W EXCEPT !.strings = Append(@, text)]

WithTexts(W, texts) == FoldLeft(WithText, W, texts)

RelId(W, rel) == LET i == SelectInSeq(W.rels, LAMBDA r : r = rel) IN IF i = 0 THEN 0 ELSE RelBase + i

\* t is [W, map, ok]; a relation is made of ids that are known already.
ReadRel(t, rel) ==
  IF ~({rel.name, rel.evr} \subseteq DOMAIN t.map) THEN [t EXCEPT !.map = Append(@, 0), !.ok = FALSE]
  ELSE LET mapped == [name |-> t.map[rel.name], flags |-> rel.flags, evr |-> t.map[rel.evr]]
           known  == RelId(t.W, mapped) # 0
           W      == IF known THEN t.W ELSE [t.W EXCEPT !.rels = Append(@, mapped)]
       IN [t EXCEPT !.W = W, !.map = Append(@, RelId(W, mapped))]

\* The ids of the file in the pool: [W, map, ok].
ReadIds(W, F, local) ==
  IF local THEN [W |-> W, map |-> [i \in DOMAIN F.texts |-> i], ok |-> F.rels = <<>>]
  ELSE LET V == WithTexts(W, F.texts) IN
       FoldLeft(ReadRel, [W |-> V, map |-> [i \in DOMAIN F.texts |-> StrId(V, F.texts[i])], ok |-> TRUE], F.rels)

ReadDirs(F, map) ==
  LET n == Len(F.texts) + 1 IN
  IF F.dirs = <<>> THEN NoDirs
  ELSE [dirs |-> (0 :> 0) @@ [j \in DOMAIN F.dirs |-> IF j = 1 THEN 1 ELSE IF F.dirs[j] >= n THEN n - F.dirs[j]
                                                      ELSE map[F.dirs[j]]],
        trav |-> <<>>]

Own == {"name", "vendor", "provides", "requires", "rpmdbid"}

ReadFileKey(key, map) ==
  [key EXCEPT !.storage = IF key.name \in Own THEN "solvable" ELSE @,
              !.size = IF key.type = "constantid" THEN map[@] ELSE @]

----------------------------------------------------------------------------
(* Data.                                                                   *)

NoFields == [name |-> 0, vendor |-> 0, provides |-> 0, requires |-> 0]

\* The list of differences that starts at dp; a difference of 0 is the marker.
RECURSIVE data_read_rel_idarray(_, _, _, _, _)
data_read_rel_idarray(cells, dp, old, map, marker) ==
  LET x    == cells[dp] \div 2
      last == cells[dp] % 2 = 1
      id   == old + x - 1
      here == IF x = 0 THEN (IF last \/ marker = 0 THEN <<>> ELSE <<marker>>) ELSE <<map[id]>>
  IN IF last THEN here ELSE here \o data_read_rel_idarray(cells, dp + 1, IF x = 0 THEN 0 ELSE id, map, marker)

\* r is [dp, inc, sol, idarray, rpmdbid, offs, ok], where in the file we are and
\* what has been read; s is the number of the solvable, 0 outside.
Copy(r, cells, n) == [r EXCEPT !.inc = @ \o cells, !.dp = @ + n]

ReadOwn(V, F, map, r, key, s) ==
  LET dp   == r.dp
      list == data_read_rel_idarray(F.inc, dp, 0, map, IF key.name = "provides" THEN ProvidesMarker(V) ELSE RequiresMarker(V))
  IN CASE key.type = "id" -> [r EXCEPT !.sol[s][key.name] = map[F.inc[dp]], !.dp = dp + 1]
       [] key.type = "u32" -> [r EXCEPT !.rpmdbid = Append(@, F.inc[dp]), !.dp = dp + 1]
       [] key.type = "rel_idarray" ->
            [r EXCEPT !.sol[s][key.name] = Len(r.idarray) + 1, !.idarray = @ \o list \o <<0>>, !.dp = SkipArray(F.inc, dp, 1)]

\* Ids of an attribute may only be those of texts (incore_map_idarray).
ReadIdArray(F, map, r) ==
  LET end   == SkipArray(F.inc, r.dp, 1)
      cells == SubSeq(F.inc, r.dp, end - 1)
      fits  == \A j \in DOMAIN cells : cells[j] \div 2 <= Len(F.texts)
  IN [Copy(r, IF fits THEN [j \in DOMAIN cells |-> (2 * map[cells[j] \div 2]) + (cells[j] % 2)] ELSE <<>>, end - r.dp)
      EXCEPT !.ok = @ /\ fits]

RECURSIVE ReadKeys(_, _, _, _, _, _, _), ReadArray(_, _, _, _, _, _, _, _)
ReadKeys(V, F, keys, map, r0, list, s) ==
  LET step(r, k) ==
        LET key  == keys[k]
            main == key.name = SOLVABLES
            skip == data_skip(F.inc, r.dp, key.type)
        IN CASE key.storage = "vertical" -> Copy(r, SubSeq(F.inc, r.dp, r.dp + 1), 2)
             [] key.storage = "solvable" -> ReadOwn(V, F, map, r, key, s)
             [] key.type = "id" -> Copy(r, <<map[F.inc[r.dp]]>>, 1)
             [] key.type = "idarray" -> ReadIdArray(F, map, r)
             [] key.type = "flexarray" ->
                  ReadArray(V, F, keys, map, Copy(r, <<F.inc[r.dp]>>, 1), F.inc[r.dp], main, IF main THEN 1 ELSE s)
             [] OTHER -> Copy(r, SubSeq(F.inc, r.dp, skip - 1), skip - r.dp)
      off(r, k) == IF s = -1 THEN [r EXCEPT !.mainoffs = Append(@, Len(r.inc) + 1)] ELSE r
  IN FoldLeft(LAMBDA r, k : IF r.ok THEN step(off(r, k), k) ELSE r, r0, list)
ReadArray(V, F, keys, map, r, n, main, s) ==
  IF n = 0 THEN r
  ELSE LET begun == [r EXCEPT !.offs = IF main THEN Append(@, Len(r.inc) + 1) ELSE @,
                              !.sol = IF main THEN Append(@, NoFields) ELSE @]
           schema == F.inc[r.dp]
           one   == ReadKeys(V, F, keys, map, Copy(begun, <<schema>>, 1),
                             IF schema = 0 THEN <<>> ELSE F.schemata[schema], IF main THEN s ELSE 0)
       IN ReadArray(V, F, keys, map, one, n - 1, main, s + 1)

----------------------------------------------------------------------------
(* The whole file.                                                         *)

\* The solvables are gone, and with them what the repodatas know of them.
repo_free_solvable_block(W, count) ==
  IF count = 0 THEN W
  ELSE [W EXCEPT !.solvables = <<>>, !.data = [i \in DOMAIN @ |-> repodata_shrink(@[i], W.start)]]

\* The repodata the file becomes.
ReadData(F, keys, r, start, local, map) ==
  LET size(k) == IF keys[k].storage = "vertical" THEN keys[k].size ELSE 0
      below(k) == FoldLeft(LAMBDA sum, j : sum + size(j), 0, [j \in 1 .. k - 1 |-> j])
      n == Len(r.offs)
  IN [repodata_initdata(local) EXCEPT
        !.spool = IF local THEN F.texts ELSE <<>>, !.dirpool = ReadDirs(F, map), !.keys = keys, !.schemata = F.schemata,
        !.start = IF n = 0 THEN 0 ELSE start, !.end = IF n = 0 THEN 0 ELSE start + n,
        !.offs = [x \in start .. start + n - 1 |-> r.offs[x - start + 1]], !.incore = r.inc,
        !.mainschema = r.inc[1], !.mainoffs = r.mainoffs, !.vdata = F.vertical,
        !.voffs = [k \in DOMAIN keys |-> below(k)], !.lastvoff = Len(F.vertical)]

\* What is left when the file is not read to its end.
FailSolv(W, block) == [W |-> repo_free_solvable_block(W, block), ok |-> FALSE]

ReadAll(V, F, keys, map) ==
  ReadKeys(V, F, keys, map, [dp |-> 2, inc |-> <<F.inc[1]>>, sol |-> <<>>, idarray |-> V.idarray, rpmdbid |-> <<>>,
                             offs |-> <<>>, mainoffs |-> <<>>, ok |-> TRUE],
           IF F.inc[1] = 0 THEN <<>> ELSE F.schemata[F.inc[1]], -1)

\* The new repodata takes the place of the one that is being loaded, or comes at
\* the end, with its solvables.
Loaded(V, parent, r, data) ==
  IF parent # 0 THEN [V EXCEPT !.data[parent] = data]
  ELSE [V EXCEPT !.data = Append(@, data), !.solvables = @ \o r.sol, !.idarray = r.idarray, !.lastoff = 0, !.rpmdbid = r.rpmdbid]

EndRead(V, F, parent, local, cut, keys, map, r) ==
  IF cut = "late" \/ ~r.ok THEN FailSolv(V, F.numsolv)
  ELSE [W |-> Loaded(V, parent, r, ReadData(F, keys, r, V.start, local, map)), ok |-> TRUE]

ReadMapped(F, parent, local, cut, ids, keys) ==
  EndRead(ids.W, F, parent, local, cut, keys, ids.map, ReadAll(ids.W, F, keys, ids.map))

\* A file that is loaded for parent must be about as many solvables.
Unfit(W, F, parent) == parent # 0 /\ F.numsolv # 0 /\ W.data[parent].end - W.data[parent].start # F.numsolv

AfterIds(W, F, parent, local, cut, ids) ==
  IF ~ids.ok THEN FailSolv(IF local THEN W ELSE ids.W, 0)
  ELSE IF cut = "early" THEN FailSolv(ids.W, 0)
  ELSE ReadMapped(F, parent, local, cut, ids, [k \in DOMAIN F.keys |-> ReadFileKey(F.keys[k], ids.map)])

\* [W, ok]: the state afterwards.
repo_add_solv_flags(W, F, parent, local, cut) ==
  IF cut = "header" \/ Unfit(W, F, parent) THEN FailSolv(W, 0)
  ELSE AfterIds(W, F, parent, local, cut, ReadIds(W, F, local))
=============================================================================
