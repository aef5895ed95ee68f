----------------------------- MODULE MCRepository -----------------------------
(***************************************************************************)
(* Small repositories: two packages, menus of up to three calls.  Texts    *)
(* are numbers: 0 empty, 1 and 2 the markers, 3 and 4 names of packages, 5 *)
(* and 6 words, 7 and 8 directories, from 11 on names and types of keys.   *)
(***************************************************************************)
EXTENDS RepositoryProperties

MCPackages == <<3, 4>>
MCSpelling == (11 :> "files") @@ (12 :> "dirstr") @@ (13 :> "keywords") @@ (14 :> "idarray")

Empty == [strings |-> <<0, 1, 2>>, rels |-> <<>>, start |-> 2, solvables |-> <<>>, idarray |-> <<>>, lastoff |-> 0,
          rpmdbid |-> <<>>, data |-> <<>>]

\* A pool with other ids, where a relation is known already.
Other == [Empty EXCEPT !.strings = <<0, 8, 6, 2, 12, 5, 1>>, !.rels = <<[name |-> 6, flags |-> 1, evr |-> 3]>>, !.start = 5]
MCPools == {Empty, Other}

Call_(op, x, name, type, val) == [op |-> op, part |-> 1, x |-> x, name |-> name, type |-> type, val |-> val]
In2(c) == [c EXCEPT !.part = 2]
Part2(local) == [op |-> "part", local |-> local]

SetStr(x, v) == Call_("set", x, "summary", "str", v)
SetId(x, v) == Call_("set", x, "group", "id", v)
SetNum(x, v) == Call_("set", x, "size", "num", v)
SetVoid(x) == Call_("set", x, "flag", "void", 0)
SetKind(x, v) == Call_("set", x, "kind", "constantid", v)
SetLevel(x, v) == Call_("set", x, "level", "constant", v)
SetWords(x, v) == Call_("set", x, "keywords", "idarray", v)
AddWord(x, v) == Call_("add", x, "keywords", "idarray", v)
AddFile(x, path, v) == Call_("add", x, "files", "dirstr", <<path, v>>)
AddInfo(x, first, v) == [op |-> "add", part |-> 1, x |-> x, name |-> "infos", type |-> "flexarray", val |-> v, first |-> first]
Attr(name, type, val) == [name |-> name, type |-> type, val |-> val]
Names1 == <<Attr("group", "id", 5), Attr("keywords", "idarray", 6), Attr("keywords", "idarray", 5)>>
Names2 == <<Attr("files", "dirstr", <<<<0, 7>>, 6>>), Attr("size", "num", 3)>>
Forget(x, name) == [op |-> "forget", part |-> 1, x |-> x, name |-> name]
Merge(x, from) == [op |-> "merge", part |-> 1, x |-> x, from |-> from]
Copy_(x, from, names, overwrite) ==
  [op |-> "copy", part |-> 1, x |-> x, from |-> from, names |-> names, overwrite |-> overwrite]
Filelists == [op |-> "add", part |-> 1, x |-> META, name |-> "external", type |-> "flexarray", first |-> FALSE,
              val |-> <<Attr("location", "str", 9), Attr("keys", "idarray", 11), Attr("keys", "idarray", 12)>>]
Depend(x, name, val, marker) == [op |-> "depend", x |-> x, name |-> name, val |-> val, marker |-> marker]
Vendor(x, v) == [op |-> "own", x |-> x, name |-> "vendor", val |-> <<v>>]
DbId(x, v) == [op |-> "own", x |-> x, name |-> "rpmdbid", val |-> v]
New(name) == [op |-> "solvable", val |-> <<name>>]
Rel(name, evr) == <<2, <<name>>, <<evr>>>>
Both(dep1, dep2) == <<16, dep1, dep2>>

MCMenus == {
  <<SetStr(1, 7), SetId(2, 5), SetNum(META, 4)>>,
  <<SetId(1, 5), SetId(1, 6), SetKind(2, 6)>>,
  <<AddWord(1, 5), AddWord(1, 6), SetVoid(1)>>,
  <<AddWord(1, 5), AddWord(2, 6), SetNum(1, 3)>>,
  <<AddWord(META, 5), AddFile(1, <<0, 7>>, 5), SetLevel(META, 4)>>,
  <<AddFile(1, <<0, 7, 8>>, 5), AddFile(1, <<0, 8>>, 6), AddFile(2, <<0>>, 5)>>,
  <<AddFile(1, <<0, 7, 8>>, 5), AddFile(2, <<0, 7>>, 6), AddWord(1, 7)>>,
  <<SetWords(1, <<6, 5>>), AddWord(1, 7), Forget(1, "group")>>,
  <<AddWord(1, 5), SetWords(2, <<6>>), AddWord(1, 6)>>,
  <<SetWords(META, <<5>>), SetWords(META, <<6, 5>>), SetNum(META, 4)>>,
  <<SetStr(1, 7), SetStr(2, 8), Merge(1, 2)>>,
  <<SetId(1, 6), SetId(2, 5), Copy_(2, 1, {"group", "summary"}, TRUE)>>,
  <<SetNum(1, 6), SetKind(1, 5), Copy_(2, 1, {"kind"}, FALSE)>>,
  <<AddInfo(1, FALSE, Names1), AddInfo(1, TRUE, Names2), SetNum(1, 3)>>,
  <<AddInfo(META, TRUE, Names1), SetStr(META, 3), AddWord(1, 6)>>,
  <<Part2(FALSE), In2(AddFile(1, <<0, 7>>, 5)), AddFile(2, <<0, 8, 7>>, 6)>>,
  <<Part2(TRUE), In2(AddFile(1, <<0, 7>>, 5)), Filelists>>,
  <<Part2(TRUE), In2(SetId(2, 6)), SetId(1, 6)>>,
  <<Depend(1, "requires", <<5>>, 0), Depend(1, "requires", <<6>>, 1), Depend(1, "requires", <<5>>, 1)>>,
  <<Depend(1, "provides", Rel(3, 5), -1), Depend(1, "provides", <<7>>, 1), Depend(2, "provides", Rel(4, 5), 0)>>,
  <<Depend(2, "requires", Rel(3, 5), 1), Vendor(1, 6), DbId(2, 8)>>,
  <<Depend(2, "requires", Both(<<6>>, Rel(4, 5)), 0), Depend(1, "requires", Both(Both(<<3>>, <<7>>), Rel(4, 5)), 1)>>,
  <<New(5), DbId(1, 3), SetStr(3, 7)>>
}
=============================================================================
