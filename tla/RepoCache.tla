------------------------------- MODULE RepoCache ------------------------------
(***************************************************************************)
(* How an application keeps a repository in files (examples/solv.c:        *)
(* read_repos, usecachedrepo, writecachedrepo, load_stub, rewrite_repos).  *)
(* Several runs of it share the files, the server goes on publishing, and  *)
(* a run may be killed at any step.                                        *)
(*   A version stands for a state of the repository's metadata and for the *)
(* checksum of its index, which is the cookie of the main file.  The main  *)
(* file also has the ext cookie, a new id, that the external file has as   *)
(* its cookie.  An id of 0 is a cookie of zeros.  A set of at most one     *)
(* element stands for what may be absent.                                  *)
(***************************************************************************)
EXTENDS Integers

CONSTANTS
  Runs,        \* the processes
  MaxVersion,  \* bound: versions the server publishes
  MaxStarts,   \* bound: how often processes start
  Kinds,       \* "rpmmd", "susetags", or "system" for the installed packages
  Signed,      \* the kinds whose index must be signed (repo_gpgcheck)
  Faults       \* what can go wrong besides a version that is gone from the server

ASSUME CacheAssumption == MaxVersion \in Nat \ {0} /\ MaxStarts \in Nat

VARIABLES
  kind,            \* the repository's type
  server,          \* the version the server has
  mainFile,        \* name.solv: [cookie, extcookie, content, sound]
  extFile,         \* name_FL.solvx: [cookie, version, sound]
  ids,             \* ext cookies made so far
  starts,          \* bound: starts left
  at,              \* per process, what it does next
  cookie,          \* the version of the index it goes by
  extcookie,
  main,            \* what it has in memory: [version, packages, notes, provides]
  paged,           \* whether that was read from a solv file
  stub,            \* the external data: "none", "stub", "available" or "error"
  ext,             \* their version, 0 if they are not there
  tmp              \* the file that is written, under a name of its own

memory == <<cookie, extcookie, main, paged, stub, ext, tmp>>
cacheVars == <<kind, server, mainFile, extFile, ids, starts, at, memory>>

shared == <<kind, server, mainFile, extFile, ids, starts>>

Goto(p, place) == at' = [at EXCEPT ![p] = place]
Set(f, p, value) == [f EXCEPT ![p] = value]

Content(version, packages, notes) == [version |-> version, packages |-> packages, notes |-> notes, provides |-> FALSE]

\* A file the server had when it had that version: the same is there, or it is
\* gone; another file's checksum does not match.
Fetched(version) == server = version
Fails(version, file) == server # version \/ file \in Faults

----------------------------------------------------------------------------
(* The server, and processes that come and go.                             *)

Publish ==
  /\ server < MaxVersion /\ server' = server + 1
  /\ UNCHANGED <<kind, mainFile, extFile, ids, starts, at, memory>>

\* A run tries the cache first, if it is not old, or begins with the index.
Begin(p) ==
  /\ at[p] = "out" /\ starts > 0 /\ starts' = starts - 1
  /\ at' \in {Set(at, p, "index")} \cup (IF kind = "system" THEN {} ELSE {Set(at, p, "open")})
  /\ UNCHANGED <<kind, server, mainFile, extFile, ids, memory>>

\* Mutant: what is known about the external file is kept.
Leave_KeepsStub(p) ==
  /\ at[p] # "out" /\ Goto(p, "out")
  /\ cookie' = Set(cookie, p, 0) /\ extcookie' = Set(extcookie, p, 0) /\ main' = Set(main, p, {})
  /\ paged' = Set(paged, p, FALSE) /\ ext' = Set(ext, p, 0) /\ tmp' = Set(tmp, p, {})
  /\ UNCHANGED <<shared, stub>>

\* It ends, or is killed: what it had in memory is gone, what it was writing is
\* left under a name nobody asks for.
Leave(p) ==
  /\ at[p] # "out" /\ Goto(p, "out")
  /\ cookie' = Set(cookie, p, 0) /\ extcookie' = Set(extcookie, p, 0) /\ main' = Set(main, p, {})
  /\ paged' = Set(paged, p, FALSE) /\ stub' = Set(stub, p, "none") /\ ext' = Set(ext, p, 0)
  /\ tmp' = Set(tmp, p, {})
  /\ UNCHANGED shared

\* The power fails, when all processes are lost: the data of a file with a name may
\* not have got to the disk.
PowerFails ==
  /\ "power" \in Faults /\ \A p \in Runs : at[p] = "out"
  /\ mainFile' \in {mainFile, {[f EXCEPT !.sound = FALSE] : f \in mainFile}}
  /\ extFile' \in {extFile, {[f EXCEPT !.sound = FALSE] : f \in extFile}}
  /\ UNCHANGED <<kind, server, ids, starts, at, memory>>

----------------------------------------------------------------------------
(* The main file.                                                          *)

\* What usecachedrepo takes for the main repository; want is 0 for any.
Usable(want) == {f \in mainFile : f.sound /\ want \in {0, f.cookie}}

\* The stubs are those the file lists.
Take(p, f) ==
  /\ main' = Set(main, p, {f.content}) /\ paged' = Set(paged, p, TRUE)
  /\ cookie' = Set(cookie, p, f.cookie) /\ extcookie' = Set(extcookie, p, f.extcookie)
  /\ stub' = Set(stub, p, IF kind = "system" THEN "none" ELSE "stub")
  /\ Goto(p, "run")
  /\ UNCHANGED <<shared, ext, tmp>>

UseCached(p) ==
  /\ at[p] = "open"
  /\ \/ \E f \in Usable(0) : Take(p, f)
     \/ Usable(0) = {} /\ Goto(p, "index") /\ UNCHANGED <<shared, memory>>

\* The index, or the state of the rpm database; without an index there is no
\* repository.
FetchIndex(p) ==
  /\ at[p] = "index"
  /\ \/ cookie' = Set(cookie, p, server) /\ Goto(p, "match")
     \/ "index" \in Faults /\ kind # "system" /\ Goto(p, "end") /\ UNCHANGED cookie
  /\ UNCHANGED <<shared, extcookie, main, paged, stub, ext, tmp>>

UseMatching(p) ==
  /\ at[p] = "match"
  /\ \/ \E f \in Usable(cookie[p]) : Take(p, f)
     \/ Usable(cookie[p]) = {} /\ Goto(p, IF kind = "system" THEN "read" ELSE "verify") /\ UNCHANGED <<shared, memory>>

\* Mutant: there is only the signature of the index that was fetched.
CheckSig_Waits(p) ==
  /\ at[p] = "verify"
  /\ (kind \in Signed => Fetched(cookie[p])) /\ Goto(p, "primary")
  /\ UNCHANGED <<shared, memory>>

\* The signature must be that of the index that was fetched.
CheckSig(p) ==
  /\ at[p] = "verify"
  /\ \/ (kind \in Signed => Fetched(cookie[p])) /\ Goto(p, "primary")
     \/ kind \in Signed /\ Fails(cookie[p], "signature") /\ Goto(p, "end")
  /\ UNCHANGED <<shared, memory>>

\* The installed packages, as they are by now.
ReadSystem(p) ==
  /\ at[p] = "read"
  /\ main' = Set(main, p, {Content(server, TRUE, TRUE)})
  /\ Goto(p, "write")
  /\ UNCHANGED <<shared, cookie, extcookie, paged, stub, ext, tmp>>

\* Mutant: the repository is written all the same.
FetchPrimary_Goes(p) ==
  /\ at[p] = "primary"
  /\ \/ Fetched(cookie[p]) /\ main' = Set(main, p, {Content(cookie[p], TRUE, FALSE)}) /\ Goto(p, "notes")
     \/ /\ Fails(cookie[p], "primary") /\ main' = Set(main, p, {Content(cookie[p], FALSE, FALSE)})
        /\ Goto(p, "notes")
     \/ /\ "empty" \in Faults /\ main' = Set(main, p, {Content(cookie[p], FALSE, FALSE)})
        /\ Goto(p, IF kind = "susetags" THEN "end" ELSE "notes")
  /\ UNCHANGED <<shared, cookie, extcookie, paged, stub, ext, tmp>>

\* The packages; without them there is little in the repository. An empty file
\* is no bad checksum.
FetchPrimary(p) ==
  /\ at[p] = "primary"
  /\ \/ Fetched(cookie[p]) /\ main' = Set(main, p, {Content(cookie[p], TRUE, FALSE)}) /\ Goto(p, "notes")
     \/ /\ Fails(cookie[p], "primary") /\ main' = Set(main, p, {Content(cookie[p], FALSE, FALSE)})
        /\ Goto(p, "end")
     \/ /\ "empty" \in Faults /\ main' = Set(main, p, {Content(cookie[p], FALSE, FALSE)})
        /\ Goto(p, IF kind = "susetags" THEN "end" ELSE "notes")
  /\ UNCHANGED <<shared, cookie, extcookie, paged, stub, ext, tmp>>

\* More about them: update notices, or the default language. The external files
\* are listed whether or not that was found, but without it nothing is written.
FetchNotes(p) ==
  /\ at[p] = "notes"
  /\ \/ /\ Fetched(cookie[p]) /\ Goto(p, "write")
        /\ main' = Set(main, p, {[m EXCEPT !.notes = TRUE] : m \in main[p]})
     \/ Fails(cookie[p], "notes") /\ Goto(p, "run") /\ UNCHANGED main
     \/ "empty" \in Faults /\ Goto(p, "write") /\ UNCHANGED main
  /\ stub' = Set(stub, p, "stub")
  /\ UNCHANGED <<shared, cookie, extcookie, paged, ext, tmp>>

----------------------------------------------------------------------------
(* Writing.                                                                *)

\* Mutant: an ext cookie that was made before.
ExtCookie_Again(p) ==
  IF kind = "system" THEN 0 ELSE IF extcookie[p] # 0 THEN extcookie[p] ELSE IF ids = 0 THEN 1 ELSE ids

\* The ext cookie a main file gets: that of the process, or a new one.
ExtCookie(p) == IF kind = "system" THEN 0 ELSE IF extcookie[p] = 0 THEN ids + 1 ELSE extcookie[p]

\* The process knows its ext cookie.
Marked(p) ==
  /\ extcookie' = Set(extcookie, p, ExtCookie(p))
  /\ ids' = IF ExtCookie(p) > ids THEN ExtCookie(p) ELSE ids

\* A new file with the main repository, under a name of its own; the process goes
\* on with what it has written, if its packages are in one piece. Or there is no
\* room, for anything or for all.
Write(p, m) ==
  /\ main' = Set(main, p, {m})
  /\ \/ /\ tmp' = Set(tmp, p, {[cookie |-> cookie[p], extcookie |-> ExtCookie(p), content |-> m, sound |-> TRUE]})
        /\ paged' \in {Set(paged, p, TRUE)} \cup (IF kind = "system" THEN {paged} ELSE {})
        /\ Marked(p) /\ Goto(p, "rename")
     \/ /\ "space" \in Faults
        /\ Marked(p) \/ UNCHANGED <<extcookie, ids>>
        /\ Goto(p, "run") /\ UNCHANGED <<tmp, paged>>
  /\ UNCHANGED <<kind, server, mainFile, extFile, starts, cookie, stub, ext>>

WriteMain(p) == at[p] = "write" /\ \E m \in main[p] : Write(p, m)

\* The file gets its name in one step; or cannot get it.
Rename(p) ==
  /\ at[p] = "rename"
  /\ mainFile' \in {tmp[p]} \cup (IF "rename" \in Faults THEN {mainFile} ELSE {})
  /\ tmp' = Set(tmp, p, {}) /\ Goto(p, "run")
  /\ UNCHANGED <<kind, server, extFile, ids, starts, cookie, extcookie, main, paged, stub, ext>>

\* What a main file does not have yet, the files other packages ask for, is
\* added and the file is written again.
Rewrite(p) ==
  /\ at[p] = "run" /\ paged[p]
  /\ \E m \in main[p] : ~m.provides /\ Write(p, [m EXCEPT !.provides = TRUE])

----------------------------------------------------------------------------
(* The external file.                                                      *)

\* Mutant: the cookie is not compared.
UsableExt_Any(p) == {f \in extFile : f.sound}

UsableExt(p) == {f \in extFile : f.sound /\ f.cookie = extcookie[p]}

\* Something of it is asked for: it is cached, or not.
LoadExt(p) ==
  /\ at[p] = "run" /\ stub[p] = "stub"
  /\ \/ \E f \in UsableExt(p) : ext' = Set(ext, p, f.version) /\ stub' = Set(stub, p, "available") /\ UNCHANGED at
     \/ UsableExt(p) = {} /\ Goto(p, "extfetch") /\ UNCHANGED <<ext, stub>>
  /\ UNCHANGED <<shared, cookie, extcookie, main, paged, tmp>>

\* The file the main repository names, by its checksum.
FetchExt(p) ==
  /\ at[p] = "extfetch"
  /\ \/ /\ \E m \in main[p] : Fetched(m.version) /\ ext' = Set(ext, p, m.version)
        /\ stub' = Set(stub, p, "available") /\ Goto(p, "extwrite")
     \/ /\ \E m \in main[p] : Fails(m.version, "filelists")
        /\ stub' = Set(stub, p, "error") /\ Goto(p, "run") /\ UNCHANGED ext
  /\ UNCHANGED <<shared, cookie, extcookie, main, paged, tmp>>

WriteExt(p) ==
  /\ at[p] = "extwrite"
  /\ \/ /\ tmp' = Set(tmp, p, {[cookie |-> extcookie[p], version |-> ext[p], sound |-> TRUE]}) /\ Goto(p, "extrename")
     \/ "extspace" \in Faults /\ Goto(p, "run") /\ UNCHANGED tmp
  /\ UNCHANGED <<shared, cookie, extcookie, main, paged, stub, ext>>

RenameExt(p) ==
  /\ at[p] = "extrename"
  /\ extFile' \in {tmp[p]} \cup (IF "rename" \in Faults THEN {extFile} ELSE {})
  /\ tmp' = Set(tmp, p, {}) /\ Goto(p, "run")
  /\ UNCHANGED <<kind, server, mainFile, ids, starts, cookie, extcookie, main, paged, stub, ext>>

----------------------------------------------------------------------------

Init ==
  /\ kind \in Kinds
  /\ server = 1 /\ mainFile = {} /\ extFile = {} /\ ids = 0 /\ starts = MaxStarts
  /\ at = [p \in Runs |-> "out"]
  /\ cookie = [p \in Runs |-> 0] /\ extcookie = cookie /\ ext = cookie
  /\ main = [p \in Runs |-> {}] /\ tmp = main
  /\ paged = [p \in Runs |-> FALSE]
  /\ stub = [p \in Runs |-> "none"]

\* A process goes on reading the repository until it has what there is.
Read(p) ==
  \/ UseCached(p) \/ FetchIndex(p) \/ UseMatching(p) \/ CheckSig(p) \/ ReadSystem(p) \/ FetchPrimary(p) \/ FetchNotes(p)
  \/ WriteMain(p) \/ Rename(p) \/ FetchExt(p) \/ WriteExt(p) \/ RenameExt(p)

Next == Publish \/ PowerFails \/ \E p \in Runs : Begin(p) \/ Leave(p) \/ Read(p) \/ Rewrite(p) \/ LoadExt(p)

Spec == Init /\ [][Next]_cacheVars /\ \A p \in Runs : WF_cacheVars(Read(p))

----------------------------------------------------------------------------
(* What the cached files of a repository must keep.                        *)

Versions == 1 .. MaxVersion
Contents == [version : Versions, packages : BOOLEAN, notes : BOOLEAN, provides : BOOLEAN]
MainFiles == [cookie : Versions, extcookie : 0 .. ids, content : Contents, sound : BOOLEAN]
ExtFiles == [cookie : 0 .. ids, version : Versions, sound : BOOLEAN]

\* Memory, files and cookies are of one repository: a process without packages
\* has no external data, and ids are counted.
CacheTypeOK ==
  /\ server \in Versions /\ mainFile \subseteq MainFiles /\ extFile \subseteq ExtFiles
  /\ \A p \in Runs :
       /\ extcookie[p] \in 0 .. ids /\ main[p] \subseteq Contents
       /\ main[p] = {} => ~paged[p] /\ stub[p] = "none" /\ ext[p] = 0
       /\ (ext[p] # 0) <=> (stub[p] = "available")
       /\ tmp[p] \subseteq (IF at[p] = "rename" THEN MainFiles ELSE IF at[p] = "extrename" THEN ExtFiles ELSE {})

\* What is saved under the cookie of an index is all that this index lists; for
\* the installed packages it is at least as new. Whoever finds the cookie will
\* not look again (read_repos, usecachedrepo).
CookieTellsContent ==
  \A f \in mainFile \cup (UNION {tmp[p] : p \in {q \in Runs : at[q] = "rename"}}) :
    /\ f.content.packages /\ f.content.notes
    /\ IF kind = "system" THEN f.content.version >= f.cookie ELSE f.content.version = f.cookie

\* Who knows which ext cookie, and for which version.
Claims ==
  {<<f.extcookie, f.content.version>> : f \in mainFile}
    \cup {<<f.cookie, f.version>> : f \in extFile}
    \cup (UNION {{<<extcookie[p], m.version>> : m \in main[p]} :
                 p \in {q \in Runs : stub[q] # "none" /\ extcookie[q] # 0}})
    \cup (UNION {IF at[p] = "rename" THEN {<<f.extcookie, f.content.version>> : f \in tmp[p]}
                 ELSE {<<f.cookie, f.version>> : f \in tmp[p]} : p \in Runs})

\* An ext cookie is that of one version ("we just need some unique ID"), whoever
\* has written or kept it.
ExtCookiesUnique == kind # "system" => \A c, d \in Claims : c[1] = d[1] => c[2] = d[2]

\* Whoever trusts a cookie is right.
CookiesSound == CacheTypeOK /\ CookieTellsContent /\ ExtCookiesUnique

VersionOf(contents) == IF contents = {} THEN 0 ELSE (CHOOSE m \in contents : TRUE).version

S == INSTANCE Snapshots WITH published <- server, more <- ext,
       asked <- [p \in Runs |-> IF main[p] = {} THEN cookie[p] ELSE 0], seen <- [p \in Runs |-> VersionOf(main[p])]

\* Whatever other processes write, the server publishes and is lost: a process
\* sees one published state, as new as the index it has asked for, and external
\* data of that state.
KeepsSnapshots == S!Spec

\* A process that is not killed gets through with reading a repository, or gives
\* it up.
Busy(p) == at[p] \notin {"out", "run", "end"}
ReadingEnds == \A p \in Runs : Busy(p) ~> ~Busy(p)
=============================================================================
