--------------------------- MODULE RepoCacheProofs ---------------------------
(***************************************************************************)
(* What holds of the cached files for any number of processes, starts and  *)
(* published versions: cookies tell the truth, and RepoCache implements    *)
(* Snapshots.  Three faults are left out, see NoGap.                       *)
(***************************************************************************)
EXTENDS RepoCache, TLAPS

\* No empty replies, and no update notices or disk space missing: with these a
\* main file lacks something, or an ext cookie is zero.
NoGap == {"empty", "notes", "space"} \cap Faults = {}

----------------------------------------------------------------------------
(* The inductive invariant.                                                *)

\* What is known of a state of the repository is all of the index c.
Whole(m, c) == m.packages /\ m.notes /\ IF kind = "system" THEN m.version >= c ELSE m.version = c

\* Nothing has been read yet.
Early(p) == at[p] \in {"out", "open", "index", "match", "verify", "primary", "read"}

Places ==
  {"out", "open", "index", "match", "verify", "primary", "notes", "read", "write", "rename", "run", "end"}
    \cup {"extfetch", "extwrite", "extrename"}

Stubs == {"none", "stub", "available", "error"}

Types ==
  /\ server \in Versions /\ ids \in Nat
  /\ mainFile \subseteq MainFiles /\ extFile \subseteq ExtFiles
  /\ at \in [Runs -> Places] /\ stub \in [Runs -> Stubs] /\ paged \in [Runs -> BOOLEAN]
  /\ cookie \in [Runs -> Nat] /\ extcookie \in [Runs -> 0 .. ids] /\ ext \in [Runs -> Nat]
  /\ main \in [Runs -> SUBSET Contents] /\ tmp \in [Runs -> SUBSET (MainFiles \cup ExtFiles)]

\* Where a process is tells what it has in memory.
Memory(p) ==
  /\ at[p] \in {"out", "open"} => cookie[p] = 0
  /\ Early(p) => main[p] = {}
  /\ at[p] = "notes" => extcookie[p] = 0 /\ stub[p] = "none" /\ ext[p] = 0 /\ main[p] # {} /\ ~paged[p]
  /\ main[p] = {} => ~paged[p] /\ extcookie[p] = 0 /\ stub[p] = "none" /\ ext[p] = 0
  /\ ext[p] # 0 <=> stub[p] = "available"
  /\ \A m, n \in main[p] : m = n
  /\ at[p] \in {"verify", "primary", "notes"} => kind # "system"
  /\ at[p] = "read" => kind = "system"
  /\ stub[p] = "stub" => kind # "system"

\* What it has is of the index it goes by, and nothing is newer than the server.
Dated(p) ==
  /\ cookie[p] <= server /\ \A m \in main[p] : m.version <= server
  /\ at[p] \in {"match", "verify", "primary", "notes", "read", "write", "rename"} => cookie[p] > 0
  /\ at[p] = "notes" => \A m \in main[p] : m.packages /\ m.version = cookie[p]
  /\ at[p] = "write" \/ paged[p] => cookie[p] > 0 /\ \A m \in main[p] : Whole(m, cookie[p])

\* What it writes.
Written(p) ==
  /\ tmp[p] \subseteq (IF at[p] = "rename" THEN MainFiles ELSE IF at[p] = "extrename" THEN ExtFiles ELSE {})
  /\ at[p] = "rename" =>
       /\ kind # "system" => extcookie[p] > 0
       /\ \A f \in tmp[p] : Whole(f.content, f.cookie) /\ f.content.version <= server

\* An external file is only fetched and written by processes that know their ext
\* cookie: one that was lost on the way finds that the server has gone on.
External(p) ==
  /\ at[p] = "extfetch" => stub[p] = "stub"
  /\ at[p] \in {"extwrite", "extrename"} => stub[p] = "available" /\ extcookie[p] > 0
  /\ at[p] = "extwrite" => \E m \in main[p] : ext[p] = m.version
  /\ at[p] \in {"run", "extfetch"} /\ stub[p] = "stub" /\ extcookie[p] = 0 => \A m \in main[p] : m.version < server

Local(p) == Memory(p) /\ Dated(p) /\ Written(p) /\ External(p)

FilesWhole == \A f \in mainFile : Whole(f.content, f.cookie) /\ f.content.version <= server

\* i is taken for the ext cookie of version v: by a file, or by a process.
InFile(i, v) ==
  \/ \E f \in mainFile : i = f.extcookie /\ v = f.content.version
  \/ \E f \in extFile : i = f.cookie /\ v = f.version

Holds(p, i, v) ==
  \/ i = extcookie[p] /\ i > 0 /\ \E m \in main[p] : v = m.version
  \/ at[p] = "rename" /\ \E f \in tmp[p] : i = f.extcookie /\ v = f.content.version
  \/ at[p] = "extrename" /\ \E f \in tmp[p] : i = f.cookie /\ v = f.version

Claimed(i, v) == InFile(i, v) \/ \E p \in Runs : Holds(p, i, v)

OneVersion == \A i, v, w \in Nat : Claimed(i, v) /\ Claimed(i, w) => v = w

Given == \A i, v \in Nat : Claimed(i, v) => i \in 1 .. ids

IInv ==
  /\ Types /\ FilesWhole
  /\ \A p \in Runs : Local(p)
  /\ kind # "system" => OneVersion /\ Given

----------------------------------------------------------------------------
(* What all actions have in common.                                        *)

\* A step that is not of p.
Same(p) ==
  /\ at'[p] = at[p] /\ cookie'[p] = cookie[p] /\ extcookie'[p] = extcookie[p] /\ main'[p] = main[p]
  /\ paged'[p] = paged[p] /\ stub'[p] = stub[p] /\ ext'[p] = ext[p] /\ tmp'[p] = tmp[p]

LEMMA Growing ==
  ASSUME ids \in Nat, ids' \in Nat, ids' >= ids
  PROVE  MainFiles \subseteq MainFiles' /\ ExtFiles \subseteq ExtFiles'
<1>1. 0 .. ids \subseteq 0 .. ids'
  OBVIOUS
<1> QED BY <1>1 DEF MainFiles, ExtFiles

LEMMA LocalStays ==
  ASSUME Types, NEW p \in Runs, Local(p), Same(p), kind' = kind,
         server' \in Nat, server' >= server, ids' \in Nat, ids' >= ids
  PROVE  Local(p)'
<1> USE DEF Same, Local
<1>1. Memory(p)'
  BY DEF Memory, Early
<1>2. Dated(p)'
  <2>1. cookie[p] \in Nat /\ main[p] \subseteq Contents /\ server \in Nat
    BY DEF Types, Versions
  <2>2. \A m \in Contents : m.version \in Nat
    BY DEF Contents, Versions
  <2> QED BY <2>1, <2>2 DEF Dated, Whole
<1>3. Written(p)'
  <2>1. MainFiles \subseteq MainFiles' /\ ExtFiles \subseteq ExtFiles'
    BY Growing DEF Types
  <2>2. \A f \in MainFiles : f.content.version \in Nat
    BY DEF MainFiles, Contents, Versions
  <2>3. server \in Nat
    BY DEF Types, Versions
  <2> QED BY <2>1, <2>2, <2>3 DEF Written, Whole
<1>4. External(p)'
  <2>1. server \in Nat /\ main[p] \subseteq Contents
    BY DEF Types, Versions
  <2>2. \A m \in Contents : m.version \in Nat
    BY DEF Contents, Versions
  <2> QED BY <2>1, <2>2 DEF External
<1> QED BY <1>1, <1>2, <1>3, <1>4

LEMMA Preserved ==
  ASSUME IInv, Types', FilesWhole', kind' = kind, server' >= server, ids' >= ids,
         \A q \in Runs : Same(q) \/ Local(q)',
         kind # "system" => OneVersion' /\ Given'
  PROVE  IInv'
<1>1. server' \in Nat /\ ids' \in Nat
  BY DEF Types, Versions
<1>2. \A q \in Runs : Local(q)'
  BY <1>1, LocalStays DEF IInv
<1> QED BY <1>2 DEF IInv

\* No new claims.
LEMMA ClaimsStay ==
  ASSUME IInv, ids' \in Nat, ids' >= ids,
         \A q \in Runs : Same(q) \/ \A i, v \in Nat : Holds(q, i, v)' => Claimed(i, v),
         \A i, v \in Nat : InFile(i, v)' => Claimed(i, v)
  PROVE  kind # "system" => OneVersion' /\ Given'
<1>1. \A q \in Runs : Same(q) => \A i, v \in Nat : Holds(q, i, v)' => Claimed(i, v)
  BY DEF Same, Holds, Claimed
<1>2. \A i, v \in Nat : Claimed(i, v)' => Claimed(i, v)
  BY <1>1 DEF Claimed
<1> QED BY <1>2 DEF IInv, Types, OneVersion, Given

\* A step of p that leaves the files, and what the server has, alone.
LEMMA StepKeeps ==
  ASSUME IInv, NEW p \in Runs, UNCHANGED <<kind, server, mainFile, extFile, ids>>, Types', Local(p)',
         \A q \in Runs \ {p} : Same(q),
         \A i, v \in Nat : Holds(p, i, v)' => Claimed(i, v)
  PROVE  IInv'
<1>1. FilesWhole'
  BY DEF IInv, FilesWhole, Whole
<1>2. \A i, v \in Nat : InFile(i, v)' => Claimed(i, v)
  BY DEF InFile, Claimed
<1>3. server' >= server /\ ids' >= ids /\ ids' \in Nat
  BY DEF IInv, Types, Versions
<1>4. kind # "system" => OneVersion' /\ Given'
  BY <1>2, <1>3, ClaimsStay
<1> QED BY <1>1, <1>3, <1>4, Preserved

----------------------------------------------------------------------------

LEMMA InitHolds == Init => IInv
<1> SUFFICES ASSUME Init PROVE IInv
  OBVIOUS
<1>1. Types
  <2>1. server \in Versions /\ ids \in Nat
    BY CacheAssumption DEF Init, Versions
  <2>2. mainFile \subseteq MainFiles /\ extFile \subseteq ExtFiles
    BY DEF Init
  <2>3. at \in [Runs -> Places] /\ stub \in [Runs -> Stubs] /\ paged \in [Runs -> BOOLEAN]
    BY DEF Init, Places, Stubs
  <2>4. cookie \in [Runs -> Nat] /\ extcookie \in [Runs -> 0 .. ids] /\ ext \in [Runs -> Nat]
    BY DEF Init
  <2>5. main \in [Runs -> SUBSET Contents] /\ tmp \in [Runs -> SUBSET (MainFiles \cup ExtFiles)]
    BY DEF Init
  <2> QED
    BY <2>1, <2>2, <2>3, <2>4, <2>5 DEF Types
<1>2. FilesWhole
  BY DEF Init, FilesWhole
<1>3. ASSUME NEW p \in Runs PROVE Local(p)
  BY <1>3, CacheAssumption DEF Init, Local, Memory, Dated, Written, External, Early
<1>4. \A i, v : ~Claimed(i, v)
  BY DEF Init, Claimed, InFile, Holds
<1> QED BY <1>1, <1>2, <1>3, <1>4 DEF IInv, OneVersion, Given

----------------------------------------------------------------------------
(* The server, and processes that come and go.                             *)

LEMMA PublishKeeps == IInv /\ Publish => IInv'
<1> SUFFICES ASSUME IInv, Publish PROVE IInv'
  OBVIOUS
<1>1. server' = server + 1 /\ server \in Nat /\ server' \in Versions
  BY CacheAssumption DEF Publish, IInv, Types, Versions
<1>2. Types'
  BY <1>1 DEF Publish, IInv, Types, memory, MainFiles, ExtFiles
<1>3. FilesWhole'
  <2>1. \A f \in MainFiles : f.content.version \in Nat
    BY DEF MainFiles, Contents, Versions
  <2> QED BY <1>1, <2>1 DEF Publish, IInv, Types, FilesWhole, Whole, memory
<1>4. \A q \in Runs : Same(q)
  BY DEF Publish, Same, memory
<1>5. \A i, v \in Nat : InFile(i, v)' => Claimed(i, v)
  BY DEF Publish, InFile, Claimed
<1> QED BY <1>1, <1>2, <1>3, <1>4, <1>5, Preserved, ClaimsStay DEF Publish, IInv, Types

LEMMA BeginKeeps == ASSUME NEW p \in Runs PROVE IInv /\ Begin(p) => IInv'
<1> SUFFICES ASSUME IInv, Begin(p) PROVE IInv'
  OBVIOUS
<1>1. PICK place \in {"index", "open"} : at' = [at EXCEPT ![p] = place]
  BY DEF Begin, Set
<1>2. at[p] = "out" /\ at'[p] = place
  BY <1>1 DEF Begin, IInv, Types
<1>3. Types'
  BY <1>1 DEF Begin, memory, IInv, Types, Places, MainFiles, ExtFiles
<1>4. \A q \in Runs \ {p} : Same(q)
  BY <1>1 DEF Begin, memory, Same, IInv, Types
<1>5. Local(p)'
  BY <1>2 DEF Begin, memory, IInv, Local, Memory, Early, Dated, Written, External, Whole
<1>6. \A i, v \in Nat : Holds(p, i, v)' => Claimed(i, v)
  BY <1>2 DEF Begin, memory, Holds, Claimed
<1> QED BY <1>3, <1>4, <1>5, <1>6, StepKeeps DEF Begin

LEMMA LeaveKeeps == ASSUME NEW p \in Runs PROVE IInv /\ Leave(p) => IInv'
<1> SUFFICES ASSUME IInv, Leave(p) PROVE IInv'
  OBVIOUS
<1>1. /\ at'[p] = "out" /\ cookie'[p] = 0 /\ extcookie'[p] = 0 /\ main'[p] = {} /\ paged'[p] = FALSE
      /\ stub'[p] = "none" /\ ext'[p] = 0 /\ tmp'[p] = {}
  BY DEF Leave, Goto, Set, IInv, Types
<1>2. Types'
  BY DEF Leave, Goto, Set, shared, IInv, Types, Places, Stubs, MainFiles, ExtFiles
<1>3. \A q \in Runs \ {p} : Same(q)
  BY DEF Leave, Goto, Set, Same, IInv, Types
<1>4. Local(p)'
  BY <1>1, <1>2 DEF Local, Memory, Early, Dated, Written, External, Types, Versions
<1>5. \A i, v \in Nat : Holds(p, i, v)' => Claimed(i, v)
  BY <1>1 DEF Holds
<1> QED BY <1>2, <1>3, <1>4, <1>5, StepKeeps DEF Leave, shared

LEMMA PowerFailsKeeps == IInv /\ PowerFails => IInv'
<1> SUFFICES ASSUME IInv, PowerFails PROVE IInv'
  OBVIOUS
<1>1. \A f \in mainFile'  :
        f \in MainFiles /\ \E g \in mainFile : f.cookie = g.cookie /\ f.extcookie = g.extcookie /\ f.content = g.content
  <2> DEFINE lost(f) == [f EXCEPT !.sound = FALSE]
  <2>1. \A f \in MainFiles : /\ lost(f) \in MainFiles /\ lost(f).cookie = f.cookie
                           /\ lost(f).extcookie = f.extcookie /\ lost(f).content = f.content
    BY DEF MainFiles
  <2>2. mainFile \subseteq MainFiles /\ mainFile' \in {mainFile, {lost(f) : f \in mainFile}}
    BY DEF PowerFails, IInv, Types
  <2> HIDE DEF lost
  <2> QED BY <2>1, <2>2
<1>2. \A f \in extFile' : f \in ExtFiles /\ \E g \in extFile : f.cookie = g.cookie /\ f.version = g.version
  <2> DEFINE lost(f) == [f EXCEPT !.sound = FALSE]
  <2>1. \A f \in ExtFiles : lost(f) \in ExtFiles /\ lost(f).cookie = f.cookie /\ lost(f).version = f.version
    BY DEF ExtFiles
  <2>2. extFile \subseteq ExtFiles /\ extFile' \in {extFile, {lost(f) : f \in extFile}}
    BY DEF PowerFails, IInv, Types
  <2> HIDE DEF lost
  <2> QED BY <2>1, <2>2
<1>3. Types'
  BY <1>1, <1>2 DEF PowerFails, memory, IInv, Types, MainFiles, ExtFiles
<1>4. FilesWhole'
  BY <1>1 DEF PowerFails, memory, IInv, FilesWhole, Whole
<1>5. \A q \in Runs : Same(q)
  BY DEF PowerFails, Same, memory
<1>6. \A i, v \in Nat : InFile(i, v)' => Claimed(i, v)
  BY <1>1, <1>2 DEF InFile, Claimed
<1> QED BY <1>3, <1>4, <1>5, <1>6, Preserved, ClaimsStay DEF PowerFails, IInv, Types, Versions

----------------------------------------------------------------------------
(* The main file.                                                          *)

LEMMA TakeKeeps ==
  ASSUME IInv, NEW p \in Runs, NEW f \in mainFile, at[p] \in {"open", "match"}, Take(p, f)
  PROVE  IInv'
<1>1. /\ at'[p] = "run" /\ cookie'[p] = f.cookie /\ extcookie'[p] = f.extcookie /\ main'[p] = {f.content}
      /\ paged'[p] = TRUE /\ stub'[p] = (IF kind = "system" THEN "none" ELSE "stub")
      /\ ext'[p] = ext[p] /\ tmp'[p] = tmp[p]
  BY DEF Take, Goto, Set, IInv, Types
<1>2. /\ f \in MainFiles /\ f.cookie \in Versions /\ f.extcookie \in 0 .. ids /\ f.content \in Contents
  BY DEF IInv, Types, MainFiles
<1>3. Types'
  BY <1>2 DEF Take, Goto, Set, shared, IInv, Types, Places, Stubs, MainFiles, ExtFiles, Versions
<1>4. \A q \in Runs \ {p} : Same(q)
  BY DEF Take, Goto, Set, Same, IInv, Types
<1>5. Local(p)'
  <2>1. Memory(p)'
    BY <1>1 DEF IInv, Local, Memory, Early, Take, shared
  <2>2. Dated(p)'
    <3>1. Whole(f.content, f.cookie) /\ f.content.version <= server
      BY DEF IInv, FilesWhole
    <3>2. f.content.version \in Nat /\ f.cookie \in Nat /\ f.cookie > 0 /\ server \in Nat
      BY <1>2 DEF Contents, Versions, IInv, Types
    <3>3. f.cookie <= server
      BY <3>1, <3>2 DEF Whole
    <3> QED BY <1>1, <3>1, <3>2, <3>3 DEF Dated, Whole, Take, shared
  <2>3. Written(p)'
    BY <1>1 DEF IInv, Local, Written
  <2>4. External(p)'
    <3>1. kind # "system" => f.extcookie # 0
      BY <1>2 DEF IInv, Given, Claimed, InFile, Types, Contents, Versions
    <3> QED BY <1>1, <3>1 DEF External, Take, shared
  <2> QED BY <2>1, <2>2, <2>3, <2>4 DEF Local
<1>6. \A i, v \in Nat : Holds(p, i, v)' => Claimed(i, v)
  BY <1>1 DEF Holds, Claimed, InFile
<1> QED BY <1>3, <1>4, <1>5, <1>6, StepKeeps DEF Take, shared

LEMMA UseCachedKeeps == ASSUME NEW p \in Runs PROVE IInv /\ UseCached(p) => IInv'
<1> SUFFICES ASSUME IInv, UseCached(p) PROVE IInv'
  OBVIOUS
<1>1. CASE \E f \in Usable(0) : Take(p, f)
  BY <1>1, TakeKeeps DEF UseCached, Usable
<1>2. CASE Goto(p, "index") /\ UNCHANGED <<shared, memory>>
  <2>1. at[p] = "open" /\ at'[p] = "index"
    BY <1>2 DEF UseCached, Goto, IInv, Types
  <2>2. Types'
    BY <1>2 DEF Goto, shared, memory, IInv, Types, Places, MainFiles, ExtFiles
  <2>3. \A q \in Runs \ {p} : Same(q)
    BY <1>2 DEF Goto, memory, Same, IInv, Types
  <2>4. Local(p)'
    BY <1>2, <2>1 DEF shared, memory, IInv, Local, Memory, Early, Dated, Written, External, Whole
  <2>5. \A i, v \in Nat : Holds(p, i, v)' => Claimed(i, v)
    BY <1>2, <2>1 DEF memory, Holds, Claimed
  <2> QED BY <1>2, <2>2, <2>3, <2>4, <2>5, StepKeeps DEF shared
<1> QED BY <1>1, <1>2 DEF UseCached

LEMMA FetchIndexKeeps == ASSUME NEW p \in Runs PROVE IInv /\ FetchIndex(p) => IInv'
<1> SUFFICES ASSUME IInv, FetchIndex(p) PROVE IInv'
  OBVIOUS
<1>1. /\ at[p] = "index"
      /\ \/ at'[p] = "match" /\ cookie'[p] = server
         \/ at'[p] = "end" /\ cookie'[p] = cookie[p]
  BY DEF FetchIndex, Goto, Set, IInv, Types
<1>2. Types'
  <2>1. server \in Nat
    BY DEF IInv, Types, Versions
  <2> QED BY <2>1 DEF FetchIndex, Goto, Set, shared, IInv, Types, Places, MainFiles, ExtFiles
<1>3. \A q \in Runs \ {p} : Same(q)
  BY DEF FetchIndex, Goto, Set, Same, IInv, Types
<1>4. Local(p)'
  BY <1>1 DEF FetchIndex, shared, IInv, Types, Versions, Local, Memory, Early, Dated, Written, External, Whole
<1>5. \A i, v \in Nat : Holds(p, i, v)' => Claimed(i, v)
  BY <1>1 DEF FetchIndex, Holds, Claimed
<1> QED BY <1>2, <1>3, <1>4, <1>5, StepKeeps DEF FetchIndex, shared

LEMMA UseMatchingKeeps == ASSUME NEW p \in Runs PROVE IInv /\ UseMatching(p) => IInv'
<1> SUFFICES ASSUME IInv, UseMatching(p) PROVE IInv'
  OBVIOUS
<1>1. CASE \E f \in Usable(cookie[p]) : Take(p, f)
  BY <1>1, TakeKeeps DEF UseMatching, Usable
<1>2. CASE Goto(p, IF kind = "system" THEN "read" ELSE "verify") /\ UNCHANGED <<shared, memory>>
  <2>1. at[p] = "match" /\ at'[p] = IF kind = "system" THEN "read" ELSE "verify"
    BY <1>2 DEF UseMatching, Goto, IInv, Types
  <2>2. Types'
    BY <1>2 DEF Goto, shared, memory, IInv, Types, Places, MainFiles, ExtFiles
  <2>3. \A q \in Runs \ {p} : Same(q)
    BY <1>2 DEF Goto, memory, Same, IInv, Types
  <2>4. Local(p)'
    BY <1>2, <2>1 DEF shared, memory, IInv, Local, Memory, Early, Dated, Written, External, Whole
  <2>5. \A i, v \in Nat : Holds(p, i, v)' => Claimed(i, v)
    BY <1>2, <2>1 DEF memory, Holds, Claimed
  <2> QED BY <1>2, <2>2, <2>3, <2>4, <2>5, StepKeeps DEF shared
<1> QED BY <1>1, <1>2 DEF UseMatching

LEMMA CheckSigKeeps == ASSUME NEW p \in Runs PROVE IInv /\ CheckSig(p) => IInv'
<1> SUFFICES ASSUME IInv, CheckSig(p) PROVE IInv'
  OBVIOUS
<1>1. PICK place \in {"primary", "end"} : Goto(p, place)
  BY DEF CheckSig
<1>2. at[p] = "verify" /\ at'[p] = place
  BY <1>1 DEF CheckSig, Goto, IInv, Types
<1>3. Types'
  BY <1>1 DEF CheckSig, Goto, shared, memory, IInv, Types, Places, MainFiles, ExtFiles
<1>4. \A q \in Runs \ {p} : Same(q)
  BY <1>1 DEF CheckSig, Goto, memory, Same, IInv, Types
<1>5. Local(p)'
  BY <1>2 DEF CheckSig, shared, memory, IInv, Local, Memory, Early, Dated, Written, External, Whole
<1>6. \A i, v \in Nat : Holds(p, i, v)' => Claimed(i, v)
  BY <1>2 DEF CheckSig, memory, Holds, Claimed
<1> QED BY <1>3, <1>4, <1>5, <1>6, StepKeeps DEF CheckSig, shared

LEMMA ReadSystemKeeps == ASSUME NEW p \in Runs PROVE IInv /\ ReadSystem(p) => IInv'
<1> SUFFICES ASSUME IInv, ReadSystem(p) PROVE IInv'
  OBVIOUS
<1> DEFINE m == Content(server, TRUE, TRUE)
<1>1. m \in Contents /\ m.version = server /\ m.packages /\ m.notes /\ server \in Nat
  BY DEF Content, Contents, IInv, Types, Versions
<1>2. at[p] = "read" /\ at'[p] = "write" /\ main'[p] = {m}
  BY DEF ReadSystem, Goto, Set, IInv, Types
<1> HIDE DEF m
<1>3. Types'
  BY <1>1 DEF ReadSystem, Goto, Set, shared, IInv, Types, Places, MainFiles, ExtFiles, m
<1>4. \A q \in Runs \ {p} : Same(q)
  BY DEF ReadSystem, Goto, Set, Same, IInv, Types
<1>5. Local(p)'
  <2>1. cookie[p] \in Nat
    BY DEF IInv, Types
  <2>2. Local(p) /\ kind = "system" /\ main[p] = {}
    BY <1>2 DEF IInv, Local, Memory, Early
  <2>3. Memory(p)'
    BY <1>2, <2>2 DEF ReadSystem, shared, Local, Memory, Early
  <2>4. Dated(p)'
    <3>1. server' = server /\ cookie'[p] = cookie[p] /\ kind' = kind
      BY DEF ReadSystem, shared
    <3>2. cookie[p] <= server /\ cookie[p] > 0
      BY <1>2, <2>2 DEF Local, Dated
    <3>3. Whole(m, cookie[p])
      BY <1>1, <2>2, <3>2 DEF Whole
    <3> QED BY <1>1, <1>2, <3>1, <3>2, <3>3 DEF Dated, Whole
  <2>5. Written(p)' /\ External(p)'
    BY <1>2, <2>2 DEF ReadSystem, shared, Local, Written, External
  <2> QED BY <2>3, <2>4, <2>5 DEF Local
<1>6. \A i, v \in Nat : Holds(p, i, v)' => Claimed(i, v)
  BY <1>2 DEF ReadSystem, Holds, Claimed, IInv, Local, Memory, Early
<1> QED BY <1>3, <1>4, <1>5, <1>6, StepKeeps DEF ReadSystem, shared

LEMMA FetchPrimaryKeeps == ASSUME NoGap, NEW p \in Runs PROVE IInv /\ FetchPrimary(p) => IInv'
<1> SUFFICES ASSUME IInv, FetchPrimary(p) PROVE IInv'
  OBVIOUS
<1>1. cookie[p] \in Versions
  <2>1. at[p] = "primary" /\ Dated(p) /\ cookie[p] \in Nat /\ server \in 1 .. MaxVersion
    BY DEF FetchPrimary, IInv, Types, Local, Versions
  <2> QED BY <2>1, CacheAssumption DEF Dated, Versions
<1>2. PICK packages \in BOOLEAN :
        /\ main' = Set(main, p, {Content(cookie[p], packages, FALSE)})
        /\ Goto(p, IF packages THEN "notes" ELSE "end")
  BY DEF FetchPrimary, NoGap
<1> DEFINE m == Content(cookie[p], packages, FALSE)
<1>3. m \in Contents /\ m.version = cookie[p] /\ m.packages = packages
  BY <1>1 DEF Content, Contents
<1>4. at[p] = "primary" /\ at'[p] = (IF packages THEN "notes" ELSE "end") /\ main'[p] = {m}
  BY <1>2 DEF FetchPrimary, Goto, Set, IInv, Types
<1> HIDE DEF m
<1>5. Types'
  BY <1>2, <1>3 DEF FetchPrimary, Goto, Set, shared, IInv, Types, Places, MainFiles, ExtFiles, m
<1>6. \A q \in Runs \ {p} : Same(q)
  BY <1>2 DEF FetchPrimary, Goto, Set, Same, IInv, Types
<1>7. Local(p)'
  BY <1>3, <1>4 DEF FetchPrimary, shared, IInv, Local, Memory, Early, Dated, Written, External, Whole
<1>8. \A i, v \in Nat : Holds(p, i, v)' => Claimed(i, v)
  BY <1>4 DEF FetchPrimary, Holds, Claimed, IInv, Local, Memory, Early
<1> QED BY <1>5, <1>6, <1>7, <1>8, StepKeeps DEF FetchPrimary, shared

LEMMA FetchNotesKeeps == ASSUME NoGap, NEW p \in Runs PROVE IInv /\ FetchNotes(p) => IInv'
<1> SUFFICES ASSUME IInv, FetchNotes(p) PROVE IInv'
  OBVIOUS
<1>1. PICK m \in Contents : main[p] = {m} /\ m.version = cookie[p] /\ m.packages
  BY DEF FetchNotes, IInv, Types, Local, Memory, Dated
<1> DEFINE n == [m EXCEPT !.notes = TRUE]
<1>2. n \in Contents /\ n.version = m.version /\ n.packages = m.packages /\ n.notes
  BY DEF Contents
<1>3. \/ Fetched(cookie[p]) /\ Goto(p, "write") /\ main' = Set(main, p, {n})
      \/ cookie[p] # server /\ Goto(p, "run") /\ UNCHANGED main
  BY <1>1 DEF FetchNotes, Fails, NoGap
<1> HIDE DEF n
<1>4. /\ at[p] = "notes" /\ stub'[p] = "stub"
      /\ \/ at'[p] = "write" /\ main'[p] = {n}
         \/ cookie[p] # server /\ at'[p] = "run" /\ main'[p] = {m}
  BY <1>1, <1>3 DEF FetchNotes, Goto, Set, IInv, Types
<1>5. Types'
  BY <1>2, <1>3 DEF FetchNotes, Goto, Set, shared, IInv, Types, Places, Stubs, MainFiles, ExtFiles
<1>6. \A q \in Runs \ {p} : Same(q)
  BY <1>3 DEF FetchNotes, Goto, Set, Same, IInv, Types
<1>7. Local(p)'
  <2>1. cookie[p] \in Nat /\ server \in Nat
    BY DEF IInv, Types, Versions
  <2>2. Local(p) /\ kind # "system"
    BY <1>4 DEF IInv, Local, Memory
  <2>3. Memory(p)'
    BY <1>1, <1>4, <2>2 DEF FetchNotes, shared, Local, Memory, Early
  <2>4. Dated(p)'
    BY <1>1, <1>2, <1>4, <2>1, <2>2 DEF FetchNotes, shared, Local, Dated, Memory, Whole
  <2>5. Written(p)'
    BY <1>4, <2>2 DEF FetchNotes, shared, Local, Written
  <2>6. External(p)'
    BY <1>1, <1>4, <2>1, <2>2 DEF FetchNotes, shared, Local, Dated, External
  <2> QED BY <2>3, <2>4, <2>5, <2>6 DEF Local
<1>8. \A i, v \in Nat : Holds(p, i, v)' => Claimed(i, v)
  BY <1>4 DEF FetchNotes, Holds, Claimed, IInv, Local, Memory
<1> QED BY <1>5, <1>6, <1>7, <1>8, StepKeeps DEF FetchNotes, shared

----------------------------------------------------------------------------
(* Writing it.                                                             *)

\* The process names the version it has with the id it gives it: a new one, or
\* the one it has.
LEMMA WriteKeeps ==
  ASSUME NoGap, IInv, NEW p \in Runs, NEW m \in Contents, NEW n \in Contents,
         at[p] = "write" \/ (at[p] = "run" /\ paged[p]),
         main[p] = {n}, m.version = n.version, m.packages = n.packages, m.notes = n.notes,
         Write(p, m)
  PROVE  IInv'
<1> DEFINE e == ExtCookie(p)
           f == [cookie |-> cookie[p], extcookie |-> e, content |-> m, sound |-> TRUE]
<1>1. cookie[p] \in Versions /\ Whole(m, cookie[p]) /\ m.version <= server
  <2>1. Local(p) /\ cookie[p] \in Nat /\ server \in 1 .. MaxVersion
    BY DEF IInv, Types, Versions
  <2> QED BY <2>1, CacheAssumption DEF Local, Dated, Whole, Versions
<1>2. /\ e \in Nat /\ ids' \in Nat /\ ids' >= ids /\ e <= ids'
      /\ kind # "system" => e > 0 /\ (e = extcookie[p] \/ e = ids + 1)
  <2>1. ids' = (IF e > ids THEN e ELSE ids) /\ ids \in Nat /\ extcookie[p] \in 0 .. ids
    BY DEF Write, Marked, IInv, Types, NoGap
  <2>2. e = IF kind = "system" THEN 0 ELSE IF extcookie[p] = 0 THEN ids + 1 ELSE extcookie[p]
    BY DEF ExtCookie
  <2> HIDE DEF e
  <2> QED BY <2>1, <2>2
<1> HIDE DEF e
<1>3. MainFiles \subseteq MainFiles' /\ ExtFiles \subseteq ExtFiles'
  BY <1>2, Growing DEF IInv, Types
<1>4. f \in MainFiles'
  BY <1>1, <1>2 DEF MainFiles
<1>5. f.cookie = cookie[p] /\ f.extcookie = e /\ f.content = m
  OBVIOUS
<1> HIDE DEF f
<1>6. /\ main' = [main EXCEPT ![p] = {m}] /\ tmp' = [tmp EXCEPT ![p] = {f}]
      /\ extcookie' = [extcookie EXCEPT ![p] = e] /\ at' = [at EXCEPT ![p] = "rename"]
      /\ paged' \in {[paged EXCEPT ![p] = TRUE], paged}
      /\ UNCHANGED <<kind, server, mainFile, extFile, starts, cookie, stub, ext>>
  BY DEF Write, Marked, Goto, Set, NoGap, e, f
<1>7. Types'
  <2>1. extcookie \in [Runs -> 0 .. ids'] /\ e \in 0 .. ids'
    BY <1>2 DEF IInv, Types
  <2>2. tmp \in [Runs -> SUBSET (MainFiles' \cup ExtFiles')]
    BY <1>3 DEF IInv, Types
  <2>3. mainFile' \subseteq MainFiles' /\ extFile' \subseteq ExtFiles'
    BY <1>3, <1>6 DEF IInv, Types
  <2>4. extcookie' \in [Runs -> 0 .. ids'] /\ tmp' \in [Runs -> SUBSET (MainFiles' \cup ExtFiles')]
    BY <1>4, <1>6, <2>1, <2>2
  <2>5. at' \in [Runs -> Places] /\ main' \in [Runs -> SUBSET Contents] /\ paged' \in [Runs -> BOOLEAN]
    BY <1>6 DEF IInv, Types, Places
  <2> QED BY <1>2, <1>6, <2>3, <2>4, <2>5 DEF IInv, Types, Versions, Contents
<1>8. /\ main'[p] = {m} /\ tmp'[p] = {f} /\ extcookie'[p] = e /\ at'[p] = "rename" /\ paged'[p] \in {TRUE, paged[p]}
      /\ \A q \in Runs \ {p} : Same(q)
  BY <1>6 DEF IInv, Types, Same
<1>9. FilesWhole'
  BY <1>6 DEF IInv, FilesWhole, Whole
<1>10. Local(p)'
  <2>1. Local(p)
    BY DEF IInv
  <2>2. Memory(p)'
    BY <1>6, <1>8, <2>1 DEF Local, Memory, Early
  <2>3. Dated(p)'
    <3>1. cookie[p] <= server /\ cookie[p] > 0
      BY <1>1, <2>1 DEF Local, Dated, Versions
    <3> QED BY <1>1, <1>6, <1>8, <3>1 DEF Dated, Whole
  <2>4. Written(p)'
    BY <1>1, <1>2, <1>4, <1>5, <1>6, <1>8 DEF Written, Whole
  <2>5. External(p)'
    BY <1>8 DEF External
  <2> QED BY <2>2, <2>3, <2>4, <2>5 DEF Local
<1>11. ASSUME kind # "system" PROVE OneVersion' /\ Given'
  <2>1. OneVersion /\ Given
    BY <1>11 DEF IInv
  <2>2. \A i, v \in Nat : InFile(i, v)' => Claimed(i, v)
    BY <1>6 DEF InFile, Claimed
  <2>3. \A q \in Runs \ {p}, i, v \in Nat : Holds(q, i, v)' => Claimed(i, v)
    BY <1>8 DEF Same, Holds, Claimed
  <2>4. \A i, v \in Nat : Holds(p, i, v)' => i = e /\ v = n.version
    BY <1>5, <1>8 DEF Holds
  <2>5. \A i, v \in Nat : Claimed(i, v)' => Claimed(i, v) \/ (i = e /\ v = n.version)
    BY <2>2, <2>3, <2>4 DEF Claimed
  <2>6. ids \in Nat /\ e \in Nat /\ n.version \in Nat /\ e > 0
    BY <1>2, <1>11 DEF IInv, Types, Contents, Versions
  <2>7. CASE e = ids + 1
    <3>1. \A v \in Nat : ~Claimed(e, v)
      BY <2>1, <2>6, <2>7 DEF Given
    <3>2. OneVersion'
      BY <2>1, <2>5, <3>1 DEF OneVersion
    <3>3. Given'
      BY <1>2, <2>1, <2>5, <2>6 DEF Given
    <3> QED BY <3>2, <3>3
  <2>8. CASE e = extcookie[p]
    <3>1. Claimed(e, n.version)
      BY <2>6, <2>8 DEF Claimed, Holds
    <3>2. \A i, v \in Nat : Claimed(i, v)' => Claimed(i, v)
      BY <2>5, <3>1
    <3>3. OneVersion'
      BY <2>1, <3>2 DEF OneVersion
    <3>4. Given'
      BY <1>2, <2>1, <2>6, <3>2 DEF Given
    <3> QED BY <3>3, <3>4
  <2> QED BY <1>2, <1>11, <2>7, <2>8
<1> QED BY <1>2, <1>6, <1>7, <1>8, <1>9, <1>10, <1>11, Preserved DEF IInv, Types, Versions

LEMMA WriteMainKeeps == ASSUME NoGap, NEW p \in Runs PROVE IInv /\ WriteMain(p) => IInv'
<1> SUFFICES ASSUME IInv, WriteMain(p) PROVE IInv'
  OBVIOUS
<1>1. at[p] = "write" /\ \E m \in main[p] : Write(p, m)
  BY DEF WriteMain
<1>2. main[p] \subseteq Contents /\ \A m, n \in main[p] : m = n
  BY DEF IInv, Types, Local, Memory
<1>3. PICK m \in Contents : main[p] = {m} /\ Write(p, m)
  BY <1>1, <1>2
<1>4. PICK n \in Contents : main[p] = {n} /\ m.version = n.version /\ m.packages = n.packages /\ m.notes = n.notes
  BY <1>3
<1>5. at[p] = "write" \/ (at[p] = "run" /\ paged[p])
  BY <1>1
<1> QED BY <1>3, <1>4, <1>5, WriteKeeps, Zenon

LEMMA RewriteKeeps == ASSUME NoGap, NEW p \in Runs PROVE IInv /\ Rewrite(p) => IInv'
<1> SUFFICES ASSUME IInv, Rewrite(p) PROVE IInv'
  OBVIOUS
<1> DEFINE with(m) == [m EXCEPT !.provides = TRUE]
<1>1. at[p] = "run" /\ paged[p] /\ \E m \in main[p] : Write(p, with(m))
  BY DEF Rewrite
<1>2. main[p] \subseteq Contents /\ \A m, n \in main[p] : m = n
  BY DEF IInv, Types, Local, Memory
<1>3. \A m \in Contents : /\ with(m) \in Contents /\ with(m).version = m.version
                         /\ with(m).packages = m.packages /\ with(m).notes = m.notes
  BY DEF Contents
<1> HIDE DEF with
<1>4. PICK m \in Contents : main[p] = {m} /\ Write(p, with(m))
  BY <1>1, <1>2
<1> QED BY <1>1, <1>3, <1>4, WriteKeeps

LEMMA RenameKeeps == ASSUME NEW p \in Runs PROVE IInv /\ Rename(p) => IInv'
<1> SUFFICES ASSUME IInv, Rename(p) PROVE IInv'
  OBVIOUS
<1>1. /\ at[p] = "rename" /\ at'[p] = "run" /\ tmp'[p] = {} /\ mainFile' \in {tmp[p], mainFile}
      /\ tmp' = [tmp EXCEPT ![p] = {}] /\ at' = [at EXCEPT ![p] = "run"]
      /\ UNCHANGED <<kind, server, extFile, ids, starts, cookie, extcookie, main, paged, stub, ext>>
  BY DEF Rename, Goto, Set, IInv, Types
<1>2. Local(p) /\ tmp[p] \subseteq MainFiles
  BY <1>1 DEF IInv, Local, Written
<1>3. Types'
  <2>1. mainFile' \subseteq MainFiles
    BY <1>1, <1>2 DEF IInv, Types
  <2> QED BY <1>1, <2>1 DEF IInv, Types, Places, MainFiles, ExtFiles
<1>4. FilesWhole'
  BY <1>1, <1>2 DEF IInv, FilesWhole, Whole, Local, Written
<1>5. \A q \in Runs \ {p} : Same(q)
  BY <1>1 DEF Same, IInv, Types
<1>6. Local(p)'
  <2>1. Memory(p)'
    BY <1>1, <1>2 DEF Local, Memory, Early
  <2>2. Dated(p)'
    BY <1>1, <1>2 DEF Local, Dated, Whole
  <2>3. Written(p)' /\ External(p)'
    BY <1>1, <1>2 DEF Local, Memory, Written, External
  <2> QED BY <2>1, <2>2, <2>3 DEF Local
<1>7. \A i, v \in Nat : InFile(i, v)' => Claimed(i, v)
  BY <1>1 DEF InFile, Claimed, Holds
<1>8. \A i, v \in Nat : Holds(p, i, v)' => Claimed(i, v)
  BY <1>1 DEF Holds, Claimed
<1>9. kind # "system" => OneVersion' /\ Given'
  BY <1>1, <1>5, <1>7, <1>8, ClaimsStay DEF IInv, Types
<1> QED BY <1>1, <1>3, <1>4, <1>5, <1>6, <1>9, Preserved DEF IInv, Types, Versions

----------------------------------------------------------------------------
(* The external file.                                                      *)

\* A cached external file with the ext cookie of the process has its version.
LEMMA ExtOfVersion ==
  ASSUME IInv, NEW p \in Runs, stub[p] = "stub", NEW f \in UsableExt(p)
  PROVE  f \in ExtFiles /\ extcookie[p] > 0 /\ \A m \in main[p] : f.version = m.version
<1>1. f \in ExtFiles /\ f \in extFile /\ f.cookie = extcookie[p] /\ f.version \in Nat /\ f.cookie \in Nat
  BY DEF IInv, Types, UsableExt, ExtFiles, Versions
<1>2. kind # "system" /\ main[p] \subseteq Contents
  BY DEF IInv, Types, Local, Memory
<1>3. Claimed(extcookie[p], f.version)
  BY <1>1 DEF Claimed, InFile
<1>4. extcookie[p] \in Nat /\ extcookie[p] > 0
  BY <1>1, <1>2, <1>3 DEF IInv, Given, Types
<1>5. \A m \in main[p] : m.version \in Nat /\ Claimed(extcookie[p], m.version)
  BY <1>2, <1>4 DEF Claimed, Holds, Contents, Versions
<1> QED BY <1>1, <1>2, <1>3, <1>4, <1>5 DEF IInv, OneVersion

LEMMA LoadExtKeeps == ASSUME NEW p \in Runs PROVE IInv /\ LoadExt(p) => IInv'
<1> SUFFICES ASSUME IInv, LoadExt(p) PROVE IInv'
  OBVIOUS
<1>1. Local(p) /\ at[p] = "run" /\ stub[p] = "stub" /\ kind # "system"
  BY DEF LoadExt, IInv, Local, Memory
<1>2. CASE \E f \in UsableExt(p) : ext' = Set(ext, p, f.version) /\ stub' = Set(stub, p, "available") /\ UNCHANGED at
  <2>1. PICK f \in UsableExt(p) : /\ ext' = [ext EXCEPT ![p] = f.version]
                                 /\ stub' = [stub EXCEPT ![p] = "available"] /\ UNCHANGED at
    BY <1>2 DEF Set
  <2>2. f.version \in Nat /\ f.version # 0
    BY <1>1, ExtOfVersion DEF ExtFiles, Versions
  <2>3. ext'[p] = f.version /\ stub'[p] = "available"
    BY <2>1 DEF IInv, Types
  <2>4. Types'
    BY <2>1, <2>2 DEF LoadExt, shared, IInv, Types, Stubs, MainFiles, ExtFiles
  <2>5. \A q \in Runs \ {p} : Same(q)
    BY <2>1 DEF LoadExt, Same, IInv, Types
  <2>6. Local(p)'
    <3>1. Memory(p)'
      BY <1>1, <2>1, <2>2, <2>3 DEF LoadExt, shared, Local, Memory, Early
    <3>2. Dated(p)' /\ Written(p)' /\ External(p)'
      BY <1>1, <2>1, <2>3 DEF LoadExt, shared, Local, Dated, Whole, Written, External
    <3> QED BY <3>1, <3>2 DEF Local
  <2>7. \A i, v \in Nat : Holds(p, i, v)' => Claimed(i, v)
    BY <1>1, <2>1 DEF LoadExt, Holds, Claimed
  <2> QED BY <2>4, <2>5, <2>6, <2>7, StepKeeps DEF LoadExt, shared
<1>3. CASE Goto(p, "extfetch") /\ UNCHANGED <<ext, stub>>
  <2>1. at' = [at EXCEPT ![p] = "extfetch"] /\ at'[p] = "extfetch"
    BY <1>3 DEF Goto, IInv, Types
  <2>2. Types'
    BY <1>3, <2>1 DEF LoadExt, shared, IInv, Types, Places, MainFiles, ExtFiles
  <2>3. \A q \in Runs \ {p} : Same(q)
    BY <1>3, <2>1 DEF LoadExt, Same, IInv, Types
  <2>4. Local(p)'
    BY <1>1, <1>3, <2>1 DEF LoadExt, shared, Local, Memory, Early, Dated, Whole, Written, External
  <2>5. \A i, v \in Nat : Holds(p, i, v)' => Claimed(i, v)
    BY <1>1, <2>1 DEF LoadExt, Holds, Claimed
  <2> QED BY <2>2, <2>3, <2>4, <2>5, StepKeeps DEF LoadExt, shared
<1> QED BY <1>2, <1>3 DEF LoadExt

LEMMA FetchExtKeeps == ASSUME NEW p \in Runs PROVE IInv /\ FetchExt(p) => IInv'
<1> SUFFICES ASSUME IInv, FetchExt(p) PROVE IInv'
  OBVIOUS
<1>1. Local(p) /\ at[p] = "extfetch" /\ stub[p] = "stub" /\ main[p] \subseteq Contents /\ extcookie[p] \in Nat
  BY DEF FetchExt, IInv, Types, Local, External
<1>2. CASE /\ \E m \in main[p] : Fetched(m.version) /\ ext' = Set(ext, p, m.version)
           /\ stub' = Set(stub, p, "available") /\ Goto(p, "extwrite")
  <2>1. PICK m \in main[p] : Fetched(m.version) /\ ext' = [ext EXCEPT ![p] = m.version]
    BY <1>2 DEF Set
  <2>2. m.version \in Nat /\ m.version # 0
    BY <1>1 DEF Contents, Versions
  <2>3. extcookie[p] > 0
    BY <1>1, <2>1, <2>2 DEF Local, External, Fetched
  <2>4. ext'[p] = m.version /\ stub'[p] = "available" /\ at'[p] = "extwrite"
    BY <1>2, <2>1 DEF Goto, Set, IInv, Types
  <2>5. Types'
    BY <1>2, <2>1, <2>2 DEF FetchExt, Goto, Set, shared, IInv, Types, Stubs, Places, MainFiles, ExtFiles
  <2>6. \A q \in Runs \ {p} : Same(q)
    BY <1>2, <2>1 DEF FetchExt, Goto, Set, Same, IInv, Types
  <2>7. Local(p)'
    <3>1. Memory(p)'
      BY <1>1, <2>2, <2>4 DEF FetchExt, shared, Local, Memory, Early
    <3>2. Dated(p)' /\ Written(p)' /\ External(p)'
      BY <1>1, <2>3, <2>4 DEF FetchExt, shared, Local, Dated, Whole, Written, External
    <3> QED BY <3>1, <3>2 DEF Local
  <2>8. \A i, v \in Nat : Holds(p, i, v)' => Claimed(i, v)
    BY <2>4 DEF FetchExt, Holds, Claimed
  <2> QED BY <2>5, <2>6, <2>7, <2>8, StepKeeps DEF FetchExt, shared
<1>3. CASE stub' = Set(stub, p, "error") /\ Goto(p, "run") /\ UNCHANGED ext
  <2>1. stub'[p] = "error" /\ at'[p] = "run"
    BY <1>3 DEF Goto, Set, IInv, Types
  <2>2. Types'
    BY <1>3 DEF FetchExt, Goto, Set, shared, IInv, Types, Stubs, Places, MainFiles, ExtFiles
  <2>3. \A q \in Runs \ {p} : Same(q)
    BY <1>3 DEF FetchExt, Goto, Set, Same, IInv, Types
  <2>4. Local(p)'
    BY <1>1, <1>3, <2>1 DEF FetchExt, shared, Local, Memory, Early, Dated, Whole, Written, External
  <2>5. \A i, v \in Nat : Holds(p, i, v)' => Claimed(i, v)
    BY <2>1 DEF FetchExt, Holds, Claimed
  <2> QED BY <2>2, <2>3, <2>4, <2>5, StepKeeps DEF FetchExt, shared
<1> QED BY <1>2, <1>3 DEF FetchExt

LEMMA WriteExtKeeps == ASSUME NEW p \in Runs PROVE IInv /\ WriteExt(p) => IInv'
<1> SUFFICES ASSUME IInv, WriteExt(p) PROVE IInv'
  OBVIOUS
<1>1. /\ Local(p) /\ at[p] = "extwrite" /\ stub[p] = "available" /\ extcookie[p] \in 0 .. ids /\ extcookie[p] > 0
      /\ main[p] \subseteq Contents
  BY DEF WriteExt, IInv, Types, Local, External
<1>2. PICK m \in main[p] : ext[p] = m.version
  BY <1>1 DEF Local, External
<1> DEFINE f == [cookie |-> extcookie[p], version |-> ext[p], sound |-> TRUE]
<1>3. f \in ExtFiles /\ f.cookie = extcookie[p] /\ f.version = m.version
  BY <1>1, <1>2 DEF ExtFiles, Contents
<1> HIDE DEF f
<1>4. \/ tmp' = [tmp EXCEPT ![p] = {f}] /\ at' = [at EXCEPT ![p] = "extrename"]
      \/ UNCHANGED tmp /\ at' = [at EXCEPT ![p] = "run"]
  BY DEF WriteExt, Goto, Set, f
<1>5. \/ tmp'[p] = {f} /\ at'[p] = "extrename"
      \/ tmp'[p] = tmp[p] /\ at'[p] = "run"
  BY <1>4 DEF IInv, Types
<1>6. Types'
  BY <1>3, <1>4 DEF WriteExt, shared, IInv, Types, Places, MainFiles, ExtFiles
<1>7. \A q \in Runs \ {p} : Same(q)
  BY <1>4 DEF WriteExt, Same, IInv, Types
<1>8. Local(p)'
  <2>1. f \in ExtFiles'
    BY <1>3 DEF WriteExt, shared, ExtFiles
  <2>2. Memory(p)'
    BY <1>1, <1>5 DEF WriteExt, shared, Local, Memory, Early
  <2>3. Dated(p)'
    BY <1>1, <1>5 DEF WriteExt, shared, Local, Dated, Whole
  <2>4. Written(p)' /\ External(p)'
    BY <1>1, <1>5, <2>1 DEF WriteExt, shared, Local, Written, External
  <2> QED BY <2>2, <2>3, <2>4 DEF Local
<1>9. \A i, v \in Nat : Holds(p, i, v)' => Claimed(i, v)
  BY <1>1, <1>3, <1>5 DEF WriteExt, Holds, Claimed
<1> QED BY <1>6, <1>7, <1>8, <1>9, StepKeeps DEF WriteExt, shared

LEMMA RenameExtKeeps == ASSUME NEW p \in Runs PROVE IInv /\ RenameExt(p) => IInv'
<1> SUFFICES ASSUME IInv, RenameExt(p) PROVE IInv'
  OBVIOUS
<1>1. /\ at[p] = "extrename" /\ at'[p] = "run" /\ tmp'[p] = {} /\ extFile' \in {tmp[p], extFile}
      /\ tmp' = [tmp EXCEPT ![p] = {}] /\ at' = [at EXCEPT ![p] = "run"]
      /\ UNCHANGED <<kind, server, mainFile, ids, starts, cookie, extcookie, main, paged, stub, ext>>
  BY DEF RenameExt, Goto, Set, IInv, Types
<1>2. Local(p) /\ tmp[p] \subseteq ExtFiles
  BY <1>1 DEF IInv, Local, Written
<1>3. Types'
  <2>1. extFile' \subseteq ExtFiles
    BY <1>1, <1>2 DEF IInv, Types
  <2> QED BY <1>1, <2>1 DEF IInv, Types, Places, MainFiles, ExtFiles
<1>4. FilesWhole'
  BY <1>1 DEF IInv, FilesWhole, Whole
<1>5. \A q \in Runs \ {p} : Same(q)
  BY <1>1 DEF Same, IInv, Types
<1>6. Local(p)'
  <2>1. Memory(p)' /\ Dated(p)'
    BY <1>1, <1>2 DEF Local, Memory, Early, Dated, Whole
  <2>2. Written(p)' /\ External(p)'
    BY <1>1, <1>2 DEF Local, Written, External
  <2> QED BY <2>1, <2>2 DEF Local
<1>7. \A i, v \in Nat : InFile(i, v)' => Claimed(i, v)
  BY <1>1 DEF InFile, Claimed, Holds
<1>8. \A i, v \in Nat : Holds(p, i, v)' => Claimed(i, v)
  BY <1>1 DEF Holds, Claimed
<1>9. kind # "system" => OneVersion' /\ Given'
  BY <1>1, <1>5, <1>7, <1>8, ClaimsStay DEF IInv, Types
<1> QED BY <1>1, <1>3, <1>4, <1>5, <1>6, <1>9, Preserved DEF IInv, Types, Versions

----------------------------------------------------------------------------
(* Whoever trusts a cookie is right.                                       *)

LEMMA IInvInductive == ASSUME NoGap PROVE IInv /\ [Next]_cacheVars => IInv'
<1> SUFFICES ASSUME IInv, [Next]_cacheVars PROVE IInv'
  OBVIOUS
<1>1. CASE Publish
  BY <1>1, PublishKeeps
<1>2. CASE PowerFails
  BY <1>2, PowerFailsKeeps
<1>3. ASSUME NEW p \in Runs, Begin(p) \/ Leave(p) PROVE IInv'
  BY <1>3, BeginKeeps, LeaveKeeps
<1>4. ASSUME NEW p \in Runs, Read(p) PROVE IInv'
  BY <1>4, UseCachedKeeps, FetchIndexKeeps, UseMatchingKeeps, CheckSigKeeps, ReadSystemKeeps, FetchPrimaryKeeps,
     FetchNotesKeeps, WriteMainKeeps, RenameKeeps, FetchExtKeeps, WriteExtKeeps, RenameExtKeeps DEF Read
<1>5. ASSUME NEW p \in Runs, Rewrite(p) \/ LoadExt(p) PROVE IInv'
  BY <1>5, RewriteKeeps, LoadExtKeeps
<1>6. CASE UNCHANGED cacheVars
  <2>1. Types' /\ FilesWhole'
    BY <1>6 DEF cacheVars, memory, IInv, Types, FilesWhole, Whole, MainFiles, ExtFiles
  <2>2. \A q \in Runs : Same(q)
    BY <1>6 DEF cacheVars, memory, Same
  <2>3. kind # "system" => OneVersion' /\ Given'
    BY <1>6 DEF cacheVars, memory, IInv, OneVersion, Given, Claimed, InFile, Holds
  <2> QED BY <1>6, <2>1, <2>2, <2>3, Preserved DEF cacheVars, IInv, Types, Versions
<1> QED BY <1>1, <1>2, <1>3, <1>4, <1>5, <1>6 DEF Next

LEMMA ClaimsClaimed ==
  ASSUME IInv, kind # "system", NEW c \in Claims
  PROVE  \E i, v \in Nat : c = <<i, v>> /\ Claimed(i, v)
<1>1. CASE c \in {<<f.extcookie, f.content.version>> : f \in mainFile}
  BY <1>1 DEF IInv, Types, MainFiles, ExtFiles, Contents, Versions, Claimed, InFile
<1>2. CASE c \in {<<f.cookie, f.version>> : f \in extFile}
  BY <1>2 DEF IInv, Types, MainFiles, ExtFiles, Contents, Versions, Claimed, InFile
<1>3. ASSUME NEW p \in Runs, extcookie[p] # 0, c \in {<<extcookie[p], m.version>> : m \in main[p]}
      PROVE  \E i, v \in Nat : c = <<i, v>> /\ Claimed(i, v)
  BY <1>3 DEF IInv, Types, MainFiles, ExtFiles, Contents, Versions, Claimed, Holds
<1>4. ASSUME NEW p \in Runs,
             c \in IF at[p] = "rename" THEN {<<f.extcookie, f.content.version>> : f \in tmp[p]}
                   ELSE {<<f.cookie, f.version>> : f \in tmp[p]}
      PROVE  \E i, v \in Nat : c = <<i, v>> /\ Claimed(i, v)
  <2>1. tmp[p] \subseteq (IF at[p] = "rename" THEN MainFiles ELSE IF at[p] = "extrename" THEN ExtFiles ELSE {})
    BY DEF IInv, Local, Written
  <2>2. CASE at[p] = "rename"
    <3>1. PICK f \in tmp[p] : c = <<f.extcookie, f.content.version>>
      BY <1>4, <2>2
    <3>2. f.extcookie \in Nat /\ f.content.version \in Nat
      BY <2>1, <2>2 DEF MainFiles, Contents, Versions
    <3> QED BY <2>2, <3>1, <3>2 DEF Claimed, Holds
  <2>3. CASE at[p] # "rename"
    <3>1. PICK f \in tmp[p] : c = <<f.cookie, f.version>>
      BY <1>4, <2>3
    <3>2. at[p] = "extrename" /\ f.cookie \in Nat /\ f.version \in Nat
      BY <2>1, <2>3 DEF IInv, Types, ExtFiles, Versions
    <3> QED BY <3>1, <3>2 DEF Claimed, Holds
  <2> QED BY <2>2, <2>3
<1>5. \/ c \in {<<f.extcookie, f.content.version>> : f \in mainFile}
      \/ c \in {<<f.cookie, f.version>> : f \in extFile}
      \/ \E p \in Runs : extcookie[p] # 0 /\ c \in {<<extcookie[p], m.version>> : m \in main[p]}
      \/ \E p \in Runs : c \in IF at[p] = "rename" THEN {<<f.extcookie, f.content.version>> : f \in tmp[p]}
                              ELSE {<<f.cookie, f.version>> : f \in tmp[p]}
  <2> DEFINE inMemory(p) == {<<extcookie[p], m.version>> : m \in main[p]}
             inTmp(p) == IF at[p] = "rename" THEN {<<f.extcookie, f.content.version>> : f \in tmp[p]}
                         ELSE {<<f.cookie, f.version>> : f \in tmp[p]}
             mains == {<<f.extcookie, f.content.version>> : f \in mainFile}
             exts == {<<f.cookie, f.version>> : f \in extFile}
             memories == UNION {inMemory(p) : p \in {q \in Runs : stub[q] # "none" /\ extcookie[q] # 0}}
             tmps == UNION {inTmp(p) : p \in Runs}
  <2>1. Claims = mains \cup exts \cup memories \cup tmps
    BY Zenon DEF Claims
  <2> HIDE DEF inMemory, inTmp, mains, exts
  <2>2. c \in memories => \E p \in Runs : extcookie[p] # 0 /\ c \in inMemory(p)
    BY Zenon
  <2>3. c \in tmps => \E p \in Runs : c \in inTmp(p)
    BY Zenon
  <2> HIDE DEF memories, tmps
  <2>4. c \in mains \/ c \in exts \/ c \in memories \/ c \in tmps
    BY <2>1
  <2> QED BY <2>2, <2>3, <2>4, Zenon DEF inMemory, inTmp, mains, exts
<1> QED BY <1>1, <1>2, <1>3, <1>4, <1>5

LEMMA IInvSound == IInv => CookiesSound
<1> SUFFICES ASSUME IInv PROVE CookiesSound
  OBVIOUS
<1>1. CacheTypeOK
  BY DEF IInv, Types, Local, Memory, Written, CacheTypeOK
<1>2. CookieTellsContent
  BY DEF IInv, Local, Written, FilesWhole, Whole, CookieTellsContent
<1>3. ExtCookiesUnique
  <2> SUFFICES ASSUME kind # "system", NEW c \in Claims, NEW d \in Claims, c[1] = d[1] PROVE c[2] = d[2]
    BY DEF ExtCookiesUnique
  <2>1. PICK i, v \in Nat : c = <<i, v>> /\ Claimed(i, v)
    BY ClaimsClaimed
  <2>2. PICK j, w \in Nat : d = <<j, w>> /\ Claimed(j, w)
    BY ClaimsClaimed
  <2> QED BY <2>1, <2>2 DEF IInv, OneVersion
<1> QED BY <1>1, <1>2, <1>3 DEF CookiesSound

LEMMA CacheInvariant == ASSUME NoGap PROVE Spec => []IInv
<1>1. Init => IInv
  BY InitHolds
<1>2. IInv /\ [Next]_cacheVars => IInv'
  BY IInvInductive
<1> QED BY <1>1, <1>2, PTL DEF Spec

\* What a main file holds is all that the index with its cookie lists, and an ext
\* cookie belongs to one version: usecachedrepo and load_stub may trust them,
\* whichever processes wrote, were killed or wrote over one another.
THEOREM CookiesAreSound == ASSUME NoGap PROVE Spec => []CookiesSound
BY CacheInvariant, IInvSound, PTL

----------------------------------------------------------------------------
(* RepoCache implements Snapshots.                                         *)

\* The index a process has asked for, until it sees the repository.
Asked(p) == IF main[p] = {} THEN cookie[p] ELSE 0

Seen(p) == VersionOf(main[p])

LEMMA SeenOne == ASSUME NEW m PROVE VersionOf({m}) = m.version
BY DEF VersionOf

LEMMA SeenNone == VersionOf({}) = 0
BY DEF VersionOf

\* What a step of p may do to what p sees.
Allowed(p) ==
  \/ ext'[p] = ext[p] /\ Asked(p)' = Asked(p) /\ Seen(p)' = Seen(p)
  \/ ext'[p] = ext[p] /\ Seen(p) = 0 /\ Seen(p)' = 0 /\ Asked(p)' = server
  \/ ext'[p] = ext[p] /\ Seen(p) = 0 /\ Seen(p)' \in Asked(p) .. server /\ Seen(p)' > 0 /\ Asked(p)' = 0
  \/ Seen(p) # 0 /\ Seen(p)' = Seen(p) /\ Asked(p)' = Asked(p) /\ ext'[p] = Seen(p)
  \/ Seen(p)' = 0 /\ Asked(p)' = 0 /\ ext'[p] = 0

LEMMA AllowedSteps ==
  ASSUME IInv, Types', NEW p \in Runs, server' = server, \A q \in Runs \ {p} : Same(q), Allowed(p)
  PROVE  [S!Next]_(S!snapshotVars)
<1> DEFINE asked == [q \in Runs |-> Asked(q)]
           seen == [q \in Runs |-> Seen(q)]
<1>1. \A q \in Runs \ {p} : Asked(q)' = Asked(q) /\ Seen(q)' = Seen(q) /\ ext'[q] = ext[q]
  BY DEF Same, Asked, Seen
<1>2. server \in Nat /\ Asked(p) \in Nat /\ ext \in [Runs -> Nat] /\ ext' \in [Runs -> Nat]
  BY DEF IInv, Types, Versions, Asked
<1>3. asked = [q \in Runs |-> IF main[q] = {} THEN cookie[q] ELSE 0] /\ seen = [q \in Runs |-> VersionOf(main[q])]
  BY DEF Asked, Seen
<1>4. /\ asked' = [asked EXCEPT ![p] = Asked(p)'] /\ seen' = [seen EXCEPT ![p] = Seen(p)']
      /\ ext' = [ext EXCEPT ![p] = ext'[p]]
  BY <1>1, <1>2
<1>5. /\ Asked(p)' = Asked(p) => asked' = asked
      /\ Seen(p)' = Seen(p) => seen' = seen
      /\ ext'[p] = ext[p] => ext' = ext
  BY <1>1, <1>2
<1>6. asked[p] = Asked(p) /\ seen[p] = Seen(p)
  OBVIOUS
<1>7. /\ UNCHANGED <<server, asked, seen, ext>> => UNCHANGED S!snapshotVars
      /\ S!Ask(p) <=> /\ seen[p] = 0 /\ asked' = [asked EXCEPT ![p] = server]
                      /\ UNCHANGED <<server, seen, ext>>
      /\ S!See(p) <=> /\ seen[p] = 0
                      /\ \E v \in 1 .. server : v >= asked[p] /\ seen' = [seen EXCEPT ![p] = v]
                      /\ asked' = [asked EXCEPT ![p] = 0] /\ UNCHANGED <<server, ext>>
      /\ S!ReadMore(p) <=> /\ seen[p] # 0 /\ ext' = [ext EXCEPT ![p] = seen[p]]
                           /\ UNCHANGED <<server, asked, seen>>
      /\ S!Leave(p) <=> /\ asked' = [asked EXCEPT ![p] = 0] /\ seen' = [seen EXCEPT ![p] = 0]
                        /\ ext' = [ext EXCEPT ![p] = 0] /\ UNCHANGED server
  BY DEF S!snapshotVars, S!Ask, S!See, S!ReadMore, S!Leave, Asked, Seen
<1> HIDE DEF asked, seen
<1>8. CASE ext'[p] = ext[p] /\ Asked(p)' = Asked(p) /\ Seen(p)' = Seen(p)
  BY <1>5, <1>7, <1>8
<1>9. CASE ext'[p] = ext[p] /\ Seen(p) = 0 /\ Seen(p)' = 0 /\ Asked(p)' = server
  <2>1. S!Ask(p)
    BY <1>4, <1>5, <1>6, <1>7, <1>9
  <2> QED BY <2>1 DEF S!Next
<1>10. CASE ext'[p] = ext[p] /\ Seen(p) = 0 /\ Seen(p)' \in Asked(p) .. server /\ Seen(p)' > 0 /\ Asked(p)' = 0
  <2>1. Seen(p)' \in 1 .. server /\ Seen(p)' >= asked[p]
    BY <1>2, <1>6, <1>10
  <2>2. /\ seen[p] = 0 /\ seen' = [seen EXCEPT ![p] = Seen(p)'] /\ asked' = [asked EXCEPT ![p] = 0]
        /\ UNCHANGED <<server, ext>>
    BY <1>4, <1>5, <1>6, <1>10
  <2>3. S!See(p)
    BY <1>7, <2>1, <2>2
  <2> QED BY <2>3 DEF S!Next
<1>11. CASE Seen(p) # 0 /\ Seen(p)' = Seen(p) /\ Asked(p)' = Asked(p) /\ ext'[p] = Seen(p)
  <2>1. S!ReadMore(p)
    BY <1>4, <1>5, <1>6, <1>7, <1>11
  <2> QED BY <2>1 DEF S!Next
<1>12. CASE Seen(p)' = 0 /\ Asked(p)' = 0 /\ ext'[p] = 0
  <2>1. S!Leave(p)
    BY <1>4, <1>7, <1>12
  <2> QED BY <2>1 DEF S!Next
<1> QED BY <1>8, <1>9, <1>10, <1>11, <1>12 DEF Allowed

LEMMA InitAllowed == Init => S!Init
<1> SUFFICES ASSUME Init PROVE S!Init
  OBVIOUS
<1>1. \A p \in Runs : main[p] = {} /\ cookie[p] = 0 /\ VersionOf(main[p]) = 0
  BY SeenNone DEF Init
<1> QED BY <1>1 DEF Init, S!Init

\* What has been read cannot be older than the index, nor newer than the server.
LEMMA TakeAllowed ==
  ASSUME IInv, NEW p \in Runs, NEW f \in mainFile, at[p] \in {"open", "match"}, Take(p, f),
         cookie[p] \in {0, f.cookie}
  PROVE  Allowed(p)
<1>1. main'[p] = {f.content} /\ cookie'[p] = f.cookie /\ ext'[p] = ext[p]
  BY DEF Take, Set, IInv, Types
<1>2. main[p] = {}
  BY DEF IInv, Local, Memory, Early
<1>3. f.content.version \in Versions /\ f.cookie \in Nat /\ f.content.version <= server /\ Whole(f.content, f.cookie)
  BY DEF IInv, Types, FilesWhole, MainFiles, Contents, Versions
<1>4. Seen(p)' = f.content.version /\ Asked(p)' = 0 /\ Seen(p) = 0 /\ Asked(p) = cookie[p]
  BY <1>1, <1>2, SeenOne, SeenNone DEF Seen, Asked
<1>5. f.content.version \in cookie[p] .. server
  BY <1>3 DEF Whole, Versions, IInv, Types
<1> QED BY <1>1, <1>3, <1>4, <1>5 DEF Allowed, Versions

\* A step of a process changes the memory of no other.
LEMMA OnlyOne ==
  ASSUME IInv, NEW p \in Runs, Begin(p) \/ Leave(p) \/ Read(p) \/ Rewrite(p) \/ LoadExt(p)
  PROVE  \A q \in Runs \ {p} : Same(q)
<1>1. CASE Begin(p) \/ Leave(p)
  BY <1>1 DEF Begin, Leave, Goto, Set, memory, Same, IInv, Types
<1>2. ASSUME NEW m, Write(p, m) PROVE \A q \in Runs \ {p} : Same(q)
  BY <1>2 DEF Write, Marked, Goto, Set, Same, IInv, Types
<1>3. ASSUME NEW f, Take(p, f) PROVE \A q \in Runs \ {p} : Same(q)
  BY <1>3 DEF Take, Goto, Set, Same, IInv, Types
<1>4. CASE UseCached(p) \/ UseMatching(p)
  <2>1. \A place : Goto(p, place) /\ UNCHANGED memory => \A q \in Runs \ {p} : Same(q)
    BY DEF Goto, memory, Same, IInv, Types
  <2> QED BY <1>3, <1>4, <2>1 DEF UseCached, UseMatching
<1>5. CASE FetchIndex(p) \/ CheckSig(p) \/ ReadSystem(p)
  BY <1>5 DEF FetchIndex, CheckSig, ReadSystem, Goto, Set, memory, Same, IInv, Types
<1>6. CASE FetchPrimary(p)
  BY <1>6 DEF FetchPrimary, Goto, Set, Same, IInv, Types
<1>7. CASE FetchNotes(p)
  <2>1. UNCHANGED main \/ \E x : main' = Set(main, p, x)
    BY <1>7 DEF FetchNotes
  <2>2. \E place : Goto(p, place)
    BY <1>7 DEF FetchNotes
  <2> QED BY <1>7, <2>1, <2>2 DEF FetchNotes, Goto, Set, Same, IInv, Types
<1>8. CASE Rename(p) \/ RenameExt(p) \/ WriteExt(p)
  BY <1>8 DEF Rename, RenameExt, WriteExt, Goto, Set, Same, IInv, Types
<1>9. CASE FetchExt(p)
  BY <1>9 DEF FetchExt, Goto, Set, Same, IInv, Types
<1>10. CASE LoadExt(p)
  BY <1>10 DEF LoadExt, Goto, Set, Same, IInv, Types
<1> QED BY <1>1, <1>2, <1>4, <1>5, <1>6, <1>7, <1>8, <1>9, <1>10 DEF Read, WriteMain, Rewrite

LEMMA ReadAllowed ==
  ASSUME NoGap, IInv, NEW p \in Runs, Read(p) PROVE Allowed(p)
<1>1. ASSUME UseCached(p) \/ UseMatching(p) PROVE Allowed(p)
  <2>1. CASE UNCHANGED memory
    BY <2>1 DEF memory, Allowed, Asked, Seen
  <2>2. CASE at[p] = "open" /\ \E f \in Usable(0) : Take(p, f)
    BY <2>2, TakeAllowed DEF Usable, IInv, Local, Memory
  <2>3. CASE at[p] = "match" /\ \E f \in Usable(cookie[p]) : Take(p, f)
    <3>1. PICK f \in Usable(cookie[p]) : Take(p, f)
      BY <2>3
    <3>2. f \in mainFile /\ cookie[p] = f.cookie
      BY <2>3, <3>1 DEF Usable, IInv, Local, Dated, Types
    <3> QED BY <2>3, <3>1, <3>2, TakeAllowed
  <2> QED BY <1>1, <2>1, <2>2, <2>3 DEF UseCached, UseMatching
<1>2. CASE FetchIndex(p)
  <2>1. main[p] = {} /\ main'[p] = {} /\ ext'[p] = ext[p] /\ cookie'[p] \in {cookie[p], server}
    BY <1>2 DEF FetchIndex, Set, IInv, Types, Local, Memory, Early
  <2> QED BY <2>1, SeenNone DEF Allowed, Asked, Seen
<1>3. CASE CheckSig(p)
  BY <1>3 DEF CheckSig, memory, Allowed, Asked, Seen
<1>4. ASSUME NEW m, NEW n \in Nat, m.version = n, n \in cookie[p] .. server, n > 0,
             main[p] = {}, main'[p] = {m}, ext'[p] = ext[p]
      PROVE Allowed(p)
  <2>1. Seen(p)' = n /\ Asked(p)' = 0 /\ Seen(p) = 0 /\ Asked(p) = cookie[p]
    BY <1>4, SeenOne, SeenNone DEF Seen, Asked
  <2> QED BY <1>4, <2>1 DEF Allowed
<1>5. CASE ReadSystem(p)
  <2>1. main[p] = {} /\ main'[p] = {Content(server, TRUE, TRUE)} /\ ext'[p] = ext[p]
    BY <1>5 DEF ReadSystem, Set, IInv, Types, Local, Memory, Early
  <2>2. server \in Nat /\ server > 0 /\ server \in cookie[p] .. server
    BY DEF IInv, Types, Versions, Local, Dated
  <2>3. Content(server, TRUE, TRUE).version = server
    BY DEF Content
  <2> QED BY <1>4, <2>1, <2>2, <2>3
<1>6. CASE FetchPrimary(p)
  <2>1. PICK packages \in BOOLEAN : main' = Set(main, p, {Content(cookie[p], packages, FALSE)})
    BY <1>6 DEF FetchPrimary, NoGap
  <2>2. main[p] = {} /\ main'[p] = {Content(cookie[p], packages, FALSE)} /\ ext'[p] = ext[p]
    BY <1>6, <2>1 DEF FetchPrimary, Set, IInv, Types, Local, Memory, Early
  <2>3. cookie[p] \in Nat /\ cookie[p] > 0 /\ cookie[p] \in cookie[p] .. server
    BY <1>6 DEF FetchPrimary, IInv, Types, Versions, Local, Dated
  <2>4. Content(cookie[p], packages, FALSE).version = cookie[p]
    BY DEF Content
  <2> QED BY <1>4, <2>2, <2>3, <2>4
<1>7. ASSUME NEW m \in Contents, NEW n \in Contents, m.version = n.version,
             main[p] = {n}, main'[p] = {m}, ext'[p] = ext[p]
      PROVE Allowed(p)
  <2>1. Seen(p)' = Seen(p) /\ Asked(p)' = 0 /\ Asked(p) = 0
    BY <1>7, SeenOne DEF Seen, Asked
  <2> QED BY <1>7, <2>1 DEF Allowed
<1>8. CASE FetchNotes(p)
  <2>1. PICK m \in Contents : main[p] = {m}
    BY <1>8 DEF FetchNotes, IInv, Types, Local, Memory
  <2> DEFINE n == [m EXCEPT !.notes = TRUE]
  <2>2. n \in Contents /\ n.version = m.version
    BY DEF Contents
  <2>3. main' = Set(main, p, {n}) \/ UNCHANGED main
    BY <1>8, <2>1 DEF FetchNotes
  <2> HIDE DEF n
  <2>4. main'[p] \in {{n}, {m}} /\ ext'[p] = ext[p]
    BY <1>8, <2>1, <2>3 DEF FetchNotes, Set, IInv, Types
  <2> QED BY <1>7, <2>1, <2>2, <2>4
<1>9. CASE WriteMain(p)
  <2>1. PICK m \in main[p] : Write(p, m)
    BY <1>9 DEF WriteMain
  <2>2. main[p] = {m} /\ m \in Contents
    BY <2>1 DEF IInv, Types, Local, Memory
  <2>3. main'[p] = main[p] /\ ext' = ext /\ cookie' = cookie
    BY <2>1, <2>2 DEF Write, Set, IInv, Types
  <2> QED BY <2>3 DEF Allowed, Asked, Seen
<1>10. CASE Rename(p) \/ WriteExt(p) \/ RenameExt(p)
  BY <1>10 DEF Rename, WriteExt, RenameExt, shared, Allowed, Asked, Seen
<1>11. CASE FetchExt(p)
  <2>1. main' = main /\ cookie' = cookie
    BY <1>11 DEF FetchExt
  <2>2. ext'[p] = ext[p] \/ \E m \in main[p] : ext'[p] = m.version
    BY <1>11 DEF FetchExt, Set, IInv, Types
  <2>3. CASE ext'[p] = ext[p]
    BY <2>1, <2>3 DEF Allowed, Asked, Seen
  <2>4. ASSUME NEW m \in main[p], ext'[p] = m.version PROVE Allowed(p)
    <3>1. main[p] = {m} /\ m.version \in Versions
      BY <2>4 DEF IInv, Types, Local, Memory, Contents
    <3>2. Seen(p) = m.version /\ Seen(p)' = m.version
      BY <2>1, <3>1, SeenOne DEF Seen
    <3> QED BY <2>1, <2>4, <3>1, <3>2 DEF Allowed, Asked, Versions
  <2> QED BY <2>2, <2>3, <2>4
<1> QED BY <1>1, <1>2, <1>3, <1>5, <1>6, <1>8, <1>9, <1>10, <1>11 DEF Read

LEMMA RewriteAllowed == ASSUME NoGap, IInv, NEW p \in Runs, Rewrite(p) PROVE Allowed(p)
<1> DEFINE with(m) == [m EXCEPT !.provides = TRUE]
<1>1. \A m \in Contents : with(m).version = m.version
  BY DEF Contents
<1>2. \E m \in main[p] : Write(p, with(m))
  BY DEF Rewrite
<1> HIDE DEF with
<1>3. PICK m \in Contents : main[p] = {m} /\ Write(p, with(m))
  BY <1>2 DEF IInv, Types, Local, Memory
<1>4. main'[p] = {with(m)} /\ ext' = ext
  BY <1>3 DEF Write, Set, IInv, Types
<1>5. Seen(p)' = Seen(p) /\ Asked(p)' = Asked(p)
  BY <1>1, <1>3, <1>4, SeenOne DEF Seen, Asked
<1> QED BY <1>4, <1>5 DEF Allowed

LEMMA LoadExtAllowed == ASSUME IInv, NEW p \in Runs, LoadExt(p) PROVE Allowed(p)
<1>1. stub[p] = "stub" /\ main' = main /\ cookie' = cookie
  BY DEF LoadExt
<1>2. CASE \E f \in UsableExt(p) : ext' = Set(ext, p, f.version)
  <2>1. PICK f \in UsableExt(p) : ext'[p] = f.version
    BY <1>2 DEF Set, IInv, Types
  <2>2. PICK m \in Contents : main[p] = {m}
    BY <1>1 DEF IInv, Types, Local, Memory
  <2>3. f.version = m.version /\ m.version \in Versions
    BY <1>1, <2>2, ExtOfVersion DEF Contents
  <2>4. Seen(p) = m.version /\ Seen(p)' = m.version
    BY <1>1, <2>2, SeenOne DEF Seen
  <2> QED BY <1>1, <2>1, <2>3, <2>4 DEF Allowed, Asked, Versions
<1>3. CASE UNCHANGED ext
  BY <1>1, <1>3 DEF Allowed, Asked, Seen
<1> QED BY <1>2, <1>3 DEF LoadExt

\* A step of the processes, the server or the disk is one of Snapshots, or none.
LEMMA StepAllowed ==
  ASSUME NoGap, IInv, [Next]_cacheVars PROVE [S!Next]_(S!snapshotVars)
<1>1. IInv'
  BY IInvInductive
<1>2. CASE Publish
  <2>1. server' = server + 1 /\ UNCHANGED <<cookie, main, ext>>
    BY <1>2 DEF Publish, memory
  <2>2. S!Publish
    BY <2>1 DEF S!Publish
  <2> QED BY <2>2 DEF S!Next
<1>3. CASE PowerFails \/ UNCHANGED cacheVars
  <2>1. UNCHANGED <<server, cookie, main, ext>>
    BY <1>3 DEF PowerFails, cacheVars, memory
  <2> QED BY <2>1 DEF S!snapshotVars
<1>4. ASSUME NEW p \in Runs, Begin(p) \/ Leave(p) \/ Read(p) \/ Rewrite(p) \/ LoadExt(p)
      PROVE  [S!Next]_(S!snapshotVars)
  <2>1. server' = server
    BY <1>4 DEF Begin, Leave, Rewrite, LoadExt, Read, UseCached, FetchIndex, UseMatching, CheckSig, ReadSystem,
       FetchPrimary, FetchNotes, WriteMain, Rename, FetchExt, WriteExt, RenameExt, Take, Write, shared
  <2>2. \A q \in Runs \ {p} : Same(q)
    BY <1>4, OnlyOne
  <2>3. Allowed(p)
    <3>1. CASE Begin(p)
      BY <3>1 DEF Begin, memory, Allowed, Asked, Seen
    <3>2. CASE Leave(p)
      BY <3>2, SeenNone DEF Leave, Set, IInv, Types, Allowed, Asked, Seen
    <3> QED BY <1>4, <3>1, <3>2, ReadAllowed, RewriteAllowed, LoadExtAllowed
  <2> QED BY <1>1, <2>1, <2>2, <2>3, AllowedSteps DEF IInv
<1> QED BY <1>2, <1>3, <1>4 DEF Next

\* Whatever is published, cached, lost or half written, a process of solv.c sees
\* one published state, not older than the index it asked for, and load_stub gives
\* it external data of that state.
THEOREM CacheKeepsSnapshots == ASSUME NoGap PROVE Spec => KeepsSnapshots
<1>1. Init => S!Init
  BY InitAllowed
<1>2. IInv /\ [Next]_cacheVars => [S!Next]_(S!snapshotVars)
  BY StepAllowed
<1> QED BY <1>1, <1>2, CacheInvariant, PTL DEF Spec, KeepsSnapshots, S!Spec
==============================================================================
