# A verification project for sat-solver

sat-solver is the dependency solver of the openSUSE package management: a C
library that turns packages, repositories and wishes of a user ("jobs") into
clauses over "package p is installed", searches an assignment that satisfies
them, explains why there is none, and orders the resulting transaction. This
directory holds TLA+ models of its core, the TLC configurations that check them
and theorems the TLA+ proof system checks. Paths are relative to the repository,
which is under `src/`.

## The system

### Components

| Component | Files | State it keeps | Operations |
|---|---|---|---|
| search engine | `src/src/solver.c` 1-1260 | rule array (literals, watches, disabled bit), watch lists, trail (`decisionq`, `decisionq_why`, `decisionmap`, `propagate_index`), learnt rules and their proofs, `branches`, `recommendations`, `problems` | `makeruledecisions`, `enabledisablelearntrules`, `solver_reset`, `propagate`, `analyze`, `analyze_unsolvable`, `revert`, `setpropagatelearn`, `selectandinstall` |
| main loop | `src/src/solver.c` 1360-2120 | `level`, `systemlevel`, `installedpos` and other resume positions | `solver_run_sat` |
| rules | `src/src/rules.c` | the rule areas in the array, `noupdate`, `cleandepsmap` | rule generation, `solver_disablepolicyrules`, `solver_reenablepolicyrules`, `solver_disablechoicerules` |
| problems | `src/src/problems.c` | `problems`, `solutions` | `solver_disableproblem`, `solver_enableproblem`, `solver_prepare_solutions`, `create_solutions`, `refine_suggestion`, `solver_findproblemrule` |
| policy | `src/src/policy.c` | none | `policy_filter_unwanted`, `policy_findupdatepackages`, `policy_is_illegal` |
| transactions | `src/src/transaction.c` | `steps`, `orderdata` (elements, edges, marks) | `transaction_calculate`, `transaction_order`, `transaction_order_add_choices`, classification |
| pool | `src/src/pool.c`, `poolid.c`, `strpool.c`, `dirpool.c` | solvables, interned strings, relations, provider lists, directory tree | interning, `pool_createwhatprovides`, `pool_addrelproviders`, `pool_addfileprovides` |
| repositories | `src/src/repo.c`, `repodata.c`, `solvable.c` | solvable blocks, dependency arrays, keyed data, stubs | add, look up, internalize, iterate |
| solv files and paging | `src/src/repo_solv.c`, `repopage.c`, `src/ext/repo_write.c` | page table, loaded pages | load page ranges, compress, read, write |
| versions | `src/src/evr.c` | none | `vercmp`, `evrcmp_str` |
| containers | `src/src/queue.c`, `bitmap.c`, `util.c`, `qsort_r.c` | buffers | push, shift, insert, delete; sort |
| checksums | `src/src/chksum.c`, `md5.c`, `sha1.c`, `sha2.c` | hash state | add, get |
| parsers | `src/ext/repo_*.c` | parser state | read rpm databases and repository metadata |
| file conflicts | `src/ext/pool_fileconflicts.c` | hash tables of file names | find files of two packages |
| programs | `src/tools`, `src/examples` | | command line tools, bindings |

### How they interact

Parsers and `repo_solv.c` fill a repository through `repo.c` and `repodata.c`;
strings and relations are interned in the pool. `pool_createwhatprovides` makes
the provider lists. `solver_solve` translates packages and jobs into rules, area
by area (rpm, feature, update, job, infarch, dup, choice), and calls
`solver_disablepolicyrules`, `makeruledecisions` and `solver_run_sat`. The
search asks the policy which of several candidates to try first, and an optional
callback for alternatives. A contradiction it cannot resolve goes to
`analyze_unsolvable`, which records a problem, disables rules and has
`solver_reset` start the search over. `solver_solution_count` and its relatives
then run the search again on variations of the rules, and `transaction_order`
orders the steps.

The library is sequential: there are no threads, and nothing of the search is
persistent. Concurrency, crashes and unreliable downloads are met by the
applications that keep repositories in solv files; `src/examples/solv.c` is the
one in the repository. What makes the library itself hard is state that long
sequences of steps have to keep right (lazily watched literals, undo, learnt
rules that depend on rules being switched off and on, resume positions, lists
and offsets worked out in one pass and trusted in the next), and that every step
of the search is entered again after each conflict.

### What makes each component correct

* **Trail and engine.** The three arrays of the trail agree and can be undone to
  any level; a forced decision follows from its rule and earlier decisions;
  propagation misses nothing though it looks at two literals of a rule only;
  watches survive undoing; learnt rules follow from their recorded proofs and
  are in force only while those are.
* **Main loop.** It ends. Installed packages are decided before rules that are
  still open. The decisions for weak dependencies, orphans and alternatives never
  run into something unsolvable, so they never cost a rule.
* **Problems.** What is given up is given up for a reason: a problem names rules
  that really contradict the packages; the rules of the packages themselves stay
  in force; all rules of a problem id go together; the solution satisfies
  whatever is still in force.
* **Solutions.** Trying a suggestion leaves the rules as they were, a suggestion
  that is taken makes the problem go away, every problem gets one, and making
  them ends.
* **Rule generation.** The lists of providers and obsoleters are exact; rules mean
  what the dependencies say and can be explained; everything the search takes for
  granted is there; nothing of an installed package is left unprotected; what is
  cleaned up was superfluous.
* **Transaction classes.** Whichever side of a replacement an application asks
  for, every package is shown, and the counts are those of the packages listed.
* **Transaction order.** The order respects every edge that was not broken,
  only the weakest edge of a cycle is broken, the edges added to keep a former
  cycle together close no new one, every package finds what it requires in place,
  the search for cycles ends. An application that rolls its own order is offered
  each package when it is free, and once.
* **Repository data.** Values are found again by name, whatever ids, schemata,
  offsets, files and pools they have gone through.
* **Cache of repositories.** Whatever other processes, the server and failures do, a
  process sees one published state, and external data of that state.
* **Page store, queue, string pool, edge lists.** Each implements a simple object: a
  map from page to content, a sequence, a bijection, a relation.

## Modules

| Module | What it models |
|---|---|
| `Rules` | literals, rules, areas, problem ids; what a rule means |
| `Trail` | `decisionq`, `decisionq_why`, `decisionmap` as one value: decide, cut |
| `Engine` | the state of the solver and every step of assertions, propagation, analysis, problems, reset, selection |
| `Solver` | `solver_run_sat` on top: `Next`, `Spec`, `FairSpec` |
| `SolverProperties` | the properties of the search |
| `SolverPromise` | the abstract specification: rules are given up, for a reason, until the rest can be satisfied |
| `MCSolver` | the problems TLC checks |
| `Solutions`, `MCSolutions` | `problems.c` on top of `Solver`: solutions of problems, taking them, rules that explain them; their properties and inputs |
| `Pool` | solvables, relations, provider lists: `pool_createwhatprovides`, `pool_addrelproviders`, matching |
| `Policy` | candidates: the filters, illegal replacements, update packages, the obsoletes index |
| `RpmRules`, `PolicyRules` | the rules one package or one job stands for, and what a job switches off |
| `RuleGeneration`, `CleanDeps` | `solver_solve` up to the search as a state machine on `Policy` and `Pool`; `solver_createcleandepsmap` |
| `GenerationProperties`, `MCGeneration` | their properties and the pools TLC checks |
| `Transaction` | the steps of a transaction, what replaces what, the type of a step, as operators on package data |
| `TransactionClasses`, `MCClasses` | `transaction_classify`, `transaction_classify_pkgs`; their properties and inputs |
| `OrderGraph` | the elements and edges `transaction_order` works on |
| `TransactionOrder` | `transaction_order` and `transaction_order_add_choices` as a state machine |
| `OrderProperties`, `MCOrder` | the properties of the order, and the transactions TLC checks |
| `OrderProofs` | the theorems about the order, for every transaction |
| `DependencyOrder` | the abstract specification: elements are offered when all they wait for has been handled |
| `Repodata` | the directory pool; keys, schemata, pending attributes, internalizing, walks over the data |
| `SolvWrite`, `SolvRead` | writing a repository to a file, reading it into another pool |
| `Repository` | one repository in a pool: calls, publishing, stubs, saving and starting anew |
| `Attributes` | the abstract specification: packages with attributes by name |
| `RepositoryProperties`, `MCRepository` | the properties and the calls TLC makes |
| `RepoCache` | the cached files of `examples/solv.c`, shared by processes that may be killed; its properties |
| `Snapshots` | the abstract specification: each process sees one published state |
| `QueueBuffer`, `IdTables`, `PageStore`, `EdgeLists`, `MCStores` | queues in blocks of memory, interning with hash tables, pages in a buffer, packed lists of edges; the properties |
| `TrailProofs`, `SolverPromiseProofs` | theorems about rules and groups, the trail, and what is promised |
| `SearchProofs`, `ConflictProofs` | what may be given up; the invariant of the search and the theorems it yields: first the main loop, then propagation, analysis and learning |
| `StoreProofs`, `RepoCacheProofs` | theorems about queues, pages and edges in memory, and about cached files (those about `DependencyOrder` are in that module) |

`Engine` and `Solver` stand on `Rules` and `Trail`, `Solutions` on `Solver`. Rule
generation stands on `Pool` and `Policy` and ends where `Engine` begins: what
`Engine` assumes of its input (`WellFormed`) is what `HandedOver` checks of the
output of `RuleGeneration`. The order stands on `OrderGraph` and `Transaction`; the
two halves meet in `decisionq` only, which is a field of the package data
(`decision`). `Repository` has every layer below it as values; `RepoCache` knows of a
file only which version it has and whether it is sound, which is what
`Attributes` says a file keeps. The stores are independent of one another.

### State and steps

A *rule* is a record of its literals, its area, the group it is disabled with
(job number or package name), its weak bit and, for a learnt rule, the proof
`learnt_why`/`learnt_pool` leads to. Rule numbers are positions in the array, as
in the code; `disabled` holds the rules with negative `d`. `w` and `watches` are
the watched literals and, per literal, the linked list `n1`/`n2` as a sequence.
The trail is a record of three sequences. `pc` is the place in the code, `caller`
what `setpropagatelearn` returns to, `visit` the position in the list
`propagate` or `makeruledecisions` walks, `an` and `loc` the local variables that
live longer than a step.

A step is as small as it can matter: one rule on a watch list visited, one rule
resolved by `analyze`, one assertion decided, one decision of a section of the
main loop with its call of `setpropagatelearn`. What a call does before it
returns is part of the step: `analyze_unsolvable` with its loop over the queue is
one step that ends in `solver_reset`, which includes
`enabledisablelearntrules` and the start of `makeruledecisions`.

Two choices are left open, so the checks hold whatever they are: which candidates
`policy_filter_unwanted` keeps and in which order, and which of the weak
dependencies it finds best.

Left out: the filter that drops a supplemented package when another version of it
is installed (`solver.c` 1858-1876), `pool_installable` and file conflicts in the selection, the dummy rules that fill
the update and feature areas (their numbers are 0 in `upd` and `feat`), the
superfluous packages of cleandeps (a set per job; `CleanDeps` has how
`solver_createcleandepsmap` computes them), duplicates and order inside one problem's list, and the sort of the
candidates of the main loop by `policy_filter_unwanted` as such.

In `TransactionOrder`, `phase` is the part of `transaction_order` that runs; one
step is one element popped from the stack of the search, one cycle bound by
`addcycleedges`, or one element put in order. `todo`, `mark` and the edges are the
code's, with the packed array of edges as one list per element and a type as the
set of its bits. Building the graph and inverting it are one step each: nothing
can come in between. The package data of a transaction (the *world*) is an input,
one of the constant `Transactions`. `IsTransaction` says what the solver and the pool
guarantee about it: the decisions name each package once, what is replaced is installed
and goes, lists of providers name packages, and a package that comes has a repository.
It is an assumption (`TransactionsAssumption`) TLC evaluates in the run and the theorems use.
The pool's flags `implicitobsoleteusesprovides`, `obsoleteusesprovides` and
`obsoleteusescolors` have their defaults. `transaction_order` of a transaction
without elements returns at once.

The *rules* are inputs. `WellFormed` states what `solver_solve` guarantees about
them, and is an assumption TLC evaluates for every run: areas in order; rpm and
choice rules start with a negative literal; an install job makes one rule and
any other job assertions; and so on.

`Solutions` runs the whole of `Solver` again for each suggestion it tries, so
refining is not abstracted: what one trial leaves in the rules is what the next
starts from. An application asks for solutions of problems in any order, up to
`MaxAsks` times, and may take one.

In `RuleGeneration` one step is one package taken from the work queue of
`solver_addrpmrulesforsolvable`, or one job, name or installed package of the loops
that make policy rules; `CleanDeps` does one turn of its two loops per step. A pool
is a record of sequences with the code's ids; provider lists are the packed array
of `pool_createwhatprovides`, filled from the back. An evr is a number, ten times
the version plus the release: the text comparison of `vercmp` is not modelled.

A *repodata* has the code's arrays; one cell stands for what one `data_addid` or
`data_addblob` writes, so that offsets mean what they do in the code. Strings are
numbers for texts, ids are places in a pool, and files, repodatas and pools have
ids of their own. `Call` is one public function, `Publish` is
`repo_internalize`, `Save` writes the main or an external file, `Start` reads it
in a pool that gives out other ids, with a file that may break off (`Cuts`).

In `RepoCache` a process is a program counter and what it has in memory; each step
is one download, check, read, write or `rename` of `read_repos`, `usecachedrepo`,
`writecachedrepo`, `load_stub` or `rewrite_repos`. `Faults` are what may go wrong:
each may happen whenever it can.

A *queue* has `off`, `count`, `left` and its block; cells nobody has written, or will
read again, are `Stale`, so that states that differ in them only are one. A
*table* has its keys, the hash table with its chains, and the room of its array. A
*buffer* of pages says which page is in which slot, and which bytes the slot has,
apart. Edge lists are one array of numbers with zeros.

## Checks

Nine runs pass, three end in a violation. `NSolvables` is the number of solvables, 1
the system solvable. Where a run has a liveness property its specification has
weak fairness of the whole next-state relation, which says no more than that a
sequential program with a next instruction executes it; fairness of `RepoCache` and
`TransactionOrder` is explained below. Deadlock is checked unless the program really may stop.
A property that is a conjunction puts together what must hold of one thing;
`PROJECT.json` lists slips that violate its parts. The definitions whose names
end in `_` and a word are those slips.

| Run | Inputs | Shows |
|---|---|---|
| `search` (8 solvables) | 3 to 5 jobs with a choice of 2 or 3 packages, and 5 dependencies or conflicts out of 9, those with at most 2 solutions; two with a conflict over three levels; one whose learnt rule depends on a job given up later | trail, watches and lists stay whole, propagation is complete, proofs entail what was learnt, rules are given up only when the rest contradict |
| `main` (8) | two installed packages with overlapping updates that exclude what they replace; jobs and weak jobs that erase, lock or install what update and feature rules keep, a choice rule, infarch and dup rules, superfluous packages; a package that recommends things that exclude each other, supplements, an orphan, alternatives, the callback | installed packages come before open rules and assertions before all, problems are real, nothing of the packages is given up, extras cannot become unsolvable, the search implements `SolverPromise` and ends |
| `solutions` (5) | those problems of `main` for which rules are given up, with essential jobs and packages that may be installed several times; two questions | each solution works once it is taken, and can be taken; every problem has one and is explained; a solution once offered stays; making them ends |
| `generation` | 8 solvables, 16 relations, and 160 pools that deviate in one or two ways (vendor, architecture, obsoletes, conflicts, broken installed packages, weak dependencies, namespaces, splits, self conflicts, copies, priorities, nothing installed), 17 lists of jobs, options | the lists are exact; filters leave a choice; rules mean what the dependencies say and are explained; the closure is complete and what `Engine` assumes holds; installed packages are protected, jobs come before policy; what is cleaned up is superfluous; generation ends |
| `order` | all graphs over three packages with two kinds of requirements, for an application that may once run ahead of its choices (`MaxEarly = 1`) and begin anew at any time; all over four in which each package requires one or two; updates of two installed packages with two requirements anywhere; all ways two new packages replace three; installs from two media and repositories with an early uninstall; a single package, and nothing to do | the search finds every cycle with its whole chain on the stack, breaks the weakest edge, ends; the added edges close no cycle; the order respects the edges, keeps former cycles together and all steps, has requirements in place and changes media only when it must; `DependencyOrder` is implemented |
| `classes` | two new packages replace three installed ones in every way, with changed versions, architectures and vendors, in eleven modes | nothing is hidden or shown twice, counts match |
| `data` | two packages, 23 menus of up to three calls about every type of attribute, with markers, relations, directories, structures, copies and merges, two repodatas, local pools; five calls, two of them after a restart; sound files and broken ones | walks, offsets and schemata agree; a file is consistent; `Attributes` is implemented, through publishing, saving, restarts in other pools, stubs that load or fail |
| `cache` | two processes started three times in all, two published versions, repositories of three kinds, signed or not, and seven faults | a cookie tells the content, ext cookies are unique, `Snapshots` is implemented, a process gets through |
| `stores` | queues of up to 4 elements in 9 cells; 3 strings that share hash values, 2 relations, blocks of 2; 5 pages, ranges of up to 3 with reads that fail; 3 elements with edges of 2 types | queues fit and are sequences; what was interned is found and there is room for it; pages hold what they should; edges are kept and turned round |

### Bounds

The bounds matter where a conflict has to be several levels deep or a restart
has to happen twice: each run's menus were widened until a slip in each part of
the engine showed. Inputs without conflicts add states and no behaviour, so the
menus keep problems with few solutions. Update candidates exclude the package they
replace, as `solver_addrpmrulesforsolvable` makes sure they do.

The properties of the order hold for every edge and every cycle a graph can have on
these packages: a cycle of two that shares an edge with one of three or four, two
cycles that meet in one element, and cycles of mixed strength all occur. Four
elements are what it takes for an element outside a cycle of three, and for a
cycle broken while another is on the stack.

`data`: five calls are what it takes to set, publish, change, publish and save; two
after a restart to change what a file brought. The first pool starts empty and the
second has other ids and a relation the file needs, so that nothing keeps its
number. `cache`: with three starts a process can die after each half of a pair of
files has been written and two others can meet what it left; with a third version
nothing new happens, since a file only is of the version asked for or not.

`stores`: `EXTRA_SPACE` and its head are 2 (8 in the code), so that a block is
outgrown with `MaxCount = 4` elements; `Memory = 9` is the largest block that can be
needed then. Blocks of arrays are 2 entries (`STRING_BLOCK = 1`; a power of two less
one in the code, too); 5 strings outgrow a hash table twice. The buffer of pages
is 2 slots at least (`MinMap`; 4 in the code) and ranges are up to 3 pages, so it
grows, evicts and copies; the round-robin counter wraps at `RRPeriod = 6`, a multiple
of every number of slots it is taken modulo. Edge types have two bits.
`MaxData = 12` cells are enough for every relation between the three elements.

### Fairness

`TransactionOrder` assumes that the library runs on once called: `Fairness` is weak
fairness of `Order`, with its enabling condition `Running` written out (that a step of
`Order` is possible while it holds is what the deadlock check of this run shows: the
other actions are possible only after it). An application need not do anything.
`RepoCache` assumes that each process that is not killed executes its next step;
nothing is assumed of the server, nor that a fault ever happens or stops.
`classes` and `data` end when the walk or the menu is exhausted, `cache` when no
process is started any more, so deadlock is not checked there.

### The deepest properties

* `PropagationSound`: a false watch has a true partner that is undone no
  earlier. `revert` never repairs watches, so this is what makes lazy watching
  sound.
* `ProofsEntail` and `GivesUpOnlyWhenNeeded`: learnt rules are consequences of
  what they record, so switching them with their sources is enough.
* `PromiseKept`: every step of the search is a step of `SolverPromise` or
  stutters. A reported problem names rules that contradict the (not weakened)
  rules of the packages, and one of which was in force until then; silent drops
  concern weak rules only; policy rules alone come back into force; the solution
  satisfies everything still in force.
* `ExtrasSound`: the decisions for weak dependencies, orphans and branches never
  reach level 0, which the code does not check for there.
* `OffersSound`: a solution, taken by the application as changes of its jobs, makes
  a problem that the search solves without it having to give that up again.
* `RpmRulesRight`: the rules of a package, taken together, are satisfied by exactly
  the sets of packages its dependencies allow, and each is explained by a
  dependency the package has, after sorting and unifying.
* `HandedOver`: what `Engine` takes for granted holds of what was generated, and
  each package a rule names has its own rules.
* `BreaksTheWeakest`: an edge is given up only if edges at least as strong lead
  back, over the whole graph, and `DoneIsClosed`: what the search is done with
  never leads to something it is not done with, through all restarts.
* `OrderSound`: the edges that bind former cycles together, added cycle by cycle to a
  graph nobody checks again, close none; the order has every step once, in spite of what
  was taken out, replaced by several, and put back.
  The order that comes out of thirteen rules for edges is also
  one in which, without cycles, every package has what it requires when it is installed and until
  it is removed, if that is there at all (`RequirementsInPlace`). Two exceptions are the code's
  own: a replaced package
  without scripts is not waited for, nor one whose provider is replaced together with it.
* `CyclesStayTogether`: what was a cycle is handled in one go, although edges were broken and
  added for other cycles meanwhile. It is about needs: an element that was only bound to another
  cycle may still come in between. The exception is an element
  whose edge to or from the cycle had itself been broken: adding a reason to a
  broken edge leaves it broken.
* `KeepsAttributes`: repository and repodatas implement `Attributes`, in which an
  attribute is a name and a value: internalizing, saving and a restart with other
  ids change nothing.
* `KeepsSnapshots`: whatever is cached, half written or out of date, a process sees
  one published state, not older than an index it has asked for, and external data
  of that state.

### Where the code does not do what it says

Three runs end in a violation; `PROJECT.json` gives line and comment.

* `weakerase`: a weak job with several assertions is given up after some of them were
  decided; these decisions stay, and the result can break an update rule that is
  in force.
* `prune`: candidates are overwritten before the code finds that it must not prune.
* `clone`: `transaction_init_clone` copies as many edges as an index into another
  array says, and lists of the clone's elements begin behind its array.

Read in the code, and followed by the models, without a run of their own:

* Search. A job that is no weak one leaves its first assertions behind in the phase
  before, too (`solver.c` 246; the comment at 268 speaks of weak jobs), so that
  another job is blamed. `systemlevel` may be 1, and after a conflict back to
  level 1 the sections for jobs and installed packages are skipped (1493, 1394).
  `solver_reset` switches the learnt rules before it redoes the assertions, which
  may give up more rules; a rule learnt from those stays (843, 370). The problems
  of `main` have no weak or lock job with several assertions: `PromiseKept` does not
  hold for those.
* Rule generation. `solver_addchoicerules` takes conflict rules of packages that
  may be installed several times for rules of requirements.
  `solver_createcleandepsmap` skips a pass over supplements. `haveprovobs` is set
  before architecture and vendor are checked. In mode suggest `policy_filter_unwanted` should
  prune by priority for each name (comment at `policy.c` 456), but
  `prune_to_highest_prio_per_name` has no branch that collects the candidates of one name (119):
  its queue holds one element, `prune_to_highest_prio` is never reached, and the first
  of each name is kept, an installed one before others, then by subpriority and number,
  whatever its priority and version. `pool_vendor2mask` meets a null pointer at a second
  class block. `pool_trivial_installable` marks an installed
  package with any conflict that has a provider, not the providers (`pool.c` 1709).
* Transactions. For merged changes, `transaction_classify_pkgs` lists packages that do not
  change (`transaction.c` 520, `transaction.h` 98); `classes` leaves the two merging modes
  out.
* Repository data. `repodata_internalize` keeps an old value when an attribute gets
  another type or constant. `repo_set_num` of the rpm database id uses another index
  than the look up. `repo_reserve_ids` copies numbers where it should copy bytes. A stub
  whose file breaks off after its solvables takes the packages of the repository with it
  (`repo_solv.c` 1239), though the comment at 514 wants the stub's repodata to be
  replaced exactly; the run has no such files (`Cuts` leaves `late` out). `*keyarrayp[...]` takes an element of the wrong
  array (`repo_write.c` 1440-1455), and marks of needed ids can be stale (1340).
* String pools. `repo_add_solv` into a pool that has lists of providers adds strings
  without room for them in these lists (`LateFiles`), and after a file that breaks off the
  array of strings is not rounded up to blocks (`BadFiles`). Either violates `TablesSound`, so
  both are `FALSE` in the run `stores`. `queue_insertn` never takes back room in front.
* Cached repositories. `writecachedrepo` removes the temporary file when
  renaming it has worked, and leaves it when it has not (`solv.c` 1194). When
  update notices cannot be fetched, or the disk is full, an external file gets a cookie
  of zeros, and an empty reply that is no error is not taken for a bad checksum:
  the faults `notes`, `space` and `empty` violate `CookiesSound` and are left out of the run
  and of the theorems (`NoGap`). A process that started long ago may overwrite a newer
  file with what it has.

The run `data` makes no calls the code cannot cope with: no change of an attribute's
type after internalizing, no empty arrays of ids, no addition to an array that was
taken away or is shared by `repodata_merge_attrs` before it is internalized, no attribute
of one package in two repodatas, no nested structures, no relation inside an array of ids
as an attribute, and no saving while something is pending.

## Proofs

* `TrailProofs`: a problem id names exactly the group of its rule
  (`ProblemIdNamesGroup`, `JobProblemNamesGroup`), and a group stays inside its area
  (`GroupStaysInArea`). `DecideAgrees` and `DecideSorted` are about a decision, `CutAgrees`
  and `RevertUndoes` about undoing: on a trail whose arrays agree and whose levels are
  sorted, popping from the end removes exactly the decisions above the level.
* `SolverPromiseProofs`: `SolutionsAreSound`, for every set of problems whose rules
  are grouped as they should be: what the promise allows as a solution never
  breaks a rule of the packages. With `PromiseKept` this is a statement about the
  search.
* `SearchProofs`, first part: `RpmRulesAreKept`, that is `Spec => []RpmRulesKept`, for every number of
  solvables and every set of well-formed problems. `RpmRulesKept` is not inductive:
  which rules are disabled is decided by area, group and weak bit of members of
  an array that grows. The invariant `IInv` adds `RulesGrow` (the array starts with
  the rules of the problem and only learnt rules, never weak, follow), from which
  a group of a rule that may be given up never contains one that may not
  (`GroupIsNotHard`), and restates the property as `HardInForce`. One lemma per
  class of steps; those that disable rules are `AssertKeepsInvariant` and
  `ConflictKeepsInvariant`.
* `SearchProofs` and `ConflictProofs`: the soundness of the search, for every number of
  solvables, every set of well-formed problems and every choice of the policy. Five
  theorems follow from one inductive invariant, `SearchInv` (`SearchInvariant`):
  `SearchKeepsTrail` (`TrailSound`), `PropagationIsSound` (`PropagationSound`),
  `LearntRulesFollow` (`ProofsEntail`), `ProblemsAreProblems` (`ProblemProofsHold`) and
  `ExtrasAreSound` (`ExtrasSound`). The argument is below.
* `DependencyOrder`: for all elements and dependencies, what is on offer is
  exactly what waits for nothing any more, but for what was handled ahead of time
  (`OffersAreRight`), and an offer stands (`OffersStand`). With `KeepsPromise` this is a
  statement about the queues of `transaction_order` and the choices of
  `transaction_order_add_choices`. The invariant `OfferInv` needs both directions:
  that nothing is forgotten rests on everything ready having been offered before.
* `OrderProofs`: for every transaction, any number of packages and an application that does
  what it likes, eight theorems about `transaction_order` and
  `transaction_order_add_choices` from one inductive invariant, `OrderInv`:
  `SearchIsSound` (`CycleOnStack`, `DoneIsClosed`), `NoCycleIsLeft`, `AssertionsAlwaysHold`
  (`AssertionsHold`), `ChangesAreNeeded` (`NoNeedlessChange`), `OrderKeepsPromise`
  (`KeepsPromise`), and with a part of their own each `OnlyTheWeakestBreaks`
  (`BreaksTheWeakest`, with `WeakestInv`), `OrderIsSound` (`OrderSound`, with `PlainInv`) and
  `CyclesAreHandledTogether` (`CyclesStayTogether`, with `BoundInv`). So every property of
  the run `order` but `EventuallyOrdered` is proved. The argument is below.
* `StoreProofs`: `QueuesFit`, that is `QueueSpec => []QueueFits`, for all ids and all
  sizes of blocks, buffers and extra room. `Fits` adds that the four numbers are natural
  numbers, which is what goes wrong when room is given away twice; one lemma per
  operation says that a queue that fits still does, whatever its cells have. And
  `QueuesAreSequences` (`QueueIsSequence`): wherever in which block the elements are by
  the calls before, each call does what it would do with a sequence. The invariant
  `IsQueue` adds to `Fits` that the cells are memory and that a caller's buffer larger
  than `Memory`, a bound of the model, is still empty; a lemma per operation says where every
  element goes (`Spells`, `Splices`) and that the queue stays one.
* `StoreProofs`, pages: `PagesAreSound` (`PagesSound`) for any number of pages, of slots and
  of reads that fail, at whatever page. The invariant adds that every page that is mapped has a slot of
  its own in the buffer, and every slot that is taken is its page's. Loading a range goes
  in three passes, and a lemma for each says what it does to the slots: the range is made to fit
  (`EnlargedIs`), the best place evicts what is in the way (`BestIsPlace`, `EvictedIs`,
  `PlacedIs`), and filling takes the pages one by one (`FillPlaces`, an induction over the
  pages of the range), so a read that fails in the middle leaves the pages before it mapped and
  those behind it unmapped (`FailedIs`).
* `StoreProofs`, edges: `EdgesAreSound` (`EdgesSound`) for any number of elements and
  types. `EdgesKept` speaks of what a walk along a list meets; the invariant `IsEdges`
  says where the lists are. There are lengths, targets and types such that every list lies where
  its element says with a zero behind it, lists of different elements do not overlap,
  and all empty ones are the cell 0 (`Packed`), and these are the edges that were asked for, one pair for
  each target (`Graph`). A list that ends at the end of the array grows in place
  (`GrowsAtEnd`), every other one is copied behind it first (`GrowsCopied`), and setting a bit
  moves nothing (`TypedPacked`). For the lists that are turned round, the ends are sums of how
  many wait for each element, which are cardinalities (`CountNext`), so the lists do not
  overlap (`ListsApart`); the cells of a list are as many as the elements that wait, and
  filling it from its end gives each a cell of its own (`CellsFit`).
* `RepoCacheProofs`: for any number of processes, starts and versions, unless replies
  are empty, update notices fail or the disk is full (`NoGap`), cookies tell the
  truth (`CookiesAreSound`, the invariant of the run `cache`) and `RepoCache` implements
  `Snapshots` (`CacheKeepsSnapshots`). The strengthening `IInv` says, per process, what it
  has in memory depends on where it is (`Memory`), that what it has is of the index
  it goes by and not newer than the server (`Dated`), what a file it is writing has
  (`Written`), and that one that does not know its ext cookie can only find that the
  server has gone on (`External`). Across processes, an ext cookie that anybody has, in
  a file or in memory, is claimed for one version only (`OneVersion`), and was given out
  (`Given`), so the next one is new. One lemma per action; `StepKeeps` is what those have in
  common that leave the files alone. For the refinement, `Allowed` lists what a step
  of one process may do to what it sees, and `AllowedSteps` makes steps of `Snapshots`
  of it.

### The invariant of the search

None of the five properties is inductive. What a state between two calls must have
for them to hold at the end of the next one is in the conjuncts of `SearchInv`:

* `RulesTyped`, `WatchesWhole`: the array of rules only grows; a rule with two literals
  is watched by two different ones and is on exactly their two lists, once.
* `TrailInv`: queue, reasons and decision map agree, levels are sorted and have no gap,
  a forced decision has the highest level among the literals of its reason, and its
  reason is in force, or is an assertion and the decision of level 1. `level` is that
  of the last decision, or 0.
* `Phases`, `Locals`: where the program is and who called it. What is not propagated
  was decided at the current level; outside of propagation everything is propagated,
  except at level 1 on the way back to the start; the variables of the loops of
  `solver_run_sat` are in their ranges.
* `WatchesGuard`: once a rule in force has been looked at since its watch became
  false (`Noticed`), the other watch is true, and at no higher level. This is
  `WatchesSurviveRevert` for a list that is half walked, and after it was left half
  walked by a conflict. It is kept by an undo because the true watch goes no earlier,
  and by a conflict because what was not walked yet is of the level that is undone.
  Reenabled rules are the exception: they are only looked at again from the start,
  after everything has been undone.
* `Analysis`: the four stages of `analyze`. In the first, `num` counts the literals of the
  current level that were met and not resolved yet, in the second `l1num` those of
  level 1, so that the walk down the queue ends neither too early nor beyond it,
  and the literals kept are false at levels between 2 and `rlevel`.
* `DerivedFollows`, `UsesRulesInForce`: the rules resolved so far imply the clause made
  of the literals kept and of those still to be resolved, and all of them are in
  force, or are the assertions of level 1. With them the learnt rule follows from its
  recorded proof, also from the assertions `analyze` walks to in its second pass, and
  at level 1, where the clause is empty, they are a contradiction: a problem.
* `ExtrasHaveSolution`: while weak dependencies, orphans and branches are decided there
  is a set of packages that satisfies every rule in force and everything of level 1: the
  one the main loop found. A conflict at level 1 would refute it. That is why the
  code needs no check for level 0 there.
* `Branches`, `Recommendations`, `Problems`: branches are open at levels below the
  current one, sorted, and their alternatives are undecided or decided later; what is
  recommended is on the trail in its order; what is recorded is a proof.

`SearchProofs` first divides the main loop into steps that only move (`Moves`), decide
(`Decides`) or go back (`GoesBack`) and proves each conjunct for each kind; what
decisions and undoing do to literals, branches and recommendations are lemmas of their
own. `ConflictProofs` has propagation (a watch is moved, a unit is decided, a rule is
false), analysis (a rule is resolved, at either stage; the walk down the queue), the
problems found at level 1, and learning. Two of the lemmas are inductions over an interval of
numbers, about functions defined by recursion (`Only`, which stands for the C loops that
filter a queue in place); induction over rules or lists does not occur.

Not every property of the search can be had for every well-formed problem.
`AssertionsDecided` and `InstalledBeforeRules` rest on conditions of the inputs that
`WellFormed` does not have. `GivesUpOnlyWhenNeeded` and the steps of `PromiseKept` that
give rules up need to know that learnt rules are switched with their sources at every
moment; the solution at the end needs what a weak job can break (run `weakerase`). They
stay with TLC.

### The invariant of the order

* The search (`GraphInv`). The stack is a path of elements being visited, each followed by
  those of its successors that are still to be looked at, above the elements no path was
  begun from yet. So an element that is met again while it is visited is on the path,
  the part of the stack from there has a cycle, and what is done leads to what is done
  only, also after the chain of a cycle has been set back and is walked again. When the
  stack is empty everything is done, and a graph in which every element was done
  before those that lead to it has no cycle.
* The binding (`GraphSound`). An edge is added only from what is not
  reached from its target: `TailEdges` lets elements outside wait for the tail, and those
  the cycle leads to are left out (`TailCalls`); `HeadEdges` lets the head wait for what the others
  need, and what leads to the cycle is left out (`HeadCalls`). Either way all new edges lead into a
  set that leads to itself only, from outside it, so none closes a cycle (`StaysAcyclic`).
* What is bound (`BoundInv`). Every recorded cycle is still to be bound, or bound (`BoundIn`): what
  needs one of it has an edge to its tail, and its head one to what one of it needs.
  Binding a cycle makes that true of it (`BindBinds`) and leaves it true of the
  others: edges that are added are no needs, break nothing, and only make more reached
  (`MoreEdges`, `MoreReached`). A cycle without further broken edges falls from its tail to its head in
  the finished order (`WholeInOrder`), and so both edges are about all of it.
* What is broken (`WeakestInv`). `breakcycle` compares the types of the edges of one
  cycle, as a number; the property speaks of strengths and of the whole graph. That the lowest number is of
  the lowest strength holds as long as every edge has a reason and none binds a
  cycle (`EdgesReasoned`). That the two edges compared for an element are
  those of the cycle, and that the one marked is the one compared, needs that no element has two edges to the
  same one (`OneEdgeEach`, from `addedge`, which looks for an edge before it adds one). And what led back
  once does so to the end (`Justified`): breaking an edge and binding a cycle add marks,
  which strengths do not depend on, and edges, which take no way back away (`WaysStay`).
* The order (`OrderRight`, `OrderKept`). `mark[i]` is the number
  of elements `i` still waits for, the cardinality of a set that loses one
  element at a time. The three queues together hold exactly those that
  wait for nothing and are not handled, each once, and are what they should be by kind and medium. An acyclic graph
  with unhandled elements has one that waits for nothing, so when the queues are empty
  everything has been handled.
* The end (`OrderMade`). `add_obsoleted` puts a block for every active step: the step and
  the partners it is the first to replace, in the order of `PartnerBefore`, which is a
  strict total order of the partners. The blocks' offsets give each package its place.
* The requirements (`PlainInv`). As long as no cycle was broken the edges are those made from the
  transaction. From a requirement that is met at the end, or was met before, follows a
  call of `addedge` for it (`RequirementWaits`), for each element that stands for either package a call of
  `addteedge` (`LinkMakesCalls`), and an edge (`CallAddsEdge`). A package that is replaced by
  several is taken out with the first of them, which is what `FirstReplaces` is for.
* The choices (`ChoicesRight`). The counters go on as in the ordering loop, with 0 for what is offered
  and -1 for what was handled, offered or not, so an element is offered
  when what it waits for has been handled, and once. This is what the steps of
  `DependencyOrder` need.

The proof uses induction over numbers and over lengths of sequences only, with sets for
the induction hypotheses. Filters of lists are the operator `Only` in the modules
it is about, which is a function defined over the positions of the list.

### Assumptions, and what is only model-checked

The named `ASSUME`s of the modules are all evaluated by TLC in a run
(`NSolvables` is a positive number and every problem `WellFormed`; every transaction is one
(`IsTransaction`); the sizes of queues are positive; versions and starts are numbers); besides them there is `NoGap`. `WellFormed` is
what `HandedOver` checks of the output of rule generation. Liveness (`Termination`,
`CreationEnds`, `GenerationEnds`, `EventuallyOrdered`, `ReadingEnds`), the refinements but
`KeepsSnapshots` and `KeepsPromise`, and everything else under Checks are model-checked only. The modules with
recursive operators (`Pool`, `Policy`, rule generation, repository data) are out of the
prover's reach. Of the stores, the hash tables (`TablesSound`) are only model-checked: how many slots of a
table, whose size is a power of two, the growing steps of `HASHCHAIN_NEXT` visit is number
theory the provers have no help for.

## Not modelled

* The comparison of version texts (`vercmp`): an evr is a number. Interpreting texts
  character by character would be the program again.
* Checksums, third-party functions behind an interface; qsort and allocation wrappers;
  bitmaps, which are sets; output for debugging and the texts of problems and rules.
* The parsers of metadata and of the rpm database: text in, calls of repository data
  out, whose effect `Repository` has. File conflicts: headers of packages in, pairs out.
* `pool_addfileprovides`, `pool_trivial_installable`, `pool_calc_duchanges`,
  `repo_reserve_ids`, `repo_fix_supplements` and `repo_fix_conflicts`.
* The data iterator and `dataiterator_match`: a walk over what `Repodata` looks up;
  checksums, sizes and fixed arrays as types of attributes, which are stored like those
  that are modelled.
* The compression of pages, and how strings and numbers are coded in a file; a cell
  stands for one value.
* Tools, language bindings and the rest of the example application (configuration,
  downloads themselves, running the transaction).

## Plan

What could come next, in this order:

1. `pool_addfileprovides`: two passes over installed and available packages, with what
   was searched for remembered in the repository.
2. The data iterator as a state machine, against the set of what it should find.
3. Proofs for the hash tables (`TablesSound`) and for the steps of `SolverPromise` that give up
   rules.
4. The order of lists of edges in one array, with lists that move while they are walked,
   put under `TransactionOrder` in place of the sets it has now.
