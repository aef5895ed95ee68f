------------------------------- MODULE IdTables ------------------------------
(***************************************************************************)
(* How a pool gives strings and relations their ids (src/strpool.c,        *)
(* src/poolid.c, src/hash.h; repo_solv.c for those of a file).  A table is *)
(* [of, keys, room, mask, hash]: its kind, what has the ids 1, 2, ..., how *)
(* many ids its array has room for, and the hash table, places 0..mask     *)
(* with an id or 0; mask 0 is no hash table.                               *)
(*   A string is a number, two strings have the same hash value.           *)
(* A relation is [name, evr, flags].  providers and relproviders are the   *)
(* sizes of the arrays that are indexed by ids, 0 when they are freed.     *)
(***************************************************************************)
EXTENDS Integers, Sequences, FiniteSets, SequencesExt

CONSTANTS
  Strings,                               \* what is interned; 0 is the empty string
  STRING_BLOCK, REL_BLOCK, WHATPROVIDES_BLOCK,  \* powers of two, less one
  MaxStrings, MaxRels,                   \* bounds: ids
  LateFiles, BadFiles                    \* files read after the lists of providers were made; that end early

ASSUME TableAssumption ==
  /\ Strings \subseteq Nat \ {0}
  /\ {STRING_BLOCK, REL_BLOCK, WHATPROVIDES_BLOCK} \subseteq {0, 1, 3, 7}

VARIABLES names, rels, providers, relproviders

tableVars == <<names, rels, providers, relproviders>>

strhash(s) == s \div 2
relhash(r) == r.name + 7 * r.evr + 13 * r.flags

Hash(t, key) == IF t.of = "strings" THEN strhash(key) ELSE relhash(key)

\* mkmask: at least twice as many places as asked for, a power of two.
mkmask(num) ==
  LET top == CHOOSE p \in {2 ^ k : k \in 0 .. 12} : p <= 2 * num /\ num < p
  IN  2 * top - 1

\* The n-th place looked at (HASHCHAIN_START, HASHCHAIN_NEXT).
Place(h, n, mask) == (h + 7 * n + (n * (n - 1)) \div 2) % (mask + 1)

First(ns) == CHOOSE n \in ns : \A m \in ns : n <= m

\* Where the chain from h ends: at the key or at an empty place.
Chained(t, key, h) ==
  Place(h, First({n \in 0 .. t.mask : t.hash[Place(h, n, t.mask)] \in {0} \cup {id \in DOMAIN t.keys : t.keys[id] = key}}), t.mask)

FirstFree(hash, h, mask) == Place(h, First({n \in 0 .. mask : hash[Place(h, n, mask)] = 0}), mask)

\* A new hash table with all keys.
Rehashed(t, mask) ==
  [t EXCEPT !.mask = mask,
            !.hash = FoldLeft(LAMBDA hash, id : [hash EXCEPT ![FirstFree(hash, Hash(t, t.keys[id]), mask)] = id],
                              [h \in 0 .. mask |-> 0], [id \in DOMAIN t.keys |-> id])]

NoHash(t) == [t EXCEPT !.mask = 0, !.hash = [h \in {0} |-> 0]]

\* sat_extend_resize, sat_extend for one more.
Rounded(n, block) == ((n + block) \div (block + 1)) * (block + 1)
Extended(room, n, block) == IF n % (block + 1) = 0 THEN n + 1 + block ELSE room

Count(t) == Len(t.keys) + 1

\* stringpool_shrink, pool_shrink_rels.
Cut(t, block) == [t EXCEPT !.room = Rounded(Count(t), block)]

\* A lookup finds a hash table that is less than half full.
Ready(t, block) ==
  IF Count(t) * 2 > t.mask THEN Rehashed(t, mkmask(Count(t) + block)) ELSE t

Found(t, key) == t.hash[Chained(t, key, Hash(t, key))]

\* The next id for a key the table does not have.
Added(t, key) ==
  [t EXCEPT !.keys = Append(t.keys, key), !.hash[Chained(t, key, Hash(t, key))] = Count(t)]

Interned(t, key, block, create) ==
  LET r == Ready(t, block)
  IN  IF Found(r, key) # 0 \/ ~create THEN r
      ELSE [Added(r, key) EXCEPT !.room = Extended(t.room, Count(t), block)]

\* Mutant: the array grows by the one entry.
Grown_One(size, old, new) ==
  IF size # 0 /\ new # old /\ old % (WHATPROVIDES_BLOCK + 1) = 0 THEN old + 1 ELSE size

\* The array that is indexed by ids grows with them.
Grown(size, old, new) ==
  IF size # 0 /\ new # old /\ old % (WHATPROVIDES_BLOCK + 1) = 0 THEN old + WHATPROVIDES_BLOCK + 1 ELSE size

----------------------------------------------------------------------------

TableInit ==
  /\ names = NoHash([of |-> "strings", keys |-> <<0>>, room |-> Rounded(2, STRING_BLOCK), mask |-> 0, hash |-> <<>>])
  /\ rels = NoHash([of |-> "rels", keys |-> <<>>, room |-> Rounded(1, REL_BLOCK), mask |-> 0, hash |-> <<>>])
  /\ providers = 0 /\ relproviders = 0

pool_str2id(s, create) ==
  /\ names' = Interned(names, s, STRING_BLOCK, create)
  /\ providers' = Grown(providers, Count(names), Count(names'))
  /\ Count(names') <= MaxStrings
  /\ UNCHANGED <<rels, relproviders>>

pool_rel2id(r, create) ==
  /\ rels' = Interned(rels, r, REL_BLOCK, create)
  /\ relproviders' = Grown(relproviders, Count(rels), Count(rels'))
  /\ Count(rels') <= MaxRels
  /\ UNCHANGED <<names, providers>>

pool_freeidhashes ==
  names' = NoHash(names) /\ rels' = NoHash(rels) /\ UNCHANGED <<providers, relproviders>>

\* pool_shrink_strings and pool_shrink_rels.
Shrink ==
  /\ names' = Cut(names, STRING_BLOCK) /\ rels' = Cut(rels, REL_BLOCK)
  /\ UNCHANGED <<providers, relproviders>>

pool_createwhatprovides ==
  /\ names' = NoHash(names) /\ rels' = NoHash(rels)
  /\ providers' = Rounded(Count(names), WHATPROVIDES_BLOCK)
  /\ relproviders' = Rounded(Count(rels), WHATPROVIDES_BLOCK)

pool_freewhatprovides == providers' = 0 /\ relproviders' = 0 /\ UNCHANGED <<names, rels>>

\* The keys of a file, for which room is made, in a hash table of their own.
Joined(t, read, num) ==
  FoldLeft(LAMBDA u, key : IF Found(u, key) # 0 THEN u ELSE Added(u, key),
           Rehashed([t EXCEPT !.room = Count(t) + num], mkmask(Count(t) + num)), read)

\* The pool's hash table is dropped, it lacks the new keys.
Unified(t, read, num) == NoHash(Joined(t, read, num))

IdOf(t, key) == CHOOSE i \in DOMAIN t.keys : t.keys[i] = key

\* Mutant: the pool's hash table is kept.
ReadInto_Kept(named, related, whole) ==
  /\ Count(named) <= MaxStrings /\ Count(related) <= MaxRels
  /\ names' = [Cut(named, STRING_BLOCK) EXCEPT !.mask = names.mask, !.hash = names.hash]
  /\ rels' = IF whole THEN related ELSE NoHash(rels)
  /\ UNCHANGED <<providers, relproviders>>

\* The arrays are cut to what is used; not when a file ends among its strings.
ReadInto(named, related, whole) ==
  /\ Count(named) <= MaxStrings /\ Count(related) <= MaxRels
  /\ names' = IF whole THEN Cut(named, STRING_BLOCK) ELSE named
  /\ rels' = IF whole THEN related ELSE NoHash(rels)
  /\ UNCHANGED <<providers, relproviders>>

Related(named, pairs) ==
  IF pairs = <<>> THEN NoHash(rels)
  ELSE Cut(Unified(rels, [k \in DOMAIN pairs |-> [name |-> IdOf(named, pairs[k][1]), evr |-> IdOf(named, pairs[k][2]), flags |-> 1]],
                   Len(pairs)), REL_BLOCK)

\* A file with strings and relations between them.
repo_add_solv(strs, pairs, whole) ==
  /\ LateFiles \/ providers = 0
  /\ whole \/ BadFiles
  /\ \E named \in {Unified(names, strs, Len(strs) + 2)} : ReadInto(named, Related(named, pairs), whole)

\* Relations of the first strings there are.
Relations == [name : 2 .. Count(names) - 1, evr : 2 .. Min({3, Count(names) - 1}), flags : {1}]

\* Two strings, and relations in both directions or none.
Files == {<<s, r>> : s \in {t \in Strings \X Strings : t[1] < t[2]}, r \in {<<>>, <<1, 2>>}}

TableNext ==
  \/ \E s \in Strings, create \in BOOLEAN : pool_str2id(s, create)
  \/ \E r \in Relations, create \in BOOLEAN : pool_rel2id(r, create)
  \/ pool_freeidhashes \/ Shrink \/ pool_createwhatprovides \/ pool_freewhatprovides
  \/ \E f \in Files, whole \in BOOLEAN :
       repo_add_solv(f[1], IF f[2] = <<>> THEN <<>> ELSE <<f[1], <<f[1][2], f[1][1]>>>>, whole)
=============================================================================
