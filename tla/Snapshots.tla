------------------------------- MODULE Snapshots ------------------------------
(***************************************************************************)
(* What an application that keeps repositories in a cache promises to one  *)
(* of its runs, whatever is cached, half written or out of date: it sees   *)
(* one state the server has published, not older than an index it has      *)
(* asked for, and what it reads later on belongs to that state.            *)
(* Refined by RepoCache (src/examples/solv.c).                             *)
(***************************************************************************)
EXTENDS Integers

CONSTANT Runs   \* who sees a repository

VARIABLES published,  \* the number of states the server has published
          asked,      \* per run, the state of the index it has asked for, until it sees one
          seen,       \* the state it sees, 0 for none
          more        \* the state of what it has read later on, 0 for nothing

snapshotVars == <<published, asked, seen, more>>

Init ==
  /\ published = 1
  /\ asked = [r \in Runs |-> 0] /\ seen = asked /\ more = asked

Publish == published' = published + 1 /\ UNCHANGED <<asked, seen, more>>

Ask(r) ==
  /\ seen[r] = 0
  /\ asked' = [asked EXCEPT ![r] = published]
  /\ UNCHANGED <<published, seen, more>>

See(r) ==
  /\ seen[r] = 0
  /\ \E v \in 1 .. published : v >= asked[r] /\ seen' = [seen EXCEPT ![r] = v]
  /\ asked' = [asked EXCEPT ![r] = 0]
  /\ UNCHANGED <<published, more>>

ReadMore(r) ==
  /\ seen[r] # 0
  /\ more' = [more EXCEPT ![r] = seen[r]]
  /\ UNCHANGED <<published, asked, seen>>

Leave(r) ==
  /\ asked' = [asked EXCEPT ![r] = 0] /\ seen' = [seen EXCEPT ![r] = 0] /\ more' = [more EXCEPT ![r] = 0]
  /\ UNCHANGED published

Next == Publish \/ \E r \in Runs : Ask(r) \/ See(r) \/ ReadMore(r) \/ Leave(r)

Spec == Init /\ [][Next]_snapshotVars
=============================================================================
