---------------------------- MODULE ConflictProofs ----------------------------
(***************************************************************************)
(* Propagation, conflicts and learning keep the invariant of SearchProofs; *)
(* with them every step does, and the theorems about the search follow.    *)
(***************************************************************************)
EXTENDS SearchProofs

----------------------------------------------------------------------------
(* Propagation.                                                            *)

\* The loops' variables are good where they were good.
LEMMA LocalsStay ==
  ASSUME SearchInv, Phases', UNCHANGED <<in, loc>>, pc \in Running, Placed' = Placed,
         Len(rules') \in Nat, Len(rules) <= Len(rules')
  PROVE  Locals'
<1>1. LocalsAt(Placed) /\ Placed # "recommended"
  <2>1. Placed = caller.at /\ caller.at # "recommended"
    BY DEF SearchInv, Phases, Placed, SystemBacks, UncheckedCallers
  <2>2. QED BY <2>1, LocalsPlaced DEF SearchInv
<1>2. loc' = loc /\ NInstalled' = NInstalled /\ Len(rules) \in Nat
  BY RuleFacts DEF SearchInv, NInstalled
<1>3. LocalsAt(Placed)'
  <2>1. \A i \in 1..Len(rules) : i \in 1..Len(rules')
    BY <1>2
  <2>2. QED BY <1>1, <1>2, <2>1 DEF LocalsAt
<1>4. (Phases => (Locals <=> LocalsAt(Placed)))'
  BY LocalsPlaced, PTL
<1>5. QED BY <1>3, <1>4

\* The rule that is visited, and its watch that became false.
LEMMA VisitFacts ==
  ASSUME SearchInv, pc = "propagate", Visiting
  PROVE  /\ propagate_index \in 1..Len(trail.q) /\ visit \in 1..Len(watches[Falsified])
         /\ Falsified \in Literals(Solvables) /\ trail.q[propagate_index] = -Falsified
         /\ watches[Falsified] \in Seq(Nat)
         /\ IsFalse(trail.map, Falsified) /\ LevelOf(Falsified) = level
         /\ level = TopLevel(trail) /\ level > 0
         /\ Visited \in DOMAIN rules /\ ~IsAssertion(rules[Visited])
         /\ Triggered \in {1, 2} /\ 3 - Triggered \in {1, 2} /\ 3 - (3 - Triggered) = Triggered
         /\ w[Visited][Triggered] = Falsified
         /\ OtherWatch \in Lits(Visited) /\ OtherWatch \in Literals(Solvables)
         /\ OtherWatch # Falsified /\ Falsified \in Lits(Visited)
         /\ Lits(Visited) \subseteq Literals(Solvables)
<1>1. /\ visit \in Nat /\ visit > 0 /\ propagate_index > 0 /\ visit <= Len(watches[Falsified])
      /\ \A k \in DOMAIN trail.q :
           k > propagate_index \/ (k = propagate_index /\ visit > 0) => LevelAt(k) = level
      /\ level \in Nat /\ level # 0
  BY DEF Visiting, SearchInv, Phases
<1>2. propagate_index \in 1..Len(trail.q)
  BY <1>1, TrailFacts
<1>3. /\ Falsified \in Literals(Solvables) /\ trail.q[propagate_index] = -Falsified
      /\ IsFalse(trail.map, Falsified) /\ LevelOf(Falsified) = level
  BY <1>1, <1>2, TrailFacts DEF Falsified
<1>4. /\ watches[Falsified] \in Seq(Nat) /\ Range(watches[Falsified]) = Watching(Falsified)
  BY <1>3 DEF SearchInv, WatchesWhole
<1> HIDE DEF Falsified
<1>5. visit \in 1..Len(watches[Falsified])
  BY <1>1, <1>4
<1>6. Visited \in Watching(Falsified)
  BY <1>4, <1>5, RangeFacts DEF Visited
<1>7. Visited \in DOMAIN rules /\ ~IsAssertion(rules[Visited])
      /\ (Falsified = w[Visited][1] \/ Falsified = w[Visited][2])
  BY <1>6 DEF Watching
<1> HIDE DEF Visited
<1>8. Triggered \in {1, 2} /\ w[Visited][Triggered] = Falsified
  BY <1>7 DEF Triggered
<1>9. /\ OtherWatch \in Lits(Visited) /\ OtherWatch \in Literals(Solvables)
      /\ OtherWatch # Falsified /\ Falsified \in Lits(Visited)
      /\ 3 - Triggered \in {1, 2} /\ 3 - (3 - Triggered) = Triggered
  BY <1>7, <1>8, WatchFacts DEF OtherWatch
<1>10. level = TopLevel(trail) /\ level > 0
  BY <1>1, SearchFacts
<1>11. Lits(Visited) \subseteq Literals(Solvables)
  BY <1>7, RuleFacts DEF SearchInv
<1>12. QED BY <1>2, <1>3, <1>4, <1>5, <1>7, <1>8, <1>9, <1>10, <1>11

\* A rule that is visited with watch a falsified is triggered at a.
LEMMA TriggeredIs ==
  ASSUME SearchInv, pc = "propagate", Visiting, NEW a \in {1, 2}, w[Visited][a] = Falsified
  PROVE  a = Triggered /\ w[Visited][3 - a] = OtherWatch
<1>1. /\ Visited \in DOMAIN rules /\ ~IsAssertion(rules[Visited])
      /\ Triggered \in {1, 2} /\ w[Visited][Triggered] = Falsified
  BY VisitFacts
<1>2. w[Visited][1] # w[Visited][2]
  BY <1>1 DEF SearchInv, WatchesWhole
<1>3. a = Triggered
  BY <1>1, <1>2
<1>4. QED BY <1>3 DEF OtherWatch

\* A step of the propagation that decides nothing keeps what is not about
\* watches.
LEMMA PropagateFrame ==
  ASSUME SearchInv, pc = "propagate",
         UNCHANGED <<in, rules, disabled, problems, trail, branches, recommendations, level,
                     systemlevel, caller, an, loc>>,
         propagate_index' \in 0..Len(trail.q), visit' \in Nat, visit' > 0 => propagate_index' > 0,
         \A k \in DOMAIN trail.q :
           k > propagate_index' \/ (k = propagate_index' /\ visit' > 0) =>
             k > propagate_index \/ (k = propagate_index /\ visit > 0),
         \/ pc' = "propagate"
         \/ pc' = caller.at /\ visit' = 0 /\ propagate_index' = Len(trail.q),
         WatchesWhole', WatchesGuard'
  PROVE  SearchInv'
<1>1. /\ in' = in /\ rules' = rules /\ disabled' = disabled /\ problems' = problems
      /\ trail' = trail /\ branches' = branches /\ recommendations' = recommendations
      /\ level' = level /\ systemlevel' = systemlevel /\ caller' = caller
      /\ an' = an /\ loc' = loc
  OBVIOUS
<1>2. /\ RulesTyped' /\ ProofsEntail' /\ TrailInv' /\ Branches'
  BY <1>1 DEF SearchInv, RulesTyped, RulesGrow, ProofsEntail, TrailInv, ReasonsInForce, LevelAt,
              Enabled, Branches, Undecided, LevelOf
<1>3. Problems'
  BY <1>1, ProblemsStay DEF SearchInv
<1>4. pc' = "propagate" \/ pc' \in SystemBacks \cup UncheckedCallers \cup {"top", "jobs"}
  BY DEF SearchInv, Phases
<1>5. Recommendations'
  BY <1>1, <1>4 DEF SearchInv, Recommendations, RecommendationsOnTrail, SystemBacks, UncheckedCallers
<1>6. Phases'
  <2>1. /\ caller.at \in SystemBacks \cup UncheckedCallers \cup {"top", "jobs"}
        /\ caller = [at |-> caller.at, olevel |-> caller.olevel, disablerules |-> caller.disablerules]
        /\ caller.olevel \in Nat /\ caller.olevel > 0
        /\ systemlevel \in 1..(NSolvables + 1) /\ level \in Nat /\ level # 0
        /\ \A k \in DOMAIN trail.q :
             k > propagate_index \/ (k = propagate_index /\ visit > 0) => LevelAt(k) = level
    BY DEF SearchInv, Phases
  <2>2. pc' \in Running \cup Resting \cup SystemBacks \cup UncheckedCallers \cup {"top", "hopeless"}
    BY <1>4 DEF Running, Resting
  <2>3. pc' \notin {"assert", "assertweak", "analyze"}
    BY <1>4 DEF SystemBacks, UncheckedCallers
  <2>4. pc' \notin Running => visit' = 0
    BY <1>4 DEF Running
  <2>5. pc' # "propagate" => Propagated'
    BY <1>1 DEF Propagated
  <2>6. pc' \in Resting \cup UncheckedCallers \cup SystemBacks \cup {"top"} => Propagated'
    BY <2>5 DEF Resting, UncheckedCallers, SystemBacks, Extras
  <2>7. \A k \in DOMAIN trail'.q :
          k > propagate_index' \/ (k = propagate_index' /\ visit' > 0) => LevelAt(k)' = level'
    BY <1>1, <2>1 DEF LevelAt
  <2>8. QED BY <1>1, <2>1, <2>2, <2>3, <2>4, <2>6, <2>7 DEF Phases
<1>7. Locals'
  <2>1. Placed' = Placed /\ pc \in Running
    BY <1>1, <1>4 DEF Placed, Running, SystemBacks, UncheckedCallers
  <2>2. Len(rules') \in Nat /\ Len(rules) <= Len(rules')
    BY <1>1, RuleFacts DEF SearchInv
  <2>3. QED BY <1>1, <1>6, <2>1, <2>2, LocalsStay
<1>8. ExtrasHaveSolution'
  <2>1. InExtras' => InExtras
    BY <1>1, <1>4 DEF InExtras, Extras, SystemBacks, UncheckedCallers
  <2>2. QED BY <1>1, <2>1 DEF SearchInv, ExtrasHaveSolution, EnabledRules, LevelAt
<1>9. pc' # "analyze"
  BY <1>4 DEF SystemBacks, UncheckedCallers
<1>10. QED BY <1>2, <1>3, <1>5, <1>6, <1>7, <1>8, <1>9, NotAnalysing DEF SearchInv

\* When the list of a decision is done, no rule is left on it: the decisions
\* looked at have all been noticed.
LEMMA ListDone ==
  ASSUME SearchInv, pc = "propagate", ~Visiting,
         NEW i \in DOMAIN rules, ~IsAssertion(rules[i]), NEW a \in {1, 2},
         IsFalse(trail.map, w[i][a]),
         NEW k \in 1..propagate_index, trail.q[k] = -w[i][a]
  PROVE  Noticed(i, w[i][a])
<1>1. w[i][a] \in Literals(Solvables)
  BY WatchFacts
<1>2. ASSUME k = propagate_index, visit > 0
      PROVE  \A j \in DOMAIN watches[w[i][a]] : j >= visit => watches[w[i][a]][j] # i
  <2>1. Falsified = w[i][a] /\ watches[w[i][a]] \in Seq(Nat)
    BY <1>1, <1>2, TrailFacts DEF Falsified, SearchInv, WatchesWhole
  <2>2. visit \in Nat /\ visit > Len(watches[w[i][a]])
    BY <1>2, <2>1 DEF Visiting, SearchInv, Phases
  <2>3. QED BY <2>1, <2>2
<1>3. QED BY <1>2 DEF Noticed

\* propagate takes the next decision.
LEMMA NextKeeps ==
  ASSUME SearchInv, PropagateNext
  PROVE  SearchInv'
<1>1. /\ in' = in /\ rules' = rules /\ w' = w /\ watches' = watches
      /\ disabled' = disabled /\ trail' = trail /\ level' = level
      /\ pc = "propagate" /\ ~Visiting /\ propagate_index < Len(trail.q)
      /\ propagate_index' = propagate_index + 1 /\ visit' = 1
  BY DEF PropagateNext, ruleVars
<1>2. propagate_index' \in 0..Len(trail.q) /\ propagate_index' > 0 /\ propagate_index \in Nat
      /\ DOMAIN trail.q = 1..Len(trail.q) /\ Len(trail.q) \in Nat
  BY <1>1, TrailFacts
<1>3. \A k \in DOMAIN trail.q :
        k > propagate_index' \/ (k = propagate_index' /\ visit' > 0) => k > propagate_index
  BY <1>1, <1>2
<1>4. WatchesWhole'
  BY <1>1 DEF SearchInv, WatchesWhole, Lits, Watching
<1>5. WatchesGuard'
  <2>1. SUFFICES ASSUME NEW i \in EnabledRules, ~IsAssertion(rules[i]), NEW a \in {1, 2},
                        Noticed(i, w[i][a])'
                 PROVE  Noticed(i, w[i][a])
    BY <1>1 DEF SearchInv, WatchesGuard, EnabledRules, LevelOf
  <2>2. i \in DOMAIN rules /\ w[i][a] \in Literals(Solvables) /\ i \in Watching(w[i][a])
    <3>1. i \in DOMAIN rules
      BY <2>1 DEF EnabledRules
    <3>2. w[i][a] \in {w[i][1], w[i][2]}
      BY <2>1
    <3>3. QED BY <2>1, <3>1, <3>2, WatchFacts DEF Watching
  <2>3. watches[w[i][a]] \in Seq(Nat) /\ i \in Range(watches[w[i][a]])
    BY <2>2 DEF SearchInv, WatchesWhole
  <2>4. PICK j \in 1..Len(watches[w[i][a]]) : watches[w[i][a]][j] = i
    BY <2>3, RangeFacts
  <2>5. j \in DOMAIN watches[w[i][a]] /\ j >= 1
    BY <2>3, <2>4
  <2>6. IsFalse(trail.map, w[i][a])
    BY <1>1, <2>1 DEF Noticed
  <2>7. PICK k \in 1..(propagate_index + 1) :
          /\ trail.q[k] = -w[i][a]
          /\ k = propagate_index + 1 => \A m \in DOMAIN watches[w[i][a]] : m >= 1 => watches[w[i][a]][m] # i
    <3>1. 1 > 0
      OBVIOUS
    <3>2. QED BY <1>1, <2>1, <3>1 DEF Noticed
  <2>8. k \in 1..propagate_index
    <3>1. k # propagate_index + 1
      BY <2>4, <2>5, <2>7
    <3>2. QED BY <1>2, <3>1
  <2>9. QED BY <1>1, <2>1, <2>2, <2>6, <2>7, <2>8, ListDone
<1>6. QED BY <1>1, <1>2, <1>3, <1>4, <1>5, PropagateFrame DEF PropagateNext, ruleVars

\* propagate has looked at all decisions.
LEMMA DoneKeeps ==
  ASSUME SearchInv, PropagateDone
  PROVE  SearchInv'
<1>1. /\ in' = in /\ rules' = rules /\ w' = w /\ watches' = watches
      /\ disabled' = disabled /\ trail' = trail /\ level' = level
      /\ pc = "propagate" /\ ~Visiting /\ propagate_index = Len(trail.q)
      /\ propagate_index' = propagate_index /\ visit' = 0 /\ pc' = caller.at
  BY DEF PropagateDone, ruleVars, searchVars
<1>2. propagate_index' \in 0..Len(trail.q)
  BY <1>1, TrailFacts
<1>3. WatchesWhole'
  BY <1>1 DEF SearchInv, WatchesWhole, Lits, Watching
<1>4. WatchesGuard'
  <2>1. SUFFICES ASSUME NEW i \in EnabledRules, ~IsAssertion(rules[i]), NEW a \in {1, 2},
                        Noticed(i, w[i][a])'
                 PROVE  Noticed(i, w[i][a])
    BY <1>1 DEF SearchInv, WatchesGuard, EnabledRules, LevelOf
  <2>2. IsFalse(trail.map, w[i][a]) /\ \E k \in 1..propagate_index : trail.q[k] = -w[i][a]
    BY <1>1, <2>1 DEF Noticed
  <2>3. QED BY <1>1, <2>1, <2>2, ListDone DEF EnabledRules
<1>5. ~(visit' > 0) /\ visit' \in Nat
  BY <1>1
<1>6. QED BY <1>1, <1>2, <1>3, <1>4, <1>5, PropagateFrame DEF PropagateDone, ruleVars, searchVars

\* A rule is passed over: it is disabled, or its other watch is true.
LEMMA SkipKeeps ==
  ASSUME SearchInv, PropagateSkip
  PROVE  SearchInv'
<1>1. /\ in' = in /\ rules' = rules /\ w' = w /\ watches' = watches
      /\ disabled' = disabled /\ trail' = trail /\ level' = level
      /\ pc = "propagate" /\ Visiting /\ Settled /\ pc' = pc
      /\ propagate_index' = propagate_index /\ visit' = visit + 1
  BY DEF PropagateSkip, ruleVars, searchVars
<1>2. /\ visit \in Nat /\ visit > 0 /\ propagate_index' \in 0..Len(trail.q) /\ propagate_index' > 0
      /\ visit' \in Nat
  <2>1. visit \in Nat /\ visit > 0 /\ propagate_index \in 1..Len(trail.q)
    BY <1>1, VisitFacts DEF Visiting, SearchInv, Phases
  <2>2. QED BY <1>1, <2>1, TrailFacts
<1>3. WatchesWhole'
  BY <1>1 DEF SearchInv, WatchesWhole, Lits, Watching
<1>4. WatchesGuard'
  <2>1. SUFFICES ASSUME NEW i \in EnabledRules, ~IsAssertion(rules[i]), NEW a \in {1, 2},
                        Noticed(i, w[i][a])'
                 PROVE  IsTrue(trail.map, w[i][3 - a]) /\ LevelOf(w[i][3 - a]) <= LevelOf(w[i][a])
    BY <1>1 DEF WatchesGuard, EnabledRules, LevelOf
  <2>2. /\ i \in DOMAIN rules /\ Enabled(i) /\ w[i][a] \in Literals(Solvables)
        /\ w[i][3 - a] \in Literals(Solvables) /\ level > 0
    BY <1>1, <2>1, WatchFacts, VisitFacts DEF EnabledRules, Enabled
  <2>3. PICK k \in 1..propagate_index :
          /\ trail.q[k] = -w[i][a]
          /\ k = propagate_index =>
               \A j \in DOMAIN watches[w[i][a]] : j >= visit + 1 => watches[w[i][a]][j] # i
    <3>1. visit + 1 > 0
      BY <1>2
    <3>2. QED BY <1>1, <2>1, <3>1 DEF Noticed
  <2>4. IsFalse(trail.map, w[i][a])
    BY <1>1, <2>1 DEF Noticed
  <2>5. CASE Noticed(i, w[i][a])
    BY <2>1, <2>2, <2>5 DEF SearchInv, WatchesGuard
  <2>6. CASE ~Noticed(i, w[i][a])
    <3>1. k = propagate_index
      BY <2>3, <2>4, <2>6 DEF Noticed
    <3>2. PICK j \in DOMAIN watches[w[i][a]] : j >= visit /\ watches[w[i][a]][j] = i
      BY <2>3, <2>4, <2>6, <3>1 DEF Noticed
    <3>3. w[i][a] = Falsified
      BY <2>2, <2>3, <3>1, TrailFacts DEF Falsified
    <3>4. DOMAIN watches[w[i][a]] \subseteq Nat
      BY SMTT(30), <1>1, <3>3, VisitFacts
    <3>5. j = visit
      BY <1>2, <2>3, <3>1, <3>2, <3>4
    <3>6. i = Visited
      BY <3>2, <3>3, <3>5 DEF Visited
    <3>7. w[i][3 - a] = OtherWatch
      BY <1>1, <3>3, <3>6, TriggeredIs
    <3>8. IsTrue(trail.map, w[i][3 - a])
      BY <1>1, <2>2, <3>6, <3>7 DEF Settled
    <3>9. LevelOf(w[i][3 - a]) <= LevelOf(w[i][a])
      <4>1. LevelOf(w[i][a]) = TopLevel(trail)
        BY <1>1, <3>3, VisitFacts
      <4>2. LevelOf(w[i][3 - a]) \in 1..TopLevel(trail)
        BY <2>2, <3>8, TrailFacts
      <4>3. TopLevel(trail) \in Nat
        BY SearchFacts
      <4>4. QED BY <4>1, <4>2, <4>3
    <3>10. QED BY <3>8, <3>9
  <2>7. QED BY <2>5, <2>6
<1>5. QED BY <1>1, <1>2, <1>3, <1>4, PropagateFrame DEF PropagateSkip, ruleVars, searchVars

\* The watch moves to another literal of the rule that is not false.
LEMMA NewWatchFacts ==
  ASSUME SearchInv, pc = "propagate", Visiting, Unfalsified # {}
  PROVE  /\ NewWatch \in Lits(Visited) /\ NewWatch \in Literals(Solvables)
         /\ NewWatch # OtherWatch /\ NewWatch # Falsified /\ ~IsFalse(trail.map, NewWatch)
<1>1. Visited \in DOMAIN rules /\ IsFalse(trail.map, Falsified)
  BY VisitFacts
<1>2. Unfalsified \subseteq DOMAIN rules[Visited].lits
  BY DEF Unfalsified
<1>3. Unfalsified \subseteq Nat
  BY <1>1, <1>2, RuleFacts DEF SearchInv
<1>4. Min(Unfalsified) \in Unfalsified
  BY <1>3, MinIsLeast
<1>5. NewWatch # OtherWatch /\ ~IsFalse(trail.map, NewWatch)
  BY <1>4 DEF Unfalsified, NewWatch
<1>6. NewWatch \in Lits(Visited)
  BY <1>1, <1>2, <1>4, RuleFacts DEF SearchInv, NewWatch
<1>7. QED BY <1>1, <1>5, <1>6, RuleFacts DEF SearchInv

\* Where the watches are after a move.
LEMMA MovedWatches ==
  ASSUME SearchInv, pc = "propagate", Visiting, Unfalsified # {},
         w' = [w EXCEPT ![Visited][Triggered] = NewWatch]
  PROVE  /\ w' \in Seq([1..2 -> Int]) /\ Len(w') = Len(rules)
         /\ \A i \in DOMAIN rules \ {Visited} : w'[i] = w[i]
         /\ w'[Visited][Triggered] = NewWatch /\ w'[Visited][3 - Triggered] = OtherWatch
         /\ {w'[Visited][1], w'[Visited][2]} = {NewWatch, OtherWatch}
         /\ {w[Visited][1], w[Visited][2]} = {Falsified, OtherWatch}
<1>1. /\ w \in Seq([1..2 -> Int]) /\ Len(w) = Len(rules) /\ DOMAIN w = DOMAIN rules
  BY RuleFacts DEF SearchInv, WatchesWhole
<1>2. /\ Visited \in DOMAIN w /\ Triggered \in 1..2 /\ 3 - Triggered \in 1..2 /\ 3 - Triggered # Triggered
      /\ w[Visited][Triggered] = Falsified
  BY <1>1, VisitFacts
<1>3. NewWatch \in Int
  BY NewWatchFacts, TrailFacts
<1>4. w[Visited] \in [1..2 -> Int]
  BY <1>1, <1>2
<1> DEFINE new == [w[Visited] EXCEPT ![Triggered] = NewWatch]
<1> HIDE DEF Visited, Triggered, NewWatch, Falsified
<1>5. /\ new \in [1..2 -> Int] /\ new[Triggered] = NewWatch
      /\ new[3 - Triggered] = w[Visited][3 - Triggered]
  BY <1>2, <1>3, <1>4
<1>6. w' = [w EXCEPT ![Visited] = new]
  BY DEF Visited, Triggered, NewWatch
<1> HIDE DEF new
<1>7. /\ w' \in Seq([1..2 -> Int]) /\ Len(w') = Len(w) /\ w'[Visited] = new
      /\ \A i \in DOMAIN w \ {Visited} : w'[i] = w[i]
  BY <1>1, <1>2, <1>5, <1>6
<1>8. \A f : {f[1], f[2]} = {f[Triggered], f[3 - Triggered]}
  <2>1. CASE Triggered = 1
    BY <2>1
  <2>2. CASE Triggered = 2
    BY <2>2
  <2>3. QED BY <1>2, <2>1, <2>2
<1>9. w[Visited][3 - Triggered] = OtherWatch
  BY DEF OtherWatch
<1>10. QED BY <1>1, <1>2, <1>5, <1>7, <1>8, <1>9

\* A move keeps the lists and the watches together.
LEMMA MoveKeepsWatches ==
  ASSUME SearchInv, PropagateMove
  PROVE  WatchesWhole'
<1>1. /\ pc = "propagate" /\ Visiting /\ Unfalsified # {} /\ rules' = rules
      /\ w' = [w EXCEPT ![Visited][Triggered] = NewWatch]
      /\ watches' = [watches EXCEPT ![Falsified] = RemoveAt(@, visit), ![NewWatch] = <<Visited>> \o @]
  BY DEF PropagateMove
<1>2. /\ w' \in Seq([1..2 -> Int]) /\ Len(w') = Len(rules)
      /\ \A i \in DOMAIN rules \ {Visited} : w'[i] = w[i]
      /\ w'[Visited][Triggered] = NewWatch /\ w'[Visited][3 - Triggered] = OtherWatch
      /\ {w'[Visited][1], w'[Visited][2]} = {NewWatch, OtherWatch}
      /\ {w[Visited][1], w[Visited][2]} = {Falsified, OtherWatch}
  BY <1>1, MovedWatches
<1>3. /\ Visited \in DOMAIN rules /\ ~IsAssertion(rules[Visited]) /\ OtherWatch \in Lits(Visited)
      /\ Falsified \in Literals(Solvables) /\ OtherWatch # Falsified
      /\ visit \in 1..Len(watches[Falsified])
  BY <1>1, VisitFacts
<1>4. /\ NewWatch \in Lits(Visited) /\ NewWatch \in Literals(Solvables)
      /\ NewWatch # OtherWatch /\ NewWatch # Falsified
  BY <1>1, NewWatchFacts
<1>5. /\ watches \in [Literals(Solvables) -> Seq(Nat)]
      /\ \A l \in Literals(Solvables) :
           /\ Range(watches[l]) = Watching(l)
           /\ \A j, k \in 1..Len(watches[l]) : watches[l][j] = watches[l][k] => j = k
  BY DEF SearchInv, WatchesWhole
<1>6. watches[Falsified][visit] = Visited /\ Visited \in Nat
  BY <1>3, RuleFacts DEF Visited, SearchInv
<1> DEFINE out == RemoveAt(watches[Falsified], visit)
           into == <<Visited>> \o watches[NewWatch]
<1> HIDE DEF Visited, Falsified, NewWatch, OtherWatch, Triggered
<1>7. /\ out \in Seq(Nat) /\ Range(out) = Range(watches[Falsified]) \ {Visited}
      /\ \A j, k \in DOMAIN out : out[j] = out[k] => j = k
  BY SMTT(30), <1>3, <1>5, <1>6, TakenOut
<1>8. Visited \notin Range(watches[NewWatch])
  <2>1. NewWatch \notin {w[Visited][1], w[Visited][2]}
    BY <1>2, <1>4
  <2>2. QED BY <1>4, <1>5, <2>1 DEF Watching
<1>9. /\ into \in Seq(Nat) /\ Range(into) = Range(watches[NewWatch]) \cup {Visited}
      /\ \A j, k \in DOMAIN into : into[j] = into[k] => j = k
  <2>1. watches[NewWatch] \in Seq(Nat)
    BY <1>4, <1>5
  <2>2. \A j, k \in 1..Len(watches[NewWatch]) : watches[NewWatch][j] = watches[NewWatch][k] => j = k
    BY <1>4, <1>5
  <2>3. into = InFront(Visited, watches[NewWatch])
    BY DEF InFront
  <2> HIDE DEF into
  <2> DEFINE old == watches[NewWatch]
  <2>4. old \in Seq(Nat) /\ Visited \notin Range(old) /\ into = InFront(Visited, old)
        /\ \A j, k \in 1..Len(old) : old[j] = old[k] => j = k
    BY <1>8, <2>1, <2>2, <2>3
  <2>9. Visited \in Nat
    BY <1>6
  <2> HIDE DEF old, out
  <2>5. into \in Seq(Nat) /\ Range(into) = Range(old) \cup {Visited}
        /\ \A j, k \in DOMAIN into : into[j] = into[k] => j = k
    BY <2>4, <2>9, PutInFront
  <2>6. QED BY <2>5 DEF old
<1> HIDE DEF out, into
<1>10. /\ watches' \in [Literals(Solvables) -> Seq(Nat)]
       /\ watches'[Falsified] = out /\ watches'[NewWatch] = into
       /\ \A l \in Literals(Solvables) \ {Falsified, NewWatch} : watches'[l] = watches[l]
  <2>1. watches' = [watches EXCEPT ![Falsified] = out, ![NewWatch] = into]
    BY <1>1, <1>3, <1>4, <1>5 DEF out, into
  <2>2. QED BY <1>3, <1>4, <1>5, <1>7, <1>9, <2>1
<1>11. ASSUME NEW i \in DOMAIN rules, ~IsAssertion(rules[i])
       PROVE  w'[i][1] \in Lits(i) /\ w'[i][2] \in Lits(i) /\ w'[i][1] # w'[i][2]
  <2>1. CASE i = Visited
    BY <1>2, <1>3, <1>4, <2>1
  <2>2. CASE i # Visited
    BY <1>2, <1>11, <2>2 DEF SearchInv, WatchesWhole
  <2>3. QED BY <2>1, <2>2
<1> DEFINE now(l) == {i \in DOMAIN rules : ~IsAssertion(rules[i]) /\ l \in {w'[i][1], w'[i][2]}}
<1>12. ASSUME NEW l \in Literals(Solvables)
       PROVE  /\ Range(watches'[l]) = now(l)
              /\ \A j, k \in DOMAIN watches'[l] : watches'[l][j] = watches'[l][k] => j = k
  <2>1. \A i \in DOMAIN rules : i # Visited => (i \in now(l) <=> i \in Watching(l))
    BY <1>2 DEF Watching
  <2>2. Visited \in now(l) <=> l \in {NewWatch, OtherWatch}
    BY <1>2, <1>3
  <2>3. Visited \in Watching(l) <=> l \in {Falsified, OtherWatch}
    BY <1>2, <1>3 DEF Watching
  <2>4. now(l) \subseteq DOMAIN rules /\ Watching(l) \subseteq DOMAIN rules
    BY DEF Watching
  <2>5. CASE l = Falsified
    <3>1. now(l) = Watching(l) \ {Visited}
      BY <1>3, <1>4, <2>1, <2>2, <2>4, <2>5
    <3> HIDE DEF now
    <3>2. QED BY <1>5, <1>7, <1>10, <2>5, <3>1
  <2>6. CASE l = NewWatch
    <3>1. now(l) = Watching(l) \cup {Visited}
      BY <1>3, <1>4, <2>1, <2>2, <2>4, <2>6
    <3> HIDE DEF now
    <3>2. QED BY <1>5, <1>9, <1>10, <2>6, <3>1
  <2>7. CASE l \notin {Falsified, NewWatch}
    <3>1. now(l) = Watching(l)
      BY <2>1, <2>2, <2>3, <2>4, <2>7
    <3> HIDE DEF now
    <3>2. watches'[l] = watches[l] /\ DOMAIN watches[l] = 1..Len(watches[l])
      BY <1>5, <1>10, <2>7
    <3>3. QED BY <1>5, <3>1, <3>2
  <2>8. QED BY <2>5, <2>6, <2>7
<1>13. QED BY <1>1, <1>2, <1>10, <1>11, <1>12 DEF WatchesWhole, Lits, Watching

\* Literals with the same negation are the same.
LEMMA SameNegation ==
  ASSUME NEW l \in Int, NEW k \in Int, -l = -k
  PROVE  l = k
  OBVIOUS

\* A rule that moved a watch is still well watched.
LEMMA MoveKeepsGuard ==
  ASSUME SearchInv, PropagateMove
  PROVE  WatchesGuard'
<1>1. /\ pc = "propagate" /\ Visiting /\ Unfalsified # {} /\ rules' = rules /\ disabled' = disabled
      /\ trail' = trail /\ level' = level /\ propagate_index' = propagate_index /\ visit' = visit
      /\ w' = [w EXCEPT ![Visited][Triggered] = NewWatch]
      /\ watches' = [watches EXCEPT ![Falsified] = RemoveAt(@, visit), ![NewWatch] = <<Visited>> \o @]
  BY DEF PropagateMove, searchVars
<1>2. /\ \A i \in DOMAIN rules \ {Visited} : w'[i] = w[i]
      /\ w'[Visited][Triggered] = NewWatch /\ w'[Visited][3 - Triggered] = OtherWatch
      /\ w[Visited][3 - Triggered] = OtherWatch
  BY <1>1, MovedWatches DEF OtherWatch
<1>3. /\ Triggered \in {1, 2} /\ 3 - Triggered \in {1, 2} /\ 3 - (3 - Triggered) = Triggered
      /\ w[Visited][Triggered] = Falsified /\ OtherWatch # Falsified /\ IsFalse(trail.map, Falsified)
      /\ Falsified \in Literals(Solvables) /\ OtherWatch \in Literals(Solvables)
      /\ propagate_index \in Nat /\ propagate_index > 0 /\ trail.q[propagate_index] = -Falsified
      /\ visit \in 1..Len(watches[Falsified]) /\ watches[Falsified] \in Seq(Nat) /\ level > 0
      /\ ~IsAssertion(rules[Visited])
  BY <1>1, VisitFacts
<1>4. NewWatch # Falsified /\ ~IsFalse(trail.map, NewWatch) /\ NewWatch \in Literals(Solvables)
  BY <1>1, NewWatchFacts
<1>5. watches[Falsified][visit] = Visited
  BY DEF Visited
<1> DEFINE out == RemoveAt(watches[Falsified], visit)
<1> HIDE DEF Visited, Falsified, NewWatch, OtherWatch, Triggered
<1>6. /\ Len(out) = Len(watches[Falsified]) - 1 /\ DOMAIN out = 1..Len(out)
      /\ \A j \in 1..Len(out) :
           out[j] = IF j < visit THEN watches[Falsified][j] ELSE watches[Falsified][j + 1]
  <2>1. \A j, k \in DOMAIN watches[Falsified] : watches[Falsified][j] = watches[Falsified][k] => j = k
    BY <1>3 DEF SearchInv, WatchesWhole
  <2>2. DOMAIN watches[Falsified] = 1..Len(watches[Falsified]) /\ watches[Falsified] \in Seq(Nat)
    BY <1>3
  <2>3. \A j, k \in 1..Len(watches[Falsified]) : watches[Falsified][j] = watches[Falsified][k] => j = k
    BY <2>1, <2>2
  <2>4. out = RemoveAt(watches[Falsified], visit)
    OBVIOUS
  <2> DEFINE old == watches[Falsified]
  <2>5. /\ old \in Seq(Nat) /\ visit \in 1..Len(old) /\ out = RemoveAt(old, visit)
        /\ \A j, k \in 1..Len(old) : old[j] = old[k] => j = k
    BY <1>3, <2>2, <2>3, <2>4
  <2> HIDE DEF out, old
  <2>6. /\ Len(out) = Len(old) - 1 /\ DOMAIN out = 1..Len(out)
        /\ \A j \in 1..Len(out) : out[j] = IF j < visit THEN old[j] ELSE old[j + 1]
    BY <2>5, TakenOut, SMTT(60)
  <2>7. QED BY <2>6 DEF old
<1>7. watches'[Falsified] = out
  BY <1>1, <1>3, <1>4 DEF SearchInv, WatchesWhole
<1>8. SUFFICES ASSUME NEW i \in EnabledRules, ~IsAssertion(rules[i]), NEW a \in {1, 2},
                      Noticed(i, w[i][a])'
               PROVE  IsTrue(trail.map, w'[i][3 - a]) /\ LevelOf(w'[i][3 - a]) <= LevelOf(w'[i][a])
  BY <1>1 DEF WatchesGuard, EnabledRules, LevelOf
<1>9. IsFalse(trail.map, w'[i][a]) /\ i \in DOMAIN rules
  BY <1>1, <1>8 DEF Noticed, EnabledRules
<1>10. PICK k \in 1..propagate_index :
         /\ trail.q[k] = -w'[i][a]
         /\ k = propagate_index /\ visit > 0 =>
              \A j \in DOMAIN watches'[w'[i][a]] : j >= visit => watches'[w'[i][a]][j] # i
  BY <1>1, <1>8 DEF Noticed
<1>11. CASE i = Visited
  <2>1. w'[i][a] = OtherWatch /\ a = 3 - Triggered /\ w[i][a] = OtherWatch /\ w[i][3 - a] = Falsified
    <3>1. a = Triggered \/ a = 3 - Triggered
      BY <1>3
    <3>2. QED BY <1>2, <1>3, <1>4, <1>9, <1>11, <3>1
  <2>2. k # propagate_index
    BY <1>3, <1>10, <2>1, TrailFacts
  <2>3. Noticed(i, w[i][a])
    BY <1>9, <1>10, <2>1, <2>2 DEF Noticed
  <2>4. IsTrue(trail.map, w[i][3 - a])
    BY <1>3, <1>8, <2>3 DEF SearchInv, WatchesGuard
  <2>5. QED BY <1>3, <2>1, <2>4, TrailFacts
<1>12. CASE i # Visited
  <2>1. w'[i] = w[i] /\ w[i][a] \in Literals(Solvables)
    BY <1>2, <1>8, <1>9, <1>12, WatchFacts
  <2>2. ASSUME k = propagate_index, visit > 0, NEW j \in DOMAIN watches[w[i][a]], j >= visit
        PROVE  watches[w[i][a]][j] # i
    <3>1. w[i][a] = Falsified
      <4>1. trail.q[propagate_index] = -w[i][a]
        BY <1>10, <2>1, <2>2
      <4>2. w[i][a] \in Int /\ Falsified \in Int
        BY <1>3, <2>1, TrailFacts
      <4>3. -w[i][a] = -Falsified
        BY <1>3, <4>1
      <4>4. QED BY <4>2, <4>3, SameNegation
    <3>2. \A m \in 1..Len(out) : m >= visit => out[m] # i
      BY <1>6, <1>7, <1>10, <2>1, <2>2, <3>1
    <3>3. CASE j = visit
      BY <1>5, <1>12, <3>1, <3>3
    <3>4. CASE j # visit
      <4>1. /\ j \in 1..Len(watches[Falsified]) /\ visit \in Nat /\ visit > 0
            /\ Len(watches[Falsified]) \in Nat
        BY <1>3, <2>2, <3>1
      <4>2. j - 1 \in 1..Len(out) /\ j - 1 >= visit /\ (j - 1) + 1 = j /\ ~(j - 1 < visit)
        BY <1>6, <2>2, <3>4, <4>1
      <4>3. out[j - 1] = watches[Falsified][j]
        BY <1>6, <4>2
      <4>4. QED BY <3>1, <3>2, <4>2, <4>3
    <3>5. QED BY <3>3, <3>4
  <2>3. Noticed(i, w[i][a])
    BY <1>9, <1>10, <2>1, <2>2 DEF Noticed
  <2>4. QED BY <1>3, <1>8, <2>1, <2>3 DEF SearchInv, WatchesGuard
<1>13. QED BY <1>11, <1>12

\* A watch is moved.
LEMMA MoveKeeps ==
  ASSUME SearchInv, PropagateMove
  PROVE  SearchInv'
<1>1. WatchesWhole' /\ WatchesGuard'
  BY MoveKeepsWatches, MoveKeepsGuard
<1>2. propagate_index \in 0..Len(trail.q) /\ visit \in Nat /\ (visit > 0 => propagate_index > 0)
  BY TrailFacts DEF SearchInv, Phases, PropagateMove
<1>3. QED BY <1>1, <1>2, PropagateFrame DEF PropagateMove, searchVars

\* A rule with no other literal left is not propagated in vain: the other
\* watch is undecided, and all other literals are false.
LEMMA UnitFacts ==
  ASSUME SearchInv, pc = "propagate", Visiting, ~Settled, Unfalsified = {}
  PROVE  /\ Enabled(Visited) /\ ~IsTrue(trail.map, OtherWatch)
         /\ \A x \in Lits(Visited) \ {OtherWatch} : IsFalse(trail.map, x) /\ x \in Literals(Solvables)
<1>1. /\ Visited \in DOMAIN rules /\ Lits(Visited) \subseteq Literals(Solvables)
      /\ \A x : x \in Lits(Visited) <=>
           \E k \in 1..Len(rules[Visited].lits) : rules[Visited].lits[k] = x
      /\ DOMAIN rules[Visited].lits = 1..Len(rules[Visited].lits)
  BY VisitFacts, RuleFacts DEF SearchInv
<1> HIDE DEF Visited, OtherWatch
<1>2. ASSUME NEW x \in Lits(Visited) \ {OtherWatch} PROVE IsFalse(trail.map, x)
  <2>1. PICK k \in 1..Len(rules[Visited].lits) : rules[Visited].lits[k] = x
    BY <1>1
  <2>2. QED BY <1>1, <1>2, <2>1 DEF Unfalsified
<1>3. QED BY <1>1, <1>2 DEF Settled

\* The other watch becomes true, with the visited rule as its reason.
LEMMA UnitGrows ==
  ASSUME SearchInv, PropagateUnit
  PROVE  /\ GrewBy(trail', trail, rules, OtherWatch, Visited, level)
         /\ Visited \in 1..Len(rules) /\ Enabled(Visited) /\ ~IsAssertion(rules[Visited])
         /\ OtherWatch \in Literals(Solvables) /\ IsUndef(trail.map, OtherWatch)
<1>1. /\ pc = "propagate" /\ Visiting /\ ~Settled /\ Unfalsified = {}
      /\ ~IsFalse(trail.map, OtherWatch) /\ trail' = Decide(trail, OtherWatch, Visited, level)
  BY DEF PropagateUnit
<1>2. /\ Visited \in DOMAIN rules /\ ~IsAssertion(rules[Visited])
      /\ OtherWatch \in Lits(Visited) /\ OtherWatch \in Literals(Solvables)
      /\ level = TopLevel(trail) /\ level > 0
  BY <1>1, VisitFacts
<1>3. /\ Enabled(Visited) /\ ~IsTrue(trail.map, OtherWatch)
      /\ \A x \in Lits(Visited) \ {OtherWatch} : IsFalse(trail.map, x) /\ x \in Literals(Solvables)
  BY <1>1, UnitFacts
<1> HIDE DEF Visited, OtherWatch
<1>4. IsUndef(trail.map, OtherWatch)
  BY <1>1, <1>2, <1>3, TrailFacts
<1>5. Len(rules) \in Nat /\ Visited \in 1..Len(rules) /\ Visited \in -Len(rules)..Len(rules) /\ Visited > 0
  <2>1. Len(rules) \in Nat /\ Visited \in 1..Len(rules)
    BY <1>2, RuleFacts DEF SearchInv
  <2>2. QED BY <2>1
<1>6. level \in Nat /\ TrailWhole(trail, rules, NSolvables)
  BY SearchFacts
<1>7. GrewBy(Decide(trail, OtherWatch, Visited, level), trail, rules, OtherWatch, Visited, level)
  BY <1>2, <1>3, <1>4, <1>5, <1>6, DecideGrows DEF Lits
<1>8. QED BY <1>1, <1>2, <1>3, <1>4, <1>5, <1>7

\* The rule that becomes true, and those watched by its literal, are guarded.
LEMMA UnitKeepsGuard ==
  ASSUME SearchInv, PropagateUnit
  PROVE  WatchesGuard'
<1>1. /\ rules' = rules /\ w' = w /\ watches' = watches /\ disabled' = disabled /\ level' = level
      /\ pc = "propagate" /\ Visiting /\ propagate_index' = propagate_index /\ visit' = visit + 1
  BY DEF PropagateUnit, ruleVars
<1>2. /\ GrewBy(trail', trail, rules, OtherWatch, Visited, level)
      /\ OtherWatch \in Literals(Solvables)
  BY UnitGrows
<1>3. /\ Falsified \in Literals(Solvables) /\ IsFalse(trail.map, Falsified) /\ LevelOf(Falsified) = level
      /\ visit \in 1..Len(watches[Falsified]) /\ visit \in Nat /\ watches[Falsified] \in Seq(Nat)
      /\ trail.q[propagate_index] = -Falsified /\ propagate_index \in 1..Len(trail.q) /\ level > 0
  BY <1>1, VisitFacts DEF SearchInv, Phases
<1>4. watches[Falsified][visit] = Visited
  BY DEF Visited
<1>5. SUFFICES ASSUME NEW i \in EnabledRules, ~IsAssertion(rules[i]), NEW a \in {1, 2},
                      Noticed(i, w[i][a])'
               PROVE  /\ IsTrue(trail'.map, w[i][3 - a])
                      /\ Level(trail'.map[Var(w[i][3 - a])]) <= Level(trail'.map[Var(w[i][a])])
  BY <1>1 DEF WatchesGuard, EnabledRules, LevelOf
<1>6. i \in DOMAIN rules /\ w[i][a] \in Literals(Solvables) /\ w[i][3 - a] \in Literals(Solvables)
  BY <1>5, WatchFacts DEF EnabledRules
<1>7. PICK k \in 1..propagate_index :
        /\ trail'.q[k] = -w[i][a]
        /\ k = propagate_index =>
             \A j \in DOMAIN watches[w[i][a]] : j >= visit + 1 => watches[w[i][a]][j] # i
  <2>1. visit + 1 > 0
    BY <1>3
  <2>2. QED BY <1>1, <1>5, <2>1 DEF Noticed
<1>8. k \in 1..Len(trail.q) /\ trail.q[k] = -w[i][a] /\ IsFalse(trail.map, w[i][a])
  <2>1. k \in 1..Len(trail.q)
    BY <1>3, TrailFacts
  <2>2. trail.q[k] = -w[i][a]
    BY <1>2, <1>7, <2>1 DEF GrewBy
  <2>3. QED BY <1>6, <2>1, <2>2, TrailFacts
<1>9. CASE Noticed(i, w[i][a])
  <2> DEFINE x == w[i][a]
             y == w[i][3 - a]
  <2>1. IsTrue(trail.map, y) /\ LevelOf(y) <= LevelOf(x)
    BY <1>3, <1>5, <1>9 DEF SearchInv, WatchesGuard
  <2>2. /\ x \in Literals(Solvables) /\ y \in Literals(Solvables) /\ IsFalse(trail.map, x)
        /\ Level(trail.map[Var(y)]) <= Level(trail.map[Var(x)]) /\ trail.map \in [Solvables -> Int]
    BY <1>6, <1>8, <2>1, TrailFacts DEF LevelOf
  <2> HIDE DEF x, y
  <2>3. IsTrue(trail'.map, y) /\ Level(trail'.map[Var(y)]) <= Level(trail'.map[Var(x)])
    BY <1>2, <2>1, <2>2, GuardGrows
  <2>4. QED BY <2>3 DEF x, y
<1>10. CASE ~Noticed(i, w[i][a])
  <2>1. k = propagate_index
    BY <1>7, <1>8, <1>10 DEF Noticed
  <2>2. PICK j \in DOMAIN watches[w[i][a]] : j >= visit /\ watches[w[i][a]][j] = i
    BY <1>7, <1>8, <1>10, <2>1 DEF Noticed
  <2>3. w[i][a] = Falsified
    BY <1>3, <1>6, <1>8, <2>1, TrailFacts
  <2>4. DOMAIN watches[w[i][a]] \subseteq Nat
    BY <1>3, <2>3
  <2>5. j = visit
    BY <1>3, <1>7, <2>1, <2>2, <2>4
  <2>6. i = Visited
    BY <1>4, <2>2, <2>3, <2>5
  <2>7. w[i][3 - a] = OtherWatch
    BY <1>1, <2>3, <2>6, TriggeredIs
  <2>8. IsTrue(trail'.map, OtherWatch) /\ Level(trail'.map[Var(OtherWatch)]) = level
    BY <1>2 DEF GrewBy
  <2>9. Level(trail'.map[Var(Falsified)]) = level
    <3>1. ~IsUndef(trail.map, Falsified)
      BY <1>2, <1>3 DEF GrewBy
    <3>2. trail'.map[Var(Falsified)] = trail.map[Var(Falsified)]
      BY <1>2, <1>3, <3>1 DEF GrewBy
    <3>3. QED BY <1>3, <3>2 DEF LevelOf
  <2>10. level \in Nat
    BY SearchFacts
  <2>11. QED BY <2>3, <2>7, <2>8, <2>9, <2>10
<1>11. QED BY <1>9, <1>10

\* What is forced at level 1 holds in every solution.
LEMMA UnitKeepsExtras ==
  ASSUME SearchInv, PropagateUnit
  PROVE  ExtrasHaveSolution'
<1>1. /\ rules' = rules /\ disabled' = disabled /\ pc = "propagate" /\ Visiting /\ ~Settled
      /\ Unfalsified = {} /\ pc' = pc /\ caller' = caller
  BY DEF PropagateUnit, ruleVars
<1>2. /\ GrewBy(trail', trail, rules, OtherWatch, Visited, level) /\ Visited \in 1..Len(rules)
      /\ Enabled(Visited) /\ ~IsAssertion(rules[Visited]) /\ OtherWatch \in Literals(Solvables)
  BY UnitGrows
<1>3. SUFFICES ASSUME InExtras' PROVE \E S : SolutionOf(S, rules', disabled', trail')
  <2>1. (ExtrasHaveSolution <=> (InExtras => \E S : SolutionOf(S, rules, disabled, trail)))'
    BY ExtrasAre, PTL
  <2>2. QED BY <2>1 DEF SolutionOf, TrueIn, LevelIn
<1>4. InExtras
  BY <1>1, <1>3 DEF InExtras, Extras, UncheckedCallers
<1>5. PICK S : SolutionOf(S, rules, disabled, trail)
  BY <1>4, ExtrasAre DEF SearchInv
<1>6. Visited \in DOMAIN rules \ disabled
  BY <1>2, RuleFacts DEF SearchInv, Enabled
<1>7. Len(trail.q) \in Nat /\ DOMAIN trail.q = 1..Len(trail.q) /\ level = TopLevel(trail) /\ level \in Nat
  BY <1>1, TrailFacts, VisitFacts, SearchFacts
<1>8. /\ \A x \in Lits(Visited) \ {OtherWatch} : IsFalse(trail.map, x) /\ x \in Literals(Solvables)
      /\ OtherWatch \in Lits(Visited)
  BY <1>1, UnitFacts, VisitFacts
<1> HIDE DEF Visited, OtherWatch
<1>9. ASSUME level = 1 PROVE TrueIn(S, OtherWatch)
  <2>1. PICK x \in Lits(Visited) : TrueIn(S, x)
    BY <1>2, <1>5, <1>6, HoldsIs DEF SolutionOf, Lits
  <2>2. ASSUME x # OtherWatch PROVE FALSE
    <3>1. IsFalse(trail.map, x) /\ x \in Literals(Solvables)
      BY <1>8, <2>1, <2>2
    <3>2. PICK k \in 1..Len(trail.q) : trail.q[k] = -x
      BY <3>1, TrailFacts
    <3>3. LevelIn(trail, k) = 1
      BY <1>7, <1>9, <3>2, TrailFacts
    <3>4. TrueIn(S, -x)
      BY <1>5, <1>7, <3>2, <3>3 DEF SolutionOf
    <3>5. QED BY <2>1, <3>1, <3>4, TrailFacts DEF TrueIn
  <2>3. QED BY <2>1, <2>2
<1>10. ASSUME NEW k \in DOMAIN trail'.q, LevelIn(trail', k) = 1
       PROVE  TrueIn(S, trail'.q[k])
  <2>1. k = Len(trail.q) + 1 \/ k \in 1..Len(trail.q)
    BY <1>2, <1>7 DEF GrewBy
  <2>2. CASE k = Len(trail.q) + 1
    BY <1>2, <1>9, <1>10, <2>2 DEF GrewBy
  <2>3. CASE k \in 1..Len(trail.q)
    BY <1>2, <1>5, <1>7, <1>10, <2>3 DEF GrewBy, SolutionOf
  <2>4. QED BY <2>1, <2>2, <2>3
<1>11. SolutionOf(S, rules', disabled', trail')
  BY <1>1, <1>5, <1>10 DEF SolutionOf
<1>12. QED BY <1>11

\* A literal is propagated.
LEMMA UnitKeeps ==
  ASSUME SearchInv, PropagateUnit
  PROVE  SearchInv'
<1>1. /\ in' = in /\ rules' = rules /\ w' = w /\ watches' = watches /\ disabled' = disabled
      /\ problems' = problems /\ branches' = branches /\ recommendations' = recommendations
      /\ level' = level /\ systemlevel' = systemlevel /\ caller' = caller /\ an' = an /\ loc' = loc
      /\ pc = "propagate" /\ Visiting /\ propagate_index' = propagate_index /\ visit' = visit + 1
      /\ pc' = pc
  BY DEF PropagateUnit, ruleVars
<1>2. /\ GrewBy(trail', trail, rules, OtherWatch, Visited, level) /\ Visited \in 1..Len(rules)
      /\ Enabled(Visited) /\ ~IsAssertion(rules[Visited]) /\ OtherWatch \in Literals(Solvables)
  BY UnitGrows
<1>3. /\ visit \in Nat /\ propagate_index \in 1..Len(trail.q) /\ level \in Nat /\ level > 0
      /\ level = TopLevel(trail) /\ Len(trail.q) \in Nat /\ DOMAIN trail.q = 1..Len(trail.q)
      /\ trail.map \in [Solvables -> Int]
  BY <1>1, VisitFacts, TrailFacts, SearchFacts DEF SearchInv, Phases
<1> HIDE DEF Visited, OtherWatch
<1>4. Standing'
  BY <1>1, StandingStays DEF SearchInv, Standing, ruleVars
<1>5. TrailInv'
  BY <1>1, <1>2, TrailGrows DEF ruleVars
<1>6. Phases'
  <2>1. /\ caller.at \in SystemBacks \cup UncheckedCallers \cup {"top", "jobs"}
        /\ caller = [at |-> caller.at, olevel |-> caller.olevel, disablerules |-> caller.disablerules]
        /\ caller.olevel \in Nat /\ caller.olevel > 0
        /\ systemlevel \in 1..(NSolvables + 1)
        /\ \A k \in DOMAIN trail.q :
             k > propagate_index \/ (k = propagate_index /\ visit > 0) => LevelAt(k) = level
    BY <1>1 DEF SearchInv, Phases
  <2>2. visit > 0
    BY <1>1 DEF Visiting
  <2>3. /\ propagate_index' \in 0..Len(trail'.q) /\ visit' \in Nat /\ propagate_index' > 0
        /\ DOMAIN trail'.q = 1..(Len(trail.q) + 1)
    BY <1>1, <1>2, <1>3 DEF GrewBy
  <2>4. ASSUME NEW k \in DOMAIN trail'.q, k > propagate_index \/ k = propagate_index
        PROVE  LevelIn(trail', k) = level
    <3>1. k = Len(trail.q) + 1 \/ k \in 1..Len(trail.q)
      BY <1>3, <2>3
    <3>2. CASE k = Len(trail.q) + 1
      BY <1>2, <3>2 DEF GrewBy
    <3>3. CASE k \in 1..Len(trail.q)
      BY <1>2, <1>3, <2>1, <2>2, <2>4, <3>3 DEF GrewBy, LevelAt
    <3>4. QED BY <3>1, <3>2, <3>3
  <2>5. pc' \in Running /\ pc' \notin {"assert", "assertweak", "analyze"}
        /\ pc' \notin Resting \cup UncheckedCallers \cup SystemBacks \cup {"top"}
    BY <1>1 DEF Running, Resting, UncheckedCallers, SystemBacks, Extras
  <2>6. QED BY <1>1, <1>3, <2>1, <2>3, <2>4, <2>5 DEF Phases, LevelAt
<1>7. Locals'
  <2>1. Placed' = Placed /\ pc \in Running
    BY <1>1 DEF Placed, Running
  <2>2. Len(rules') \in Nat /\ Len(rules) <= Len(rules')
    BY <1>1, RuleFacts DEF SearchInv
  <2>3. QED BY <1>1, <1>6, <2>1, <2>2, LocalsStay
<1>8. Branches'
  <2>1. BranchesAt(branches, trail.map, level)
    BY BranchesAre DEF SearchInv
  <2>2. BranchesAt(branches', trail'.map, level')
    BY <1>1, <1>2, <1>3, <2>1, BranchesStay
  <2>3. (Branches <=> BranchesAt(branches, trail.map, level))'
    BY BranchesAre, PTL
  <2>4. QED BY <2>2, <2>3
<1>9. Recommendations'
  <2>1. RecommendedAt(recommendations, trail.q)
    BY RecommendationsAre DEF SearchInv, RecommendationsPlaced
  <2>2. DOMAIN trail.q \subseteq DOMAIN trail'.q /\ \A k \in DOMAIN trail.q : trail'.q[k] = trail.q[k]
    BY <1>2, <1>3 DEF GrewBy
  <2>3. RecommendedAt(recommendations', trail'.q)
    BY <1>1, <2>1, <2>2, RecommendedStay
  <2>4. (Recommendations <=> RecommendationsPlaced)'
    BY RecommendationsAre, PTL
  <2>5. QED BY <1>1, <2>3, <2>4 DEF RecommendationsPlaced
<1>10. pc' # "analyze"
  BY <1>1
<1>11. WatchesGuard' /\ ExtrasHaveSolution'
  BY UnitKeepsGuard, UnitKeepsExtras
<1>12. QED BY <1>4, <1>5, <1>6, <1>7, <1>8, <1>9, <1>10, <1>11, NotAnalysing DEF SearchInv, Standing

\* A step of propagate keeps the invariant.
LEMMA PropagateKeeps ==
  ASSUME SearchInv, PropagateStep
  PROVE  SearchInv'
BY NextKeeps, SkipKeeps, MoveKeeps, UnitKeeps, DoneKeeps DEF PropagateStep

----------------------------------------------------------------------------
(* Why nothing can be done about a rule that is false at level 1.          *)

\* The solvables marked on the way back along the queue.
Marks(seen, cr) ==
  /\ seen[Len(trail.q)] = FalseVars(cr)
  /\ \A k \in 1..(Len(trail.q) - 1) :
       seen[k] = seen[k + 1] \cup
                   (IF Var(trail.q[k + 1]) \in seen[k + 1] THEN FalseVars(trail.why[k + 1]) ELSE {})

\* The walk of analyze_unsolvable over the queue marks decisions.
LEMMA MarksAreMade ==
  ASSUME Len(trail.q) \in Nat, Len(trail.q) > 0, NEW cr
  PROVE  \E seen : /\ Marks(seen, cr)
                   /\ Responsible(cr) = {k \in 1..Len(trail.q) : Var(trail.q[k]) \in seen[k]}
<1> DEFINE n == Len(trail.q)
           V == FalseVars(cr) \cup UNION {FalseVars(trail.why[k]) : k \in 1..n}
           More(k, x) == x \cup (IF Var(trail.q[k + 1]) \in x THEN FalseVars(trail.why[k + 1]) ELSE {})
           step == [x \in (1..(n - 1)) \X (SUBSET V) |-> More(n - x[1], x[2])]
           Rec(g) == g = [k \in 1..n |->
                            IF k = n THEN FalseVars(cr)
                            ELSE g[k + 1] \cup (IF Var(trail.q[k + 1]) \in g[k + 1]
                                                  THEN FalseVars(trail.why[k + 1]) ELSE {})]
<1>1. n \in Nat /\ n > 0 /\ n - 1 \in Nat /\ FalseVars(cr) \in SUBSET V
  OBVIOUS
<1>2. ASSUME NEW j \in 1..(n - 1), NEW x \in SUBSET V
      PROVE  More(n - j, x) \in SUBSET V /\ step[<<j, x>>] = More(n - j, x)
  <2>1. (n - j) + 1 \in 1..n
    BY <1>1
  <2>2. FalseVars(trail.why[(n - j) + 1]) \subseteq V
    BY <2>1
  <2> HIDE DEF V
  <2>3. More(n - j, x) \in SUBSET V
    BY <2>2
  <2>4. QED BY <2>3
<1>3. step \in [(1..(n - 1)) \X (SUBSET V) -> SUBSET V]
  <2> HIDE DEF V, More, n
  <2>1. \A y \in (1..(n - 1)) \X (SUBSET V) : More(n - y[1], y[2]) \in SUBSET V
    BY <1>2
  <2>2. QED BY <2>1
<1> HIDE DEF step, V
<1>4. PICK f : Built(f, n - 1, SUBSET V, FalseVars(cr), step)
  <2> HIDE DEF n
  <2>1. QED BY <1>1, <1>3, Iterates
<1> DEFINE s == [k \in 1..n |-> f[n - k]]
<1>5. f \in [0..(n - 1) -> SUBSET V] /\ f[0] = FalseVars(cr)
      /\ \A j \in 1..(n - 1) : f[j] = More(n - j, f[j - 1])
  <2>1. /\ f \in [0..(n - 1) -> SUBSET V] /\ f[0] = FalseVars(cr)
        /\ \A j \in 1..(n - 1) : f[j] = step[<<j, f[j - 1]>>]
    BY <1>4 DEF Built
  <2> HIDE DEF More, n
  <2>2. \A j \in 1..(n - 1) : j - 1 \in 0..(n - 1)
    BY <1>1
  <2>3. \A j \in 1..(n - 1) : f[j - 1] \in SUBSET V
    BY <2>1, <2>2
  <2>4. \A j \in 1..(n - 1) : step[<<j, f[j - 1]>>] = More(n - j, f[j - 1])
    BY <1>2, <2>3
  <2>5. QED BY <2>1, <2>4
<1>6. s[n] = FalseVars(cr)
  <2>1. n \in 1..n /\ n - n = 0
    BY <1>1
  <2>2. QED BY <1>5, <2>1
<1>7. ASSUME NEW k \in 1..(n - 1) PROVE s[k] = More(k, s[k + 1])
  <2>1. /\ n - k \in 1..(n - 1) /\ n - (n - k) = k /\ (n - k) - 1 = n - (k + 1)
        /\ k \in 1..n /\ k + 1 \in 1..n
    BY <1>1
  <2>2. f[n - k] = More(n - (n - k), f[(n - k) - 1])
    BY <1>5, <2>1
  <2> HIDE DEF More, n
  <2>3. s[k] = f[n - k] /\ s[k + 1] = f[n - (k + 1)]
    BY <2>1
  <2>4. QED BY <2>1, <2>2, <2>3
<1>8. Rec(s)
  <2> DEFINE rhs == [k \in 1..n |-> IF k = n THEN FalseVars(cr)
                            ELSE s[k + 1] \cup (IF Var(trail.q[k + 1]) \in s[k + 1]
                                                  THEN FalseVars(trail.why[k + 1]) ELSE {})]
  <2>1. s = [k \in 1..n |-> s[k]] /\ rhs = [k \in 1..n |-> rhs[k]]
    OBVIOUS
  <2>2. ASSUME NEW k \in 1..n PROVE s[k] = rhs[k]
    <3>1. CASE k = n
      <4> HIDE DEF s
      <4>1. QED BY <1>6, <3>1
    <3>2. CASE k # n
      <4>1. k \in 1..(n - 1)
        BY <1>1, <3>2
      <4> HIDE DEF s, n
      <4>2. QED BY <1>7, <3>2, <4>1
    <3>3. QED BY <3>1, <3>2
  <2> HIDE DEF s, rhs, n
  <2>3. s = rhs
    BY <2>1, <2>2
  <2>4. QED BY <2>3 DEF rhs
<1> DEFINE o == CHOOSE g : Rec(g)
<1> HIDE DEF s
<1>9. Rec(o) /\ Responsible(cr) = {k \in 1..n : Var(trail.q[k]) \in o[k]}
  <2>1. Responsible(cr) = {k \in 1..n : Var(trail.q[k]) \in o[k]}
    BY DEF Responsible
  <2> HIDE DEF Rec
  <2>2. QED BY <1>8, <2>1
<1> HIDE DEF o
<1>10. Marks(o, cr)
  <2>1. \A k \in 1..n : o[k] = IF k = n THEN FalseVars(cr)
                            ELSE o[k + 1] \cup (IF Var(trail.q[k + 1]) \in o[k + 1]
                                                  THEN FalseVars(trail.why[k + 1]) ELSE {})
    BY <1>9
  <2>2. n \in 1..n /\ \A k \in 1..(n - 1) : k \in 1..n /\ k # n
    BY <1>1
  <2>3. QED BY <2>1, <2>2 DEF Marks
<1>11. QED BY <1>9, <1>10

\* What is marked stays marked towards the start of the queue.
LEMMA MarksStay ==
  ASSUME Len(trail.q) \in Nat, NEW cr, NEW seen, Marks(seen, cr),
         NEW k \in 1..Len(trail.q), NEW j \in 1..k
  PROVE  seen[k] \subseteq seen[j]
<1> DEFINE n == Len(trail.q)
           P == {d \in 0..(k - 1) : seen[k] \subseteq seen[k - d]}
<1>1. k \in Nat /\ k >= 1 /\ k - 1 \in Nat /\ k <= n /\ n \in Nat
  OBVIOUS
<1>2. 0 \in P
  <2>1. k - 0 = k /\ 0 \in 0..(k - 1)
    BY <1>1
  <2>2. QED BY <2>1
<1>3. ASSUME NEW d \in 1..(k - 1), d - 1 \in P PROVE d \in P
  <2>1. k - d \in 1..(n - 1) /\ (k - d) + 1 = k - (d - 1) /\ d \in 0..(k - 1)
    BY <1>1
  <2>2. seen[k - d] = seen[(k - d) + 1] \cup
                   (IF Var(trail.q[(k - d) + 1]) \in seen[(k - d) + 1]
                      THEN FalseVars(trail.why[(k - d) + 1]) ELSE {})
    BY <2>1 DEF Marks
  <2>3. seen[k] \subseteq seen[(k - d) + 1]
    BY <1>3, <2>1
  <2>4. seen[k] \subseteq seen[k - d]
    BY <2>2, <2>3
  <2>5. QED BY <2>1, <2>4
<1> HIDE DEF P
<1>4. 0..(k - 1) \subseteq P
  BY <1>1, <1>2, <1>3, UpTo
<1>5. k - j \in 0..(k - 1) /\ k - (k - j) = j
  BY <1>1
<1>6. QED BY <1>4, <1>5 DEF P

\* What the decisions responsible for a false rule have in common with it, and
\* among each other.
LEMMA ResponsibleClosed ==
  ASSUME SearchInv, NEW cr
  PROVE  /\ Responsible(cr) \subseteq 1..Len(trail.q)
         /\ \A k \in 1..Len(trail.q) : Var(trail.q[k]) \in FalseVars(cr) => k \in Responsible(cr)
         /\ \A k \in Responsible(cr) : \A j \in 1..(k - 1) :
              Var(trail.q[j]) \in FalseVars(trail.why[k]) => j \in Responsible(cr)
<1> DEFINE n == Len(trail.q)
<1>1. n \in Nat /\ n > 0
  BY TrailFacts
<1>2. PICK seen : /\ Marks(seen, cr)
                  /\ Responsible(cr) = {k \in 1..n : Var(trail.q[k]) \in seen[k]}
  BY <1>1, MarksAreMade
<1>3. ASSUME NEW k \in 1..n, Var(trail.q[k]) \in FalseVars(cr) PROVE k \in Responsible(cr)
  <2>1. n \in 1..n /\ k \in 1..n
    BY <1>1
  <2>2. seen[n] \subseteq seen[k]
    BY <1>1, <1>2, <2>1, MarksStay
  <2>3. QED BY <1>2, <1>3, <2>2 DEF Marks
<1>4. ASSUME NEW k \in Responsible(cr), NEW j \in 1..(k - 1), Var(trail.q[j]) \in FalseVars(trail.why[k])
      PROVE  j \in Responsible(cr)
  <2>1. k \in 1..n /\ Var(trail.q[k]) \in seen[k]
    BY <1>2
  <2>2. k - 1 \in 1..(n - 1) /\ (k - 1) + 1 = k /\ j \in 1..n /\ k - 1 \in 1..n /\ j \in 1..(k - 1)
    BY <1>1, <2>1
  <2>3. seen[k - 1] = seen[(k - 1) + 1] \cup
                   (IF Var(trail.q[(k - 1) + 1]) \in seen[(k - 1) + 1]
                      THEN FalseVars(trail.why[(k - 1) + 1]) ELSE {})
    BY <1>2, <2>2 DEF Marks
  <2>4. FalseVars(trail.why[k]) \subseteq seen[k - 1]
    BY <2>1, <2>2, <2>3
  <2>5. seen[k - 1] \subseteq seen[j]
    BY <1>1, <1>2, <2>2, MarksStay
  <2>6. QED BY <1>2, <1>4, <2>2, <2>4, <2>5
<1>5. QED BY <1>2, <1>3, <1>4

\* A rule that is false, and the decisions that made it so.
LEMMA ConflictFacts ==
  ASSUME SearchInv, Conflict
  PROVE  /\ pc = "propagate" /\ Visiting
         /\ Visited \in DOMAIN rules /\ Enabled(Visited) /\ ~IsAssertion(rules[Visited])
         /\ level = TopLevel(trail) /\ level \in Nat /\ level > 0
         /\ \A l \in Lits(Visited) : IsFalse(trail.map, l) /\ l \in Literals(Solvables)
         /\ Falsified \in Lits(Visited) /\ LevelOf(Falsified) = level
<1>1. pc = "propagate" /\ Visiting /\ ~Settled /\ Unfalsified = {} /\ IsFalse(trail.map, OtherWatch)
  BY DEF Conflict
<1>2. /\ Visited \in DOMAIN rules /\ ~IsAssertion(rules[Visited]) /\ Enabled(Visited)
      /\ level = TopLevel(trail) /\ level > 0 /\ Falsified \in Lits(Visited) /\ LevelOf(Falsified) = level
      /\ OtherWatch \in Literals(Solvables)
      /\ \A x \in Lits(Visited) \ {OtherWatch} : IsFalse(trail.map, x) /\ x \in Literals(Solvables)
  BY <1>1, VisitFacts, UnitFacts
<1> HIDE DEF Visited, OtherWatch, Falsified
<1>3. \A l \in Lits(Visited) : IsFalse(trail.map, l) /\ l \in Literals(Solvables)
  BY <1>1, <1>2
<1>4. QED BY <1>1, <1>2, <1>3, SearchFacts

\* The false rule and the reasons of the decisions responsible for it
\* contradict one another.
LEMMA ProofHolds ==
  ASSUME SearchInv, NEW cr \in DOMAIN rules,
         \A l \in Lits(cr) : IsFalse(trail.map, l) /\ l \in Literals(Solvables),
         \A k \in Responsible(cr) : trail.why[k] > 0
  PROVE  Proof(cr) \subseteq DOMAIN rules /\ ~Satisfiable(Solvables, rules, Proof(cr))
<1> DEFINE n == Len(trail.q)
           R == Responsible(cr)
<1>1. /\ n \in Nat /\ n > 0 /\ DOMAIN trail.q = 1..n /\ TrailWhole(trail, rules, NSolvables)
      /\ Len(rules) \in Nat /\ DOMAIN rules = 1..Len(rules)
  BY TrailFacts, RuleFacts DEF SearchInv
<1>2. /\ R \subseteq 1..n
      /\ \A k \in 1..n : Var(trail.q[k]) \in FalseVars(cr) => k \in R
      /\ \A k \in R : \A j \in 1..(k - 1) : Var(trail.q[j]) \in FalseVars(trail.why[k]) => j \in R
  BY ResponsibleClosed
<1> HIDE DEF R
<1>3. ASSUME NEW k \in R
      PROVE  /\ k \in 1..n /\ trail.why[k] \in DOMAIN rules /\ trail.why[k] > 0
             /\ trail.q[k] \in Lits(trail.why[k])
             /\ \A l \in Lits(trail.why[k]) \ {trail.q[k]} : \E j \in 1..(k - 1) : trail.q[j] = -l
  <2>1. k \in 1..n /\ trail.why[k] > 0
    BY <1>2 DEF R
  <2>2. /\ trail.why[k] \in -Len(rules)..Len(rules) /\ trail.q[k] \in Range(rules[trail.why[k]].lits)
        /\ \A l \in Range(rules[trail.why[k]].lits) \ {trail.q[k]} : \E j \in 1..(k - 1) : trail.q[j] = -l
    BY <1>1, <2>1 DEF TrailWhole, Reasons
  <2>3. trail.why[k] \in DOMAIN rules
    BY <1>1, <2>1, <2>2
  <2>4. QED BY <2>1, <2>2, <2>3 DEF Lits
<1>4. Proof(cr) = {cr} \cup {trail.why[k] : k \in R}
  BY DEF Proof, R
<1>5. Proof(cr) \subseteq DOMAIN rules
  BY <1>3, <1>4
<1>6. SUFFICES ASSUME NEW S, Satisfies(S, rules, Proof(cr)) PROVE FALSE
  BY <1>5 DEF Satisfiable
<1>7. ASSUME NEW j \in 1..n, NEW l \in Literals(Solvables), trail.q[j] = -l
      PROVE  Var(trail.q[j]) = Var(l) /\ ~IsTrue(trail.map, l) /\ ~(TrueIn(S, l) /\ TrueIn(S, -l))
  BY <1>7, TrailFacts DEF TrueIn
<1> DEFINE P == {m \in 0..n : \A k \in R : k <= m => TrueIn(S, trail.q[k])}
<1>8. 0 \in P
  <2>1. \A k \in R : ~(k <= 0)
    BY <1>2
  <2>2. 0 \in 0..n
    BY <1>1
  <2>3. QED BY <2>1, <2>2
<1>9. ASSUME NEW m \in 1..n, m - 1 \in P PROVE m \in P
  <2>1. m \in 0..n
    BY <1>1
  <2>2. ASSUME NEW k \in R, k <= m PROVE TrueIn(S, trail.q[k])
    <3>1. CASE k # m
      <4>1. k <= m - 1
        BY <1>2, <2>2, <3>1
      <4>2. QED BY <1>9, <4>1
    <3>2. CASE k = m
      <4>1. /\ k \in 1..n /\ trail.why[k] \in DOMAIN rules /\ trail.q[k] \in Lits(trail.why[k])
            /\ \A l \in Lits(trail.why[k]) \ {trail.q[k]} : \E j \in 1..(k - 1) : trail.q[j] = -l
        BY <1>3
      <4>2. trail.why[k] \in Proof(cr)
        BY <1>4
      <4>3. PICK l \in Lits(trail.why[k]) : TrueIn(S, l)
        BY <1>6, <4>2, HoldsIs DEF Satisfies, Lits
      <4>4. CASE l # trail.q[k]
        <5>1. PICK j \in 1..(k - 1) : trail.q[j] = -l
          BY <4>1, <4>3, <4>4
        <5>2. j \in 1..n /\ l \in Literals(Solvables)
          <6>1. j \in 1..n
            BY <1>1, <4>1, <5>1
          <6>2. QED BY <4>1, <4>3, <6>1, RuleFacts DEF SearchInv
        <5>3. Var(trail.q[j]) \in FalseVars(trail.why[k])
          BY <1>7, <4>3, <5>1, <5>2 DEF FalseVars
        <5>4. j \in R /\ j <= m - 1
          BY <1>2, <3>2, <4>1, <5>1, <5>3
        <5>5. TrueIn(S, trail.q[j])
          BY <1>9, <5>4
        <5>6. QED BY <1>7, <4>3, <5>1, <5>2, <5>5
      <4>5. QED BY <4>3, <4>4
    <3>3. QED BY <3>1, <3>2
  <2>3. QED BY <2>1, <2>2
<1>10. n \in P
  <2> HIDE DEF P
  <2>1. 0..n \subseteq P
    BY <1>1, <1>8, <1>9, UpTo
  <2>2. QED BY <1>1, <2>1
<1>11. PICK l \in Lits(cr) : TrueIn(S, l)
  BY <1>4, <1>6, HoldsIs DEF Satisfies, Lits
<1>12. PICK j \in 1..n : trail.q[j] = -l
  BY <1>11, TrailFacts
<1>13. j \in R
  BY <1>2, <1>7, <1>11, <1>12 DEF FalseVars
<1>14. TrueIn(S, trail.q[j])
  BY <1>1, <1>2, <1>10, <1>13
<1>15. QED BY <1>7, <1>11, <1>12, <1>14

\* In the extras nothing becomes unsolvable.
LEMMA ExtrasNoConflict ==
  ASSUME SearchInv, Conflict, level = 1
  PROVE  caller.at \notin UncheckedCallers
<1>1. /\ pc = "propagate" /\ Visited \in DOMAIN rules /\ Enabled(Visited) /\ ~IsAssertion(rules[Visited])
      /\ TopLevel(trail) = 1
      /\ \A l \in Lits(Visited) : IsFalse(trail.map, l) /\ l \in Literals(Solvables)
  BY ConflictFacts
<1>2. SUFFICES ASSUME caller.at \in UncheckedCallers PROVE FALSE
  OBVIOUS
<1>3. PICK S : SolutionOf(S, rules, disabled, trail)
  BY <1>1, <1>2, ExtrasAre DEF SearchInv, InExtras
<1> HIDE DEF Visited
<1>4. PICK l \in Lits(Visited) : TrueIn(S, l)
  BY <1>1, <1>3, HoldsIs DEF SolutionOf, Lits, Enabled
<1>5. PICK k \in 1..Len(trail.q) : trail.q[k] = -l
  BY <1>1, <1>4, TrailFacts
<1>6. LevelIn(trail, k) = 1 /\ k \in DOMAIN trail.q
  BY <1>1, <1>5, TrailFacts
<1>7. TrueIn(S, -l)
  BY <1>3, <1>5, <1>6 DEF SolutionOf
<1>8. QED BY <1>1, <1>4, <1>7, TrailFacts DEF TrueIn

\* Starting over keeps the invariant.
LEMMA ResetKeeps ==
  ASSUME SearchInv, pc = "propagate", caller.at \notin UncheckedCallers,
         NEW dis, dis \subseteq DOMAIN rules, Reset(dis),
         UNCHANGED <<in, ruleVars, systemlevel, an, loc>>, Problems'
  PROVE  SearchInv'
<1>1. /\ in' = in /\ rules' = rules /\ w' = w /\ watches' = watches /\ systemlevel' = systemlevel
      /\ an' = an /\ loc' = loc
  BY DEF ruleVars
<1>2. /\ trail' = Decide(EmptyTrail(NSolvables), SYSTEMSOLVABLE, 0, 1)
      /\ propagate_index' = 0 /\ recommendations' = <<>> /\ branches' = <<>> /\ visit' = 1 /\ level' = 1
      /\ caller' = [caller EXCEPT !.at = IF @ = "jobs" THEN "top" ELSE @] /\ pc' = "assert"
      /\ disabled' = WithLearnt(dis)
  BY DEF Reset
<1>3. disabled' \subseteq DOMAIN rules
  BY <1>2 DEF WithLearnt, Learnt, RulesIn
<1>4. /\ RulesTyped' /\ WatchesWhole' /\ ProofsEntail'
  BY <1>1, <1>3 DEF SearchInv, RulesTyped, RulesGrow, WatchesWhole, Lits, Watching, ProofsEntail
<1>5. /\ TrailWhole(trail', rules, NSolvables) /\ TopLevel(trail') = 1
      /\ trail'.q = <<SYSTEMSOLVABLE>> /\ trail'.why = <<0>>
  BY <1>2, FreshWhole, SolvablesAssumption, RuleFacts DEF SearchInv
<1>6. DOMAIN trail'.q = {1} /\ Len(trail'.q) = 1 /\ \A k \in DOMAIN trail'.q : ~(trail'.why[k] > 0)
  BY <1>5
<1>7. TrailInv'
  BY <1>1, <1>2, <1>5, <1>6 DEF TrailInv, ReasonsInForce
<1>8. /\ caller.at \in SystemBacks \cup {"top", "jobs"}
      /\ caller = [at |-> caller.at, olevel |-> caller.olevel, disablerules |-> caller.disablerules]
      /\ caller.olevel \in Nat /\ caller.olevel > 0 /\ systemlevel \in 1..(NSolvables + 1)
  BY DEF SearchInv, Phases
<1> DEFINE at == IF caller.at = "jobs" THEN "top" ELSE caller.at
<1>9. /\ caller' = [at |-> at, olevel |-> caller.olevel, disablerules |-> caller.disablerules]
      /\ at \in SystemBacks \cup {"top"}
  <2>1. \A c, o, d : [[at |-> c, olevel |-> o, disablerules |-> d] EXCEPT !.at = IF @ = "jobs" THEN "top" ELSE @]
                       = [at |-> (IF c = "jobs" THEN "top" ELSE c), olevel |-> o, disablerules |-> d]
    OBVIOUS
  <2>2. caller' = [[at |-> caller.at, olevel |-> caller.olevel, disablerules |-> caller.disablerules]
                     EXCEPT !.at = IF @ = "jobs" THEN "top" ELSE @]
    BY <1>2, <1>8
  <2>3. QED BY <1>8, <2>1, <2>2
<1>10. caller'.at = at /\ caller'.olevel = caller.olevel /\ caller'.disablerules = caller.disablerules
  BY <1>9
<1> HIDE DEF at
<1>11. Phases'
  <2>1. pc' \in Running /\ pc' \notin {"propagate", "analyze"}
        /\ pc' \notin Resting \cup UncheckedCallers \cup SystemBacks \cup {"top"}
    BY <1>2 DEF Running, Resting, UncheckedCallers, SystemBacks, Extras
  <2>2. propagate_index' \in 0..Len(trail'.q) /\ visit' \in Nat /\ level' \in Nat /\ level' # 0
    BY <1>2, <1>6
  <2>3. QED BY <1>1, <1>2, <1>6, <1>8, <1>9, <1>10, <2>1, <2>2 DEF Phases
<1>12. Locals'
  <2>1. Placed = caller.at /\ Placed' = at
    BY <1>2, <1>10 DEF Placed, Running
  <2>2. LocalsAt(caller.at)
    BY <2>1, LocalsPlaced DEF SearchInv
  <2>3. LocalsAt(Placed)'
    <3>1. at = caller.at \/ at = "top"
      BY DEF at
    <3>2. caller.at # "recommended"
      BY <1>8 DEF SystemBacks
    <3>3. QED BY <1>1, <2>1, <2>2, <3>1, <3>2 DEF LocalsAt, NInstalled
  <2>4. (Phases => (Locals <=> LocalsAt(Placed)))'
    BY LocalsPlaced, PTL
  <2>5. QED BY <1>11, <2>3, <2>4
<1>13. Branches'
  <2>1. <<>> \in Seq(BranchType) /\ DOMAIN <<>> = {}
    OBVIOUS
  <2>2. BranchesAt(branches', trail'.map, level')
    BY <1>2, <2>1 DEF BranchesAt
  <2>3. (Branches <=> BranchesAt(branches, trail.map, level))'
    BY BranchesAre, PTL
  <2>4. QED BY <2>2, <2>3
<1>14. Recommendations'
  <2>1. RecommendedAt(recommendations', trail'.q)
    BY <1>2, NoneRecommended
  <2>2. (Recommendations <=> RecommendationsPlaced)'
    BY RecommendationsAre, PTL
  <2>3. QED BY <1>2, <2>1, <2>2 DEF RecommendationsPlaced
<1>15. WatchesGuard'
  <2>1. ~\E k \in 1..0 : TRUE
    OBVIOUS
  <2>2. QED BY <1>2, <2>1 DEF WatchesGuard, Noticed
<1>16. ExtrasHaveSolution'
  BY <1>2 DEF ExtrasHaveSolution, InExtras, Extras, UncheckedCallers
<1>17. pc' # "analyze"
  BY <1>2
<1>18. QED BY <1>4, <1>7, <1>11, <1>12, <1>13, <1>14, <1>15, <1>16, <1>17, NotAnalysing DEF SearchInv

\* A weak rule is dropped instead of reporting a problem.
LEMMA DropWeakKeeps ==
  ASSUME SearchInv, UnsolvableDropWeak
  PROVE  SearchInv'
<1> DEFINE weak == Sources(Proof(Visited)) \cap WeakRules(rules)
           last == Max(weak)
           v == JobProblem(rules, last)
           off == disabled \cup (IF rules[last].area = "choice" THEN ChoiceRulesWith(last) ELSE {})
<1>1. /\ Conflict /\ level = 1 /\ weak # {} /\ Reset(AfterDrop(off, v))
      /\ UNCHANGED <<in, ruleVars, problems, systemlevel, an, loc>>
  BY DEF UnsolvableDropWeak, Unsolvable
<1>2. pc = "propagate" /\ caller.at \notin UncheckedCallers
  BY <1>1, ConflictFacts, ExtrasNoConflict
<1>3. weak \subseteq DOMAIN rules /\ RulesTyped /\ disabled \subseteq DOMAIN rules /\ Problems
  BY DEF WeakRules, SearchInv, RulesTyped
<1>4. last \in DOMAIN rules
  <2>1. DOMAIN rules = 1..Len(rules) /\ Len(rules) \in Nat
    BY RuleFacts DEF SearchInv
  <2> HIDE DEF weak
  <2>2. last \in weak
    BY <1>1, <1>3, <2>1, MaxIsGreatest
  <2>3. QED BY <1>3, <2>2
<1> HIDE DEF weak, last
<1>5. off \subseteq DOMAIN rules
  BY <1>3 DEF ChoiceRulesWith, RulesIn
<1> HIDE DEF off
<1>6. AfterDrop(off, v) \subseteq DOMAIN rules
  BY <1>3, <1>4, <1>5, DropFits
<1>7. Problems'
  BY <1>1, <1>3, ProblemsStay DEF ruleVars
<1> HIDE DEF v
<1>8. QED BY <1>1, <1>2, <1>6, <1>7, ResetKeeps

\* A problem that is reported is one, and is not found in the extras.
LEMMA ProblemKeeps ==
  ASSUME SearchInv, UnsolvableProblem
  PROVE  Problems' /\ caller.at \notin UncheckedCallers /\ pc = "propagate" /\ level = 1
<1> DEFINE x == [ids |-> UnsolvableIds(Visited), proof |-> Proof(Visited)]
<1>1. /\ Conflict /\ level = 1 /\ \A k \in Responsible(Visited) : trail.why[k] > 0
      /\ problems' = Append(problems, x) /\ rules' = rules
  BY DEF UnsolvableProblem, Unsolvable, ruleVars
<1>2. pc = "propagate" /\ caller.at \notin UncheckedCallers
  BY <1>1, ConflictFacts, ExtrasNoConflict
<1>3. Proof(Visited) \subseteq DOMAIN rules /\ ~Satisfiable(Solvables, rules, Proof(Visited))
  BY <1>1, ConflictFacts, ProofHolds
<1>4. x.proof = Proof(Visited)
  OBVIOUS
<1> HIDE DEF x
<1>5. Problems'
  BY <1>1, <1>3, <1>4, ProblemAdded DEF SearchInv
<1>6. QED BY <1>1, <1>2, <1>5

\* A problem is reported and its rules are disabled.
LEMMA ReportKeeps ==
  ASSUME SearchInv, UnsolvableReport
  PROVE  SearchInv'
<1>1. /\ Problems' /\ caller.at \notin UncheckedCallers /\ pc = "propagate"
  BY ProblemKeeps DEF UnsolvableReport
<1>2. /\ Reset(DisableProblems(disabled, UnsolvableIds(Visited)))
      /\ UNCHANGED <<in, ruleVars, systemlevel, an, loc>>
  BY DEF UnsolvableReport, UnsolvableProblem
<1>3. DisableProblems(disabled, UnsolvableIds(Visited)) \subseteq DOMAIN rules
  <2>1. \A i \in DOMAIN rules : ProblemRules(rules, ProblemId(rules, i)) \subseteq DOMAIN rules
    BY GroupFits DEF SearchInv
  <2>2. \A v \in UnsolvableIds(Visited) : ProblemRules(rules, v) \subseteq DOMAIN rules
    <3>1. Sources(Proof(Visited)) \subseteq DOMAIN rules
      BY DEF Sources, Original
    <3>2. \A v \in UnsolvableIds(Visited) : \E i \in DOMAIN rules : v = ProblemId(rules, i)
      BY <3>1 DEF UnsolvableIds
    <3>3. QED BY <2>1, <3>2
  <2>3. QED BY <2>2 DEF DisableProblems, SearchInv, RulesTyped
<1>4. QED BY <1>1, <1>2, <1>3, ResetKeeps

\* A problem is reported and the search gives up.
LEMMA HopelessKeeps ==
  ASSUME SearchInv, UnsolvableHopeless
  PROVE  SearchInv'
<1>1. Problems' /\ caller.at \notin UncheckedCallers /\ pc = "propagate" /\ level = 1
  BY ProblemKeeps DEF UnsolvableHopeless
<1>2. /\ in' = in /\ rules' = rules /\ w' = w /\ watches' = watches /\ disabled' = disabled
      /\ trail' = trail /\ propagate_index' = propagate_index /\ branches' = branches
      /\ recommendations' = recommendations /\ systemlevel' = systemlevel /\ caller' = caller
      /\ an' = an /\ loc' = loc /\ level' = 0 /\ visit' = 0 /\ pc' = "hopeless"
  BY <1>1 DEF UnsolvableHopeless, UnsolvableProblem, ruleVars, searchVars
<1>3. /\ RulesTyped' /\ WatchesWhole' /\ ProofsEntail' /\ TrailInv'
  BY <1>2 DEF SearchInv, RulesTyped, RulesGrow, WatchesWhole, Lits, Watching, ProofsEntail,
              TrailInv, ReasonsInForce, LevelAt, Enabled
<1>4. Recommendations'
  BY <1>2 DEF SearchInv, Recommendations, RecommendationsOnTrail
<1>5. Phases'
  <2>1. /\ caller.at \in SystemBacks \cup UncheckedCallers \cup {"top", "jobs"}
        /\ caller = [at |-> caller.at, olevel |-> caller.olevel, disablerules |-> caller.disablerules]
        /\ caller.olevel \in Nat /\ caller.olevel > 0
        /\ systemlevel \in 1..(NSolvables + 1) /\ propagate_index \in 0..Len(trail.q)
    BY DEF SearchInv, Phases
  <2>2. pc' \notin Running /\ pc' \notin Resting \cup UncheckedCallers \cup SystemBacks \cup {"top"}
    BY <1>2 DEF Running, Resting, UncheckedCallers, SystemBacks, Extras
  <2>3. 0 \in Nat
    OBVIOUS
  <2>4. QED BY <1>2, <2>1, <2>2, <2>3 DEF Phases, Running
<1>6. Locals'
  <2>1. LocalsAt(Placed) /\ Placed' = "hopeless"
    BY <1>2, LocalsPlaced DEF SearchInv, Placed, Running
  <2>2. LocalsAt(Placed)'
    BY <1>2, <2>1 DEF LocalsAt, NInstalled
  <2>3. (Phases => (Locals <=> LocalsAt(Placed)))'
    BY LocalsPlaced, PTL
  <2>4. QED BY <1>5, <2>2, <2>3
<1>7. Branches'
  <2>1. BranchesAt(branches, trail.map, 1)
    BY <1>1, BranchesAre DEF SearchInv
  <2>2. BranchesAt(branches', trail'.map, level')
    BY <1>2, <2>1, NoBranches
  <2>3. (Branches <=> BranchesAt(branches, trail.map, level))'
    BY BranchesAre, PTL
  <2>4. QED BY <2>2, <2>3
<1>8. WatchesGuard'
  BY <1>2 DEF WatchesGuard
<1>9. ExtrasHaveSolution'
  BY <1>2 DEF ExtrasHaveSolution, InExtras, Extras, UncheckedCallers
<1>10. pc' # "analyze"
  BY <1>2
<1>11. QED BY <1>1, <1>3, <1>4, <1>5, <1>6, <1>7, <1>8, <1>9, <1>10, NotAnalysing DEF SearchInv

----------------------------------------------------------------------------
(* The analysis of a conflict.                                             *)

\* A step of the analysis keeps what is not about the analysis.
LEMMA AnalyzeFrame ==
  ASSUME SearchInv, pc \in {"propagate", "analyze"}, pc' = "analyze", level > 1,
         UNCHANGED <<in, ruleVars, disabled, policy, problems, searchVars, level, systemlevel,
                     caller, visit, loc>>,
         Analysis', DerivedFollows', UsesRulesInForce'
  PROVE  SearchInv'
<1>1. /\ in' = in /\ rules' = rules /\ w' = w /\ watches' = watches /\ disabled' = disabled
      /\ problems' = problems /\ trail' = trail /\ propagate_index' = propagate_index
      /\ branches' = branches /\ recommendations' = recommendations /\ level' = level
      /\ systemlevel' = systemlevel /\ caller' = caller /\ visit' = visit /\ loc' = loc
  BY DEF ruleVars, searchVars
<1>2. Standing'
  BY <1>1, StandingStays DEF SearchInv, Standing, ruleVars
<1>3. TrailInv' /\ Branches' /\ Recommendations' /\ WatchesGuard'
  BY <1>1 DEF SearchInv, TrailInv, ReasonsInForce, LevelAt, Enabled, Branches, Undecided, LevelOf,
              Recommendations, RecommendationsOnTrail, WatchesGuard, Noticed, EnabledRules
<1>4. Phases'
  <2>1. pc' \in Running /\ pc' \notin {"assert", "assertweak"}
        /\ pc' \notin Resting \cup UncheckedCallers \cup SystemBacks \cup {"top"} /\ pc # "hopeless"
    BY DEF Running, Resting, UncheckedCallers, SystemBacks, Extras
  <2>2. QED BY <1>1, <2>1 DEF SearchInv, Phases, LevelAt
<1>5. Locals'
  <2>1. Placed' = Placed /\ pc \in Running
    BY <1>1 DEF Placed, Running
  <2>2. Len(rules') \in Nat /\ Len(rules) <= Len(rules')
    BY <1>1, RuleFacts DEF SearchInv
  <2>3. QED BY <1>1, <1>4, <2>1, <2>2, LocalsStay
<1>6. ExtrasHaveSolution'
  <2>1. InExtras' => InExtras
    BY <1>1 DEF InExtras, Extras, UncheckedCallers
  <2>2. QED BY <1>1, <2>1 DEF SearchInv, ExtrasHaveSolution, EnabledRules, LevelAt
<1>7. QED BY <1>2, <1>3, <1>4, <1>5, <1>6 DEF SearchInv, Standing

\* The analysis of a conflict begins.
LEMMA StartKeeps ==
  ASSUME SearchInv, StartAnalyze
  PROVE  SearchInv'
<1>1. /\ Conflict /\ level > 1 /\ pc' = "analyze"
      /\ an' = [NoAnalysis EXCEPT !.c = Visited, !.idx = Len(trail.q)]
      /\ UNCHANGED <<in, ruleVars, disabled, policy, problems, searchVars, level, systemlevel,
                     caller, visit, loc>>
      /\ rules' = rules /\ disabled' = disabled /\ trail' = trail /\ level' = level
  BY DEF StartAnalyze, ruleVars, searchVars
<1>2. /\ pc = "propagate" /\ Visited \in DOMAIN rules /\ Enabled(Visited) /\ ~IsAssertion(rules[Visited])
      /\ level \in Nat /\ \A l \in Lits(Visited) : IsFalse(trail.map, l)
      /\ Falsified \in Lits(Visited) /\ LevelOf(Falsified) = level
  BY <1>1, ConflictFacts
<1> DEFINE c == Visited
           n == Len(trail.q)
<1> HIDE DEF Visited, Falsified
<1>3. an' = [NoAnalysis EXCEPT !.c = c, !.idx = n]
  BY <1>1
<1>4. n \in Nat /\ Len(rules) \in Nat /\ c \in 1..Len(rules)
  BY <1>2, TrailFacts, RuleFacts DEF SearchInv
<1> HIDE DEF c, n
<1>5. an' = [c |-> c, idx |-> n, seen |-> {}, num |-> 0, l1num |-> 0, r |-> <<>>,
             rlevel |-> 1, why |-> {}, p |-> 0, done |-> FALSE]
  BY <1>3 DEF NoAnalysis
<1>6. /\ an'.c = c /\ an'.idx = n /\ an'.seen = {} /\ an'.r = <<>> /\ an'.rlevel = 1
      /\ an'.why = {} /\ an'.p = 0
  BY <1>5
<1>7. Starting'
  <2>1. an' = [NoAnalysis EXCEPT !.c = an'.c, !.idx = Len(trail'.q)]
    BY <1>1, <1>3, <1>6 DEF n
  <2>2. QED BY <1>1, <1>2, <1>6, <2>1 DEF Starting, Lits, LevelOf, c
<1>8. AnalysisType(an)'
  <2>1. DOMAIN an' = {"c", "idx", "seen", "num", "l1num", "r", "rlevel", "why", "p", "done"}
    BY <1>5
  <2>2. /\ an'.c \in 0..Len(rules) /\ an'.idx \in 0..n /\ an'.num \in Nat /\ an'.l1num \in Nat
        /\ an'.rlevel \in Nat /\ an'.p \in Int /\ an'.done \in BOOLEAN
    BY <1>4, <1>5
  <2>3. an'.seen \subseteq Solvables /\ an'.r \in Seq(Literals(Solvables)) /\ an'.why \subseteq DOMAIN rules
    BY <1>6
  <2>4. QED BY <1>1, <2>1, <2>2, <2>3 DEF AnalysisType, n
<1>9. Analysis'
  <2>1. Range(<<>>) = {}
    BY DEF Range
  <2>2. 1 \in 1..(level - 1)
    BY <1>1, <1>2
  <2>3. QED BY <1>1, <1>6, <1>7, <1>8, <2>1, <2>2 DEF Analysis
<1>10. DerivedFollows'
  BY <1>6 DEF DerivedFollows
<1>11. UsesRulesInForce'
  BY <1>1, <1>2, <1>6 DEF UsesRulesInForce, Usable, Enabled, c
<1>12. QED BY <1>1, <1>2, <1>9, <1>10, <1>11, AnalyzeFrame

\* A solvable and the literals about it have one level.
LEMMA VarFacts ==
  ASSUME SearchInv, NEW l \in Literals(Solvables)
  PROVE  /\ Var(l) \in Solvables /\ Var(Var(l)) = Var(l) /\ LevelOf(Var(l)) = LevelOf(l)
         /\ Undecided(Var(l)) <=> IsUndef(trail.map, l)
<1>1. Var(l) \in Solvables
  BY TrailFacts
<1>2. Var(Var(l)) = Var(l)
  BY <1>1, TrailFacts DEF Var
<1>3. QED BY <1>1, <1>2 DEF LevelOf, Undecided, IsUndef

\* The false literal about a solvable.
LEMMA FalseLitIs ==
  ASSUME SearchInv, NEW l \in Literals(Solvables), IsFalse(trail.map, l)
  PROVE  FalseLit(Var(l)) = l
<1>1. /\ l \in Int /\ l # 0 /\ Var(l) \in Solvables /\ trail.map[Var(l)] \in Int /\ -(-l) = l
  BY TrailFacts
<1>2. CASE l > 0
  BY <1>1, <1>2 DEF FalseLit, Installed, IsFalse, Var
<1>3. CASE ~(l > 0)
  BY <1>1, <1>3 DEF FalseLit, Installed, IsFalse, Var
<1>4. QED BY <1>2, <1>3

\* Two false literals about one solvable are one.
LEMMA FalseLitsDiffer ==
  ASSUME SearchInv, NEW x \in Literals(Solvables), NEW y \in Literals(Solvables),
         IsFalse(trail.map, x), IsFalse(trail.map, y), Var(x) = Var(y)
  PROVE  x = y
BY FalseLitIs

\* The rule that is resolved next: its false literals wait to be looked at.
LEMMA ResolveFacts ==
  ASSUME SearchInv, pc = "analyze", an.c # 0
  PROVE  /\ an.c \in DOMAIN rules /\ an.idx \in 0..Len(trail.q) /\ ~an.done
         /\ Starting \/ AtCurrent \/ AtGround
         /\ \A l \in Lits(an.c) : /\ l \in Literals(Solvables)
                                  /\ ~IsTrue(trail.map, l) => \E k \in 1..an.idx : trail.q[k] = -l
<1>1. /\ Starting \/ AtCurrent \/ AtGround \/ Analysed
      /\ an.c \in 0..Len(rules) /\ an.idx \in 0..Len(trail.q)
  BY DEF SearchInv, Analysis, AnalysisType
<1>2. Starting \/ AtCurrent \/ AtGround
  BY <1>1 DEF Analysed
<1>3. /\ an.c \in DOMAIN rules /\ Lits(an.c) \subseteq Literals(Solvables) /\ Len(rules) \in Nat
      /\ DOMAIN rules = 1..Len(rules)
  <2>1. DOMAIN rules = 1..Len(rules) /\ Len(rules) \in Nat
    BY RuleFacts DEF SearchInv
  <2>2. an.c \in DOMAIN rules
    BY <1>1, <2>1
  <2>3. QED BY <2>1, <2>2, RuleFacts DEF SearchInv
<1>4. ~an.done
  <2>1. Starting => ~an.done
    BY DEF Starting, NoAnalysis
  <2>2. QED BY <1>2, <2>1 DEF AtCurrent, AtGround
<1>5. ASSUME NEW l \in Lits(an.c), ~IsTrue(trail.map, l)
      PROVE  \E k \in 1..an.idx : trail.q[k] = -l
  <2>1. CASE Starting
    <3>1. an.idx = Len(trail.q)
      BY <2>1 DEF Starting, NoAnalysis
    <3>2. IsFalse(trail.map, l)
      BY <1>5, <2>1 DEF Starting
    <3>3. QED BY <1>3, <3>1, <3>2, TrailFacts
  <2>2. CASE AtCurrent \/ AtGround
    <3>1. an.idx < Len(trail.q) /\ trail.why[an.idx + 1] = an.c
      BY <2>2 DEF AtCurrent, AtGround, Resolving
    <3> DEFINE m == an.idx + 1
    <3>2. m \in 1..Len(trail.q) /\ m - 1 = an.idx /\ trail.why[m] > 0
      BY <1>1, <1>3, <3>1, TrailFacts
    <3> HIDE DEF m
    <3>3. IsTrue(trail.map, trail.q[m])
      BY <3>2, TrailFacts
    <3>4. trail.why[m] = an.c
      BY <3>1 DEF m
    <3>5. \A x \in Lits(an.c) \ {trail.q[m]} : \E j \in 1..(m - 1) : trail.q[j] = -x
      <4>1. m \in 1..Len(trail.q) /\ Reasons(trail, rules)
        BY <3>2, TrailFacts DEF TrailWhole
      <4>2. \A x \in Range(rules[trail.why[m]].lits) \ {trail.q[m]} : \E j \in 1..(m - 1) : trail.q[j] = -x
        BY <4>1, <3>2 DEF Reasons
      <4>3. QED BY <4>2, <3>4 DEF Lits
    <3>6. QED BY <1>5, <3>2, <3>3, <3>5
  <2>3. QED BY <1>2, <2>1, <2>2
<1>6. QED BY <1>1, <1>2, <1>3, <1>4, <1>5

\* The newest marked decision.
LEMMA NextMarkedFacts ==
  ASSUME SearchInv, pc = "analyze",
         NEW j \in 1..an.idx, Var(trail.q[j]) \in an.seen
  PROVE  /\ NextMarked \in 1..an.idx /\ NextMarked \in 1..Len(trail.q)
         /\ Var(trail.q[NextMarked]) \in an.seen
         /\ \A k \in 1..an.idx : Var(trail.q[k]) \in an.seen => k <= NextMarked
         /\ FalseLit(Var(trail.q[NextMarked])) = -trail.q[NextMarked]
         /\ Var(trail.q[NextMarked]) \in Solvables
         /\ LevelOf(Var(trail.q[NextMarked])) = LevelAt(NextMarked)
         /\ ReasonAt(NextMarked) \in 0..Len(rules)
         /\ \A k \in 1..an.idx : Var(trail.q[k]) \in an.seen /\ Var(trail.q[k]) # Var(trail.q[NextMarked])
                                   => k \in 1..(NextMarked - 1)
<1> DEFINE M == {k \in 1..an.idx : Var(trail.q[k]) \in an.seen}
           m == NextMarked
<1>1. /\ an.idx \in 0..Len(trail.q) /\ Len(trail.q) \in Nat /\ Len(rules) \in Nat
      /\ DOMAIN trail.q = 1..Len(trail.q)
  BY TrailFacts, RuleFacts DEF SearchInv, Analysis, AnalysisType
<1>2. M \subseteq 0..an.idx /\ an.idx \in Nat /\ M # {}
  BY <1>1
<1>3. NextMarked = Max(M)
  BY DEF NextMarked
<1> HIDE DEF M
<1>4. NextMarked \in M /\ \A k \in M : k <= NextMarked
  BY <1>2, <1>3, MaxIsGreatest
<1>5. /\ m \in 1..an.idx /\ Var(trail.q[m]) \in an.seen /\ m \in 1..Len(trail.q)
      /\ \A k \in 1..an.idx : Var(trail.q[k]) \in an.seen => k <= m
  <2>1. /\ m \in 1..an.idx /\ Var(trail.q[m]) \in an.seen
        /\ \A k \in 1..an.idx : Var(trail.q[k]) \in an.seen => k <= m
    BY <1>4 DEF M
  <2>2. QED BY <1>1, <2>1
<1> HIDE DEF m
<1>6. /\ trail.q[m] \in Literals(Solvables) /\ -trail.q[m] \in Literals(Solvables)
      /\ IsFalse(trail.map, -trail.q[m]) /\ Var(-trail.q[m]) = Var(trail.q[m])
      /\ LevelOf(trail.q[m]) = LevelAt(m)
  BY <1>5, TrailFacts
<1>7. FalseLit(Var(trail.q[m])) = -trail.q[m] /\ Var(trail.q[m]) \in Solvables
      /\ LevelOf(Var(trail.q[m])) = LevelAt(m)
  BY <1>6, FalseLitIs, VarFacts
<1>8. ReasonAt(m) \in 0..Len(rules)
  <2>1. trail.why[m] \in -Len(rules)..Len(rules)
    BY <1>1, <1>5, TrailFacts DEF TrailWhole, Reasons
  <2>2. QED BY <1>1, <2>1 DEF ReasonAt
<1>9. ASSUME NEW k \in 1..an.idx, Var(trail.q[k]) \in an.seen, Var(trail.q[k]) # Var(trail.q[m])
      PROVE  k \in 1..(m - 1)
  <2>1. k <= m /\ k # m /\ k \in Nat /\ m \in Nat /\ k >= 1
    BY <1>1, <1>5, <1>9
  <2>2. QED BY <2>1
<1>10. QED BY <1>5, <1>7, <1>8, <1>9 DEF m

\* The reason of a decision may be resolved with.
LEMMA ReasonUsable ==
  ASSUME SearchInv, NEW k \in 1..Len(trail.q), ReasonAt(k) # 0
  PROVE  /\ trail.why[k] > 0 /\ ReasonAt(k) = trail.why[k] /\ Usable(ReasonAt(k))
<1>1. trail.why[k] > 0 /\ ReasonAt(k) = trail.why[k]
  BY DEF ReasonAt
<1>2. k \in DOMAIN trail.q
  BY TrailFacts
<1>3. IF IsAssertion(rules[trail.why[k]]) THEN LevelAt(k) = 1 ELSE Enabled(trail.why[k])
  BY <1>1, <1>2 DEF SearchInv, TrailInv, ReasonsInForce
<1>4. QED BY <1>1, <1>2, <1>3 DEF Usable

\* Only the first decision of a level has no reason.
LEMMA LaterDecisionsForced ==
  ASSUME SearchInv, NEW k \in 1..Len(trail.q), NEW j \in 1..(k - 1), LevelAt(j) = LevelAt(k)
  PROVE  ReasonAt(k) # 0
<1>1. /\ TrailWhole(trail, rules, NSolvables) /\ Len(trail.q) \in Nat /\ NSolvables \in Nat
  BY TrailFacts, SearchFacts
<1>2. k \in 2..Len(trail.q) /\ k - 1 \in 1..Len(trail.q) /\ j \in 1..Len(trail.q) /\ j <= k - 1 /\ k - 1 <= k
  BY <1>1
<1>3. LevelIn(trail, j) <= LevelIn(trail, k - 1)
  BY <1>1, <1>2, DecisionFacts
<1>4. LevelIn(trail, k) \in Nat /\ LevelIn(trail, k - 1) \in Nat /\ LevelIn(trail, j) = LevelIn(trail, k)
  <2>1. \A m \in 1..Len(trail.q) : LevelIn(trail, m) \in 1..TopLevel(trail) /\ TopLevel(trail) \in Nat
    BY TrailFacts, SearchFacts
  <2>2. QED BY <1>2, <2>1 DEF LevelAt
<1>5. \/ LevelIn(trail, k) = LevelIn(trail, k - 1) /\ trail.why[k] > 0
      \/ LevelIn(trail, k) = LevelIn(trail, k - 1) + 1 /\ trail.why[k] <= 0
  BY <1>1, <1>2 DEF TrailWhole, Stairs
<1>6. trail.why[k] > 0
  BY <1>3, <1>4, <1>5
<1>7. QED BY <1>6 DEF ReasonAt

----------------------------------------------------------------------------
(* Resolving one rule.                                                     *)

\* The literals met for the first time, those of one level, and those that
\* are neither of level 1 nor of the current one.
NewLits == {l \in Lits(an.c) : ~IsTrue(trail.map, l) /\ Var(l) \notin an.seen}
\* Those of level lev.
NewAt(lev) == {l \in NewLits : LevelOf(l) = lev}
\* Those that go into the learnt rule.
LowerLits == {l \in NewLits : LevelOf(l) \notin {1, level}}
\* Their solvables.
NewVars == {Var(l) : l \in NewLits}

\* What analyze keeps while it resolves a rule.
Resolved(a) ==
  /\ DOMAIN a = DOMAIN an
  /\ a.c = 0 /\ a.idx = an.idx /\ a.p = an.p /\ a.done = an.done
  /\ a.why = an.why \cup {an.c} /\ a.seen = an.seen \cup NewVars
  /\ a.num = an.num + Cardinality(NewAt(level))
  /\ a.l1num = an.l1num + Cardinality(NewAt(1))
  /\ a.r = an.r \o Only(rules[an.c].lits, LowerLits)
  /\ a.rlevel = Max({an.rlevel} \cup {LevelOf(l) : l \in LowerLits})

\* A step that resolves a rule, in these words.
LEMMA RuleResolves ==
  ASSUME SearchInv, AnalyzeRule
  PROVE  /\ Resolved(an') /\ pc = "analyze" /\ an.c # 0
         /\ UNCHANGED <<in, ruleVars, disabled, policy, problems, searchVars, pc, level,
                        systemlevel, caller, visit, loc>>
<1>1. DOMAIN an = {"c", "idx", "seen", "num", "l1num", "r", "rlevel", "why", "p", "done"}
  BY DEF AnalyzeRule, SearchInv, Analysis, AnalysisType
<1>2. an' = [an EXCEPT
              !.c      = 0,
              !.why    = @ \cup {an.c},
              !.seen   = @ \cup NewVars,
              !.num    = @ + Cardinality(NewAt(level)),
              !.l1num  = @ + Cardinality(NewAt(1)),
              !.r      = @ \o Only(rules[an.c].lits, LowerLits),
              !.rlevel = Max({@} \cup {LevelOf(l) : l \in LowerLits})]
  BY Zenon DEF AnalyzeRule, NewLits, NewAt, LowerLits, NewVars
<1>3. \A a, v1, v2, v3, v4, v5, v6 :
        /\ DOMAIN a = {"c", "idx", "seen", "num", "l1num", "r", "rlevel", "why", "p", "done"}
        => LET b == [a EXCEPT !.c = 0, !.why = v1, !.seen = v2, !.num = v3, !.l1num = v4,
                              !.r = v5, !.rlevel = v6]
           IN  /\ DOMAIN b = DOMAIN a /\ b.c = 0 /\ b.why = v1 /\ b.seen = v2 /\ b.num = v3
               /\ b.l1num = v4 /\ b.r = v5 /\ b.rlevel = v6 /\ b.idx = a.idx /\ b.p = a.p
               /\ b.done = a.done
  OBVIOUS
<1>4. Resolved(an')
  BY <1>1, <1>2, <1>3, Zenon DEF Resolved
<1>5. QED BY <1>4 DEF AnalyzeRule

\* The new literals are false and wait to be looked at.
LEMMA NewLitsFacts ==
  ASSUME SearchInv, pc = "analyze", an.c # 0
  PROVE  /\ NewLits \subseteq Literals(Solvables) /\ IsFiniteSet(NewLits)
         /\ \A l \in NewLits : /\ IsFalse(trail.map, l) /\ Var(l) \in Solvables
                               /\ LevelOf(Var(l)) = LevelOf(l) /\ LevelOf(l) \in 1..level
                               /\ Var(l) \notin an.seen /\ FalseLit(Var(l)) = l
                               /\ Waiting(Var(l)) /\ ~Undecided(Var(l))
         /\ \A x, y \in NewLits : Var(x) = Var(y) => x = y
<1>1. NewLits \subseteq Literals(Solvables)
  BY ResolveFacts DEF NewLits
<1>2. IsFiniteSet(NewLits)
  <2>1. /\ Solvables = 1..NSolvables /\ NSolvables \in Nat
    BY SearchFacts DEF Solvables
  <2>2. IsFiniteSet(Literals(Solvables))
    <3>1. Literals(Solvables) \subseteq (-NSolvables)..NSolvables
      BY <2>1 DEF Literals
    <3>2. IsFiniteSet((-NSolvables)..NSolvables)
      BY <2>1, FS_Interval
    <3>3. QED BY <3>1, <3>2, FS_Subset
  <2>3. QED BY <1>1, <2>2, FS_Subset
<1>3. ASSUME NEW l \in NewLits
      PROVE  /\ IsFalse(trail.map, l) /\ Var(l) \in Solvables
             /\ LevelOf(Var(l)) = LevelOf(l) /\ LevelOf(l) \in 1..level
             /\ Var(l) \notin an.seen /\ FalseLit(Var(l)) = l
             /\ Waiting(Var(l)) /\ ~Undecided(Var(l))
  <2>1. l \in Literals(Solvables) /\ l \in Lits(an.c) /\ ~IsTrue(trail.map, l) /\ Var(l) \notin an.seen
    BY <1>1 DEF NewLits
  <2>2. an.idx \in 0..Len(trail.q) /\ Len(trail.q) \in Nat
    BY ResolveFacts, TrailFacts
  <2>3. PICK k \in 1..an.idx : trail.q[k] = -l
    BY <2>1, ResolveFacts
  <2>4. k \in 1..Len(trail.q)
    BY <2>2
  <2>5. IsFalse(trail.map, l) /\ Var(trail.q[k]) = Var(l)
    BY <2>1, <2>3, <2>4, TrailFacts
  <2>6. LevelOf(l) \in 1..TopLevel(trail) /\ level = TopLevel(trail)
    <3>1. level # 0
      BY DEF SearchInv, Phases
    <3>2. QED BY <3>1, <2>1, <2>5, TrailFacts, SearchFacts
  <2>7. ~Undecided(Var(l))
    BY <2>1, <2>5, VarFacts, TrailFacts
  <2>8. QED BY <2>1, <2>3, <2>5, <2>6, <2>7, VarFacts, FalseLitIs DEF Waiting
<1>4. \A x, y \in NewLits : Var(x) = Var(y) => x = y
  BY <1>3
<1>5. QED BY <1>1, <1>2, <1>3, <1>4

\* The marks are counted level by level.
LEMMA MarksCounted ==
  ASSUME SearchInv, pc = "analyze", an.c # 0, NEW lev
  PROVE  /\ Cardinality({v \in an.seen \cup NewVars : LevelOf(v) = lev}) =
              Cardinality(SeenAt(lev)) + Cardinality(NewAt(lev))
         /\ IsFiniteSet(SeenAt(lev)) /\ Cardinality(SeenAt(lev)) \in Nat
         /\ IsFiniteSet(NewAt(lev)) /\ Cardinality(NewAt(lev)) \in Nat
<1> DEFINE V == {Var(l) : l \in NewAt(lev)}
<1>1. IsFiniteSet(SeenAt(lev))
  <2>1. an.seen \subseteq 1..NSolvables /\ NSolvables \in Nat
    BY SearchFacts DEF Solvables, SearchInv, Analysis, AnalysisType
  <2>2. SeenAt(lev) \subseteq 1..NSolvables
    BY <2>1 DEF SeenAt
  <2>3. IsFiniteSet(1..NSolvables)
    BY <2>1, FS_Interval
  <2>4. QED BY <2>2, <2>3, FS_Subset
<1>2. NewAt(lev) \subseteq NewLits /\ IsFiniteSet(NewAt(lev))
  <2>1. NewAt(lev) \subseteq NewLits
    BY DEF NewAt
  <2>2. QED BY <2>1, NewLitsFacts, FS_Subset
<1>3. IsFiniteSet(V) /\ Cardinality(V) = Cardinality(NewAt(lev))
  <2>1. \A x, y \in NewAt(lev) : Var(x) = Var(y) => x = y
    BY <1>2, NewLitsFacts
  <2>2. QED BY <1>2, <2>1, VarsCount
<1>4. {v \in an.seen \cup NewVars : LevelOf(v) = lev} = SeenAt(lev) \cup V
  <2>1. ASSUME NEW v
        PROVE  v \in NewVars /\ LevelOf(v) = lev <=> v \in V
    <3>1. ASSUME v \in NewVars, LevelOf(v) = lev PROVE v \in V
      <4>1. PICK l \in NewLits : v = Var(l)
        BY <3>1 DEF NewVars
      <4>2. LevelOf(l) = lev
        BY <3>1, <4>1, NewLitsFacts
      <4>3. QED BY <4>1, <4>2 DEF NewAt
    <3>2. ASSUME v \in V PROVE v \in NewVars /\ LevelOf(v) = lev
      <4>1. PICK l \in NewAt(lev) : v = Var(l)
        BY <3>2
      <4>2. l \in NewLits /\ LevelOf(l) = lev
        BY <4>1 DEF NewAt
      <4>3. QED BY <4>1, <4>2, NewLitsFacts DEF NewVars
    <3>3. QED BY <3>1, <3>2
  <2> HIDE DEF V
  <2>2. QED BY <2>1 DEF SeenAt
<1>5. SeenAt(lev) \cap V = {}
  <2>1. \A l \in NewAt(lev) : Var(l) \notin an.seen
    BY <1>2, NewLitsFacts
  <2>2. QED BY <2>1 DEF SeenAt
<1> HIDE DEF V
<1>6. Cardinality(SeenAt(lev) \cup V) = Cardinality(SeenAt(lev)) + Cardinality(V)
  BY <1>1, <1>3, <1>5, CountAdds
<1>7. QED BY <1>1, <1>2, <1>3, <1>4, <1>6, FS_CardinalityType

\* The literals of lower levels join the learnt rule.
LEMMA LowerJoin ==
  ASSUME SearchInv, pc = "analyze", an.c # 0,
         NEW r, r = an.r \o Only(rules[an.c].lits, LowerLits),
         NEW rl, rl = Max({an.rlevel} \cup {LevelOf(l) : l \in LowerLits})
  PROVE  /\ r \in Seq(Literals(Solvables)) /\ Range(r) = Range(an.r) \cup LowerLits
         /\ rl \in 1..(level - 1)
         /\ \A l \in Range(r) : IsFalse(trail.map, l) /\ LevelOf(l) \in 2..rl
         /\ rl = 1 \/ \E l \in Range(r) : LevelOf(l) = rl
         /\ LowerLits = {} => r = an.r
<1> DEFINE more == Only(rules[an.c].lits, LowerLits)
           L == {an.rlevel} \cup {LevelOf(l) : l \in LowerLits}
           T == Literals(Solvables)
<1>1. /\ rules[an.c].lits \in Seq(T) /\ Range(rules[an.c].lits) = Lits(an.c)
      /\ an.r \in Seq(T) /\ an.rlevel \in 1..(level - 1) /\ level \in Nat
      /\ \A l \in Range(an.r) : IsFalse(trail.map, l) /\ LevelOf(l) \in 2..an.rlevel
      /\ an.rlevel = 1 \/ \E l \in Range(an.r) : LevelOf(l) = an.rlevel
  <2>1. an.c \in DOMAIN rules
    BY ResolveFacts
  <2>2. rules[an.c].lits \in Seq(T)
    BY <2>1, RuleFacts DEF SearchInv
  <2>3. QED BY <2>2, SearchFacts DEF Lits, SearchInv, Analysis, AnalysisType
<1>2. more \in Seq(T) /\ Range(more) = LowerLits
  <2>1. more \in Seq(T) /\ Range(more) = Lits(an.c) \cap LowerLits
    BY <1>1, OnlyPicks
  <2>2. LowerLits \subseteq Lits(an.c)
    BY DEF LowerLits, NewLits
  <2>3. QED BY <2>1, <2>2
<1>3. r \in Seq(T) /\ Range(r) = Range(an.r) \cup Range(more)
  <2>1. r = an.r \o more
    OBVIOUS
  <2> HIDE DEF more, T
  <2>2. r \in Seq(T)
    BY <1>1, <1>2, <2>1
  <2>3. /\ Len(an.r) \in Nat /\ Len(more) \in Nat /\ Len(r) = Len(an.r) + Len(more)
        /\ DOMAIN r = 1..Len(r) /\ DOMAIN an.r = 1..Len(an.r) /\ DOMAIN more = 1..Len(more)
        /\ \A k \in 1..Len(r) : r[k] = IF k <= Len(an.r) THEN an.r[k] ELSE more[k - Len(an.r)]
    BY <1>1, <1>2, <2>1
  <2>4. ASSUME NEW x, x \in Range(r) PROVE x \in Range(an.r) \cup Range(more)
    <3>1. PICK k \in 1..Len(r) : r[k] = x
      BY <2>3, <2>4 DEF Range
    <3>2. CASE k <= Len(an.r)
      <4>0. k \in 1..Len(an.r)
        BY <2>3, <3>2
      <4>1. r[k] = an.r[k]
        BY <2>3, <3>2
      <4>2. QED BY <2>3, <3>1, <4>0, <4>1 DEF Range
    <3>3. CASE ~(k <= Len(an.r))
      <4>1. k - Len(an.r) \in 1..Len(more)
        BY <2>3, <3>3
      <4>2. QED BY <2>3, <3>1, <3>3, <4>1 DEF Range
    <3>4. QED BY <3>2, <3>3
  <2>5. ASSUME NEW x, x \in Range(an.r) PROVE x \in Range(r)
    <3>1. PICK k \in 1..Len(an.r) : an.r[k] = x
      BY <2>3, <2>5 DEF Range
    <3>2. k \in 1..Len(r) /\ k <= Len(an.r)
      BY <2>3
    <3>3. QED BY <2>3, <3>1, <3>2 DEF Range
  <2>6. ASSUME NEW x, x \in Range(more) PROVE x \in Range(r)
    <3>1. PICK k \in 1..Len(more) : more[k] = x
      BY <2>3, <2>6 DEF Range
    <3>2. /\ k + Len(an.r) \in 1..Len(r) /\ ~(k + Len(an.r) <= Len(an.r))
          /\ (k + Len(an.r)) - Len(an.r) = k
      BY <2>3
    <3>3. r[k + Len(an.r)] = x
      BY <2>3, <3>1, <3>2
    <3>4. QED BY <2>3, <3>2, <3>3 DEF Range
  <2>7. QED BY <2>2, <2>4, <2>5, <2>6
<1>4. \A l \in LowerLits : LevelOf(l) \in 2..(level - 1) /\ IsFalse(trail.map, l)
  <2>1. \A l \in LowerLits : l \in NewLits /\ LevelOf(l) # 1 /\ LevelOf(l) # level
    BY DEF LowerLits
  <2>2. \A l \in LowerLits : LevelOf(l) \in 1..level /\ IsFalse(trail.map, l)
    BY <2>1, NewLitsFacts
  <2>3. QED BY <1>1, <2>1, <2>2
<1>5. rl \in L /\ \A y \in L : y <= rl
  <2>1. L \subseteq 0..level /\ L # {}
    BY <1>1, <1>4
  <2>2. rl = Max(L)
    OBVIOUS
  <2> HIDE DEF L
  <2>3. QED BY <1>1, <2>1, <2>2, MaxIsGreatest
<1>6. rl \in 1..(level - 1)
  BY <1>1, <1>4, <1>5
<1>7. \A l \in Range(r) : IsFalse(trail.map, l) /\ LevelOf(l) \in 2..rl
  <2>1. an.rlevel <= rl /\ \A l \in LowerLits : LevelOf(l) <= rl
    BY <1>5
  <2>2. \A l \in Range(an.r) : LevelOf(l) \in 2..rl
    BY <1>1, <1>6, <2>1
  <2>3. \A l \in LowerLits : LevelOf(l) \in 2..rl
    BY <1>1, <1>4, <1>6, <2>1
  <2>4. QED BY <1>1, <1>2, <1>3, <1>4, <2>2, <2>3
<1>8. rl = 1 \/ \E l \in Range(r) : LevelOf(l) = rl
  BY <1>1, <1>2, <1>3, <1>5
<1>9. LowerLits = {} => r = an.r
  <2>1. ASSUME LowerLits = {} PROVE more = <<>>
    <3>1. DOMAIN more = 1..Len(more) /\ Len(more) \in Nat /\ Range(more) = {}
      BY <1>2, <2>1
    <3> HIDE DEF more
    <3>2. \A k \in DOMAIN more : more[k] \in Range(more)
      BY DEF Range
    <3>4. Len(more) > 0 => 1 \in DOMAIN more
      BY <3>1
    <3>5. Len(more) = 0
      BY <3>1, <3>2, <3>4
    <3>6. QED BY <1>2, <3>5
  <2> HIDE DEF more
  <2>2. r = an.r \o more
    BY DEF more
  <2>3. QED BY <1>1, <2>1, <2>2
<1>10. QED BY <1>2, <1>3, <1>6, <1>7, <1>8, <1>9

\* The rule resolved next forced the decision looked at last: its other
\* literals are false.
LEMMA ForcedFalse ==
  ASSUME SearchInv, pc = "analyze", an.c # 0, an.why # {}
  PROVE  /\ an.idx + 1 \in 1..Len(trail.q) /\ trail.q[an.idx + 1] \in Literals(Solvables)
         /\ \A l \in Lits(an.c) : l # trail.q[an.idx + 1] => ~IsTrue(trail.map, l)
         /\ AtGround => LevelAt(an.idx + 1) = 1
<1> DEFINE m == an.idx + 1
<1>1. AtCurrent \/ AtGround
  <2>1. Starting => an.why = {}
    BY DEF Starting, NoAnalysis
  <2>2. QED BY <2>1, ResolveFacts
<1>2. an.idx < Len(trail.q) /\ trail.why[m] = an.c /\ (AtGround => LevelAt(m) = 1)
  BY <1>1 DEF AtCurrent, AtGround, Resolving
<1>3. m \in 1..Len(trail.q) /\ m \in DOMAIN trail.q /\ Len(trail.q) \in Nat
  BY <1>2, ResolveFacts, TrailFacts
<1>4. an.c \in DOMAIN rules /\ an.c > 0
  BY ResolveFacts, RuleFacts DEF SearchInv
<1>5. \A l \in Range(rules[an.c].lits) \ {trail.q[m]} : \E j \in 1..(m - 1) : trail.q[j] = -l
  <2>1. Reasons(trail, rules)
    BY TrailFacts DEF TrailWhole
  <2>2. trail.why[m] > 0
    BY <1>2, <1>4 DEF m
  <2>3. QED BY <1>2, <1>3, <2>1, <2>2 DEF Reasons, m
<1> HIDE DEF m
<1>6. ASSUME NEW l \in Lits(an.c), l # trail.q[m] PROVE ~IsTrue(trail.map, l)
  <2>1. PICK j \in 1..(m - 1) : trail.q[j] = -l
    BY <1>5, <1>6 DEF Lits
  <2>2. j \in 1..Len(trail.q) /\ l \in Literals(Solvables)
    BY <1>3, ResolveFacts
  <2>3. QED BY <2>1, <2>2, TrailFacts
<1>7. QED BY <1>2, <1>3, <1>6, TrailFacts DEF m

\* What is derived while a rule is resolved.
LEMMA RuleDerives ==
  ASSUME SearchInv, AnalyzeRule
  PROVE  DerivedFollows'
<1>1. /\ Resolved(an') /\ pc = "analyze" /\ an.c # 0
      /\ rules' = rules /\ trail' = trail /\ level' = level
  BY RuleResolves DEF ruleVars, searchVars
<1>2. /\ an.done = FALSE /\ an'.done = FALSE /\ an'.c = 0 /\ an'.p = an.p
      /\ an'.why = an.why \cup {an.c}
      /\ an'.seen = an.seen \cup NewVars /\ Range(an.r) \subseteq Range(an'.r)
  <2>1. an.done \in BOOLEAN /\ ~an.done
    BY <1>1, ResolveFacts DEF SearchInv, Analysis, AnalysisType
  <2>2. an.done = FALSE
    BY <2>1
  <2>3. Range(an'.r) = Range(an.r) \cup LowerLits
    BY <1>1, LowerJoin DEF Resolved
  <2>4. QED BY <1>1, <2>2, <2>3 DEF Resolved
<1>3. SUFFICES ASSUME NEW S \in Worlds(Solvables), Satisfies(S, rules, an'.why)
               PROVE  \E l \in Derived' : TrueIn(S, l)
  BY <1>1, <1>2 DEF DerivedFollows
<1>4. Derived' = Range(an'.r) \cup ({an'.p} \ {0}) \cup {FalseLit(v) : v \in an'.seen}
  BY <1>1, <1>2 DEF Derived, FalseLit, Installed
<1>5. PICK x \in Lits(an.c) : TrueIn(S, x)
  <2>1. Holds(S, rules[an.c].lits)
    BY <1>2, <1>3 DEF Satisfies
  <2>2. QED BY <2>1, HoldsIs DEF Lits
<1>6. CASE ~IsTrue(trail.map, x)
  <2>1. x \in Literals(Solvables) /\ IsFalse(trail.map, x)
    <3>1. x \in Literals(Solvables) /\ \E k \in 1..an.idx : trail.q[k] = -x
      BY <1>1, <1>6, ResolveFacts
    <3>2. \E k \in 1..Len(trail.q) : trail.q[k] = -x
      BY <1>1, <3>1, ResolveFacts, TrailFacts
    <3>3. QED BY <3>1, <3>2, TrailFacts
  <2>2. Var(x) \in an'.seen
    BY <1>2, <1>6 DEF NewVars, NewLits
  <2>3. FalseLit(Var(x)) = x
    BY <2>1, FalseLitIs
  <2>4. QED BY <1>4, <1>5, <2>2, <2>3
<1>7. CASE IsTrue(trail.map, x)
  <2>1. an.why # {}
    <3>1. CASE Starting
      <4>1. IsFalse(trail.map, x) /\ x \in Literals(Solvables)
        BY <1>1, <3>1, ResolveFacts DEF Starting
      <4>2. QED BY <1>7, <4>1, TrailFacts
    <3>2. CASE ~Starting
      BY <1>1, <3>2, ResolveFacts DEF AtCurrent, AtGround
    <3>3. QED BY <3>1, <3>2
  <2>2. x = trail.q[an.idx + 1] /\ x \in Int /\ x # 0
    <3>1. x = trail.q[an.idx + 1]
      BY <1>1, <1>7, <2>1, ForcedFalse
    <3>2. QED BY <1>1, <2>1, <3>1, ForcedFalse, TrailFacts
  <2>3. PICK y \in Derived : TrueIn(S, y)
    <3>1. Satisfies(S, rules, an.why)
      BY <1>2, <1>3 DEF Satisfies
    <3>2. QED BY <1>1, <1>2, <2>1, <3>1 DEF SearchInv, DerivedFollows
  <2>4. y # -x
    <3>1. CASE x > 0
      <4>1. x \in S /\ ~(-x > 0) /\ -(-x) = x
        BY <1>5, <2>2, <3>1 DEF TrueIn
      <4>2. QED BY <2>3, <4>1 DEF TrueIn
    <3>2. CASE ~(x > 0)
      <4>1. -x \notin S /\ -x > 0
        BY <1>5, <2>2, <3>2 DEF TrueIn
      <4>2. QED BY <2>3, <4>1 DEF TrueIn
    <3>3. QED BY <3>1, <3>2
  <2>5. y \in Range(an.r) \cup ({an.p} \ {0}) \cup {FalseLit(v) : v \in an.seen}
    BY <2>2, <2>3, <2>4 DEF Derived
  <2>6. QED BY <1>2, <1>4, <2>3, <2>5
<1>8. QED BY <1>6, <1>7

\* The marks after a rule is resolved are those of the literals left.
LEMMA RuleStaysCurrent ==
  ASSUME SearchInv, AnalyzeRule, Starting \/ AtCurrent
  PROVE  AtCurrent'
<1>1. /\ Resolved(an') /\ pc = "analyze" /\ an.c # 0
      /\ rules' = rules /\ trail' = trail /\ level' = level
  BY RuleResolves DEF ruleVars, searchVars
<1>2. /\ an'.c = 0 /\ an'.p = an.p /\ an'.done = an.done /\ an'.idx = an.idx
      /\ an'.why = an.why \cup {an.c} /\ an'.seen = an.seen \cup NewVars
      /\ an'.num = an.num + Cardinality(NewAt(level))
      /\ an'.l1num = an.l1num + Cardinality(NewAt(1))
      /\ Range(an'.r) = Range(an.r) \cup LowerLits
  BY <1>1, LowerJoin DEF Resolved
<1>0. an.done = FALSE
  <2>1. an.done \in BOOLEAN /\ ~an.done
    BY <1>1, ResolveFacts DEF SearchInv, Analysis, AnalysisType
  <2>2. QED BY <2>1
<1>3. /\ an.p = 0
      /\ an.num = Cardinality(SeenAt(level)) /\ an.l1num = Cardinality(SeenAt(1))
      /\ \A v \in an.seen : IF LevelOf(v) \in {1, level} THEN Waiting(v)
                            ELSE v \in {Var(l) : l \in Range(an.r)}
  <2>1. CASE AtCurrent
    BY <2>1 DEF AtCurrent
  <2>2. CASE Starting
    <3>1. /\ an.p = 0 /\ an.seen = {} /\ an.num = 0 /\ an.l1num = 0
      BY <2>2 DEF Starting, NoAnalysis
    <3>2. \A lev : SeenAt(lev) = {}
      BY <3>1 DEF SeenAt
    <3>3. QED BY <3>1, <3>2, FS_EmptySet
  <2>3. QED BY <2>1, <2>2
<1>4. /\ SeenAt(level)' = {v \in an.seen \cup NewVars : LevelOf(v) = level}
      /\ SeenAt(1)' = {v \in an.seen \cup NewVars : LevelOf(v) = 1}
  BY <1>1, <1>2 DEF SeenAt, LevelOf
<1>5. an'.num = Cardinality(SeenAt(level)') /\ an'.l1num = Cardinality(SeenAt(1)')
  BY <1>1, <1>2, <1>3, <1>4, MarksCounted
<1>6. an'.num > 0
  <2>1. CASE AtCurrent
    <3>1. an.num > 0 /\ an.num \in Nat /\ Cardinality(NewAt(level)) \in Nat
      <4>1. Cardinality(NewAt(level)) \in Nat
        BY <1>1, MarksCounted
      <4>2. QED BY <1>1, <2>1, <4>1 DEF AtCurrent, SearchInv, Analysis, AnalysisType
    <3>2. QED BY <1>2, <3>1
  <2>2. CASE Starting
    <3>1. PICK l \in Lits(an.c) : LevelOf(l) = level /\ IsFalse(trail.map, l)
      BY <2>2 DEF Starting
    <3>2. l \in NewAt(level)
      <4>1. an.seen = {}
        BY <2>2 DEF Starting, NoAnalysis
      <4>2. ~IsTrue(trail.map, l)
        BY <1>1, <3>1, ResolveFacts, TrailFacts
      <4>3. QED BY <3>1, <4>1, <4>2 DEF NewAt, NewLits
    <3>3. /\ IsFiniteSet(NewAt(level)) /\ Cardinality(NewAt(level)) \in Nat
          /\ Cardinality(NewAt(level)) # 0
      BY <1>1, <3>2, MarksCounted, FS_EmptySet
    <3>4. an.num = 0
      BY <2>2 DEF Starting, NoAnalysis
    <3>5. QED BY <1>2, <3>3, <3>4
  <2>3. QED BY <2>1, <2>2
<1>7. ASSUME NEW v \in an'.seen
      PROVE  IF LevelOf(v) \in {1, level} THEN Waiting(v) ELSE v \in {Var(l) : l \in Range(an'.r)}
  <2>1. CASE v \in an.seen
    BY <1>2, <1>3, <2>1
  <2>2. CASE v \in NewVars
    <3>1. PICK l \in NewLits : v = Var(l)
      BY <2>2 DEF NewVars
    <3>2. Waiting(v) /\ LevelOf(v) = LevelOf(l)
      BY <1>1, <3>1, NewLitsFacts
    <3>3. LevelOf(v) \notin {1, level} => l \in LowerLits
      BY <3>1, <3>2 DEF LowerLits
    <3>4. QED BY <1>2, <3>1, <3>2, <3>3
  <2>3. QED BY <1>2, <2>1, <2>2
<1>8. \A v : Waiting(v)' <=> Waiting(v)
  BY <1>1, <1>2 DEF Waiting
<1>9. \A v : LevelOf(v)' = LevelOf(v)
  BY <1>1 DEF LevelOf
<1>10. \A v \in an'.seen : IF LevelOf(v)' \in {1, level'} THEN Waiting(v)'
                           ELSE v \in {Var(l) : l \in Range(an'.r)}
  BY <1>1, <1>7, <1>8, <1>9
<1>11. Resolving(level)'
  BY <1>2 DEF Resolving
<1>12. /\ an'.p = 0 /\ an'.done = FALSE /\ an'.why # {}
  BY <1>0, <1>2, <1>3
<1>13. QED BY <1>1, <1>5, <1>6, <1>10, <1>11, <1>12 DEF AtCurrent

\* At level 1, only literals of level 1 are met.
LEMMA RuleStaysGround ==
  ASSUME SearchInv, AnalyzeRule, AtGround
  PROVE  AtGround'
<1>1. /\ Resolved(an') /\ pc = "analyze" /\ an.c # 0
      /\ rules' = rules /\ trail' = trail /\ level' = level
  BY RuleResolves DEF ruleVars, searchVars
<1>2. /\ an'.c = 0 /\ an'.p = an.p /\ an'.done = an.done /\ an'.idx = an.idx
      /\ an'.why = an.why \cup {an.c} /\ an'.seen = an.seen \cup NewVars
      /\ an'.num = an.num + Cardinality(NewAt(level))
      /\ an'.l1num = an.l1num + Cardinality(NewAt(1))
  BY <1>1 DEF Resolved
<1>3. /\ an.p # 0 /\ an.num = 0 /\ an.l1num = Cardinality(an.seen) + 1
      /\ \A v \in an.seen : LevelOf(v) = 1 /\ Waiting(v)
  BY DEF AtGround
<1>4. an.done = FALSE
  <2>1. an.done \in BOOLEAN /\ ~an.done
    BY <1>1, ResolveFacts DEF SearchInv, Analysis, AnalysisType
  <2>2. QED BY <2>1
<1>5. level > 1
  BY <1>1 DEF SearchInv, Phases
<1>6. ASSUME NEW l \in NewLits
      PROVE  LevelOf(l) = 1
  <2>1. PICK k \in 1..an.idx : trail.q[k] = -l
    BY <1>1, <1>6, ResolveFacts DEF NewLits
  <2>2. /\ k \in 1..Len(trail.q) /\ k <= an.idx + 1 /\ an.idx + 1 \in 1..Len(trail.q)
        /\ LevelAt(an.idx + 1) = 1
    <3>1. an.idx + 1 \in 1..Len(trail.q) /\ LevelAt(an.idx + 1) = 1
      BY <1>1, ForcedFalse DEF AtGround
    <3>2. an.idx \in 0..Len(trail.q) /\ Len(trail.q) \in Nat
      BY <1>1, ResolveFacts, TrailFacts
    <3>3. QED BY <3>1, <3>2
  <2>3. LevelAt(k) <= LevelAt(an.idx + 1) /\ LevelAt(k) \in 1..TopLevel(trail) /\ TopLevel(trail) \in Nat
    <3>1. TrailWhole(trail, rules, NSolvables) /\ NSolvables \in Nat /\ TopLevel(trail) \in Nat
      BY TrailFacts, SearchFacts
    <3>2. QED BY <2>2, <3>1, DecisionFacts, TrailFacts DEF LevelAt
  <2>4. LevelAt(k) = 1
    BY <2>2, <2>3
  <2>5. l \in Literals(Solvables)
    BY <1>1, <1>6, NewLitsFacts
  <2>6. -trail.q[k] = l
    BY <2>1, <2>5, TrailFacts
  <2>7. QED BY <2>2, <2>4, <2>6, TrailFacts
<1>7. NewAt(1) = NewLits /\ NewAt(level) = {}
  BY <1>5, <1>6 DEF NewAt
<1>8. SeenAt(1) = an.seen /\ {v \in an.seen \cup NewVars : LevelOf(v) = 1} = an.seen \cup NewVars
  <2>1. \A v \in NewVars : LevelOf(v) = 1
    BY <1>1, <1>6, NewLitsFacts DEF NewVars
  <2>2. QED BY <1>3, <2>1 DEF SeenAt
<1>9. an'.num = 0 /\ an'.l1num = Cardinality(an'.seen) + 1
  <2>1. /\ Cardinality(an.seen \cup NewVars) = Cardinality(an.seen) + Cardinality(NewLits)
        /\ Cardinality(an.seen) \in Nat /\ Cardinality(NewLits) \in Nat
    BY <1>1, <1>7, <1>8, MarksCounted
  <2>2. Cardinality(NewAt(level)) = 0
    BY <1>7, FS_EmptySet
  <2>3. QED BY <1>2, <1>3, <1>7, <2>1, <2>2
<1>10. ASSUME NEW v \in an'.seen PROVE LevelOf(v)' = 1 /\ Waiting(v)'
  <2>1. LevelOf(v) = 1 /\ Waiting(v)
    <3>1. CASE v \in NewVars
      <4>1. PICK l \in NewLits : v = Var(l)
        BY <3>1 DEF NewVars
      <4>2. QED BY <1>1, <1>6, <4>1, NewLitsFacts
    <3>2. QED BY <1>2, <1>3, <3>1
  <2>2. QED BY <1>1, <1>2, <2>1 DEF LevelOf, Waiting
<1>11. an'.p # 0 /\ an'.done = FALSE /\ an'.why # {} /\ Resolving(1)'
  BY <1>2, <1>3, <1>4 DEF Resolving
<1>12. QED BY <1>9, <1>10, <1>11 DEF AtGround

\* A rule is resolved.
LEMMA RuleKeeps ==
  ASSUME SearchInv, AnalyzeRule
  PROVE  SearchInv'
<1>1. /\ Resolved(an') /\ pc = "analyze" /\ an.c # 0 /\ pc' = pc
      /\ UNCHANGED <<in, ruleVars, disabled, policy, problems, searchVars, pc, level,
                     systemlevel, caller, visit, loc>>
      /\ rules' = rules /\ trail' = trail /\ level' = level /\ disabled' = disabled
  BY RuleResolves DEF ruleVars, searchVars
<1>2. /\ DOMAIN an' = DOMAIN an /\ an'.c = 0 /\ an'.p = an.p /\ an'.done = an.done /\ an'.idx = an.idx
      /\ an'.why = an.why \cup {an.c} /\ an'.seen = an.seen \cup NewVars
      /\ an'.num = an.num + Cardinality(NewAt(level))
      /\ an'.l1num = an.l1num + Cardinality(NewAt(1))
  BY <1>1 DEF Resolved
<1>3. /\ an'.r \in Seq(Literals(Solvables)) /\ an'.rlevel \in 1..(level - 1)
      /\ \A l \in Range(an'.r) : IsFalse(trail.map, l) /\ LevelOf(l) \in 2..an'.rlevel
      /\ an'.rlevel = 1 \/ \E l \in Range(an'.r) : LevelOf(l) = an'.rlevel
  BY <1>1, LowerJoin DEF Resolved
<1>4. AtCurrent' \/ AtGround'
  BY <1>1, ResolveFacts, RuleStaysCurrent, RuleStaysGround
<1>5. /\ AnalysisType(an) /\ \A v \in an.seen : ~Undecided(v)
      /\ an.p # 0 => /\ an.p \in Literals(Solvables)
                     /\ IsFalse(trail.map, an.p) /\ LevelOf(an.p) = level
  BY <1>1 DEF SearchInv, Analysis
<1>6. an.c \in DOMAIN rules /\ Len(rules) \in Nat
  BY <1>1, ResolveFacts, RuleFacts DEF SearchInv
<1>7. NewVars \subseteq Solvables /\ \A v \in NewVars : ~Undecided(v)
  BY <1>1, NewLitsFacts DEF NewVars
<1>8. AnalysisType(an)'
  <2>1. an'.num \in Nat /\ an'.l1num \in Nat
    <3>1. Cardinality(NewAt(level)) \in Nat /\ Cardinality(NewAt(1)) \in Nat
      BY <1>1, MarksCounted
    <3>2. QED BY <1>2, <1>5, <3>1 DEF AnalysisType
  <2>2. an'.rlevel \in Nat
    BY <1>3, SearchFacts
  <2>3. an'.c \in 0..Len(rules)
    BY <1>2, <1>6
  <2>4. /\ an'.idx \in 0..Len(trail.q) /\ an'.seen \subseteq Solvables /\ an'.why \subseteq DOMAIN rules
        /\ an'.p \in Int /\ an'.done \in BOOLEAN
    BY <1>2, <1>5, <1>6, <1>7 DEF AnalysisType
  <2>5. DOMAIN an' = {"c", "idx", "seen", "num", "l1num", "r", "rlevel", "why", "p", "done"}
    BY <1>2, <1>5 DEF AnalysisType
  <2>6. QED BY <1>1, <1>3, <2>1, <2>2, <2>3, <2>4, <2>5 DEF AnalysisType
<1>9. Analysis'
  <2>1. \A v \in an'.seen : ~Undecided(v)
    BY <1>2, <1>5, <1>7
  <2>2. \A l : LevelOf(l)' = LevelOf(l) /\ (Undecided(l)' <=> Undecided(l))
    BY <1>1 DEF LevelOf, Undecided
  <2>3. QED BY <1>1, <1>2, <1>3, <1>4, <1>5, <1>8, <2>1, <2>2 DEF Analysis
<1>10. DerivedFollows'
  BY RuleDerives
<1>11. UsesRulesInForce'
  <2>1. \A i \in an.why \cup {an.c} : Usable(i)
    BY <1>1 DEF SearchInv, UsesRulesInForce
  <2>2. \A i : Usable(i)' <=> Usable(i)
    BY <1>1 DEF Usable, Enabled, LevelAt
  <2>3. QED BY <1>2, <2>1, <2>2 DEF UsesRulesInForce
<1>12. level > 1
  BY <1>1 DEF SearchInv, Phases
<1>13. QED BY <1>1, <1>9, <1>10, <1>11, <1>12, AnalyzeFrame

\* The mark of the newest decision is taken off, and its reason is next.
Unmarked(a) ==
  /\ DOMAIN a = DOMAIN an
  /\ a.c = ReasonAt(NextMarked) /\ a.idx = NextMarked - 1
  /\ a.seen = an.seen \ {Var(trail.q[NextMarked])}
  /\ a.r = an.r /\ a.rlevel = an.rlevel /\ a.why = an.why /\ a.p = an.p /\ a.done = an.done

\* What is known when the analysis looks for the next mark.
LEMMA StepFacts ==
  ASSUME SearchInv, AnalyzeStep
  PROVE  /\ pc = "analyze" /\ pc' = "analyze" /\ an.c = 0 /\ an.done = FALSE
         /\ AtCurrent \/ AtGround
         /\ level > 1 /\ level \in Nat /\ level = TopLevel(trail)
         /\ UNCHANGED <<in, ruleVars, disabled, policy, problems, searchVars, pc, level,
                        systemlevel, caller, visit, loc>>
         /\ rules' = rules /\ trail' = trail /\ level' = level /\ disabled' = disabled
         /\ DOMAIN an = {"c", "idx", "seen", "num", "l1num", "r", "rlevel", "why", "p", "done"}
         /\ AnalysisType(an) /\ \A v \in an.seen : ~Undecided(v)
         /\ \A lev : IsFiniteSet(SeenAt(lev))
         /\ IsFiniteSet(an.seen)
<1>1. /\ pc = "analyze" /\ pc' = "analyze" /\ an.c = 0 /\ ~an.done
      /\ UNCHANGED <<in, ruleVars, disabled, policy, problems, searchVars, pc, level,
                     systemlevel, caller, visit, loc>>
      /\ rules' = rules /\ trail' = trail /\ level' = level /\ disabled' = disabled
  BY DEF AnalyzeStep, ruleVars, searchVars
<1>2. /\ Starting \/ AtCurrent \/ AtGround \/ Analysed
      /\ AnalysisType(an) /\ \A v \in an.seen : ~Undecided(v)
  BY <1>1 DEF SearchInv, Analysis
<1>3. ~Starting /\ ~Analysed
  <2>1. Starting => an.c \in 1..Len(rules)
    BY RuleFacts DEF Starting, SearchInv
  <2>2. QED BY <1>1, <2>1 DEF Analysed
<1>4. an.done = FALSE /\ DOMAIN an = {"c", "idx", "seen", "num", "l1num", "r", "rlevel", "why", "p", "done"}
  BY <1>1, <1>2 DEF AnalysisType
<1>5. level > 1 /\ level \in Nat /\ level = TopLevel(trail)
  <2>1. level > 1
    BY <1>1 DEF SearchInv, Phases
  <2>2. QED BY <2>1, SearchFacts
<1>6. IsFiniteSet(an.seen) /\ \A lev : IsFiniteSet(SeenAt(lev))
  <2>1. an.seen \subseteq 1..NSolvables /\ NSolvables \in Nat
    BY <1>2, SearchFacts DEF Solvables, AnalysisType
  <2>2. IsFiniteSet(1..NSolvables)
    BY <2>1, FS_Interval
  <2>3. IsFiniteSet(an.seen)
    BY <2>1, <2>2, FS_Subset
  <2>4. \A lev : SeenAt(lev) \subseteq an.seen
    BY DEF SeenAt
  <2>5. QED BY <2>3, <2>4, FS_Subset
<1>7. QED BY <1>1, <1>2, <1>3, <1>4, <1>5, <1>6

\* Decision 1 is the system solvable's.  No world is without it.
LEMMA SystemFalse ==
  ASSUME SearchInv, NEW S \in Worlds(Solvables)
  PROVE  trail.q[1] = SYSTEMSOLVABLE /\ ~TrueIn(S, -trail.q[1])
<1>1. trail.q[1] = SYSTEMSOLVABLE
  BY TrailFacts DEF TrailWhole, Stairs
<1>2. SYSTEMSOLVABLE \in S
  BY DEF Worlds
<1>3. SYSTEMSOLVABLE \in Int /\ SYSTEMSOLVABLE > 0
  BY DEF SYSTEMSOLVABLE
<1>4. \A x \in Int : x > 0 => ~(-x > 0) /\ -(-x) = x
  OBVIOUS
<1>5. ~(-SYSTEMSOLVABLE > 0) /\ -(-SYSTEMSOLVABLE) = SYSTEMSOLVABLE
  BY <1>3, <1>4
<1>6. QED BY <1>1, <1>2, <1>5 DEF TrueIn

\* A mark is taken off.
LEMMA UnmarkKeeps ==
  ASSUME SearchInv, AnalyzeStep, Unmarked(an'), an'.num \in Nat, an'.l1num \in Nat,
         NEW j \in 1..an.idx, Var(trail.q[j]) \in an.seen,
         ReasonAt(NextMarked) # 0 \/ NextMarked = 1,
         AtCurrent' \/ AtGround'
  PROVE  SearchInv'
<1> DEFINE m == NextMarked
           v == Var(trail.q[m])
<1>1. /\ m \in 1..an.idx /\ m \in 1..Len(trail.q) /\ v \in an.seen
      /\ FalseLit(v) = -trail.q[m] /\ v \in Solvables /\ ReasonAt(m) \in 0..Len(rules)
  BY StepFacts, NextMarkedFacts
<1>2. /\ DOMAIN an' = DOMAIN an /\ an'.c = ReasonAt(m) /\ an'.idx = m - 1 /\ an'.seen = an.seen \ {v}
      /\ an'.r = an.r /\ an'.rlevel = an.rlevel /\ an'.why = an.why /\ an'.p = an.p
      /\ an'.done = an.done
  BY DEF Unmarked
<1> HIDE DEF m, v
<1>3. /\ pc = "analyze" /\ pc' = "analyze" /\ an.c = 0 /\ an.done = FALSE
      /\ rules' = rules /\ trail' = trail /\ level' = level /\ disabled' = disabled
      /\ AnalysisType(an) /\ \A x \in an.seen : ~Undecided(x)
  BY StepFacts
<1>4. AnalysisType(an)'
  <2>1. an'.idx \in 0..Len(trail.q)
    BY <1>1, <1>2, TrailFacts
  <2>2. an'.c \in 0..Len(rules) /\ an'.seen \subseteq Solvables
    BY <1>1, <1>2, <1>3 DEF AnalysisType
  <2>3. QED BY <1>2, <1>3, <2>1, <2>2 DEF AnalysisType
<1>5. Analysis'
  <2>1. /\ an.rlevel \in 1..(level - 1)
        /\ \A l \in Range(an.r) : IsFalse(trail.map, l) /\ LevelOf(l) \in 2..an.rlevel
        /\ an.rlevel = 1 \/ \E l \in Range(an.r) : LevelOf(l) = an.rlevel
        /\ an.p # 0 => /\ an.p \in Literals(Solvables)
                       /\ IsFalse(trail.map, an.p) /\ LevelOf(an.p) = level
    BY <1>3 DEF SearchInv, Analysis
  <2>2. \A l : LevelOf(l)' = LevelOf(l) /\ (Undecided(l)' <=> Undecided(l))
    BY <1>3 DEF LevelOf, Undecided
  <2>3. QED BY <1>2, <1>3, <1>4, <2>1, <2>2 DEF Analysis
<1>6. DerivedFollows'
  <2>1. SUFFICES ASSUME NEW S \in Worlds(Solvables), Satisfies(S, rules, an.why), an.why # {}
                 PROVE  \E l \in Derived' : TrueIn(S, l)
    BY <1>2, <1>3 DEF DerivedFollows
  <2>2. PICK y \in Derived : TrueIn(S, y)
    BY <1>3, <2>1 DEF SearchInv, DerivedFollows
  <2>3. y \in Range(an.r) \cup ({an.p} \ {0}) \cup {FalseLit(x) : x \in an.seen}
    BY <1>3, <2>2 DEF Derived
  <2>4. Derived' = Range(an'.r) \cup ({an'.p} \ {0}) \cup {FalseLit(x) : x \in an'.seen}
                     \cup (IF an'.c # 0 THEN {-trail.q[an'.idx + 1]} ELSE {})
    BY <1>3 DEF Derived, FalseLit, Installed
  <2>5. CASE y = FalseLit(v)
    <3>1. y = -trail.q[m]
      BY <1>1, <2>5
    <3>2. m # 1
      BY <2>2, <3>1, SystemFalse
    <3>3. an'.c # 0
      BY <1>2, <3>2 DEF m
    <3>4. an'.idx + 1 = m
      BY <1>1, <1>2
    <3>5. QED BY <2>2, <2>4, <3>1, <3>3, <3>4
  <2>6. CASE y # FalseLit(v)
    <3>1. y \in Range(an'.r) \cup ({an'.p} \ {0}) \cup {FalseLit(x) : x \in an'.seen}
      BY <1>2, <2>3, <2>6
    <3>2. QED BY <2>2, <2>4, <3>1
  <2>7. QED BY <2>5, <2>6
<1>7. UsesRulesInForce'
  <2>1. \A i \in an.why : Usable(i)
    BY <1>3 DEF SearchInv, UsesRulesInForce
  <2>2. ReasonAt(m) # 0 => Usable(ReasonAt(m))
    BY <1>1, ReasonUsable
  <2>3. \A i : Usable(i)' <=> Usable(i)
    BY <1>3 DEF Usable, Enabled, LevelAt
  <2>4. QED BY <1>2, <2>1, <2>2, <2>3 DEF UsesRulesInForce
<1>8. QED BY <1>5, <1>6, <1>7, StepFacts, AnalyzeFrame

\* More than one literal of the current level is left.
LEMMA CurrentKeeps ==
  ASSUME SearchInv, AnalyzeCurrent
  PROVE  SearchInv'
<1> DEFINE m == NextMarked
           v == Var(trail.q[m])
<1>1. /\ AnalyzeStep /\ an.num > 1
      /\ an' = [an EXCEPT !.idx = m - 1, !.num = @ - 1, !.seen = @ \ {v}, !.c = ReasonAt(m)]
  BY DEF AnalyzeCurrent
<1>2. /\ AtCurrent /\ an.num = Cardinality(SeenAt(level)) /\ IsFiniteSet(SeenAt(level))
      /\ an.num \in Nat /\ level > 1 /\ level \in Nat /\ level = TopLevel(trail)
      /\ an.idx \in 0..Len(trail.q) /\ Len(trail.q) \in Nat
  <2>1. ~AtGround
    BY <1>1 DEF AtGround
  <2>2. AtCurrent /\ an.num \in Nat /\ an.idx \in 0..Len(trail.q)
    BY <1>1, <2>1, StepFacts DEF AnalysisType
  <2>3. QED BY <1>1, <2>2, StepFacts, TrailFacts DEF AtCurrent
<1>3. /\ DOMAIN an' = DOMAIN an /\ an'.idx = m - 1 /\ an'.num = an.num - 1 /\ an'.seen = an.seen \ {v}
      /\ an'.c = ReasonAt(m) /\ an'.r = an.r /\ an'.rlevel = an.rlevel /\ an'.why = an.why
      /\ an'.p = an.p /\ an'.done = an.done /\ an'.l1num = an.l1num
  <2>1. \A a, x1, x2, x3, x4 :
          DOMAIN a = {"c", "idx", "seen", "num", "l1num", "r", "rlevel", "why", "p", "done"} =>
            LET b == [a EXCEPT !.idx = x1, !.num = x2, !.seen = x3, !.c = x4]
            IN  /\ DOMAIN b = DOMAIN a /\ b.idx = x1 /\ b.num = x2 /\ b.seen = x3 /\ b.c = x4
                /\ b.r = a.r /\ b.rlevel = a.rlevel /\ b.why = a.why /\ b.p = a.p
                /\ b.done = a.done /\ b.l1num = a.l1num
    OBVIOUS
  <2> HIDE DEF m, v
  <2>2. DOMAIN an = {"c", "idx", "seen", "num", "l1num", "r", "rlevel", "why", "p", "done"}
    BY <1>1, StepFacts
  <2>3. an' = [an EXCEPT !.idx = m - 1, !.num = an.num - 1, !.seen = an.seen \ {v}, !.c = ReasonAt(m)]
    BY <1>1
  <2>4. QED BY <2>1, <2>2, <2>3, Zenon
<1>4. \A x \in SeenAt(level) : \E k \in 1..an.idx : Var(trail.q[k]) = x /\ LevelAt(k) = level
  <2>1. ASSUME NEW x \in SeenAt(level)
        PROVE  \E k \in 1..an.idx : Var(trail.q[k]) = x /\ LevelAt(k) = level
    <3>1. x \in an.seen /\ LevelOf(x) = level /\ Waiting(x)
      BY <1>2 DEF SeenAt, AtCurrent
    <3>2. PICK k \in 1..an.idx : Var(trail.q[k]) = x
      BY <3>1 DEF Waiting
    <3>3. k \in 1..Len(trail.q)
      BY <1>2
    <3>4. LevelOf(x) = LevelAt(k)
      BY <3>2, <3>3, TrailFacts, VarFacts
    <3>5. QED BY <3>1, <3>2, <3>4
  <2>2. QED BY <2>1
<1>5. PICK x1 \in SeenAt(level) : TRUE
  BY <1>1, <1>2, FS_EmptySet
<1>6. PICK k1 \in 1..an.idx : Var(trail.q[k1]) = x1 /\ LevelAt(k1) = level
  BY <1>4
<1>7. Var(trail.q[k1]) \in an.seen
  BY <1>5, <1>6 DEF SeenAt
<1>8. /\ m \in 1..an.idx /\ m \in 1..Len(trail.q) /\ v \in an.seen /\ k1 <= m
      /\ LevelOf(v) = LevelAt(m) /\ ReasonAt(m) \in 0..Len(rules)
      /\ \A k \in 1..an.idx : Var(trail.q[k]) \in an.seen /\ Var(trail.q[k]) # v => k \in 1..(m - 1)
  BY <1>1, <1>6, <1>7, StepFacts, NextMarkedFacts
<1> HIDE DEF m, v
<1>9. LevelAt(m) = level
  <2>1. k1 \in 1..Len(trail.q)
    BY <1>2
  <2>2. TrailWhole(trail, rules, NSolvables) /\ NSolvables \in Nat /\ TopLevel(trail) \in Nat
    BY TrailFacts, SearchFacts
  <2>3. LevelAt(k1) <= LevelAt(m)
    BY <1>8, <2>1, <2>2, DecisionFacts DEF LevelAt
  <2>4. LevelAt(m) \in 1..TopLevel(trail)
    BY <1>8, TrailFacts
  <2>5. QED BY <1>2, <1>6, <2>3, <2>4
<1>10. v \in SeenAt(level)
  BY <1>8, <1>9 DEF SeenAt
<1>11. IsFiniteSet(SeenAt(level) \ {v}) /\ Cardinality(SeenAt(level) \ {v}) = an.num - 1
  BY <1>2, <1>10, FS_RemoveElement
<1>12. PICK x2 \in SeenAt(level) \ {v} : TRUE
  BY <1>1, <1>2, <1>11, FS_EmptySet
<1>13. PICK k2 \in 1..an.idx : Var(trail.q[k2]) = x2 /\ LevelAt(k2) = level
  BY <1>4, <1>12
<1>14. k2 \in 1..(m - 1)
  BY <1>8, <1>12, <1>13 DEF SeenAt
<1>15. ReasonAt(m) # 0
  BY <1>8, <1>9, <1>13, <1>14, LaterDecisionsForced
<1>16. AtCurrent'
  <2>1. /\ rules' = rules /\ trail' = trail /\ level' = level
    BY <1>1, StepFacts
  <2>2. SeenAt(level)' = SeenAt(level) \ {v} /\ SeenAt(1)' = SeenAt(1)
    <3>1. LevelOf(v) # 1
      BY <1>2, <1>8, <1>9
    <3>2. QED BY <1>3, <2>1, <3>1 DEF SeenAt, LevelOf
  <2>3. /\ an'.p = 0 /\ an'.done = FALSE /\ an'.why # {} /\ an'.l1num = Cardinality(SeenAt(1))
    BY <1>1, <1>2, <1>3, StepFacts DEF AtCurrent
  <2>4. an'.num > 0 /\ an'.num = Cardinality(SeenAt(level) \ {v})
    BY <1>1, <1>2, <1>3, <1>11
  <2>5. ASSUME NEW x \in an'.seen
        PROVE  IF LevelOf(x)' \in {1, level'} THEN Waiting(x)' ELSE x \in {Var(l) : l \in Range(an'.r)}
    <3>1. x \in an.seen /\ x # v /\ LevelOf(x)' = LevelOf(x)
      BY <1>3, <2>1 DEF LevelOf
    <3>2. Waiting(x) => Waiting(x)'
      <4>1. ASSUME NEW k \in 1..an.idx, Var(trail.q[k]) = x PROVE k \in 1..an'.idx
        BY <1>3, <1>8, <3>1, <4>1
      <4>2. QED BY <2>1, <4>1 DEF Waiting
    <3>3. IF LevelOf(x) \in {1, level} THEN Waiting(x) ELSE x \in {Var(l) : l \in Range(an.r)}
      BY <1>2, <3>1 DEF AtCurrent
    <3>4. QED BY <1>3, <2>1, <3>1, <3>2, <3>3
  <2>6. Resolving(level)'
    <3>1. trail.why[m] = ReasonAt(m)
      BY <1>8, <1>15, ReasonUsable
    <3>2. an'.idx + 1 = m /\ an'.idx < Len(trail.q)
      BY <1>2, <1>3, <1>8
    <3>3. QED BY <1>3, <1>9, <2>1, <2>3, <3>1, <3>2 DEF Resolving, LevelAt
  <2>7. QED BY <2>1, <2>2, <2>3, <2>4, <2>5, <2>6 DEF AtCurrent
<1>17. Unmarked(an')
  BY <1>3 DEF Unmarked, m, v
<1>18. an'.num \in Nat /\ an'.l1num \in Nat
  BY <1>1, <1>2, <1>3, StepFacts DEF AnalysisType
<1>19. QED BY <1>1, <1>6, <1>7, <1>15, <1>16, <1>17, <1>18, UnmarkKeeps DEF m

\* The last literal of the current level becomes the one that will be true.
LEMMA AssertingKeeps ==
  ASSUME SearchInv, AnalyzeAsserting
  PROVE  SearchInv'
<1> DEFINE m == NextMarked
           v == Var(trail.q[m])
           rvars == {Var(l) : l \in Range(an.r)}
           gone == {v} \cup (IF an.l1num > 0 THEN rvars ELSE {})
           lnum == IF an.l1num > 0 THEN an.l1num + 1 ELSE an.l1num
           fin == (an.l1num = 0)
<1>1. AnalyzeStep /\ an.num = 1
  BY DEF AnalyzeAsserting
<1>2. /\ pc = "analyze" /\ pc' = "analyze" /\ an.c = 0 /\ an.done = FALSE
      /\ level > 1 /\ level \in Nat /\ level = TopLevel(trail)
      /\ rules' = rules /\ trail' = trail /\ level' = level /\ disabled' = disabled
      /\ DOMAIN an = {"c", "idx", "seen", "num", "l1num", "r", "rlevel", "why", "p", "done"}
      /\ AnalysisType(an) /\ \A x \in an.seen : ~Undecided(x)
      /\ an.idx \in 0..Len(trail.q) /\ Len(trail.q) \in Nat /\ an.l1num \in Nat
  BY <1>1, StepFacts, TrailFacts DEF AnalysisType
<1>3. AtCurrent /\ 1 = Cardinality(SeenAt(level)) /\ IsFiniteSet(SeenAt(level))
      /\ an.l1num = Cardinality(SeenAt(1)) /\ IsFiniteSet(SeenAt(1))
  <2>1. ~AtGround
    BY <1>1 DEF AtGround
  <2>2. QED BY <1>1, <2>1, StepFacts DEF AtCurrent
<1>4. /\ DOMAIN an' = DOMAIN an /\ an'.idx = m - 1 /\ an'.num = 0 /\ an'.p = -trail.q[m]
      /\ an'.seen = an.seen \ gone /\ an'.l1num = lnum /\ an'.done = fin
      /\ an'.c = an.c /\ an'.r = an.r /\ an'.rlevel = an.rlevel /\ an'.why = an.why
  <2>1. \A a, x1, x2, x3, x4, x5 :
          DOMAIN a = {"c", "idx", "seen", "num", "l1num", "r", "rlevel", "why", "p", "done"} =>
            LET b == [a EXCEPT !.idx = x1, !.num = 0, !.p = x2, !.seen = x3, !.l1num = x4, !.done = x5]
            IN  /\ DOMAIN b = DOMAIN a /\ b.idx = x1 /\ b.num = 0 /\ b.p = x2 /\ b.seen = x3
                /\ b.l1num = x4 /\ b.done = x5 /\ b.c = a.c
                /\ b.r = a.r /\ b.rlevel = a.rlevel /\ b.why = a.why
    OBVIOUS
  <2>2. an' = [an EXCEPT !.idx = m - 1, !.num = 0, !.p = -trail.q[m], !.seen = an.seen \ gone,
                         !.l1num = lnum, !.done = fin]
    BY DEF AnalyzeAsserting
  <2> HIDE DEF m, v, gone, lnum, fin
  <2>3. QED BY <1>2, <2>1, <2>2, Zenon
<1>44. (an.l1num = 0 => an'.done = TRUE) /\ (an.l1num > 0 => an'.done = FALSE)
  <2>1. ASSUME an.l1num > 0 PROVE fin = FALSE
    BY <2>1
  <2>2. ASSUME an.l1num = 0 PROVE fin = TRUE
    BY <2>2
  <2> HIDE DEF fin
  <2>3. QED BY <1>4, <2>1, <2>2
<1>5. PICK v0 : SeenAt(level) = {v0}
  BY <1>3, FS_Singleton
<1>6. v0 \in an.seen /\ LevelOf(v0) = level
  BY <1>5 DEF SeenAt
<1>7. PICK k0 \in 1..an.idx : Var(trail.q[k0]) = v0
  <2>1. Waiting(v0)
    BY <1>3, <1>6 DEF AtCurrent
  <2>2. QED BY <2>1 DEF Waiting
<1>8. /\ m \in 1..an.idx /\ m \in 1..Len(trail.q) /\ v \in an.seen /\ k0 <= m
      /\ LevelOf(v) = LevelAt(m) /\ FalseLit(v) = -trail.q[m]
      /\ \A k \in 1..an.idx : Var(trail.q[k]) \in an.seen /\ Var(trail.q[k]) # v => k \in 1..(m - 1)
  BY <1>2, <1>6, <1>7, NextMarkedFacts
<1> HIDE DEF m, v
<1>9. LevelAt(m) = level
  <2>1. k0 \in 1..Len(trail.q)
    BY <1>2
  <2>2. TrailWhole(trail, rules, NSolvables) /\ NSolvables \in Nat /\ TopLevel(trail) \in Nat
    BY TrailFacts, SearchFacts
  <2>3. LevelAt(k0) <= LevelAt(m)
    BY <1>8, <2>1, <2>2, DecisionFacts DEF LevelAt
  <2>4. LevelAt(m) \in 1..TopLevel(trail)
    BY <1>8, TrailFacts
  <2>5. LevelAt(k0) = level
    <3>1. trail.q[k0] \in Literals(Solvables) /\ LevelOf(trail.q[k0]) = LevelAt(k0)
      BY <2>1, TrailFacts
    <3>2. QED BY <1>6, <1>7, <3>1, VarFacts
  <2>6. QED BY <1>2, <2>3, <2>4, <2>5
<1>10. v = v0
  BY <1>5, <1>8, <1>9 DEF SeenAt
<1>11. /\ an.rlevel \in 1..(level - 1)
       /\ \A l \in Range(an.r) : IsFalse(trail.map, l) /\ LevelOf(l) \in 2..an.rlevel
       /\ an.rlevel = 1 \/ \E l \in Range(an.r) : LevelOf(l) = an.rlevel
       /\ Range(an.r) \subseteq Literals(Solvables)
  <2>1. an.r \in Seq(Literals(Solvables))
    BY <1>2 DEF AnalysisType
  <2>2. Range(an.r) \subseteq Literals(Solvables)
    BY <2>1, RangeFacts
  <2>3. QED BY <1>2, <2>2 DEF SearchInv, Analysis
<1>12. \A x \in an.seen : x = v \/ LevelOf(x) = 1 \/ (x \in rvars /\ FalseLit(x) \in Range(an.r))
  <2>1. ASSUME NEW x \in an.seen, x # v, LevelOf(x) # 1
        PROVE  x \in rvars /\ FalseLit(x) \in Range(an.r)
    <3>1. LevelOf(x) # level
      BY <1>5, <1>10, <2>1 DEF SeenAt
    <3>2. x \in rvars
      BY <1>3, <2>1, <3>1 DEF AtCurrent
    <3>3. PICK l \in Range(an.r) : x = Var(l)
      BY <3>2
    <3>4. FalseLit(x) = l
      BY <1>11, <3>3, FalseLitIs
    <3>5. QED BY <3>2, <3>3, <3>4
  <2>2. QED BY <2>1
<1>13. \A x \in rvars : LevelOf(x) # 1
  <2>1. ASSUME NEW l \in Range(an.r) PROVE LevelOf(Var(l)) # 1
    <3>1. LevelOf(l) \in 2..an.rlevel /\ LevelOf(Var(l)) = LevelOf(l)
      BY <1>11, VarFacts
    <3>2. QED BY <1>2, <1>11, <3>1
  <2>2. QED BY <2>1
<1> HIDE DEF rvars
<1>14. /\ -trail.q[m] \in Literals(Solvables) /\ IsFalse(trail.map, -trail.q[m])
       /\ LevelOf(-trail.q[m]) = level /\ -trail.q[m] # 0 /\ -trail.q[m] \in Int
  <2>1. /\ -trail.q[m] \in Literals(Solvables) /\ IsFalse(trail.map, -trail.q[m])
        /\ LevelOf(-trail.q[m]) = LevelAt(m)
    BY <1>8, TrailFacts
  <2>2. QED BY <1>9, <2>1, TrailFacts
<1>15. an.l1num = 0 => SeenAt(1) = {}
  BY <1>3, FS_EmptySet
<1>16. an.l1num > 0 => an'.seen = SeenAt(1)
  <2>1. LevelOf(v) # 1
    BY <1>2, <1>8, <1>9
  <2>2. QED BY <1>4, <1>12, <1>13, <2>1 DEF SeenAt
<1>17. AnalysisType(an)'
  <2>1. an'.idx \in 0..Len(trail.q) /\ an'.num \in Nat /\ an'.l1num \in Nat /\ an'.p \in Int
        /\ an'.done \in BOOLEAN
    <3>1. m - 1 \in 0..Len(trail.q) /\ lnum \in Nat
      BY <1>2, <1>8
    <3>2. QED BY <1>4, <1>14, <3>1
  <2>2. an'.seen \subseteq Solvables /\ an'.c \in 0..Len(rules)
    BY <1>2, <1>4 DEF AnalysisType
  <2>3. QED BY <1>2, <1>4, <2>1, <2>2 DEF AnalysisType
<1>18. Analysed' \/ AtGround'
  <2>1. CASE an.l1num = 0
    <3>1. an'.done = TRUE /\ an'.p # 0 /\ an'.c = 0 /\ an'.why # {}
      BY <1>2, <1>3, <1>4, <1>44, <1>14, <2>1 DEF AtCurrent
    <3>2. QED BY <3>1 DEF Analysed
  <2>2. CASE an.l1num > 0
    <3>1. an'.done = FALSE /\ an'.p # 0 /\ an'.c = 0 /\ an'.why # {} /\ an'.num = 0
          /\ an'.l1num = Cardinality(an'.seen) + 1
      <4>1. an'.done = FALSE
        BY <1>44, <2>2
      <4>2. an'.why # {} /\ an'.c = 0 /\ an'.num = 0 /\ an'.p # 0
        BY <1>2, <1>3, <1>4, <1>14 DEF AtCurrent
      <4>3. an'.l1num = an.l1num + 1 /\ an'.seen = SeenAt(1)
        BY <1>4, <1>16, <2>2
      <4>4. QED BY <1>3, <4>1, <4>2, <4>3
    <3>2. ASSUME NEW x \in an'.seen PROVE LevelOf(x)' = 1 /\ Waiting(x)'
      <4>1. x \in an.seen /\ LevelOf(x) = 1
        BY <1>16, <2>2, <3>2 DEF SeenAt
      <4>2. PICK k \in 1..an.idx : Var(trail.q[k]) = x
        BY <1>3, <4>1 DEF AtCurrent, Waiting
      <4>3. x # v
        BY <1>2, <1>8, <1>9, <4>1
      <4>4. k \in 1..an'.idx
        BY <1>4, <1>8, <4>1, <4>2, <4>3
      <4>5. QED BY <1>2, <4>1, <4>2, <4>4 DEF LevelOf, Waiting
    <3>3. QED BY <3>1, <3>2 DEF AtGround, Resolving
  <2>3. QED BY <1>2, <2>1, <2>2
<1>19. Analysis'
  <2>1. \A l : LevelOf(l)' = LevelOf(l) /\ (Undecided(l)' <=> Undecided(l))
    BY <1>2 DEF LevelOf, Undecided
  <2>2. \A x \in an'.seen : ~Undecided(x)
    BY <1>2, <1>4
  <2>3. QED BY <1>2, <1>4, <1>11, <1>14, <1>17, <1>18, <2>1, <2>2 DEF Analysis
<1>20. DerivedFollows'
  <2>1. SUFFICES ASSUME NEW S \in Worlds(Solvables), Satisfies(S, rules, an.why), an.why # {}
                 PROVE  \E l \in (IF an'.done THEN {an'.p} \cup Range(an'.r) ELSE Derived') : TrueIn(S, l)
    BY <1>2, <1>4 DEF DerivedFollows
  <2>2. PICK y \in Derived : TrueIn(S, y)
    BY <1>2, <2>1 DEF SearchInv, DerivedFollows
  <2>3. y \in Range(an.r) \cup {FalseLit(x) : x \in an.seen}
    BY <1>2, <1>3, <2>2 DEF Derived, AtCurrent
  <2>4. Derived' = Range(an'.r) \cup ({an'.p} \ {0}) \cup {FalseLit(x) : x \in an'.seen}
    BY <1>2, <1>4 DEF Derived, FalseLit, Installed
  <2>5. y \in Range(an.r) \cup {an'.p} \/ \E x \in SeenAt(1) : y = FalseLit(x)
    <3>1. ASSUME NEW x \in an.seen, y = FalseLit(x)
          PROVE  y \in Range(an.r) \cup {an'.p} \/ \E z \in SeenAt(1) : y = FalseLit(z)
      <4>1. CASE x = v
        BY <1>4, <1>8, <3>1, <4>1
      <4>2. CASE LevelOf(x) = 1
        BY <3>1, <4>2 DEF SeenAt
      <4>3. CASE FalseLit(x) \in Range(an.r)
        BY <3>1, <4>3
      <4>4. QED BY <1>12, <4>1, <4>2, <4>3
    <3>2. QED BY <2>3, <3>1
  <2>6. CASE an.l1num = 0
    <3>1. an'.done = TRUE
      BY <1>44, <2>6
    <3>2. QED BY <1>4, <1>15, <2>2, <2>5, <2>6, <3>1
  <2>7. CASE an.l1num > 0
    <3>1. an'.done = FALSE
      BY <1>44, <2>7
    <3>2. y \in Derived'
      BY <1>4, <1>14, <1>16, <2>4, <2>5, <2>7
    <3>3. QED BY <2>2, <3>1, <3>2
  <2>8. QED BY <1>2, <2>6, <2>7
<1>21. UsesRulesInForce'
  <2>1. \A i \in an.why : Usable(i)
    BY <1>2 DEF SearchInv, UsesRulesInForce
  <2>2. \A i : Usable(i)' <=> Usable(i)
    BY <1>2 DEF Usable, Enabled, LevelAt
  <2>3. QED BY <1>2, <1>4, <2>1, <2>2 DEF UsesRulesInForce
<1>22. QED BY <1>1, <1>19, <1>20, <1>21, StepFacts, AnalyzeFrame

\* The literals of level 1 are resolved away one by one.
LEMMA Level1Keeps ==
  ASSUME SearchInv, AnalyzeLevel1
  PROVE  SearchInv'
<1> DEFINE m == NextMarked
           v == Var(trail.q[m])
<1>1. AnalyzeStep /\ an.num = 0
  BY DEF AnalyzeLevel1
<1>2. /\ pc = "analyze" /\ pc' = "analyze" /\ an.c = 0 /\ an.done = FALSE
      /\ level > 1 /\ level \in Nat /\ level = TopLevel(trail)
      /\ rules' = rules /\ trail' = trail /\ level' = level /\ disabled' = disabled
      /\ DOMAIN an = {"c", "idx", "seen", "num", "l1num", "r", "rlevel", "why", "p", "done"}
      /\ AnalysisType(an) /\ \A x \in an.seen : ~Undecided(x)
      /\ an.idx \in 0..Len(trail.q) /\ Len(trail.q) \in Nat /\ an.l1num \in Nat /\ IsFiniteSet(an.seen)
  BY <1>1, StepFacts, TrailFacts DEF AnalysisType
<1>3. AtGround /\ an.l1num = Cardinality(an.seen) + 1 /\ an.p # 0 /\ an.why # {}
  <2>1. ~AtCurrent
    BY <1>1 DEF AtCurrent
  <2>2. QED BY <1>1, <2>1, StepFacts DEF AtGround
<1>4. \A a, x1, x2, x3, x4 :
        DOMAIN a = {"c", "idx", "seen", "num", "l1num", "r", "rlevel", "why", "p", "done"} =>
          /\ LET b == [a EXCEPT !.idx = x1, !.l1num = x2, !.seen = x3, !.c = x4]
             IN  /\ DOMAIN b = DOMAIN a /\ b.idx = x1 /\ b.l1num = x2 /\ b.seen = x3 /\ b.c = x4
                 /\ b.r = a.r /\ b.rlevel = a.rlevel /\ b.why = a.why /\ b.p = a.p
                 /\ b.done = a.done /\ b.num = a.num
          /\ LET b == [a EXCEPT !.l1num = 0, !.done = TRUE]
             IN  /\ DOMAIN b = DOMAIN a /\ b.idx = a.idx /\ b.l1num = 0 /\ b.seen = a.seen /\ b.c = a.c
                 /\ b.r = a.r /\ b.rlevel = a.rlevel /\ b.why = a.why /\ b.p = a.p
                 /\ b.done = TRUE /\ b.num = a.num
  OBVIOUS
<1>5. /\ an.rlevel \in 1..(level - 1)
      /\ \A l \in Range(an.r) : IsFalse(trail.map, l) /\ LevelOf(l) \in 2..an.rlevel
      /\ an.rlevel = 1 \/ \E l \in Range(an.r) : LevelOf(l) = an.rlevel
      /\ an.p \in Literals(Solvables) /\ IsFalse(trail.map, an.p) /\ LevelOf(an.p) = level
  BY <1>2, <1>3 DEF SearchInv, Analysis
<1>6. CASE an.l1num = 1
  <2>1. an' = [an EXCEPT !.l1num = 0, !.done = TRUE]
    BY <1>6 DEF AnalyzeLevel1
  <2>2. /\ DOMAIN an' = DOMAIN an /\ an'.idx = an.idx /\ an'.l1num = 0 /\ an'.seen = an.seen
        /\ an'.c = an.c /\ an'.r = an.r /\ an'.rlevel = an.rlevel /\ an'.why = an.why
        /\ an'.p = an.p /\ an'.done = TRUE /\ an'.num = an.num
    BY <1>2, <1>4, <2>1, Zenon
  <2>3. an.seen = {}
    <3>1. Cardinality(an.seen) \in Nat /\ Cardinality(an.seen) + 1 = 1
      BY <1>2, <1>3, <1>6, FS_CardinalityType
    <3>2. Cardinality(an.seen) = 0
      BY <3>1
    <3>3. QED BY <1>2, <3>2, FS_EmptySet
  <2>4. Analysed'
    BY <1>2, <1>3, <2>2 DEF Analysed
  <2>5. AnalysisType(an)'
    <3>0. an'.l1num = 0 /\ an'.done = TRUE
      BY <2>2, Zenon
    <3>1. an'.l1num \in Nat /\ an'.done \in BOOLEAN
      <4>1. an'.l1num \in Nat
        BY <3>0
      <4>2. an'.done \in BOOLEAN
        BY <3>0, Zenon
      <4>3. QED BY <4>1, <4>2
    <3>2. QED BY <1>2, <2>2, <3>1 DEF AnalysisType
  <2>6. Analysis'
    <3>1. \A l : LevelOf(l)' = LevelOf(l) /\ (Undecided(l)' <=> Undecided(l))
      BY <1>2 DEF LevelOf, Undecided
    <3>2. QED BY <1>2, <1>5, <2>2, <2>4, <2>5, <3>1 DEF Analysis
  <2>7. DerivedFollows'
    <3>1. SUFFICES ASSUME NEW S \in Worlds(Solvables), Satisfies(S, rules, an.why), an.why # {}
                   PROVE  \E l \in {an.p} \cup Range(an.r) : TrueIn(S, l)
      BY <1>2, <2>2 DEF DerivedFollows
    <3>2. PICK y \in Derived : TrueIn(S, y)
      BY <1>2, <3>1 DEF SearchInv, DerivedFollows
    <3>3. y \in {an.p} \cup Range(an.r)
      BY <1>2, <2>3, <3>2 DEF Derived
    <3>4. QED BY <3>2, <3>3
  <2>8. UsesRulesInForce'
    <3>1. \A i \in an.why : Usable(i)
      BY <1>2 DEF SearchInv, UsesRulesInForce
    <3>2. \A i : Usable(i)' <=> Usable(i)
      BY <1>2 DEF Usable, Enabled, LevelAt
    <3>3. QED BY <1>2, <2>2, <3>1, <3>2 DEF UsesRulesInForce
  <2>9. QED BY <1>1, <2>6, <2>7, <2>8, StepFacts, AnalyzeFrame
<1>7. CASE an.l1num # 1
  <2>1. an' = [an EXCEPT !.idx = m - 1, !.l1num = an.l1num - 1, !.seen = an.seen \ {v}, !.c = ReasonAt(m)]
    BY <1>7 DEF AnalyzeLevel1
  <2>2. PICK x1 \in an.seen : TRUE
    <3>1. Cardinality(an.seen) # 0
      BY <1>3, <1>7
    <3>2. QED BY <1>2, <3>1, FS_EmptySet
  <2>3. PICK k1 \in 1..an.idx : Var(trail.q[k1]) = x1
    BY <1>3, <2>2 DEF AtGround, Waiting
  <2>4. /\ m \in 1..an.idx /\ m \in 1..Len(trail.q) /\ v \in an.seen
        /\ LevelOf(v) = LevelAt(m) /\ ReasonAt(m) \in 0..Len(rules)
        /\ \A k \in 1..an.idx : Var(trail.q[k]) \in an.seen /\ Var(trail.q[k]) # v => k \in 1..(m - 1)
    BY <1>2, <2>2, <2>3, NextMarkedFacts
  <2> HIDE DEF m, v
  <2>5. /\ DOMAIN an' = DOMAIN an /\ an'.idx = m - 1 /\ an'.l1num = an.l1num - 1
        /\ an'.seen = an.seen \ {v} /\ an'.c = ReasonAt(m) /\ an'.r = an.r
        /\ an'.rlevel = an.rlevel /\ an'.why = an.why
        /\ an'.p = an.p /\ an'.done = an.done /\ an'.num = an.num
    BY <1>2, <1>4, <2>1, Zenon
  <2>6. LevelAt(m) = 1
    BY <1>3, <2>4 DEF AtGround
  <2>7. ReasonAt(m) # 0 \/ m = 1
    <3>1. SUFFICES ASSUME m # 1 PROVE ReasonAt(m) # 0
      OBVIOUS
    <3>2. 1 \in 1..(m - 1)
      BY <1>2, <2>4, <3>1
    <3>3. LevelAt(1) = 1
      BY TrailFacts DEF TrailWhole, Stairs, LevelAt
    <3>4. QED BY <2>4, <2>6, <3>2, <3>3, LaterDecisionsForced
  <2>8. AtGround'
    <3>1. /\ an'.p # 0 /\ an'.done = FALSE /\ an'.why # {} /\ an'.num = 0
      BY <1>1, <1>2, <1>3, <2>5
    <3>2. an'.l1num = Cardinality(an'.seen) + 1
      <4>1. Cardinality(an.seen \ {v}) = Cardinality(an.seen) - 1 /\ Cardinality(an.seen) \in Nat
        BY <1>2, <2>4, FS_RemoveElement, FS_CardinalityType
      <4>2. QED BY <1>3, <2>5, <4>1
    <3>3. ASSUME NEW x \in an'.seen PROVE LevelOf(x)' = 1 /\ Waiting(x)'
      <4>1. x \in an.seen /\ x # v
        BY <2>5, <3>3
      <4>2. LevelOf(x) = 1
        BY <1>3, <4>1 DEF AtGround
      <4>3. PICK k \in 1..an.idx : Var(trail.q[k]) = x
        BY <1>3, <4>1 DEF AtGround, Waiting
      <4>4. k \in 1..an'.idx
        BY <2>4, <2>5, <4>1, <4>3
      <4>5. QED BY <1>2, <4>2, <4>3, <4>4 DEF LevelOf, Waiting
    <3>4. Resolving(1)'
      <4>1. ReasonAt(m) # 0 => trail.why[m] = ReasonAt(m)
        BY <2>4, ReasonUsable
      <4>2. an'.idx + 1 = m /\ an'.idx < Len(trail.q)
        BY <1>2, <2>4, <2>5
      <4>3. QED BY <1>2, <2>5, <2>6, <3>1, <4>1, <4>2 DEF Resolving, LevelAt
    <3>5. QED BY <3>1, <3>2, <3>3, <3>4 DEF AtGround
  <2>9. an'.num \in Nat /\ an'.l1num \in Nat
    <3>1. Cardinality(an.seen) \in Nat
      BY <1>2, FS_CardinalityType
    <3>2. QED BY <1>1, <1>3, <2>5, <3>1
  <2>10. Unmarked(an')
    BY <2>5 DEF Unmarked, m, v
  <2>11. Var(trail.q[k1]) \in an.seen
    BY <2>2, <2>3
  <2>12. QED BY <1>1, <2>3, <2>7, <2>8, <2>9, <2>10, <2>11, UnmarkKeeps DEF m
<1>8. QED BY <1>6, <1>7

----------------------------------------------------------------------------
(* The learnt rule.                                                        *)

\* The literals of the learnt rule.
Clause == InFront(an.p, an.r)
\* Its number.
New == Len(rules) + 1
\* The trail the search goes back to.
Back == Reverted(an.rlevel)
\* How many decisions stay.
Stay == Kept(trail, an.rlevel)
\* Its watches.
NewWatches == <<an.p, IF an.r = <<>> THEN 0 ELSE HighestOf(an.r)>>

\* An element put in front of a sequence.
LEMMA FrontFacts ==
  ASSUME NEW T, NEW q \in Seq(T), NEW x \in T, NEW s, s = InFront(x, q)
  PROVE  /\ s \in Seq(T) /\ Len(s) = Len(q) + 1 /\ s # <<>>
         /\ Range(s) = {x} \cup Range(q)
<1>1. s = <<x>> \o q
  BY DEF InFront
<1>2. /\ s \in Seq(T) /\ Len(s) = Len(q) + 1 /\ Len(q) \in Nat /\ DOMAIN q = 1..Len(q)
      /\ DOMAIN s = 1..(Len(q) + 1) /\ s[1] = x /\ \A k \in 1..Len(q) : s[k + 1] = q[k]
  BY <1>1
<1>3. Range(s) = {x} \cup Range(q)
  <2>1. ASSUME NEW k \in 1..(Len(q) + 1) PROVE s[k] \in {x} \cup Range(q)
    <3>1. k = 1 \/ k - 1 \in 1..Len(q)
      BY <1>2
    <3>2. CASE k - 1 \in 1..Len(q)
      <4>1. k = (k - 1) + 1
        BY <1>2
      <4>2. s[k] = q[k - 1]
        BY <1>2, <3>2, <4>1
      <4>3. QED BY <1>2, <3>2, <4>2 DEF Range
    <3>3. QED BY <1>2, <3>1, <3>2
  <2>2. x \in Range(s)
    <3>1. 1 \in DOMAIN s
      BY <1>2
    <3>2. QED BY <1>2, <3>1 DEF Range
  <2>3. ASSUME NEW k \in 1..Len(q) PROVE q[k] \in Range(s)
    <3>1. k + 1 \in DOMAIN s
      BY <1>2
    <3>2. QED BY <1>2, <3>1 DEF Range
  <2>4. QED BY <1>2, <2>1, <2>2, <2>3 DEF Range
<1>4. s # <<>>
  BY <1>2
<1>5. QED BY <1>2, <1>3, <1>4

\* What the analysis leaves.
LEMMA LearntFacts ==
  ASSUME SearchInv, pc = "analyze", an.done
  PROVE  /\ an.c = 0 /\ an.done = TRUE /\ an.why # {} /\ an.why \subseteq DOMAIN rules
         /\ an.p \in Literals(Solvables) /\ IsFalse(trail.map, an.p) /\ LevelOf(an.p) = level
         /\ an.r \in Seq(Literals(Solvables)) /\ an.rlevel \in 1..(level - 1)
         /\ an.rlevel \in Nat /\ an.rlevel > 0 /\ an.rlevel < level /\ level \in Nat
         /\ level = TopLevel(trail)
         /\ \A l \in Range(an.r) : /\ l \in Literals(Solvables) /\ IsFalse(trail.map, l)
                                   /\ LevelOf(l) \in 2..an.rlevel
         /\ an.r # <<>> => \E l \in Range(an.r) : LevelOf(l) = an.rlevel
         /\ an.r = <<>> => an.rlevel = 1 /\ Range(an.r) = {}
<1>1. /\ Starting \/ AtCurrent \/ AtGround \/ Analysed
      /\ AnalysisType(an) /\ an.rlevel \in 1..(level - 1)
      /\ \A l \in Range(an.r) : IsFalse(trail.map, l) /\ LevelOf(l) \in 2..an.rlevel
      /\ an.rlevel = 1 \/ \E l \in Range(an.r) : LevelOf(l) = an.rlevel
      /\ an.p # 0 => /\ an.p \in Literals(Solvables)
                     /\ IsFalse(trail.map, an.p) /\ LevelOf(an.p) = level
  BY DEF SearchInv, Analysis
<1>2. Analysed
  <2>1. ~AtCurrent /\ ~AtGround
    BY DEF AtCurrent, AtGround
  <2>2. Starting => ~an.done
    BY DEF Starting, NoAnalysis
  <2>3. QED BY <1>1, <2>1, <2>2
<1>3. level \in Nat /\ level > 1 /\ level = TopLevel(trail)
  <2>1. level > 1
    BY DEF SearchInv, Phases
  <2>2. QED BY <2>1, SearchFacts
<1>4. an.done = TRUE /\ an.r \in Seq(Literals(Solvables)) /\ an.why \subseteq DOMAIN rules
  BY <1>1 DEF AnalysisType
<1>5. an.rlevel \in Nat /\ an.rlevel > 0 /\ an.rlevel < level
  BY <1>1, <1>3
<1>6. Range(an.r) \subseteq Literals(Solvables)
  BY <1>4, RangeFacts
<1>7. an.r = <<>> => an.rlevel = 1 /\ Range(an.r) = {}
  <2>1. Range(<<>>) = {}
    BY DEF Range
  <2>2. QED BY <1>1, <2>1
<1>8. an.r # <<>> => \E l \in Range(an.r) : LevelOf(l) = an.rlevel
  <2>1. SUFFICES ASSUME an.r # <<>>, an.rlevel = 1 PROVE FALSE
    BY <1>1
  <2>2. Len(an.r) \in Nat /\ Len(an.r) > 0 /\ DOMAIN an.r = 1..Len(an.r)
    BY <1>4, <2>1
  <2>3. 1 \in DOMAIN an.r
    BY <2>2
  <2>4. an.r[1] \in Range(an.r)
    BY <2>3 DEF Range
  <2>5. QED BY <1>1, <2>1, <2>4
<1>9. QED BY <1>1, <1>2, <1>3, <1>4, <1>5, <1>6, <1>7, <1>8 DEF Analysed

\* The second watch is a literal of the highest level.
LEMMA HighestFacts ==
  ASSUME SearchInv, pc = "analyze", an.done, an.r # <<>>
  PROVE  HighestOf(an.r) \in Range(an.r) /\ LevelOf(HighestOf(an.r)) = an.rlevel
<1> DEFINE r == an.r
           M == {k \in DOMAIN r : \A j \in DOMAIN r : LevelOf(r[j]) <= LevelOf(r[k])}
           m == Min(M)
<1>1. /\ r \in Seq(Literals(Solvables)) /\ \E l \in Range(r) : LevelOf(l) = an.rlevel
      /\ \A l \in Range(r) : LevelOf(l) \in 2..an.rlevel
      /\ an.rlevel \in Nat
  BY LearntFacts
<1>2. HighestOf(an.r) = r[m]
  BY DEF HighestOf
<1> HIDE DEF r
<1>3. DOMAIN r = 1..Len(r) /\ Len(r) \in Nat
  BY <1>1
<1>4. \A k \in DOMAIN r : r[k] \in Range(r)
  BY DEF Range
<1>5. PICK k \in DOMAIN r : LevelOf(r[k]) = an.rlevel
  BY <1>1 DEF Range
<1>6. k \in M
  BY <1>1, <1>4, <1>5
<1>7. M \subseteq Nat
  BY <1>3
<1> HIDE DEF M
<1>8. m \in M
  BY <1>6, <1>7, MinIsLeast
<1>9. m \in DOMAIN r /\ LevelOf(r[k]) <= LevelOf(r[m])
  BY <1>5, <1>8 DEF M
<1>10. LevelOf(r[m]) \in 2..an.rlevel
  BY <1>1, <1>4, <1>9
<1>11. LevelOf(r[m]) = an.rlevel
  BY <1>1, <1>5, <1>9, <1>10
<1>12. QED BY <1>2, <1>4, <1>9, <1>11 DEF r

\* The trail after the learnt rule has made its literal true.
LEMMA LearnTrail ==
  ASSUME SearchInv, Learn
  PROVE  /\ rules' = Append(rules, [lits |-> Clause, area |-> "learnt", grp |-> 0, weak |-> FALSE,
                                    why |-> an.why])
         /\ Len(rules') = New /\ Len(rules) \in Nat /\ DOMAIN rules = 1..Len(rules)
         /\ DOMAIN rules' = 1..New /\ New \in Nat /\ New > 0
         /\ rules'[New] = [lits |-> Clause, area |-> "learnt", grp |-> 0, weak |-> FALSE,
                           why |-> an.why]
         /\ \A i \in 1..Len(rules) : rules'[i] = rules[i]
         /\ Clause \in Seq(Literals(Solvables)) /\ Clause # <<>>
         /\ Range(Clause) = {an.p} \cup Range(an.r)
         /\ IsAssertion(rules'[New]) <=> an.r = <<>>
         /\ ShrankTo(Back, trail, rules, an.rlevel, Stay)
         /\ GrewBy(trail', Back, rules', an.p, New, an.rlevel)
<1>1. pc = "analyze" /\ an.done
  BY DEF Learn
<1>2. /\ an.p \in Literals(Solvables) /\ IsFalse(trail.map, an.p) /\ LevelOf(an.p) = level
      /\ an.r \in Seq(Literals(Solvables)) /\ an.rlevel \in 1..(level - 1)
      /\ an.rlevel \in Nat /\ an.rlevel > 0 /\ an.rlevel < level /\ level \in Nat
      /\ level = TopLevel(trail)
      /\ \A l \in Range(an.r) : /\ l \in Literals(Solvables) /\ IsFalse(trail.map, l)
                                /\ LevelOf(l) \in 2..an.rlevel
  BY <1>1, LearntFacts
<1> DEFINE x == [lits |-> Clause, area |-> "learnt", grp |-> 0, weak |-> FALSE, why |-> an.why]
<1>3. rules' = Append(rules, x) /\ trail' = Decide(Back, an.p, New, an.rlevel)
  BY DEF Learn, Clause, InFront, Back, New
<1>4. /\ Clause \in Seq(Literals(Solvables)) /\ Clause # <<>>
      /\ Range(Clause) = {an.p} \cup Range(an.r) /\ Len(Clause) = Len(an.r) + 1
  <2> DEFINE q == an.r
             l == an.p
             T == Literals(Solvables)
             s == Clause
  <2>1. q \in Seq(T) /\ l \in T /\ s = InFront(l, q)
    BY <1>2 DEF Clause
  <2> HIDE DEF q, l, T, s
  <2>2. s \in Seq(T) /\ s # <<>> /\ Range(s) = {l} \cup Range(q) /\ Len(s) = Len(q) + 1
    BY <2>1, FrontFacts
  <2>3. QED BY <2>2 DEF q, l, T, s
<1>5. x.lits = Clause
  OBVIOUS
<1> HIDE DEF x
<1>6. Len(rules) \in Nat /\ DOMAIN rules = 1..Len(rules) /\ NSolvables \in Nat
      /\ rules \in Seq(Range(rules))
  BY RuleFacts, SearchFacts DEF SearchInv, RulesTyped, RulesGrow
<1>7. /\ Len(rules') = New /\ DOMAIN rules' = 1..New /\ New \in Nat /\ New > 0 /\ rules'[New] = x
      /\ \A i \in 1..Len(rules) : rules'[i] = rules[i]
  BY <1>3, <1>6 DEF New
<1>8. ShrankTo(Back, trail, rules, an.rlevel, Stay)
  BY <1>2, SearchFacts, RevertShrinks DEF Back, Stay, Reverted
<1>9. TrailWhole(Back, rules, NSolvables) /\ TopLevel(Back) = an.rlevel
  BY <1>8 DEF ShrankTo
<1>10. TrailWhole(Back, rules', NSolvables)
  <2>1. Len(rules) <= Len(rules') /\ Len(rules') \in Nat
    BY <1>6, <1>7 DEF New
  <2>2. QED BY <1>6, <1>7, <1>9, <2>1, AddingRuleKeepsTrail
<1>11. IsUndef(Back.map, an.p)
  <2>1. Level(trail.map[Var(an.p)]) > an.rlevel
    BY <1>2 DEF LevelOf
  <2>2. QED BY <1>2, <1>8, <2>1 DEF ShrankTo
<1>12. \A l \in Range(an.r) : l \in Literals(Solvables) /\ IsFalse(Back.map, l)
  <2>1. ASSUME NEW l \in Range(an.r) PROVE l \in Literals(Solvables) /\ IsFalse(Back.map, l)
    <3>1. l \in Literals(Solvables) /\ IsFalse(trail.map, l) /\ LevelOf(l) <= an.rlevel
      BY <1>2
    <3>2. QED BY <1>8, <3>1 DEF ShrankTo, LevelOf
  <2>2. QED BY <2>1
<1>13. GrewBy(trail', Back, rules', an.p, New, an.rlevel)
  <2>1. New \in -Len(rules')..Len(rules')
    BY <1>7
  <2>2. an.p \in Range(rules'[New].lits) /\ \A l \in Range(rules'[New].lits) \ {an.p} : l \in Range(an.r)
    BY <1>4, <1>5, <1>7
  <2>3. IF New > 0
          THEN /\ an.rlevel = TopLevel(Back) /\ an.p \in Range(rules'[New].lits)
               /\ \A l \in Range(rules'[New].lits) \ {an.p} : l \in Literals(Solvables) /\ IsFalse(Back.map, l)
          ELSE an.rlevel = TopLevel(Back) + 1
    BY <1>7, <1>9, <1>12, <2>2
  <2> DEFINE b == Back
             rs == rules'
             t == trail'
             lit == an.p
             lev == an.rlevel
             n == New
  <2>4. /\ TrailWhole(b, rs, NSolvables) /\ Len(rs) \in Nat /\ lit \in Literals(Solvables)
        /\ IsUndef(b.map, lit) /\ n \in -Len(rs)..Len(rs) /\ lev \in Nat /\ t = Decide(b, lit, n, lev)
        /\ IF n > 0
             THEN /\ lev = TopLevel(b) /\ lit \in Range(rs[n].lits)
                  /\ \A l \in Range(rs[n].lits) \ {lit} : l \in Literals(Solvables) /\ IsFalse(b.map, l)
             ELSE lev = TopLevel(b) + 1
    BY <1>2, <1>3, <1>7, <1>10, <1>11, <2>1, <2>3
  <2> HIDE DEF b, rs, t, lit, lev, n
  <2>5. GrewBy(Decide(b, lit, n, lev), b, rs, lit, n, lev)
    BY <2>4, DecideGrows
  <2>6. GrewBy(t, b, rs, lit, n, lev)
    BY <2>4, <2>5
  <2>7. QED BY <2>6 DEF b, rs, t, lit, lev, n
<1>14. IsAssertion(rules'[New]) <=> an.r = <<>>
  <2>1. Len(an.r) \in Nat /\ (Len(an.r) = 0 <=> an.r = <<>>)
    BY <1>2
  <2>2. rules'[New].lits = Clause
    BY <1>5, <1>7
  <2>3. Len(rules'[New].lits) = 1 <=> an.r = <<>>
    <3>1. Len(rules'[New].lits) = Len(an.r) + 1
      BY <1>4, <2>2
    <3>2. QED BY <2>1, <3>1
  <2>4. QED BY <2>3 DEF IsAssertion
<1>15. QED BY <1>3, <1>4, <1>6, <1>7, <1>8, <1>13, <1>14 DEF x

\* What learning leaves alone, and where it goes on.
LEMMA LearnFrame ==
  ASSUME SearchInv, Learn
  PROVE  /\ pc = "analyze" /\ pc' = "propagate" /\ visit' = 0 /\ level' = an.rlevel
         /\ propagate_index' = Stay /\ branches' = BranchesBelow(branches, an.rlevel)
         /\ recommendations' = SubSeq(recommendations, 1, RecommendationsKept(Stay))
         /\ in' = in /\ disabled' = disabled /\ problems' = problems
         /\ systemlevel' = systemlevel /\ caller' = caller /\ loc' = loc
         /\ w' = Append(w, NewWatches)
         /\ watches' = IF an.r = <<>> THEN watches
                       ELSE [l \in DOMAIN watches |->
                               IF l \in {an.p, HighestOf(an.r)} THEN <<New>> \o watches[l]
                                                                ELSE watches[l]]
<1>1. an.r # <<>> => Range(NewWatches) = {an.p, HighestOf(an.r)}
  <2> DEFINE y == HighestOf(an.r)
             x == an.p
  <2>1. an.r # <<>> => NewWatches = <<x, y>>
    BY DEF NewWatches
  <2> HIDE DEF x, y
  <2>2. Range(<<x, y>>) = {x, y}
    BY DEF Range
  <2>3. QED BY <2>1, <2>2 DEF x, y
<1>2. QED BY <1>1 DEF Learn, New, Stay, NewWatches

\* The rules are still rules.
LEMMA LearnRules ==
  ASSUME SearchInv, Learn
  PROVE  RulesTyped'
<1>1. /\ DOMAIN rules = 1..Len(rules) /\ DOMAIN rules' = 1..New /\ Len(rules) \in Nat
      /\ rules'[New] = [lits |-> Clause, area |-> "learnt", grp |-> 0, weak |-> FALSE,
                        why |-> an.why]
      /\ \A i \in 1..Len(rules) : rules'[i] = rules[i]
      /\ Clause \in Seq(Literals(Solvables)) /\ Clause # <<>>
  BY LearnTrail
<1>2. RulesGrow' /\ disabled' = disabled
  BY LearnGrows DEF SearchInv, RulesTyped
<1>3. /\ \A i \in 1..Len(rules) :
           /\ rules[i].lits \in Seq(Literals(Solvables)) /\ rules[i].lits # <<>>
           /\ rules[i].area \in Areas
           /\ rules[i].why \subseteq 1..(i - 1)
      /\ disabled \subseteq DOMAIN rules
  BY <1>1 DEF SearchInv, RulesTyped
<1>4. an.why \subseteq 1..(New - 1)
  BY <1>1, LearntFacts DEF Learn, New
<1>5. /\ rules'[New].lits = Clause /\ rules'[New].area = "learnt" /\ rules'[New].why = an.why
  BY <1>1
<1>6. \A i \in 1..New : i \in 1..Len(rules) \/ i = New
  BY <1>1 DEF New
<1>7. DOMAIN rules \subseteq DOMAIN rules'
  BY <1>1 DEF New
<1>8. "learnt" \in Areas
  BY DEF Areas
<1>9. \A i \in 1..New :
           /\ rules'[i].lits \in Seq(Literals(Solvables)) /\ rules'[i].lits # <<>>
           /\ rules'[i].area \in Areas
           /\ rules'[i].why \subseteq 1..(i - 1)
  BY <1>1, <1>3, <1>4, <1>5, <1>6, <1>8
<1>10. QED BY <1>1, <1>2, <1>3, <1>7, <1>9 DEF RulesTyped

\* The trail goes back and on.
LEMMA LearnKeepsTrail ==
  ASSUME SearchInv, Learn
  PROVE  TrailInv'
<1> DEFINE c == Back
           k == Stay
           g == an.rlevel
           n == New
           l == an.p
<1>1. /\ ShrankTo(c, trail, rules, g, k) /\ GrewBy(trail', c, rules', l, n, g)
      /\ DOMAIN rules = 1..Len(rules) /\ DOMAIN rules' = 1..n /\ Len(rules) \in Nat
      /\ n = Len(rules) + 1
      /\ \A i \in DOMAIN rules : rules'[i] = rules[i]
      /\ IsAssertion(rules'[n]) <=> an.r = <<>>
  BY LearnTrail DEF New
<1>2. disabled' = disabled /\ level' = g
  BY LearnFrame
<1>3. g \in Nat /\ (an.r = <<>> => g = 1)
  BY LearntFacts DEF Learn
<1> HIDE DEF c, k, g, n, l
<1>4. n \notin disabled
  BY <1>1 DEF SearchInv, RulesTyped
<1>5. DOMAIN rules \subseteq DOMAIN rules'
  BY <1>1
<1>6. n > 0 => IF IsAssertion(rules'[n]) THEN g = 1 ELSE n \notin disabled
  BY <1>1, <1>3, <1>4
<1>7. QED BY <1>1, <1>2, <1>3, <1>5, <1>6, TrailReverts

\* Phases after learning.
LEMMA LearnKeepsPhases ==
  ASSUME SearchInv, Learn
  PROVE  Phases' /\ Placed' = Placed
<1>1. /\ pc = "analyze" /\ pc' = "propagate" /\ visit' = 0 /\ level' = an.rlevel
      /\ propagate_index' = Stay /\ systemlevel' = systemlevel /\ caller' = caller
      /\ in' = in /\ disabled' = disabled
  BY LearnFrame
<1> DEFINE k == Stay
           c == Back
           g == an.rlevel
           l == an.p
           n == New
<1>2. /\ ShrankTo(c, trail, rules, g, k) /\ GrewBy(trail', c, rules', l, n, g)
  BY LearnTrail
<1>3. g \in Nat /\ g > 0
  BY LearntFacts DEF Learn
<1> HIDE DEF k, c, g, l, n
<1>4. k \in Nat /\ Len(trail'.q) = k + 1 /\ DOMAIN trail'.q = 1..(k + 1)
      /\ LevelIn(trail', k + 1) = g
  BY <1>2, TrailFacts DEF ShrankTo, GrewBy
<1>5. \A j \in DOMAIN trail'.q : j > k => LevelIn(trail', j) = g
  <2>1. \A j \in 1..(k + 1) : j > k => j = k + 1
    BY <1>4
  <2>2. QED BY <1>4, <2>1
<1>6. propagate_index' \in 0..Len(trail'.q) /\ propagate_index' = k /\ level' = g
  BY <1>1, <1>4 DEF k, g
<1>7. /\ caller.at \in SystemBacks \cup UncheckedCallers \cup {"top", "jobs"}
      /\ caller = [at |-> caller.at, olevel |-> caller.olevel, disablerules |-> caller.disablerules]
      /\ caller.olevel \in Nat /\ caller.olevel > 0
      /\ systemlevel \in 1..(NSolvables + 1)
  BY DEF SearchInv, Phases
<1>8. "propagate" \in Running /\ "propagate" \notin Resting \cup UncheckedCallers \cup SystemBacks \cup {"top", "hopeless"}
  BY DEF Running, Resting, UncheckedCallers, SystemBacks, Extras
<1>9. Phases'
  BY <1>1, <1>3, <1>5, <1>6, <1>7, <1>8 DEF Phases, LevelAt
<1>10. Placed' = Placed
  BY <1>1 DEF Placed, Running
<1>11. QED BY <1>9, <1>10

\* The watches of the learnt rule: one true, one false at the level gone back to.
LEMMA LearntWatches ==
  ASSUME SearchInv, Learn, an.r # <<>>, NEW i, i = New, NEW a \in {1, 2}, Noticed(i, w[i][a])'
  PROVE  /\ IsTrue(trail'.map, w'[i][3 - a])
         /\ Level(trail'.map[Var(w'[i][3 - a])]) <= Level(trail'.map[Var(w'[i][a])])
<1> DEFINE c == Back
           k == Stay
           g == an.rlevel
           l == an.p
           n == New
           h == HighestOf(an.r)
<1>1. /\ ShrankTo(c, trail, rules, g, k) /\ GrewBy(trail', c, rules', l, n, g)
      /\ Len(rules) \in Nat /\ n = Len(rules) + 1
  BY LearnTrail DEF New
<1>2. /\ l \in Literals(Solvables) /\ h \in Literals(Solvables) /\ IsFalse(trail.map, h)
      /\ LevelOf(h) = g /\ g \in Nat
  BY LearntFacts, HighestFacts DEF Learn
<1>3. w'[n][1] = l /\ w'[n][2] = h
  <2>1. w' = Append(w, <<l, h>>) /\ w \in Seq([1..2 -> Int]) /\ Len(w) = Len(rules)
    BY LearnFrame DEF NewWatches, SearchInv, WatchesWhole
  <2> HIDE DEF l, h, n
  <2>2. w'[n] = <<l, h>>
    BY <1>1, <2>1
  <2>3. QED BY <2>2
<1> HIDE DEF c, k, g, l, n, h
<1>4. IsTrue(trail'.map, l) /\ Level(trail'.map[Var(l)]) = g
  BY <1>1 DEF GrewBy
<1>5. Level(trail'.map[Var(h)]) = g
  <2>1. IsFalse(c.map, h) /\ c.map[Var(h)] = trail.map[Var(h)]
    BY <1>1, <1>2 DEF ShrankTo, LevelOf
  <2>2. trail'.map[Var(h)] = c.map[Var(h)]
    BY <1>1, <1>2, <2>1 DEF GrewBy
  <2>3. QED BY <1>2, <2>1, <2>2 DEF LevelOf
<1>6. ~IsFalse(trail'.map, l)
  <2>1. TrailWhole(trail', rules', NSolvables) /\ NSolvables \in Nat /\ Solvables = 1..NSolvables
    BY <1>1, SolvablesAssumption DEF GrewBy, Solvables
  <2>2. QED BY <1>2, <1>4, <2>1, ValueFacts
<1>7. a = 2
  <2>1. IsFalse(trail'.map, w'[i][a])
    BY DEF Noticed
  <2>2. i = n
    BY DEF n
  <2>3. QED BY <1>3, <1>6, <2>1, <2>2
<1>8. 3 - a = 1
  BY <1>7
<1>9. Level(trail'.map[Var(l)]) <= Level(trail'.map[Var(h)])
  BY <1>2, <1>4, <1>5
<1>10. QED BY <1>3, <1>4, <1>7, <1>8, <1>9 DEF n

\* The rules that were there are watched as before.
LEMMA LearnKeepsGuard ==
  ASSUME SearchInv, Learn
  PROVE  WatchesGuard'
<1> DEFINE c == Back
           k == Stay
           g == an.rlevel
           l == an.p
           n == New
<1>1. /\ ShrankTo(c, trail, rules, g, k) /\ GrewBy(trail', c, rules', l, n, g)
      /\ Len(rules) \in Nat /\ n = Len(rules) + 1
      /\ DOMAIN rules = 1..Len(rules) /\ DOMAIN rules' = 1..n
      /\ \A i \in DOMAIN rules : rules'[i] = rules[i]
      /\ IsAssertion(rules'[n]) <=> an.r = <<>>
  BY LearnTrail DEF New
<1>2. /\ pc = "analyze" /\ level' = g /\ propagate_index' = k /\ visit' = 0
      /\ disabled' = disabled /\ w' = Append(w, NewWatches)
  BY LearnFrame
<1>3. g \in Nat /\ g < level /\ level \in Nat /\ level > 0
  BY LearntFacts DEF Learn
<1>4. \A i \in DOMAIN rules : w'[i] = w[i]
  <2>1. w \in Seq([1..2 -> Int]) /\ Len(w) = Len(rules)
    BY DEF SearchInv, WatchesWhole
  <2>2. QED BY <1>1, <1>2, <2>1
<1> HIDE DEF c, k, g, l
<1>5. k \in 1..Len(trail.q) /\ Len(trail.q) \in Nat
      /\ \A j \in 1..k : /\ trail'.q[j] = trail.q[j] /\ j \in 1..Len(trail.q)
                         /\ LevelAt(j) <= g /\ LevelAt(j) \in Nat
  <2>1. k \in 1..Len(trail.q) /\ Len(trail.q) \in Nat /\ Len(c.q) = k
    BY <1>1, TrailFacts DEF ShrankTo
  <2>2. \A j \in 1..k : j \in 1..Len(trail.q) /\ trail'.q[j] = trail.q[j]
    BY <1>1, <2>1 DEF ShrankTo, GrewBy
  <2>3. \A j \in 1..k : LevelAt(j) <= g
    BY <1>1, <2>1, <2>2 DEF ShrankTo, LevelAt
  <2>4. \A j \in 1..k : LevelAt(j) \in Nat
    BY <2>2, TrailFacts, SearchFacts
  <2>5. QED BY <2>1, <2>2, <2>3, <2>4
<1>6. \A j \in 1..k : j \in 1..propagate_index /\ ~(j = propagate_index /\ visit > 0)
  <2>1. \A j \in DOMAIN trail.q :
           j > propagate_index \/ (j = propagate_index /\ visit > 0) => LevelAt(j) = level
    BY <1>2 DEF SearchInv, Phases
  <2>2. propagate_index \in Nat /\ DOMAIN trail.q = 1..Len(trail.q)
    BY TrailFacts
  <2>3. \A j \in 1..k : LevelAt(j) # level
    BY <1>3, <1>5
  <2>4. \A j \in 1..k : ~(j > propagate_index) /\ ~(j = propagate_index /\ visit > 0)
    BY <1>5, <2>1, <2>2, <2>3
  <2>5. QED BY <1>5, <2>2, <2>4
<1>7. SUFFICES ASSUME NEW i \in EnabledRules', ~IsAssertion(rules'[i]), NEW a \in {1, 2},
                      Noticed(i, w[i][a])'
               PROVE  /\ IsTrue(trail'.map, w'[i][3 - a])
                      /\ Level(trail'.map[Var(w'[i][3 - a])]) <= Level(trail'.map[Var(w'[i][a])])
  BY DEF WatchesGuard, LevelOf
<1>8. CASE i = n
  <2>1. i = New /\ an.r # <<>>
    BY <1>1, <1>7, <1>8 DEF n
  <2>2. QED BY <1>7, <2>1, LearntWatches
<1>9. CASE i # n
  <2>1. i \in DOMAIN rules /\ i \in EnabledRules /\ ~IsAssertion(rules[i]) /\ w'[i] = w[i]
    <3>1. i \in 1..n /\ i \notin disabled
      BY <1>1, <1>2, <1>7 DEF EnabledRules, Enabled
    <3>2. i \in 1..Len(rules)
      BY <1>1, <1>9, <3>1
    <3>3. QED BY <1>1, <1>4, <1>7, <3>1, <3>2 DEF EnabledRules, Enabled
  <2> DEFINE x == w[i][a]
             y == w[i][3 - a]
  <2>2. x \in Literals(Solvables) /\ y \in Literals(Solvables)
    BY <2>1, WatchFacts
  <2> HIDE DEF x, y
  <2>3. PICK j \in 1..k : trail'.q[j] = -x
    BY <1>2, <1>7, <2>1 DEF Noticed, x
  <2>4. j \in 1..propagate_index /\ trail.q[j] = -x /\ j \in 1..Len(trail.q)
        /\ ~(j = propagate_index /\ visit > 0)
    BY <1>5, <1>6, <2>3
  <2>5. Noticed(i, x)
    BY <2>2, <2>4, TrailFacts DEF Noticed
  <2>6. IsTrue(trail.map, y) /\ LevelOf(y) <= LevelOf(x)
    BY <1>3, <2>1, <2>5 DEF SearchInv, WatchesGuard, x, y
  <2>7. IsTrue(trail'.map, y) /\ Level(trail'.map[Var(y)]) <= Level(trail'.map[Var(x)])
    BY <1>1, <1>3, <2>2, <2>3, <2>4, <2>6, GuardReverts
  <2>8. QED BY <2>1, <2>7 DEF x, y
<1>10. QED BY <1>8, <1>9

\* Branches above the level gone back to are closed; the recommendations that
\* were undone are popped.
LEMMA LearnKeepsBranches ==
  ASSUME SearchInv, Learn
  PROVE  Branches' /\ Recommendations'
<1> DEFINE c == Back
           k == Stay
           g == an.rlevel
           l == an.p
           n == New
<1>1. /\ ShrankTo(c, trail, rules, g, k) /\ GrewBy(trail', c, rules', l, n, g)
  BY LearnTrail
<1>2. /\ pc' = "propagate" /\ level' = g /\ branches' = BranchesBelow(branches, g)
      /\ recommendations' = SubSeq(recommendations, 1, RecommendationsKept(k))
  BY LearnFrame
<1>3. g \in Nat /\ l \in Literals(Solvables)
  BY LearntFacts DEF Learn
<1> HIDE DEF c, k, g, l, n
<1>4. Branches'
  <2>1. BranchesAt(branches, trail.map, level) /\ level \in Nat
    BY BranchesAre, SearchFacts DEF SearchInv
  <2>2. PICK m \in 0..Len(branches) : /\ BranchesBelow(branches, g) = SubSeq(branches, 1, m)
                                      /\ \A b \in 1..m : branches[b].level < g
    BY <1>3, BranchFacts, BelowFacts
  <2>3. BranchesAt(branches', c.map, g)
    <3>1. trail.map \in [Solvables -> Int] /\ branches' = SubSeq(branches, 1, m)
      BY <1>2, <2>2, TrailFacts
    <3>2. BranchesAt(SubSeq(branches, 1, m), c.map, g)
      BY <1>1, <1>3, <2>1, <2>2, <3>1, BranchesCut
    <3>3. QED BY <3>1, <3>2
  <2>4. BranchesAt(branches', trail'.map, g)
    <3>1. c.map \in [Solvables -> Int]
      BY <1>1 DEF ShrankTo, TrailWhole, TrailType, Solvables
    <3>2. QED BY <1>1, <1>3, <2>3, <3>1, BranchesStay
  <2>5. (Branches <=> BranchesAt(branches, trail.map, level))'
    BY BranchesAre, PTL
  <2>6. QED BY <1>2, <2>4, <2>5
<1>5. Recommendations'
  <2>1. DOMAIN c.q = 1..k /\ \A j \in 1..k : c.q[j] = trail.q[j]
    BY <1>1 DEF ShrankTo
  <2>2. k \in 0..Len(trail.q) /\ DOMAIN c.q \subseteq DOMAIN trail'.q
    BY <1>1, TrailFacts DEF ShrankTo, GrewBy
  <2>3. RecommendedAt(recommendations', c.q)
    BY <1>2, <2>1, <2>2, RecommendedPopped
  <2>4. \A j \in DOMAIN c.q : trail'.q[j] = c.q[j]
    BY <1>1, <2>1 DEF GrewBy, ShrankTo
  <2>5. RecommendedAt(recommendations', trail'.q)
    BY <2>2, <2>3, <2>4, RecommendedStay
  <2>6. (Recommendations <=> RecommendationsPlaced)'
    BY RecommendationsAre, PTL
  <2>7. QED BY <1>2, <2>5, <2>6 DEF RecommendationsPlaced
<1>6. QED BY <1>4, <1>5

\* The watches of every rule are two of its literals.
LEMMA LearnWatchesFit ==
  ASSUME SearchInv, Learn
  PROVE  /\ w' \in Seq([1..2 -> Int]) /\ Len(w') = New /\ w'[New] = NewWatches
         /\ \A i \in DOMAIN rules : w'[i] = w[i]
         /\ \A i \in DOMAIN rules' : ~IsAssertion(rules'[i]) =>
              w'[i][1] \in Lits(i)' /\ w'[i][2] \in Lits(i)' /\ w'[i][1] # w'[i][2]
         /\ an.r # <<>> => /\ NewWatches[1] = an.p /\ NewWatches[2] = HighestOf(an.r)
                           /\ HighestOf(an.r) \in Literals(Solvables) /\ an.p # HighestOf(an.r)
         /\ an.p \in Literals(Solvables)
<1> DEFINE n == New
           p == an.p
           h == HighestOf(an.r)
           x == NewWatches
<1>1. /\ n = Len(rules) + 1 /\ Len(rules) \in Nat
      /\ DOMAIN rules = 1..Len(rules) /\ DOMAIN rules' = 1..n
      /\ \A i \in 1..Len(rules) : rules'[i] = rules[i]
      /\ rules'[n].lits = Clause /\ Range(Clause) = {p} \cup Range(an.r)
      /\ IsAssertion(rules'[n]) <=> an.r = <<>>
  BY LearnTrail DEF New
<1>2. p \in Literals(Solvables) /\ p \in Int /\ LevelOf(p) = level /\ an.rlevel < level /\ level \in Nat
  <2>1. p \in Literals(Solvables) /\ LevelOf(p) = level /\ an.rlevel < level /\ level \in Nat
    BY LearntFacts DEF Learn
  <2>2. QED BY <2>1, TrailFacts
<1>3. an.r # <<>> => h \in Range(an.r) /\ LevelOf(h) = an.rlevel
                     /\ h \in Literals(Solvables) /\ h \in Int
  <2>1. SUFFICES ASSUME an.r # <<>> PROVE h \in Range(an.r) /\ LevelOf(h) = an.rlevel
                     /\ h \in Literals(Solvables) /\ h \in Int
    OBVIOUS
  <2>2. h \in Range(an.r) /\ LevelOf(h) = an.rlevel
    BY <2>1, HighestFacts DEF Learn
  <2>3. h \in Literals(Solvables)
    BY <2>2, LearntFacts DEF Learn
  <2>4. QED BY <2>2, <2>3, TrailFacts
<1>4. w' = Append(w, x) /\ w \in Seq([1..2 -> Int]) /\ Len(w) = Len(rules)
  BY LearnFrame DEF SearchInv, WatchesWhole
<1>5. x \in [1..2 -> Int] /\ x[1] = p /\ (an.r # <<>> => x[2] = h)
  <2>1. x = <<p, IF an.r = <<>> THEN 0 ELSE h>>
    BY DEF NewWatches
  <2> HIDE DEF x, p, h
  <2>2. (IF an.r = <<>> THEN 0 ELSE h) \in Int
    BY <1>3
  <2>3. QED BY <1>2, <2>1, <2>2
<1>6. an.r # <<>> => p # h
  BY <1>2, <1>3
<1> HIDE DEF n, p, h, x
<1>7. /\ w' \in Seq([1..2 -> Int]) /\ Len(w') = n /\ w'[n] = x
      /\ \A i \in 1..Len(rules) : w'[i] = w[i]
  BY <1>1, <1>4, <1>5
<1>8. ASSUME NEW i \in DOMAIN rules', ~IsAssertion(rules'[i])
      PROVE  w'[i][1] \in Lits(i)' /\ w'[i][2] \in Lits(i)' /\ w'[i][1] # w'[i][2]
  <2>1. CASE i = n
    <3>1. an.r # <<>> /\ Lits(i)' = {p} \cup Range(an.r)
      BY <1>1, <1>8, <2>1 DEF Lits
    <3>2. QED BY <1>3, <1>5, <1>6, <1>7, <2>1, <3>1
  <2>2. CASE i # n
    <3>1. i \in 1..Len(rules)
      BY <1>1, <1>8, <2>2
    <3>2. rules'[i] = rules[i] /\ w'[i] = w[i]
      BY <1>1, <1>7, <3>1
    <3>3. w[i][1] \in Lits(i) /\ w[i][2] \in Lits(i) /\ w[i][1] # w[i][2]
      BY <1>1, <1>8, <3>1, <3>2 DEF SearchInv, WatchesWhole
    <3>4. Lits(i)' = Lits(i)
      BY <3>2 DEF Lits
    <3>5. QED BY <3>2, <3>3, <3>4
  <2>3. QED BY <2>1, <2>2
<1>9. QED BY <1>1, <1>2, <1>3, <1>5, <1>6, <1>7, <1>8 DEF n, p, h, x

\* The lists the learnt rule is put on.
LEMMA LearnWatching ==
  ASSUME SearchInv, Learn, NEW l \in Literals(Solvables)
  PROVE  /\ Watching(l)' = IF an.r # <<>> /\ l \in {an.p, HighestOf(an.r)}
                             THEN Watching(l) \cup {New} ELSE Watching(l)
         /\ New \notin Watching(l) /\ New \in Nat
<1> DEFINE n == New
           x == NewWatches
<1>1. /\ n = Len(rules) + 1 /\ Len(rules) \in Nat
      /\ DOMAIN rules = 1..Len(rules) /\ DOMAIN rules' = 1..n
      /\ \A i \in 1..Len(rules) : rules'[i] = rules[i]
      /\ IsAssertion(rules'[n]) <=> an.r = <<>>
  BY LearnTrail DEF New
<1>2. /\ w'[n] = x /\ \A i \in DOMAIN rules : w'[i] = w[i]
      /\ an.r # <<>> => x[1] = an.p /\ x[2] = HighestOf(an.r)
  BY LearnWatchesFit
<1> HIDE DEF n, x
<1>3. n \notin Watching(l) /\ n \in Nat
  BY <1>1 DEF Watching
<1>4. ASSUME NEW i \in 1..Len(rules) PROVE i \in Watching(l)' <=> i \in Watching(l)
  <2>1. rules'[i] = rules[i] /\ w'[i] = w[i] /\ i \in DOMAIN rules /\ i \in DOMAIN rules'
    BY <1>1, <1>2
  <2>2. QED BY <2>1 DEF Watching
<1>5. n \in Watching(l)' <=> an.r # <<>> /\ l \in {an.p, HighestOf(an.r)}
  <2>1. n \in DOMAIN rules'
    BY <1>1
  <2>2. n \in Watching(l)' <=> ~IsAssertion(rules'[n]) /\ l \in {w'[n][1], w'[n][2]}
    BY <2>1 DEF Watching
  <2>3. QED BY <1>1, <1>2, <2>2
<1>6. Watching(l) \subseteq 1..Len(rules) /\ Watching(l)' \subseteq 1..Len(rules) \cup {n}
  BY <1>1 DEF Watching
<1>7. QED BY <1>3, <1>4, <1>5, <1>6 DEF n

\* The learnt rule is put on the lists of its watches, the others stay.
LEMMA LearnKeepsWatches ==
  ASSUME SearchInv, Learn
  PROVE  WatchesWhole'
<1> DEFINE H == {an.p, HighestOf(an.r)}
           n == New
<1>1. /\ watches \in [Literals(Solvables) -> Seq(Nat)]
      /\ \A l \in Literals(Solvables) :
           /\ Range(watches[l]) = Watching(l)
           /\ \A j, k \in DOMAIN watches[l] : watches[l][j] = watches[l][k] => j = k
  BY DEF SearchInv, WatchesWhole
<1>2. watches' = IF an.r = <<>> THEN watches
                 ELSE [l \in DOMAIN watches |-> IF l \in H THEN InFront(n, watches[l]) ELSE watches[l]]
  BY LearnFrame DEF InFront
<1>3. \A l \in Literals(Solvables) :
        /\ Watching(l)' = IF an.r # <<>> /\ l \in H THEN Watching(l) \cup {n} ELSE Watching(l)
        /\ n \notin Watching(l) /\ n \in Nat
  BY LearnWatching
<1> HIDE DEF H, n
<1>4. ASSUME NEW l \in Literals(Solvables)
      PROVE  /\ watches'[l] \in Seq(Nat) /\ Range(watches'[l]) = Watching(l)'
             /\ \A j, k \in DOMAIN watches'[l] : watches'[l][j] = watches'[l][k] => j = k
  <2> DEFINE q == watches[l]
             r == watches'[l]
  <2>1. /\ q \in Seq(Nat) /\ Range(q) = Watching(l) /\ DOMAIN q = 1..Len(q)
        /\ \A j, k \in DOMAIN q : q[j] = q[k] => j = k
    BY <1>1
  <2>2. r = IF an.r # <<>> /\ l \in H THEN InFront(n, q) ELSE q
    BY <1>1, <1>2
  <2>3. /\ Watching(l)' = IF an.r # <<>> /\ l \in H THEN Range(q) \cup {n} ELSE Range(q)
        /\ n \notin Range(q) /\ n \in Nat
    BY <1>3, <2>1
  <2> HIDE DEF q, r
  <2>4. CASE an.r # <<>> /\ l \in H
    <3>1. r = InFront(n, q) /\ \A j, k \in 1..Len(q) : q[j] = q[k] => j = k
      BY <2>1, <2>2, <2>4
    <3>2. /\ r \in Seq(Nat) /\ Range(r) = Range(q) \cup {n}
          /\ \A j, k \in DOMAIN r : r[j] = r[k] => j = k
      BY <2>1, <2>3, <3>1, PutInFront
    <3>3. QED BY <2>3, <2>4, <3>2 DEF r
  <2>5. CASE ~(an.r # <<>> /\ l \in H)
    <3>1. r = q /\ Watching(l)' = Range(q)
      BY <2>2, <2>3, <2>5
    <3>2. QED BY <2>1, <3>1 DEF r
  <2>6. QED BY <2>4, <2>5
<1>5. watches' \in [Literals(Solvables) -> Seq(Nat)]
  <2>1. DOMAIN watches' = Literals(Solvables)
        /\ watches' = [l \in DOMAIN watches' |-> watches'[l]]
    BY <1>1, <1>2
  <2>2. QED BY <1>4, <2>1
<1>6. Len(rules') = New
  BY LearnTrail
<1>7. QED BY <1>4, <1>5, <1>6, LearnWatchesFit DEF WatchesWhole

\* What satisfies the rules in force and what is decided for good satisfies the
\* rules resolved.
LEMMA WorldSatisfiesWhy ==
  ASSUME SearchInv, pc = "analyze", NEW S,
         \A i \in EnabledRules : ~IsAssertion(rules[i]) => Holds(S, rules[i].lits),
         \A k \in DOMAIN trail.q : LevelAt(k) = 1 => TrueIn(S, trail.q[k])
  PROVE  Satisfies(S, rules, an.why)
<1>1. SUFFICES ASSUME NEW i \in an.why PROVE Holds(S, rules[i].lits)
  BY DEF Satisfies
<1>2. i \in DOMAIN rules /\ Usable(i)
  BY <1>1 DEF SearchInv, Analysis, AnalysisType, UsesRulesInForce
<1>3. CASE Enabled(i) /\ ~IsAssertion(rules[i])
  BY <1>2, <1>3 DEF EnabledRules, Enabled
<1>4. CASE \E k \in DOMAIN trail.q : LevelAt(k) = 1 /\ trail.why[k] = i
  <2>1. PICK k \in DOMAIN trail.q : LevelAt(k) = 1 /\ trail.why[k] = i
    BY <1>4
  <2>2. i > 0 /\ trail.q[k] \in Lits(i)
    <3>1. i > 0
      BY <1>2, RuleFacts DEF SearchInv
    <3>2. QED BY <2>1, <3>1, SearchFacts DEF TrailWhole, Reasons, Lits
  <2>3. QED BY <2>1, <2>2, HoldsIs DEF Lits
<1>5. QED BY <1>2, <1>3, <1>4 DEF Usable

\* What satisfies the rules resolved satisfies the learnt rule.
LEMMA LearntHolds ==
  ASSUME SearchInv, Learn, NEW S \in Worlds(Solvables), Satisfies(S, rules, an.why)
  PROVE  Holds(S, Clause) /\ (an.r = <<>> => TrueIn(S, an.p))
<1>1. an.done = TRUE /\ an.why # {} /\ pc = "analyze" /\ (an.r = <<>> => Range(an.r) = {})
  BY LearntFacts DEF Learn
<1>2. \E l \in {an.p} \cup Range(an.r) : TrueIn(S, l)
  BY <1>1 DEF SearchInv, DerivedFollows
<1>3. Range(Clause) = {an.p} \cup Range(an.r)
  BY LearnTrail
<1>4. Holds(S, Clause)
  BY <1>2, <1>3, HoldsIs
<1>5. an.r = <<>> => TrueIn(S, an.p)
  BY <1>1, <1>2
<1>6. QED BY <1>4, <1>5

\* The proofs of the learnt rules and of the problems are proofs.
LEMMA LearnKeepsProofs ==
  ASSUME SearchInv, Learn
  PROVE  ProofsEntail' /\ Problems'
<1>1. /\ New = Len(rules) + 1 /\ Len(rules) \in Nat
      /\ DOMAIN rules = 1..Len(rules) /\ DOMAIN rules' = 1..New
      /\ \A i \in 1..Len(rules) : rules'[i] = rules[i]
      /\ rules'[New] = [lits |-> Clause, area |-> "learnt", grp |-> 0, weak |-> FALSE,
                        why |-> an.why]
  BY LearnTrail DEF New
<1>2. \A S, R : R \subseteq DOMAIN rules => (Satisfies(S, rules', R) <=> Satisfies(S, rules, R))
  BY <1>1 DEF Satisfies
<1>3. ProofsEntail'
  <2>1. SUFFICES ASSUME NEW i \in DOMAIN rules', rules'[i].area = "learnt",
                        NEW S \in Worlds(Solvables), Satisfies(S, rules', rules'[i].why)
                 PROVE  Holds(S, rules'[i].lits)
    BY DEF ProofsEntail, Learnt, RulesIn, Entails
  <2>2. CASE i = New
    <3>1. rules'[i].lits = Clause /\ rules'[i].why = an.why
      BY <1>1, <2>2
    <3>2. an.why \subseteq DOMAIN rules
      BY LearntFacts DEF Learn
    <3>3. QED BY <1>2, <2>1, <3>1, <3>2, LearntHolds
  <2>3. CASE i # New
    <3>1. i \in DOMAIN rules /\ rules'[i] = rules[i]
      BY <1>1, <2>1, <2>3
    <3>2. rules[i].why \subseteq DOMAIN rules
      BY <1>1, <3>1 DEF SearchInv, RulesTyped
    <3>3. Satisfies(S, rules, rules[i].why)
      BY <1>2, <2>1, <3>1, <3>2
    <3>4. i \in Learnt(rules)
      BY <2>1, <3>1 DEF Learnt, RulesIn
    <3>5. Holds(S, rules[i].lits)
      BY <2>1, <3>3, <3>4 DEF SearchInv, ProofsEntail, Entails
    <3>6. QED BY <3>1, <3>5
  <2>4. QED BY <2>2, <2>3
<1>4. Problems'
  <2>1. problems' = problems
    BY LearnFrame
  <2>2. DOMAIN rules \subseteq DOMAIN rules'
    BY <1>1
  <2>3. \A k \in DOMAIN problems :
          problems[k].proof \subseteq DOMAIN rules /\ ~Satisfiable(Solvables, rules, problems[k].proof)
    BY DEF SearchInv, Problems
  <2>4. \A k \in DOMAIN problems : ~Satisfiable(Solvables, rules', problems[k].proof)
    BY <1>2, <2>3 DEF Satisfiable
  <2>5. QED BY <2>1, <2>2, <2>3, <2>4 DEF SearchInv, Problems
<1>5. QED BY <1>3, <1>4

\* While the extras are decided the solution there is satisfies the learnt rule
\* as well.
LEMMA LearnKeepsExtras ==
  ASSUME SearchInv, Learn
  PROVE  ExtrasHaveSolution'
<1> DEFINE c == Back
           k == Stay
           g == an.rlevel
           l == an.p
           n == New
<1>1. /\ ShrankTo(c, trail, rules, g, k) /\ GrewBy(trail', c, rules', l, n, g)
      /\ n = Len(rules) + 1 /\ Len(rules) \in Nat
      /\ DOMAIN rules = 1..Len(rules) /\ DOMAIN rules' = 1..n
      /\ \A i \in 1..Len(rules) : rules'[i] = rules[i]
      /\ rules'[n].lits = Clause
  BY LearnTrail DEF New
<1>2. pc = "analyze" /\ pc' = "propagate" /\ caller' = caller /\ disabled' = disabled
  BY LearnFrame
<1>3. g = 1 => an.r = <<>>
  <2>1. an.r # <<>> => \E x \in Range(an.r) : LevelOf(x) = g
    BY LearntFacts DEF Learn
  <2>2. \A x \in Range(an.r) : LevelOf(x) \in 2..g
    BY LearntFacts DEF Learn
  <2>3. QED BY <2>1, <2>2
<1> HIDE DEF c, k, g, l, n
<1>4. SUFFICES ASSUME InExtras' PROVE ExtrasHaveSolution'
  BY DEF ExtrasHaveSolution
<1>5. InExtras
  BY <1>2, <1>4 DEF InExtras, Extras, UncheckedCallers
<1>6. PICK S \in Worlds(Solvables) :
        /\ \A i \in EnabledRules : ~IsAssertion(rules[i]) => Holds(S, rules[i].lits)
        /\ \A j \in DOMAIN trail.q : LevelAt(j) = 1 => TrueIn(S, trail.q[j])
  BY <1>5 DEF SearchInv, ExtrasHaveSolution
<1>7. Holds(S, Clause) /\ (an.r = <<>> => TrueIn(S, l))
  BY <1>2, <1>6, WorldSatisfiesWhy, LearntHolds DEF l
<1>8. ASSUME NEW i \in EnabledRules', ~IsAssertion(rules'[i]) PROVE Holds(S, rules'[i].lits)
  <2>1. i \in 1..n /\ i \notin disabled
    BY <1>1, <1>2, <1>8 DEF EnabledRules
  <2>2. CASE i = n
    BY <1>1, <1>7, <2>2
  <2>3. CASE i # n
    <3>1. i \in 1..Len(rules) /\ rules'[i] = rules[i]
      BY <1>1, <2>1, <2>3
    <3>2. QED BY <1>1, <1>6, <1>8, <2>1, <3>1 DEF EnabledRules
  <2>4. QED BY <2>2, <2>3
<1>9. ASSUME NEW j \in DOMAIN trail'.q, LevelIn(trail', j) = 1 PROVE TrueIn(S, trail'.q[j])
  <2>1. k \in Nat /\ k \in 1..Len(trail.q) /\ DOMAIN trail.q = 1..Len(trail.q) /\ Len(c.q) = k
    BY <1>1, TrailFacts DEF ShrankTo
  <2>2. DOMAIN trail'.q = 1..(k + 1) /\ trail'.q[k + 1] = l /\ LevelIn(trail', k + 1) = g
    BY <1>1, <2>1 DEF GrewBy
  <2>3. CASE j = k + 1
    BY <1>3, <1>7, <1>9, <2>2, <2>3
  <2>4. CASE j # k + 1
    <3>1. j \in 1..k
      BY <1>9, <2>1, <2>2, <2>4
    <3>2. j \in DOMAIN trail.q
      BY <2>1, <3>1
    <3>3. trail'.q[j] = trail.q[j] /\ LevelIn(trail, j) = 1
      BY <1>1, <1>9, <2>1, <3>1 DEF ShrankTo, GrewBy
    <3>4. QED BY <1>6, <3>2, <3>3 DEF LevelAt
  <2>5. QED BY <2>3, <2>4
<1>10. QED BY <1>6, <1>8, <1>9 DEF ExtrasHaveSolution, LevelAt

\* The learnt rule is added and makes its first literal true.
LEMMA LearnKeeps ==
  ASSUME SearchInv, Learn
  PROVE  SearchInv'
<1>1. Phases' /\ Placed' = Placed
  BY LearnKeepsPhases
<1>2. Locals'
  <2>1. Len(rules') \in Nat /\ Len(rules) <= Len(rules')
    BY LearnTrail DEF New
  <2>2. in' = in /\ loc' = loc /\ pc \in Running
    BY LearnFrame DEF Running
  <2>3. QED BY <1>1, <2>1, <2>2, LocalsStay
<1>3. Analysis' /\ DerivedFollows' /\ UsesRulesInForce'
  BY LearnFrame, NotAnalysing
<1>4. QED BY <1>1, <1>2, <1>3, LearnRules, LearnKeepsWatches, LearnKeepsTrail, LearnKeepsBranches,
             LearnKeepsGuard, LearnKeepsProofs, LearnKeepsExtras DEF SearchInv

\* A conflict, from analysis to learning, or the report that there is none to
\* learn from.
LEMMA ConflictKeeps ==
  ASSUME SearchInv, ConflictStep
  PROVE  SearchInv'
BY DropWeakKeeps, ReportKeeps, HopelessKeeps, StartKeeps, RuleKeeps, CurrentKeeps, AssertingKeeps,
   Level1Keeps, LearnKeeps DEF ConflictStep

\* The rules the search starts with.
LEMMA InitRules ==
  ASSUME Init
  PROVE  /\ RulesTyped /\ Learnt(rules) = {}
         /\ \A i \in DOMAIN rules : \A j, k \in DOMAIN rules[i].lits :
              Var(rules[i].lits[j]) = Var(rules[i].lits[k]) => j = k
<1>1. in \in Inputs /\ rules = in.rules /\ ProblemFits(Solvables, in) /\ RulesFit(Solvables, rules)
  BY InputsAssumption DEF Init, WellFormed, ProblemFits
<1>2. RulesGrow
  BY InitInvariant DEF IInv
<1>3. /\ DOMAIN rules = 1..Len(rules) /\ Len(rules) \in Nat
      /\ \A i \in DOMAIN rules :
           /\ rules[i].lits \in Seq(Literals(Solvables)) /\ rules[i].lits # <<>>
           /\ rules[i].area \in DOMAIN AreaNumber /\ rules[i].why = {}
           /\ \A j, k \in DOMAIN rules[i].lits : Var(rules[i].lits[j]) = Var(rules[i].lits[k]) => j = k
  <2>1. /\ WellGrouped(rules)
        /\ \A i \in DOMAIN rules :
           /\ rules[i].lits \in Seq(Literals(Solvables)) /\ rules[i].lits # <<>>
           /\ rules[i].area \in DOMAIN AreaNumber /\ rules[i].why = {}
           /\ \A j, k \in DOMAIN rules[i].lits : Var(rules[i].lits[j]) = Var(rules[i].lits[k]) => j = k
    BY <1>1 DEF RulesFit
  <2>2. QED BY <1>1, <2>1 DEF WellGrouped
<1>4. DOMAIN AreaNumber \subseteq Areas \ {"learnt"}
  BY DEF AreaNumber, Areas
<1>5. disabled \subseteq DOMAIN rules
  <2> DEFINE clean   == CleanDeps(in, in.off)
             entries == DisableList(in, in.off, clean)
  <2>1. disabled = in.off \cup UNION {PolicyRules(in, e) : e \in entries}
    BY DEF Init
  <2>2. in.off \subseteq DOMAIN rules
    BY <1>1 DEF ProblemFits, RulesIn
  <2>3. EnabledJobs(in, in.off) \subseteq DOMAIN in.jobpolicy
    BY <1>1 DEF EnabledJobs, ProblemFits
  <2>4. clean \subseteq Range(in.installed)
    BY <1>1, <2>3 DEF CleanDeps, ProblemFits
  <2>5. entries \subseteq ({"update"} \X Range(in.installed)) \cup ({"infarch", "dup"} \X Nat)
    <3>1. \A j \in EnabledJobs(in, in.off) :
            in.jobpolicy[j] \subseteq
              ({"update"} \X Range(in.installed)) \cup ({"infarch", "dup"} \X Nat)
      BY <1>1, <2>3 DEF ProblemFits
    <3>2. {<<"update", p>> : p \in clean} \subseteq {"update"} \X Range(in.installed)
      BY <2>4
    <3>3. QED BY <3>1, <3>2 DEF DisableList
  <2> HIDE DEF clean, entries
  <2>6. ASSUME NEW e \in entries PROVE PolicyRules(in, e) \subseteq DOMAIN rules
    <3>1. CASE e[1] = "update"
      <4>1. e[2] \in Range(in.installed)
        BY <2>5, <2>6, <3>1
      <4>2. e[2] \in Solvables
        BY <1>1, <4>1 DEF ProblemFits
      <4>3. /\ in.upd[e[2]] \in RulesIn(in.rules, "update") \cup {0}
            /\ in.feat[e[2]] \in RulesIn(in.rules, "feature") \cup {0}
        BY <1>1, <4>2 DEF ProblemFits
      <4>4. QED BY <1>1, <3>1, <4>3 DEF PolicyRules, RulesIn
    <3>2. CASE e[1] # "update"
      BY <1>1, <3>2 DEF PolicyRules, RulesIn
    <3>3. QED BY <3>1, <3>2
  <2>7. QED BY <2>1, <2>2, <2>6
<1>6. QED BY <1>2, <1>3, <1>4, <1>5 DEF RulesTyped, Learnt, RulesIn

\* makewatches.
LEMMA InitWatches ==
  ASSUME Init
  PROVE  WatchesWhole
<1>1. /\ RulesTyped
      /\ \A i \in DOMAIN rules : \A j, k \in DOMAIN rules[i].lits :
           Var(rules[i].lits[j]) = Var(rules[i].lits[k]) => j = k
  BY InitRules
<1>2. w = FirstWatches(rules) /\ watches = Watches(rules, w)
  BY DEF Init
<1>3. /\ DOMAIN rules = 1..Len(rules) /\ Len(rules) \in Nat
      /\ \A i \in DOMAIN rules :
           /\ rules[i].lits \in Seq(Literals(Solvables))
           /\ Len(rules[i].lits) \in Nat /\ Len(rules[i].lits) > 0
           /\ DOMAIN rules[i].lits = 1..Len(rules[i].lits)
           /\ Lits(i) \subseteq Literals(Solvables)
           /\ \A l : l \in Lits(i) <=> \E k \in 1..Len(rules[i].lits) : rules[i].lits[k] = l
  BY <1>1, RuleFacts
<1>4. \A l \in Literals(Solvables) : l \in Int
  BY DEF Literals, Solvables
<1>5. ASSUME NEW i \in DOMAIN rules
      PROVE  /\ w[i] \in [1..2 -> Int]
             /\ ~IsAssertion(rules[i]) => w[i][1] \in Lits(i) /\ w[i][2] \in Lits(i) /\ w[i][1] # w[i][2]
  <2>1. 1 \in DOMAIN rules[i].lits /\ rules[i].lits[1] \in Lits(i) /\ rules[i].lits[1] \in Int
    <3>1. 1 \in 1..Len(rules[i].lits)
      BY <1>3
    <3>2. QED BY <1>3, <1>4, <3>1
  <2>2. CASE IsAssertion(rules[i])
    <3>1. w[i] = <<rules[i].lits[1], 0>>
      BY <1>2, <2>2 DEF FirstWatches
    <3>2. QED BY <2>1, <2>2, <3>1
  <2>3. CASE ~IsAssertion(rules[i])
    <3>1. w[i] = <<rules[i].lits[1], rules[i].lits[2]>>
      BY <1>2, <2>3 DEF FirstWatches
    <3>2. 2 \in DOMAIN rules[i].lits
      <4>1. Len(rules[i].lits) # 1
        BY <2>3 DEF IsAssertion
      <4>2. Len(rules[i].lits) \in Nat /\ Len(rules[i].lits) > 0 /\ DOMAIN rules[i].lits = 1..Len(rules[i].lits)
        BY <1>3
      <4>3. \A n \in Nat : n > 0 /\ n # 1 => 2 \in 1..n
        OBVIOUS
      <4>4. 2 \in 1..Len(rules[i].lits)
        BY <4>1, <4>2, <4>3, Zenon
      <4>5. QED BY <4>2, <4>4, Zenon
    <3>3. rules[i].lits[2] \in Lits(i) /\ rules[i].lits[2] \in Int
      BY <1>3, <1>4, <3>2
    <3>4. rules[i].lits[1] # rules[i].lits[2]
      BY <1>1, <2>1, <3>2
    <3>5. QED BY <2>1, <3>1, <3>3, <3>4
  <2>4. QED BY <2>2, <2>3
<1>6. w \in Seq([1..2 -> Int]) /\ Len(w) = Len(rules)
  <2>1. w = [i \in 1..Len(rules) |-> w[i]]
    BY <1>2, <1>3 DEF FirstWatches
  <2> DEFINE n == Len(rules)
  <2>2. n \in Nat /\ w = [i \in 1..n |-> w[i]] /\ \A i \in 1..n : w[i] \in [1..2 -> Int]
    BY <1>3, <1>5, <2>1
  <2> HIDE DEF n
  <2>3. w \in [1..n -> [1..2 -> Int]]
    BY <2>2
  <2>4. w \in Seq([1..2 -> Int]) /\ Len(w) = n
    BY <2>2, <2>3
  <2>5. QED BY <2>4 DEF n
<1>7. ASSUME NEW l \in Literals(Solvables)
      PROVE  /\ watches[l] \in Seq(Nat) /\ Range(watches[l]) = Watching(l)
             /\ \A j, k \in DOMAIN watches[l] : watches[l][j] = watches[l][k] => j = k
  <2> DEFINE s == [i \in DOMAIN rules |-> i]
             W == Watching(l)
             n == Len(rules)
  <2>1. watches[l] = Only(s, W)
    BY <1>2 DEF Watches, Watching
  <2>2. n \in Nat /\ s = [i \in 1..n |-> i] /\ W \subseteq 1..n
    BY <1>3 DEF Watching
  <2> HIDE DEF s, W, n
  <2>3. s \in [1..n -> Nat] /\ DOMAIN s = 1..n /\ \A i \in 1..n : s[i] = i
    BY <2>2
  <2>4. s \in Seq(Nat) /\ Range(s) = 1..n
    BY <2>2, <2>3 DEF Range
  <2>5. \A j, k \in DOMAIN s : s[j] = s[k] => j = k
    BY <2>3
  <2>6. /\ Only(s, W) \in Seq(Nat) /\ Range(Only(s, W)) = Range(s) \cap W
        /\ \A j, k \in DOMAIN Only(s, W) : Only(s, W)[j] = Only(s, W)[k] => j = k
    BY <2>4, <2>5, OnlyPicks
  <2>7. Range(s) \cap W = W
    BY <2>2, <2>4
  <2>8. QED BY <2>1, <2>6, <2>7 DEF W
<1>8. watches \in [Literals(Solvables) -> Seq(Nat)]
  <2>1. DOMAIN watches = Literals(Solvables) /\ watches = [l \in DOMAIN watches |-> watches[l]]
    BY <1>2 DEF Watches
  <2>2. QED BY <1>7, <2>1
<1>9. QED BY <1>5, <1>6, <1>7, <1>8 DEF WatchesWhole

\* Where the search starts.
LEMMA InitSearch ==
  ASSUME Init
  PROVE  SearchInv
<1>1. /\ trail = Decide(EmptyTrail(NSolvables), SYSTEMSOLVABLE, 0, 1)
      /\ propagate_index = 0 /\ branches = <<>> /\ recommendations = <<>> /\ problems = <<>>
      /\ pc = "assert" /\ level = 1 /\ systemlevel = 2 /\ caller = NoDecision /\ visit = 1
      /\ loc = NoLocals
  BY DEF Init
<1>2. RulesTyped /\ Learnt(rules) = {} /\ WatchesWhole
  BY InitRules, InitWatches
<1>3. /\ TrailWhole(trail, rules, NSolvables) /\ TopLevel(trail) = 1
      /\ trail.q = <<SYSTEMSOLVABLE>> /\ trail.why = <<0>>
  BY <1>1, <1>2, FreshWhole, SolvablesAssumption, RuleFacts
<1>4. DOMAIN trail.q = {1} /\ Len(trail.q) = 1 /\ \A k \in DOMAIN trail.q : ~(trail.why[k] > 0)
  BY <1>3
<1>5. TrailInv
  BY <1>1, <1>3, <1>4 DEF TrailInv, ReasonsInForce
<1>6. Phases
  <2>1. pc \in Running /\ pc \notin {"propagate", "analyze"}
        /\ pc \notin Resting \cup UncheckedCallers \cup SystemBacks \cup {"top"}
    BY <1>1 DEF Running, Resting, UncheckedCallers, SystemBacks, Extras
  <2>2. propagate_index \in 0..Len(trail.q) /\ visit \in Nat /\ level \in Nat /\ level # 0
    BY <1>1, <1>4
  <2>3. systemlevel \in 1..(NSolvables + 1)
    BY <1>1, SolvablesAssumption
  <2>4. /\ caller = [at |-> caller.at, olevel |-> caller.olevel, disablerules |-> caller.disablerules]
        /\ caller.at = "top" /\ caller.olevel = 1
    BY <1>1 DEF NoDecision
  <2>5. QED BY <1>1, <1>4, <2>1, <2>2, <2>3, <2>4 DEF Phases
<1>7. Locals
  <2>1. LocalsAt("top")
    <3>1. LocalsType(loc) /\ loc.installedpos = 1
      BY <1>1, SolvablesAssumption DEF NoLocals, LocalsType
    <3>2. QED BY <3>1 DEF LocalsAt
  <2>2. Placed = "top"
    BY <1>1 DEF Placed, Running, NoDecision
  <2>3. QED BY <1>6, <2>1, <2>2, LocalsPlaced
<1>8. Branches
  <2>1. <<>> \in Seq(BranchType) /\ DOMAIN <<>> = {}
    OBVIOUS
  <2>2. BranchesAt(branches, trail.map, level)
    BY <1>1, <2>1 DEF BranchesAt
  <2>3. QED BY <2>2, BranchesAre
<1>9. Recommendations
  <2>1. RecommendedAt(recommendations, trail.q)
    BY <1>1, NoneRecommended
  <2>2. QED BY <1>1, <2>1, RecommendationsAre DEF RecommendationsPlaced
<1>10. WatchesGuard
  <2>1. ~\E k \in 1..0 : TRUE
    OBVIOUS
  <2>2. QED BY <1>1, <2>1 DEF WatchesGuard, Noticed
<1>11. ExtrasHaveSolution
  BY <1>1 DEF ExtrasHaveSolution, InExtras, Extras, UncheckedCallers
<1>12. Analysis /\ DerivedFollows /\ UsesRulesInForce
  BY <1>1 DEF Analysis, DerivedFollows, UsesRulesInForce
<1>13. ProofsEntail
  BY <1>2 DEF ProofsEntail
<1>14. Problems
  <2>1. problems \in Seq(Range(problems)) /\ DOMAIN problems = {}
    BY <1>1
  <2>2. QED BY <2>1 DEF Problems
<1>15. QED BY <1>2, <1>5, <1>6, <1>7, <1>8, <1>9, <1>10, <1>11, <1>12, <1>13, <1>14 DEF SearchInv

\* Nothing moves, at the end or between two steps.
LEMMA StutterKeeps ==
  ASSUME SearchInv, Terminated \/ UNCHANGED vars
  PROVE  SearchInv'
<1>1. UNCHANGED vars
  BY DEF Terminated
<1>2. /\ in' = in /\ rules' = rules /\ w' = w /\ watches' = watches /\ disabled' = disabled
      /\ problems' = problems /\ trail' = trail /\ propagate_index' = propagate_index
      /\ branches' = branches /\ recommendations' = recommendations /\ pc' = pc /\ level' = level
      /\ systemlevel' = systemlevel /\ caller' = caller /\ visit' = visit /\ an' = an /\ loc' = loc
  BY <1>1 DEF vars, ruleVars, searchVars
<1>3. RulesTyped' /\ WatchesWhole' /\ ProofsEntail' /\ Problems'
  BY <1>2, StandingStays DEF SearchInv, Standing, ruleVars
<1>4. TrailInv'
  BY <1>2 DEF SearchInv, TrailInv, ReasonsInForce, LevelAt, Enabled
<1>5. Phases'
  BY <1>2 DEF SearchInv, Phases, LevelAt, Propagated
<1>6. Locals'
  BY <1>2 DEF SearchInv, Locals, NInstalled, At
<1>7. Analysis'
  <2>1. \A l : LevelOf(l)' = LevelOf(l) /\ (Undecided(l)' <=> Undecided(l)) /\ (Waiting(l)' <=> Waiting(l))
    BY <1>2 DEF LevelOf, Undecided, Waiting
  <2>2. \A lev : SeenAt(lev)' = SeenAt(lev) /\ (Resolving(lev)' <=> Resolving(lev))
    BY <1>2 DEF SeenAt, Resolving, LevelAt, LevelOf
  <2>3. \A i : Lits(i)' = Lits(i)
    BY <1>2 DEF Lits
  <2>4. /\ Starting' <=> Starting
        /\ AtCurrent' <=> AtCurrent
        /\ AtGround' <=> AtGround
        /\ Analysed' <=> Analysed
    BY <1>2, <2>1, <2>2, <2>3 DEF Starting, AtCurrent, AtGround, Analysed
  <2>5. AnalysisType(an)' <=> AnalysisType(an)
    BY <1>2 DEF AnalysisType
  <2>6. QED BY <1>2, <2>1, <2>4, <2>5 DEF SearchInv, Analysis
<1>8. Branches' /\ Recommendations'
  BY <1>2 DEF SearchInv, Branches, Recommendations, RecommendationsOnTrail, Undecided, LevelOf
<1>9. WatchesGuard'
  BY <1>2 DEF SearchInv, WatchesGuard, EnabledRules, Noticed, LevelOf
<1>10. DerivedFollows' /\ UsesRulesInForce'
  BY <1>2 DEF SearchInv, DerivedFollows, Derived, FalseLit, Installed, UsesRulesInForce, Usable, Enabled, LevelAt
<1>11. ExtrasHaveSolution'
  BY <1>2 DEF SearchInv, ExtrasHaveSolution, InExtras, EnabledRules, LevelAt
<1>12. QED BY <1>3, <1>4, <1>5, <1>6, <1>7, <1>8, <1>9, <1>10, <1>11 DEF SearchInv

\* SearchInv holds in every state.
LEMMA SearchInvariant == Spec => []SearchInv
<1>1. Init => SearchInv
  BY InitSearch
<1>2. SearchInv /\ [Next]_vars => SearchInv'
  <2> SUFFICES ASSUME SearchInv, [Next]_vars
               PROVE  SearchInv'
    OBVIOUS
  <2>1. CASE AssertStep
    BY <2>1, AssertKeeps
  <2>2. CASE PropagateStep
    BY <2>2, PropagateKeeps
  <2>3. CASE ConflictStep
    BY <2>3, ConflictKeeps
  <2>4. CASE SystemStep \/ ExtraStep
    BY <2>4, MainKeeps
  <2>5. CASE Terminated \/ UNCHANGED vars
    BY <2>5, StutterKeeps
  <2>6. QED BY <2>1, <2>2, <2>3, <2>4, <2>5 DEF Next
<1>3. QED BY <1>1, <1>2, PTL DEF Spec

\* The trail is one assignment, sorted by level, with a reason for each forced
\* decision that rests on decisions before it, in every state of the search.
THEOREM SearchKeepsTrail == Spec => []TrailSound
<1>1. SearchInv => TrailSound
  <2> SUFFICES ASSUME SearchInv PROVE TrailSound
    OBVIOUS
  <2>1. RulesTyped /\ WatchesWhole /\ TrailWhole(trail, rules, NSolvables)
    BY SearchFacts DEF SearchInv
  <2>2. TrailConsistent /\ ReasonsPrecede /\ TrailType(trail, NSolvables)
    BY <2>1 DEF TrailWhole, Reasons, TrailConsistent, ReasonsPrecede, Lits
  <2>3. /\ DOMAIN rules = 1..Len(rules) /\ Len(rules) \in Nat /\ Len(in.rules) \in Nat
        /\ \A i \in DOMAIN rules : /\ Lits(i) \subseteq Literals(Solvables)
                                   /\ rules[i].area \in Areas
                                   /\ rules[i].why \subseteq 1..(i - 1)
        /\ disabled \subseteq DOMAIN rules /\ Len(rules) >= Len(in.rules)
    BY <2>1, RuleFacts DEF RulesTyped, RulesGrow
  <2>4. DOMAIN w = DOMAIN rules
    BY <2>1, <2>3 DEF WatchesWhole
  <2>5. watches \in [Literals(Solvables) -> Seq(DOMAIN rules)]
    <3>1. DOMAIN watches = Literals(Solvables) /\ watches = [l \in DOMAIN watches |-> watches[l]]
      BY <2>1 DEF WatchesWhole
    <3>2. ASSUME NEW l \in Literals(Solvables) PROVE watches[l] \in Seq(DOMAIN rules)
      <4> DEFINE q == watches[l]
      <4>1. q \in Seq(Nat) /\ Range(q) = Watching(l)
        BY <2>1 DEF WatchesWhole
      <4>2. Range(q) \subseteq DOMAIN rules
        BY <4>1 DEF Watching
      <4> HIDE DEF q
      <4>3. \A k \in 1..Len(q) : q[k] \in DOMAIN rules
        BY <4>1, <4>2, RangeFacts
      <4>4. q \in Seq(DOMAIN rules)
        BY <4>1, <4>3
      <4>5. QED BY <4>4 DEF q
    <3>3. QED BY <3>1, <3>2
  <2>6. propagate_index \in 0..Len(trail.q) /\ systemlevel \in 1..NSolvables + 2
        /\ level \in 0..NSolvables + 1
    <3>1. /\ propagate_index \in 0..Len(trail.q) /\ systemlevel \in 1..(NSolvables + 1)
          /\ level \in Nat /\ level <= NSolvables /\ NSolvables \in Nat
      BY SearchFacts DEF SearchInv, Phases
    <3>2. QED BY <3>1
  <2>7. \A b \in DOMAIN branches : Range(branches[b].alts) \subseteq Solvables
    BY BranchFacts
  <2>8. recommendations \in Seq(Solvables)
    BY DEF SearchInv, Recommendations
  <2>9. QED BY <2>2, <2>3, <2>4, <2>5, <2>6, <2>7, <2>8 DEF TrailSound, TypeOK
<1>2. QED BY <1>1, SearchInvariant, PTL

\* A finite set with two elements has more than one.
LEMMA MoreThanOne ==
  ASSUME NEW S, IsFiniteSet(S), NEW x \in S, NEW y \in S, x # y
  PROVE  Cardinality(S) > 1
<1>1. Cardinality({x, y}) = 2
  <2>1. IsFiniteSet({x}) /\ Cardinality({x}) = 1
    BY FS_Singleton
  <2>2. Cardinality({x} \cup {y}) = Cardinality({x}) + 1
    BY <2>1, FS_AddElement
  <2>3. {x, y} = {x} \cup {y}
    OBVIOUS
  <2>4. QED BY <2>1, <2>2, <2>3
<1>2. Cardinality({x, y}) <= Cardinality(S) /\ Cardinality(S) \in Nat
  BY FS_Subset, FS_CardinalityType
<1>3. QED BY <1>1, <1>2

\* When propagation has ended every rule in force is true or has two literals
\* left, the watches will tell of what comes next, also after decisions were
\* undone, and the lists of watches are whole.
THEOREM PropagationIsSound == Spec => []PropagationSound
<1>1. SearchInv => PropagationSound
  <2> SUFFICES ASSUME SearchInv PROVE PropagationSound
    OBVIOUS
  <2>1. AtRest => level > 0 /\ Propagated /\ visit = 0
    BY DEF AtRest, Searching, Propagated, SearchInv, Phases, Running
  <2>2. WatchesSurviveRevert
    BY <2>1, PropagatedGuard DEF WatchesSurviveRevert
  <2>3. PropagationComplete
    <3>1. SUFFICES ASSUME AtRest, NEW i \in EnabledRules, ~IsAssertion(rules[i]),
                          ~\E l \in Lits(i) : IsTrue(trail.map, l)
                   PROVE  Cardinality({l \in Lits(i) : IsUndef(trail.map, l)}) > 1
      BY DEF PropagationComplete
    <3> DEFINE U == {l \in Lits(i) : IsUndef(trail.map, l)}
    <3>2. i \in DOMAIN rules
      BY <3>1 DEF EnabledRules
    <3>3. ASSUME NEW a \in {1, 2} PROVE w[i][a] \in U
      <4>1. /\ w[i][a] \in Lits(i) /\ w[i][a] \in Literals(Solvables)
            /\ w[i][3 - a] \in Lits(i)
        BY <3>1, <3>2, WatchFacts
      <4>2. ~IsFalse(trail.map, w[i][a])
        BY <2>1, <3>1, <4>1, PropagatedGuard
      <4>3. ~IsTrue(trail.map, w[i][a])
        BY <3>1, <4>1
      <4>4. QED BY <4>1, <4>2, <4>3, TrailFacts
    <3>4. w[i][1] # w[i][2]
      BY <3>1, <3>2 DEF SearchInv, WatchesWhole
    <3>5. IsFiniteSet(U)
      <4>1. Lits(i) \subseteq (-NSolvables)..NSolvables
        <5>1. Lits(i) \subseteq Literals(Solvables)
          BY <3>2, RuleFacts DEF SearchInv
        <5>2. Literals(Solvables) \subseteq (-NSolvables)..NSolvables
          BY SolvablesAssumption DEF Literals, Solvables
        <5>3. QED BY <5>1, <5>2
      <4>2. IsFiniteSet((-NSolvables)..NSolvables)
        BY SolvablesAssumption, FS_Interval
      <4>3. U \subseteq (-NSolvables)..NSolvables
        BY <4>1
      <4>4. QED BY <4>2, <4>3, FS_Subset
    <3> HIDE DEF U
    <3>6. Cardinality(U) > 1
      BY <3>3, <3>4, <3>5, MoreThanOne
    <3>7. QED BY <3>6 DEF U
  <2>4. WatchListsWhole
    <3>1. SUFFICES ASSUME NEW i \in DOMAIN rules, NEW l \in Literals(Solvables)
                   PROVE  Cardinality({k \in DOMAIN watches[l] : watches[l][k] = i}) =
                            IF ~IsAssertion(rules[i]) /\ l \in Range(w[i]) THEN 1 ELSE 0
      BY DEF WatchListsWhole
    <3> DEFINE K == {k \in DOMAIN watches[l] : watches[l][k] = i}
    <3>2. /\ Range(watches[l]) = Watching(l)
          /\ \A j, k \in DOMAIN watches[l] : watches[l][j] = watches[l][k] => j = k
          /\ w[i] \in [1..2 -> Int]
      <4>1. w \in Seq([1..2 -> Int]) /\ Len(w) = Len(rules) /\ DOMAIN rules = 1..Len(rules)
        BY RuleFacts DEF SearchInv, WatchesWhole
      <4>2. QED BY <4>1 DEF SearchInv, WatchesWhole
    <3>3. Range(w[i]) = {w[i][1], w[i][2]}
      BY <3>2 DEF Range
    <3>4. i \in Watching(l) <=> ~IsAssertion(rules[i]) /\ l \in Range(w[i])
      BY <3>3 DEF Watching
    <3>5. CASE i \in Watching(l)
      <4>1. PICK k \in DOMAIN watches[l] : watches[l][k] = i
        BY <3>2, <3>5 DEF Range
      <4>2. K = {k}
        BY <3>2, <4>1
      <4>3. Cardinality(K) = 1
        BY <4>2, FS_Singleton
      <4>4. QED BY <3>4, <3>5, <4>3
    <3>6. CASE i \notin Watching(l)
      <4>1. K = {}
        BY <3>2, <3>6 DEF Range
      <4>2. Cardinality(K) = 0
        BY <4>1, FS_EmptySet
      <4>3. QED BY <3>4, <3>6, <4>2
    <3>7. QED BY <3>5, <3>6
  <2>5. QED BY <2>2, <2>3, <2>4 DEF PropagationSound
<1>2. QED BY <1>1, SearchInvariant, PTL

\* The rules recorded as the proof of a learnt rule imply it.
THEOREM LearntRulesFollow == Spec => []ProofsEntail
<1>1. SearchInv => ProofsEntail
  BY DEF SearchInv
<1>2. QED BY <1>1, SearchInvariant, PTL

\* The rules kept as the proof of a problem contradict one another.
THEOREM ProblemsAreProblems == Spec => []ProblemProofsHold
<1>1. SearchInv => ProblemProofsHold
  BY DEF SearchInv, Problems, ProblemProofsHold
<1>2. QED BY <1>1, SearchInvariant, PTL

\* What is decided for the extras, weak dependencies, orphans and branches, is
\* decided upon a solution: nothing becomes unsolvable on the way, the branches
\* are where they were opened, and the recommendations are on the trail.
THEOREM ExtrasAreSound == Spec => []ExtrasSound
<1>1. SearchInv => ExtrasSound
  <2> SUFFICES ASSUME SearchInv PROVE ExtrasSound
    OBVIOUS
  <2>1. ExtrasSolvable
    BY DEF SearchInv, Phases, ExtrasSolvable
  <2>2. AlternativesFresh /\ RecommendationsOnTrail
    BY DEF SearchInv, Branches, Recommendations, AlternativesFresh
  <2>3. BranchesOpen
    <3>1. SUFFICES ASSUME NEW b \in DOMAIN branches
                   PROVE  /\ b > 1 => branches[b - 1].level < branches[b].level
                          /\ LET k == Kept(trail, branches[b].level) + 1
                             IN  k <= Len(trail.q) /\ trail.why[k] <= 0
      BY DEF BranchesOpen
    <3>2. /\ Len(branches) \in Nat /\ DOMAIN branches = 1..Len(branches) /\ b \in 1..Len(branches)
          /\ \A c \in 1..Len(branches) : branches[c].level \in 1..(level - 1)
          /\ \A a, c \in 1..Len(branches) : a < c => branches[a].level < branches[c].level
      BY <3>1, BranchFacts
    <3>3. b > 1 => branches[b - 1].level < branches[b].level
      <4>1. b > 1 => b - 1 \in 1..Len(branches) /\ b - 1 < b
        BY <3>2
      <4>2. QED BY <3>2, <4>1
    <3>4. level \in Nat /\ level = TopLevel(trail) /\ TrailWhole(trail, rules, NSolvables) /\ NSolvables \in Nat
      <4>1. level # 0 /\ level \in Nat
        BY <3>2, SearchFacts
      <4>2. QED BY <4>1, SearchFacts
    <3> DEFINE g == branches[b].level
               k == Kept(trail, g)
    <3>5. g \in 1..TopLevel(trail) /\ g < TopLevel(trail)
      BY <3>2, <3>4
    <3> HIDE DEF g
    <3>6. k \in 1..Len(trail.q) /\ k < Len(trail.q) /\ trail.why[k + 1] <= 0
      BY <3>4, <3>5, KeptFacts
    <3> HIDE DEF k
    <3>7. k + 1 <= Len(trail.q)
      BY <3>6, TrailFacts
    <3>8. QED BY <3>3, <3>6, <3>7 DEF g, k
  <2>4. QED BY <2>1, <2>2, <2>3 DEF ExtrasSound
<1>2. QED BY <1>1, SearchInvariant, PTL
=============================================================================
