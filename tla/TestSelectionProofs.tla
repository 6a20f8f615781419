------------------------- MODULE TestSelectionProofs -------------------------
(***************************************************************************)
(* What TestSelection says of the pattern rules, for every command line    *)
(* and any number of definitions and patterns: the walk's invariant is a   *)
(* loop invariant over prefixes of the list of patterns.                   *)
(***************************************************************************)
EXTENDS TestSelection, FiniteSetTheorems, TLAPS

(* One more pattern decides alone if it matches and changes nothing if not: *)
(* this is "the last matching glob wins".                                   *)
LEMMA OneMorePattern ==
    ASSUME NEW d, NEW k \in Nat, NEW n
    PROVE  IF TestDefMatch(d, patterns[k + 1])
           THEN /\ Selected(d, k + 1) <=> Includes(patterns[k + 1])
                /\ QueueNumAfter(d, k + 1, n) <=> n = SplitQueueNum(patterns[k + 1])
           ELSE /\ Selected(d, k + 1) <=> Selected(d, k)
                /\ QueueNumAfter(d, k + 1, n) <=> QueueNumAfter(d, k, n)
<1>1. CASE TestDefMatch(d, patterns[k + 1])
  <2>1. LastMatch(d, k + 1, k + 1)
    BY <1>1 DEF LastMatch
  <2>2. \A i \in 1 .. k + 1 : LastMatch(d, i, k + 1) => i = k + 1
    BY <1>1 DEF LastMatch
  <2>3. ~NoMatch(d, k + 1)
    BY <1>1 DEF NoMatch
  <2> QED
    BY <1>1, <2>1, <2>2, <2>3 DEF Selected, QueueNumAfter
<1>2. CASE ~TestDefMatch(d, patterns[k + 1])
  <2>1. \A i : LastMatch(d, i, k + 1) <=> LastMatch(d, i, k)
    <3> SUFFICES ASSUME NEW i PROVE LastMatch(d, i, k + 1) <=> LastMatch(d, i, k)
      OBVIOUS
    <3>1. LastMatch(d, i, k + 1) => i \in 1 .. k
      BY <1>2 DEF LastMatch
    <3>2. LastMatch(d, i, k) => i \in 1 .. k
      BY DEF LastMatch
    <3>3. i \in 1 .. k => i + 1 .. k + 1 = (i + 1 .. k) \cup {k + 1}
      OBVIOUS
    <3> QED
      BY <1>2, <3>1, <3>2, <3>3 DEF LastMatch
  <2>2. NoMatch(d, k + 1) <=> NoMatch(d, k)
    BY <1>2 DEF NoMatch
  <2>3. \A i : LastMatch(d, i, k) => i \in 1 .. k
    BY DEF LastMatch
  <2> QED
    BY <1>2, <2>1, <2>2, <2>3 DEF Selected, QueueNumAfter
<1> QED
  BY <1>1, <1>2

(* Before any pattern is tried, only the implied one counts.                *)
LEMMA NoPattern ==
    ASSUME NEW d, NEW n
    PROVE  /\ Selected(d, 0) <=> ImplicitAll /\ MatchesStar(d)
           /\ QueueNumAfter(d, 0, n) <=> n = NoPref
BY DEF Selected, QueueNumAfter, LastMatch, NoMatch

(* The rules depend on the command line alone.                              *)
LEMMA RulesUnchanged ==
    ASSUME UNCHANGED cmdline, NEW d, NEW k, NEW n
    PROVE  /\ Len(patterns)' = Len(patterns)
           /\ Selected(d, k)' <=> Selected(d, k)
           /\ QueueNumAfter(d, k, n)' <=> QueueNumAfter(d, k, n)
BY DEF Selected, QueueNumAfter, LastMatch, NoMatch, ImplicitAll, patterns, TestDefMatch,
       MatchesStar, GlobIsNegative, SplitQueueNum, Includes

-----------------------------------------------------------------------------
LEMMA PatternTypes ==
    ASSUME TypeOK
    PROVE  /\ patterns \in Seq(Pattern)
           /\ Len(patterns) \in Nat
           /\ \A i \in 1 .. Len(patterns) : patterns[i] \in Pattern
<1>1. patterns \in Seq(Pattern)
  BY DEF TypeOK, CommandLine, patterns
<1> QED
  BY <1>1

LEMMA SplitType ==
    ASSUME NEW p \in Pattern
    PROVE  SplitQueueNum(p) \in QueueNum
<1>1. p.suffix \in Int
  BY DEF Pattern, NoSuffix
<1> QED
  BY <1>1, RunnerDefsAssumption DEF SplitQueueNum, QueueNum, NoPref, InvalidPref

LEMMA InitTypeOK == Init => TypeOK
<1> SUFFICES ASSUME Init PROVE TypeOK
  OBVIOUS
<1>1. cmdline \in CommandLine
  BY SelectionAssumption DEF Init
<1>2. Len(patterns) \in Nat
  BY <1>1 DEF CommandLine, patterns
<1>3. 0 \in QueueNum
  BY RunnerDefsAssumption DEF QueueNum, InvalidPref
<1>4. 1 \in 1 .. NumDefs + 1
  BY SelectionAssumption
<1>5. NoOpts \in RunnerOpts
  BY DEF NoOpts, RunnerOpts
<1>6. queue_num \in [Def -> QueueNum]
  BY <1>3 DEF Init
<1>7. next_glob \in 0 .. Len(patterns) + 1
  BY <1>2 DEF Init
<1> QED
  BY <1>1, <1>4, <1>5, <1>6, <1>7 DEF Init, TypeOK

LEMMA NextTypeOK == TypeOK /\ [Next]_vars => TypeOK'
<1> SUFFICES ASSUME TypeOK, [Next]_vars PROVE TypeOK'
  OBVIOUS
<1> USE DEF TypeOK
<1>0. Len(patterns) \in Nat /\ \A i \in 1 .. Len(patterns) : patterns[i] \in Pattern
  BY PatternTypes
<1>1. CASE ParseArgs
  BY <1>1 DEF ParseArgs, walk, patterns
<1>2. CASE InitRunner
  <2>1. NumJobs \in Nat \ {0}
    <3>1. cmdline.jobs \in Nat
      BY DEF CommandLine
    <3> QED
      BY <3>1, SelectionAssumption DEF NumJobs
  <2>2. cmdline.isolation \in {"process", "thread"} /\ cmdline.timeout \in BOOLEAN
    BY DEF CommandLine
  <2>3. runner_opts' \in RunnerOpts
    <3>1. [isolation |-> cmdline.isolation, no_fork |-> ~ForkMode, jobs |-> NumJobs,
           timeout |-> ForkMode /\ cmdline.timeout] \in RunnerOpts
      BY <2>1, <2>2 DEF RunnerOpts, ForkMode, OneTest
    <3> QED
      BY <1>2, <3>1 DEF InitRunner
  <2>4. queue_num' \in [Def -> QueueNum]
    BY <1>2, RunnerDefsAssumption DEF InitRunner, QueueNum, NoPref, InvalidPref
  <2> QED
    BY <1>2, <2>3, <2>4 DEF InitRunner, patterns
<1>3. CASE TryImplied
  BY <1>0, <1>3 DEF TryImplied, patterns
<1>4. CASE TryGlob
  <2>1. patterns[next_glob] \in Pattern
    BY <1>4, <1>0 DEF TryGlob, Trying
  <2>2. queue_num' \in [Def -> QueueNum]
    BY <1>4, <2>1, SplitType DEF TryGlob, Trying
  <2>3. enable' \in BOOLEAN
    BY <1>4 DEF TryGlob, Includes
  <2>4. next_glob' \in 0 .. Len(patterns)' + 1
    BY <1>4, <1>0 DEF TryGlob, Trying, patterns
  <2> QED
    BY <1>4, <2>2, <2>3, <2>4 DEF TryGlob
<1>5. CASE EndTurn
  <2>1. def' \in 1 .. NumDefs + 1
    BY <1>5, SelectionAssumption DEF EndTurn, Def
  <2>2. next_glob' \in 0 .. Len(patterns)' + 1
    BY <1>0, <1>5 DEF EndTurn, patterns
  <2>3. enabled' \subseteq Def /\ runner_num_tests' \in Nat
    <3>1. enabled' \in {enabled, enabled \cup {def}} /\ def \in Def
      BY <1>5 DEF EndTurn
    <3>2. runner_num_tests' \in {runner_num_tests, runner_num_tests + 1}
      BY <1>5 DEF EndTurn
    <3> QED
      BY <3>1, <3>2
  <2> QED
    BY <1>5, <2>1, <2>2, <2>3 DEF EndTurn
<1>6. CASE EndWalk
  BY <1>6 DEF EndWalk, walk, patterns
<1>7. CASE UNCHANGED vars
  BY <1>7 DEF vars, walk, patterns
<1> QED
  BY <1>1, <1>2, <1>3, <1>4, <1>5, <1>6, <1>7 DEF Next, Done

(* The types of all variables, for every command line.                      *)
THEOREM TypeCorrect == Spec => []TypeOK
BY InitTypeOK, NextTypeOK, PTL DEF Spec

-----------------------------------------------------------------------------
LEMMA NextWalkInv == TypeOK /\ WalkInv /\ [Next]_vars => WalkInv'
<1> SUFFICES ASSUME TypeOK, WalkInv, [Next]_vars PROVE WalkInv'
  OBVIOUS
<1> DEFINE n == Len(patterns)
<1>0. /\ n \in Nat /\ next_glob \in 0 .. n + 1
      /\ def \in 1 .. NumDefs + 1 /\ NumDefs \in Nat
      /\ enabled \subseteq Def /\ runner_num_tests \in Nat
      /\ queue_num \in [Def -> QueueNum]
  BY PatternTypes, SelectionAssumption DEF TypeOK
<1>u. UNCHANGED cmdline
  BY DEF Next, Done, ParseArgs, InitRunner, TryImplied, TryGlob, EndTurn, EndWalk, vars
<1>w. /\ pc \notin {"enable", "run"} =>
            def = 1 /\ next_glob = 0 /\ enabled = {} /\ runner_num_tests = 0
      /\ pc = "run" => def = NumDefs + 1
      /\ enabled \subseteq 1 .. def - 1 /\ runner_num_tests = Cardinality(enabled)
      /\ pc \in {"enable", "run"} =>
            /\ \A d \in 1 .. def - 1 :
                  /\ d \in enabled <=> Selected(d, n)
                  /\ QueueNumAfter(d, n, queue_num[d])
            /\ \A d \in def + 1 .. NumDefs : queue_num[d] = NoPref
            /\ def \in Def =>
                  IF next_glob = 0 THEN queue_num[def] = NoPref
                  ELSE /\ enable <=> Selected(def, next_glob - 1)
                       /\ QueueNumAfter(def, next_glob - 1, queue_num[def])
  BY DEF WalkInv
(* The same of the next state, where the rules have not changed.            *)
<1>s. SUFFICES
      /\ pc' \notin {"enable", "run"} =>
            def' = 1 /\ next_glob' = 0 /\ enabled' = {} /\ runner_num_tests' = 0
      /\ pc' = "run" => def' = NumDefs + 1
      /\ enabled' \subseteq 1 .. def' - 1 /\ runner_num_tests' = Cardinality(enabled')
      /\ pc' \in {"enable", "run"} =>
            /\ \A d \in 1 .. def' - 1 :
                  /\ d \in enabled' <=> Selected(d, n)
                  /\ QueueNumAfter(d, n, queue_num'[d])
            /\ \A d \in def' + 1 .. NumDefs : queue_num'[d] = NoPref
            /\ def' \in Def =>
                  IF next_glob' = 0 THEN queue_num'[def'] = NoPref
                  ELSE /\ enable' <=> Selected(def', next_glob' - 1)
                       /\ QueueNumAfter(def', next_glob' - 1, queue_num'[def'])
  BY <1>u DEF WalkInv, Selected, QueueNumAfter, LastMatch, NoMatch, ImplicitAll, patterns,
              TestDefMatch, MatchesStar, GlobIsNegative, SplitQueueNum, Includes
<1>1. CASE ParseArgs
  BY <1>0, <1>1, <1>w DEF ParseArgs, walk
<1>2. CASE InitRunner
  BY <1>0, <1>2, <1>w DEF InitRunner, Def
<1>3. CASE TryImplied
  <2>1. enable' <=> Selected(def, 0)
    BY <1>3, NoPattern DEF TryImplied
  <2>2. QueueNumAfter(def, 0, queue_num[def])
    BY <1>3, <1>w, NoPattern DEF TryImplied
  <2> QED
    BY <1>0, <1>3, <1>w, <2>1, <2>2 DEF TryImplied
<1>4. CASE TryGlob
  <2> DEFINE p == patterns[next_glob]
  <2>0. /\ def \in Def /\ next_glob \in 1 .. n /\ next_glob - 1 \in Nat
        /\ next_glob - 1 + 1 = next_glob
    BY <1>0, <1>4 DEF TryGlob, Trying
  <2>1. CASE TestDefMatch(def, p)
    <3>1. enable' = Includes(p) /\ queue_num'[def] = SplitQueueNum(p)
      BY <1>0, <1>4, <2>0, <2>1 DEF TryGlob
    <3> DEFINE k == next_glob - 1
    <3>k. k \in Nat /\ k + 1 = next_glob
      BY <2>0
    <3>o. /\ Selected(def, k + 1) <=> Includes(patterns[k + 1])
          /\ QueueNumAfter(def, k + 1, queue_num'[def])
                <=> queue_num'[def] = SplitQueueNum(patterns[k + 1])
      <4>1. TestDefMatch(def, patterns[k + 1])
        BY <2>1, <3>k
      <4> HIDE DEF k
      <4> QED
        BY <3>k, <4>1, OneMorePattern
    <3>2. Selected(def, next_glob) <=> Includes(p)
      BY <3>k, <3>o
    <3>3. QueueNumAfter(def, next_glob, queue_num'[def])
      BY <3>1, <3>k, <3>o
    <3>4. \A d \in Def \ {def} : queue_num'[d] = queue_num[d]
      BY <1>0, <1>4, <2>0, <2>1 DEF TryGlob
    <3> QED
      BY <1>0, <1>4, <1>w, <2>0, <3>1, <3>2, <3>3, <3>4 DEF TryGlob, Trying, Def
  <2>2. CASE ~TestDefMatch(def, p)
    <3>1. enable' = enable /\ queue_num' = queue_num
      BY <1>4, <2>2 DEF TryGlob
    <3> DEFINE k == next_glob - 1
    <3>k. k \in Nat /\ k + 1 = next_glob
      BY <2>0
    <3>o. /\ Selected(def, k + 1) <=> Selected(def, k)
          /\ QueueNumAfter(def, k + 1, queue_num[def]) <=> QueueNumAfter(def, k, queue_num[def])
      <4>1. ~TestDefMatch(def, patterns[k + 1])
        BY <2>2, <3>k
      <4> HIDE DEF k
      <4> QED
        BY <3>k, <4>1, OneMorePattern
    <3>2. Selected(def, next_glob) <=> Selected(def, next_glob - 1)
      BY <3>k, <3>o
    <3>3. QueueNumAfter(def, next_glob, queue_num[def])
      <4>1. QueueNumAfter(def, k, queue_num[def])
        BY <1>4, <1>w, <2>0 DEF TryGlob, Trying
      <4> QED
        BY <3>k, <3>o, <4>1
    <3> QED
      BY <1>0, <1>4, <1>w, <2>0, <3>1, <3>2, <3>3 DEF TryGlob, Trying
  <2> QED
    BY <2>1, <2>2
<1>5. CASE EndTurn
  <2>1. def \in Def /\ next_glob = n + 1 /\ next_glob - 1 = n
    BY <1>0, <1>5 DEF EndTurn
  <2>2. (enable <=> Selected(def, n)) /\ QueueNumAfter(def, n, queue_num[def])
    BY <1>0, <1>5, <1>w, <2>1 DEF EndTurn
  <2>3. def' = def + 1 /\ 1 .. def' - 1 = (1 .. def - 1) \cup {def} /\ def \notin 1 .. def - 1
    BY <1>0, <1>5 DEF EndTurn
  <2>4. \A d \in 1 .. def' - 1 : d \in enabled' <=> Selected(d, n)
    BY <1>0, <1>5, <1>w, <2>2, <2>3 DEF EndTurn
  <2>5. enabled' \subseteq 1 .. def' - 1
    BY <1>5, <1>w, <2>3 DEF EndTurn
  <2>6. runner_num_tests' = Cardinality(enabled')
    <3>1. IsFiniteSet(enabled)
      <4>1. IsFiniteSet(1 .. def - 1)
        BY <1>0, FS_Interval
      <4> QED
        BY <1>w, <4>1, FS_Subset
    <3>2. def \notin enabled
      BY <1>w, <2>3
    <3>3. Cardinality(enabled \cup {def}) = Cardinality(enabled) + 1
      BY <3>1, <3>2, FS_AddElement
    <3> QED
      <4>1. CASE enable
        BY <1>5, <1>w, <3>3, <4>1 DEF EndTurn
      <4>2. CASE ~enable
        BY <1>5, <1>w, <4>2 DEF EndTurn
      <4> QED
        BY <4>1, <4>2
  <2> QED
    BY <1>0, <1>5, <1>w, <2>2, <2>3, <2>4, <2>5, <2>6 DEF EndTurn, Def
<1>6. CASE EndWalk
  BY <1>0, <1>6, <1>w DEF EndWalk, walk
<1>7. CASE UNCHANGED vars
  BY <1>7, <1>w DEF vars, walk
<1> QED
  BY <1>1, <1>2, <1>3, <1>4, <1>5, <1>6, <1>7 DEF Next, Done

LEMMA InitWalkInv == Init => WalkInv
<1> SUFFICES ASSUME Init PROVE WalkInv
  OBVIOUS
<1>1. Cardinality({}) = 0
  BY FS_EmptySet
<1> QED
  BY <1>1 DEF Init, WalkInv

(* At each step of the walk over definitions and patterns, what it has      *)
(* decided so far is what the pattern rules say of the patterns tried.      *)
THEOREM WalkIsRight == Spec => []WalkInv
BY InitTypeOK, NextTypeOK, InitWalkInv, NextWalkInv, PTL DEF Spec

-----------------------------------------------------------------------------
(* On patterns with one '!' or none, the walk's rules are the documented    *)
(* ones: an odd number of '!'s is then one.                                 *)
LEMMA RulesAreDocumented ==
    ASSUME TypeOK, \A i \in 1 .. Len(patterns) : patterns[i].bangs <= 1, NEW d
    PROVE  Selected(d, Len(patterns)) <=> Documented(d)
<1> DEFINE n == Len(patterns)
<1>1. n \in Nat /\ \A i \in 1 .. n : patterns[i].bangs \in {0, 1}
  <2>1. n \in Nat /\ \A i \in 1 .. n : patterns[i].bangs \in Nat /\ patterns[i].bangs <= 1
    BY PatternTypes DEF Pattern
  <2> QED
    BY <2>1
<1>2. ASSUME NEW i \in 1 .. n PROVE GlobIsNegative(patterns[i]) <=> Excludes(patterns[i])
  <2>1. CASE patterns[i].bangs = 0
    BY <2>1 DEF GlobIsNegative, Excludes
  <2>2. CASE patterns[i].bangs = 1
    BY <2>2 DEF GlobIsNegative, Excludes
  <2> QED
    BY <1>1, <2>1, <2>2
<1>3. ImplicitAll <=> n = 0 \/ Excludes(patterns[1])
  <2>1. CASE n = 0
    BY <2>1 DEF ImplicitAll
  <2>2. CASE n # 0
    BY <1>1, <1>2, <2>2 DEF ImplicitAll
  <2> QED
    BY <2>1, <2>2
<1>4. \A i \in 1 .. n :
          Includes(patterns[i]) <=>
              ~Excludes(patterns[i]) /\ SplitQueueNum(patterns[i]) # InvalidPref
  BY <1>2 DEF Includes
<1> QED
  BY <1>3, <1>4 DEF Selected, Documented

(* The tests that run are those that the pattern rules of crucible-run(1)   *)
(* select, for all command lines without a pattern that begins with two     *)
(* '!'s; and runner_num_tests is their number for all command lines.        *)
THEOREM SelectionIsRight == Spec => []SelectedAsDocumented
<1>1. TypeOK /\ WalkInv => SelectedAsDocumented
  <2> SUFFICES ASSUME TypeOK, WalkInv, pc = "run"
               PROVE  /\ (\A i \in 1 .. Len(patterns) : patterns[i].bangs <= 1) =>
                            enabled = {d \in Def : Documented(d)}
                      /\ runner_num_tests = Cardinality(enabled)
    BY DEF SelectedAsDocumented
  <2>1. 1 .. def - 1 = Def
    BY SelectionAssumption DEF WalkInv, Def
  <2>2. enabled = {d \in Def : Selected(d, Len(patterns))}
    BY <2>1 DEF WalkInv
  <2>3. runner_num_tests = Cardinality(enabled)
    BY DEF WalkInv
  <2> QED
    BY <2>2, <2>3, RulesAreDocumented
<1> QED
  BY <1>1, TypeCorrect, WalkIsRight, PTL

(* A selected test runs on the queue named by the last pattern to match it, *)
(* or on all; only the greatest queue number gets lost in 32 bits.          *)
THEOREM QueuesAreRight == Spec => []QueuesAsDocumented
<1>1. TypeOK /\ WalkInv => QueuesAsDocumented
  <2> SUFFICES ASSUME TypeOK, WalkInv, pc = "run", NEW d \in enabled
               PROVE  /\ NoMatch(d, Len(patterns)) =>
                            QueuesOf(queue_num[d]) = 0 .. NumQueues - 1
                      /\ \A i \in 1 .. Len(patterns) :
                            LastMatch(d, i, Len(patterns)) =>
                              QueuesOf(queue_num[d]) =
                                CASE patterns[i].suffix = NoSuffix -> 0 .. NumQueues - 1
                                  [] patterns[i].suffix = UintModulus - 1 -> {}
                                  [] OTHER -> {patterns[i].suffix}
    BY DEF QueuesAsDocumented
  <2> DEFINE n == Len(patterns)
  <2>1. n \in Nat /\ \A i \in 1 .. n : patterns[i] \in Pattern
    BY PatternTypes
  <2>2. Selected(d, n) /\ QueueNumAfter(d, n, queue_num[d])
    BY DEF WalkInv
  <2>3. CASE NoMatch(d, n)
    <3>1. \A i : ~LastMatch(d, i, n)
      BY <2>3 DEF NoMatch, LastMatch
    <3>2. queue_num[d] = NoPref
      BY <2>2, <3>1 DEF QueueNumAfter
    <3> QED
      BY <3>1, <3>2 DEF QueuesOf
  <2>4. CASE ~NoMatch(d, n)
    <3> SUFFICES ASSUME NEW i \in 1 .. n, LastMatch(d, i, n)
                 PROVE  QueuesOf(queue_num[d]) =
                            CASE patterns[i].suffix = NoSuffix -> 0 .. NumQueues - 1
                              [] patterns[i].suffix = UintModulus - 1 -> {}
                              [] OTHER -> {patterns[i].suffix}
      BY <2>4
    <3> DEFINE s == patterns[i].suffix
    <3>1. \A j : LastMatch(d, j, n) => j = i
      BY <2>1 DEF LastMatch
    <3>2. queue_num[d] = SplitQueueNum(patterns[i]) /\ Includes(patterns[i])
      BY <2>2, <2>4, <3>1 DEF QueueNumAfter, Selected
    <3>3. s \in Nat \cup {NoSuffix}
      BY <2>1 DEF Pattern
    <3>4. CASE s = NoSuffix
      <4>1. queue_num[d] = NoPref
        BY <3>2, <3>4 DEF SplitQueueNum, NoSuffix
      <4> QED
        BY <3>4, <4>1, RunnerDefsAssumption DEF QueuesOf, NoSuffix
    <3>5. CASE s # NoSuffix
      <4>1. s \in 0 .. UintModulus - 1 /\ queue_num[d] = s
        <5>1. SplitQueueNum(patterns[i]) =
                IF s \in 0 .. UintModulus - 1 THEN s ELSE InvalidPref
          BY <3>5 DEF SplitQueueNum
        <5> QED
          BY <3>2, <5>1 DEF Includes
      <4>2. QueuesOf(s) = s % UintModulus .. ((s + 1) % UintModulus) - 1
        BY <4>1, RunnerDefsAssumption DEF QueuesOf, NoPref
      <4>3. s % UintModulus = s
        BY <4>1, RunnerDefsAssumption
      <4>4. CASE s = UintModulus - 1
        <5>1. (s + 1) % UintModulus = 0
          BY <4>4, RunnerDefsAssumption
        <5>2. QueuesOf(s) = {}
          BY <4>1, <4>2, <4>3, <5>1
        <5> QED
          BY <3>5, <4>1, <4>4, <5>2
      <4>5. CASE s # UintModulus - 1
        <5>1. (s + 1) % UintModulus = s + 1
          BY <4>1, <4>5, RunnerDefsAssumption
        <5>2. QueuesOf(s) = {s}
          BY <4>1, <4>2, <4>3, <5>1
        <5> QED
          BY <3>5, <4>1, <4>5, <5>2
      <4> QED
        BY <4>4, <4>5
    <3> QED
      BY <3>4, <3>5
  <2> QED
    BY <2>3, <2>4
<1> QED
  BY <1>1, TypeCorrect, WalkIsRight, PTL

(* Bench, example and self tests run only if a pattern spells out their     *)
(* prefix.                                                                  *)
THEOREM SpecialAreAskedFor == Spec => []SpecialOnlyAskedFor
<1>1. TypeOK /\ WalkInv => SpecialOnlyAskedFor
  <2> SUFFICES ASSUME TypeOK, WalkInv, NEW d \in enabled, PrefixOf[d] # NoPrefix
               PROVE  \E i \in 1 .. Len(patterns) : patterns[i].prefix = PrefixOf[d]
    BY DEF SpecialOnlyAskedFor
  <2>1. Selected(d, Len(patterns))
    BY DEF WalkInv
  <2>2. PICK i \in 1 .. Len(patterns) : TestDefMatch(d, patterns[i])
    BY <2>1 DEF Selected, LastMatch, MatchesStar
  <2> QED
    BY <2>2 DEF TestDefMatch
<1> QED
  BY <1>1, TypeCorrect, WalkIsRight, PTL

(* What the user asked for is in force when tests run, or it was refused;   *)
(* except for the jobs beyond the dispatcher's slots, and for process       *)
(* isolation where the runner does not fork.                                *)
THEOREM OptionsAreInForce == Spec => []OptionsInForce
<1> DEFINE Checked == pc = "init" => (ForkMode \/ ~cmdline.timeout)
<1>1. Init => Checked /\ OptionsInForce
  BY DEF Init, OptionsInForce
<1>2. TypeOK /\ Checked /\ OptionsInForce /\ [Next]_vars => (Checked /\ OptionsInForce)'
  <2> SUFFICES ASSUME TypeOK, Checked, OptionsInForce, [Next]_vars
               PROVE  Checked' /\ OptionsInForce'
    OBVIOUS
  <2>0. /\ cmdline.timeout \in BOOLEAN /\ cmdline.jobs \in Nat
        /\ cmdline.fork \in {-1, 0, 1} /\ ForkMode \in BOOLEAN
        /\ cmdline.isolation \in {"process", "thread"}
    BY DEF TypeOK, CommandLine, ForkMode, OneTest
  <2>1. CASE ParseArgs
    BY <2>0, <2>1 DEF ParseArgs, OptionsInForce, ForkMode, OneTest, patterns
  <2>2. CASE InitRunner
    <3> DEFINE opts == [isolation |-> cmdline.isolation, no_fork |-> ~ForkMode,
                        jobs |-> NumJobs, timeout |-> ForkMode /\ cmdline.timeout]
    <3>1. cmdline' = cmdline /\ pc' \in {"enable", "refused"} /\ (OneTest' <=> OneTest)
      BY <2>2 DEF InitRunner, OneTest, patterns
    <3>2. cmdline.jobs > 0 => NumJobs = cmdline.jobs
      BY DEF NumJobs
    <3>3. /\ cmdline.fork # -1 => (~ForkMode <=> cmdline.fork = 0)
          /\ ~ForkMode => cmdline.fork = 0 \/ (cmdline.fork = -1 /\ OneTest)
      BY <2>0 DEF ForkMode
    <3>4. (ForkMode /\ cmdline.timeout) = cmdline.timeout
      BY <2>0, <2>2 DEF InitRunner
    <3>5. pc' = "enable" =>
            /\ runner_opts'.timeout = cmdline.timeout
            /\ runner_opts'.jobs = NumJobs
            /\ runner_opts'.no_fork = ~ForkMode
            /\ runner_opts'.isolation = cmdline.isolation
            /\ ~(~ForkMode /\ cmdline.isolation = "thread")
      <4>1. pc' = "enable" => runner_opts' = opts /\ RunnerInit(opts)
        BY <2>2 DEF InitRunner
      <4>2. /\ opts.timeout = cmdline.timeout /\ opts.jobs = NumJobs
            /\ opts.no_fork = ~ForkMode /\ opts.isolation = cmdline.isolation
        BY <3>4
      <4>3. RunnerInit(opts) => ~(opts.no_fork /\ opts.isolation = "thread")
        BY DEF RunnerInit
      <4> HIDE DEF opts
      <4> QED
        BY <4>1, <4>2, <4>3
    <3>6. pc' = "enable" => (Isolates(cmdline.isolation))' \/
                            (cmdline.isolation = "process" /\ ~ForkMode)
      BY <2>0, <3>1, <3>5 DEF Isolates
    <3>7. pc' = "enable" =>
            /\ cmdline.jobs \in 1 .. NumSlots => JobsInForce' = cmdline.jobs
            /\ cmdline.jobs > NumSlots => JobsInForce' = NumSlots
      BY <2>0, <3>2, <3>5, SelectionAssumption DEF JobsInForce
    <3> HIDE DEF opts
    <3> QED
      BY <3>1, <3>3, <3>5, <3>6, <3>7 DEF OptionsInForce
  <2>3. CASE TryImplied \/ TryGlob \/ EndTurn \/ EndWalk \/ UNCHANGED vars
    BY <2>3 DEF TryImplied, TryGlob, Trying, EndTurn, EndWalk, vars, walk, OptionsInForce,
                ForkMode, OneTest, patterns, JobsInForce, Isolates
  <2> QED
    BY <2>1, <2>2, <2>3 DEF Next, Done
<1> QED
  BY <1>1, <1>2, TypeCorrect, PTL DEF Spec
=============================================================================
