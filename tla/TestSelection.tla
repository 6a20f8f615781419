---------------------------- MODULE TestSelection ----------------------------
(***************************************************************************)
(* From the command line of "crucible run" to the work of the dispatcher:  *)
(* the options that src/cmd/run.c makes of it, runner_init(), and the      *)
(* walk of runner_enable_matching_tests() over definitions and patterns.   *)
(*                                                                         *)
(* A name or glob is abstracted to what test_def_match() and one_test()    *)
(* look at; which names a glob matches is fnmatch()'s affair.              *)
(***************************************************************************)
EXTENDS RunnerDefs, Sequences, FiniteSets

CONSTANTS
    NumDefs,        \* the test definitions are 1 .. NumDefs, in their order
    SkipPrefixes,   \* "bench.", "example." and "self."
    PrefixOf,       \* the one with which a definition's name begins, if any
    NumProcessors,  \* sysconf(_SC_NPROCESSORS_ONLN), 1 if that fails
    NumSlots,       \* the length of dispatcher.workers
    CommandLines    \* what the user may type

Def == 1 .. NumDefs
NoPrefix == "none"
NoSuffix == -1

(* A glob pattern: its leading '!'s, the special prefix with which the rest *)
(* begins, the names that the rest matches, whether it contains a '*', and  *)
(* the number of its ".q" suffix.                                           *)
Pattern == [bangs : Nat, prefix : SkipPrefixes \cup {NoPrefix},
            names : SUBSET Def, star : BOOLEAN, suffix : Nat \cup {NoSuffix}]

(* The static variables opt_* of run.c after getopt_long(): fork = -1 and   *)
(* jobs = 0 stand for options that were not given.                          *)
CommandLine == [patterns : Seq(Pattern), fork : {-1, 0, 1}, jobs : Nat,
                timeout : BOOLEAN, isolation : {"process", "thread"}]

ASSUME SelectionAssumption ==
    /\ NumDefs \in Nat
    /\ NoPrefix \notin SkipPrefixes
    /\ PrefixOf \in [Def -> SkipPrefixes \cup {NoPrefix}]
    /\ NumProcessors \in Nat \ {0} /\ NumSlots \in Nat \ {0}
    /\ CommandLines \subseteq CommandLine

VARIABLES
    cmdline,
    pc,              \* "args", "init", "enable", "run" or "refused"
    runner_opts,
    def,             \* the definition at which the walk stands
    next_glob,       \* the next pattern to try on it
    enable,          \* the local variable of the walk
    queue_num,       \* test_def_t::priv.queue_num
    enabled,         \* those with test_def_t::priv.enable
    runner_num_tests

walk == <<def, next_glob, enable, queue_num, enabled, runner_num_tests>>
vars == <<cmdline, pc, runner_opts, walk>>

patterns == cmdline.patterns

-----------------------------------------------------------------------------
(* src/cmd/run.c.                                                           *)

OneTest ==
    /\ Len(patterns) = 1
    /\ patterns[1].bangs = 0
    /\ ~patterns[1].star

ForkMode == IF cmdline.fork # -1 THEN cmdline.fork = 1 ELSE ~OneTest

NumJobs ==
    IF cmdline.jobs > 0 THEN cmdline.jobs
    ELSE IF OneTest \/ ~ForkMode \/ cmdline.isolation = "thread" THEN 1
    ELSE NumProcessors

NoOpts == [isolation |-> "process", no_fork |-> FALSE, jobs |-> 1, timeout |-> FALSE]

Init ==
    /\ cmdline \in CommandLines
    /\ pc = "args"
    /\ runner_opts = NoOpts
    /\ def = 1 /\ next_glob = 0 /\ enable = FALSE
    /\ queue_num = [d \in Def |-> 0]
    /\ enabled = {} /\ runner_num_tests = 0

(* MUTANT: a timeout is accepted where nothing can be killed.               *)
ParseArgsLax ==
    /\ pc = "args"
    /\ pc' = "init"
    /\ UNCHANGED <<cmdline, runner_opts, walk>>

(* parse_args(), of whose errors only the one that needs the patterns is    *)
(* not a matter of a single option.                                         *)
ParseArgs ==
    /\ pc = "args"
    /\ pc' = IF ~ForkMode /\ cmdline.timeout THEN "refused" ELSE "init"
    /\ UNCHANGED <<cmdline, runner_opts, walk>>

(* cmd_start() and runner_init(), then the loop of                          *)
(* runner_enable_matching_tests() that resets all preferences.              *)
InitRunner ==
    /\ pc = "init"
    /\ LET opts == [isolation |-> cmdline.isolation, no_fork |-> ~ForkMode,
                    jobs |-> NumJobs, timeout |-> ForkMode /\ cmdline.timeout]
       IN  IF RunnerInit(opts)
           THEN /\ pc' = "enable"
                /\ runner_opts' = opts
                /\ queue_num' = [d \in Def |-> NoPref]
           ELSE pc' = "refused" /\ UNCHANGED <<runner_opts, queue_num>>
    /\ UNCHANGED <<cmdline, def, next_glob, enable, enabled, runner_num_tests>>

-----------------------------------------------------------------------------
(* src/framework/runner/runner.c and src/framework/test/test_def.c.         *)

GlobIsNegative(p) == p.bangs % 2 = 1

(* MUTANT: special tests are matched like any other.                        *)
TestDefMatchAll(d, p) == d \in p.names

TestDefMatch(d, p) ==
    /\ PrefixOf[d] \in {NoPrefix, p.prefix}
    /\ d \in p.names

(* The same for the implied pattern "*".                                    *)
MatchesStar(d) == PrefixOf[d] = NoPrefix

ImplicitAll == Len(patterns) = 0 \/ GlobIsNegative(patterns[1])

(* MUTANT: numbers of more than 32 bits are let through.                    *)
SplitQueueNumUnchecked(p) == IF p.suffix = NoSuffix THEN NoPref ELSE p.suffix

(* split_glob_t::queue_num.                                                 *)
SplitQueueNum(p) ==
    CASE p.suffix = NoSuffix -> NoPref
      [] p.suffix \in 0 .. UintModulus - 1 -> p.suffix
      [] OTHER -> InvalidPref

(* What a matching pattern makes of the local variable.                     *)
Includes(p) == SplitQueueNum(p) # InvalidPref /\ ~GlobIsNegative(p)

Trying(g) == pc = "enable" /\ def \in Def /\ g \in 1 .. Len(patterns)

(* MUTANT: a later pattern cannot exclude what an earlier one included.     *)
TryGlobAdds ==
    /\ Trying(next_glob)
    /\ LET p == patterns[next_glob]
       IN  IF TestDefMatch(def, p)
           THEN /\ enable' = (enable \/ Includes(p))
                /\ queue_num' = [queue_num EXCEPT ![def] = SplitQueueNum(p)]
           ELSE UNCHANGED <<enable, queue_num>>
    /\ next_glob' = next_glob + 1
    /\ UNCHANGED <<cmdline, pc, runner_opts, def, enabled, runner_num_tests>>

(* MUTANT: a preference once set is not taken back.                         *)
TryGlobKeepsQueue ==
    /\ Trying(next_glob)
    /\ LET p == patterns[next_glob]
       IN  IF TestDefMatch(def, p)
           THEN /\ enable' = Includes(p)
                /\ queue_num' = IF p.suffix = NoSuffix THEN queue_num
                                ELSE [queue_num EXCEPT ![def] = SplitQueueNum(p)]
           ELSE UNCHANGED <<enable, queue_num>>
    /\ next_glob' = next_glob + 1
    /\ UNCHANGED <<cmdline, pc, runner_opts, def, enabled, runner_num_tests>>

(* A definition's turn begins with next_glob = 0: the implied pattern.      *)
TryImplied ==
    /\ pc = "enable" /\ def \in Def /\ next_glob = 0
    /\ enable' = (ImplicitAll /\ MatchesStar(def))
    /\ next_glob' = 1
    /\ UNCHANGED <<cmdline, pc, runner_opts, def, queue_num, enabled,
                   runner_num_tests>>

TryGlob ==
    /\ Trying(next_glob)
    /\ LET p == patterns[next_glob]
       IN  IF TestDefMatch(def, p)
           THEN /\ enable' = Includes(p)
                /\ queue_num' = [queue_num EXCEPT ![def] = SplitQueueNum(p)]
           ELSE UNCHANGED <<enable, queue_num>>
    /\ next_glob' = next_glob + 1
    /\ UNCHANGED <<cmdline, pc, runner_opts, def, enabled, runner_num_tests>>

(* MUTANT: a test is counted whether it is enabled or not.                  *)
EndTurnCountsAll ==
    /\ pc = "enable" /\ def \in Def /\ next_glob > Len(patterns)
    /\ enabled' = IF enable THEN enabled \cup {def} ELSE enabled
    /\ runner_num_tests' = runner_num_tests + 1
    /\ def' = def + 1 /\ next_glob' = 0 /\ enable' = FALSE
    /\ UNCHANGED <<cmdline, pc, runner_opts, queue_num>>

EndTurn ==
    /\ pc = "enable" /\ def \in Def /\ next_glob > Len(patterns)
    /\ IF enable
       THEN /\ enabled' = enabled \cup {def}
            /\ runner_num_tests' = runner_num_tests + 1
       ELSE UNCHANGED <<enabled, runner_num_tests>>
    /\ def' = def + 1 /\ next_glob' = 0 /\ enable' = FALSE
    /\ UNCHANGED <<cmdline, pc, runner_opts, queue_num>>

EndWalk ==
    /\ pc = "enable" /\ def > NumDefs
    /\ pc' = "run"
    /\ UNCHANGED <<cmdline, runner_opts, walk>>

Done == pc \in {"run", "refused"} /\ UNCHANGED vars

Next == \/ ParseArgs \/ InitRunner \/ TryImplied \/ TryGlob \/ EndTurn
        \/ EndWalk \/ Done

Spec == Init /\ [][Next]_vars

-----------------------------------------------------------------------------
TypeOK ==
    /\ cmdline \in CommandLine
    /\ pc \in {"args", "init", "enable", "run", "refused"}
    /\ runner_opts \in RunnerOpts
    /\ def \in 1 .. NumDefs + 1
    /\ next_glob \in 0 .. Len(patterns) + 1
    /\ enable \in BOOLEAN
    /\ queue_num \in [Def -> QueueNum]
    /\ enabled \subseteq Def
    /\ runner_num_tests \in Nat

(* The last of the first k patterns that match d is the i-th.               *)
LastMatch(d, i, k) ==
    /\ i \in 1 .. k /\ TestDefMatch(d, patterns[i])
    /\ \A j \in i + 1 .. k : ~TestDefMatch(d, patterns[j])

NoMatch(d, k) == \A j \in 1 .. k : ~TestDefMatch(d, patterns[j])

(* What the walk selects by the first k patterns; what it takes for an      *)
(* exclude pattern is Includes'.                                            *)
Selected(d, k) ==
    \/ \E i \in 1 .. k : LastMatch(d, i, k) /\ Includes(patterns[i])
    \/ NoMatch(d, k) /\ ImplicitAll /\ MatchesStar(d)

QueueNumAfter(d, k, n) ==
    \/ \E i \in 1 .. k : LastMatch(d, i, k) /\ n = SplitQueueNum(patterns[i])
    \/ NoMatch(d, k) /\ n = NoPref

(* What the walk knows at each of its steps.                                *)
WalkInv ==
    /\ pc \notin {"enable", "run"} =>
          def = 1 /\ next_glob = 0 /\ enabled = {} /\ runner_num_tests = 0
    /\ pc = "run" => def = NumDefs + 1
    /\ enabled \subseteq 1 .. def - 1 /\ runner_num_tests = Cardinality(enabled)
    /\ pc \in {"enable", "run"} =>
          /\ \A d \in 1 .. def - 1 :
                /\ d \in enabled <=> Selected(d, Len(patterns))
                /\ QueueNumAfter(d, Len(patterns), queue_num[d])
          /\ \A d \in def + 1 .. NumDefs : queue_num[d] = NoPref
          /\ def \in Def =>
                IF next_glob = 0 THEN queue_num[def] = NoPref
                ELSE /\ enable <=> Selected(def, next_glob - 1)
                     /\ QueueNumAfter(def, next_glob - 1, queue_num[def])

(* "Test patterns that begin with '!' denotes an exclude rule; otherwise    *)
(* the pattern denotes an include rule" (crucible-run(1)), of which only    *)
(* those count whose suffix is a number that there can be.                  *)
Excludes(p) == p.bangs > 0
Documented(d) ==
    LET n == Len(patterns)
    IN  \/ \E i \in 1 .. n :
              /\ LastMatch(d, i, n) /\ ~Excludes(patterns[i])
              /\ SplitQueueNum(patterns[i]) # InvalidPref
        \/ NoMatch(d, n) /\ (n = 0 \/ Excludes(patterns[1])) /\ MatchesStar(d)

(* The tests that are run are those that the pattern rules of               *)
(* crucible-run(1) select, as long as no pattern begins with two '!'s; and  *)
(* num_tests, from which the dispatcher draws the verdict, is their number, *)
(* whatever the patterns begin with.                                        *)
SelectedAsDocumented ==
    pc = "run" =>
        /\ (\A i \in 1 .. Len(patterns) : patterns[i].bangs <= 1) =>
              enabled = {d \in Def : Documented(d)}
        /\ runner_num_tests = Cardinality(enabled)

(* A selected test runs on the queue that the last pattern to match it      *)
(* names, and on all queues if that names none, whatever earlier patterns   *)
(* said.  The greatest queue number is excepted: the loops' 32 bits wrap,   *)
(* and the test is not run and not even reported as skipped.                *)
QueuesAsDocumented ==
    pc = "run" =>
        \A d \in enabled :
            /\ NoMatch(d, Len(patterns)) => QueuesOf(queue_num[d]) = 0 .. NumQueues - 1
            /\ \A i \in 1 .. Len(patterns) :
                  LastMatch(d, i, Len(patterns)) =>
                      LET suffix == patterns[i].suffix
                      IN  QueuesOf(queue_num[d]) =
                            CASE suffix = NoSuffix -> 0 .. NumQueues - 1
                              [] suffix = UintModulus - 1 -> {}
                              [] OTHER -> {suffix}

(* Bench, example and self tests run only if some pattern spells out their  *)
(* prefix, however the patterns are combined.                               *)
SpecialOnlyAskedFor ==
    \A d \in enabled :
        PrefixOf[d] # NoPrefix =>
            \E i \in 1 .. Len(patterns) : patterns[i].prefix = PrefixOf[d]

(* dispatcher.max_dispatched_tests, and what isolates the tests.            *)
JobsInForce == IF runner_opts.jobs > NumSlots THEN NumSlots ELSE runner_opts.jobs
Isolates(by) == ~runner_opts.no_fork /\ runner_opts.isolation = by

(* What the user asked for is in force when tests run, or run.c or          *)
(* runner_init() has refused it, although whether the runner forks may      *)
(* depend on the patterns.  Two options are taken for less than they say:   *)
(* there are never more jobs than the dispatcher has slots, and without     *)
(* forking, which naming a single test turns off, process isolation is      *)
(* accepted and isolates nothing.                                           *)
OptionsInForce ==
    pc \in {"enable", "run"} =>
        /\ runner_opts.timeout = cmdline.timeout
        /\ cmdline.jobs \in 1 .. NumSlots => JobsInForce = cmdline.jobs
        /\ cmdline.jobs > NumSlots => JobsInForce = NumSlots
        /\ cmdline.fork # -1 => (runner_opts.no_fork <=> cmdline.fork = 0)
        /\ \/ Isolates(cmdline.isolation)
           \/ /\ cmdline.isolation = "process"
              /\ cmdline.fork = 0 \/ (cmdline.fork = -1 /\ OneTest)

=============================================================================
