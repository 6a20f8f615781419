----------------------------- MODULE Dispatcher -----------------------------
(***************************************************************************)
(* The test runner's dispatcher process and its worker processes:          *)
(* src/framework/runner/{dispatcher,worker}.c.                             *)
(*                                                                         *)
(* The dispatcher is one thread.  Its steps are interleaved with those of  *)
(* the workers, with the clock and with SIGINT; they are cut where it      *)
(* looks at something that others change: the interrupt flag, a worker's   *)
(* death (seen by a write that fails, or by waitpid) and the epoll set.    *)
(***************************************************************************)
EXTENDS TestEnums, RunnerDefs, Sequences, FiniteSets, FiniteSetsExt

CONSTANTS
    Def,             \* the enabled test definitions, numbered in their order
    SkipDef,         \* those with test_def_t::skip
    QueuePref,       \* test_def_t::priv.queue_num, or NoPref
    Slot,            \* dispatcher.workers, numbered in their order
    Requests,        \* the runner_opts_t that the user may ask for
    CrashIn,         \* the worker states in which a worker may die by itself
    MaxInterrupts    \* bound on the SIGINTs of one test run

ASSUME DispatcherAssumption ==
    /\ Def \subseteq Nat /\ IsFiniteSet(Def) /\ SkipDef \subseteq Def
    /\ QueuePref \in [Def -> QueueNum \ {InvalidPref}]
    /\ MaxInterrupts \in Nat
    /\ Slot \subseteq Nat /\ IsFiniteSet(Slot) /\ Slot # {}
    /\ Requests \subseteq RunnerOpts

(* What the dispatch loops enumerate, in the order of their two loops.      *)
Case == UNION {{d} \X QueuesOf(QueuePref[d]) : d \in Def}
Before(c, e) == c[1] < e[1] \/ (c[1] = e[1] /\ c[2] < e[2])
NextCase(cases) == CHOOSE c \in cases : \A e \in cases \ {c} : Before(c, e)

(* The names under which results are printed: "<def>.q<queue>".             *)
Name == Case \cup (Def \X {0})

NoCase == <<-1, -1>>
Sentinel == <<0, 0, "sentinel">>

VARIABLES
    runner_opts, \* what runner_init() has accepted
    pc,          \* where the dispatcher stands
    ret,         \* where dispatcher_collect_result() returns to
    napping,     \* in the nanosleep of dispatcher_yield_to_sigint()
    todo,        \* the cases that the dispatch loop has not come to
    case,        \* the arguments of dispatcher_dispatch_test()
    target,      \* the worker that dispatcher_get_open_worker() returned
    workers,     \* dispatcher.workers
    cur_dispatched_tests,
    num_workers,
    sigint_flag,
    goto_next_phase,
    reports,     \* how often each name was reported with each result
    expired,     \* the slots whose test is past its timeout
    proc,        \* the state of the process that a slot stands for
    running,     \* the case that this process is running
    dispatch_pipe,
    result_pipe,
    killed,      \* the processes to which SIGINT has been sent
    sigchld,     \* SIGCHLD is pending on signal_fd
    interrupts   \* the SIGINTs that the user has sent

control == <<pc, ret, napping, todo, case, target>>
books == <<workers, cur_dispatched_tests, num_workers, reports, expired>>
flags == <<sigint_flag, goto_next_phase>>
processes == <<proc, running, dispatch_pipe, result_pipe, killed, sigchld>>
user == <<runner_opts, interrupts>>
vars == <<control, books, flags, processes, user>>

Isolation == runner_opts.isolation
NoFork == runner_opts.no_fork
HasTimeout == runner_opts.timeout

(* dispatcher.max_dispatched_tests.                                         *)
MaxJobs == Min({runner_opts.jobs, Cardinality(Slot)})

(* A slot.  is_dead is left out: it is set only while the dying worker is   *)
(* being cleaned up, which ends with the slot invalid.                      *)
Worker == [pid : BOOLEAN, tests : SUBSET Def, lifetime_test_count : Nat,
           recvd_sentinel : BOOLEAN]
NoWorker == [pid |-> FALSE, tests |-> {}, lifetime_test_count |-> 0,
             recvd_sentinel |-> FALSE]

ProcState == {"none", "starting", "fresh", "running", "served", "zombie"}

TypeOK ==
    /\ runner_opts \in Requests
    /\ pc \in {"gather", "loop", "begin", "full", "claim", "find", "send",
               "collect", "epoll", "cleanup", "reap", "done", "failed"}
    /\ ret \in {"loop", "full", "find", "reap"}
    /\ napping \in BOOLEAN
    /\ todo \subseteq Case
    /\ case \in Case \cup {NoCase}
    /\ target \in Slot \cup {-1}
    /\ workers \in [Slot -> Worker]
    /\ cur_dispatched_tests \in Nat /\ num_workers \in Nat
    /\ sigint_flag \in BOOLEAN /\ goto_next_phase \in BOOLEAN
    /\ reports \in [Name -> [Result -> Nat]]
    /\ expired \subseteq Slot
    /\ proc \in [Slot -> ProcState]
    /\ running \in [Slot -> Case \cup {NoCase}]
    /\ dispatch_pipe \in [Slot -> Seq(Case \cup {Sentinel})]
    /\ result_pipe \in [Slot -> Seq(Case \X Result)]
    /\ killed \subseteq Slot
    /\ sigchld \in BOOLEAN
    /\ interrupts \in 0 .. MaxInterrupts

Init ==
    /\ runner_opts \in {opts \in Requests : RunnerInit(opts)}
    /\ pc = "gather" /\ ret = "loop" /\ napping = FALSE
    /\ todo = Case /\ case = NoCase /\ target = -1
    /\ workers = [s \in Slot |-> NoWorker]
    /\ cur_dispatched_tests = 0 /\ num_workers = 0
    /\ sigint_flag = FALSE /\ goto_next_phase = FALSE
    /\ reports = [n \in Name |-> [r \in Result |-> 0]]
    /\ expired = {}
    /\ proc = [s \in Slot |-> "none"]
    /\ running = [s \in Slot |-> NoCase]
    /\ dispatch_pipe = [s \in Slot |-> <<>>]
    /\ result_pipe = [s \in Slot |-> <<>>]
    /\ killed = {}
    /\ sigchld = FALSE
    /\ interrupts = 0

-----------------------------------------------------------------------------
Connected == {s \in Slot : workers[s].pid}
Alive(s) == proc[s] \notin {"none", "zombie"}

(* The tests that some slots own, each with its slot.                       *)
InFlight(slots) == {sd \in slots \X Def : sd[2] \in workers[sd[1]].tests}

(* dispatcher_report_result(): one more of result r under name n.           *)
Report(n, r) == reports' = [reports EXCEPT ![n][r] = @ + 1]

(* Who calls dispatcher_collect_result(), and where it goes on.             *)
CollectThen(to) == pc' = "collect" /\ ret' = to

(* Where a caller goes that finds goto_next_phase set.                      *)
NextPhase == IF ret = "reap" THEN "done" ELSE "cleanup"

-----------------------------------------------------------------------------
(* dispatcher_gather_vulkan_info(): the number of queues, or no test run.   *)
GatherVulkanInfo ==
    /\ pc = "gather"
    /\ pc' \in {"loop", "failed"}
    /\ goto_next_phase' = (pc' = "failed")
    /\ UNCHANGED <<ret, napping, todo, case, target, books, sigint_flag,
                   processes, user>>

(* The part of both dispatch loops that needs no worker.                    *)
MustSkip(c) == c[2] >= NumQueues \/ c[1] \in SkipDef

(* MUTANT: the queue is left out of the name under which it is reported.    *)
ReportSkipUnnamed ==
    /\ pc = "loop" /\ todo # {}
    /\ LET c == NextCase(todo)
       IN  MustSkip(c) /\ todo' = todo \ {c} /\ Report(<<c[1], 0>>, SKIP)
    /\ UNCHANGED <<pc, ret, napping, case, target, workers, cur_dispatched_tests,
                   num_workers, expired, flags, processes, user>>

(* MUTANT: a test that is not run is passed over in silence.                *)
ReportSkipSilently ==
    /\ pc = "loop" /\ todo # {}
    /\ LET c == NextCase(todo) IN MustSkip(c) /\ todo' = todo \ {c}
    /\ UNCHANGED <<pc, ret, napping, case, target, books, flags, processes,
                   user>>

ReportSkip ==
    /\ pc = "loop" /\ todo # {}
    /\ LET c == NextCase(todo)
       IN  MustSkip(c) /\ todo' = todo \ {c} /\ Report(c, SKIP)
    /\ UNCHANGED <<pc, ret, napping, case, target, workers, cur_dispatched_tests,
                   num_workers, expired, flags, processes, user>>

(* dispatcher_dispatch_loop_no_fork(): run the test in this process.        *)
RunInProcess ==
    /\ NoFork /\ pc = "loop" /\ todo # {}
    /\ LET c == NextCase(todo)
       IN  /\ ~MustSkip(c)
           /\ todo' = todo \ {c}
           /\ \E r \in {PASS, SKIP, FAIL} : Report(c, r)
    /\ UNCHANGED <<pc, ret, napping, case, target, workers, cur_dispatched_tests,
                   num_workers, expired, flags, processes, user>>

(* dispatcher_dispatch_loop_with_fork().                                    *)
DispatchTest ==
    /\ ~NoFork /\ pc = "loop" /\ todo # {}
    /\ LET c == NextCase(todo)
       IN  ~MustSkip(c) /\ todo' = todo \ {c} /\ case' = c
    /\ pc' = "begin"
    /\ UNCHANGED <<ret, napping, target, books, flags, processes, user>>

EndDispatchPhase ==
    /\ pc = "loop" /\ todo = {}
    /\ pc' = IF NoFork THEN "done" ELSE "cleanup"
    /\ UNCHANGED <<ret, napping, todo, case, target, books, flags, processes,
                   user>>

(* MUTANT: one test too many in flight.                                     *)
AwaitRoomOffByOne ==
    /\ pc = "full"
    /\ IF cur_dispatched_tests > MaxJobs
       THEN CollectThen("full")
       ELSE pc' = "claim" /\ UNCHANGED ret
    /\ UNCHANGED <<napping, todo, case, target, books, flags, processes, user>>

(* dispatcher_dispatch_test(): wait until another test may be in flight.    *)
AwaitRoom ==
    /\ pc = "full"
    /\ IF cur_dispatched_tests = MaxJobs
       THEN CollectThen("full")
       ELSE pc' = "claim" /\ UNCHANGED ret
    /\ UNCHANGED <<napping, todo, case, target, books, flags, processes, user>>

-----------------------------------------------------------------------------
(* dispatcher_get_open_worker().                                            *)

(* MUTANT: every worker is open, whatever it has run.                       *)
IsOpenAlways(s) == workers[s].pid

(* worker_is_open(): in thread isolation a slot has room for 256 tests, far *)
(* more than the MaxJobs = 1 that may be in flight.                         *)
IsOpen(s) ==
    /\ workers[s].pid
    /\ Isolation = "process" => workers[s].lifetime_test_count = 0

OpenSlot == {s \in Slot : IsOpen(s)}
MayFork == IF Isolation = "process" THEN num_workers < MaxJobs ELSE num_workers = 0

FindOpenWorker ==
    /\ pc = "find" /\ OpenSlot # {}
    /\ target' = Min(OpenSlot)
    /\ pc' = "send"
    /\ UNCHANGED <<ret, napping, todo, case, books, flags, processes, user>>

(* dispatcher_get_new_worker(): in the first slot without a process.        *)
UnbornSlot == Min(Slot \ Connected)

Fork ==
    /\ workers' = [workers EXCEPT ![UnbornSlot] = [NoWorker EXCEPT !.pid = TRUE]]
    /\ proc' = [proc EXCEPT ![UnbornSlot] = "starting"]

ForkWorker ==
    /\ pc = "find" /\ OpenSlot = {} /\ MayFork
    /\ Fork
    /\ target' = UnbornSlot
    /\ num_workers' = num_workers + 1
    /\ pc' = "send"
    /\ UNCHANGED <<ret, napping, todo, case, cur_dispatched_tests, reports, expired,
                   flags, running, dispatch_pipe, result_pipe, killed, sigchld,
                   user>>

(* A pipe or a process could not be had: go on to the summary.              *)
ForkFails ==
    /\ pc = "find" /\ OpenSlot = {} /\ MayFork
    /\ goto_next_phase' = TRUE
    /\ pc' = "cleanup"
    /\ UNCHANGED <<ret, napping, todo, case, target, books, sigint_flag, processes,
                   user>>

(* Its pipes could not be prepared after fork(): the process is there and   *)
(* its slot is taken, but it is not counted.                                *)
WorkerSetUpFails ==
    /\ pc = "find" /\ OpenSlot = {} /\ MayFork
    /\ Fork
    /\ goto_next_phase' = TRUE
    /\ pc' = "cleanup"
    /\ UNCHANGED <<ret, napping, todo, case, target, cur_dispatched_tests, num_workers,
                   reports, expired, sigint_flag, running, dispatch_pipe, result_pipe,
                   killed, sigchld, user>>

AwaitWorker ==
    /\ pc = "find" /\ OpenSlot = {} /\ ~MayFork
    /\ CollectThen("find")
    /\ UNCHANGED <<napping, todo, case, target, books, flags, processes, user>>

(* worker_start_test(), which tells nobody when the packet cannot be sent   *)
(* because the worker is dead.  A sentinel follows at once in process       *)
(* isolation.                                                               *)
StartTest ==
    /\ pc = "send"
    /\ CollectThen("loop")
    /\ IF Alive(target)
       THEN /\ workers' = [workers EXCEPT
                  ![target].tests = @ \cup {case[1]},
                  ![target].lifetime_test_count = @ + 1,
                  ![target].recvd_sentinel = @ \/ Isolation = "process"]
            /\ cur_dispatched_tests' = cur_dispatched_tests + 1
            /\ dispatch_pipe' = [dispatch_pipe EXCEPT ![target] =
                  @ \o (IF Isolation = "process" THEN <<case, Sentinel>> ELSE <<case>>)]
       ELSE UNCHANGED <<workers, cur_dispatched_tests, dispatch_pipe>>
    /\ case' = NoCase /\ target' = -1
    /\ UNCHANGED <<napping, todo, num_workers, reports, expired, flags, proc,
                   running, result_pipe, killed, sigchld, user>>

-----------------------------------------------------------------------------
(* dispatcher_yield_to_sigint(), on its way to another location.            *)

YieldsTo(from, to) ==
    \/ from = "begin" /\ to = "full"
    \/ from = "claim" /\ to = "find"
    \/ from = "collect" /\ to = "epoll"

(* MUTANT: one test's timeout kills all workers.                            *)
KilledByTimeoutAll(to) ==
    IF HasTimeout /\ to = "epoll" /\ expired # {} THEN Connected ELSE {}

(* dispatcher_check_timeout(), which precedes the epoll_wait().             *)
KilledByTimeout(to) == IF HasTimeout /\ to = "epoll" THEN expired ELSE {}

YieldUninterrupted ==
    /\ ~napping /\ ~sigint_flag
    /\ \E to \in {"full", "find", "epoll"} :
          /\ YieldsTo(pc, to)
          /\ pc' = to
          /\ killed' = killed \cup KilledByTimeout(to)
    /\ UNCHANGED <<ret, napping, todo, case, target, books, flags, proc, running,
                   dispatch_pipe, result_pipe, sigchld, user>>

(* dispatcher_kill_all_workers(), and half a second for a second SIGINT.    *)
YieldKillsWorkers ==
    /\ ~napping /\ sigint_flag
    /\ \E to \in {"full", "find", "epoll"} : YieldsTo(pc, to)
    /\ sigint_flag' = FALSE
    /\ killed' = killed \cup Connected
    /\ napping' = TRUE
    /\ UNCHANGED <<pc, ret, todo, case, target, books, goto_next_phase, proc,
                   running, dispatch_pipe, result_pipe, sigchld, user>>

WakeFromNap ==
    /\ napping /\ ~sigint_flag
    /\ \E to \in {"full", "find", "epoll"} :
          /\ YieldsTo(pc, to)
          /\ pc' = to
          /\ killed' = killed \cup KilledByTimeout(to)
    /\ napping' = FALSE
    /\ UNCHANGED <<ret, todo, case, target, books, flags, proc, running,
                   dispatch_pipe, result_pipe, sigchld, user>>

(* The second SIGINT halts the test run.                                    *)
HaltTestRun ==
    /\ napping /\ sigint_flag
    /\ sigint_flag' = FALSE
    /\ goto_next_phase' = TRUE
    /\ napping' = FALSE
    /\ pc' = IF pc = "collect" THEN NextPhase ELSE "cleanup"
    /\ UNCHANGED <<ret, todo, case, target, books, processes, user>>

-----------------------------------------------------------------------------
(* dispatcher_collect_result(): one event of the epoll set.                 *)

(* The packets in the result pipes of some slots that say r of the case n.  *)
PacketsOf(slots, n, r) ==
    Cardinality(UNION {{s} \X {i \in DOMAIN result_pipe[s] : result_pipe[s][i] = <<n, r>>} :
                          s \in slots})
Answered(s) == {result_pipe[s][i][1][1] : i \in DOMAIN result_pipe[s]}

(* MUTANT: the worker keeps the test that it has answered.                  *)
DrainResultPipeKeeps(s) ==
    /\ pc = "epoll"
    /\ workers[s].pid
    /\ result_pipe[s] # <<>> \/ proc[s] = "zombie"
    /\ cur_dispatched_tests' =
          cur_dispatched_tests - Cardinality(workers[s].tests \cap Answered(s))
    /\ reports' = [n \in Name |-> [r \in Result |-> reports[n][r] + PacketsOf({s}, n, r)]]
    /\ result_pipe' = [result_pipe EXCEPT ![s] = <<>>]
    /\ pc' = ret
    /\ UNCHANGED <<ret, napping, todo, case, target, workers, num_workers, expired,
                   flags, proc, running, dispatch_pipe, killed, sigchld, user>>

(* worker_drain_result_pipe() on the event of one worker.                   *)
DrainResultPipe(s) ==
    /\ pc = "epoll"
    /\ workers[s].pid
    /\ result_pipe[s] # <<>> \/ proc[s] = "zombie"
    /\ workers' = [workers EXCEPT ![s].tests = @ \ Answered(s)]
    /\ cur_dispatched_tests' =
          cur_dispatched_tests - Cardinality(workers[s].tests \cap Answered(s))
    /\ reports' = [n \in Name |-> [r \in Result |-> reports[n][r] + PacketsOf({s}, n, r)]]
    /\ result_pipe' = [result_pipe EXCEPT ![s] = <<>>]
    /\ expired' = IF workers'[s].tests = {} THEN expired \ {s} ELSE expired
    /\ pc' = ret
    /\ UNCHANGED <<ret, napping, todo, case, target, num_workers, flags, proc,
                   running, dispatch_pipe, killed, sigchld, user>>

(* MUTANT: every test of a dead worker is lost, answered or not.            *)
LostByAll(s) == workers[s].tests

(* What a dead worker still owns when its result pipe has been emptied.      *)
LostBy(s) == workers[s].tests \ Answered(s)

(* MUTANT: the pipe of a dead worker is closed before it is read.           *)
ReapWorkersUndrained ==
    /\ pc = "epoll" /\ sigchld
    /\ sigchld' = FALSE
    /\ LET dead == {s \in Slot : proc[s] = "zombie"}
       IN  /\ reports' = [n \in Name |-> [r \in Result |->
                 reports[n][r]
                 + IF r = LOST /\ n[2] = 0
                   THEN Cardinality({s \in dead : n[1] \in workers[s].tests}) ELSE 0]]
           /\ cur_dispatched_tests' = cur_dispatched_tests
                 - Cardinality(InFlight(dead))
           /\ num_workers' = num_workers - Cardinality(dead)
           /\ workers' = [s \in Slot |-> IF s \in dead THEN NoWorker ELSE workers[s]]
           /\ proc' = [s \in Slot |-> IF s \in dead THEN "none" ELSE proc[s]]
           /\ dispatch_pipe' =
                 [s \in Slot |-> IF s \in dead THEN <<>> ELSE dispatch_pipe[s]]
           /\ result_pipe' =
                 [s \in Slot |-> IF s \in dead THEN <<>> ELSE result_pipe[s]]
           /\ expired' = expired \ dead
           /\ killed' = killed \ dead
    /\ pc' = ret
    /\ UNCHANGED <<ret, napping, todo, case, target, flags, running, user>>

(* MUTANT: a SIGCHLD is taken to stand for one dead child.                  *)
ReapOneWorker ==
    /\ pc = "epoll" /\ sigchld
    /\ sigchld' = FALSE
    /\ LET s == Min({t \in Slot : proc[t] = "zombie"})
       IN  /\ reports' = [n \in Name |-> [r \in Result |->
                 reports[n][r] + PacketsOf({s}, n, r)
                 + IF r = LOST /\ n[2] = 0 /\ n[1] \in LostBy(s) THEN 1 ELSE 0]]
           /\ cur_dispatched_tests' =
                 cur_dispatched_tests - Cardinality(workers[s].tests)
           /\ num_workers' = num_workers - 1
           /\ workers' = [workers EXCEPT ![s] = NoWorker]
           /\ proc' = [proc EXCEPT ![s] = "none"]
           /\ dispatch_pipe' = [dispatch_pipe EXCEPT ![s] = <<>>]
           /\ result_pipe' = [result_pipe EXCEPT ![s] = <<>>]
           /\ expired' = expired \ {s}
           /\ killed' = killed \ {s}
    /\ pc' = ret
    /\ UNCHANGED <<ret, napping, todo, case, target, flags, running, user>>

(* dispatcher_handle_sigchld() and dispatcher_cleanup_dead_worker(): reap   *)
(* every process that is dead, take what is left in its result pipe, and    *)
(* report the tests it still owns as lost, under queue 0 because the slot   *)
(* does not remember their queue.                                           *)
ReapWorkers ==
    /\ pc = "epoll" /\ sigchld
    /\ sigchld' = FALSE
    /\ LET dead == {s \in Slot : proc[s] = "zombie"}
       IN  /\ reports' = [n \in Name |-> [r \in Result |->
                 reports[n][r]
                 + PacketsOf(dead, n, r)
                 + IF r = LOST /\ n[2] = 0
                   THEN Cardinality({s \in dead : n[1] \in LostBy(s)}) ELSE 0]]
           /\ cur_dispatched_tests' = cur_dispatched_tests
                 - Cardinality(InFlight(dead))
           /\ num_workers' = num_workers - Cardinality(dead)
           /\ workers' = [s \in Slot |-> IF s \in dead THEN NoWorker ELSE workers[s]]
           /\ proc' = [s \in Slot |-> IF s \in dead THEN "none" ELSE proc[s]]
           /\ dispatch_pipe' =
                 [s \in Slot |-> IF s \in dead THEN <<>> ELSE dispatch_pipe[s]]
           /\ result_pipe' =
                 [s \in Slot |-> IF s \in dead THEN <<>> ELSE result_pipe[s]]
           /\ expired' = expired \ dead
           /\ killed' = killed \ dead
    /\ pc' = ret
    /\ UNCHANGED <<ret, napping, todo, case, target, flags, running, user>>

(* epoll_wait() returns without an event that matters here: its timeout is  *)
(* over (0 from the dispatch loop, a tenth of the test timeout elsewhere)   *)
(* or there is output of a live worker to copy.                             *)
NothingToCollect ==
    /\ pc = "epoll"
    /\ \/ ret \in {"loop", "full"} \/ HasTimeout
       \/ \E s \in Connected : proc[s] = "running"
    /\ pc' = ret
    /\ UNCHANGED <<ret, napping, todo, case, target, books, flags, processes,
                   user>>

-----------------------------------------------------------------------------
(* dispatcher_enter_cleanup_phase().                                        *)

(* worker_send_sentinel() to a worker that has not had one.                 *)
WithSentinel(s) == IF Alive(s) THEN Append(dispatch_pipe[s], Sentinel) ELSE dispatch_pipe[s]

SendSentinels ==
    /\ pc = "cleanup"
    /\ LET lacking == {s \in Connected : ~workers[s].recvd_sentinel}
           told == IF goto_next_phase
                   THEN {s \in lacking : s = Min(Connected)} ELSE lacking
       IN  /\ dispatch_pipe' =
                 [s \in Slot |-> IF s \in told THEN WithSentinel(s) ELSE dispatch_pipe[s]]
           /\ workers' = [s \in Slot |->
                 IF s \in told THEN [workers[s] EXCEPT !.recvd_sentinel = TRUE]
                 ELSE workers[s]]
    /\ pc' = IF goto_next_phase /\ Connected # {} THEN "done" ELSE "reap"
    /\ UNCHANGED <<ret, napping, todo, case, target, cur_dispatched_tests,
                   num_workers, reports, expired, flags, proc, running, result_pipe,
                   killed, sigchld, user>>

AwaitWorkers ==
    /\ pc = "reap"
    /\ IF num_workers > 0 THEN CollectThen("reap") ELSE pc' = "done" /\ UNCHANGED ret
    /\ UNCHANGED <<napping, todo, case, target, books, flags, processes, user>>

-----------------------------------------------------------------------------
(* A worker process.                                                        *)

Die(s) ==
    /\ proc' = [proc EXCEPT ![s] = "zombie"]
    /\ sigchld' = TRUE
    /\ UNCHANGED <<control, books, flags, running, dispatch_pipe, result_pipe,
                   killed, user>>

(* The child's part of dispatcher_get_new_worker(): a SIGINT that it gets   *)
(* before it has restored the default action is swallowed by the handler    *)
(* it inherited.                                                            *)
WorkerSetsUp(s) ==
    /\ proc[s] = "starting"
    /\ proc' = [proc EXCEPT ![s] = "fresh"]
    /\ killed' = killed \ {s}
    /\ UNCHANGED <<control, books, flags, running, dispatch_pipe, result_pipe,
                   sigchld, user>>

(* worker_loop(): receive a test and run it, or leave the loop.             *)
WorkerRecvTest(s) ==
    /\ proc[s] \in {"fresh", "served"}
    /\ dispatch_pipe[s] # <<>> /\ Head(dispatch_pipe[s]) # Sentinel
    /\ proc' = [proc EXCEPT ![s] = "running"]
    /\ running' = [running EXCEPT ![s] = Head(dispatch_pipe[s])]
    /\ dispatch_pipe' = [dispatch_pipe EXCEPT ![s] = Tail(@)]
    /\ UNCHANGED <<control, books, flags, result_pipe, killed, sigchld, user>>

WorkerRecvSentinel(s) ==
    /\ proc[s] \in {"fresh", "served"}
    /\ dispatch_pipe[s] # <<>> /\ Head(dispatch_pipe[s]) = Sentinel
    /\ Die(s)

WorkerSendResult(s) ==
    /\ proc[s] = "running"
    /\ \E r \in {PASS, SKIP, FAIL} :
          result_pipe' = [result_pipe EXCEPT ![s] = Append(@, <<running[s], r>>)]
    /\ proc' = [proc EXCEPT ![s] = "served"]
    /\ running' = [running EXCEPT ![s] = NoCase]
    /\ UNCHANGED <<control, books, flags, dispatch_pipe, killed, sigchld, user>>

WorkerCrashes(s) == proc[s] \in CrashIn /\ Alive(s) /\ Die(s)

(* SIGINT takes effect some time after kill(), and not before set-up.       *)
WorkerKilled(s) == s \in killed /\ Alive(s) /\ proc[s] # "starting" /\ Die(s)

-----------------------------------------------------------------------------
(* The clock and the user.                                                  *)

TestExpires(s) ==
    /\ HasTimeout /\ workers[s].tests # {} /\ s \notin expired
    /\ expired' = expired \cup {s}
    /\ UNCHANGED <<control, workers, cur_dispatched_tests, num_workers, reports,
                   flags, processes, user>>

(* SIGINT to the dispatcher alone, or from the terminal to its whole        *)
(* process group.  It ends an epoll_wait() that has begun; one that has not *)
(* will block with the flag set.  Nobody handles it once dispatcher_run()   *)
(* has restored the default action.                                         *)
Interrupt ==
    /\ interrupts < MaxInterrupts
    /\ pc \notin {"gather", "done", "failed"}
    /\ interrupts' = interrupts + 1
    /\ sigint_flag' = TRUE
    /\ killed' \in {killed, killed \cup {s \in Slot : Alive(s)}}
    /\ pc' \in {pc} \cup (IF pc = "epoll" THEN {ret} ELSE {})
    /\ UNCHANGED <<runner_opts, ret, napping, todo, case, target, books,
                   goto_next_phase, proc, running, dispatch_pipe, result_pipe, sigchld>>

-----------------------------------------------------------------------------
DispatcherStep ==
    \/ GatherVulkanInfo \/ ReportSkip \/ RunInProcess \/ DispatchTest
    \/ EndDispatchPhase \/ AwaitRoom
    \/ FindOpenWorker \/ ForkWorker \/ ForkFails \/ WorkerSetUpFails
    \/ AwaitWorker \/ StartTest
    \/ YieldUninterrupted \/ YieldKillsWorkers \/ WakeFromNap \/ HaltTestRun
    \/ \E s \in Slot : DrainResultPipe(s)
    \/ ReapWorkers \/ NothingToCollect
    \/ SendSentinels \/ AwaitWorkers

WorkerStep(s) ==
    WorkerSetsUp(s) \/ WorkerRecvTest(s) \/ WorkerRecvSentinel(s) \/ WorkerKilled(s)

Finished == pc \in {"done", "failed"} /\ UNCHANGED vars

Next ==
    \/ DispatcherStep
    \/ \E s \in Slot :
          WorkerStep(s) \/ WorkerSendResult(s) \/ WorkerCrashes(s) \/ TestExpires(s)
    \/ Interrupt
    \/ Finished

Spec == Init /\ [][Next]_vars

(* The dispatcher and the workers are scheduled; an event that keeps being  *)
(* ready is among those epoll_wait() hands out, which turn by turn; time    *)
(* passes.  Nothing is assumed of the tests: they may hang.                 *)
Fairness ==
    /\ WF_vars(DispatcherStep) /\ SF_vars(ReapWorkers)
    /\ \A s \in Slot :
          SF_vars(DrainResultPipe(s)) /\ WF_vars(WorkerStep(s)) /\ WF_vars(TestExpires(s))

FairSpec == Spec /\ Fairness

-----------------------------------------------------------------------------
(* The single reports of some results under some names, each numbered.      *)
Made(names, results) ==
    UNION {{nr} \X (1 .. reports[nr[1]][nr[2]]) : nr \in names \X results}
Reported(n) == Cardinality(Made({n}, Result))
NamesOf(d) == {n \in Name : n[1] = d}
Total(r) == Cardinality(Made(Name, {r}))

(* MUTANT: a skipped test counts as a failure.                              *)
ReturnsSuccessNoSkip == pc = "done" /\ Total(PASS) = Cardinality(Def)

(* The result of dispatcher_run(), whose num_tests counts definitions       *)
(* (runner_enable_matching_tests() counts each enabled one once).           *)
ReturnsSuccess == pc = "done" /\ Total(PASS) + Total(SKIP) = Cardinality(Def)

(* num_workers is the number of slots with a process.  The process whose    *)
(* set-up failed is one that it leaves out, and the dispatcher is then on   *)
(* its way to the summary, where it reaps nobody.                           *)
WorkersCounted ==
    \/ num_workers = Cardinality(Connected)
    \/ /\ goto_next_phase /\ pc \in {"cleanup", "done"}
       /\ num_workers + 1 = Cardinality(Connected)

(* The dispatcher's counters agree with its slots, and a slot is valid      *)
(* exactly while its process exists and is not reaped: so every pid that    *)
(* waitpid() returns is found, kill() never goes to a pid that was reaped,  *)
(* and the asserts on cur_dispatched_tests hold.  A slot never owns two     *)
(* tests: worker_rm_test() would move too few bytes and forget the timeouts.*)
BooksBalance ==
    /\ cur_dispatched_tests = Cardinality(InFlight(Slot))
    /\ cur_dispatched_tests <= MaxJobs
    /\ WorkersCounted
    /\ \A s \in Slot : workers[s].pid <=> proc[s] # "none"
    /\ \A s \in Slot : workers[s].tests # {} => workers[s].pid
    /\ \A s \in Slot : Cardinality(workers[s].tests) <= 1

(* Where the dispatcher stands, or will when it has collected a result.     *)
Stage == IF pc \in {"collect", "epoll"} THEN ret ELSE pc

(* Why the books balance.  A slot owns a test only while its process is     *)
(* there, and a test is handed out only where none is owned: because the    *)
(* worker is new, or because no test at all is in flight.                   *)
SlotInv ==
    /\ runner_opts \in Requests /\ RunnerInit(runner_opts)
    /\ pc \in {"gather", "loop", "begin", "full", "claim", "find", "send",
               "collect", "epoll", "cleanup", "reap", "done", "failed"}
    /\ ret \in {"loop", "full", "find", "reap"}
    /\ todo \subseteq Case
    /\ workers \in [Slot -> Worker] /\ proc \in [Slot -> ProcState]
    /\ dispatch_pipe \in [Slot -> Seq(Case \cup {Sentinel})]
    /\ Stage \in {"begin", "full", "claim", "find", "send"} => case \in Case
    /\ cur_dispatched_tests = Cardinality(InFlight(Slot))
    /\ cur_dispatched_tests <= MaxJobs
    /\ Stage \in {"claim", "find", "send"} => cur_dispatched_tests < MaxJobs
    /\ num_workers \in Nat /\ WorkersCounted
    /\ \A s \in Slot :
          /\ workers[s].pid <=> proc[s] # "none"
          /\ workers[s].tests # {} => workers[s].pid
          /\ \A d, e \in workers[s].tests : d = e
          /\ Isolation = "process" /\ workers[s].tests # {} => workers[s].lifetime_test_count # 0
    /\ pc = "send" => target \in Slot /\ IsOpen(target)

(* Why processes are isolated: what can be in a worker's dispatch pipe, and *)
(* that a worker that has lived is not given another test.                  *)
PipeInv ==
    Isolation = "process" =>
        \A s \in Slot :
            /\ \/ dispatch_pipe[s] \in {<<>>, <<Sentinel>>}
               \/ /\ \E c \in Case :
                        dispatch_pipe[s] \in {<<c, Sentinel>>, <<Sentinel, c, Sentinel>>}
                  /\ proc[s] \notin {"running", "served"}
                  /\ workers[s].lifetime_test_count # 0
            /\ workers[s].lifetime_test_count = 0 => proc[s] \notin {"running", "served"}
            /\ ~workers[s].recvd_sentinel => dispatch_pipe[s] = <<>>
            /\ workers[s].lifetime_test_count # 0 => workers[s].recvd_sentinel
            /\ ~workers[s].pid => workers[s] = NoWorker

(* A process that runs a test knows which one it will answer for.           *)
RunningInv == \A s \in Slot : proc[s] = "running" => running[s] \in Case

(* Where the case is that a slot owns: sent to its process, being run by    *)
(* it, or answered.                                                         *)
Unread(s) == {c \in Case : \E i \in DOMAIN dispatch_pipe[s] : dispatch_pipe[s][i] = c}
Run(s) == {c \in Case : proc[s] = "running" /\ running[s] = c}
Answers(s) == {c \in Case : \E i \in DOMAIN result_pipe[s] : result_pipe[s][i][1] = c}
Parcel(s) == Unread(s) \cup Run(s) \cup Answers(s)

(* Why nothing is reported twice: it is in one of these places, once, as    *)
(* long as the slot owns its test.                                          *)
ParcelInv ==
    \A s \in Slot :
        /\ \A i, j \in DOMAIN dispatch_pipe[s] :
              dispatch_pipe[s][i] # Sentinel /\ dispatch_pipe[s][j] # Sentinel => i = j
        /\ Len(result_pipe[s]) <= 1
        /\ \A i \in DOMAIN result_pipe[s] : result_pipe[s][i][2] # LOST
        /\ Run(s) # {} => Unread(s) = {}
        /\ Answers(s) # {} => Unread(s) = {} /\ Run(s) = {}
        /\ \A c \in Parcel(s) : c[1] \in workers[s].tests

Committed == Stage \in {"begin", "full", "claim", "find", "send"}

(* What is true beyond that where nobody interrupts and no worker crashes,  *)
(* and where a test that is past its timeout can be told from all others of *)
(* its process (the process has no other) and of its name (queue 0 is the   *)
(* only one).                                                               *)
Undisturbed ==
    /\ CrashIn = {} /\ MaxInterrupts = 0
    /\ \A opts \in Requests :
          opts.timeout => opts.isolation = "process" /\ NumQueues <= 1

(* A worker dies only of its test's timeout or of a sentinel, and that only *)
(* after its test.                                                          *)
DeathInv ==
    /\ ~sigint_flag /\ (pc = "gather" => ~goto_next_phase)
    /\ NoFork => Stage \in {"gather", "loop", "done", "failed"} /\ Connected = {}
    /\ \A s \in Slot :
          /\ proc[s] = "none" => dispatch_pipe[s] = <<>>
          /\ s \in killed \cup expired =>
                HasTimeout /\ workers[s].pid /\ workers[s].lifetime_test_count # 0
          /\ s \in killed => workers[s].tests = {} \/ s \in expired
          /\ proc[s] = "zombie" => s \in killed \/ workers[s].recvd_sentinel
          /\ workers[s].recvd_sentinel =>
                \/ (Isolation = "process" /\ workers[s].lifetime_test_count # 0)
                \/ Stage \in {"reap", "done"}
          /\ \A i, j \in DOMAIN dispatch_pipe[s] :
                /\ dispatch_pipe[s][i] = Sentinel => workers[s].recvd_sentinel
                /\ i < j /\ dispatch_pipe[s][i] = Sentinel => dispatch_pipe[s][j] = Sentinel
          /\ workers[s].tests # {} /\ Parcel(s) = {} => proc[s] = "zombie"
          /\ proc[s] = "zombie" /\ workers[s].tests # {} /\ Answers(s) = {} => s \in expired

(* "func.foo.q1 will only run the func.foo test on queue family index 1"    *)
(* (crucible-run): results are reported under names that were run.  It is   *)
(* so on a single queue; a loss is reported under queue 0, whatever queue   *)
(* the test ran on.                                                         *)
OnlyNamesThatRan == \A n \in Name : Reported(n) > 0 => n \in Case \ todo

(* What is dispatched is what can be run, and only once.                    *)
TodoInv ==
    /\ Committed => case \notin todo /\ ~MustSkip(case)
    /\ \A s \in Slot :
          /\ Parcel(s) \cap todo = {}
          /\ \A c \in Parcel(s) : ~MustSkip(c)
          /\ \A d \in workers[s].tests : \E c \in Case \ todo : c[1] = d /\ ~MustSkip(c)
    /\ OnlyNamesThatRan

(* The results other than losses that were reported under a name.           *)
Given(n) == reports[n][PASS] + reports[n][SKIP] + reports[n][FAIL]

(* What a name in the report stands for, whatever dies and whoever          *)
(* interrupts: a case passes, fails or is skipped at most once, and only    *)
(* after the dispatch loop has come to it on that queue; a loss is reported *)
(* under queue 0, of a definition that was come to on some queue.           *)
AnsweredNamesRan ==
    \A n \in Name :
        /\ Given(n) <= IF n \in Case \ todo THEN 1 ELSE 0
        /\ reports[n][LOST] > 0 => n[2] = 0 /\ \E c \in Case \ todo : c[1] = n[1]

(* Why: a case is at one of these places at most.                           *)
AnswerInv ==
    /\ AnsweredNamesRan
    /\ Committed => case \notin todo /\ Given(case) = 0
    /\ \A s \in Slot :
          /\ \A c \in Parcel(s) :
                /\ c \notin todo /\ Given(c) = 0 /\ ~(Committed /\ case = c)
                /\ \A t \in Slot : c \in Parcel(t) => t = s
          /\ \A d \in workers[s].tests : \E c \in Case \ todo : c[1] = d

(* The slots that owe a case; a worker killed while it ran the case is the  *)
(* one that has no parcel.                                                  *)
Owing(c) ==
    {s \in Slot : \/ c \in Parcel(s)
                  \/ Parcel(s) = {} /\ c[1] \in workers[s].tests /\ c[2] = 0}

(* Each case is at one place.                                               *)
CaseInv ==
    ~goto_next_phase =>
        /\ \A c \in Case :
              Reported(c) + Cardinality(Owing(c))
              + (IF c \in todo THEN 1 ELSE 0)
              + (IF Committed /\ case = c THEN 1 ELSE 0) = 1
        /\ Stage \in {"cleanup", "reap", "done"} => todo = {}
        /\ pc = "done" => Connected = {}

(* Nothing is reported twice: for each definition, the results reported and *)
(* the runs in flight are no more than the runs begun, although a worker    *)
(* may answer, be killed for its timeout and die in any order.              *)
NoDoubleVerdict ==
    \A d \in Def :
        Cardinality(Made(NamesOf(d), Result))
        + Cardinality({s \in Slot : d \in workers[s].tests})
        + (IF case[1] = d THEN 1 ELSE 0)
            <= Cardinality({c \in Case \ todo : c[1] = d})

(* A result that a worker has written is never thrown away, even when the   *)
(* worker is dead by the time the dispatcher looks at it: whenever its pipe *)
(* is emptied or closed, it has been reported, and with its own name.       *)
AnswersAreReported ==
    [][\A s \in Slot : \A i \in DOMAIN result_pipe[s] :
          result_pipe'[s] = <<>> =>
              LET answer == result_pipe[s][i]
              IN  reports'[answer[1]][answer[2]] > reports[answer[1]][answer[2]]]_vars

(* "The runner will isolate each test in a separate process" (runner.h): no *)
(* process runs two tests, nor is sent one that it would never come to,     *)
(* behind the sentinel.                                                     *)
ProcessIsolation ==
    Isolation = "process" =>
        \A s \in Slot :
            Cardinality({i \in DOMAIN dispatch_pipe[s] : dispatch_pipe[s][i] # Sentinel})
            + (IF proc[s] \in {"running", "served"} THEN 1 ELSE 0) <= 1

(* "Timeout for individual test cases" (crucible-run): where workers do not *)
(* crash and nobody interrupts, the only tests lost are those that are past *)
(* their own timeout.                                                       *)
TimeoutIsIndividual ==
    [][\A d \in Def :
          (\E n \in NamesOf(d) : reports'[n][LOST] > reports[n][LOST]) =>
              \E s \in expired : d \in workers[s].tests]_vars

(* "Run all tests that match <pattern>" (crucible-run): a test run that was *)
(* not cut short has reported each case once.                               *)
EveryTestReported ==
    pc = "done" /\ ~goto_next_phase => \A c \in Case : Reported(c) = 1

(* What the exit status says: that as many cases have passed or have been   *)
(* skipped as there are definitions.  "Return true if and only all tests    *)
(* pass or skip" (runner.c) is that only where each has a single case.      *)
ExitStatusCounts ==
    pc = "done" =>
        (ReturnsSuccess <=>
            Cardinality({c \in Case : reports[c][PASS] + reports[c][SKIP] > 0})
                = Cardinality(Def))

(* The test run ends, whatever dies and whatever hangs, as long as there is *)
(* a timeout: no wakeup is missed and no worker is waited for that is gone. *)
TestRunEnds == <>(pc \in {"done", "failed"})
=============================================================================
