# Crucible: a verification model

Crucible is a test suite for Vulkan drivers. Its tests are plain C functions.
What makes it more than a list of them is the machinery that runs them: a *test
framework* that carries each test, on as many threads as the test likes, through
its phases to one result, sets up and tears down the Vulkan objects around it and
compares images, and a *runner* that selects tests, hands them to worker
processes, survives their crashes and reports every result. This directory
models that machinery in TLA+, checks it with TLC on small instances and proves
the central facts with TLAPS for every value of the constants.

Paths below are relative to the repository.

## 1. Inventory

| Component | State it keeps | Operations | Talks to |
|---|---|---|---|
| **Test** (`src/framework/test/{test,t_thread,t_phases,t_result}.c`) | `phase`, `num_threads`, `result`, `result_is_final`, `cleanup_stacks`, `stop_mutex`/`stop_cond` | create, start, wait, get_result, destroy; thread create/start/yield/release; enter phase; end | its own threads by atomics, the runner by a mutex and a condition |
| **Test setup** (`t_phase_setup.c`) | the Vulkan instance, device, queues, images of `struct test` | set up in the start thread, each object pushed on its cleanup stack | Vulkan, cleanup stacks |
| **Cleanup stacks** (`src/util/cru_cleanup.c`, `t_cleanup.c`) | a stack of commands per thread | push, pop, release | every Vulkan wrapper |
| **Containers** (`cru_vec`, `cru_slist`, `cru_refcount`) | vectors, an atomic list, a reference count | push, pop, prepend, get, put | everything |
| **Dispatcher** (`src/framework/runner/dispatcher.c`) | worker slots, tests in flight, counters, SIGINT flag, epoll set, JUnit document | dispatch, collect, drain, reap, time out, interrupt, summarise | workers by pipes and signals |
| **Worker** (`worker.c`) | none besides its two pipes | receive, run, send, exit | dispatcher, test |
| **Runner** (`runner.c`, `runner_vk.c`) | `runner_opts`, `test_def.priv.{enable,queue_num}` | init, select tests, run | commands, dispatcher |
| **Commands** (`src/cmd/*.c`) | parsed options | `run`, `bootstrap`, `dump-image`, `help`, `ls-tests`, `version` | runner |
| **Images, formats** (`cru_image*`, `cru_{png,ktx,pixel,vk}_image`, `cru_format`, `t_image`, `t_dump`) | an image and its maps | load, map, unmap, copy, compare | tests |
| **Helpers** (`string`, `log`, `misc`, `xalloc`, `simple_pipeline`, `qonos`) | none that matters | formatting, allocation, Vulkan defaults | everything |
| **Tests, headers, data, scripts** (`src/tests`, `include/vulkan`, `data`, `misc`) | the GPU's | | framework |

How they interact. `crucible run` parses its options, `runner_init()` refuses
some combinations, `runner_enable_matching_tests()` marks definitions, and
`dispatcher_run()` walks over (definition, queue) pairs. Each goes by pipe to a
worker process (or is run in place with `--no-fork`), which calls
`run_test_def()`: create a test, start its first thread, wait for
`TEST_PHASE_STOPPED`, read the result, destroy it, and write the result into a
second pipe. The dispatcher waits in `epoll_wait()` for results, output and
`SIGCHLD`, and for SIGINT by a flag that its handler sets.

Where it is hard:

* **Threads and phases.** There is no lock around a test's phase. The phase
  moves when a thread finds, by an atomic decrement in `t_thread_sieve()`, that
  it is the last one. All of the framework's assertions about phases and
  cleanup stacks rest on the count being right while threads are created, fail
  to be created, yield, end the test and leave, all at once.
* **One verdict.** Threads may end a test with different results at the same
  time. One atomic exchange decides, the merge comes later, and the runner
  must read the result after the merge.
* **Handing over the stop.** A mutex, a condition that is broadcast outside
  it, and a test that may be freed as soon as the waiter has seen its phase.
* **Processes that die.** A worker can answer, crash, be killed for its timeout
  or by the user at any moment between the steps of the dispatcher, which learns
  of it from a failed write, a hang-up or `SIGCHLD`, in any order. Every test
  must be accounted for once, and the counters that gate the loop must agree
  with the slots, or it waits for ever.
* **The books.** Definitions, cases (definition and queue), slots and processes
  are counted in different units; and a fork that fails half way leaves a slot with a
  process that no counter knows.

The hazards, each at its line, are listed in `PROJECT.json`.

## 2. Modules

| Module | Models |
|---|---|
| `TestEnums` | the enumerations that the code compares by value |
| `TestLifecycle` | **abstract**: what the runner sees of a test: phases in order, one verdict, reported once |
| `TestThreads` | **the core**: one test in one process, its threads, Main (`run_test_def`) |
| `TestThreadsProofs` | the inductive invariant of `TestThreads` and its consequences, and that its steps are steps of `TestLifecycle`, proved |
| `RunnerDefs` | what the runner's parts share: `runner_opts_t`, `runner_init()`, the queues a definition is run on |
| `TestSelection` | from the command line to the enabled tests: `run.c`, `runner_init()`, `runner_enable_matching_tests()` |
| `TestSelectionProofs` | the invariant of that walk, and its consequences, proved |
| `Dispatcher` | the dispatcher process, its worker processes, the clock, the user's SIGINT |
| `DispatcherProofs` | the invariant of slots, counters and pipes, and its consequences, proved |
| `DispatchReportsProofs` | that the dispatcher's variables keep their types, no answer is thrown away and nothing is reported twice, proved |
| `DispatchTotalsProofs` | that an undisturbed test run reports each case once, and what names and the exit status mean in any, proved |
| `DispatchFds` | the dispatcher's descriptors, what workers inherit of them, the epoll set |
| `DispatchFdsProofs` | the invariant of descriptors, epoll set and inherited ends, and its consequences, proved |
| `UnwindStack` | **abstract**: a stack of commands, each run once, last in first out |
| `CleanupStack` | `cru_cleanup` on `cru_vec`, byte for byte (operators) |
| `TestSetup` | the Vulkan objects of a test: queue choice, creation, failure, precleanup, unwinding |
| `TestSetupProofs` | the bytes of stacks, the order of setup's steps, the numbering of queues, the invariant of `TestSetup` and its consequences, proved |
| `Images` | map, unmap, copy, compare and write of crucible images |
| `ImagesProofs` | what each operation on images leaves, and the invariant of all that they have, proved |
| `MC...` | the instances of these for TLC |

How they fit together. `TestThreads` implements `TestLifecycle`, and the stacks
of `TestSetup`, bytes and all, each implement `UnwindStack`. `TestSelection` and
`Dispatcher` share `RunnerDefs`: the first computes the options, the enabled
definitions and the queue preferences that the second takes as constants, and
both apply the same `RunnerInit` and `QueuesOf` to them. `Dispatcher` takes a test
for a step that ends in one result or not at all, which is what `TestThreads`
shows of `run_test_def()`. `TestSetup` takes from `TestThreads` that precleanup and
cleanup are entered once, by a thread that is alone. `Images` stands behind the
one step of `TestSetup` in which the image is compared.

Operators with a comment that starts with `MUTANT` are no part of the model.
Each is a plausible mistake in the definition after it, kept to show that a
property notices it.

### TestThreads

`pc[th]` says where each thread stands between two accesses to shared state. A
step is everything from one such access to the next, thus one atomic operation
of the code with the thread-local work around it. All other variables
are the fields of `struct test`, under their names.

| Code | Actions |
|---|---|
| `test_thread_create` | `CountThread`, then `PthreadCreate`, which succeeds or fails |
| `test_thread_start` | `EnterThread` (own cleanup stack prepended), `StartThread` (the yield) |
| the test's code | `UserStartThread`, `UserCreate`, `UserYield`, `UserResume`, `UserEnd`, `UserReturn` |
| `t_pass`, `t_skip`, `t_fail`, `t_assert` | `CallEnd`, `Complain` (their yield), `End` (the exchange), `Merge` |
| `t_thread_release`, `t_thread_sieve` | `Release`, `Sieve`, `Recount` |
| `t_enter_next_phase` and the `t_enter_*_phase` | `EnterSetup` .. `EnterStopped`; `Setup`, `Precleanup`, `CleanupStartThread`, `CleanupCreate`, `Unwind` |
| `test_broadcast_stop` | `StopLock`, `StopSetPhase`, `StopUnlock`, `Broadcast` |
| `run_test_def` | `StartSkipped`, `StartTest`, `StartCreate`, `WaitLock`, `WaitCheck`, `WaitUnlock`, `GetResult`, `Destroy`; `WakeSpuriously` is POSIX's |

Abstractions. What the setup phase and the image comparison compute is reduced
to their outcomes. Cleanup stacks are named by the thread that owns them; the
commands on them are left out. `t_thread_yield()` reads two atomics; as
`result_is_final` never reverts, both are read in the step of the second.
`test_create_s()` is `Init`: the path on which it returns a test that is
already stopped is not reachable from its callers in `src/`. The thread that
the test starts may do all that the API offers, although no test in `src/tests`
starts threads at present: `t_thread_start()` is part of the public interface.

### Dispatcher

One thread, whose program counter `pc` is cut where it looks at what others
change: the interrupt flag, a worker's death, the epoll set.
`dispatcher_collect_result()` is called from four places, so `ret` holds the
place to return to. A slot (`workers`) has the fields of `struct worker`; `proc`
is the process behind it, which the dispatcher cannot see.

| Code | Actions |
|---|---|
| `runner_init`, `dispatcher_gather_vulkan_info` | `Init` (with `RunnerInit`), `GatherVulkanInfo` |
| the two dispatch loops | `ReportSkip`, `RunInProcess`, `DispatchTest`, `EndDispatchPhase` |
| `dispatcher_dispatch_test`, `dispatcher_get_open_worker` | `AwaitRoom`, `FindOpenWorker`, `ForkWorker`, `WorkerSetUpFails`, `ForkFails`, `AwaitWorker` |
| `worker_start_test` | `StartTest` |
| `dispatcher_yield_to_sigint`, `dispatcher_check_timeout` | `YieldUninterrupted`, `YieldKillsWorkers`, `WakeFromNap`, `HaltTestRun` |
| `dispatcher_collect_result` | `DrainResultPipe`, `ReapWorkers`, `NothingToCollect` |
| `dispatcher_enter_cleanup_phase` | `SendSentinels`, `AwaitWorkers` |
| `worker.c` | `WorkerSetsUp`, `WorkerRecvTest`, `WorkerSendResult`, `WorkerRecvSentinel` |
| the rest of the world | `WorkerCrashes`, `WorkerKilled`, `TestExpires`, `Interrupt` |

Abstractions. Pipes are sequences and never full: a worker is sent at most one
test and one sentinel in process isolation, and a pipe takes far more of the
packets than that. The reading end sees whole packets, as writes of this size are
atomic. What is copied from a worker's stdout and stderr is left out, and file
descriptors are the subject of `DispatchFds`. Real time is the set of slots whose
test is past its timeout.

`dispatcher_get_new_worker()` can fail before there is a process, which leaves the
slot as it was (`ForkFails`), or after (`WorkerSetUpFails`): then the process lives, the
slot has its pid, `++num_workers` is skipped and the test run is given up.

### DispatchFds

The same process seen from below: which pipe end is behind which descriptor
(`fds`), what the structs in the slots say (`pipes`), which ends each worker has
open (`held`: its own and, as workers never `exec()`, the ends of older workers
that the dispatcher had open at the `fork()`), and which open files the epoll set
knows (`epoll`). The kernel drops an epoll entry with the last copy of its
file, which may be in another process; this is the point of the module.

| Code | Actions |
|---|---|
| `dispatcher_get_new_worker`, `worker_pipe_init`, `worker_pipe_become_*` | `ForkWorker` |
| `dispatcher_handle_sigchld`, `dispatcher_cleanup_dead_worker`, `worker_pipe_finish` | `ReapWorkers` |
| exit of a worker | `WorkerDies` |

`pipe2()` takes the lowest free numbers, so `FreeFd` is exact. The paths on which a
system call fails are left out: they end the test run, and nothing is forked,
reaped or waited for any more.

`Dispatcher` assumes what `DispatchFds` checks: that a write to a dead worker
fails (`DeathIsNoticed`, behind the guard of `StartTest`) and that an event on a
result pipe leads to its owner (`ResultEventsAreOwn`, behind `DrainResultPipe`).
Of the two output pipes the same cannot be said; see section 5.

### TestSelection

The command line is chosen in `Init`; a name or glob is abstracted to what the
code looks at: its leading `!`s, its special prefix, the set of names `fnmatch()`
says it matches, whether it has a `*`, and the number of its `.q` suffix. The walk
over definitions and patterns is kept step by step, as its order is what decides.

| Code | Actions |
|---|---|
| `parse_args`, `get_fork_mode`, `get_num_jobs`, `one_test` | `ParseArgs`, with `ForkMode`, `NumJobs`, `OneTest` |
| `cmd_start`, `runner_init` | `InitRunner` |
| `runner_enable_matching_tests` | `TryImplied`, `TryGlob`, `EndTurn`, `EndWalk` |
| `test_def_match`, `glob_is_negative`, `split_glob_t` | `TestDefMatch`, `GlobIsNegative`, `SplitQueueNum` |

### TestSetup and CleanupStack

`t_setup_vulkan()` is one long function, so its model is a sequence: `Steps(t)`
lists what it does for a test, its options and a device, and each step is taken
by the action for its kind. `Create` names the object, the cleanup command and the
objects that the new one was made from; `Malloc` an array that the function
frees by itself; `Memory` the memory of an image, which qonos allocates without
a look at the result and puts on no stack (`image_memory`, never emptied). `t_queue` is
idle, busy, or lost after a wait that failed, which fails the test. The stacks are those of `CleanupStack`: units of four bytes,
bodies before headers, in a vector that doubles.

| Code | Actions |
|---|---|
| `t_setup_vulkan`, `t_setup_framebuffer`, `t_setup_ref_images` | `SetupCreate`, `SetupMalloc`, `SetupMemory`, `PhysDev`, `ChooseQueue`, `Features`, `GetQueues`, `FillCmdPools`, `AllocateCommandBuffer`, `BeginCommandBuffer` |
| a call of these that fails, `t_assert()`, `t_failf()` | `SetupFails` |
| the start function, `qonos.c` | `UserStartThread`, `UserCreate`, `UserSubmit`, `UserEnd` |
| `t_enter_precleanup_phase`, `t_compare_image` | `Precleanup`, `WaitFails` |
| `t_unwind_cleanup_stacks`, `cru_cleanup_unwind`, `cru_cleanup_release` | `Unwind`, `ReleaseStack` |
| `t_enter_stopped_phase` | `Stop` |
| `__cru_vec_grow_capacity`, `__cru_vec_push`, `__cru_vec_pop` | `GrownCapacity`, `VecPush`, `VecPop` |
| `cru_cleanup_push_command`, `cru_cleanup_pop_impl` | `PushCommand`, `PopCommand`, `PoppedObject` |

Abstractions. Formats, sizes and memory types are left out, and one kind of
command stands for all with the same number of arguments. A test uses the objects
that setup made and those its own thread made; two threads are enough to
have two stacks. Where the process dies on a null handle (`WaitsOnNull`, section
5) the model stops.

### Images

All of this is sequential, and nearly every call may fail; so an operation is a
function from a state to the set of its outcomes, each a state and what the code
returns, put together by `Then`, `Branch` and `Finally` the way the code puts its
`goto`s together. The actions (`Copy`, `Compare`, `WriteFile`, `Map`, `Unmap`,
`Reference`, `Release`, `Draw`) are what a test calls, one outcome each.

A picture is one of three values, of which one has more precision than eight bits
hold; the conversion of formats (`Converted`) drops that. A read-only image is a
PNG file. Mapping a PNG file for writing is left out of the model because the
code then releases a null pointer (section 5).

## 3. Runs

| Run | Instance | Shows |
|---|---|---|
| `threads` | Main, First, Cleanup and 2 interchangeable user threads; creation may fail; skip, no-image and cleanup mode free | safety of count, phases, stacks and result |
| `threads_live` | one user thread, creation succeeds | `TestThreads` implements `TestLifecycle`; `run_test_def()` returns |
| `dispatch_books` | 3 definitions on 2 queues, one of them skipped on both and the others selected for one queue each, 2 slots, process isolation with 2 jobs and thread isolation, forking or not (those that `runner_init()` accepts), 2 SIGINTs, workers crash anywhere, tests may hang | counters agree with slots; no answer is lost, reported twice or under another name; what the exit status counts; processes are not shared; the test run ends |
| `dispatch_verdict` | 4 definitions, one skipped, one for a queue that does not exist; 1 queue; forking with 1 or 2 jobs, or not | every case reported once under its name; timeouts hit their own test only |
| `dispatch_fds` | 3 slots, 7 workers one after the other | no leak; death is noticed; result events go to their owner |
| `selection` | 4 tests, one of them a bench test; all options with up to one pattern, and up to three patterns with 0 to 2 `!`s and suffixes beyond 32 bits; jobs up to more than there are slots | the enabled tests and their queues are those that the manual promises, if no pattern begins with two `!`s; what becomes of each option |
| `setup` | devices with 1, 3 and 3 families, 4 definitions with selected options, 2 threads, 3 kinds of user objects; every step may fail | objects go in an order that their parents allow, on a queue that is idle or was lost to a failed wait, all that have a cleanup command; the queue is the right one; each stack implements `UnwindStack` |
| `images` | a PNG file, a Vulkan image with up to 2 references, arrays of two formats; every call may fail | maps and staging buffers are given back; copy and compare say the truth |
| `threads_no_rollback`, `threads_cleanup_race`, `threads_destroy`, `dispatch_drops_test` | small ones | TLC's counterexamples to statements of the repository (section 5) |

Why the bounds are enough.

* *Threads.* With two user threads and the first, three threads can race through
  `t_end()`, the yield and the sieve; the sieve tells only "last" from "not last",
  so a third user thread adds no new kind of meeting (and the proofs cover any
  number).
* *Dispatcher.* Two tests, two slots and two jobs give a full dispatcher, a free
  slot being reused, and two workers dying within one `SIGCHLD`. Two SIGINTs
  (`MaxInterrupts`) are the two that the code distinguishes; with a skipped
  definition on both of two queues, there are more cases than definitions. `UintModulus`
  stands for 2^32 and is larger than the queues of an instance.
* *Descriptors.* Three slots are the fewest in which a worker dies that is older
  than one which lives on, while a third is forked; with 7 forks (`MaxForks`) each
  slot is used again with other numbers (and the proofs cover any number of both).
* *Selection.* The verdict on a definition depends on the last pattern that matches
  and on the first pattern's sign: three patterns give a first, a last and one that
  is overruled (and the proofs cover any number). `UintModulus` is 4 here, so that
  suffixes up to 6 meet its end and go beyond it.
* *Setup.* Three families give a first, a middle and a last one, with one and with
  several queues; the queue numbers go up to the first that does not exist (and the
  proofs cover any families). The vector of a stack starts with 4 units and grows
  several times within one test; three doublings are all that `GrownCapacity` may
  need, as lemma `Grows` shows for every capacity and command.
* *Images.* Four images give every pair of kinds, formats with and without a
  copy function between them, and the temporary image. `MaxRefs` is 2 for the
  Vulkan image, which has something to free, and 1 for the others.

All other state is finite by itself. Only `DispatchFds` runs without the check for
deadlock: its system stops when `MaxForks` workers have come and gone.

### Properties

*TestThreads.* `CountExact`: `num_threads` is the number of threads counted,
except in the two windows the code has. `CodeAsserts`: the assertions of the four
files hold. `UnwindsAlone`: stacks are unwound when nobody can touch them.
`DeviceStackLast`: the stack with the `VkDevice` goes last. `InlineCleanupUnwinds`:
without a separate cleanup thread, no stack is forgotten. `ReportedIsFinal`: the
result that leaves the test can no longer change. `PhaseChangesAlone`: what the
comment in `t_enter_next_phase()` claims. `ImplementsLifecycle`, `TestReturns`.

*Dispatcher.* `BooksBalance` (with it, that a slot never owns two tests, which
`worker_rm_test()` relies on: it moves bytes where it should move entries),
`NoDoubleVerdict`, `AnswersAreReported`, `ProcessIsolation`, `TimeoutIsIndividual`,
`EveryTestReported` (in an undisturbed run on one queue), `TestRunEnds`.
`AnsweredNamesRan`: whatever dies, a case passes, fails or is skipped at most once and
only after the loop has come to it on that queue; a loss is reported under queue 0 of a
definition that the loop has come to. `ExitStatusCounts`: the exit
status is success exactly if as many cases passed or were skipped as there are
definitions. What the documents say of either is stronger and does not hold on two
queues (section 5). `BooksBalance` counts the slots but the
one whose setup failed after the `fork()`.

*DispatchFds.* `NoLeak`, `DeathIsNoticed`, `ResultEventsAreOwn`.

*TestSelection.* `SelectedAsDocumented`: the enabled tests against a definition of
the manual's pattern rules (`Documented`) that has no loop and no parity in it, where no
pattern begins with two `!`s, and their count. `QueuesAsDocumented`: the
same for queues, with the one number at which the code differs spelled out.
`SpecialOnlyAskedFor`: no bench, example or self test by accident.
`OptionsInForce`: what the user asked for is in force or refused, with the two
exceptions spelled out: more jobs than slots are as many as there are slots, and process
isolation is accepted without forking, where it isolates nothing (section 5).

*TestSetup.* `ParentsOutlive`, `AllDestroyed`, `IdleAtTeardown`: order, completeness
and time of destruction, at whichever step setup fails, of the objects that have a
cleanup command. The memory of the color and the depth-stencil image has none, so
they say nothing of it (section 5). `IdleAtTeardown` is about `t_queue`, the one queue that
precleanup waits for. `QueueFits`: the choice,
the two arrays filled by other loops and the command pool all mean the same
queue. `EveryFamilyReached`: the runner's queue numbers reach every family of the
device. `StacksUnwind`: the refinement of `UnwindStack`.

*Images.* `MapsReturned`, `NoLeak`: what was mapped or created is given back on
every path, and no assertion on an access mask fails. `CopyTells`: a copy that says
it succeeded has the picture in the destination, not in some staging buffer.
`CompareHonest`: images found equal are equal now, not when they were staged.

### Fairness

*TestThreads*: each thread that can step does (the operating system's
scheduler); a mutex that becomes free again and again is obtained at last
(strong fairness of `StopLock` and `WaitLock`); and the test's own code does
not spin for ever (`UserFinish`), which is an assumption about tests: the code
has the dispatcher's timeout for tests that break it. Spurious wakeups are not
fair.

*Dispatcher*: dispatcher and workers are scheduled; time passes, so a test in
flight expires; `epoll_wait()` is asked for one event at a time and takes ready
descriptors in turn, which is strong fairness of `DrainResultPipe(s)` and
`ReapWorkers`. Nothing is assumed of the tests: `WorkerSendResult` is unfair,
so a test may hang until its timeout kills it. Without a timeout the run
need not end, and no run claims so.

The others are sequential or have nothing that must eventually happen but by
the next step; they state no liveness.

## 4. Proofs

| Module | Theorem | States |
|---|---|---|
| `TestThreadsProofs` | `Invariance` | `Spec => []IInv` |
| | `TypeCorrect`, `CountIsExact`, `AssertsHold`, `UnwindIsAlone`, `ReportIsFinal` | `[]` of `TypeOK`, `CountExact`, `CodeAsserts`, `UnwindsAlone`, `ReportedIsFinal` |
| | `DeviceStackIsLast`, `InlineCleanupIsComplete` | `[]` of `DeviceStackLast`, `InlineCleanupUnwinds` |
| | `PhaseChangesAreAlone` | the action property `PhaseChangesAlone` |
| | `VerdictIsOne` | `[]OneVerdict` |
| | `RefinesLifecycle` | initial states and steps of `TestThreads` are those of `TestLifecycle` |
| `TestSetupProofs` | `TypeCorrect` | `[]TypeOK`, with it that every stack is `WellFormed` |
| | `NothingOutlivesItsParents`, `EverythingIsDestroyed` | `[]` of `ParentsOutlive`, `AllDestroyed` |
| | `TheRightQueue`, `EachFamilyIsReached` | `[]` of `QueueFits`, `EveryFamilyReached` |
| | `TeardownIsIdle` | the action property `IdleAtTeardown` |
| | `StacksKeepThePromise` | `StacksUnwind`: each stack implements `UnwindStack` |
| `TestSelectionProofs` | `TypeCorrect`, `WalkIsRight` | `[]TypeOK`, `[]WalkInv` |
| | `SelectionIsRight`, `QueuesAreRight`, `SpecialAreAskedFor`, `OptionsAreInForce` | `[]` of the four properties |
| `DispatcherProofs` | `Invariance` | `[](SlotInv /\ PipeInv)` |
| | `BooksAlwaysBalance`, `ProcessesAreIsolated` | `[]` of `BooksBalance`, `ProcessIsolation` |
| `DispatchReportsProofs` | `TypeCorrect`, `AnswersAreAlwaysReported` | `[]TypeOK`, the action property `AnswersAreReported` |
| | `NothingIsReportedTwice` | `[]NoDoubleVerdict` |
| `DispatchTotalsProofs` | `TimeoutsAreIndividual` | the action property `TimeoutIsIndividual`, if `Undisturbed` |
| | `EachTestIsReported` | `[]EveryTestReported`, if `Undisturbed` |
| | `AnswersNameTheirCases`, `ExitStatusIsACount` | `[]` of `AnsweredNamesRan`, `ExitStatusCounts`, on any number of queues |
| `DispatchFdsProofs` | `NothingLeaks`, `ResultsAreOwn`, `DeathIsAlwaysNoticed` | `[]` of `NoLeak`, `ResultEventsAreOwn`, `DeathIsNoticed` |
| `ImagesProofs` | `Invariance` | `[]Inv` |
| | `EveryMapIsReturned`, `NothingLeaks` | `[]` of `MapsReturned`, `NoLeak` |
| | `CopiesTellTheTruth`, `ComparisonsAreHonest` | `[]` of `CopyTells`, `CompareHonest` |

They hold for every value of the constants that the assumptions of the modules
allow: any finite set of user threads, whether or not `pthread_create()` can fail;
any number of tests, patterns, queues and processors; any set of tests on devices
with any families, any set of objects that a start function may make; any finite set of slots, any
requests, crashes in any set of states, any number of interrupts and of forks; any
set of images of any kinds and formats, with any number of references.

**Threads.** No property is inductive by itself: that the phase stands still
for a thread in a test's body follows from that thread being counted, and the
count being exact follows from a decrement to 0 leaving nobody behind. `IInv`
ties both together:

1. `CountExact`: `num_threads` is the cardinality of `Counted`, or 0 in the windows.
2. `SoleThread`: whoever is past the sieve is alone, since a count of 1
   that includes it leaves room for no other.
3. `LocationPhase`, `MainPhase`: as only a sole thread moves the phase, each
   location is met in a fixed range of phases.
4. `StopsFinal`: only a test with a final result stops, unless it was skipped.
5. `UnwindsApart`: while the cleanup thread exists, its creator can
   only be on its way out.

On top of it, `StackOrder` says that the first thread's stack is the last of the
list from the moment it is there, since every other thread is created after it
and stacks are prepended; `InlineCleanup` that a test with inline cleanup is
either before its unwinding, in it, or has none left; and `OneVerdict` what the
result of the test is while its threads decide on it: `result_is_final` stands for
exactly one thread that has, or will have, merged its own. With the latter each
action is a step of `TestLifecycle` or leaves its variables alone.

**Setup.** `NameAssumption` says that names stand for themselves: setup's objects, the
command pools and what start functions make are different things under different names.
`TestAssumption` types the tests, and asks for what `tapi/t_def.h` asks of a
definition with a reference stencil image, and that the first device is the first
device. The argument has four parts.

1. *Bytes.* `Coded` says that a vector is a stack: `WellFormed`, and its headers can be
   followed down to the bottom, giving a sequence of commands. `PushAdds` and `PopRemoves`
   show that pushing adds one command at the end and popping removes it, whatever
   lies beyond the end of the vector, and that the object of the popped command is read
   correctly out of memory that is no longer in use. The sequence is unique
   (`OneDecoding`, by well-foundedness of the naturals: a least header at which two
   decodings differ does not exist).
2. *Steps.* `Rank` gives each step its place in `t_setup_vulkan()`, and `StepsOrdered`
   shows, part by part as the function concatenates them, that for every
   test the ranks go up, so that no object is made twice and each is
   made after all that it belongs to (`NeedsMade`).
3. *Queues.* `FamilySize` and `NextFamily` show that a family's numbers are an interval
   that starts where that of the one before ends. So the choice is unique
   (`ChoiceIs`), it is the entry at that place of the arrays (`ChosenQueue`), and
   the first number of each family is reached once (`EachFamilyOnce`).
4. *Objects.* `IInv` says what stacks and living objects have to do with each other:
   each command stands for an object of its own (`EachItsOwn`), which lives (`AllLive`),
   and what it was made from is further down on the same stack or on that of the
   thread that ran setup (`ParentsBelow`), which is unwound last (`ListedStacks`).
   Neither `ParentsOutlive` nor `AllDestroyed` is inductive without these: that
   the next command may be run depends on what lies below it. `PushKeeps` and
   `PopKeeps` carry them over a push and a pop, `MemoryKeeps` over an allocation of image
memory, which touches no stack, and each action is one of these, two of them
   (the two images of a comparison) or none.

The refinement then takes `PushAdds` and `PopRemoves` again: a step appends to
`Commands(stack[th])` what may be pushed, drops its last, or leaves it alone, and the
object that was run is the last command's.

**Selection.** `WalkInv` says what is known when the walk stands at a definition
and a pattern: definitions behind it are decided by all the patterns, the one it
stands at by those already tried, those ahead not at all. The rules are stated by
quantifiers over "the last pattern that matches", so a step from k to k + 1
patterns is a lemma on that and not an induction. `SelectionIsRight` then needs that for
patterns with at most one `!` the parity of their number is the manual's rule
(`RulesAreDocumented`).

**Dispatcher.** `SlotInv` relates slots, counters, processes and the place where the
dispatcher stands (`Stage`; while it collects a result, the place to which it will
return; with a process that was never counted, the run is past dispatching): a slot owns at most one test, and a worker is chosen only if it owns
none. In process isolation that is because it is new, in thread isolation because
there is only one job and none is in flight. `PipeInv` gives the few contents
that a dispatch pipe can have and says that a worker that has had a test has had
its sentinel. That counters match is an argument on cardinalities of sets of
(slot, test) pairs; the choice of the lowest slot is shown to be one by
the well-foundedness of the naturals.

**Reports.** `PacketsOf` counts (slot, position) pairs, so a packet in a pipe makes
the count positive; the only steps that empty a pipe are those that add the
count to the reports. Types need `RunningInv`: a process that runs a test knows its
case, so what it writes is a packet.

**Verdicts.** A table of counters is the set of its reports, numbered within each
entry (`Made`); a step that reports adds as many members as it has slots to report
of, which is one bijection (`NumberedOnce`) and needs no induction over tests.
`NoDoubleVerdict` then compares cardinalities of sets, and is kept because a slot that is
heard of gives up its test in the same step. What makes that exact is
`ParcelInv`: the case of a slot is in one place, unread in the dispatch pipe, being
run, or answered, and only while the slot owns the test. So an answer read
from a pipe is never a second one, whether the worker is killed before, while or
after it writes it.

**Totals.** Two facts hold whatever dies, on any number of queues. `AnswerInv` says
that a case is at one place at most: ahead of the loop, picked, with one slot
(`Parcel`), or answered. Hence a case is answered once, under its own name
(`AnswersNameTheirCases`); so the good reports number as many as the cases that were
good, and the exit status compares that with the number of definitions
(`ExitStatusIsACount`).

That each case is reported is false in general: a worker that crashes loses its test
under queue 0, and a test handed to one that a SIGINT has just killed vanishes,
as run `dispatch_drops_test` shows. `Undisturbed` excludes crashes and interrupts
(`CrashIn = {}`, `MaxInterrupts = 0`) and allows timeouts where a process has one test
and there is one queue; otherwise a worker killed for a timeout may be chosen again, or
the report goes to a name that was not run. Any
number of tests, jobs and slots, skips, both isolations, hanging tests and timeouts that
race answers remain. The instance of run `dispatch_verdict` satisfies it. Under it:

1. `DeathInv`: a worker dies only of its test's timeout, or of a sentinel, which lies
   behind everything else in its pipe; so a dead worker that owns a test and has not
   answered is past its timeout, and an open worker is alive.
2. `TodoInv`: what a slot owes is a case that the loop has come to and that can be
   run; hence the name made up for a lost test is that of the case it stands for.
3. `CaseInv`: each case is at exactly one place: ahead of the loop, picked, owed by one
   slot, or reported once. At the end the first three are empty, as the
   dispatcher has let go of all its workers.

**Descriptors.** `pipe2()` takes the lowest free numbers. That they exist and are
different rests on one lemma about ranks, `RankExists`: for each place of a finite
set of numbers, some member of the set has that many members below it; and free
numbers are enough because every slot accounts for at most four. `HeldInv` then says what a worker can hold: its own ends and,
of older workers, only those that the dispatcher keeps, never the ends that a worker
has for itself. With it the death of a worker closes the last copy of its ends.

**Images.** An operation is a set of outcomes, so its lemma is a triple: if the state is
sane and the images are not mapped, every outcome is sane, changes these images only,
leaves them unmapped, and has done what it says if it says true (`AfterMap`,
`AfterUnmap`, `AfterCall`, `AfterCopy`, `AfterWrite`). Each lemma follows from those of
the functions that the function calls, in the order of its calls and failures. `Sound`
is what every state on the way keeps: a staging buffer is there as a whole or not at
all, a mapped Vulkan image has one, and a file that is decoded holds what the file
holds, which is why an image may be mapped a second time without being read again.
`Settled` is what holds between calls: the temporary image is gone, and a mapped image
is one that the test has mapped. `abort()` in a copy from a file is the one outcome that
leaves a mapped or temporary image behind, and it ends the process.

TLC checks `IInv` as an invariant of run `threads` and has checked the other
invariants on the instances of the runs (of `Coded`, all but that a decoding exists,
which TLC would have to find among too many functions).

Only model-checked: liveness (`TestReturns`, `TestRunEnds`, the fairness of
`TestLifecycle`), since `ENABLED` and fairness are out of the prover's reach, and the
four runs that show a disagreement. Every other property of a run is a theorem;
`TimeoutIsIndividual` and `EveryTestReported` if `Undisturbed`.

## 5. Where code and words differ

Shown by runs, with the quoted line in `PROJECT.json`:

* `t_thread.c:109`: a failed `pthread_create()` is never rolled back, as its error
  numbers are positive. The count stays too high and the test never stops.
* `t_thread.c:58`: a separate cleanup thread can be diverted by its own first
  yield, and the test stops with its stacks full.
* `test.c:69`: the broadcast comes after the unlock, so the test may be
  destroyed under it.
* `dispatcher.c:647`: a test given to a worker that has just been killed vanishes.

Seen while modelling, and part of the models where they cover it, without a run of
their own.

Runner:

* `dispatcher.c:397` compares the cases that passed or were skipped with definitions,
  where `runner.c:119` promises success "if and only all tests pass or skip". With
  more than one queue a passing run is reported as failed, and one in which just as
  many cases fail as there are too many is reported as passed. (`ExitStatusCounts`
  says when.)
* `dispatcher.c:798`: a lost test is reported under queue 0, as a slot does not remember
  queues. One that was selected for queue 1 alone and times out is reported under a
  name that was never run, although `crucible-run.1.txt:40-42` has `func.foo.q1` run on
  queue 1 only. (`AnsweredNamesRan` has it.)
* `dispatcher.c:747-768`: a failure after the `fork()` leaves a live process and its pid in
  the slot but not in `num_workers`. `dispatcher_enter_cleanup_phase()` then tells the
  first worker at most, and the rest end when the dispatcher's pipes do.
* `runner.c:129` counts the parity of leading `!`s: a pattern that begins with two
  includes, where `crucible-run.1.txt:35` says that it excludes.
* `runner.c:66`: process isolation is accepted when the runner does not fork, also
  from the command line, and isolates nothing, where `crucible-run.1.txt:71-73` promises
  a process for each test. Naming a single test turns forking off (`run.c`).
* `dispatcher.c:368`: `-j` above the number of slots is cut down to it without a word.
* `dispatcher.c:805`: the epoll set keeps the output pipes of dead workers while a
  younger worker holds a copy; `epoll_wait()` then returns at once, and the event
  is handled with descriptors that may belong to another stream by now.
* The queue range of the greatest queue number wraps to nothing
  (`dispatcher.c:579`): `.q4294967295` is neither run nor reported.
* With thread isolation a worker killed for a timeout may be given the next test
  before it dies (`dispatcher.c:1141`).
* `runner_vk.c` counts the queues of the first device; setup uses `device_id - 1`.
* A single pattern without `*` counts as one test, whatever `?` it has, and turns
  forking off; `-jN`, thread isolation or a timeout are then refused, although
  the manual calls forking the default. The number after `.q` is
  a queue's, the manual says a family's.

Threads and setup:

* `qonos.c:211-240`: the memory of the color and the depth-stencil image
  (`t_phase_setup.c:129-131`, `213-215`) is pushed on no stack. It is never freed and
  outlives the device it was allocated from; only `__qoAllocMemory()` pushes what it
  allocates. The result of `vkAllocateMemory()` is dropped on the way (`qonos.c:218`),
  although `qonos.h:25-26` says that qonos functions fail the test.
* `qonos.c:125`: if the wait of precleanup fails, the test fails and its objects are
  destroyed all the same, on a queue of which nothing is known.
* `t_thread_yield()` returns to the last counted thread although the result is
  final (`t_thread.c:156`, against `tapi/t_thread.h:49`).
* `t_phases.c:85`: if the allocation of `queue_family` fails, precleanup waits for
  `VK_NULL_HANDLE`.
* `t_phase_setup.c:621-628`: skipping for a missing feature leaks three arrays.
* `t_phase_setup.c:187-242`: the depth-stencil image takes an upgraded format, its
  view and render pass the original one.
* Stacks are unwound newest first, so what a user thread made for the start
  thread's objects to use would go before them; no test in `src/tests` does this.
* Command bodies lie at multiples of four bytes and hold pointers.

Images:

* `cru_vk_image.c:150-156`: the command pool is made for family 0, whatever the
  queue, and the result of `vkCreateCommandPool()` is overwritten.
* `cru_image.c:385-396`: without a copy function, the destination is unmapped
  and what its staging buffer happened to hold is written back.
* `cru_png_image.c:211-214`: a failure to write back aborts the process.
* `cru_png_image.c:272-301`: mapping a PNG file for writing releases a null
  pointer; a second map for reading leaves the access mask alone.
* `cru_image.h:112-119` says that mapping a mapped image fails; the code asserts.

## 6. Plan

Done: threads, selection, dispatcher, descriptors, setup, cleanup stacks, images.

What would come next, most useful first:

1. A composition of `TestSelection` and `Dispatcher`: the definitions, preferences
   and options that the first leaves behind as the second's constants, so that
   "every selected case is reported" runs from the command line to the exit status.
2. `vkQueue` work of several threads, and the dumps of `t_dump.c`.
3. KTX files, whose levels and layers are images of their own.

## 7. Not modelled

* JUnit and terminal output: formatting of reports that are modelled.
* The other commands: argument handling around library calls, no state.
* KTX files, format tables, PNG headers and pixel loops: data without protocol. (The
  conversion of float to eight bits and back is exact for all 256 values, as one
  finds by going through them; the models rely on no more than that.)
* `simple_pipeline.c`, the defaults of the Vulkan wrappers, the GPU tests
* Memory that a start function allocates through `qoAllocImageMemory()` or
  `qoAllocBufferMemory()`: as that of setup's images it is on no stack.
* Queues other than `t_queue`: nothing in the framework waits for them.
* `include/vulkan`, data and scripts:* `include/vulkan`, data and scripts: not Crucible's code. The Vulkan headers are
  nine tenths of the lines in this repository, so the share of lines modelled is small
  however much of Crucible's own code is.

`PROJECT.json` lists each of them.
