---------------------------- MODULE TestThreads ----------------------------
(***************************************************************************)
(* One test run inside one process: src/framework/test/{test,t_thread,     *)
(* t_phases,t_result}.c together with run_test_def() of runner.c.          *)
(*                                                                         *)
(* The framework's thread (Main) creates the test, starts it, waits for    *)
(* TEST_PHASE_STOPPED, reads the result and destroys the test.  The test's *)
(* own threads carry it through its phases: whoever releases itself into   *)
(* the sieve and finds that it is the last thread left enters the next     *)
(* phase.  pc holds where each thread stands between two accesses to state *)
(* that other threads can see.                                             *)
(***************************************************************************)
EXTENDS TestEnums, Sequences, FiniteSets

CONSTANTS
    Main,            \* the thread of run_test_def()
    First,           \* the test's start thread, made by test_start()
    Cleanup,         \* the separate cleanup thread
    User,            \* the threads the test itself starts with t_thread_start()
    NoThread,        \* the holder of a free mutex
    CreateMayFail    \* whether pthread_create() can fail

TestThread == {First, Cleanup} \cup User
Thread == {Main} \cup TestThread

ASSUME ThreadAssumption ==
    /\ Main # First /\ Main # Cleanup /\ First # Cleanup
    /\ User \cap {Main, First, Cleanup} = {}
    /\ NoThread \notin Thread
    /\ IsFiniteSet(User)

ASSUME CreateMayFailAssumption == CreateMayFail \in BOOLEAN

VARIABLES
    phase,           \* test::phase
    num_threads,     \* test::num_threads
    result,          \* test::result
    result_is_final, \* test::result_is_final
    cleanup_stacks,  \* test::cleanup_stacks, head first, each named by its owner
    stop_mutex,      \* holder of test::stop_mutex, or NoThread
    opt,             \* test_def::{skip,no_image}, test::opt.no_separate_cleanup_thread
    pc,              \* where each thread stands
    ending,          \* the argument of the t_end() each thread is making
    reported         \* what test_get_result() returned, or NoResult

vars == <<phase, num_threads, result, result_is_final, cleanup_stacks,
          stop_mutex, opt, pc, ending, reported>>

(* What a thread may be in.  "creating" and "failed" are told of a thread   *)
(* whose creator has counted it: pthread_create() has not returned yet, or  *)
(* it returned an error.                                                    *)
Location ==
    {"unborn", "creating", "failed", "exited",
     "entry", "bound", "body", "yielding", "spawn",
     "complaining", "ending", "merging", "release", "sieve", "lone", "advance",
     "setup", "precleanup", "cleanup", "spawnCleanup", "unwind",
     "stopLock", "stopping", "stopUnlock", "broadcast",
     "start", "spawnFirst", "wait", "waitCheck", "waiting", "woken",
     "waitUnlock", "getResult", "destroy", "done"}

Option == [skip : BOOLEAN, no_image : BOOLEAN,
           no_separate_cleanup_thread : BOOLEAN]

TypeOK ==
    /\ phase \in Phase
    /\ num_threads \in Nat
    /\ result \in Result
    /\ result_is_final \in BOOLEAN
    /\ cleanup_stacks \in Seq(TestThread)
    /\ stop_mutex \in Thread \cup {NoThread}
    /\ opt \in Option
    /\ pc \in [Thread -> Location]
    /\ ending \in [Thread -> Result]
    /\ reported \in Result \cup {NoResult}

At(th, loc) == pc[th] = loc
Goto(th, from, to) == At(th, from) /\ pc' = [pc EXCEPT ![th] = to]

-----------------------------------------------------------------------------
(* test_create_s(): a zeroed test in TEST_PHASE_PRESTART whose result is    *)
(* TEST_RESULT_PASS until somebody says otherwise.                          *)
Init ==
    /\ phase = PRESTART
    /\ num_threads = 0
    /\ result = PASS
    /\ result_is_final = FALSE
    /\ cleanup_stacks = <<>>
    /\ stop_mutex = NoThread
    /\ opt \in Option
    /\ pc = [th \in Thread |-> IF th = Main THEN "start" ELSE "unborn"]
    /\ ending = [th \in Thread |-> PASS]
    /\ reported = NoResult

-----------------------------------------------------------------------------
(* Thread creation.                                                         *)

(* MUTANT: the child is left to count itself.                               *)
CountThreadForgotten(th, from, to, child) ==
    /\ At(th, from)
    /\ At(child, "unborn")
    /\ pc' = [pc EXCEPT ![th] = to, ![child] = "creating"]
    /\ UNCHANGED num_threads

(* test_thread_create(), first half: count the child, then call             *)
(* pthread_create().                                                        *)
CountThread(th, from, to, child) ==
    /\ At(th, from)
    /\ At(child, "unborn")
    /\ num_threads' = num_threads + 1
    /\ pc' = [pc EXCEPT ![th] = to, ![child] = "creating"]

(* Second half: pthread_create() returns 0 or a positive error number, so   *)
(* the comparison with -1 fails either way and the count is kept.           *)
PthreadCreate(th, from, to) ==
    /\ At(th, from)
    /\ \E child \in TestThread :
          /\ At(child, "creating")
          /\ \E outcome \in {"entry"} \cup (IF CreateMayFail THEN {"failed"} ELSE {}) :
                pc' = [pc EXCEPT ![th] = to, ![child] = outcome]
    /\ UNCHANGED <<phase, num_threads, result, result_is_final, cleanup_stacks,
                   stop_mutex, opt, ending, reported>>

(* MUTANT: append to the list of stacks instead of prepending.              *)
EnterThreadAppends(th) ==
    /\ Goto(th, "entry", "bound")
    /\ cleanup_stacks' = Append(cleanup_stacks, th)
    /\ UNCHANGED <<phase, num_threads, result, result_is_final, stop_mutex, opt,
                   ending, reported>>

(* test_thread_start() up to its t_thread_yield(): the thread's own cleanup *)
(* stack is made visible by the compare-and-swap of the atomic prepend.     *)
EnterThread(th) ==
    /\ Goto(th, "entry", "bound")
    /\ cleanup_stacks' = <<th>> \o cleanup_stacks
    /\ UNCHANGED <<phase, num_threads, result, result_is_final, stop_mutex, opt,
                   ending, reported>>

(* The condition under which t_thread_yield() diverts its caller into       *)
(* t_thread_release().  result_is_final never reverts, so the two reads act *)
(* as one taken at the second.                                              *)
Cancelled == result_is_final /\ num_threads > 1

(* What test_thread_create() was given to run: t_thread_release_wrapper(),  *)
(* t_unwind_cleanup_stacks() or the test's own function.                    *)
StartFunc(th) ==
    CASE th = First   -> "release"
      [] th = Cleanup -> "unwind"
      [] OTHER        -> "body"

YieldTo(th, from, to) ==
    /\ Goto(th, from, IF Cancelled THEN "release" ELSE to)
    /\ UNCHANGED <<phase, num_threads, result, result_is_final, cleanup_stacks,
                   stop_mutex, opt, ending, reported>>

(* The yield that test_thread_start() makes before the start function.      *)
StartThread(th) == YieldTo(th, "bound", StartFunc(th))

-----------------------------------------------------------------------------
(* The test's own code: test_def::start() and the threads it starts.        *)

UserStartThread(th) ==
    /\ \E child \in User : CountThread(th, "body", "spawn", child)
    /\ UNCHANGED <<phase, result, result_is_final, cleanup_stacks, stop_mutex,
                   opt, ending, reported>>

UserCreate(th) == PthreadCreate(th, "spawn", "body")

UserYield(th) ==
    /\ Goto(th, "body", "yielding")
    /\ UNCHANGED <<phase, num_threads, result, result_is_final, cleanup_stacks,
                   stop_mutex, opt, ending, reported>>

UserResume(th) == YieldTo(th, "yielding", "body")

(* Call t_end(r) at once, or by way of the t_thread_yield() that t_fail(),  *)
(* t_skip() and t_assert() make before they say anything.                   *)
CallEnd(th, from, r, via) ==
    /\ Goto(th, from, via)
    /\ ending' = [ending EXCEPT ![th] = r]
    /\ UNCHANGED <<phase, num_threads, result, result_is_final, cleanup_stacks,
                   stop_mutex, opt, reported>>

UserEnd(th) ==
    \/ \E r \in {PASS, SKIP, FAIL} : CallEnd(th, "body", r, "ending")
    \/ \E r \in {SKIP, FAIL} : CallEnd(th, "body", r, "complaining")

(* The start function returns, or calls t_thread_release().                 *)
UserReturn(th) ==
    /\ Goto(th, "body", "release")
    /\ UNCHANGED <<phase, num_threads, result, result_is_final, cleanup_stacks,
                   stop_mutex, opt, ending, reported>>

UserFinish(th) == UserEnd(th) \/ UserReturn(th)

-----------------------------------------------------------------------------
(* Selecting the result.                                                    *)

Complain(th) == YieldTo(th, "complaining", "ending")

(* MUTANT: t_end() without looking at what the exchange returned.           *)
EndAlwaysMerges(th) ==
    /\ Goto(th, "ending", "merging")
    /\ result_is_final' = TRUE
    /\ UNCHANGED <<phase, num_threads, result, cleanup_stacks, stop_mutex, opt,
                   ending, reported>>

(* t_end(): the atomic exchange picks the one caller that may merge.        *)
End(th) ==
    /\ Goto(th, "ending", IF result_is_final THEN "release" ELSE "merging")
    /\ result_is_final' = TRUE
    /\ UNCHANGED <<phase, num_threads, result, cleanup_stacks, stop_mutex, opt,
                   ending, reported>>

(* test_result_merge(): the accumulated result is the MAX of old and new.   *)
Merge(th) ==
    /\ Goto(th, "merging", "release")
    /\ result' = IF ending[th] > result THEN ending[th] ELSE result
    /\ UNCHANGED <<phase, num_threads, result_is_final, cleanup_stacks,
                   stop_mutex, opt, ending, reported>>

-----------------------------------------------------------------------------
(* Leaving a phase.                                                         *)

Release(th) ==
    /\ Goto(th, "release", "sieve")
    /\ UNCHANGED <<phase, num_threads, result, result_is_final, cleanup_stacks,
                   stop_mutex, opt, ending, reported>>

(* MUTANT: one more than the last thread is taken for the last.             *)
SieveEarly(th) ==
    /\ Goto(th, "sieve", IF num_threads <= 2 THEN "lone" ELSE "exited")
    /\ num_threads' = num_threads - 1
    /\ UNCHANGED <<phase, result, result_is_final, cleanup_stacks, stop_mutex,
                   opt, ending, reported>>

(* t_thread_sieve(): the atomic decrement tells the last thread from the    *)
(* others.                                                                  *)
Sieve(th) ==
    /\ Goto(th, "sieve", IF num_threads = 1 THEN "lone" ELSE "exited")
    /\ num_threads' = num_threads - 1
    /\ UNCHANGED <<phase, result, result_is_final, cleanup_stacks, stop_mutex,
                   opt, ending, reported>>

(* MUTANT: the last thread does not count itself again.                     *)
RecountForgotten(th) ==
    /\ Goto(th, "lone", "advance")
    /\ UNCHANGED <<phase, num_threads, result, result_is_final, cleanup_stacks,
                   stop_mutex, opt, ending, reported>>

Recount(th) ==
    /\ Goto(th, "lone", "advance")
    /\ num_threads' = 1
    /\ UNCHANGED <<phase, result, result_is_final, cleanup_stacks, stop_mutex,
                   opt, ending, reported>>

(* t_enter_next_phase(): the switch on the phase, and the store with which  *)
(* each t_enter_*_phase() begins.                                           *)
EnterPhase(th, from, next, to) ==
    /\ phase = from
    /\ Goto(th, "advance", to)
    /\ phase' = next
    /\ UNCHANGED <<num_threads, result, result_is_final, cleanup_stacks,
                   stop_mutex, opt, ending, reported>>

EnterSetup(th) == EnterPhase(th, PRESTART, SETUP, "setup")

(* t_enter_main_phase() does not run the test's start function when the     *)
(* setup phase has settled the result.                                      *)
EnterMain(th) ==
    EnterPhase(th, SETUP, MAIN, IF result_is_final THEN "sieve" ELSE "body")

EnterPrecleanup(th) == EnterPhase(th, MAIN, PRECLEANUP, "precleanup")

EnterCleanup(th) ==
    EnterPhase(th, PRECLEANUP, CLEANUP,
               IF opt.no_separate_cleanup_thread THEN "unwind" ELSE "cleanup")

(* MUTANT: the last thread stays on the count.                              *)
EnterStoppedCounted(th) ==
    /\ phase = CLEANUP
    /\ Goto(th, "advance", "stopLock")
    /\ result_is_final' = TRUE
    /\ UNCHANGED <<phase, num_threads, result, cleanup_stacks, stop_mutex, opt,
                   ending, reported>>

(* MUTANT: a result that no t_end() has chosen stays open.                  *)
EnterStoppedOpen(th) ==
    /\ phase = CLEANUP
    /\ Goto(th, "advance", "stopLock")
    /\ num_threads' = 0
    /\ UNCHANGED <<phase, result, result_is_final, cleanup_stacks, stop_mutex,
                   opt, ending, reported>>

(* t_enter_stopped_phase(): the result becomes final whatever it is.        *)
EnterStopped(th) ==
    /\ phase = CLEANUP
    /\ Goto(th, "advance", "stopLock")
    /\ result_is_final' = TRUE
    /\ num_threads' = 0
    /\ UNCHANGED <<phase, result, cleanup_stacks, stop_mutex, opt, ending, reported>>

-----------------------------------------------------------------------------
(* The work of the phases.                                                  *)

(* t_setup_ref_images() and t_setup_vulkan(): done, or given up with a skip *)
(* or a failed assertion.                                                   *)
Setup(th) ==
    \/ /\ Goto(th, "setup", "sieve")
       /\ UNCHANGED <<phase, num_threads, result, result_is_final,
                      cleanup_stacks, stop_mutex, opt, ending, reported>>
    \/ \E r \in {SKIP, FAIL}, via \in {"ending", "complaining"} :
          CallEnd(th, "setup", r, via)

(* t_enter_precleanup_phase(): waiting for the queue may fail an assertion  *)
(* at any time, t_compare_image() is called only while the result is open.  *)
Precleanup(th) ==
    \/ /\ Goto(th, "precleanup", "sieve")
       /\ UNCHANGED <<phase, num_threads, result, result_is_final,
                      cleanup_stacks, stop_mutex, opt, ending, reported>>
    \/ CallEnd(th, "precleanup", FAIL, "complaining")
    \/ /\ ~result_is_final /\ ~opt.no_image
       /\ CallEnd(th, "precleanup", FAIL, "ending")

(* t_enter_cleanup_phase() with a separate cleanup thread.                  *)
CleanupStartThread(th) ==
    /\ CountThread(th, "cleanup", "spawnCleanup", Cleanup)
    /\ UNCHANGED <<phase, result, result_is_final, cleanup_stacks, stop_mutex,
                   opt, ending, reported>>

(* MUTANT: the result thread unwinds too.                                   *)
CleanupCreateUnwinds(th) == PthreadCreate(th, "spawnCleanup", "unwind")

CleanupCreate(th) == PthreadCreate(th, "spawnCleanup", "release")

(* MUTANT: only the first stack is run down.                                *)
UnwindFirst(th) ==
    /\ Goto(th, "unwind", "sieve")
    /\ cleanup_stacks' = IF cleanup_stacks = <<>> THEN <<>> ELSE Tail(cleanup_stacks)
    /\ UNCHANGED <<phase, num_threads, result, result_is_final, stop_mutex, opt,
                   ending, reported>>

(* t_unwind_cleanup_stacks(): pop one stack and run it down, or go on.      *)
Unwind(th) ==
    /\ At(th, "unwind")
    /\ IF cleanup_stacks # <<>>
       THEN cleanup_stacks' = Tail(cleanup_stacks) /\ UNCHANGED pc
       ELSE pc' = [pc EXCEPT ![th] = "sieve"] /\ UNCHANGED cleanup_stacks
    /\ UNCHANGED <<phase, num_threads, result, result_is_final, stop_mutex, opt,
                   ending, reported>>

-----------------------------------------------------------------------------
(* test_broadcast_stop(), run by the last test thread or by Main.           *)

StopLock(th) ==
    /\ stop_mutex = NoThread
    /\ Goto(th, "stopLock", "stopping")
    /\ stop_mutex' = th
    /\ UNCHANGED <<phase, num_threads, result, result_is_final, cleanup_stacks,
                   opt, ending, reported>>

StopSetPhase(th) ==
    /\ Goto(th, "stopping", "stopUnlock")
    /\ phase' = STOPPED
    /\ UNCHANGED <<num_threads, result, result_is_final, cleanup_stacks,
                   stop_mutex, opt, ending, reported>>

StopUnlock(th) ==
    /\ Goto(th, "stopUnlock", "broadcast")
    /\ stop_mutex' = NoThread
    /\ UNCHANGED <<phase, num_threads, result, result_is_final, cleanup_stacks,
                   opt, ending, reported>>

(* MUTANT: nobody is woken.                                                 *)
BroadcastForgotten(th) ==
    /\ Goto(th, "broadcast", IF th = Main THEN "wait" ELSE "exited")
    /\ UNCHANGED <<phase, num_threads, result, result_is_final, cleanup_stacks,
                   stop_mutex, opt, ending, reported>>

(* pthread_cond_broadcast(), after the mutex has been given up.  Main goes  *)
(* on to test_wait(); a test thread exits.                                  *)
Broadcast(th) ==
    /\ At(th, "broadcast")
    /\ pc' = [t \in Thread |->
                 CASE t = th -> (IF th = Main THEN "wait" ELSE "exited")
                   [] t # th /\ At(t, "waiting") -> "woken"
                   [] OTHER -> pc[t]]
    /\ UNCHANGED <<phase, num_threads, result, result_is_final, cleanup_stacks,
                   stop_mutex, opt, ending, reported>>

-----------------------------------------------------------------------------
(* run_test_def(): test_start(), test_wait(), test_get_result() and         *)
(* test_destroy().                                                          *)

StartSkipped ==
    /\ opt.skip
    /\ Goto(Main, "start", "stopLock")
    /\ result' = SKIP
    /\ UNCHANGED <<phase, num_threads, result_is_final, cleanup_stacks,
                   stop_mutex, opt, ending, reported>>

StartTest ==
    /\ ~opt.skip
    /\ CountThread(Main, "start", "spawnFirst", First)
    /\ UNCHANGED <<phase, result, result_is_final, cleanup_stacks, stop_mutex,
                   opt, ending, reported>>

StartCreate == PthreadCreate(Main, "spawnFirst", "wait")

(* MUTANT: pthread_cond_wait() under an if where there is a while.          *)
WaitLockOnce ==
    /\ stop_mutex = NoThread
    /\ Goto(Main, "wait", "waitCheck") \/ Goto(Main, "woken", "waitUnlock")
    /\ stop_mutex' = Main
    /\ UNCHANGED <<phase, num_threads, result, result_is_final, cleanup_stacks,
                   opt, ending, reported>>

(* pthread_mutex_lock(), on entry or when pthread_cond_wait() returns.      *)
WaitLock ==
    /\ stop_mutex = NoThread
    /\ \E from \in {"wait", "woken"} : Goto(Main, from, "waitCheck")
    /\ stop_mutex' = Main
    /\ UNCHANGED <<phase, num_threads, result, result_is_final, cleanup_stacks,
                   opt, ending, reported>>

(* The loop's test; pthread_cond_wait() gives up the mutex as it blocks.    *)
WaitCheck ==
    /\ Goto(Main, "waitCheck", IF phase < STOPPED THEN "waiting" ELSE "waitUnlock")
    /\ stop_mutex' = IF phase < STOPPED THEN NoThread ELSE stop_mutex
    /\ UNCHANGED <<phase, num_threads, result, result_is_final, cleanup_stacks,
                   opt, ending, reported>>

(* pthread_cond_wait() may return although nobody has signalled.            *)
WakeSpuriously ==
    /\ Goto(Main, "waiting", "woken")
    /\ UNCHANGED <<phase, num_threads, result, result_is_final, cleanup_stacks,
                   stop_mutex, opt, ending, reported>>

WaitUnlock ==
    /\ Goto(Main, "waitUnlock", "getResult")
    /\ stop_mutex' = NoThread
    /\ UNCHANGED <<phase, num_threads, result, result_is_final, cleanup_stacks,
                   opt, ending, reported>>

GetResult ==
    /\ Goto(Main, "getResult", "destroy")
    /\ reported' = result
    /\ UNCHANGED <<phase, num_threads, result, result_is_final, cleanup_stacks,
                   stop_mutex, opt, ending>>

(* test_destroy(): the mutex, the condition and the test itself are gone.   *)
Destroy ==
    /\ Goto(Main, "destroy", "done")
    /\ UNCHANGED <<phase, num_threads, result, result_is_final, cleanup_stacks,
                   stop_mutex, opt, ending, reported>>

-----------------------------------------------------------------------------
ThreadStep(th) ==
    \/ EnterThread(th) \/ StartThread(th)
    \/ UserStartThread(th) \/ UserCreate(th) \/ UserYield(th) \/ UserResume(th)
    \/ UserFinish(th)
    \/ Complain(th) \/ End(th) \/ Merge(th)
    \/ Release(th) \/ Sieve(th) \/ Recount(th)
    \/ EnterSetup(th) \/ EnterMain(th) \/ EnterPrecleanup(th) \/ EnterCleanup(th)
    \/ EnterStopped(th)
    \/ Setup(th) \/ Precleanup(th)
    \/ CleanupStartThread(th) \/ CleanupCreate(th) \/ Unwind(th)

StopStep(th) ==
    StopLock(th) \/ StopSetPhase(th) \/ StopUnlock(th) \/ Broadcast(th)

MainStep ==
    \/ StartSkipped \/ StartTest \/ StartCreate
    \/ WaitLock \/ WaitCheck \/ WaitUnlock \/ GetResult \/ Destroy

(* The process lives on after run_test_def() has returned.                  *)
Finished == At(Main, "done") /\ UNCHANGED vars

Next ==
    \/ \E th \in TestThread : ThreadStep(th)
    \/ \E th \in Thread : StopStep(th)
    \/ MainStep
    \/ WakeSpuriously
    \/ Finished

Spec == Init /\ [][Next]_vars

(* Every thread is scheduled, a mutex that keeps becoming free is obtained, *)
(* and the test's own code ends; the dispatcher's timeout is there for      *)
(* tests that do not.                                                       *)
Fairness ==
    /\ \A th \in TestThread : WF_vars(ThreadStep(th)) /\ SF_vars(UserFinish(th))
    /\ \A th \in Thread : WF_vars(StopStep(th)) /\ SF_vars(StopLock(th))
    /\ WF_vars(MainStep) /\ SF_vars(WaitLock)

FairSpec == Spec /\ Fairness

-----------------------------------------------------------------------------
(* Threads that num_threads stands for.  A thread whose creation failed is  *)
(* among them: nothing ever takes it off the count again.                   *)
Counted == {th \in TestThread : pc[th] \notin {"unborn", "exited"}}

(* Threads that exist and have yet to pass through the sieve.               *)
Running == {th \in TestThread : pc[th] \notin {"unborn", "creating", "failed", "exited"}}

StopLocation == {"stopLock", "stopping", "stopUnlock", "broadcast"}

(* The thread count is exact except where the code says it is not: in the   *)
(* sieve's window and after t_enter_stopped_phase() has zeroed it.          *)
CountExact ==
    num_threads = IF \E th \in TestThread : pc[th] \in {"lone"} \cup StopLocation
                  THEN 0 ELSE Cardinality(Counted)

(* Every assert() and log_internal_error() that guards the thread and phase *)
(* machinery holds: ASSERT_TEST_IN_MAJOR_PHASE in the t_*() calls,          *)
(* "num_threads == 1" on entering a phase, a sieve that never finds 0, no   *)
(* release or phase switch in TEST_PHASE_STOPPED, "phase == CLEANUP" while  *)
(* unwinding, "num_threads == 0" when stopping and when destroying.         *)
CodeAsserts ==
    /\ \A th \in TestThread :
          /\ pc[th] \in {"body", "yielding", "spawn", "complaining", "ending",
                         "merging", "setup", "precleanup", "cleanup", "spawnCleanup"}
                => phase \in MajorPhase
          /\ pc[th] = "advance" => num_threads = 1
          /\ pc[th] = "sieve" => num_threads >= 1
          /\ pc[th] \in {"release", "sieve", "advance"} => phase < STOPPED
          /\ pc[th] = "unwind" => phase = CLEANUP
    /\ \A th \in Thread :
          pc[th] = "stopping" => num_threads = 0 /\ phase < STOPPED
    /\ pc[Main] = "getResult" => phase = STOPPED
    /\ pc[Main] = "destroy" => phase = STOPPED /\ num_threads = 0

(* cru_slist_pop() and the stacks' own commands are not thread safe, so     *)
(* while a thread unwinds the cleanup stacks no other thread may prepend a  *)
(* stack or run code that can push onto one.                                *)
UnwindsAlone ==
    \A th, other \in TestThread :
        At(th, "unwind") /\ other # th =>
            pc[other] \in {"unborn", "failed", "exited",
                           "spawnCleanup", "release", "sieve"}

(* The start thread's stack holds the VkDevice and the instance, so it has  *)
(* to be run down after the stacks of all other threads.                    *)
DeviceStackLast ==
    \A i \in DOMAIN cleanup_stacks : cleanup_stacks[i] = First => i = Len(cleanup_stacks)

(* "During TEST_PHASE_CLEANUP, all cleanup stacks are unwound" (test.h), in *)
(* the configuration that unwinds them in the result thread.                *)
InlineCleanupUnwinds ==
    phase = STOPPED /\ opt.no_separate_cleanup_thread => cleanup_stacks = <<>>

(* "Eliminate all race conditions during the phase transition by reducing   *)
(* the test's thread count to 1" (t_enter_next_phase): the phase moves only *)
(* in steps of one, or straight to the end for a skipped test, and no two   *)
(* test threads are running, nor is one being created, when it does.        *)
PhaseChangesAlone ==
    [][phase' # phase =>
          /\ phase' = phase + 1 \/ (opt.skip /\ phase' = STOPPED)
          /\ Cardinality(Running) <= 1
          /\ \A th \in TestThread : pc[th] # "creating"]_vars

(* What test_get_result() hands to the dispatcher is the test's result for  *)
(* good: it is never read while a t_end() can still merge into it.          *)
ReportedIsFinal ==
    reported # NoResult =>
        /\ reported = result
        /\ \A th \in TestThread : pc[th] \notin {"merging"}
        /\ result_is_final \/ opt.skip

(* The verdict that a test has at each moment: settled by the atomic        *)
(* exchange of the first t_end(), before that thread has merged it.         *)
Verdict ==
    IF \E th \in TestThread : At(th, "merging")
    THEN ending[CHOOSE th \in TestThread : At(th, "merging")]
    ELSE IF result_is_final \/ phase = STOPPED THEN result ELSE NoResult

Lifecycle == INSTANCE TestLifecycle WITH verdict <- Verdict

(* However many threads race through t_end(), t_thread_release() and the    *)
(* sieve, the runner sees a test with one verdict, taken by the first       *)
(* t_end(), and phases in order; with fairness, the verdict is reported.    *)
ImplementsLifecycle == Lifecycle!Spec

(* run_test_def() returns: no wakeup is lost between the broadcast and      *)
(* test_wait(), and the last thread always carries on.                      *)
TestReturns == <>At(Main, "done")

-----------------------------------------------------------------------------
(* Why the above holds: the inductive invariant, in named parts.            *)

Absent == {"unborn", "exited"}

(* Where a test thread stands only when all others have exited.             *)
SoloLocation ==
    {"lone", "advance", "setup", "precleanup", "cleanup"} \cup StopLocation

SoleThread ==
    \A th, other \in TestThread :
        pc[th] \in SoloLocation /\ other # th => pc[other] \in Absent

(* Which phases each location of a test thread can be met in.  A thread's   *)
(* start decides, because the phase waits for everyone that is counted.     *)
LocationPhase ==
    \A th \in TestThread :
        /\ pc[th] \in {"body", "yielding", "spawn", "complaining", "ending",
                       "merging", "setup", "precleanup", "cleanup", "spawnCleanup"}
              => phase \in MajorPhase
        /\ th \in User /\ pc[th] \in {"creating", "failed", "entry", "bound"}
              => phase \in MajorPhase
        /\ th = Cleanup /\ pc[th] \in {"creating", "failed", "entry", "bound"}
              => phase = CLEANUP
        /\ pc[th] \in {"cleanup", "unwind", "stopLock", "stopping"} => phase = CLEANUP
        /\ pc[th] \in {"stopUnlock", "broadcast"} => phase = STOPPED
        /\ phase = STOPPED => pc[th] \in Absent \cup {"stopUnlock", "broadcast"}

(* What Main knows: until it has started the test there are no threads, and *)
(* it leaves test_wait() only when the test has stopped.                    *)
MainPhase ==
    /\ pc[Main] \in {"start"} \cup StopLocation =>
          /\ num_threads = 0
          /\ \A th \in TestThread : pc[th] = "unborn"
    /\ pc[Main] = "start" => phase = PRESTART
    /\ pc[Main] \in {"stopLock", "stopping"} => phase = PRESTART /\ opt.skip
    /\ pc[Main] \in {"stopUnlock", "broadcast", "waitUnlock", "getResult", "destroy", "done"}
          => phase = STOPPED
    /\ reported # NoResult => pc[Main] \in {"destroy", "done"} /\ reported = result

(* A test stops only with a result that is final, or as a skipped test.     *)
StopsFinal ==
    /\ phase = STOPPED => result_is_final \/ opt.skip
    /\ \A th \in TestThread : pc[th] \in StopLocation => result_is_final

(* While there is an unwinding thread, or a cleanup thread about to unwind, *)
(* the thread that made it is at most on its way out.                       *)
UnwindsApart ==
    \A th, other \in TestThread :
        /\ other # th
        /\ \/ pc[th] = "unwind"
           \/ th = Cleanup /\ pc[th] \in {"creating", "entry", "bound"}
        => pc[other] \in {"unborn", "exited", "spawnCleanup", "release", "sieve"}

Located == SoleThread /\ LocationPhase /\ MainPhase /\ StopsFinal /\ UnwindsApart

(* The inductive invariant that TypeOK and the safety properties follow     *)
(* from: the count is exact, so the thread that the sieve leaves is alone,  *)
(* so the phase stands still for everybody else.                            *)
IInv == TypeOK /\ CountExact /\ Located

(* Why the stacks are run down in order and in full: as long as the first   *)
(* thread has not prepended its own there is no other thread and no stack.  *)
Early == {"unborn", "creating", "failed", "entry"}
StackOrder ==
    /\ pc[First] \in Early =>
          /\ cleanup_stacks = <<>>
          /\ \A th \in TestThread \ {First} : pc[th] = "unborn"
    /\ DeviceStackLast

(* Without a cleanup thread the result thread is alone in the cleanup phase *)
(* and gets past the unwinding only when nothing is left.                   *)
InlineCleanup ==
    opt.no_separate_cleanup_thread =>
        /\ \A th \in TestThread : pc[th] \notin {"cleanup", "spawnCleanup"}
        /\ phase = CLEANUP =>
              \A th \in TestThread :
                  \/ pc[th] \in {"unborn", "exited", "unwind"}
                  \/ /\ pc[th] \in {"sieve", "lone", "advance", "stopLock", "stopping"}
                     /\ cleanup_stacks = <<>>
        /\ phase = STOPPED => cleanup_stacks = <<>>

(* Why the verdict is chosen once: until the one thread that has taken the   *)
(* final result has merged it, the accumulated result is what test_create_s *)
(* put there, so that the MAX is that thread's own.                         *)
OneVerdict ==
    /\ \A th, other \in TestThread : At(th, "merging") /\ At(other, "merging") => th = other
    /\ \A th \in TestThread : At(th, "merging") => result_is_final /\ result = PASS
    /\ \/ result_is_final \/ phase = STOPPED
       \/ result = IF pc[Main] \in {"stopLock", "stopping"} THEN SKIP ELSE PASS
    /\ pc[Main] \in {"start", "stopLock", "stopping"} => ~result_is_final /\ phase # STOPPED
    /\ \A th \in TestThread : ending[th] \in {PASS, SKIP, FAIL}

-----------------------------------------------------------------------------
(* Statements of the repository that the code does not keep.                *)

(* test.h: "During TEST_PHASE_CLEANUP, all cleanup stacks are unwound."     *)
AllStacksUnwound == phase = STOPPED => cleanup_stacks = <<>>

(* test_thread_create(): "On failue, this thread rolls back the increment": *)
(* the count never exceeds the threads there are or are about to be.        *)
FailureRolledBack ==
    num_threads <= Cardinality(Counted \ {th \in TestThread : At(th, "failed")})

(* tapi/t_thread.h, t_thread_yield(): "This call does not return if the     *)
(* framework has decided that the test has already completed (for example,  *)
(* because another thread called t_fail())".                                *)
YieldStopsWhenFinal ==
    [][\A th \in TestThread :
          At(th, "yielding") /\ pc'[th] = "body" => ~result_is_final]_vars

(* test_destroy(): "In the "stopped" phase, all test threads have exited."  *)
DestroyAfterExit ==
    pc[Main] \in {"destroy", "done"} => \A th \in TestThread : pc[th] \in {"unborn", "failed", "exited"}
=============================================================================
