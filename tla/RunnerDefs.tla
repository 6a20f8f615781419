----------------------------- MODULE RunnerDefs -----------------------------
(***************************************************************************)
(* What the parts of the test runner share: the options that runner_init() *)
(* accepts (runner.h) and the queue numbers of a test definition           *)
(* (t_def.h), which have 64 bits where the dispatch loops' have 32.        *)
(***************************************************************************)
EXTENDS Integers

CONSTANTS
    NumQueues,       \* dispatcher.num_vulkan_queues
    UintModulus      \* what the loops' uint32_t queue numbers wrap at

ASSUME RunnerDefsAssumption ==
    /\ UintModulus \in Nat \ {0}
    /\ NumQueues \in 0 .. UintModulus - 1

(* runner_opts_t, as far as selection and dispatcher look at it.            *)
RunnerOpts == [isolation : {"process", "thread"}, no_fork : BOOLEAN,
               jobs : Nat \ {0}, timeout : BOOLEAN]

(* runner_init(): some combinations are refused.                            *)
RunnerInit(opts) ==
    (opts.no_fork \/ opts.isolation = "thread") =>
        /\ ~(opts.no_fork /\ opts.isolation = "thread")
        /\ opts.jobs = 1

(* test_def_t::priv.queue_num.                                              *)
NoPref == UintModulus
InvalidPref == UintModulus + 1
QueueNum == 0 .. InvalidPref

(* The queues a definition is run on, from queue_start up to queue_end: the *)
(* one it names, or all there are.                                          *)
QueuesOf(queue_num) ==
    IF queue_num = NoPref THEN 0 .. NumQueues - 1
    ELSE queue_num % UintModulus .. ((queue_num + 1) % UintModulus) - 1
=============================================================================
