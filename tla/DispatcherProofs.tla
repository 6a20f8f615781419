------------------------- MODULE DispatcherProofs -------------------------
(***************************************************************************)
(* Proofs about Dispatcher: for any number of tests, jobs and queues, its  *)
(* books agree with its worker processes, and in process isolation no      *)
(* process is given a second test.                                         *)
(***************************************************************************)
EXTENDS Dispatcher, FiniteSetTheorems, SequenceTheorems, WellFoundedInduction, TLAPS

-----------------------------------------------------------------------------
(* Sets and their sizes.                                                    *)

(* What Min of FiniteSetsExt returns.                                       *)
LEMMA MinIsLeast ==
    ASSUME NEW S, S \subseteq Nat, S # {}
    PROVE  Min(S) \in S /\ \A x \in S : Min(S) <= x
<1> DEFINE less == OpToRel(<, Nat)
<1>1. IsWellFoundedOn(less, Nat)
  BY NatLessThanWellFounded
<1>2. \A x, y \in Nat : <<x, y>> \in less <=> x < y
  BY DEF OpToRel
<1> HIDE DEF less
<1>3. PICK m \in S : \A x \in S : ~(<<x, m>> \in less)
  BY <1>1, WFMin
<1>4. ASSUME NEW x \in S PROVE m <= x
  <2>1. x \in Nat /\ m \in Nat
    OBVIOUS
  <2>2. ~(x < m)
    BY <1>2, <1>3, <2>1, Zenon
  <2> QED
    BY <2>1, <2>2
<1> QED
  BY <1>4 DEF Min

(* A test and its sentinel, sent behind a sentinel.                         *)
LEMMA ConcatOfThree ==
    ASSUME NEW a, NEW b, NEW c
    PROVE  <<a>> \o <<b, c>> = <<a, b, c>>
<1>1. /\ <<a>> \in Seq({a, b, c}) /\ <<b, c>> \in Seq({a, b, c})
      /\ <<a, b, c>> \in Seq({a, b, c})
  OBVIOUS
<1>2. <<a>> \o <<b, c>> \in Seq({a, b, c}) /\ Len(<<a>> \o <<b, c>>) = 3
  BY <1>1
<1>3. \A i \in 1 .. 3 : (<<a>> \o <<b, c>>)[i] = <<a, b, c>>[i]
  BY <1>1
<1>4. Len(<<a, b, c>>) = 3
  OBVIOUS
<1> QED
  BY <1>1, <1>2, <1>3, <1>4, SeqEqual

(* Slots and definitions are finite, and so is what is counted of them.     *)
LEMMA FlightFinite ==
    ASSUME NEW S, S \subseteq Slot
    PROVE  IsFiniteSet(InFlight(S)) /\ Cardinality(InFlight(S)) \in Nat
<1>1. IsFiniteSet(Slot \X Def)
  BY DispatcherAssumption, FS_Product
<1>2. InFlight(S) \subseteq Slot \X Def
  BY DEF InFlight
<1> QED
  BY <1>1, <1>2, FS_Subset, FS_CardinalityType

LEMMA ConnectedFinite ==
    /\ IsFiniteSet(Connected) /\ Cardinality(Connected) \in Nat
    /\ IsFiniteSet(Connected') /\ Cardinality(Connected') \in Nat
BY DispatcherAssumption, FS_Subset, FS_CardinalityType DEF Connected

(* dispatcher.max_dispatched_tests is at least 1, at most the number of     *)
(* slots, and 1 whenever runner_init() wants a single job.                  *)
LEMMA MaxJobsBounds ==
    ASSUME runner_opts \in RunnerOpts
    PROVE  /\ MaxJobs \in Nat \ {0} /\ MaxJobs <= Cardinality(Slot)
           /\ MaxJobs <= runner_opts.jobs
<1>1. Cardinality(Slot) \in Nat \ {0}
  BY DispatcherAssumption, FS_CardinalityType, FS_EmptySet
<1>2. runner_opts.jobs \in Nat \ {0}
  BY DEF RunnerOpts
<1>3. /\ Min({runner_opts.jobs, Cardinality(Slot)}) \in {runner_opts.jobs, Cardinality(Slot)}
      /\ \A x \in {runner_opts.jobs, Cardinality(Slot)} :
            Min({runner_opts.jobs, Cardinality(Slot)}) <= x
  BY <1>1, <1>2, MinIsLeast
<1> QED
  BY <1>1, <1>2, <1>3 DEF MaxJobs

(* The loops come to a case that they have yet to come to.                  *)
LEMMA QueuesAreNumbers ==
    ASSUME NEW d \in Def
    PROVE  QueuesOf(QueuePref[d]) \subseteq Nat
<1> DEFINE q == QueuePref[d]
<1>1. UintModulus \in Nat \ {0} /\ q \in Nat
  BY DispatcherAssumption, RunnerDefsAssumption DEF QueueNum, InvalidPref
<1>2. q % UintModulus \in Nat
  BY <1>1
<1> QED
  BY <1>1, <1>2 DEF QueuesOf

LEMMA NextCaseIsLeft ==
    ASSUME NEW cases, cases \subseteq Case, cases # {}
    PROVE  NextCase(cases) \in cases
<1>1. \A c \in cases : c \in Nat \X Nat
  BY QueuesAreNumbers, DispatcherAssumption DEF Case
<1> DEFINE defs == {c[1] : c \in cases}
           queues(d) == {c[2] : c \in {e \in cases : e[1] = d}}
<1>2. defs \subseteq Nat /\ defs # {}
  BY <1>1
<1>3. PICK d \in defs : \A x \in defs : d <= x
  BY <1>2, MinIsLeast
<1>4. queues(d) \subseteq Nat /\ queues(d) # {}
  BY <1>1, <1>3
<1>5. PICK q \in queues(d) : \A x \in queues(d) : q <= x
  BY <1>4, MinIsLeast
<1>6. PICK c \in cases : c[1] = d /\ c[2] = q
  BY <1>5
<1>7. ASSUME NEW e \in cases \ {c} PROVE Before(c, e)
  <2>1. /\ c = <<c[1], c[2]>> /\ e = <<e[1], e[2]>>
        /\ c[1] \in Nat /\ e[1] \in Nat /\ c[2] \in Nat /\ e[2] \in Nat
    BY <1>1
  <2>2. c[1] <= e[1]
    BY <1>3, <1>6
  <2>3. CASE c[1] = e[1]
    <3>1. c[2] <= e[2]
      BY <1>5, <1>6, <2>3
    <3>2. c[2] # e[2]
      BY <2>1, <2>3
    <3> QED
      BY <2>1, <2>3, <3>1, <3>2 DEF Before
  <2>4. CASE c[1] # e[1]
    BY <2>1, <2>2, <2>4 DEF Before
  <2> QED
    BY <2>3, <2>4
<1> QED
  BY <1>7 DEF NextCase
-----------------------------------------------------------------------------
(* Steps that leave the books alone.                                        *)

Inv == SlotInv /\ PipeInv

(* What the invariant says of the counters.                                 *)
LEMMA CountersTyped ==
    ASSUME SlotInv
    PROVE  /\ cur_dispatched_tests \in Nat /\ num_workers \in Nat
           /\ MaxJobs \in Nat \ {0} /\ MaxJobs <= Cardinality(Slot)
           /\ MaxJobs <= runner_opts.jobs
           /\ runner_opts \in RunnerOpts
<1>1. runner_opts \in RunnerOpts
  BY DispatcherAssumption DEF SlotInv
<1>2. cur_dispatched_tests \in Nat
  BY FlightFinite DEF SlotInv
<1>3. num_workers \in Nat
  BY DEF SlotInv
<1> QED
  BY <1>1, <1>2, <1>3, MaxJobsBounds

(* Where the dispatcher forks, collects or reaps, num_workers is exact.     *)
LEMMA CountIsExact ==
    ASSUME SlotInv, ~(goto_next_phase /\ pc \in {"cleanup", "done"})
    PROVE  num_workers = Cardinality(Connected)
BY DEF SlotInv, WorkersCounted

LEMMA ControlKeeps ==
    ASSUME Inv, runner_opts' = runner_opts, workers' = workers,
           cur_dispatched_tests' = cur_dispatched_tests, num_workers' = num_workers,
           proc' = proc, dispatch_pipe' = dispatch_pipe, todo' \subseteq Case,
           pc' \in {"gather", "loop", "begin", "full", "claim", "find", "send",
                    "collect", "epoll", "cleanup", "reap", "done", "failed"},
           ret' \in {"loop", "full", "find", "reap"},
           Stage' \in {"begin", "full", "claim", "find", "send"} => case' \in Case,
           Stage' \in {"claim", "find", "send"} => cur_dispatched_tests < MaxJobs,
           num_workers # Cardinality(Connected) =>
              goto_next_phase' /\ pc' \in {"cleanup", "done"},
           pc' = "send" => target' \in Slot /\ IsOpen(target')
    PROVE  Inv'
<1>0. WorkersCounted'
  BY DEF Inv, SlotInv, Connected, WorkersCounted
<1>1. SlotInv'
  BY <1>0 DEF Inv, SlotInv, InFlight, MaxJobs, IsOpen, Isolation
<1>2. PipeInv'
  BY DEF Inv, PipeInv, Isolation
<1> QED
  BY <1>1, <1>2 DEF Inv

(* A worker's step moves its own process and empties its own pipe.          *)
LEMMA ProcessKeeps ==
    ASSUME Inv, runner_opts' = runner_opts, workers' = workers,
           cur_dispatched_tests' = cur_dispatched_tests, num_workers' = num_workers,
           todo' = todo, pc' = pc, ret' = ret, case' = case, target' = target,
           NEW s \in Slot, NEW to \in ProcState \ {"none"}, proc[s] # "none",
           proc' = [proc EXCEPT ![s] = to],
           to \in {"running", "served"} => proc[s] \in {"running", "served"},
           dispatch_pipe' = dispatch_pipe, goto_next_phase' = goto_next_phase
    PROVE  Inv'
<1>0. WorkersCounted'
  BY DEF Inv, SlotInv, Connected, WorkersCounted
<1>1. SlotInv'
  BY <1>0 DEF Inv, SlotInv, InFlight, MaxJobs, IsOpen, Isolation, Stage
<1>2. PipeInv'
  BY DEF Inv, SlotInv, PipeInv, Isolation
<1> QED
  BY <1>1, <1>2 DEF Inv

LEMMA WorkerStepKeeps ==
    ASSUME Inv, NEW s \in Slot,
           WorkerStep(s) \/ WorkerSendResult(s) \/ WorkerCrashes(s)
    PROVE  Inv'
<1> USE DEF control, books, flags, processes, user
<1>1. CASE WorkerSetsUp(s)
  BY <1>1, ProcessKeeps DEF WorkerSetsUp, ProcState
<1>2. CASE WorkerRecvSentinel(s) \/ WorkerKilled(s) \/ WorkerCrashes(s)
  BY <1>2, ProcessKeeps DEF WorkerRecvSentinel, WorkerKilled, WorkerCrashes, Die, Alive,
     ProcState
<1>3. CASE WorkerSendResult(s)
  BY <1>3, ProcessKeeps DEF WorkerSendResult, ProcState
<1>4. CASE WorkerRecvTest(s)
  <2>1. /\ proc[s] \in {"fresh", "served"} /\ proc' = [proc EXCEPT ![s] = "running"]
        /\ dispatch_pipe[s] # <<>> /\ Head(dispatch_pipe[s]) # Sentinel
        /\ dispatch_pipe' = [dispatch_pipe EXCEPT ![s] = Tail(@)]
        /\ UNCHANGED <<runner_opts, workers, cur_dispatched_tests, num_workers, todo, pc,
                       ret, case, target, goto_next_phase>>
    BY <1>4 DEF WorkerRecvTest
  <2>2. dispatch_pipe' \in [Slot -> Seq(Case \cup {Sentinel})]
    <3>1. /\ dispatch_pipe \in [Slot -> Seq(Case \cup {Sentinel})]
          /\ dispatch_pipe[s] \in Seq(Case \cup {Sentinel})
      BY DEF Inv, SlotInv
    <3>2. Tail(dispatch_pipe[s]) \in Seq(Case \cup {Sentinel})
      BY <2>1, <3>1
    <3> QED
      BY <2>1, <3>1, <3>2
  <2>3. SlotInv'
    <3>1. WorkersCounted'
      BY <2>1 DEF Inv, SlotInv, Connected, WorkersCounted
    <3> QED
      BY <2>1, <2>2, <3>1 DEF Inv, SlotInv, InFlight, MaxJobs, IsOpen, Isolation, Stage,
         ProcState
  <2>4. ASSUME Isolation = "process"
        PROVE  /\ dispatch_pipe'[s] = <<Sentinel>>
               /\ workers[s].lifetime_test_count # 0
    <3>1. PICK c \in Case :
              /\ dispatch_pipe[s] \in {<<c, Sentinel>>, <<Sentinel, c, Sentinel>>}
              /\ workers[s].lifetime_test_count # 0
      BY <2>1, <2>4 DEF Inv, PipeInv
    <3>2. dispatch_pipe[s] = <<c, Sentinel>>
      BY <2>1, <3>1
    <3>3. dispatch_pipe'[s] = Tail(dispatch_pipe[s])
      BY <2>1 DEF Inv, SlotInv
    <3> QED
      BY <3>1, <3>2, <3>3
  <2>5. PipeInv'
    BY <2>1, <2>4 DEF Inv, SlotInv, PipeInv, Isolation
  <2> QED
    BY <2>3, <2>5 DEF Inv
<1> QED
  BY <1>1, <1>2, <1>3, <1>4 DEF WorkerStep

(* The steps with which the dispatcher goes from one place to the next.     *)
LEMMA ControlStepKeeps ==
    ASSUME Inv,
           \/ GatherVulkanInfo \/ ReportSkip \/ RunInProcess \/ DispatchTest
           \/ EndDispatchPhase \/ AwaitRoom \/ FindOpenWorker \/ ForkFails \/ AwaitWorker
           \/ YieldUninterrupted \/ YieldKillsWorkers \/ WakeFromNap \/ HaltTestRun
           \/ NothingToCollect \/ AwaitWorkers \/ Interrupt
           \/ \E s \in Slot : TestExpires(s)
    PROVE  Inv'
<1> USE DEF control, books, flags, processes, user, Stage
<1>0. /\ pc \in {"gather", "loop", "begin", "full", "claim", "find", "send",
                "collect", "epoll", "cleanup", "reap", "done", "failed"}
      /\ ret \in {"loop", "full", "find", "reap"}
      /\ todo \subseteq Case
      /\ Stage \in {"begin", "full", "claim", "find", "send"} => case \in Case
      /\ Stage \in {"claim", "find", "send"} => cur_dispatched_tests < MaxJobs
      /\ num_workers # Cardinality(Connected) =>
            goto_next_phase /\ pc \in {"cleanup", "done"}
      /\ pc = "send" => target \in Slot /\ IsOpen(target)
  BY CountIsExact DEF Inv, SlotInv
<1>1. CASE GatherVulkanInfo \/ ReportSkip \/ RunInProcess \/ EndDispatchPhase
  BY <1>0, <1>1, ControlKeeps DEF GatherVulkanInfo, ReportSkip, RunInProcess,
     EndDispatchPhase
<1>2. CASE DispatchTest
  <2>1. case' \in Case
    BY <1>0, <1>2, NextCaseIsLeft DEF DispatchTest
  <2> QED
    BY <1>0, <1>2, <2>1, ControlKeeps DEF DispatchTest
<1>3. CASE AwaitRoom
  <2>1. cur_dispatched_tests <= MaxJobs /\ cur_dispatched_tests \in Nat /\ MaxJobs \in Nat
    BY CountersTyped DEF Inv, SlotInv
  <2>2. pc' = "claim" => cur_dispatched_tests < MaxJobs
    BY <1>3, <2>1 DEF AwaitRoom, CollectThen
  <2> QED
    BY <1>0, <1>3, <2>2, ControlKeeps DEF AwaitRoom, CollectThen
<1>4. CASE FindOpenWorker
  <2>1. OpenSlot \subseteq Nat /\ OpenSlot # {}
    BY <1>4, DispatcherAssumption DEF FindOpenWorker, OpenSlot
  <2>2. target' \in Slot /\ IsOpen(target')
    BY <1>4, <2>1, MinIsLeast DEF FindOpenWorker, OpenSlot
  <2> QED
    BY <1>0, <1>4, <2>2, ControlKeeps DEF FindOpenWorker
<1>5. CASE ForkFails \/ AwaitWorker
  BY <1>0, <1>5, ControlKeeps DEF ForkFails, AwaitWorker, CollectThen
<1>6. CASE YieldUninterrupted \/ WakeFromNap
  BY <1>0, <1>6, ControlKeeps DEF YieldUninterrupted, WakeFromNap, YieldsTo
<1>7. CASE YieldKillsWorkers \/ HaltTestRun
  BY <1>0, <1>7, ControlKeeps DEF YieldKillsWorkers, HaltTestRun, NextPhase
<1>8. CASE NothingToCollect \/ AwaitWorkers
  BY <1>0, <1>8, ControlKeeps DEF NothingToCollect, AwaitWorkers, CollectThen
<1>9. CASE Interrupt
  BY <1>0, <1>9, ControlKeeps DEF Interrupt
<1>10. CASE \E s \in Slot : TestExpires(s)
  BY <1>0, <1>10, ControlKeeps DEF TestExpires
<1> QED
  BY <1>1, <1>2, <1>3, <1>4, <1>5, <1>6, <1>7, <1>8, <1>9, <1>10

-----------------------------------------------------------------------------
(* Steps that write the books.                                              *)

(* dispatcher_get_new_worker() finds a slot, and nothing is left in it.     *)
LEMMA ForkFindsSlot ==
    ASSUME Inv, ForkWorker \/ WorkerSetUpFails
    PROVE  UnbornSlot \in Slot \ Connected
<1>0. SlotInv
  BY DEF Inv
<1>1. Cardinality(Connected) < Cardinality(Slot)
  <2>1. Cardinality(Slot) \in Nat \ {0}
    BY DispatcherAssumption, FS_CardinalityType, FS_EmptySet
  <2>2. num_workers = Cardinality(Connected) /\ num_workers \in Nat
    BY <1>0, CountersTyped, CountIsExact DEF ForkWorker, WorkerSetUpFails
  <2>3. num_workers < MaxJobs \/ num_workers = 0
    BY DEF ForkWorker, WorkerSetUpFails, MayFork
  <2> QED
    BY <1>0, <2>1, <2>2, <2>3, CountersTyped
<1>2. Slot \ Connected # {}
  <2>1. Connected \subseteq Slot
    BY DEF Connected
  <2>2. SUFFICES ASSUME Connected = Slot PROVE FALSE
    BY <2>1
  <2> QED
    BY <1>1, <2>2, ConnectedFinite
<1> QED
  BY <1>2, MinIsLeast, DispatcherAssumption DEF UnbornSlot

(* Counted or not, the new process is in a slot of its own.                 *)
LEMMA ForkKeeps ==
    ASSUME Inv, ForkWorker \/ WorkerSetUpFails
    PROVE  Inv'
<1> DEFINE s == UnbornSlot
<1>0. SlotInv /\ PipeInv
  BY DEF Inv
<1>3. s \in Slot \ Connected
  BY ForkFindsSlot
<1>4. /\ workers' = [workers EXCEPT ![s] = [NoWorker EXCEPT !.pid = TRUE]]
      /\ proc' = [proc EXCEPT ![s] = "starting"] /\ pc = "find"
      /\ \/ num_workers' = num_workers + 1 /\ pc' = "send" /\ target' = s
         \/ num_workers' = num_workers /\ pc' = "cleanup" /\ goto_next_phase'
      /\ UNCHANGED <<ret, todo, case, cur_dispatched_tests, dispatch_pipe, runner_opts>>
  BY DEF ForkWorker, WorkerSetUpFails, Fork, user
<1> HIDE DEF s
<1>5. workers' \in [Slot -> Worker] /\ proc' \in [Slot -> ProcState]
  BY <1>0, <1>4 DEF SlotInv, Worker, NoWorker, ProcState
<1>6. /\ workers'[s].pid /\ workers'[s].tests = {}
      /\ workers'[s].lifetime_test_count = 0 /\ ~workers'[s].recvd_sentinel
      /\ \A t \in Slot \ {s} : workers'[t] = workers[t] /\ proc'[t] = proc[t]
      /\ proc'[s] = "starting" /\ s \in Slot
  BY <1>0, <1>3, <1>4 DEF SlotInv, NoWorker
<1>7. ~workers[s].pid /\ workers[s].tests = {}
  BY <1>0, <1>3 DEF SlotInv, Connected
<1>8. InFlight(Slot)' = InFlight(Slot)
  BY <1>6, <1>7 DEF InFlight
<1>9. num_workers' \in Nat /\ WorkersCounted'
  <2>1. Connected' = Connected \cup {s} /\ s \notin Connected
    BY <1>3, <1>6 DEF Connected
  <2>2. Cardinality(Connected') = Cardinality(Connected) + 1
    BY <2>1, ConnectedFinite, FS_AddElement
  <2>3. num_workers = Cardinality(Connected) /\ num_workers \in Nat
    BY <1>0, <1>4, CountIsExact, CountersTyped
  <2> QED
    BY <1>4, <2>2, <2>3 DEF WorkersCounted
<1>10. pc' = "send" => target' \in Slot /\ IsOpen(target)'
  BY <1>4, <1>6 DEF IsOpen
<1>11. SlotInv'
  <2>1. \A t \in Slot :
            /\ workers'[t].pid <=> proc'[t] # "none"
            /\ workers'[t].tests # {} => workers'[t].pid
            /\ \A d, e \in workers'[t].tests : d = e
            /\ Isolation' = "process" /\ workers'[t].tests # {}
                  => workers'[t].lifetime_test_count # 0
    <3>1. UNCHANGED Isolation
      BY <1>4 DEF Isolation
    <3> QED
      BY <1>0, <1>6, <3>1 DEF SlotInv
  <2> QED
    BY <1>0, <1>4, <1>5, <1>6, <1>8, <1>9, <1>10, <2>1 DEF SlotInv, Stage, MaxJobs
<1>12. PipeInv'
  BY <1>0, <1>4, <1>6, <1>7 DEF PipeInv, Isolation, NoWorker
<1> QED
  BY <1>11, <1>12 DEF Inv

(* A worker that is open owns no test: in process isolation it has had      *)
(* none, in thread isolation none at all is in flight.                      *)
LEMMA OpenOwnsNothing ==
    ASSUME Inv, pc = "send"
    PROVE  /\ target \in Slot /\ workers[target].pid /\ workers[target].tests = {}
           /\ case \in Case /\ cur_dispatched_tests < MaxJobs
<1>1. /\ target \in Slot /\ IsOpen(target) /\ case \in Case
      /\ cur_dispatched_tests < MaxJobs
  BY DEF Inv, SlotInv, Stage
<1>2. CASE Isolation = "process"
  BY <1>1, <1>2 DEF Inv, SlotInv, IsOpen
<1>3. CASE Isolation # "process"
  <2>1. runner_opts.jobs = 1
    BY <1>3, CountersTyped DEF Inv, SlotInv, RunnerInit, Isolation, RunnerOpts
  <2>2. cur_dispatched_tests = 0
    BY <1>1, <2>1, CountersTyped DEF Inv
  <2>3. InFlight(Slot) = {}
    BY <2>2, FlightFinite, FS_EmptySet DEF Inv, SlotInv
  <2>4. workers[target].tests \subseteq Def
    BY <1>1 DEF Inv, SlotInv, Worker
  <2>5. ASSUME NEW d \in workers[target].tests PROVE FALSE
    <3>1. <<target, d>> \in InFlight(Slot)
      BY <1>1, <2>4, <2>5 DEF InFlight
    <3> QED
      BY <2>3, <3>1
  <2> QED
    BY <1>1, <2>5 DEF IsOpen
<1> QED
  BY <1>1, <1>2, <1>3 DEF IsOpen

(* worker_start_test().                                                     *)
LEMMA StartKeeps ==
    ASSUME Inv, StartTest
    PROVE  Inv'
<1>0. /\ SlotInv /\ PipeInv /\ pc = "send" /\ pc' = "collect" /\ ret' = "loop"
      /\ num_workers = Cardinality(Connected) /\ num_workers \in Nat
      /\ UNCHANGED <<todo, num_workers, proc, runner_opts>>
  BY CountIsExact, CountersTyped DEF Inv, StartTest, CollectThen, user
<1>1. /\ target \in Slot /\ workers[target].pid /\ workers[target].tests = {}
      /\ case \in Case /\ cur_dispatched_tests < MaxJobs
  BY <1>0, OpenOwnsNothing
<1>2. CASE ~Alive(target)
  <2>1. UNCHANGED <<workers, cur_dispatched_tests, dispatch_pipe>>
    BY <1>2 DEF StartTest
  <2>2. Stage' = "loop"
    BY <1>0 DEF Stage
  <2> QED
    BY <1>0, <2>1, <2>2, ControlKeeps DEF SlotInv
<1>3. CASE Alive(target)
  <2> DEFINE packets == IF Isolation = "process" THEN <<case, Sentinel>> ELSE <<case>>
  <2>1. /\ workers' = [workers EXCEPT
              ![target].tests = @ \cup {case[1]},
              ![target].lifetime_test_count = @ + 1,
              ![target].recvd_sentinel = @ \/ Isolation = "process"]
        /\ cur_dispatched_tests' = cur_dispatched_tests + 1
        /\ dispatch_pipe' = [dispatch_pipe EXCEPT ![target] = @ \o packets]
    BY <1>3 DEF StartTest
  <2>2. case[1] \in Def
    BY <1>1 DEF Case
  <2>3. /\ workers[target] \in Worker
        /\ dispatch_pipe[target] \in Seq(Case \cup {Sentinel})
        /\ workers \in [Slot -> Worker]
        /\ dispatch_pipe \in [Slot -> Seq(Case \cup {Sentinel})]
    BY <1>0, <1>1 DEF SlotInv
  <2>4. /\ workers'[target].pid /\ workers'[target].tests = {case[1]}
        /\ workers'[target].lifetime_test_count = workers[target].lifetime_test_count + 1
        /\ Isolation = "process" => workers'[target].recvd_sentinel
    BY <1>1, <2>1, <2>3 DEF Worker
  <2>5. workers'[target] \in Worker /\ workers'[target].lifetime_test_count # 0
    <3>1. workers'[target] = [pid |-> workers[target].pid,
              tests |-> workers[target].tests \cup {case[1]},
              lifetime_test_count |-> workers[target].lifetime_test_count + 1,
              recvd_sentinel |-> workers[target].recvd_sentinel \/ Isolation = "process"]
      BY <1>1, <2>1, <2>3 DEF Worker
    <3> QED
      BY <2>2, <2>3, <3>1 DEF Worker
  <2>6. \A t \in Slot \ {target} :
            workers'[t] = workers[t] /\ dispatch_pipe'[t] = dispatch_pipe[t]
    BY <1>1, <2>1, <2>3
  <2>7. workers' \in [Slot -> Worker]
    <3>1. workers' = [t \in Slot |-> workers'[t]]
      BY <2>1, <2>3
    <3>2. \A t \in Slot : workers'[t] \in Worker
      BY <2>3, <2>5, <2>6
    <3> QED
      BY <3>1, <3>2
  <2>8. dispatch_pipe'[target] = dispatch_pipe[target] \o packets
    BY <1>1, <2>1, <2>3
  <2>9. dispatch_pipe' \in [Slot -> Seq(Case \cup {Sentinel})]
    <3>1. packets \in Seq(Case \cup {Sentinel})
      <4>1. <<case>> \in Seq(Case \cup {Sentinel})
        BY <1>1
      <4>2. <<case, Sentinel>> \in Seq(Case \cup {Sentinel})
        BY <1>1
      <4> QED
        BY <4>1, <4>2
    <3>2. dispatch_pipe[target] \o packets \in Seq(Case \cup {Sentinel})
      BY <2>3, <3>1
    <3> QED
      BY <1>1, <2>1, <2>3, <3>2
  <2>10. cur_dispatched_tests' = Cardinality(InFlight(Slot)')
    <3>1. InFlight(Slot)' = InFlight(Slot) \cup {<<target, case[1]>>}
      BY <1>1, <2>2, <2>4, <2>6 DEF InFlight
    <3>2. <<target, case[1]>> \notin InFlight(Slot)
      BY <1>1 DEF InFlight
    <3>3. IsFiniteSet(InFlight(Slot))
      BY FlightFinite
    <3> QED
      BY <1>0, <2>1, <3>1, <3>2, <3>3, FS_AddElement DEF SlotInv
  <2>11. cur_dispatched_tests' <= MaxJobs
    BY <1>0, <1>1, <2>1, CountersTyped
  <2>12. num_workers' \in Nat /\ WorkersCounted'
    <3>1. Connected' = Connected
      BY <1>1, <2>4, <2>6 DEF Connected
    <3> QED
      BY <1>0, <3>1 DEF WorkersCounted
  <2>13. SlotInv'
    <3>1. \A t \in Slot :
              /\ workers'[t].pid <=> proc'[t] # "none"
              /\ workers'[t].tests # {} => workers'[t].pid
              /\ \A d, e \in workers'[t].tests : d = e
              /\ Isolation' = "process" /\ workers'[t].tests # {}
                    => workers'[t].lifetime_test_count # 0
      <4> SUFFICES ASSUME NEW t \in Slot
                   PROVE  /\ workers'[t].pid <=> proc'[t] # "none"
                          /\ workers'[t].tests # {} => workers'[t].pid
                          /\ \A d, e \in workers'[t].tests : d = e
                          /\ Isolation' = "process" /\ workers'[t].tests # {}
                                => workers'[t].lifetime_test_count # 0
        OBVIOUS
      <4>1. CASE t = target
        BY <1>0, <1>1, <2>4, <2>5, <4>1 DEF SlotInv
      <4>2. CASE t # target
        BY <1>0, <2>6, <4>2 DEF SlotInv, Isolation
      <4> QED
        BY <4>1, <4>2
    <3> QED
      BY <1>0, <2>7, <2>9, <2>10, <2>11, <2>12, <3>1 DEF SlotInv, Stage, MaxJobs
  <2>14. PipeInv'
    <3> SUFFICES ASSUME Isolation = "process"
                 PROVE  PipeInv'
      BY <1>0 DEF PipeInv, Isolation
    <3>1. workers[target].lifetime_test_count = 0
      BY <1>0 DEF SlotInv, IsOpen
    <3>2. /\ dispatch_pipe[target] \in {<<>>, <<Sentinel>>}
          /\ proc[target] \notin {"running", "served"}
      BY <1>0, <1>1, <3>1 DEF PipeInv
    <3>3. dispatch_pipe'[target] \in {<<case, Sentinel>>, <<Sentinel, case, Sentinel>>}
      <4>1. dispatch_pipe'[target] = dispatch_pipe[target] \o <<case, Sentinel>>
        BY <2>8
      <4>2. CASE dispatch_pipe[target] = <<>>
        BY <2>3, <4>1, <4>2
      <4>3. CASE dispatch_pipe[target] = <<Sentinel>>
        BY <4>1, <4>3, ConcatOfThree
      <4> QED
        BY <3>2, <4>2, <4>3
    <3>4. workers'[target].lifetime_test_count # 0 /\ workers'[target].recvd_sentinel
          /\ workers'[target].pid
      BY <2>4, <2>5
    <3> QED
      BY <1>0, <1>1, <2>6, <3>2, <3>3, <3>4 DEF PipeInv, Isolation
  <2> QED
    BY <2>13, <2>14 DEF Inv
<1> QED
  BY <1>2, <1>3

LEMMA RestCardinality ==
    ASSUME NEW S, NEW T, IsFiniteSet(S), T \subseteq S
    PROVE  /\ IsFiniteSet(S \ T) /\ IsFiniteSet(T)
           /\ Cardinality(S \ T) = Cardinality(S) - Cardinality(T)
<1>1. IsFiniteSet(S \ T) /\ IsFiniteSet(T)
  BY FS_Subset
<1>2. Cardinality((S \ T) \cup T) = Cardinality(S \ T) + Cardinality(T) - Cardinality((S \ T) \cap T)
  BY <1>1, FS_Union
<1>3. (S \ T) \cup T = S /\ (S \ T) \cap T = {}
  OBVIOUS
<1>4. Cardinality({}) = 0 /\ Cardinality(S \ T) \in Nat /\ Cardinality(T) \in Nat
  BY <1>1, FS_EmptySet, FS_CardinalityType
<1> QED
  BY <1>1, <1>2, <1>3, <1>4

(* worker_drain_result_pipe(): a slot gives up the test it has answered.    *)
LEMMA DrainKeeps ==
    ASSUME Inv, NEW s \in Slot, DrainResultPipe(s)
    PROVE  Inv'
<1> DEFINE given == workers[s].tests \cap Answered(s)
<1>0. /\ SlotInv /\ PipeInv /\ pc = "epoll" /\ pc' = ret /\ workers[s].pid
      /\ workers' = [workers EXCEPT ![s].tests = @ \ Answered(s)]
      /\ cur_dispatched_tests' = cur_dispatched_tests - Cardinality(given)
      /\ num_workers = Cardinality(Connected) /\ num_workers \in Nat
      /\ UNCHANGED <<ret, todo, case, num_workers, proc, dispatch_pipe, runner_opts>>
  BY CountIsExact, CountersTyped DEF Inv, DrainResultPipe, user
<1>1. workers \in [Slot -> Worker] /\ workers[s] \in Worker
  BY <1>0 DEF SlotInv
<1>2. /\ workers'[s].tests = workers[s].tests \ given
      /\ workers'[s].pid = workers[s].pid
      /\ workers'[s].lifetime_test_count = workers[s].lifetime_test_count
      /\ workers'[s].recvd_sentinel = workers[s].recvd_sentinel
      /\ \A t \in Slot \ {s} : workers'[t] = workers[t]
  BY <1>0, <1>1 DEF Worker
<1>3. workers' \in [Slot -> Worker]
  <2>1. workers'[s] = [workers[s] EXCEPT !.tests = @ \ Answered(s)]
    BY <1>0, <1>1
  <2>2. workers'[s] \in Worker
    BY <1>1, <2>1 DEF Worker
  <2> QED
    BY <1>0, <1>1, <1>2, <2>2
<1> HIDE DEF given
<1>4. given = {} \/ \E d \in Def : given = {d} /\ workers[s].tests = {d}
  <2>1. workers[s].tests \subseteq Def
    BY <1>1 DEF Worker
  <2>2. \A d, e \in workers[s].tests : d = e
    BY <1>0 DEF SlotInv
  <2> QED
    BY <2>1, <2>2 DEF given
<1>5. /\ cur_dispatched_tests' = Cardinality(InFlight(Slot)')
      /\ cur_dispatched_tests' <= cur_dispatched_tests
  <2>1. CASE given = {}
    <3>1. InFlight(Slot)' = InFlight(Slot)
      BY <1>2, <2>1 DEF InFlight
    <3> QED
      BY <1>0, <2>1, <3>1, FS_EmptySet, CountersTyped DEF SlotInv
  <2>2. ASSUME NEW d \in Def, given = {d} /\ workers[s].tests = {d}
        PROVE  /\ cur_dispatched_tests' = Cardinality(InFlight(Slot)')
               /\ cur_dispatched_tests' <= cur_dispatched_tests
    <3>1. workers'[s].tests = {}
      BY <1>2, <2>2
    <3>2. /\ InFlight(Slot)' = InFlight(Slot) \ {<<s, d>>}
          /\ <<s, d>> \in InFlight(Slot)
      BY <1>2, <2>2, <3>1 DEF InFlight
    <3>3. Cardinality(given) = 1
      <4>1. Cardinality({d}) = 1
        BY FS_Singleton
      <4> QED
        BY <2>2, <4>1
    <3>4. Cardinality(InFlight(Slot) \ {<<s, d>>}) = Cardinality(InFlight(Slot)) - 1
      BY <1>0, <3>2, FlightFinite, FS_RemoveElement DEF Inv
    <3>5. /\ cur_dispatched_tests = Cardinality(InFlight(Slot))
          /\ cur_dispatched_tests \in Nat
      BY <1>0, CountersTyped DEF SlotInv
    <3>6. cur_dispatched_tests' = cur_dispatched_tests - 1
      BY <1>0, <3>3
    <3>7. Cardinality(InFlight(Slot)') = cur_dispatched_tests - 1
      BY <3>2, <3>4, <3>5
    <3> QED
      BY <3>5, <3>6, <3>7
  <2> QED
    BY <1>4, <2>1, <2>2
<1>6. /\ cur_dispatched_tests' <= MaxJobs
      /\ cur_dispatched_tests < MaxJobs => cur_dispatched_tests' < MaxJobs
  <2>1. cur_dispatched_tests' \in Int
    <3>1. cur_dispatched_tests \in Nat
      BY <1>0, CountersTyped
    <3>2. Cardinality(given) \in Nat
      <4>1. PICK d \in Def \cup {0} : given \subseteq {d}
        BY <1>4
      <4>2. IsFiniteSet({d})
        BY FS_Singleton
      <4> QED
        BY <4>1, <4>2, FS_Subset, FS_CardinalityType
    <3>3. cur_dispatched_tests' = cur_dispatched_tests - Cardinality(given)
      BY <1>0
    <3> QED
      BY <3>1, <3>2, <3>3
  <2> QED
    BY <1>0, <1>5, <2>1, CountersTyped DEF SlotInv
<1>7. num_workers' \in Nat /\ WorkersCounted'
  <2>1. Connected' = Connected
    BY <1>2 DEF Connected
  <2> QED
    BY <1>0, <2>1 DEF WorkersCounted
<1>8. SlotInv'
  <2>1. \A t \in Slot :
            /\ workers'[t].pid <=> proc'[t] # "none"
            /\ workers'[t].tests # {} => workers'[t].pid
            /\ \A d, e \in workers'[t].tests : d = e
            /\ Isolation' = "process" /\ workers'[t].tests # {}
                  => workers'[t].lifetime_test_count # 0
    <3>1. UNCHANGED Isolation
      BY <1>0 DEF Isolation
    <3>2. workers'[s].tests \subseteq workers[s].tests
      BY <1>2
    <3> QED
      BY <1>0, <1>2, <3>1, <3>2 DEF SlotInv
  <2>2. Stage' = Stage /\ pc' # "send"
    BY <1>0 DEF Stage, SlotInv
  <2> QED
    BY <1>0, <1>3, <1>5, <1>6, <1>7, <2>1, <2>2 DEF SlotInv, MaxJobs
<1>9. PipeInv'
  BY <1>0, <1>2 DEF PipeInv, Isolation
<1> QED
  BY <1>8, <1>9 DEF Inv

(* dispatcher_handle_sigchld(): the slots of all dead processes are given   *)
(* up, with the tests they own.                                             *)
LEMMA ReapKeeps ==
    ASSUME Inv, ReapWorkers
    PROVE  Inv'
<1> DEFINE dead == {s \in Slot : proc[s] = "zombie"}
<1>0. /\ SlotInv /\ PipeInv /\ pc = "epoll" /\ pc' = ret
      /\ cur_dispatched_tests' = cur_dispatched_tests - Cardinality(InFlight(dead))
      /\ num_workers' = num_workers - Cardinality(dead)
      /\ workers' = [s \in Slot |-> IF s \in dead THEN NoWorker ELSE workers[s]]
      /\ proc' = [s \in Slot |-> IF s \in dead THEN "none" ELSE proc[s]]
      /\ dispatch_pipe' = [s \in Slot |-> IF s \in dead THEN <<>> ELSE dispatch_pipe[s]]
      /\ num_workers = Cardinality(Connected) /\ num_workers \in Nat
      /\ UNCHANGED <<ret, todo, case, runner_opts>>
  BY CountIsExact, CountersTyped DEF Inv, ReapWorkers, user
<1>1. dead \subseteq Connected /\ dead \subseteq Slot
  BY <1>0 DEF Connected, SlotInv
<1> HIDE DEF dead
<1>2. /\ \A s \in dead : /\ ~workers'[s].pid /\ workers'[s] = NoWorker
                         /\ workers'[s].tests = {} /\ proc'[s] = "none"
                         /\ dispatch_pipe'[s] = <<>> /\ ~workers'[s].recvd_sentinel
                         /\ workers'[s].lifetime_test_count = 0
      /\ \A s \in Slot \ dead : /\ workers'[s] = workers[s] /\ proc'[s] = proc[s]
                                /\ dispatch_pipe'[s] = dispatch_pipe[s]
  BY <1>0, <1>1 DEF NoWorker
<1>3. workers' \in [Slot -> Worker] /\ proc' \in [Slot -> ProcState]
  BY <1>0, <1>1 DEF SlotInv, Worker, NoWorker, ProcState
<1>4. dispatch_pipe' \in [Slot -> Seq(Case \cup {Sentinel})]
  BY <1>0, <1>1 DEF SlotInv
<1>5. /\ cur_dispatched_tests' = Cardinality(InFlight(Slot)')
      /\ cur_dispatched_tests' <= cur_dispatched_tests
  <2>1. InFlight(Slot)' = InFlight(Slot) \ InFlight(dead)
    BY <1>1, <1>2 DEF InFlight
  <2>2. InFlight(dead) \subseteq InFlight(Slot)
    BY <1>1 DEF InFlight
  <2>3. Cardinality(InFlight(Slot) \ InFlight(dead))
            = Cardinality(InFlight(Slot)) - Cardinality(InFlight(dead))
    BY <2>2, FlightFinite, RestCardinality
  <2>4. Cardinality(InFlight(dead)) \in Nat
    BY <1>1, FlightFinite
  <2> QED
    BY <1>0, <2>1, <2>3, <2>4, CountersTyped DEF SlotInv
<1>6. /\ cur_dispatched_tests' <= MaxJobs
      /\ cur_dispatched_tests < MaxJobs => cur_dispatched_tests' < MaxJobs
  <2>1. cur_dispatched_tests' \in Int
    BY <1>0, <1>1, FlightFinite, CountersTyped
  <2> QED
    BY <1>0, <1>5, <2>1, CountersTyped DEF SlotInv
<1>7. num_workers' \in Nat /\ WorkersCounted'
  <2>1. Connected' = Connected \ dead
    BY <1>1, <1>2 DEF Connected
  <2>2. num_workers' = Cardinality(Connected')
    BY <1>0, <1>1, <2>1, ConnectedFinite, RestCardinality
  <2> QED
    BY <2>2, ConnectedFinite DEF WorkersCounted
<1>8. SlotInv'
  <2>1. \A t \in Slot :
            /\ workers'[t].pid <=> proc'[t] # "none"
            /\ workers'[t].tests # {} => workers'[t].pid
            /\ \A d, e \in workers'[t].tests : d = e
            /\ Isolation' = "process" /\ workers'[t].tests # {}
                  => workers'[t].lifetime_test_count # 0
    <3>1. UNCHANGED Isolation
      BY <1>0 DEF Isolation
    <3> QED
      BY <1>0, <1>2, <3>1 DEF SlotInv
  <2>2. Stage' = Stage /\ pc' # "send"
    BY <1>0 DEF Stage, SlotInv
  <2> QED
    BY <1>0, <1>3, <1>4, <1>5, <1>6, <1>7, <2>1, <2>2 DEF SlotInv, MaxJobs
<1>9. PipeInv'
  BY <1>0, <1>2 DEF PipeInv, Isolation
<1> QED
  BY <1>8, <1>9 DEF Inv

(* dispatcher_enter_cleanup_phase(): a worker gets one sentinel.            *)
LEMMA SentinelsKeep ==
    ASSUME Inv, SendSentinels
    PROVE  Inv'
<1>0. /\ SlotInv /\ PipeInv /\ pc' \in {"done", "reap"}
      /\ UNCHANGED <<ret, todo, case, runner_opts, cur_dispatched_tests, num_workers, proc>>
  BY DEF Inv, SendSentinels, user
<1>1. PICK told \in SUBSET Slot :
          /\ \A s \in told : workers[s].pid /\ ~workers[s].recvd_sentinel
          /\ dispatch_pipe' =
                [s \in Slot |-> IF s \in told THEN WithSentinel(s) ELSE dispatch_pipe[s]]
          /\ workers' = [s \in Slot |->
                IF s \in told THEN [workers[s] EXCEPT !.recvd_sentinel = TRUE]
                ELSE workers[s]]
  <2> DEFINE lacking == {s \in Connected : ~workers[s].recvd_sentinel}
             heard == IF goto_next_phase
                      THEN {s \in lacking : s = Min(Connected)} ELSE lacking
  <2>1. heard \in SUBSET Slot
    BY DEF Connected
  <2>2. \A s \in heard : workers[s].pid /\ ~workers[s].recvd_sentinel
    BY DEF Connected
  <2>3. /\ dispatch_pipe' =
              [s \in Slot |-> IF s \in heard THEN WithSentinel(s) ELSE dispatch_pipe[s]]
        /\ workers' = [s \in Slot |->
              IF s \in heard THEN [workers[s] EXCEPT !.recvd_sentinel = TRUE]
              ELSE workers[s]]
    BY DEF SendSentinels
  <2> HIDE DEF heard
  <2> QED
    BY <2>1, <2>2, <2>3
<1>2. workers \in [Slot -> Worker] /\ dispatch_pipe \in [Slot -> Seq(Case \cup {Sentinel})]
  BY <1>0 DEF SlotInv
<1>3. \A s \in Slot :
          /\ workers'[s].pid = workers[s].pid /\ workers'[s].tests = workers[s].tests
          /\ workers'[s].lifetime_test_count = workers[s].lifetime_test_count
          /\ s \in told => workers'[s].recvd_sentinel
          /\ s \notin told => workers'[s] = workers[s] /\ dispatch_pipe'[s] = dispatch_pipe[s]
  BY <1>1, <1>2 DEF Worker
<1>4. workers' \in [Slot -> Worker]
  BY <1>1, <1>2 DEF Worker
<1>5. \A s \in Slot : WithSentinel(s) \in Seq(Case \cup {Sentinel})
  BY <1>2 DEF WithSentinel
<1>6. dispatch_pipe' \in [Slot -> Seq(Case \cup {Sentinel})]
  BY <1>1, <1>2, <1>5
<1>7. /\ InFlight(Slot)' = InFlight(Slot)
      /\ num_workers' \in Nat /\ WorkersCounted'
  <2>1. InFlight(Slot)' = InFlight(Slot) /\ Connected' = Connected
    BY <1>3 DEF InFlight, Connected
  <2>2. num_workers # Cardinality(Connected) => pc' = "done" /\ goto_next_phase'
    <3>1. ASSUME num_workers # Cardinality(Connected)
          PROVE  goto_next_phase /\ Connected # {}
      <4>1. /\ goto_next_phase /\ num_workers \in Nat
            /\ num_workers + 1 = Cardinality(Connected)
        BY <1>0, <3>1, CountersTyped DEF SlotInv, WorkersCounted
      <4>2. Cardinality(Connected) # 0
        BY <4>1, ConnectedFinite
      <4> QED
        BY <4>1, <4>2, FS_EmptySet
    <3> QED
      BY <3>1 DEF SendSentinels, flags
  <2> QED
    BY <1>0, <2>1, <2>2, CountersTyped DEF SlotInv, WorkersCounted
<1>8. SlotInv'
  <2>1. \A t \in Slot :
            /\ workers'[t].pid <=> proc'[t] # "none"
            /\ workers'[t].tests # {} => workers'[t].pid
            /\ \A d, e \in workers'[t].tests : d = e
            /\ Isolation' = "process" /\ workers'[t].tests # {}
                  => workers'[t].lifetime_test_count # 0
    <3>1. UNCHANGED Isolation
      BY <1>0 DEF Isolation
    <3> QED
      BY <1>0, <1>3, <3>1 DEF SlotInv
  <2>2. Stage' \in {"done", "reap"} /\ pc' # "send"
    BY <1>0 DEF Stage
  <2> QED
    BY <1>0, <1>4, <1>6, <1>7, <2>1, <2>2 DEF SlotInv, MaxJobs
<1>9. PipeInv'
  <2> SUFFICES ASSUME Isolation = "process", NEW s \in told
               PROVE  /\ dispatch_pipe'[s] \in {<<>>, <<Sentinel>>}
                      /\ workers'[s].lifetime_test_count = 0
    BY <1>0, <1>1, <1>3 DEF PipeInv, Isolation
  <2>1. dispatch_pipe[s] = <<>> /\ workers[s].lifetime_test_count = 0
    BY <1>0, <1>1 DEF PipeInv
  <2>2. dispatch_pipe'[s] = WithSentinel(s)
    BY <1>1
  <2>3. WithSentinel(s) \in {<<>>, <<Sentinel>>}
    BY <2>1 DEF WithSentinel
  <2> QED
    BY <1>3, <2>1, <2>2, <2>3
<1> QED
  BY <1>8, <1>9 DEF Inv

-----------------------------------------------------------------------------
(* What follows.                                                            *)

LEMMA NextKeeps == Inv /\ [Next]_vars => Inv'
<1> SUFFICES ASSUME Inv, [Next]_vars PROVE Inv'
  OBVIOUS
<1>1. CASE DispatcherStep
  BY <1>1, ControlStepKeeps, ForkKeeps, StartKeeps, DrainKeeps, ReapKeeps, SentinelsKeep
  DEF DispatcherStep
<1>2. CASE \E s \in Slot :
              WorkerStep(s) \/ WorkerSendResult(s) \/ WorkerCrashes(s) \/ TestExpires(s)
  BY <1>2, WorkerStepKeeps, ControlStepKeeps
<1>3. CASE Interrupt
  BY <1>3, ControlStepKeeps
<1>4. CASE UNCHANGED vars
  BY <1>4, ControlKeeps, CountIsExact DEF vars, control, books, flags, processes, user,
     Inv, SlotInv, Stage
<1> QED
  BY <1>1, <1>2, <1>3, <1>4 DEF Next, Finished

LEMMA InitEstablishes == Init => Inv
<1> SUFFICES ASSUME Init PROVE Inv
  OBVIOUS
<1>1. /\ runner_opts \in Requests /\ RunnerInit(runner_opts)
      /\ workers = [s \in Slot |-> NoWorker] /\ proc = [s \in Slot |-> "none"]
      /\ dispatch_pipe = [s \in Slot |-> <<>>] /\ pc = "gather" /\ ret = "loop"
      /\ todo = Case /\ cur_dispatched_tests = 0 /\ num_workers = 0
  BY DEF Init
<1>2. workers \in [Slot -> Worker] /\ proc \in [Slot -> ProcState]
  BY <1>1 DEF Worker, NoWorker, ProcState
<1>3. dispatch_pipe \in [Slot -> Seq(Case \cup {Sentinel})]
  BY <1>1
<1>4. InFlight(Slot) = {} /\ Connected = {}
  BY <1>1 DEF InFlight, Connected, NoWorker
<1>5. MaxJobs \in Nat
  BY <1>1, DispatcherAssumption, MaxJobsBounds
<1>6. SlotInv
  BY <1>1, <1>2, <1>3, <1>4, <1>5, FS_EmptySet DEF SlotInv, Stage, NoWorker,
     WorkersCounted
<1>7. PipeInv
  BY <1>1 DEF PipeInv, NoWorker
<1> QED
  BY <1>6, <1>7 DEF Inv

(* The slots, the counters and the processes they stand for stay together   *)
(* in every run of the dispatcher, whoever dies, hangs or interrupts.       *)
THEOREM Invariance == Spec => []Inv
BY InitEstablishes, NextKeeps, PTL DEF Spec

(* A pid that waitpid() returns is found among the slots, kill() goes to no *)
(* process that was reaped, and the asserts on cur_dispatched_tests hold,   *)
(* for any number of tests, jobs and queues.                                *)
THEOREM BooksAlwaysBalance == Spec => []BooksBalance
<1>1. Inv => BooksBalance
  <2> SUFFICES ASSUME Inv PROVE BooksBalance
    OBVIOUS
  <2>1. ASSUME NEW s \in Slot PROVE Cardinality(workers[s].tests) <= 1
    <3>1. \A d, e \in workers[s].tests : d = e
      BY DEF Inv, SlotInv
    <3>2. CASE workers[s].tests = {}
      BY <3>2, FS_EmptySet
    <3>3. CASE workers[s].tests # {}
      <4>1. PICK d \in workers[s].tests : workers[s].tests = {d}
        BY <3>1, <3>3
      <4>2. Cardinality({d}) = 1
        BY FS_Singleton
      <4>3. Cardinality(workers[s].tests) = 1
        BY <4>1, <4>2
      <4> QED
        BY <4>3
    <3> QED
      BY <3>2, <3>3
  <2> QED
    BY <2>1 DEF Inv, SlotInv, BooksBalance
<1> QED
  BY <1>1, Invariance, PTL

(* "The runner will isolate each test in a separate process" (runner.h): no *)
(* process is sent, or runs, a second test.                                 *)
THEOREM ProcessesAreIsolated == Spec => []ProcessIsolation
<1>1. Inv => ProcessIsolation
  <2> SUFFICES ASSUME Inv, Isolation = "process", NEW s \in Slot
               PROVE  Cardinality({i \in DOMAIN dispatch_pipe[s] :
                                      dispatch_pipe[s][i] # Sentinel})
                      + (IF proc[s] \in {"running", "served"} THEN 1 ELSE 0) <= 1
    BY DEF ProcessIsolation
  <2> DEFINE tests == {i \in DOMAIN dispatch_pipe[s] : dispatch_pipe[s][i] # Sentinel}
  <2>1. CASE dispatch_pipe[s] \in {<<>>, <<Sentinel>>}
    <3>1. tests = {}
      BY <2>1
    <3> QED
      BY <3>1, FS_EmptySet
  <2>2. CASE dispatch_pipe[s] \notin {<<>>, <<Sentinel>>}
    <3>1. PICK c \in Case :
              dispatch_pipe[s] \in {<<c, Sentinel>>, <<Sentinel, c, Sentinel>>}
      BY <2>2 DEF Inv, PipeInv
    <3>2. proc[s] \notin {"running", "served"}
      BY <2>2 DEF Inv, PipeInv
    <3>3. tests \subseteq {1} \/ tests \subseteq {2}
      <4>1. CASE dispatch_pipe[s] = <<c, Sentinel>>
        BY <4>1
      <4>2. CASE dispatch_pipe[s] = <<Sentinel, c, Sentinel>>
        BY <4>2
      <4> QED
        BY <3>1, <4>1, <4>2
    <3>4. Cardinality(tests) <= 1
      <4>1. Cardinality({1}) = 1 /\ IsFiniteSet({1}) /\ Cardinality({2}) = 1 /\ IsFiniteSet({2})
        BY FS_Singleton
      <4> HIDE DEF tests
      <4> QED
        BY <3>3, <4>1, FS_Subset
    <3> HIDE DEF tests
    <3>5. Cardinality(tests) + (IF proc[s] \in {"running", "served"} THEN 1 ELSE 0)
              = Cardinality(tests) + 0
      BY <3>2
    <3>6. Cardinality(tests) \in Nat
      <4>1. IsFiniteSet({1}) /\ IsFiniteSet({2})
        BY FS_Singleton
      <4> QED
        BY <3>3, <4>1, FS_Subset, FS_CardinalityType
    <3> QED
      BY <3>4, <3>5, <3>6 DEF tests
  <2> QED
    BY <2>1, <2>2
<1> QED
  BY <1>1, Invariance, PTL

=============================================================================
