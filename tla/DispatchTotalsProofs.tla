------------------------ MODULE DispatchTotalsProofs ------------------------
(***************************************************************************)
(* Proofs about the report and the exit status of Dispatcher.  Whatever    *)
(* happens, and on any number of queues: results go under names that ran,  *)
(* and the exit status is a count of them.  Where nothing disturbs a test  *)
(* run (Undisturbed: no worker crashes, nobody interrupts, and there is    *)
(* one queue if there is a timeout): only tests past their timeout are     *)
(* lost, and every case that was to run is reported exactly once.          *)
(***************************************************************************)
EXTENDS DispatchReportsProofs

-----------------------------------------------------------------------------
(* What the names in the report stand for.                                  *)

(* Only worker_start_test() gives a slot anything.                          *)
LEMMA PartsShrink ==
    ASSUME Inv, Rest, ParcelInv, [Next]_vars, NEW s \in Slot,
           ~(StartTest /\ s = target /\ Alive(s))
    PROVE  Parcel(s)' \subseteq Parcel(s) /\ workers'[s].tests \subseteq workers[s].tests
<1>1. CASE Quiet
  BY <1>1, QuietKeepsParcels
<1>2. CASE StartTest
  <2>1. /\ dispatch_pipe'[s] = dispatch_pipe[s] /\ workers'[s].tests = workers[s].tests
        /\ UNCHANGED <<proc, running, result_pipe>>
    BY <1>2 DEF StartTest, Inv, SlotInv
  <2> QED
    BY <2>1 DEF Parcel, Unread, Run, Answers
<1>3. CASE ReapWorkers
  <2>1. NoWorker.tests = {}
    BY DEF NoWorker
  <2> QED
    BY <1>3, <2>1, ReapClears
<1>4. ASSUME NEW t \in Slot, DrainResultPipe(t)
      PROVE  Parcel(s)' \subseteq Parcel(s) /\ workers'[s].tests \subseteq workers[s].tests
  <2>1. CASE s = t
    BY <1>4, <2>1, DrainTakes
  <2>2. CASE s # t
    <3>1. /\ workers'[s] = workers[s] /\ result_pipe'[s] = result_pipe[s]
          /\ UNCHANGED <<proc, running, dispatch_pipe>>
      BY <1>4, <2>2 DEF DrainResultPipe, Inv, SlotInv, Rest
    <3> QED
      BY <3>1 DEF Parcel, Unread, Run, Answers
  <2> QED
    BY <2>1, <2>2
<1> QED
  BY <1>1, <1>2, <1>3, <1>4, StepsAreQuiet

AnswerState == Inv /\ Rest /\ ParcelInv /\ AnswerInv

(* The dispatch loop does not go back, and picks a case only where it       *)
(* stands.                                                                  *)
LEMMA LoopGoesOn ==
    ASSUME Inv, [Next]_vars
    PROVE  /\ todo' \subseteq todo
           /\ Committed' => (Committed /\ case' = case) \/ DispatchTest
           /\ StartTest => ~Committed'
<1> DEFINE goes ==
             /\ todo' \subseteq todo
             /\ Committed' => (Committed /\ case' = case) \/ DispatchTest
             /\ StartTest => ~Committed'
<1> SUFFICES goes
  OBVIOUS
<1> USE DEF control, books, flags, processes, user, Stage, Committed
<1>0. pc \in {"gather", "loop", "begin", "full", "claim", "find", "send",
              "collect", "epoll", "cleanup", "reap", "done", "failed"}
      /\ ret \in {"loop", "full", "find", "reap"}
  BY DEF Inv, SlotInv
<1>1. CASE StartTest
  BY <1>0, <1>1 DEF StartTest, CollectThen
<1>2. ASSUME ~StartTest, UNCHANGED <<ret, case>>, todo' \subseteq todo,
             Stage' = Stage \/ Stage \in {"begin", "full", "claim", "find", "send"}
                            \/ Stage' \notin {"begin", "full", "claim", "find", "send"}
      PROVE  goes
  BY <1>2
<1>3. CASE ReportSkip \/ RunInProcess
  <2>1. todo' \subseteq todo /\ UNCHANGED <<pc, ret, case>> /\ pc = "loop"
    BY <1>3 DEF ReportSkip, RunInProcess
  <2> QED
    BY <1>0, <2>1 DEF StartTest
<1>4. CASE DispatchTest
  <2>1. todo' \subseteq todo /\ pc = "loop"
    BY <1>4 DEF DispatchTest
  <2> QED
    BY <1>4, <2>1 DEF StartTest
<1>5. CASE \/ GatherVulkanInfo \/ EndDispatchPhase \/ FindOpenWorker \/ ForkWorker \/ ForkFails
           \/ WorkerSetUpFails \/ NothingToCollect \/ SendSentinels
  BY <1>0, <1>5 DEF GatherVulkanInfo, EndDispatchPhase, FindOpenWorker, ForkWorker, ForkFails,
     WorkerSetUpFails, NothingToCollect, SendSentinels, StartTest
<1>6. CASE AwaitRoom \/ AwaitWorker \/ AwaitWorkers
  BY <1>0, <1>6 DEF AwaitRoom, AwaitWorker, AwaitWorkers, CollectThen, StartTest
<1>7. CASE YieldUninterrupted \/ YieldKillsWorkers \/ WakeFromNap \/ HaltTestRun
  BY <1>0, <1>7 DEF YieldUninterrupted, YieldKillsWorkers, WakeFromNap, HaltTestRun, YieldsTo,
     NextPhase, StartTest
<1>8. CASE ReapWorkers \/ \E s \in Slot : DrainResultPipe(s)
  BY <1>0, <1>8 DEF ReapWorkers, DrainResultPipe, StartTest
<1>9. CASE \E s \in Slot :
              WorkerStep(s) \/ WorkerSendResult(s) \/ WorkerCrashes(s) \/ TestExpires(s)
  <2>1. UNCHANGED control
    BY <1>9 DEF WorkerStep, WorkerSetsUp, WorkerRecvTest, WorkerRecvSentinel, WorkerKilled,
       WorkerSendResult, WorkerCrashes, TestExpires, Die
  <2> QED
    BY <1>0, <2>1 DEF StartTest, CollectThen
<1>10. CASE Interrupt
  BY <1>0, <1>10 DEF Interrupt, StartTest, CollectThen
<1>11. CASE UNCHANGED vars
  BY <1>0, <1>11 DEF vars, StartTest, CollectThen
<1> HIDE DEF goes, control, books, flags, processes, user, Stage, Committed
<1> QED
  BY <1>1, <1>3, <1>4, <1>5, <1>6, <1>7, <1>8, <1>9, <1>10, <1>11, StepsAreQuiet, Zenon
     DEF Quiet

(* The answers that the slots X give of a case.                             *)
GivenBy(X, n) == PacketsOf(X, n, PASS) + PacketsOf(X, n, SKIP) + PacketsOf(X, n, FAIL)

(* No two slots answer for the same case.                                   *)
LEMMA OneAnswers ==
    ASSUME AnswerState, NEW X \in SUBSET Slot, NEW n \in Name
    PROVE  /\ PacketsOf(X, n, LOST) = 0
           /\ \/ GivenBy(X, n) = 0
              \/ /\ GivenBy(X, n) = 1
                 /\ \E s \in X : result_pipe[s] # <<>> /\ Parcel(s) = {n}
<1> USE DEF AnswerState
<1>1. ASSUME NEW t \in X, result_pipe[t] # <<>>
      PROVE  /\ result_pipe[t][1] \in Case \X Result /\ result_pipe[t][1][2] # LOST
             /\ Parcel(t) = {result_pipe[t][1][1]} /\ result_pipe[t][1][1] \in Case
  BY <1>1, AnswerOwned
<1>2. \A r : PacketsOf(X, n, r) = Cardinality(Saying(X, n, r))
  BY PacketsAreSlots
<1>3. Cardinality({}) = 0
  BY FS_EmptySet
<1>4. PacketsOf(X, n, LOST) = 0
  <2>1. Saying(X, n, LOST) = {}
    BY <1>1 DEF Saying
  <2> QED
    BY <1>2, <1>3, <2>1
<1>5. CASE \A t \in X : result_pipe[t] = <<>> \/ result_pipe[t][1][1] # n
  <2>1. \A r : Saying(X, n, r) = {}
    BY <1>5 DEF Saying
  <2>2. \A r : PacketsOf(X, n, r) = 0
    BY <1>2, <1>3, <2>1
  <2> QED
    BY <1>4, <2>2 DEF GivenBy
<1>6. ASSUME NEW s \in X, result_pipe[s] # <<>>, result_pipe[s][1][1] = n
      PROVE  GivenBy(X, n) = 1 /\ Parcel(s) = {n}
  <2> DEFINE q == result_pipe[s][1][2]
  <2>1. Parcel(s) = {n} /\ n \in Case /\ q \in Result /\ q # LOST
        /\ result_pipe[s][1] = <<n, q>>
    BY <1>1, <1>6
  <2>2. ASSUME NEW t \in X, result_pipe[t] # <<>>, result_pipe[t][1][1] = n PROVE t = s
    <3>1. n \in Parcel(t) /\ n \in Parcel(s)
      BY <1>1, <2>1, <2>2
    <3> QED
      BY <3>1 DEF AnswerInv
  <2>3. \A r : Saying(X, n, r) = IF r = q THEN {s} ELSE {}
    BY <1>6, <2>1, <2>2 DEF Saying
  <2>4. Cardinality({s}) = 1
    BY FS_Singleton
  <2>5. \A r : PacketsOf(X, n, r) = IF r = q THEN 1 ELSE 0
    BY <1>2, <1>3, <2>3, <2>4
  <2>6. q \in {PASS, SKIP, FAIL}
    BY <2>1 DEF Result, PASS, SKIP, FAIL, LOST
  <2> HIDE DEF q
  <2>7. GivenBy(X, n) = 1
    BY <2>5, <2>6 DEF GivenBy, PASS, SKIP, FAIL
  <2> QED
    BY <2>1, <2>7
<1> QED
  BY <1>4, <1>5, <1>6

(* What is given up with some slots was begun.                              *)
LEMMA LossesWereBegun ==
    ASSUME AnswerState, NEW lost \in SUBSET Slot, NEW n \in Name
    PROVE  /\ Cardinality(Lost(lost, n)) \in Nat
           /\ Cardinality(Lost(lost, n)) # 0 => \E c \in Case \ todo : c[1] = n[1]
<1>1. IsFiniteSet(Lost(lost, n))
  BY DispatcherAssumption, FS_Subset DEF Lost
<1>2. ASSUME Cardinality(Lost(lost, n)) # 0 PROVE \E c \in Case \ todo : c[1] = n[1]
  <2>1. PICK t \in lost : n[1] \in workers[t].tests
    BY <1>2, FS_EmptySet DEF Lost
  <2> QED
    BY <2>1 DEF AnswerState, AnswerInv
<1> QED
  BY <1>1, <1>2, FS_CardinalityType

LEMMA GivenTyped ==
    ASSUME Rest, NEW n \in Name
    PROVE  /\ reports[n][PASS] \in Nat /\ reports[n][SKIP] \in Nat /\ reports[n][FAIL] \in Nat
           /\ reports[n][LOST] \in Nat /\ Given(n) \in Nat
<1>1. /\ reports[n][PASS] \in Nat /\ reports[n][SKIP] \in Nat /\ reports[n][FAIL] \in Nat
      /\ reports[n][LOST] \in Nat
  BY ResultsAreTyped DEF Rest
<1> QED
  BY <1>1 DEF Given

(* The dispatcher takes answers, and gives up tests.                        *)
LEMMA HearingKeepsAnswers ==
    ASSUME AnswerState, NEW X \in SUBSET Slot, NEW lost \in SUBSET Slot, Hears(X, lost),
           \A t \in X : result_pipe[t] # <<>> => Parcel(t)' = {},
           \A t \in Slot : Parcel(t)' \subseteq Parcel(t)
                           /\ workers'[t].tests \subseteq workers[t].tests,
           UNCHANGED <<todo, case>>, Committed' => Committed
    PROVE  AnswerInv'
<1> USE DEF AnswerState
<1>1. ASSUME NEW n \in Name
      PROVE  /\ Given(n)' = Given(n) + GivenBy(X, n)
             /\ reports'[n][LOST] > 0 =>
                   reports[n][LOST] > 0 \/ (n[2] = 0 /\ \E c \in Case \ todo : c[1] = n[1])
  <2>1. /\ reports[n][PASS] \in Nat /\ reports[n][SKIP] \in Nat /\ reports[n][FAIL] \in Nat
        /\ reports[n][LOST] \in Nat
    BY GivenTyped
  <2>2. \A r \in Result : PacketsOf(X, n, r) \in Nat
    BY PacketsCounted DEF Rest
  <2>3. /\ reports'[n][PASS] = reports[n][PASS] + PacketsOf(X, n, PASS)
        /\ reports'[n][SKIP] = reports[n][SKIP] + PacketsOf(X, n, SKIP)
        /\ reports'[n][FAIL] = reports[n][FAIL] + PacketsOf(X, n, FAIL)
    <3>1. ASSUME NEW r \in {PASS, SKIP, FAIL}
          PROVE  reports'[n][r] = reports[n][r] + PacketsOf(X, n, r)
      <4>1. r \in Result /\ r # LOST
        BY DEF Result, PASS, SKIP, FAIL, LOST
      <4>2. reports'[n][r] = reports[n][r] + PacketsOf(X, n, r) + 0
        BY <4>1 DEF Hears
      <4>3. reports[n][r] \in Nat /\ PacketsOf(X, n, r) \in Nat
        BY <2>2, <4>1 DEF Rest
      <4> QED
        BY <4>2, <4>3
    <3> QED
      BY <3>1
  <2>4. Given(n)' = Given(n) + GivenBy(X, n)
    <3>1. /\ PacketsOf(X, n, PASS) \in Nat /\ PacketsOf(X, n, SKIP) \in Nat
          /\ PacketsOf(X, n, FAIL) \in Nat
      BY <2>2, ResultsAreTyped
    <3>2. ASSUME NEW a \in Nat, NEW b \in Nat, NEW d \in Nat,
                 NEW x \in Nat, NEW y \in Nat, NEW z \in Nat
          PROVE  (a + x) + (b + y) + (d + z) = (a + b + d) + (x + y + z)
      OBVIOUS
    <3> DEFINE a == reports[n][PASS]
               b == reports[n][SKIP]
               d == reports[n][FAIL]
               x == PacketsOf(X, n, PASS)
               y == PacketsOf(X, n, SKIP)
               z == PacketsOf(X, n, FAIL)
    <3>3. Given(n) = a + b + d /\ GivenBy(X, n) = x + y + z
      BY DEF Given, GivenBy
    <3>4. Given(n)' = (a + x) + (b + y) + (d + z)
      BY <2>3 DEF Given
    <3>5. a \in Nat /\ b \in Nat /\ d \in Nat /\ x \in Nat /\ y \in Nat /\ z \in Nat
      BY <2>1, <3>1
    <3> HIDE DEF a, b, d, x, y, z
    <3>6. (a + x) + (b + y) + (d + z) = (a + b + d) + (x + y + z)
      BY <3>2, <3>5
    <3> QED
      BY <3>3, <3>4, <3>6
  <2>5. reports'[n][LOST] = reports[n][LOST] + PacketsOf(X, n, LOST)
                            + IF n[2] = 0 THEN Cardinality(Lost(lost, n)) ELSE 0
    BY ResultsAreTyped DEF Hears
  <2>6. PacketsOf(X, n, LOST) = 0
    BY OneAnswers
  <2> QED
    BY <2>1, <2>4, <2>5, <2>6, LossesWereBegun
<1>2. ASSUME NEW n \in Name
      PROVE  \/ Given(n)' = Given(n)
             \/ /\ Given(n)' = 1 /\ n \in Case \ todo /\ ~(Committed /\ case = n)
                /\ \A t \in Slot : n \notin Parcel(t)'
  <2>1. GivenBy(X, n) = 0 \/ (GivenBy(X, n) = 1
            /\ \E s \in X : result_pipe[s] # <<>> /\ Parcel(s) = {n})
    BY OneAnswers
  <2>2. Given(n) \in Nat /\ Given(n)' = Given(n) + GivenBy(X, n)
    BY <1>1, GivenTyped
  <2>3. CASE GivenBy(X, n) = 0
    BY <2>2, <2>3
  <2>4. ASSUME NEW s \in X, GivenBy(X, n) = 1, result_pipe[s] # <<>>, Parcel(s) = {n}
        PROVE  /\ Given(n)' = 1 /\ n \in Case \ todo /\ ~(Committed /\ case = n)
               /\ \A t \in Slot : n \notin Parcel(t)'
    <3>1. n \in Case
      BY <2>4 DEF Parcel, Unread, Run, Answers
    <3>2. n \notin todo /\ Given(n) = 0 /\ ~(Committed /\ case = n)
          /\ \A t \in Slot : n \in Parcel(t) => t = s
      BY <2>4 DEF AnswerInv
    <3>3. Parcel(s)' = {}
      BY <2>4
    <3> QED
      BY <2>2, <2>4, <3>1, <3>2, <3>3
  <2> QED
    BY <2>1, <2>3, <2>4
<1>3. AnsweredNamesRan'
  <2> SUFFICES ASSUME NEW n \in Name
               PROVE  /\ Given(n)' <= IF n \in Case \ todo THEN 1 ELSE 0
                      /\ reports'[n][LOST] > 0 => n[2] = 0 /\ \E c \in Case \ todo : c[1] = n[1]
    BY DEF AnsweredNamesRan, Given
  <2>1. /\ Given(n) <= IF n \in Case \ todo THEN 1 ELSE 0
        /\ reports[n][LOST] > 0 => n[2] = 0 /\ \E c \in Case \ todo : c[1] = n[1]
    BY DEF AnswerInv, AnsweredNamesRan
  <2>2. Given(n)' <= IF n \in Case \ todo THEN 1 ELSE 0
    BY <1>2, <2>1
  <2> QED
    BY <1>1, <2>1, <2>2
<1>4. Committed' => case' \notin todo' /\ (Given(case) = 0)'
  <2> SUFFICES ASSUME Committed' PROVE case' \notin todo' /\ (Given(case) = 0)'
    OBVIOUS
  <2>1. Committed /\ case \notin todo /\ Given(case) = 0
    BY DEF AnswerInv
  <2>2. case \in Name
    <3>1. case \in Case
      BY <2>1 DEF Committed, Inv, SlotInv
    <3> QED
      BY <3>1, CasesAreNoSentinels
  <2> QED
    BY <1>2, <2>1, <2>2 DEF Given
<1>5. ASSUME NEW s \in Slot, NEW c \in Parcel(s)'
      PROVE  /\ c \notin todo' /\ Given(c)' = 0 /\ ~(Committed' /\ case' = c)
             /\ \A t \in Slot : c \in Parcel(t)' => t = s
  <2>1. c \in Parcel(s) /\ c \in Name
    BY CasesAreNoSentinels DEF Parcel, Unread, Run, Answers
  <2>2. /\ c \notin todo /\ Given(c) = 0 /\ ~(Committed /\ case = c)
        /\ \A t \in Slot : c \in Parcel(t) => t = s
    BY <2>1 DEF AnswerInv
  <2> QED
    BY <1>2, <2>1, <2>2
<1>6. \A s \in Slot : \A d \in workers'[s].tests : \E c \in Case \ todo' : c[1] = d
  BY DEF AnswerInv
<1> QED
  BY <1>3, <1>4, <1>5, <1>6 DEF AnswerInv

(* A step that reports nothing.                                             *)
LEMMA SilenceKeepsAnswers ==
    ASSUME AnswerState, [Next]_vars, reports' = reports
    PROVE  AnswerInv'
<1> USE DEF AnswerState
<1>1. todo' \subseteq todo /\ \A n : Given(n)' = Given(n)
  BY LoopGoesOn DEF Given
<1>2. AnsweredNamesRan'
  <2> SUFFICES ASSUME NEW n \in Name
               PROVE  /\ Given(n) <= IF n \in Case \ todo' THEN 1 ELSE 0
                      /\ reports[n][LOST] > 0 => n[2] = 0 /\ \E c \in Case \ todo' : c[1] = n[1]
    BY <1>1 DEF AnsweredNamesRan
  <2>1. /\ Given(n) <= IF n \in Case \ todo THEN 1 ELSE 0
        /\ Given(n) \in Nat
        /\ reports[n][LOST] > 0 => n[2] = 0 /\ \E c \in Case \ todo : c[1] = n[1]
    BY GivenTyped DEF AnswerInv, AnsweredNamesRan
  <2> QED
    BY <1>1, <2>1
<1>3. DispatchTest => case' \in todo /\ case' \notin todo' /\ Given(case') = 0
  <2> SUFFICES ASSUME DispatchTest
               PROVE  case' \in todo /\ case' \notin todo' /\ Given(case') = 0
    OBVIOUS
  <2>1. case' \in todo /\ todo' = todo \ {case'} /\ todo \subseteq Case
    BY NextCaseIsLeft DEF DispatchTest, Inv, SlotInv
  <2>2. case' \in Name
    BY <2>1, CasesAreNoSentinels
  <2>3. Given(case') <= IF case' \in Case \ todo THEN 1 ELSE 0
    BY <2>2 DEF AnswerInv, AnsweredNamesRan
  <2>4. Given(case') <= 0 /\ Given(case') \in Nat
    BY <2>1, <2>2, <2>3, GivenTyped
  <2> QED
    BY <2>1, <2>4
<1>4. Committed' => case' \notin todo' /\ (Given(case) = 0)'
  <2> SUFFICES ASSUME Committed' PROVE case' \notin todo' /\ (Given(case) = 0)'
    OBVIOUS
  <2>1. Given(case') = 0 /\ case' \notin todo'
    <3>1. CASE Committed /\ case' = case
      BY <1>1, <3>1 DEF AnswerInv
    <3> QED
      BY <1>3, <3>1, LoopGoesOn
  <2> QED
    BY <2>1 DEF Given
<1>5. ASSUME NEW s \in Slot, ~(StartTest /\ s = target /\ Alive(s)), NEW c \in Parcel(s)
      PROVE  c \notin todo' /\ Given(c)' = 0 /\ ~(Committed' /\ case' = c)
  <2>1. c \notin todo /\ Given(c) = 0 /\ ~(Committed /\ case = c)
    BY DEF AnswerInv
  <2> QED
    BY <1>1, <1>3, <2>1, LoopGoesOn
<1>6. ASSUME NEW s \in Slot, ~(StartTest /\ s = target /\ Alive(s))
      PROVE  Parcel(s)' \subseteq Parcel(s) /\ workers'[s].tests \subseteq workers[s].tests
  BY <1>6, PartsShrink
<1>7. ASSUME NEW s \in Slot, StartTest, s = target, Alive(s)
      PROVE  /\ Parcel(s)' = {case} /\ workers'[s].tests = {case[1]} /\ ~Committed'
             /\ case \in Case \ todo' /\ Given(case) = 0
             /\ \A t \in Slot : case \notin Parcel(t)
  <2>1. Parcel(s)' = {case} /\ workers'[s].tests = {case[1]} /\ case \in Case
    BY <1>7, StartSends
  <2>2. Committed
    BY <1>7 DEF StartTest, Committed, Stage
  <2>3. ~Committed'
    BY <1>7, LoopGoesOn
  <2>4. /\ case \notin todo /\ Given(case) = 0
        /\ \A t \in Slot : case \notin Parcel(t)
    BY <2>2 DEF AnswerInv
  <2> QED
    BY <1>1, <2>1, <2>3, <2>4
<1>8. ASSUME NEW s \in Slot, NEW c \in Parcel(s)'
      PROVE  /\ c \notin todo' /\ Given(c)' = 0 /\ ~(Committed' /\ case' = c)
             /\ \A t \in Slot : c \in Parcel(t)' => t = s
  <2>1. CASE StartTest /\ s = target /\ Alive(s)
    <3>1. ASSUME NEW t \in Slot, t # s PROVE c \notin Parcel(t)'
      BY <1>6, <1>7, <2>1, <3>1
    <3>2. c = case
      BY <1>7, <2>1
    <3>3. c \notin todo' /\ Given(c) = 0 /\ ~Committed'
      BY <1>7, <2>1, <3>2
    <3> QED
      BY <1>1, <3>1, <3>3
  <2>2. CASE ~(StartTest /\ s = target /\ Alive(s))
    <3>1. c \in Parcel(s)
      BY <1>6, <2>2
    <3>2. c \notin todo' /\ Given(c)' = 0 /\ ~(Committed' /\ case' = c)
      BY <1>5, <2>2, <3>1
    <3>3. ASSUME NEW t \in Slot, c \in Parcel(t)' PROVE t = s
      <4>1. CASE StartTest /\ t = target /\ Alive(t)
        <5>1. c = case
          BY <1>7, <3>3, <4>1
        <5> QED
          BY <1>7, <3>1, <4>1, <5>1
      <4>2. CASE ~(StartTest /\ t = target /\ Alive(t))
        <5>1. c \in Parcel(t)
          BY <1>6, <3>3, <4>2
        <5> QED
          BY <3>1, <5>1 DEF AnswerInv
      <4> QED
        BY <4>1, <4>2
    <3> QED
      BY <3>2, <3>3
  <2> QED
    BY <2>1, <2>2
<1>9. ASSUME NEW s \in Slot, NEW d \in workers'[s].tests
      PROVE  \E c \in Case \ todo' : c[1] = d
  <2>1. CASE StartTest /\ s = target /\ Alive(s)
    BY <1>7, <2>1
  <2>2. CASE ~(StartTest /\ s = target /\ Alive(s))
    BY <1>1, <1>6, <2>2 DEF AnswerInv
  <2> QED
    BY <2>1, <2>2
<1> QED
  BY <1>2, <1>4, <1>8, <1>9 DEF AnswerInv

(* A case that is skipped, or run in the dispatcher's process.              *)
LEMMA SingleKeepsAnswers ==
    ASSUME AnswerState, Rest', [Next]_vars, ReportSkip \/ RunInProcess
    PROVE  AnswerInv'
<1> USE DEF AnswerState
<1> DEFINE c == NextCase(todo)
<1>1. /\ c \in todo /\ c \in Case /\ c \in Name /\ todo' = todo \ {c} /\ todo \subseteq Case
  <2>1. todo # {} /\ todo \subseteq Case /\ todo' = todo \ {c}
    BY DEF ReportSkip, RunInProcess, Inv, SlotInv
  <2> QED
    BY <2>1, NextCaseIsLeft, CasesAreNoSentinels
<1>2. PICK r \in {PASS, SKIP, FAIL} : Report(c, r)
  BY DEF ReportSkip, RunInProcess
<1>3. ~Committed'
  <2>1. pc = "loop"
    BY DEF ReportSkip, RunInProcess
  <2> QED
    BY <2>1, LoopGoesOn DEF Committed, Stage, DispatchTest, ReportSkip, RunInProcess
<1> HIDE DEF c
<1>4. ASSUME NEW n \in Name
      PROVE  /\ n = c => Given(n)' = Given(n) + 1
             /\ n # c => Given(n)' = Given(n)
             /\ reports'[n][LOST] = reports[n][LOST]
  <2>1. reports' = [reports EXCEPT ![c][r] = @ + 1] /\ reports \in [Name -> [Result -> Nat]]
    BY <1>2 DEF Report, Rest
  <2>2. CASE n # c
    <3>1. reports'[n] = reports[n]
      BY <2>1, <2>2
    <3> QED
      BY <2>2, <3>1 DEF Given
  <2>3. CASE n = c
    <3>1. \A q \in Result : reports'[n][q] = IF q = r THEN reports[n][q] + 1 ELSE reports[n][q]
      BY <1>1, <2>1, <2>3
    <3>2. /\ reports'[n][PASS] = IF PASS = r THEN reports[n][PASS] + 1 ELSE reports[n][PASS]
          /\ reports'[n][SKIP] = IF SKIP = r THEN reports[n][SKIP] + 1 ELSE reports[n][SKIP]
          /\ reports'[n][FAIL] = IF FAIL = r THEN reports[n][FAIL] + 1 ELSE reports[n][FAIL]
          /\ reports'[n][LOST] = IF LOST = r THEN reports[n][LOST] + 1 ELSE reports[n][LOST]
      BY <3>1, ResultsAreTyped
    <3>3. reports[n][PASS] \in Nat /\ reports[n][SKIP] \in Nat /\ reports[n][FAIL] \in Nat
      BY GivenTyped
    <3> QED
      BY <1>2, <2>3, <3>2, <3>3 DEF Given, PASS, SKIP, FAIL, LOST
  <2> QED
    BY <2>2, <2>3
<1>5. AnsweredNamesRan'
  <2> SUFFICES ASSUME NEW n \in Name
               PROVE  /\ Given(n)' <= IF n \in Case \ todo' THEN 1 ELSE 0
                      /\ reports'[n][LOST] > 0 => n[2] = 0 /\ \E e \in Case \ todo' : e[1] = n[1]
    BY DEF AnsweredNamesRan, Given
  <2>1. /\ Given(n) <= IF n \in Case \ todo THEN 1 ELSE 0
        /\ Given(n) \in Nat
        /\ reports[n][LOST] > 0 => n[2] = 0 /\ \E e \in Case \ todo : e[1] = n[1]
    BY GivenTyped DEF AnswerInv, AnsweredNamesRan
  <2>2. Given(n)' <= IF n \in Case \ todo' THEN 1 ELSE 0
    <3>1. CASE n = c
      <4>1. Given(n) <= 0
        BY <1>1, <2>1, <3>1
      <4>2. n \in Case \ todo' /\ Given(n)' = Given(n) + 1
        BY <1>1, <1>4, <3>1
      <4> QED
        BY <2>1, <4>1, <4>2
    <3>2. CASE n # c
      BY <1>1, <1>4, <2>1, <3>2
    <3> QED
      BY <3>1, <3>2
  <2>3. reports'[n][LOST] > 0 => n[2] = 0 /\ \E e \in Case \ todo' : e[1] = n[1]
    BY <1>1, <1>4, <2>1
  <2> QED
    BY <2>2, <2>3
<1>6. ASSUME NEW s \in Slot
      PROVE  Parcel(s)' \subseteq Parcel(s) /\ workers'[s].tests \subseteq workers[s].tests
  BY PartsShrink DEF StartTest, ReportSkip, RunInProcess
<1>7. ASSUME NEW s \in Slot, NEW e \in Parcel(s)'
      PROVE  /\ e \notin todo' /\ Given(e)' = 0 /\ ~(Committed' /\ case' = e)
             /\ \A t \in Slot : e \in Parcel(t)' => t = s
  <2>1. e \in Parcel(s) /\ e \in Name
    BY <1>6, CasesAreNoSentinels DEF Parcel, Unread, Run, Answers
  <2>2. e \notin todo /\ Given(e) = 0 /\ \A t \in Slot : e \in Parcel(t) => t = s
    BY <2>1 DEF AnswerInv
  <2> QED
    BY <1>1, <1>3, <1>4, <1>6, <2>1, <2>2
<1>8. \A s \in Slot : \A d \in workers'[s].tests : \E e \in Case \ todo' : e[1] = d
  BY <1>1, <1>6 DEF AnswerInv
<1> QED
  BY <1>3, <1>5, <1>7, <1>8 DEF AnswerInv

LEMMA AnswerNext ==
    ASSUME AnswerState, Rest', [Next]_vars
    PROVE  AnswerInv'
<1> USE DEF AnswerState
<1>1. CASE ReportSkip \/ RunInProcess
  BY <1>1, SingleKeepsAnswers
<1>2. ASSUME ReapWorkers \/ \E s \in Slot : DrainResultPipe(s)
      PROVE  /\ \A t \in Slot : Parcel(t)' \subseteq Parcel(t)
                                /\ workers'[t].tests \subseteq workers[t].tests
             /\ UNCHANGED <<todo, case>> /\ (Committed' => Committed)
  <2>1. ~StartTest /\ ~DispatchTest /\ UNCHANGED <<todo, case>>
    BY <1>2 DEF ReapWorkers, DrainResultPipe, StartTest, DispatchTest
  <2> QED
    BY <2>1, PartsShrink, LoopGoesOn
<1>3. CASE ReapWorkers
  <2>1. Hears(Dead, Mute)
    BY <1>3, ReapHears
  <2>2. Dead \in SUBSET Slot /\ Mute \in SUBSET Slot
    BY DEF Dead, Mute
  <2>3. \A t \in Dead : result_pipe[t] # <<>> => Parcel(t)' = {}
    BY <1>3, ReapClears DEF Dead
  <2> QED
    BY <1>2, <1>3, <2>1, <2>2, <2>3, HearingKeepsAnswers
<1>4. ASSUME NEW s \in Slot, DrainResultPipe(s) PROVE AnswerInv'
  <2> DEFINE X == {s}
             lost == {}
  <2>1. Hears(X, lost)
    BY <1>4, DrainHears
  <2>2. X \in SUBSET Slot /\ lost \in SUBSET Slot
    OBVIOUS
  <2>3. \A t \in X : result_pipe[t] # <<>> => Parcel(t)' = {}
    BY <1>4, DrainTakes
  <2> HIDE DEF X, lost
  <2> QED
    BY <1>2, <1>4, <2>1, <2>2, <2>3, HearingKeepsAnswers
<1>5. CASE /\ ~ReportSkip /\ ~RunInProcess /\ ~ReapWorkers
           /\ \A s \in Slot : ~DrainResultPipe(s)
  BY <1>5, OthersReportNothing, SilenceKeepsAnswers
<1> QED
  BY <1>1, <1>3, <1>4, <1>5

LEMMA AnswerInitially == Init => AnswerInv
<1> SUFFICES ASSUME Init PROVE AnswerInv
  OBVIOUS
<1>1. ~Committed
  BY DEF Init, Committed, Stage
<1>2. \A s \in Slot : Parcel(s) = {} /\ workers[s].tests = {}
  BY DEF Init, Parcel, Unread, Run, Answers, NoWorker
<1>3. AnsweredNamesRan
  BY ResultsAreTyped DEF Init, AnsweredNamesRan, Given
<1> QED
  BY <1>1, <1>2, <1>3 DEF AnswerInv

LEMMA AnswersAlways == Spec => []AnswerState
<1>1. Init => AnswerState
  BY InitEstablishes, RestInitially, ParcelInitially, AnswerInitially DEF AnswerState
<1>2. AnswerState /\ [Next]_vars => AnswerState'
  <2> SUFFICES ASSUME AnswerState, [Next]_vars PROVE AnswerState'
    OBVIOUS
  <2>1. Inv' /\ Rest' /\ ParcelInv'
    BY NextKeeps, RestTyped, ParcelNext DEF AnswerState
  <2>2. AnswerInv'
    BY <2>1, AnswerNext
  <2> QED
    BY <2>1, <2>2 DEF AnswerState
<1> QED
  BY <1>1, <1>2, PTL DEF Spec

(* What a name in the report stands for, whatever dies and whoever          *)
(* interrupts, on any number of queues: a case passes, fails or is skipped  *)
(* at most once, and only after the loop has come to it on that queue; a    *)
(* loss is reported under queue 0, whichever queue the test was run on.     *)
THEOREM AnswersNameTheirCases == Spec => []AnsweredNamesRan
<1>1. AnswerState => AnsweredNamesRan
  BY DEF AnswerState, AnswerInv
<1> QED
  BY <1>1, AnswersAlways, PTL

-----------------------------------------------------------------------------
(* What the exit status says.                                               *)

LEMMA SameSize ==
    ASSUME NEW S, IsFiniteSet(S), NEW T, NEW f \in [S -> T],
           \A a, b \in S : f[a] = f[b] => a = b,
           \A t \in T : \E a \in S : f[a] = t
    PROVE  Cardinality(T) = Cardinality(S)
<1>1. f \in Bijection(S, T)
  BY Fun_IsBij
<1>2. ExistsBijection(S, T)
  BY <1>1 DEF ExistsBijection
<1> QED
  BY <1>2, FS_Bijection

(* The cases that passed or were skipped, and the reports that say so.      *)
Good == {c \in Case : reports[c][PASS] + reports[c][SKIP] > 0}
Praise == MadeOf(reports, Name, {PASS}) \cup MadeOf(reports, Name, {SKIP})

LEMMA PraiseCounted ==
    ASSUME Rest
    PROVE  IsFiniteSet(Praise) /\ Cardinality(Praise) = Total(PASS) + Total(SKIP)
<1>1. {PASS} \in SUBSET Result /\ {SKIP} \in SUBSET Result /\ Name \in SUBSET Name
  BY ResultsAreTyped
<1> DEFINE P == MadeOf(reports, Name, {PASS})
           S == MadeOf(reports, Name, {SKIP})
<1>2. /\ IsFiniteSet(P) /\ Cardinality(P) \in Nat /\ IsFiniteSet(S) /\ Cardinality(S) \in Nat
  BY <1>1, MadeFinite DEF Rest
<1>3. P \cap S = {}
  <2>1. \A e \in P : e[1][2] = PASS
    BY DEF MadeOf
  <2>2. \A e \in S : e[1][2] = SKIP
    BY DEF MadeOf
  <2>3. PASS # SKIP
    BY DEF PASS, SKIP
  <2> HIDE DEF P, S
  <2> QED
    BY <2>1, <2>2, <2>3
<1>4. Total(PASS) = Cardinality(P) /\ Total(SKIP) = Cardinality(S) /\ Praise = P \cup S
  BY DEF Total, Made, MadeOf, Praise
<1> HIDE DEF P, S
<1>5. /\ IsFiniteSet(P \cup S)
      /\ Cardinality(P \cup S) = Cardinality(P) + Cardinality(S) - Cardinality(P \cap S)
  BY <1>2, FS_Union
<1>6. Cardinality(P \cap S) = 0
  BY <1>3, FS_EmptySet
<1> QED
  BY <1>2, <1>4, <1>5, <1>6

(* A single report says of a case that it is good.                          *)
LEMMA PraiseIsGood ==
    ASSUME AnswerState
    PROVE  Cardinality(Good) = Cardinality(Praise)
<1> USE DEF AnswerState
<1> DEFINE of == [e \in Praise |-> e[1][1]]
<1>1. /\ \A n \in Name : reports[n][PASS] \in Nat /\ reports[n][SKIP] \in Nat
      /\ PASS \in Result /\ SKIP \in Result
  BY ResultsAreTyped DEF Rest
<1>2. ASSUME NEW e \in Praise
      PROVE  /\ e = <<<<e[1][1], e[1][2]>>, 1>> /\ e[1][1] \in Good
             /\ e[1][2] \in {PASS, SKIP}
             /\ \A r \in {PASS, SKIP} : reports[e[1][1]][r] > 0 => r = e[1][2]
  <2>1. /\ e = <<<<e[1][1], e[1][2]>>, e[2]>>
        /\ e[1][1] \in Name /\ e[1][2] \in {PASS, SKIP}
        /\ e[2] \in 1 .. reports[e[1][1]][e[1][2]]
    BY DEF Praise, MadeOf
  <2> DEFINE n == e[1][1]
             q == e[1][2]
  <2>2. n \in Name /\ q \in {PASS, SKIP} /\ e[2] \in 1 .. reports[n][q]
    BY <2>1
  <2> HIDE DEF n, q
  <2>3. /\ reports[n][PASS] \in Nat /\ reports[n][SKIP] \in Nat /\ reports[n][FAIL] \in Nat
        /\ reports[n][PASS] + reports[n][SKIP] + reports[n][FAIL]
               <= IF n \in Case \ todo THEN 1 ELSE 0
    BY <2>2, GivenTyped DEF AnswerInv, AnsweredNamesRan, Given
  <2>4. CASE q = PASS
    <3>1. reports[n][PASS] = 1 /\ reports[n][SKIP] = 0 /\ n \in Case /\ e[2] = 1
      BY <2>2, <2>3, <2>4
    <3> QED
      BY <2>1, <2>4, <3>1 DEF Good, n, q
  <2>5. CASE q = SKIP
    <3>1. reports[n][SKIP] = 1 /\ reports[n][PASS] = 0 /\ n \in Case /\ e[2] = 1
      BY <2>2, <2>3, <2>5
    <3> QED
      BY <2>1, <2>5, <3>1 DEF Good, n, q
  <2> QED
    BY <2>2, <2>4, <2>5
<1>3. of \in [Praise -> Good]
  BY <1>2
<1>4. \A a, b \in Praise : of[a] = of[b] => a = b
  <2> SUFFICES ASSUME NEW a \in Praise, NEW b \in Praise, a[1][1] = b[1][1] PROVE a = b
    OBVIOUS
  <2> DEFINE n == a[1][1]
             q == a[1][2]
             p == b[1][2]
  <2>1. /\ a = <<<<n, q>>, 1>> /\ b = <<<<n, p>>, 1>>
        /\ q \in {PASS, SKIP} /\ p \in {PASS, SKIP}
        /\ n \in Case /\ reports[n][PASS] + reports[n][SKIP] > 0
        /\ \A r \in {PASS, SKIP} : reports[n][r] > 0 => r = q
        /\ \A r \in {PASS, SKIP} : reports[n][r] > 0 => r = p
    BY <1>2 DEF Good
  <2> HIDE DEF n, q, p
  <2>2. reports[n][PASS] > 0 \/ reports[n][SKIP] > 0
    BY <1>1, <2>1, CasesAreNoSentinels
  <2>3. q = p
    BY <2>1, <2>2
  <2> QED
    BY <2>1, <2>3
<1>5. \A c \in Good : \E e \in Praise : of[e] = c
  <2> SUFFICES ASSUME NEW c \in Good PROVE \E e \in Praise : e[1][1] = c
    OBVIOUS
  <2>1. c \in Case /\ c \in Name /\ reports[c][PASS] + reports[c][SKIP] > 0
    BY CasesAreNoSentinels DEF Good
  <2>2. PICK r \in {PASS, SKIP} : 1 \in 1 .. reports[c][r]
    <3>1. reports[c][PASS] > 0 \/ reports[c][SKIP] > 0
      BY <1>1, <2>1
    <3>2. \A m \in Nat : m > 0 => 1 \in 1 .. m
      OBVIOUS
    <3> QED
      BY <1>1, <2>1, <3>1, <3>2
  <2> DEFINE nr == <<c, r>>
             e == <<nr, 1>>
  <2>3. e \in {nr} \X (1 .. reports[nr[1]][nr[2]]) /\ nr \in Name \X {r} /\ e[1][1] = c
    BY <2>1, <2>2
  <2> HIDE DEF e, nr
  <2>4. e \in MadeOf(reports, Name, {r})
    BY <2>3 DEF MadeOf
  <2>5. e \in Praise
    BY <2>2, <2>4 DEF Praise
  <2> QED
    BY <2>3, <2>5
<1>6. IsFiniteSet(Praise)
  BY PraiseCounted
<1> HIDE DEF of
<1> QED
  BY <1>3, <1>4, <1>5, <1>6, SameSize

(* What the exit status says, whatever happens: dispatcher_run() compares   *)
(* results, of which there is one for each case that passed or was skipped, *)
(* with the number of definitions, for any number of tests and queues.      *)
THEOREM ExitStatusIsACount == Spec => []ExitStatusCounts
<1>1. ASSUME AnswerState PROVE ExitStatusCounts
  <2>1. Cardinality(Good) = Total(PASS) + Total(SKIP)
    BY <1>1, PraiseIsGood, PraiseCounted DEF AnswerState
  <2> QED
    BY <2>1 DEF ExitStatusCounts, ReturnsSuccess, Good
<1> QED
  BY <1>1, AnswersAlways, PTL

-----------------------------------------------------------------------------
(* Who dies, and of what.                                                   *)

InCleanup == Stage \in {"cleanup", "reap", "done"}
InReap == Stage \in {"reap", "done"}
NoWorkerForIt == ForkFails \/ WorkerSetUpFails

(* How the dispatcher gets from one stage to the next.                      *)
LEMMA StagesFollow ==
    ASSUME Inv, Rest, ~sigint_flag, pc = "gather" => ~goto_next_phase, MaxInterrupts = 0,
           [Next]_vars
    PROVE  /\ ~sigint_flag' /\ todo' \subseteq todo /\ runner_opts' = runner_opts
           /\ Committed' => (Committed /\ case' = case) \/ DispatchTest
           /\ InReap => InReap'
           /\ InCleanup' => InCleanup \/ EndDispatchPhase \/ NoWorkerForIt
           /\ Committed => Committed' \/ StartTest \/ NoWorkerForIt
           /\ goto_next_phase => goto_next_phase'
           /\ pc' = "gather" => ~goto_next_phase'
<1> DEFINE follows ==
             /\ ~sigint_flag' /\ todo' \subseteq todo /\ runner_opts' = runner_opts
             /\ Committed' => (Committed /\ case' = case) \/ DispatchTest
             /\ InReap => InReap'
             /\ InCleanup' => InCleanup \/ EndDispatchPhase \/ NoWorkerForIt
             /\ Committed => Committed' \/ StartTest \/ NoWorkerForIt
             /\ goto_next_phase => goto_next_phase'
             /\ pc' = "gather" => ~goto_next_phase'
<1> SUFFICES follows
  OBVIOUS
<1> USE DEF control, books, flags, processes, user, Stage, Committed, InReap, InCleanup
<1>0. pc \in {"gather", "loop", "begin", "full", "claim", "find", "send",
              "collect", "epoll", "cleanup", "reap", "done", "failed"}
      /\ ret \in {"loop", "full", "find", "reap"}
      /\ goto_next_phase \in BOOLEAN /\ sigint_flag \in BOOLEAN
  BY DEF Inv, SlotInv, Rest
<1>1. CASE \/ GatherVulkanInfo \/ ReportSkip \/ RunInProcess \/ DispatchTest \/ EndDispatchPhase
  <2>1. CASE GatherVulkanInfo
    <3>1. /\ pc = "gather" /\ pc' \in {"loop", "failed"}
          /\ UNCHANGED <<ret, case, todo, sigint_flag, runner_opts>>
      BY <2>1 DEF GatherVulkanInfo
    <3> QED
      BY <1>0, <3>1
  <2>2. CASE ReportSkip \/ RunInProcess
    <3>1. todo' \subseteq todo /\ UNCHANGED <<pc, ret, case, flags, runner_opts>>
      BY <2>2 DEF ReportSkip, RunInProcess
    <3> QED
      BY <1>0, <3>1
  <2>3. CASE DispatchTest
    <3>1. todo' \subseteq todo /\ pc = "loop" /\ pc' = "begin" /\ UNCHANGED <<flags, runner_opts>>
      BY <2>3 DEF DispatchTest
    <3> QED
      BY <1>0, <2>3, <3>1
  <2>4. CASE EndDispatchPhase
    <3>1. /\ pc = "loop" /\ pc' \in {"done", "cleanup"}
          /\ UNCHANGED <<todo, case, flags, runner_opts>>
      BY <2>4 DEF EndDispatchPhase
    <3> QED
      BY <1>0, <2>4, <3>1
  <2> QED
    BY <1>1, <2>1, <2>2, <2>3, <2>4
<1>2. CASE \/ AwaitRoom \/ FindOpenWorker \/ ForkWorker \/ NoWorkerForIt \/ AwaitWorker
  BY <1>0, <1>2 DEF AwaitRoom, FindOpenWorker, ForkWorker, NoWorkerForIt, ForkFails,
     WorkerSetUpFails, AwaitWorker, CollectThen
<1>3. CASE StartTest \/ NothingToCollect \/ SendSentinels \/ AwaitWorkers
  <2>1. CASE StartTest
    <3>1. /\ pc = "send" /\ pc' = "collect" /\ ret' = "loop"
          /\ UNCHANGED <<todo, flags, runner_opts>>
      BY <2>1 DEF StartTest, CollectThen
    <3> QED
      BY <1>0, <2>1, <3>1
  <2>2. CASE NothingToCollect
    BY <1>0, <2>2 DEF NothingToCollect
  <2>3. CASE SendSentinels
    <3>1. /\ pc = "cleanup" /\ pc' \in {"reap", "done"} /\ UNCHANGED <<todo, case, flags, runner_opts>>
      BY <2>3 DEF SendSentinels
    <3> QED
      BY <1>0, <3>1
  <2>4. CASE AwaitWorkers
    BY <1>0, <2>4 DEF AwaitWorkers, CollectThen
  <2> QED
    BY <1>3, <2>1, <2>2, <2>3, <2>4
<1>4. CASE YieldUninterrupted \/ YieldKillsWorkers \/ WakeFromNap \/ HaltTestRun
  BY <1>0, <1>4 DEF YieldUninterrupted, YieldKillsWorkers, WakeFromNap, HaltTestRun, YieldsTo
<1>5. CASE Interrupt
  <2>1. interrupts \in 0 .. 0 /\ interrupts < 0
    BY <1>5 DEF Interrupt, Rest
  <2> QED
    BY <2>1
<1>6. CASE ReapWorkers
  BY <1>0, <1>6 DEF ReapWorkers
<1>7. CASE \E s \in Slot : DrainResultPipe(s)
  BY <1>0, <1>7 DEF DrainResultPipe
<1>8. CASE \E s \in Slot :
              WorkerStep(s) \/ WorkerSendResult(s) \/ WorkerCrashes(s) \/ TestExpires(s)
  <2>1. UNCHANGED <<control, flags, runner_opts>>
    BY <1>8 DEF WorkerStep, WorkerSetsUp, WorkerRecvTest, WorkerRecvSentinel, WorkerKilled,
       WorkerSendResult, WorkerCrashes, TestExpires, Die
  <2> QED
    BY <1>0, <2>1
<1>9. CASE UNCHANGED vars
  BY <1>0, <1>9 DEF vars
<1> HIDE DEF follows, control, books, flags, processes, user, Stage, Committed, InReap, InCleanup
<1>10. \/ GatherVulkanInfo \/ ReportSkip \/ RunInProcess \/ DispatchTest \/ EndDispatchPhase
       \/ AwaitRoom \/ FindOpenWorker \/ ForkWorker \/ NoWorkerForIt \/ AwaitWorker
       \/ StartTest \/ NothingToCollect \/ SendSentinels \/ AwaitWorkers
       \/ YieldUninterrupted \/ YieldKillsWorkers \/ WakeFromNap \/ HaltTestRun
       \/ Interrupt \/ ReapWorkers \/ (\E s \in Slot : DrainResultPipe(s))
       \/ (\E s \in Slot :
             WorkerStep(s) \/ WorkerSendResult(s) \/ WorkerCrashes(s) \/ TestExpires(s))
       \/ UNCHANGED vars
  BY Zenon DEF Next, DispatcherStep, Finished, NoWorkerForIt
<1> QED
  BY <1>1, <1>2, <1>3, <1>4, <1>5, <1>6, <1>7, <1>8, <1>9, <1>10, Zenon

(* DeathInv, of one slot.                                                   *)
DeathOf(s) ==
    /\ proc[s] = "none" => dispatch_pipe[s] = <<>>
    /\ s \in killed \cup expired =>
          HasTimeout /\ workers[s].pid /\ workers[s].lifetime_test_count # 0
    /\ s \in killed => workers[s].tests = {} \/ s \in expired
    /\ proc[s] = "zombie" => s \in killed \/ workers[s].recvd_sentinel
    /\ workers[s].recvd_sentinel =>
          \/ (Isolation = "process" /\ workers[s].lifetime_test_count # 0)
          \/ InReap
    /\ \A i, j \in DOMAIN dispatch_pipe[s] :
          /\ dispatch_pipe[s][i] = Sentinel => workers[s].recvd_sentinel
          /\ i < j /\ dispatch_pipe[s][i] = Sentinel => dispatch_pipe[s][j] = Sentinel
    /\ workers[s].tests # {} /\ Parcel(s) = {} => proc[s] = "zombie"
    /\ proc[s] = "zombie" /\ workers[s].tests # {} /\ Answers(s) = {} => s \in expired

InProcess == NoFork => Stage \in {"gather", "loop", "done", "failed"} /\ Connected = {}

LEMMA DeathOfSlots ==
    DeathInv <=> /\ ~sigint_flag /\ (pc = "gather" => ~goto_next_phase)
                 /\ InProcess /\ \A s \in Slot : DeathOf(s)
BY DEF DeathInv, DeathOf, InReap, InProcess

LEMMA DeathFrame ==
    ASSUME NEW s \in Slot, DeathOf(s), runner_opts' = runner_opts, InReap => InReap',
           workers'[s] = workers[s], proc'[s] = proc[s], running'[s] = running[s],
           dispatch_pipe'[s] = dispatch_pipe[s], result_pipe'[s] = result_pipe[s],
           s \in expired' <=> s \in expired, s \in killed => s \in killed',
           s \in killed' => s \in killed \/ s \in expired
    PROVE  DeathOf(s)'
<1>1. Answers(s)' = Answers(s) /\ Parcel(s)' = Parcel(s)
  BY DEF Parcel, Answers, Unread, Run
<1> QED
  BY <1>1 DEF DeathOf, HasTimeout, Isolation

(* An open worker is alive, and nothing has been sent to it.                *)
LEMMA OpenIsAlive ==
    ASSUME Undisturbed, Inv, Rest, ParcelInv, DeathInv, pc = "send"
    PROVE  /\ Alive(target) /\ dispatch_pipe[target] = <<>>
           /\ target \notin killed \cup expired /\ ~workers[target].recvd_sentinel
<1>1. /\ target \in Slot /\ IsOpen(target) /\ workers[target].pid /\ workers[target].tests = {}
      /\ proc[target] # "none"
  BY OpenOwnsNothing DEF Inv, SlotInv
<1>2. DeathOf(target) /\ ParcelOf(target)
  BY <1>1, DeathOfSlots, ParcelsOfSlots
<1>3. ~workers[target].recvd_sentinel
  BY <1>1, <1>2 DEF DeathOf, InReap, Stage, IsOpen
<1>4. HasTimeout => Isolation = "process"
  BY DEF Undisturbed, HasTimeout, Isolation, Inv, SlotInv
<1>5. target \notin killed \cup expired
  BY <1>1, <1>2, <1>4 DEF DeathOf, IsOpen
<1>6. proc[target] # "zombie"
  BY <1>2, <1>3, <1>5 DEF DeathOf
<1>7. dispatch_pipe[target] = <<>>
  <2>1. dispatch_pipe[target] \in Seq(Case \cup {Sentinel})
    BY <1>1, PipesTyped
  <2>2. \A i \in DOMAIN dispatch_pipe[target] : dispatch_pipe[target][i] = Sentinel
    BY <1>1, <1>2, NothingOwned
  <2>3. DOMAIN dispatch_pipe[target] = {}
    BY <1>2, <1>3, <2>2 DEF DeathOf
  <2> QED
    BY <2>1, <2>3, NoPlaces
<1> QED
  BY <1>1, <1>3, <1>5, <1>6, <1>7 DEF Alive

LEMMA DeathTyped ==
    ASSUME Undisturbed, Inv, Rest, ParcelInv, DeathInv, [Next]_vars
    PROVE  /\ runner_opts' = runner_opts /\ (InReap => InReap')
           /\ HasTimeout => Isolation = "process" /\ NumQueues <= 1
           /\ \A s \in Slot : DeathOf(s) /\ ParcelOf(s) /\ ParcelOf(s)'
                              /\ (workers[s].pid <=> proc[s] # "none")
<1>1. runner_opts' = runner_opts /\ (InReap => InReap')
  BY StagesFollow, DeathOfSlots DEF Undisturbed
<1>2. HasTimeout => Isolation = "process" /\ NumQueues <= 1
  BY DEF Undisturbed, HasTimeout, Isolation, Inv, SlotInv
<1>3. \A s \in Slot : DeathOf(s)
  BY DeathOfSlots
<1>4. \A s \in Slot : ParcelOf(s)
  BY ParcelsOfSlots
<1>5. \A s \in Slot : ParcelOf(s)'
  BY ParcelNext DEF ParcelInv, ParcelOf
<1>6. \A s \in Slot : workers[s].pid <=> proc[s] # "none"
  BY DEF Inv, SlotInv
<1> QED
  BY <1>1, <1>2, <1>3, <1>4, <1>5, <1>6

(* What the steps of the dispatcher that collect nothing leave true.        *)
LEMMA DispatcherKeepsDeath ==
    ASSUME Undisturbed, Inv, Rest, ParcelInv, DeathInv, [Next]_vars, NEW s \in Slot,
           \/ GatherVulkanInfo \/ ReportSkip \/ RunInProcess \/ DispatchTest
           \/ EndDispatchPhase \/ AwaitRoom \/ FindOpenWorker \/ ForkFails \/ AwaitWorker
           \/ YieldUninterrupted \/ YieldKillsWorkers \/ WakeFromNap \/ HaltTestRun
           \/ NothingToCollect \/ AwaitWorkers \/ UNCHANGED vars
    PROVE  DeathOf(s)'
<1> USE DEF control, books, flags, processes, user
<1>0. /\ runner_opts' = runner_opts /\ (InReap => InReap') /\ DeathOf(s) /\ ~sigint_flag
  BY DeathTyped, DeathOfSlots
<1>1. CASE \/ GatherVulkanInfo \/ ReportSkip \/ RunInProcess \/ DispatchTest
           \/ EndDispatchPhase \/ AwaitRoom \/ FindOpenWorker \/ ForkFails \/ AwaitWorker
           \/ HaltTestRun \/ NothingToCollect \/ AwaitWorkers \/ UNCHANGED vars
  <2>1. UNCHANGED <<workers, proc, running, dispatch_pipe, result_pipe, expired, killed>>
    BY <1>1 DEF GatherVulkanInfo, ReportSkip, RunInProcess, DispatchTest,
       EndDispatchPhase, AwaitRoom, FindOpenWorker, ForkFails, AwaitWorker, HaltTestRun,
       NothingToCollect, AwaitWorkers, vars
  <2> QED
    BY <1>0, <2>1, DeathFrame
<1>2. CASE YieldUninterrupted \/ WakeFromNap
  <2>1. PICK to : killed' = killed \cup KilledByTimeout(to)
    BY <1>2 DEF YieldUninterrupted, WakeFromNap
  <2>2. KilledByTimeout(to) \subseteq expired
    BY DEF KilledByTimeout
  <2>3. UNCHANGED <<workers, proc, running, dispatch_pipe, result_pipe, expired>>
    BY <1>2 DEF YieldUninterrupted, WakeFromNap
  <2> QED
    BY <1>0, <2>1, <2>2, <2>3, DeathFrame
<1>3. CASE YieldKillsWorkers
  BY <1>0, <1>3 DEF YieldKillsWorkers
<1> QED
  BY <1>1, <1>2, <1>3

LEMMA ForkKeepsDeath ==
    ASSUME Undisturbed, Inv, Rest, ParcelInv, DeathInv,
           ForkWorker \/ WorkerSetUpFails, NEW s \in Slot
    PROVE  DeathOf(s)'
<1> DEFINE t == UnbornSlot
<1>0. /\ runner_opts' = runner_opts /\ (InReap => InReap') /\ DeathOf(s) /\ ParcelOf(s)'
      /\ (workers[s].pid <=> proc[s] # "none")
  BY DeathTyped DEF Next, DispatcherStep
<1>1. /\ workers' = [workers EXCEPT ![t] = [NoWorker EXCEPT !.pid = TRUE]]
      /\ proc' = [proc EXCEPT ![t] = "starting"]
      /\ UNCHANGED <<running, dispatch_pipe, result_pipe, expired, killed>>
  BY DEF ForkWorker, WorkerSetUpFails, Fork
<1>2. t \in Slot \ Connected
  BY ForkFindsSlot
<1> HIDE DEF t
<1>3. CASE s = t
  <2>1. /\ ~workers[s].pid /\ proc[s] = "none" /\ dispatch_pipe[s] = <<>>
        /\ s \notin killed \cup expired
    BY <1>0, <1>2, <1>3 DEF Connected, DeathOf
  <2>2. /\ workers'[s] = [NoWorker EXCEPT !.pid = TRUE] /\ proc'[s] = "starting"
        /\ dispatch_pipe'[s] = <<>> /\ s \notin killed' \cup expired'
    BY <1>1, <1>2, <1>3, <2>1 DEF Inv, SlotInv
  <2>3. workers'[s].tests = {} /\ ~workers'[s].recvd_sentinel
    BY <2>2 DEF NoWorker
  <2> QED
    BY <2>2, <2>3 DEF DeathOf
<1>4. CASE s # t
  <2>1. workers'[s] = workers[s] /\ proc'[s] = proc[s]
    BY <1>1, <1>4 DEF Inv, SlotInv
  <2> QED
    BY <1>0, <1>1, <2>1, DeathFrame
<1> QED
  BY <1>3, <1>4

LEMMA StartKeepsDeath ==
    ASSUME Undisturbed, Inv, Rest, ParcelInv, DeathInv, StartTest, NEW s \in Slot
    PROVE  DeathOf(s)'
<1>0. /\ runner_opts' = runner_opts /\ (InReap => InReap') /\ DeathOf(s)
      /\ ~InReap
  BY DeathTyped DEF Next, DispatcherStep, StartTest, InReap, Stage
<1>1. CASE s = target
  <2>1. /\ Alive(s) /\ dispatch_pipe[s] = <<>> /\ s \notin killed \cup expired
        /\ ~workers[s].recvd_sentinel /\ case \in Case
    BY <1>1, OpenIsAlive, OpenOwnsNothing DEF StartTest
  <2>2. /\ workers[s] \in Worker /\ Parcel(s)' = {case}
    BY <1>1, <2>1, StartSends, PipesTyped
  <2>3. /\ workers' = [workers EXCEPT
               ![s].tests = @ \cup {case[1]},
               ![s].lifetime_test_count = @ + 1,
               ![s].recvd_sentinel = @ \/ Isolation = "process"]
        /\ dispatch_pipe' = [dispatch_pipe EXCEPT ![s] =
               @ \o (IF Isolation = "process" THEN <<case, Sentinel>> ELSE <<case>>)]
        /\ UNCHANGED <<proc, killed, expired>>
    BY <1>1, <2>1 DEF StartTest
  <2>4. /\ workers'[s].lifetime_test_count # 0
        /\ workers'[s].recvd_sentinel <=> Isolation = "process"
    BY <2>1, <2>2, <2>3 DEF Worker, Inv, SlotInv
  <2>5. /\ Isolation = "process" => dispatch_pipe'[s] = <<case, Sentinel>>
        /\ Isolation # "process" => dispatch_pipe'[s] = <<case>>
    BY <2>1, <2>3 DEF Inv, SlotInv
  <2>6. \A i, j \in DOMAIN dispatch_pipe'[s] :
            /\ dispatch_pipe'[s][i] = Sentinel => workers'[s].recvd_sentinel
            /\ i < j /\ dispatch_pipe'[s][i] = Sentinel => dispatch_pipe'[s][j] = Sentinel
    <3>1. CASE Isolation = "process"
      BY <2>1, <2>4, <2>5, <3>1, CasesAreNoSentinels
    <3>2. CASE Isolation # "process"
      BY <2>1, <2>4, <2>5, <3>2, CasesAreNoSentinels
    <3> QED
      BY <3>1, <3>2
  <2>7. Isolation' = Isolation /\ proc'[s] \notin {"none", "zombie"} /\ s \notin killed' \cup expired'
    BY <1>0, <2>1, <2>3 DEF Isolation, Alive
  <2> QED
    BY <2>2, <2>4, <2>6, <2>7 DEF DeathOf
<1>2. CASE s # target
  <2>1. /\ workers'[s] = workers[s] /\ dispatch_pipe'[s] = dispatch_pipe[s]
        /\ UNCHANGED <<proc, running, result_pipe, killed, expired>>
    BY <1>2 DEF StartTest, Inv, SlotInv
  <2> QED
    BY <1>0, <2>1, DeathFrame
<1> QED
  BY <1>1, <1>2

LEMMA DrainKeepsDeath ==
    ASSUME Undisturbed, Inv, Rest, ParcelInv, DeathInv, NEW t \in Slot, DrainResultPipe(t),
           NEW s \in Slot
    PROVE  DeathOf(s)'
<1>0. /\ runner_opts' = runner_opts /\ (InReap => InReap') /\ DeathOf(s)
  BY DeathTyped DEF Next, DispatcherStep
<1>1. /\ workers' = [workers EXCEPT ![t].tests = @ \ Answered(t)]
      /\ result_pipe' = [result_pipe EXCEPT ![t] = <<>>]
      /\ expired' = IF workers'[t].tests = {} THEN expired \ {t} ELSE expired
      /\ UNCHANGED <<proc, running, dispatch_pipe, killed>>
      /\ workers[s] \in Worker
  BY PipesTyped DEF DrainResultPipe
<1>2. CASE s = t /\ result_pipe[s] # <<>>
  <2>1. workers'[s].tests = {}
    BY <1>2, DrainTakes
  <2>2. /\ workers'[s].pid = workers[s].pid
        /\ workers'[s].lifetime_test_count = workers[s].lifetime_test_count
        /\ workers'[s].recvd_sentinel = workers[s].recvd_sentinel
    BY <1>1 DEF Worker, Inv, SlotInv
  <2>3. s \in killed' \cup expired' => s \in killed \cup expired
    BY <1>1
  <2> QED
    BY <1>0, <1>1, <2>1, <2>2, <2>3 DEF DeathOf, Isolation, HasTimeout
<1>3. CASE s = t /\ result_pipe[s] = <<>>
  <2>1. Answered(s) = {} /\ result_pipe'[s] = result_pipe[s]
    BY <1>1, <1>3 DEF Answered, Rest
  <2>2. workers'[s] = workers[s]
    BY <1>1, <1>3, <2>1 DEF Worker, Inv, SlotInv
  <2>3. CASE workers[s].tests = {}
    <3>1. /\ Answers(s)' = Answers(s) /\ Parcel(s)' = Parcel(s)
      BY <1>1, <2>1 DEF Parcel, Answers, Unread, Run
    <3> QED
      BY <1>0, <1>1, <2>2, <2>3, <3>1 DEF DeathOf, Isolation, HasTimeout
  <2>4. CASE workers[s].tests # {}
    BY <1>0, <1>1, <1>3, <2>1, <2>2, <2>4, DeathFrame
  <2> QED
    BY <2>3, <2>4
<1>4. CASE s # t
  <2>1. /\ workers'[s] = workers[s] /\ result_pipe'[s] = result_pipe[s]
        /\ s \in expired' <=> s \in expired
    BY <1>1, <1>4 DEF Inv, SlotInv, Rest
  <2> QED
    BY <1>0, <1>1, <2>1, DeathFrame
<1> QED
  BY <1>2, <1>3, <1>4

LEMMA ReapKeepsDeath ==
    ASSUME Undisturbed, Inv, Rest, ParcelInv, DeathInv, ReapWorkers, NEW s \in Slot
    PROVE  DeathOf(s)'
<1>0. /\ runner_opts' = runner_opts /\ (InReap => InReap') /\ DeathOf(s)
  BY DeathTyped DEF Next, DispatcherStep
<1>1. CASE proc[s] = "zombie"
  <2>1. /\ workers'[s] = NoWorker /\ proc'[s] = "none" /\ dispatch_pipe'[s] = <<>>
        /\ s \notin killed' /\ s \notin expired'
    BY <1>1 DEF ReapWorkers
  <2>2. workers'[s].tests = {} /\ ~workers'[s].recvd_sentinel
    BY <2>1 DEF NoWorker
  <2>3. DOMAIN dispatch_pipe'[s] = {}
    BY <2>1
  <2> QED
    BY <2>1, <2>2, <2>3 DEF DeathOf
<1>2. CASE proc[s] # "zombie"
  <2>1. /\ workers'[s] = workers[s] /\ proc'[s] = proc[s]
        /\ dispatch_pipe'[s] = dispatch_pipe[s] /\ result_pipe'[s] = result_pipe[s]
        /\ running' = running
        /\ s \in killed' <=> s \in killed
        /\ s \in expired' <=> s \in expired
    BY <1>2 DEF ReapWorkers
  <2> QED
    BY <1>0, <2>1, DeathFrame
<1> QED
  BY <1>1, <1>2

(* worker_send_sentinel(): last in the pipe, and only when cleaning up.     *)
LEMMA SentinelsKeepDeath ==
    ASSUME Undisturbed, Inv, Rest, ParcelInv, DeathInv, SendSentinels, NEW s \in Slot
    PROVE  DeathOf(s)'
<1>0. /\ runner_opts' = runner_opts /\ DeathOf(s) /\ (workers[s].pid <=> proc[s] # "none")
  BY DeathTyped DEF Next, DispatcherStep
<1>1. /\ dispatch_pipe[s] \in Seq(Case \cup {Sentinel}) /\ workers[s] \in Worker
      /\ UNCHANGED <<proc, running, result_pipe, killed, expired>>
  BY PipesTyped DEF SendSentinels, books
<1>2. InReap'
  BY DEF SendSentinels, InReap, Stage
<1>3. Parcel(s)' = Parcel(s) /\ workers'[s].tests = workers[s].tests
  BY SentinelsAreNoParcels
<1>4. Answers(s)' = Answers(s)
  BY <1>1 DEF Answers
<1>5. \/ /\ workers'[s] = workers[s] /\ dispatch_pipe'[s] = dispatch_pipe[s]
      \/ /\ workers'[s] = [workers[s] EXCEPT !.recvd_sentinel = TRUE] /\ workers[s].pid
         /\ dispatch_pipe'[s] \in {dispatch_pipe[s], Append(dispatch_pipe[s], Sentinel)}
  BY DEF SendSentinels, WithSentinel, Connected
<1>6. CASE workers'[s] = workers[s] /\ dispatch_pipe'[s] = dispatch_pipe[s]
  BY <1>0, <1>1, <1>2, <1>3, <1>4, <1>6 DEF DeathOf, HasTimeout
<1>7. CASE /\ workers'[s] = [workers[s] EXCEPT !.recvd_sentinel = TRUE] /\ workers[s].pid
           /\ dispatch_pipe'[s] \in {dispatch_pipe[s], Append(dispatch_pipe[s], Sentinel)}
  <2>1. /\ workers'[s].recvd_sentinel /\ workers'[s].pid = workers[s].pid
        /\ workers'[s].lifetime_test_count = workers[s].lifetime_test_count
    BY <1>1, <1>7 DEF Worker
  <2>2. \A i, j \in DOMAIN dispatch_pipe'[s] :
            i < j /\ dispatch_pipe'[s][i] = Sentinel => dispatch_pipe'[s][j] = Sentinel
    <3>1. \A i, j \in DOMAIN dispatch_pipe[s] :
              i < j /\ dispatch_pipe[s][i] = Sentinel => dispatch_pipe[s][j] = Sentinel
      BY <1>0 DEF DeathOf
    <3>2. CASE dispatch_pipe'[s] = dispatch_pipe[s]
      BY <3>1, <3>2
    <3>3. CASE dispatch_pipe'[s] = Append(dispatch_pipe[s], Sentinel)
      <4> DEFINE q == dispatch_pipe[s]
      <4>1. q \in Seq(Case \cup {Sentinel})
        BY <1>1
      <4> HIDE DEF q
      <4>2. /\ DOMAIN Append(q, Sentinel) = 1 .. Len(q) + 1 /\ Len(q) \in Nat
            /\ DOMAIN q = 1 .. Len(q) /\ Append(q, Sentinel)[Len(q) + 1] = Sentinel
            /\ \A i \in DOMAIN q : Append(q, Sentinel)[i] = q[i]
        BY <4>1
      <4>3. \A i, j \in DOMAIN Append(q, Sentinel) :
                i < j => i \in DOMAIN q /\ (j \in DOMAIN q \/ j = Len(q) + 1)
        BY <4>2
      <4>4. \A i, j \in DOMAIN q : i < j /\ q[i] = Sentinel => q[j] = Sentinel
        BY <3>1 DEF q
      <4>5. dispatch_pipe'[s] = Append(q, Sentinel)
        BY <3>3 DEF q
      <4> QED
        BY <4>2, <4>3, <4>4, <4>5
    <3> QED
      BY <1>7, <3>2, <3>3
  <2> QED
    BY <1>0, <1>1, <1>2, <1>3, <1>4, <1>7, <2>1, <2>2 DEF DeathOf, HasTimeout
<1> QED
  BY <1>5, <1>6, <1>7

(* What a process does to itself: it leaves only behind its last answer, or *)
(* when it is killed.                                                       *)
LEMMA WorkerKeepsDeath ==
    ASSUME Undisturbed, Inv, Rest, ParcelInv, DeathInv, NEW t \in Slot,
           WorkerStep(t) \/ WorkerSendResult(t) \/ WorkerCrashes(t) \/ TestExpires(t),
           NEW s \in Slot
    PROVE  DeathOf(s)'
<1> USE DEF control, books, flags, processes, user
<1>0. /\ runner_opts' = runner_opts /\ (InReap => InReap') /\ DeathOf(s)
      /\ (workers[s].pid <=> proc[s] # "none") /\ dispatch_pipe[s] \in Seq(Case \cup {Sentinel})
  BY DeathTyped, PipesTyped DEF Next
<1>1. workers' = workers
  BY DEF WorkerStep, WorkerSetsUp, WorkerRecvTest, WorkerRecvSentinel, WorkerKilled,
     WorkerSendResult, WorkerCrashes, TestExpires, Die
<1>2. CASE s # t
  <2>1. /\ proc'[s] = proc[s] /\ running'[s] = running[s]
        /\ dispatch_pipe'[s] = dispatch_pipe[s] /\ result_pipe'[s] = result_pipe[s]
        /\ s \in expired' <=> s \in expired
        /\ s \in killed' <=> s \in killed
    BY <1>2 DEF WorkerStep, WorkerSetsUp, WorkerRecvTest, WorkerRecvSentinel, WorkerKilled,
       WorkerSendResult, WorkerCrashes, TestExpires, Die, Inv, SlotInv, Rest
  <2> QED
    BY <1>0, <1>1, <2>1, DeathFrame
<1>3. CASE s = t /\ WorkerSetsUp(t)
  <2>1. /\ proc[s] = "starting" /\ proc'[s] = "fresh" /\ s \notin killed'
        /\ UNCHANGED <<expired, running, dispatch_pipe, result_pipe>>
    BY <1>3 DEF WorkerSetsUp, Inv, SlotInv
  <2>2. Parcel(s)' = Parcel(s)
    BY <2>1 DEF Parcel, Unread, Run, Answers
  <2> QED
    BY <1>0, <1>1, <2>1, <2>2 DEF DeathOf, HasTimeout, Isolation
<1>4. CASE s = t /\ WorkerRecvTest(t)
  <2>1. /\ proc[s] \notin {"none", "zombie"} /\ proc'[s] = "running"
        /\ dispatch_pipe'[s] = Tail(dispatch_pipe[s]) /\ dispatch_pipe[s] # <<>>
        /\ UNCHANGED <<expired, killed, result_pipe>>
    BY <1>4 DEF WorkerRecvTest, Inv, SlotInv
  <2>2. Parcel(s)' = Parcel(s)
    BY <1>4, RecvRuns
  <2>3. \A i, j \in DOMAIN dispatch_pipe'[s] :
            /\ dispatch_pipe'[s][i] = Sentinel => workers[s].recvd_sentinel
            /\ i < j /\ dispatch_pipe'[s][i] = Sentinel => dispatch_pipe'[s][j] = Sentinel
    <3>1. \A i \in DOMAIN dispatch_pipe'[s] :
              /\ i \in Nat /\ i + 1 \in DOMAIN dispatch_pipe[s]
              /\ dispatch_pipe'[s][i] = dispatch_pipe[s][i + 1]
      BY <1>0, <2>1
    <3>2. \A i, j \in DOMAIN dispatch_pipe[s] :
            /\ dispatch_pipe[s][i] = Sentinel => workers[s].recvd_sentinel
            /\ i < j /\ dispatch_pipe[s][i] = Sentinel => dispatch_pipe[s][j] = Sentinel
      BY <1>0 DEF DeathOf
    <3>3. \A i, j \in Nat : i < j => i + 1 < j + 1
      OBVIOUS
    <3> QED
      BY <3>1, <3>2, <3>3
  <2> QED
    BY <1>0, <1>1, <2>1, <2>2, <2>3 DEF DeathOf, HasTimeout, Isolation
<1>5. CASE s = t /\ (WorkerRecvSentinel(t) \/ WorkerKilled(t))
  <2>1. /\ proc'[s] = "zombie" /\ proc[s] # "none"
        /\ UNCHANGED <<expired, killed, running, dispatch_pipe, result_pipe>>
    BY <1>5 DEF WorkerRecvSentinel, WorkerKilled, Die, Alive, Inv, SlotInv
  <2>2. Answers(s)' = Answers(s)
    BY <2>1 DEF Answers
  <2>3. CASE WorkerKilled(t)
    BY <1>0, <1>1, <1>5, <2>1, <2>2, <2>3 DEF DeathOf, HasTimeout, Isolation, WorkerKilled
  <2>4. CASE WorkerRecvSentinel(t)
    <3>1. /\ proc[s] \in {"fresh", "served"} /\ 1 \in DOMAIN dispatch_pipe[s]
          /\ dispatch_pipe[s][1] = Sentinel
      BY <1>0, <1>5, <2>4 DEF WorkerRecvSentinel
    <3>2. workers[s].recvd_sentinel
      BY <1>0, <3>1 DEF DeathOf
    <3>3. \A i \in DOMAIN dispatch_pipe[s] : dispatch_pipe[s][i] = Sentinel
      <4>1. \A i \in DOMAIN dispatch_pipe[s] : i = 1 \/ 1 < i
        BY <1>0
      <4> QED
        BY <1>0, <3>1, <4>1 DEF DeathOf
    <3>4. Unread(s) = {} /\ Run(s) = {}
      BY <3>1, <3>3, CasesAreNoSentinels DEF Unread, Run
    <3>5. workers[s].tests # {} => Answers(s) # {}
      BY <1>0, <3>1, <3>4 DEF DeathOf, Parcel
    <3> QED
      BY <1>0, <1>1, <2>1, <2>2, <3>2, <3>5 DEF DeathOf, HasTimeout, Isolation
  <2> QED
    BY <1>5, <2>3, <2>4
<1>6. CASE s = t /\ WorkerSendResult(t)
  <2>1. /\ proc[s] = "running" /\ proc'[s] = "served"
        /\ UNCHANGED <<expired, killed, dispatch_pipe>>
    BY <1>6 DEF WorkerSendResult, Inv, SlotInv
  <2>2. Parcel(s)' = Parcel(s)
    BY <1>6, SendAnswers
  <2> QED
    BY <1>0, <1>1, <2>1, <2>2 DEF DeathOf, HasTimeout, Isolation
<1>7. CASE WorkerCrashes(t)
  BY <1>7 DEF WorkerCrashes, Undisturbed
<1>8. CASE s = t /\ TestExpires(t)
  <2>1. /\ HasTimeout /\ workers[s].tests # {} /\ expired' = expired \cup {s}
        /\ UNCHANGED <<proc, running, dispatch_pipe, result_pipe, killed>>
    BY <1>8 DEF TestExpires
  <2>2. workers[s].pid /\ workers[s].lifetime_test_count # 0
    BY <2>1, DeathTyped DEF Inv, SlotInv, Next
  <2>3. Answers(s)' = Answers(s) /\ Parcel(s)' = Parcel(s)
    BY <2>1 DEF Parcel, Answers, Unread, Run
  <2> QED
    BY <1>0, <1>1, <2>1, <2>2, <2>3 DEF DeathOf, HasTimeout, Isolation
<1> QED
  BY <1>2, <1>3, <1>4, <1>5, <1>6, <1>7, <1>8 DEF WorkerStep

(* A test run without workers never asks for one.                           *)
LEMMA StaysInProcess ==
    ASSUME Undisturbed, Inv, Rest, DeathInv, [Next]_vars
    PROVE  InProcess'
<1> USE DEF control, books, flags, processes, user
<1>0. /\ runner_opts' = runner_opts /\ InProcess /\ ~sigint_flag
      /\ ret \in {"loop", "full", "find", "reap"}
  BY StagesFollow, DeathOfSlots DEF Undisturbed, Inv, SlotInv
<1> SUFFICES ASSUME NoFork
             PROVE  Stage' \in {"gather", "loop", "done", "failed"} /\ Connected' = {}
  BY <1>0 DEF InProcess, NoFork
<1>1. /\ Stage \in {"gather", "loop", "done", "failed"} /\ Connected = {}
      /\ \A s \in Slot : ~workers[s].pid
  BY <1>0 DEF InProcess, Connected
<1>2. pc \notin {"begin", "full", "claim", "find", "send", "cleanup", "reap"}
  BY <1>1 DEF Stage
<1>3. CASE GatherVulkanInfo \/ ReportSkip \/ RunInProcess \/ EndDispatchPhase \/ NothingToCollect
  BY <1>1, <1>3 DEF GatherVulkanInfo, ReportSkip, RunInProcess, EndDispatchPhase,
     NothingToCollect, Stage, Connected
<1>4. CASE YieldUninterrupted \/ WakeFromNap
  BY <1>1, <1>2, <1>4 DEF YieldUninterrupted, WakeFromNap, YieldsTo, Stage, Connected
<1>5. CASE YieldKillsWorkers \/ HaltTestRun
  BY <1>0, <1>5 DEF YieldKillsWorkers, HaltTestRun
<1>6. CASE \/ AwaitRoom \/ FindOpenWorker \/ ForkWorker \/ ForkFails \/ WorkerSetUpFails
           \/ AwaitWorker \/ StartTest \/ SendSentinels \/ AwaitWorkers
  BY <1>2, <1>6 DEF AwaitRoom, FindOpenWorker, ForkWorker, ForkFails, WorkerSetUpFails,
     AwaitWorker, StartTest, SendSentinels, AwaitWorkers
<1>7. CASE DispatchTest
  BY <1>7 DEF DispatchTest
<1>8. CASE \E s \in Slot : DrainResultPipe(s)
  BY <1>1, <1>8 DEF DrainResultPipe
<1>9. CASE ReapWorkers
  <2>1. \A s \in Slot : ~workers'[s].pid
    BY <1>1, <1>9 DEF ReapWorkers, NoWorker
  <2> QED
    BY <1>1, <1>9, <2>1 DEF ReapWorkers, Stage, Connected
<1>10. CASE \E s \in Slot :
               WorkerStep(s) \/ WorkerSendResult(s) \/ WorkerCrashes(s) \/ TestExpires(s)
  <2>1. UNCHANGED <<pc, ret, workers>>
    BY <1>10 DEF WorkerStep, WorkerSetsUp, WorkerRecvTest, WorkerRecvSentinel, WorkerKilled,
       WorkerSendResult, WorkerCrashes, TestExpires, Die
  <2> QED
    BY <1>1, <2>1 DEF Stage, Connected
<1>11. CASE Interrupt
  <2>1. interrupts \in 0 .. 0 /\ interrupts < 0
    BY <1>11 DEF Interrupt, Rest, Undisturbed
  <2> QED
    BY <2>1
<1>12. CASE UNCHANGED vars
  BY <1>1, <1>12 DEF vars, Stage, Connected
<1> HIDE DEF control, books, flags, processes, user
<1> QED
  BY <1>3, <1>4, <1>5, <1>6, <1>7, <1>8, <1>9, <1>10, <1>11, <1>12, StepsAreQuiet, Zenon
     DEF Quiet

LEMMA DeathNext ==
    ASSUME Undisturbed, Inv, Rest, ParcelInv, DeathInv, [Next]_vars
    PROVE  DeathInv'
<1>1. ~sigint_flag' /\ (pc' = "gather" => ~goto_next_phase')
  BY StagesFollow, DeathOfSlots DEF Undisturbed
<1>2. InProcess'
  BY StaysInProcess
<1>3. ASSUME NEW s \in Slot PROVE DeathOf(s)'
  <2>1. CASE \E t \in Slot : DrainResultPipe(t)
    BY <2>1, DrainKeepsDeath
  <2>2. CASE \E t \in Slot :
                WorkerStep(t) \/ WorkerSendResult(t) \/ WorkerCrashes(t) \/ TestExpires(t)
    BY <2>2, WorkerKeepsDeath
  <2>3. CASE Interrupt
    <3>1. interrupts \in 0 .. 0 /\ interrupts < 0
      BY <2>3 DEF Interrupt, Rest, Undisturbed
    <3> QED
      BY <3>1
  <2>4. CASE ForkWorker \/ WorkerSetUpFails \/ StartTest \/ ReapWorkers \/ SendSentinels
    BY <2>4, ForkKeepsDeath, StartKeepsDeath, ReapKeepsDeath, SentinelsKeepDeath
  <2>5. CASE \/ GatherVulkanInfo \/ ReportSkip \/ RunInProcess \/ DispatchTest
             \/ EndDispatchPhase \/ AwaitRoom \/ FindOpenWorker \/ ForkFails \/ AwaitWorker
             \/ YieldUninterrupted \/ YieldKillsWorkers \/ WakeFromNap \/ HaltTestRun
             \/ NothingToCollect \/ AwaitWorkers \/ UNCHANGED vars
    BY <2>5, DispatcherKeepsDeath
  <2> QED
    BY <2>1, <2>2, <2>3, <2>4, <2>5, StepsAreQuiet, Zenon DEF Quiet
<1> QED
  BY <1>1, <1>2, <1>3 DEF DeathInv, DeathOf, InReap, InProcess

LEMMA DeathInitially == Init => DeathInv
BY DEF Init, DeathInv, Parcel, Unread, Run, Answers, Stage, Connected, NoWorker

-----------------------------------------------------------------------------
(* Only a test past its timeout is lost.                                    *)

(* A dead worker that has not answered was killed for its test's timeout.   *)
LEMMA MuteIsExpired ==
    ASSUME Undisturbed, Inv, Rest, ParcelInv, DeathInv, NEW s \in Mute, workers[s].tests # {}
    PROVE  s \in Slot /\ s \in expired /\ HasTimeout /\ NumQueues <= 1 /\ Run(s) = {}
<1>1. s \in Slot /\ proc[s] = "zombie" /\ result_pipe[s] = <<>>
  BY DEF Mute, Dead
<1>2. Answers(s) = {} /\ Run(s) = {}
  BY <1>1 DEF Answers, Run
<1>3. DeathOf(s)
  BY <1>1, DeathOfSlots
<1>4. s \in expired /\ HasTimeout
  BY <1>1, <1>2, <1>3 DEF DeathOf
<1>5. NumQueues <= 1
  BY <1>4 DEF Undisturbed, HasTimeout, Inv, SlotInv
<1> QED
  BY <1>1, <1>2, <1>4, <1>5

LEMMA LossNext ==
    ASSUME Undisturbed, Inv, Rest, ParcelInv, DeathInv, Rest', [Next]_vars, NEW d \in Def,
           NEW n \in NamesOf(d), reports'[n][LOST] > reports[n][LOST]
    PROVE  \E s \in expired : d \in workers[s].tests
<1>1. n \in Name /\ n[1] = d /\ LOST \in Result
  BY ResultsAreTyped DEF NamesOf
<1>2. reports[n][LOST] \in Nat
  BY <1>1 DEF Rest
<1>3. ASSUME NEW X \in SUBSET Slot PROVE PacketsOf(X, n, LOST) = 0
  <2>1. \A t \in X : result_pipe[t] # <<>> => result_pipe[t][1][2] # LOST
    BY AnswerOwned
  <2>2. Saying(X, n, LOST) = {}
    BY <2>1 DEF Saying
  <2> QED
    BY <2>2, PacketsAreSlots, FS_EmptySet
<1>4. CASE ReportSkip \/ RunInProcess
  <2>1. PICK c \in Name, r \in {PASS, SKIP, FAIL} : Report(c, r)
    <3>1. NextCase(todo) \in Name
      BY <1>4, NextCaseIsLeft, CasesAreNoSentinels DEF ReportSkip, RunInProcess, Inv, SlotInv
    <3> QED
      BY <1>4, <3>1 DEF ReportSkip, RunInProcess
  <2>2. r \in Result /\ r # LOST
    BY ResultsAreTyped DEF PASS, SKIP, FAIL, LOST
  <2>3. reports'[n][LOST] = reports[n][LOST]
    BY <1>1, <2>1, <2>2 DEF Report, Rest
  <2> QED
    BY <1>2, <2>3
<1>5. CASE \E t \in Slot : DrainResultPipe(t)
  <2>1. PICK t \in Slot : DrainResultPipe(t)
    BY <1>5
  <2>2. reports'[n][LOST] = reports[n][LOST] + PacketsOf({t}, n, LOST)
    BY <1>1, <2>1 DEF DrainResultPipe
  <2>3. PacketsOf({t}, n, LOST) = 0
    BY <1>3
  <2> QED
    BY <1>2, <2>2, <2>3
<1>6. CASE ReapWorkers
  <2> DEFINE lost == {s \in Dead : n[1] \in LostBy(s)}
  <2>1. reports'[n][LOST] = reports[n][LOST] + PacketsOf(Dead, n, LOST)
            + IF n[2] = 0 THEN Cardinality(lost) ELSE 0
    BY <1>1, <1>6 DEF ReapWorkers, Dead
  <2>2. PacketsOf(Dead, n, LOST) = 0
    BY <1>3 DEF Dead
  <2>3. lost # {}
    <3>1. Cardinality({}) = 0
      BY FS_EmptySet
    <3> HIDE DEF lost
    <3> QED
      BY <1>2, <2>1, <2>2, <3>1
  <2>4. PICK s \in Dead : n[1] \in LostBy(s)
    BY <2>3
  <2>5. s \in Slot /\ d \in workers[s].tests /\ d \notin Answered(s)
    BY <1>1, <2>4 DEF LostBy, Dead
  <2>6. result_pipe[s] = <<>>
    BY <2>5, AnswerOwned
  <2>7. s \in expired
    BY <2>4, <2>5, <2>6, MuteIsExpired DEF Mute
  <2> QED
    BY <2>5, <2>7
<1>7. CASE /\ ~ReportSkip /\ ~RunInProcess /\ ~ReapWorkers
           /\ \A s \in Slot : ~DrainResultPipe(s)
  BY <1>2, <1>7, OthersReportNothing
<1> QED
  BY <1>4, <1>5, <1>6, <1>7

(* "Timeout for individual test cases" (crucible-run): where no worker      *)
(* crashes and nobody interrupts, only tests past their own timeout are     *)
(* lost, for any number of tests and jobs.                                  *)
THEOREM TimeoutsAreIndividual ==
    ASSUME Undisturbed
    PROVE  Spec => TimeoutIsIndividual
<1>1. Init => Inv /\ Rest /\ ParcelInv /\ DeathInv
  BY InitEstablishes, RestInitially, ParcelInitially, DeathInitially
<1>2. Inv /\ Rest /\ ParcelInv /\ DeathInv /\ [Next]_vars
          => Inv' /\ Rest' /\ ParcelInv' /\ DeathInv'
  BY NextKeeps, RestTyped, ParcelNext, DeathNext
<1>3. Inv /\ Rest /\ ParcelInv /\ DeathInv /\ [Next]_vars
          => [\A d \in Def :
                 (\E n \in NamesOf(d) : reports'[n][LOST] > reports[n][LOST]) =>
                     \E s \in expired : d \in workers[s].tests]_vars
  BY <1>2, LossNext
<1> QED
  BY <1>1, <1>2, <1>3, PTL DEF Spec, TimeoutIsIndividual

-----------------------------------------------------------------------------
(* What is reported, and of what: cases that were to run.                   *)

(* TodoInv, of one slot.                                                    *)
TodoOf(s) ==
    /\ Parcel(s) \cap todo = {}
    /\ \A c \in Parcel(s) : ~MustSkip(c)
    /\ \A d \in workers[s].tests : \E c \in Case \ todo : c[1] = d /\ ~MustSkip(c)

LEMMA TodoOfSlots ==
    TodoInv <=> /\ Committed => case \notin todo /\ ~MustSkip(case)
                /\ \A s \in Slot : TodoOf(s)
                /\ OnlyNamesThatRan
BY DEF TodoInv, TodoOf

LEMMA TodoKept ==
    ASSUME Undisturbed, Inv, Rest, ParcelInv, DeathInv, TodoInv, [Next]_vars, NEW s \in Slot
    PROVE  TodoOf(s)'
<1>1. todo' \subseteq todo /\ TodoOf(s)
  BY StagesFollow, DeathOfSlots, TodoOfSlots DEF Undisturbed
<1>2. CASE ~(StartTest /\ s = target /\ Alive(s))
  BY <1>1, <1>2, PartsShrink DEF TodoOf, MustSkip
<1>3. CASE StartTest /\ s = target /\ Alive(s)
  <2>1. /\ Parcel(s)' = {case} /\ workers'[s].tests = {case[1]} /\ case \in Case
    BY <1>3, StartSends
  <2>2. case \notin todo /\ ~MustSkip(case)
    BY <1>3, TodoOfSlots DEF StartTest, Committed, Stage
  <2> QED
    BY <1>1, <2>1, <2>2 DEF TodoOf, MustSkip
<1> QED
  BY <1>2, <1>3

(* The name under which something is reported of a slot is that of the case *)
(* that the slot owes, although the slot of a test that is lost remembers   *)
(* no queue.                                                                *)
LEMMA VerdictIsOwed ==
    ASSUME Undisturbed, Inv, Rest, ParcelInv, DeathInv, TodoInv, NEW s \in Slot,
           result_pipe[s] # <<>> \/ (s \in Mute /\ workers[s].tests # {})
    PROVE  /\ Verdict(s)[1] \in Case \ todo
           /\ \A c \in Case : s \in Owing(c) <=> c = Verdict(s)[1]
<1>1. TodoOf(s) /\ ParcelOf(s)
  BY TodoOfSlots, ParcelsOfSlots
<1>2. CASE result_pipe[s] # <<>>
  <2>1. Verdict(s) = result_pipe[s][1]
    BY <1>2 DEF Verdict
  <2>2. Parcel(s) = {Verdict(s)[1]} /\ Verdict(s)[1] \in Case
    BY <1>2, <2>1, AnswerOwned
  <2> QED
    BY <1>1, <2>2 DEF TodoOf, Owing
<1>3. CASE result_pipe[s] = <<>>
  <2>1. NumQueues <= 1 /\ NumQueues \in Nat
    BY <1>3, MuteIsExpired, RunnerDefsAssumption
  <2>2. /\ workers[s].tests = {Owned(s)} /\ Verdict(s)[1] = <<Owned(s), 0>>
    <3>1. \A d, e \in workers[s].tests : d = e
      BY PipesTyped
    <3>2. Owned(s) \in workers[s].tests
      BY <1>3 DEF Owned
    <3> QED
      BY <1>3, <3>1, <3>2 DEF Verdict
  <2>3. \A c \in Case : c[1] = Owned(s) /\ ~MustSkip(c) => c = <<Owned(s), 0>>
    <3> SUFFICES ASSUME NEW c \in Case, c[1] = Owned(s), c[2] < NumQueues
                 PROVE  c = <<Owned(s), 0>>
      <4>1. \A c \in Case : ~MustSkip(c) => c[2] < NumQueues
        BY <2>1, CasesAreNoSentinels DEF MustSkip
      <4> QED
        BY <4>1
    <3>1. c = <<c[1], c[2]>> /\ c[2] \in Nat
      BY CasesAreNoSentinels
    <3>2. c[2] = 0
      BY <2>1, <3>1
    <3> QED
      BY <3>1, <3>2
  <2> DEFINE v == <<Owned(s), 0>>
  <2>4. v \in Case \ todo
    BY <1>1, <2>2, <2>3 DEF TodoOf
  <2>5. Parcel(s) \subseteq {v}
    <3>1. Parcel(s) \subseteq Case
      BY DEF Parcel, Unread, Run, Answers
    <3> QED
      BY <1>1, <2>2, <2>3, <3>1 DEF TodoOf, ParcelOf
  <2>6. \A c \in Case : c[1] = Owned(s) /\ c[2] = 0 <=> c = v
    BY CasesAreNoSentinels
  <2> HIDE DEF v
  <2>7. \A c \in Case : s \in Owing(c) <=> c = v
    BY <2>2, <2>5, <2>6 DEF Owing
  <2> QED
    BY <2>2, <2>4, <2>7 DEF v
<1> QED
  BY <1>2, <1>3

LEMMA NamesNext ==
    ASSUME Undisturbed, Inv, Rest, ParcelInv, DeathInv, TodoInv, Inv', Rest', [Next]_vars,
           NEW n \in Name, n \notin Case \ todo'
    PROVE  Cardinality(MadeOf(reports', {n}, Result)) = 0
<1> DEFINE names == {n}
<1>1. names \in SUBSET Name /\ Result \in SUBSET Result
  OBVIOUS
<1>2. todo' \subseteq todo
  BY StagesFollow, DeathOfSlots DEF Undisturbed
<1>3. Cardinality(MadeOf(reports, names, Result)) = 0
  <2>1. n \notin Case \ todo
    BY <1>2
  <2>2. ~(Reported(n) > 0)
    BY <2>1, TodoOfSlots DEF OnlyNamesThatRan
  <2>3. Reported(n) = Cardinality(MadeOf(reports, names, Result))
    BY DEF Reported, Made, MadeOf
  <2> HIDE DEF names
  <2>4. Cardinality(MadeOf(reports, names, Result)) \in Nat
    BY <1>1, MadeFinite DEF Rest
  <2> QED
    BY <2>2, <2>3, <2>4
<1> SUFFICES Cardinality(MadeOf(reports', names, Result))
                 = Cardinality(MadeOf(reports, names, Result))
  BY <1>3
<1>4. CASE ReportSkip \/ RunInProcess
  <2>1. NextCase(todo) \in todo /\ todo' = todo \ {NextCase(todo)} /\ todo \subseteq Case
    BY <1>4, <1>1, SingleReport DEF Inv, SlotInv
  <2>2. NextCase(todo) \notin names
    BY <2>1
  <2> HIDE DEF names
  <2>3. Cardinality(MadeOf(reports', names, Result))
            = Cardinality(MadeOf(reports, names, Result)) + 0
    BY <1>1, <1>4, <2>2, SingleReport
  <2> QED
    BY <1>3, <2>3
<1>5. ASSUME NEW X \in SUBSET Slot, NEW lost \in SUBSET Mute
      PROVE  Heard(X, lost, names) = {}
  <2>1. \A t \in X : result_pipe[t] # <<>> \/ (t \in lost /\ workers[t].tests # {})
                         => Verdict(t)[1] \in Case \ todo
    BY VerdictIsOwed
  <2> QED
    BY <1>2, <2>1 DEF Heard
<1> HIDE DEF names
<1>6. CASE ReapWorkers
  <2>1. Heard(Dead, Mute, names) = {}
    BY <1>5 DEF Dead
  <2>2. Cardinality(MadeOf(reports', names, Result))
            = Cardinality(MadeOf(reports, names, Result)) + Cardinality(Heard(Dead, Mute, names))
    BY <1>1, <1>6, ReapReports
  <2> QED
    BY <1>3, <2>1, <2>2, FS_EmptySet
<1>7. CASE \E s \in Slot : DrainResultPipe(s)
  <2>1. PICK s \in Slot : DrainResultPipe(s)
    BY <1>7
  <2>2. Heard({s}, {}, names) = {}
    BY <1>5
  <2>3. Cardinality(MadeOf(reports', names, Result))
            = Cardinality(MadeOf(reports, names, Result)) + Cardinality(Heard({s}, {}, names))
    BY <1>1, <2>1, DrainReports
  <2> QED
    BY <1>3, <2>2, <2>3, FS_EmptySet
<1>8. CASE /\ ~ReportSkip /\ ~RunInProcess /\ ~ReapWorkers
           /\ \A s \in Slot : ~DrainResultPipe(s)
  BY <1>8, OthersReportNothing
<1> QED
  BY <1>4, <1>6, <1>7, <1>8

LEMMA TodoNext ==
    ASSUME Undisturbed, Inv, Rest, ParcelInv, DeathInv, TodoInv, Inv', Rest', [Next]_vars
    PROVE  TodoInv'
<1>1. Committed' => case' \notin todo' /\ ~MustSkip(case')
  <2>1. todo' \subseteq todo /\ (Committed' => (Committed /\ case' = case) \/ DispatchTest)
    BY StagesFollow, DeathOfSlots DEF Undisturbed
  <2>2. DispatchTest => case' \notin todo' /\ ~MustSkip(case')
    BY DEF DispatchTest
  <2> QED
    BY <2>1, <2>2, TodoOfSlots
<1>2. \A s \in Slot : TodoOf(s)'
  BY TodoKept
<1>3. ASSUME NEW n \in Name, Reported(n)' > 0
      PROVE  n \in Case \ todo'
  <2>1. Reported(n)' = Cardinality(MadeOf(reports', {n}, Result))
    BY DEF Reported, Made, MadeOf
  <2> QED
    BY <1>3, <2>1, NamesNext
<1> QED
  BY <1>1, <1>2, <1>3 DEF TodoInv, TodoOf, OnlyNamesThatRan, MustSkip

LEMMA NothingMadeInitially ==
    ASSUME Init, NEW n \in Name
    PROVE  Cardinality(MadeOf(reports, {n}, Result)) = 0
<1>1. MadeOf(reports, {n}, Result) = {}
  BY DEF Init, MadeOf
<1> QED
  BY <1>1, FS_EmptySet

LEMMA TodoInitially == Init => TodoInv
<1> SUFFICES ASSUME Init PROVE TodoInv
  OBVIOUS
<1>1. ~Committed
  BY DEF Init, Committed, Stage
<1>2. \A s \in Slot : TodoOf(s)
  BY DEF Init, TodoOf, Parcel, Unread, Run, Answers, NoWorker
<1>3. OnlyNamesThatRan
  <2>1. \A n \in Name : Reported(n) = Cardinality(MadeOf(reports, {n}, Result))
    BY DEF Reported, Made, MadeOf
  <2>2. \A n \in Name : Reported(n) = 0
    BY <2>1, NothingMadeInitially
  <2> QED
    BY <2>2 DEF OnlyNamesThatRan
<1> QED
  BY <1>1, <1>2, <1>3, TodoOfSlots

(* All that holds where nothing disturbs the test run.                      *)
Calm == Inv /\ Rest /\ ParcelInv /\ DeathInv /\ TodoInv

LEMMA CalmAlways ==
    ASSUME Undisturbed
    PROVE  (Init => Calm) /\ (Calm /\ [Next]_vars => Calm')
<1>1. Init => Calm
  BY InitEstablishes, RestInitially, ParcelInitially, DeathInitially, TodoInitially DEF Calm
<1>2. ASSUME Calm, [Next]_vars PROVE Calm'
  <2>1. Inv' /\ Rest' /\ ParcelInv' /\ DeathInv'
    BY <1>2, NextKeeps, RestTyped, ParcelNext, DeathNext DEF Calm
  <2>2. TodoInv'
    BY <1>2, <2>1, TodoNext DEF Calm
  <2> QED
    BY <2>1, <2>2 DEF Calm
<1> QED
  BY <1>1, <1>2

-----------------------------------------------------------------------------
(* Each case is at one place: to be come to, about to be sent, owed by a    *)
(* slot, or reported.                                                       *)

Told(c) == Cardinality(MadeOf(reports, {c}, Result))
Left(c) == IF c \in todo THEN 1 ELSE 0
Picked(c) == IF Committed /\ case = c THEN 1 ELSE 0

LEMMA PlacesCounted ==
    CaseInv <=>
        (~goto_next_phase =>
            /\ \A c \in Case : Told(c) + Cardinality(Owing(c)) + Left(c) + Picked(c) = 1
            /\ InCleanup => todo = {}
            /\ pc = "done" => Connected = {})
BY DEF CaseInv, Told, Left, Picked, Reported, Made, MadeOf, InCleanup

LEMMA PlacesFinite ==
    ASSUME Inv, Rest, NEW c \in Case
    PROVE  /\ Told(c) \in Nat /\ Left(c) \in Nat /\ Picked(c) \in Nat
           /\ IsFiniteSet(Owing(c)) /\ Cardinality(Owing(c)) \in Nat
<1>1. {c} \in SUBSET Name /\ Result \in SUBSET Result
  BY CasesAreNoSentinels
<1>2. Told(c) \in Nat
  BY <1>1, MadeFinite DEF Told, Rest
<1>3. IsFiniteSet(Owing(c)) /\ Cardinality(Owing(c)) \in Nat
  BY DispatcherAssumption, FS_Subset, FS_CardinalityType DEF Owing
<1> QED
  BY <1>2, <1>3 DEF Left, Picked

(* Slots that are heard of no longer owe what is reported of them.          *)
LEMMA OwedIsHeard ==
    ASSUME Undisturbed, Calm, NEW c \in Case, NEW X \in SUBSET Slot,
           NEW lost \in SUBSET Mute,
           \A t \in Slot :
               IF t \in X /\ (result_pipe[t] # <<>> \/ t \in lost)
               THEN Parcel(t)' = {} /\ workers'[t].tests = {}
               ELSE Parcel(t)' = Parcel(t) /\ workers'[t].tests = workers[t].tests
    PROVE  Cardinality(Owing(c)) = Cardinality(Owing(c)') + Cardinality(Heard(X, lost, {c}))
<1> USE DEF Calm
<1> DEFINE H == Heard(X, lost, {c})
<1>1. ASSUME NEW t \in Slot
      PROVE  /\ t \in H => t \in Owing(c) /\ t \notin Owing(c)'
             /\ t \notin H => (t \in Owing(c)' <=> t \in Owing(c))
  <2>1. CASE t \in X /\ (result_pipe[t] # <<>> \/ (t \in lost /\ workers[t].tests # {}))
    <3>1. t \in H <=> Verdict(t)[1] = c
      BY <2>1 DEF Heard
    <3>2. t \in Owing(c) <=> Verdict(t)[1] = c
      BY <2>1, VerdictIsOwed
    <3>3. t \notin Owing(c)'
      BY <2>1 DEF Owing
    <3> QED
      BY <3>1, <3>2, <3>3
  <2>2. CASE t \in X /\ result_pipe[t] = <<>> /\ t \in lost /\ workers[t].tests = {}
    <3>1. t \notin H
      BY <2>2 DEF Heard
    <3>2. Parcel(t) = {}
      BY <2>2, ParcelsOfSlots, NothingOwned
    <3> QED
      BY <2>2, <3>1, <3>2 DEF Owing
  <2>3. CASE ~(t \in X /\ (result_pipe[t] # <<>> \/ t \in lost))
    <3>1. t \notin H
      BY <2>3 DEF Heard
    <3> QED
      BY <2>3, <3>1 DEF Owing
  <2> QED
    BY <2>1, <2>2, <2>3
<1>2. H \subseteq Slot
  BY DEF Heard
<1> HIDE DEF H
<1>3. Owing(c) \subseteq Slot /\ Owing(c)' \subseteq Slot
  BY DEF Owing
<1>4. Owing(c) = Owing(c)' \cup H /\ Owing(c)' \cap H = {}
  BY <1>1, <1>2, <1>3
<1>5. IsFiniteSet(Owing(c)') /\ IsFiniteSet(H)
  BY <1>2, <1>3, DispatcherAssumption, FS_Subset
<1>6. Cardinality(Owing(c))
          = Cardinality(Owing(c)') + Cardinality(H) - Cardinality(Owing(c)' \cap H)
  BY <1>4, <1>5, FS_Union
<1>7. Cardinality({}) = 0 /\ Cardinality(Owing(c)') \in Nat /\ Cardinality(H) \in Nat
  BY <1>5, FS_EmptySet, FS_CardinalityType
<1>8. Cardinality(Owing(c)' \cap H) = 0
  BY <1>4, <1>7
<1>9. Cardinality(Owing(c)) = Cardinality(Owing(c)') + Cardinality(H)
  BY <1>6, <1>7, <1>8
<1> QED
  BY <1>9 DEF H

(* The two steps that hear from slots move cases from them to the reports.  *)
LEMMA HearingMoves ==
    ASSUME Undisturbed, Calm, Rest', NEW c \in Case,
           ReapWorkers \/ \E s \in Slot : DrainResultPipe(s)
    PROVE  /\ Told(c)' + Cardinality(Owing(c)') = Told(c) + Cardinality(Owing(c))
           /\ Left(c)' = Left(c) /\ Picked(c)' = Picked(c)
<1> USE DEF Calm
<1>1. {c} \in SUBSET Name
  BY CasesAreNoSentinels
<1>2. Told(c) \in Nat /\ Cardinality(Owing(c)') \in Nat
  BY PlacesFinite, DispatcherAssumption, FS_Subset, FS_CardinalityType DEF Owing
<1>3. ASSUME NEW s \in Slot, DrainResultPipe(s)
      PROVE  Told(c)' + Cardinality(Owing(c)') = Told(c) + Cardinality(Owing(c))
  <2> DEFINE X == {s}
             lost == {}
  <2>1. IsFiniteSet(Heard(X, lost, {c})) /\ Told(c)' = Told(c) + Cardinality(Heard(X, lost, {c}))
    BY <1>1, <1>3, DrainReports DEF Told
  <2>2. ASSUME NEW t \in Slot
        PROVE  IF t \in X /\ (result_pipe[t] # <<>> \/ t \in lost)
               THEN Parcel(t)' = {} /\ workers'[t].tests = {}
               ELSE Parcel(t)' = Parcel(t) /\ workers'[t].tests = workers[t].tests
    <3>1. CASE t = s
      BY <1>3, <3>1, DrainTakes
    <3>2. CASE t # s
      <4>1. /\ workers'[t] = workers[t] /\ result_pipe'[t] = result_pipe[t]
            /\ UNCHANGED <<proc, running, dispatch_pipe>>
        BY <1>3, <3>2 DEF DrainResultPipe, Inv, SlotInv, Rest
      <4> QED
        BY <3>2, <4>1 DEF Parcel, Unread, Run, Answers
    <3> QED
      BY <3>1, <3>2
  <2>3. X \in SUBSET Slot /\ lost \in SUBSET Mute
    OBVIOUS
  <2> HIDE DEF X, lost
  <2>4. Cardinality(Owing(c)) = Cardinality(Owing(c)') + Cardinality(Heard(X, lost, {c}))
    BY <2>2, <2>3, OwedIsHeard
  <2> DEFINE heard == Cardinality(Heard(X, lost, {c}))
  <2>5. /\ heard \in Nat /\ Told(c)' = Told(c) + heard
        /\ Cardinality(Owing(c)) = Cardinality(Owing(c)') + heard
    BY <2>1, <2>4, FS_CardinalityType
  <2> HIDE DEF heard
  <2> QED
    BY <1>2, <2>5
<1>4. ASSUME ReapWorkers
      PROVE  Told(c)' + Cardinality(Owing(c)') = Told(c) + Cardinality(Owing(c))
  <2>1. /\ IsFiniteSet(Heard(Dead, Mute, {c}))
        /\ Told(c)' = Told(c) + Cardinality(Heard(Dead, Mute, {c}))
    BY <1>1, <1>4, ReapReports DEF Told
  <2>2. ASSUME NEW t \in Slot
        PROVE  IF t \in Dead /\ (result_pipe[t] # <<>> \/ t \in Mute)
               THEN Parcel(t)' = {} /\ workers'[t].tests = {}
               ELSE Parcel(t)' = Parcel(t) /\ workers'[t].tests = workers[t].tests
    <3>1. NoWorker.tests = {} /\ (t \in Dead <=> proc[t] = "zombie")
          /\ (t \in Dead => (t \in Mute <=> result_pipe[t] = <<>>))
      BY DEF NoWorker, Dead, Mute
    <3> QED
      BY <1>4, <3>1, ReapClears
  <2>3. Dead \in SUBSET Slot /\ Mute \in SUBSET Mute
    BY DEF Dead
  <2>4. Cardinality(Owing(c)) = Cardinality(Owing(c)') + Cardinality(Heard(Dead, Mute, {c}))
    BY <2>2, <2>3, OwedIsHeard
  <2> DEFINE heard == Cardinality(Heard(Dead, Mute, {c}))
  <2>5. /\ heard \in Nat /\ Told(c)' = Told(c) + heard
        /\ Cardinality(Owing(c)) = Cardinality(Owing(c)') + heard
    BY <2>1, <2>4, FS_CardinalityType
  <2> HIDE DEF heard
  <2> QED
    BY <1>2, <2>5
<1>5. UNCHANGED <<todo, case, ret>> /\ pc = "epoll" /\ pc' = ret
  BY DEF ReapWorkers, DrainResultPipe
<1>6. Committed' = Committed
  BY <1>5 DEF Committed, Stage, Inv, SlotInv
<1> QED
  BY <1>3, <1>4, <1>5, <1>6 DEF Left, Picked

(* What owes what it did, or was killed while it ran it.                    *)
LEMMA QuietKeepsOwing ==
    ASSUME Undisturbed, Calm, Calm', Quiet, [Next]_vars, NEW c \in Case
    PROVE  Owing(c)' = Owing(c)
<1> USE DEF Calm
<1> SUFFICES ASSUME NEW s \in Slot PROVE s \in Owing(c)' <=> s \in Owing(c)
  BY DEF Owing
<1>1. /\ workers'[s].tests = workers[s].tests /\ Parcel(s)' \subseteq Parcel(s)
      /\ Parcel(s)' = Parcel(s) \/ (proc'[s] = "zombie" /\ Run(s) # {})
  BY QuietKeepsParcels
<1>2. CASE Parcel(s)' = Parcel(s)
  BY <1>1, <1>2 DEF Owing
<1>3. CASE Parcel(s)' # Parcel(s)
  <2>1. ParcelOf(s) /\ TodoOf(s) /\ DeathOf(s)'
    BY ParcelsOfSlots, TodoOfSlots, DeathNext DEF DeathInv, DeathOf, InReap
  <2>2. PICK r \in Case : Parcel(s) = {r}
    <3>1. Unread(s) = {} /\ Answers(s) = {}
      BY <1>1, <1>3, <2>1 DEF ParcelOf
    <3> QED
      BY <1>1, <1>3, <3>1 DEF Parcel, Run
  <2>3. Parcel(s)' = {}
    BY <1>1, <1>3, <2>2
  <2>4. workers[s].tests = {r[1]} /\ ~MustSkip(r)
    <3>1. r[1] \in workers[s].tests /\ \A d, e \in workers[s].tests : d = e
      BY <2>1, <2>2, PipesTyped DEF ParcelOf
    <3> QED
      BY <2>1, <2>2, <3>1 DEF TodoOf
  <2>5. NumQueues <= 1
    <3>1. s \in expired'
      <4>1. Answers(s)' = {}
        BY <2>3 DEF Parcel
      <4> QED
        BY <1>1, <1>3, <2>1, <2>4, <4>1 DEF DeathOf
    <3>2. HasTimeout'
      BY <2>1, <3>1 DEF DeathOf
    <3> QED
      BY <3>2 DEF Undisturbed, HasTimeout, Inv, SlotInv
  <2>6. r[2] = 0
    <3>1. r[2] \in Nat /\ NumQueues \in Nat
      BY CasesAreNoSentinels, RunnerDefsAssumption
    <3>2. r[2] < NumQueues
      BY <2>4, <3>1 DEF MustSkip
    <3> QED
      BY <2>5, <3>1, <3>2
  <2>7. c[1] = r[1] /\ c[2] = 0 <=> c = r
    <3>1. c = <<c[1], c[2]>> /\ r = <<r[1], r[2]>>
      BY CasesAreNoSentinels
    <3> QED
      BY <2>6, <3>1
  <2> QED
    BY <1>1, <2>2, <2>3, <2>4, <2>7 DEF Owing
<1> QED
  BY <1>2, <1>3

(* One step moves a case at most from one place to the next.                *)
LEMMA PlacesNext ==
    ASSUME Undisturbed, Calm, Calm', [Next]_vars, ~goto_next_phase', NEW c \in Case,
           Told(c) + Cardinality(Owing(c)) + Left(c) + Picked(c) = 1
    PROVE  Told(c)' + Cardinality(Owing(c)') + Left(c)' + Picked(c)' = 1
<1> USE DEF Calm
<1>1. /\ Told(c) \in Nat /\ Left(c) \in Nat /\ Picked(c) \in Nat
      /\ IsFiniteSet(Owing(c)) /\ Cardinality(Owing(c)) \in Nat
  BY PlacesFinite
<1>2. /\ todo' \subseteq todo
      /\ Committed' => (Committed /\ case' = case) \/ DispatchTest
      /\ Committed => Committed' \/ StartTest \/ NoWorkerForIt
  BY StagesFollow, DeathOfSlots DEF Undisturbed
<1>3. CASE ReapWorkers \/ \E s \in Slot : DrainResultPipe(s)
  <2>1. /\ Told(c)' + Cardinality(Owing(c)') = Told(c) + Cardinality(Owing(c))
        /\ Left(c)' = Left(c) /\ Picked(c)' = Picked(c)
    BY <1>3, HearingMoves
  <2>2. Told(c)' \in Nat /\ Cardinality(Owing(c)') \in Nat
    <3>1. {c} \in SUBSET Name /\ Result \in SUBSET Result
      BY CasesAreNoSentinels
    <3>2. Told(c)' \in Nat
      BY <3>1, MadeFinite DEF Told, Rest
    <3> QED
      BY <3>2, DispatcherAssumption, FS_Subset, FS_CardinalityType DEF Owing
  <2> QED
    BY <1>1, <2>1, <2>2
<1>4. CASE ReportSkip \/ RunInProcess
  <2> DEFINE next == NextCase(todo)
  <2>1. {c} \in SUBSET Name
    BY CasesAreNoSentinels
  <2>2. /\ next \in todo /\ todo' = todo \ {next}
        /\ Told(c)' = Told(c) + IF next \in {c} THEN 1 ELSE 0
    BY <1>4, <2>1, SingleReport DEF Told
  <2>3. UNCHANGED <<pc, ret, case>>
    BY <1>4 DEF ReportSkip, RunInProcess
  <2>4. Picked(c)' = Picked(c)
    BY <2>3 DEF Picked, Committed, Stage
  <2>5. Owing(c)' = Owing(c)
    BY <1>4, QuietKeepsOwing DEF Quiet
  <2> HIDE DEF next
  <2>6. CASE next = c
    <3>1. Told(c)' = Told(c) + 1 /\ Left(c) = 1 /\ Left(c)' = 0
      BY <2>2, <2>6 DEF Left
    <3> QED
      BY <1>1, <2>4, <2>5, <3>1
  <2>7. CASE next # c
    <3>1. Told(c)' = Told(c) + 0 /\ Left(c)' = Left(c)
      BY <2>2, <2>7 DEF Left
    <3> QED
      BY <1>1, <2>4, <2>5, <3>1
  <2> QED
    BY <2>6, <2>7
<1>5. CASE DispatchTest
  <2> DEFINE next == NextCase(todo)
  <2>1. /\ next \in todo /\ todo' = todo \ {next} /\ case' = next
        /\ pc = "loop" /\ pc' = "begin" /\ reports' = reports
    BY <1>5, NextCaseIsLeft DEF DispatchTest, books, Inv, SlotInv
  <2>2. Told(c)' = Told(c) /\ Picked(c) = 0 /\ Picked(c)' = IF next = c THEN 1 ELSE 0
    BY <2>1 DEF Told, Picked, Committed, Stage
  <2>3. Owing(c)' = Owing(c)
    BY <1>5, QuietKeepsOwing DEF Quiet
  <2> HIDE DEF next
  <2>4. CASE next = c
    <3>1. Picked(c)' = 1 /\ Left(c) = 1 /\ Left(c)' = 0
      BY <2>1, <2>2, <2>4 DEF Left
    <3> QED
      BY <1>1, <2>2, <2>3, <3>1
  <2>5. CASE next # c
    <3>1. Picked(c)' = 0 /\ Left(c)' = Left(c)
      BY <2>1, <2>2, <2>5 DEF Left
    <3> QED
      BY <1>1, <2>2, <2>3, <3>1
  <2> QED
    BY <2>4, <2>5
<1>6. CASE StartTest
  <2>1. /\ pc = "send" /\ pc' = "collect" /\ ret' = "loop" /\ UNCHANGED <<todo, reports>>
    BY <1>6 DEF StartTest, CollectThen
  <2>2. Alive(target)
    BY <2>1, OpenIsAlive
  <2> PICK s : s = target
    OBVIOUS
  <2>3. /\ s \in Slot /\ Parcel(s) = {} /\ Parcel(s)' = {case} /\ case \in Case
        /\ workers[s].tests = {} /\ workers'[s].tests = {case[1]}
    BY <1>6, <2>2, StartSends
  <2>4. \A t \in Slot \ {s} :
            Parcel(t)' = Parcel(t) /\ workers'[t].tests = workers[t].tests
    <3> SUFFICES ASSUME NEW t \in Slot \ {s}
                 PROVE  Parcel(t)' = Parcel(t) /\ workers'[t].tests = workers[t].tests
      OBVIOUS
    <3>1. /\ dispatch_pipe'[t] = dispatch_pipe[t] /\ workers'[t].tests = workers[t].tests
          /\ UNCHANGED <<proc, running, result_pipe>>
      BY <1>6 DEF StartTest, Inv, SlotInv
    <3> QED
      BY <3>1 DEF Parcel, Unread, Run, Answers
  <2>5. /\ s \notin Owing(c)
        /\ Owing(c)' = IF case = c THEN Owing(c) \cup {s} ELSE Owing(c)
    <3>1. s \notin Owing(c) /\ (s \in Owing(c)' <=> case = c)
      BY <2>3 DEF Owing
    <3>2. \A t \in Slot \ {s} : t \in Owing(c)' <=> t \in Owing(c)
      BY <2>4 DEF Owing
    <3>3. Owing(c) \subseteq Slot /\ Owing(c)' \subseteq Slot
      BY DEF Owing
    <3> QED
      BY <2>3, <3>1, <3>2, <3>3
  <2>6. /\ Told(c)' = Told(c) /\ Left(c)' = Left(c) /\ Picked(c)' = 0
        /\ Picked(c) = IF case = c THEN 1 ELSE 0
    BY <2>1 DEF Told, Left, Picked, Committed, Stage
  <2>7. Cardinality(Owing(c) \cup {s}) = Cardinality(Owing(c)) + 1
    BY <1>1, <2>5, FS_AddElement
  <2>8. CASE case = c
    <3>1. Picked(c) = 1 /\ Cardinality(Owing(c)') = Cardinality(Owing(c)) + 1
      BY <2>5, <2>6, <2>7, <2>8
    <3> QED
      BY <1>1, <2>6, <3>1
  <2>9. CASE case # c
    <3>1. Picked(c) = 0 /\ Owing(c)' = Owing(c)
      BY <2>5, <2>6, <2>9
    <3> QED
      BY <1>1, <2>6, <3>1
  <2> QED
    BY <2>8, <2>9
<1>7. CASE /\ Quiet /\ ~ReportSkip /\ ~RunInProcess /\ ~DispatchTest
           /\ ~ReapWorkers /\ ~StartTest /\ \A s \in Slot : ~DrainResultPipe(s)
  <2>1. reports' = reports /\ todo' = todo /\ case' = case
    BY <1>7, OthersReportNothing, OthersBeginNothing
  <2>2. Owing(c)' = Owing(c)
    BY <1>7, QuietKeepsOwing
  <2>3. ~NoWorkerForIt
    BY DEF NoWorkerForIt, ForkFails, WorkerSetUpFails
  <2>4. Committed' <=> Committed
    BY <1>2, <1>7, <2>3
  <2>5. Told(c)' = Told(c) /\ Left(c)' = Left(c) /\ Picked(c)' = Picked(c)
    BY <2>1, <2>4 DEF Told, Left, Picked
  <2> QED
    BY <1>1, <2>2, <2>5
<1> QED
  BY <1>3, <1>4, <1>5, <1>6, <1>7, StepsAreQuiet

(* The dispatcher is done when it has let go of its workers.                *)
LEMMA DoneNext ==
    ASSUME Undisturbed, Calm, Calm', [Next]_vars, ~goto_next_phase',
           pc = "done" => Connected = {}, pc' = "done"
    PROVE  Connected' = {}
<1> USE DEF Calm, control, books, flags, processes, user
<1>0. ~sigint_flag /\ ret \in {"loop", "full", "find", "reap"} /\ Inv /\ InProcess'
  BY StaysInProcess, DeathOfSlots DEF Inv, SlotInv
<1>1. CASE pc = "done"
  <2>1. UNCHANGED workers
    BY <1>1 DEF Next, DispatcherStep, Finished, vars,
       GatherVulkanInfo, ReportSkip, RunInProcess, DispatchTest,
       EndDispatchPhase, AwaitRoom, FindOpenWorker, ForkWorker, ForkFails, WorkerSetUpFails,
       AwaitWorker, StartTest, YieldUninterrupted, YieldKillsWorkers, WakeFromNap, HaltTestRun,
       DrainResultPipe, ReapWorkers, NothingToCollect, SendSentinels, AwaitWorkers,
       WorkerStep, WorkerSetsUp, WorkerRecvTest, WorkerRecvSentinel, WorkerKilled,
       WorkerSendResult, WorkerCrashes, TestExpires, Die, Interrupt
  <2> QED
    BY <1>1, <2>1 DEF Connected
<1>2. CASE EndDispatchPhase
  <2>1. NoFork'
    BY <1>2 DEF EndDispatchPhase, NoFork
  <2> QED
    BY <1>0, <2>1 DEF InProcess
<1>3. CASE AwaitWorkers
  <2>1. ~(num_workers > 0) /\ workers' = workers
    BY <1>3 DEF AwaitWorkers, CollectThen
  <2>2. num_workers = Cardinality(Connected) /\ IsFiniteSet(Connected)
        /\ Cardinality(Connected) \in Nat
    BY <1>3, ConnectedFinite, CountIsExact DEF Inv, AwaitWorkers
  <2>3. Connected = {}
    BY <2>1, <2>2, FS_EmptySet
  <2> QED
    BY <2>1, <2>3 DEF Connected
<1>4. CASE SendSentinels
  <2>1. ~goto_next_phase /\ pc' = "reap"
    BY <1>4 DEF SendSentinels
  <2> QED
    BY <2>1
<1>5. pc = "done" \/ EndDispatchPhase \/ AwaitWorkers \/ SendSentinels
  <2> SUFFICES ASSUME pc # "done", ~EndDispatchPhase, ~AwaitWorkers, ~SendSentinels
               PROVE  pc' # "done"
    OBVIOUS
  <2>1. CASE \/ GatherVulkanInfo \/ ReportSkip \/ RunInProcess \/ DispatchTest
             \/ AwaitRoom \/ FindOpenWorker \/ ForkWorker \/ ForkFails
             \/ WorkerSetUpFails \/ AwaitWorker \/ StartTest
             \/ YieldUninterrupted \/ YieldKillsWorkers \/ WakeFromNap \/ HaltTestRun
             \/ NothingToCollect \/ ReapWorkers
    BY <1>0, <2>1 DEF GatherVulkanInfo, ReportSkip, RunInProcess, DispatchTest,
       AwaitRoom, FindOpenWorker, ForkWorker, ForkFails, WorkerSetUpFails, AwaitWorker,
       CollectThen, StartTest, YieldUninterrupted, YieldKillsWorkers, WakeFromNap, HaltTestRun,
       ReapWorkers, NothingToCollect
  <2>2. CASE \E s \in Slot :
                WorkerStep(s) \/ WorkerSendResult(s) \/ WorkerCrashes(s) \/ TestExpires(s)
    BY <2>2 DEF WorkerStep, WorkerSetsUp, WorkerRecvTest, WorkerRecvSentinel, WorkerKilled,
       WorkerSendResult, WorkerCrashes, TestExpires, Die
  <2>3. CASE \E s \in Slot : DrainResultPipe(s)
    BY <1>0, <2>3 DEF DrainResultPipe
  <2>4. CASE Interrupt
    <3>1. interrupts \in 0 .. 0 /\ interrupts < 0
      BY <2>4 DEF Interrupt, Rest, Undisturbed
    <3> QED
      BY <3>1
  <2>5. CASE UNCHANGED vars
    BY <2>5 DEF vars
  <2> HIDE DEF control, books, flags, processes, user
  <2> QED
    BY <2>1, <2>2, <2>3, <2>4, <2>5, StepsAreQuiet, Zenon DEF Quiet
<1> QED
  BY <1>1, <1>2, <1>3, <1>4, <1>5

LEMMA CaseNext ==
    ASSUME Undisturbed, Calm, Calm', CaseInv, [Next]_vars
    PROVE  CaseInv'
<1> USE DEF Calm
<1> SUFFICES ASSUME ~goto_next_phase'
             PROVE  /\ \A c \in Case :
                          Told(c)' + Cardinality(Owing(c)') + Left(c)' + Picked(c)' = 1
                    /\ InCleanup' => todo' = {}
                    /\ pc' = "done" => Connected' = {}
  BY DEF CaseInv, Told, Left, Picked, Reported, Made, MadeOf, InCleanup
<1>1. /\ ~goto_next_phase /\ todo' \subseteq todo
      /\ InCleanup' => InCleanup \/ EndDispatchPhase \/ NoWorkerForIt
  BY StagesFollow, DeathOfSlots DEF Undisturbed
<1>2. /\ \A c \in Case : Told(c) + Cardinality(Owing(c)) + Left(c) + Picked(c) = 1
      /\ InCleanup => todo = {}
      /\ pc = "done" => Connected = {}
  BY <1>1, PlacesCounted
<1>3. \A c \in Case : Told(c)' + Cardinality(Owing(c)') + Left(c)' + Picked(c)' = 1
  BY <1>2, PlacesNext
<1>4. InCleanup' => todo' = {}
  BY <1>1, <1>2 DEF EndDispatchPhase, NoWorkerForIt, ForkFails, WorkerSetUpFails
<1>5. pc' = "done" => Connected' = {}
  BY <1>2, DoneNext
<1> QED
  BY <1>3, <1>4, <1>5

LEMMA CaseInitially == Init => CaseInv
<1> SUFFICES ASSUME Init PROVE CaseInv
  OBVIOUS
<1>1. ~Committed /\ ~InCleanup /\ pc # "done"
  BY DEF Init, Committed, InCleanup, Stage
<1>2. ASSUME NEW c \in Case
      PROVE  Told(c) + Cardinality(Owing(c)) + Left(c) + Picked(c) = 1
  <2>1. Told(c) = 0
    BY CasesAreNoSentinels, NothingMadeInitially DEF Told
  <2>2. Owing(c) = {}
    BY DEF Init, Owing, Parcel, Unread, Run, Answers, NoWorker
  <2>3. Left(c) = 1 /\ Picked(c) = 0
    BY <1>1 DEF Init, Left, Picked
  <2> QED
    BY <2>1, <2>2, <2>3, FS_EmptySet
<1> QED
  BY <1>1, <1>2, PlacesCounted

(* When the test run is over, no slot owes anything any more.               *)
LEMMA AllIsTold ==
    ASSUME Calm, CaseInv, pc = "done", ~goto_next_phase, NEW c \in Case
    PROVE  Told(c) = 1
<1> USE DEF Calm
<1>1. /\ Told(c) + Cardinality(Owing(c)) + Left(c) + Picked(c) = 1
      /\ InCleanup => todo = {}
      /\ Connected = {}
  BY PlacesCounted
<1>2. Left(c) = 0 /\ Picked(c) = 0
  BY <1>1 DEF Left, Picked, InCleanup, Committed, Stage
<1>3. Owing(c) = {}
  <2>1. \A s \in Slot : workers[s].tests = {}
    BY <1>1 DEF Connected, Inv, SlotInv
  <2>2. \A s \in Slot : Parcel(s) = {}
    BY <2>1, ParcelsOfSlots, NothingOwned
  <2> QED
    BY <2>1, <2>2 DEF Owing
<1>4. Told(c) \in Nat /\ Cardinality(Owing(c)) = 0
  BY <1>3, PlacesFinite, FS_EmptySet
<1> QED
  BY <1>1, <1>2, <1>4

(* "Run all tests that match <pattern>" (crucible-run): a test run in which *)
(* no worker crashed and that nobody interrupted has reported each case     *)
(* once, for any number of tests, queues and jobs.                          *)
THEOREM EachTestIsReported ==
    ASSUME Undisturbed
    PROVE  Spec => []EveryTestReported
<1>1. Init => Calm /\ CaseInv
  BY CalmAlways, CaseInitially
<1>2. Calm /\ CaseInv /\ [Next]_vars => Calm' /\ CaseInv'
  BY CalmAlways, CaseNext
<1>3. Calm /\ CaseInv => EveryTestReported
  BY AllIsTold DEF EveryTestReported, Told, Reported, Made, MadeOf
<1> QED
  BY <1>1, <1>2, <1>3, PTL DEF Spec

=============================================================================
