----------------------- MODULE DispatchReportsProofs -----------------------
(***************************************************************************)
(* Proofs about the reports of Dispatcher: every variable keeps its type,  *)
(* no answer of a worker is thrown away, and no run of a test is reported  *)
(* twice, for any number of tests, jobs and queues, whatever happens.      *)
(***************************************************************************)
EXTENDS DispatcherProofs, FunctionTheorems

-----------------------------------------------------------------------------
(* Counting packets.                                                        *)

PacketAt(s, n, r) ==
    {s} \X {i \in DOMAIN result_pipe[s] : result_pipe[s][i] = <<n, r>>}

LEMMA PacketsCounted ==
    ASSUME result_pipe \in [Slot -> Seq(Case \X Result)],
           NEW slots \in SUBSET Slot, NEW n, NEW r
    PROVE  /\ PacketsOf(slots, n, r) \in Nat
           /\ \A s \in slots : \A i \in DOMAIN result_pipe[s] :
                 result_pipe[s][i] = <<n, r>> => PacketsOf(slots, n, r) > 0
<1> DEFINE family == {PacketAt(s, n, r) : s \in slots}
           packetsOf == [s \in slots |-> PacketAt(s, n, r)]
<1>1. ASSUME NEW s \in slots PROVE IsFiniteSet(PacketAt(s, n, r))
  <2> DEFINE places == {i \in DOMAIN result_pipe[s] : result_pipe[s][i] = <<n, r>>}
  <2>1. DOMAIN result_pipe[s] = 1 .. Len(result_pipe[s]) /\ Len(result_pipe[s]) \in Nat
    OBVIOUS
  <2>2. IsFiniteSet(1 .. Len(result_pipe[s]))
    BY <2>1, FS_Interval
  <2>3. IsFiniteSet(places)
    BY <2>1, <2>2, FS_Subset
  <2>4. IsFiniteSet({s})
    BY FS_Singleton
  <2> HIDE DEF places
  <2>5. IsFiniteSet({s} \X places)
    BY <2>3, <2>4, FS_Product
  <2> QED
    BY <2>5 DEF PacketAt, places
<1>2. IsFiniteSet(slots)
  BY DispatcherAssumption, FS_Subset
<1>3. packetsOf \in [slots -> family] /\ \A t \in family : \E s \in slots : packetsOf[s] = t
  OBVIOUS
<1>4. \A t \in family : IsFiniteSet(t)
  BY <1>1
<1>5. PacketsOf(slots, n, r) = Cardinality(UNION family)
  BY DEF PacketsOf, PacketAt
<1> HIDE DEF family, packetsOf
<1>6. packetsOf \in Surjection(slots, family)
  BY <1>3, Fun_IsSurj
<1>7. IsFiniteSet(family)
  BY <1>2, <1>6, FS_Surjection
<1>8. IsFiniteSet(UNION family) /\ Cardinality(UNION family) \in Nat
  BY <1>4, <1>7, FS_UNION, FS_CardinalityType
<1>9. ASSUME NEW s \in slots, NEW i \in DOMAIN result_pipe[s], result_pipe[s][i] = <<n, r>>
      PROVE  UNION family # {}
  <2>1. <<s, i>> \in PacketAt(s, n, r)
    BY <1>9 DEF PacketAt
  <2> QED
    BY <2>1 DEF family
<1>10. Cardinality(UNION family) = 0 <=> UNION family = {}
  BY <1>8, FS_EmptySet
<1>11. PacketsOf(slots, n, r) \in Nat
  BY <1>5, <1>8
<1>12. ASSUME NEW s \in slots, NEW i \in DOMAIN result_pipe[s], result_pipe[s][i] = <<n, r>>
       PROVE  PacketsOf(slots, n, r) > 0
  <2>1. UNION family # {}
    BY <1>9, <1>12
  <2>2. PacketsOf(slots, n, r) # 0
    BY <1>5, <1>10, <2>1
  <2> QED
    BY <1>11, <2>2
<1> QED
  BY <1>11, <1>12

-----------------------------------------------------------------------------
(* Types.                                                                   *)

(* What SlotInv does not say of the variables.                              *)
Rest ==
    /\ napping \in BOOLEAN
    /\ case \in Case \cup {NoCase}
    /\ target \in Slot \cup {-1}
    /\ sigint_flag \in BOOLEAN /\ goto_next_phase \in BOOLEAN
    /\ reports \in [Name -> [Result -> Nat]]
    /\ expired \subseteq Slot
    /\ running \in [Slot -> Case \cup {NoCase}]
    /\ result_pipe \in [Slot -> Seq(Case \X Result)]
    /\ killed \subseteq Slot
    /\ sigchld \in BOOLEAN
    /\ interrupts \in 0 .. MaxInterrupts
    /\ RunningInv

LEMMA ResultsAreTyped == {PASS, SKIP, FAIL} \subseteq Result /\ LOST \in Result
BY DEF PASS, SKIP, FAIL, LOST, Result

LEMMA RestTyped ==
    ASSUME Inv, Rest, Inv', [Next]_vars
    PROVE  Rest'
<1> USE DEF control, books, flags, processes, user
<1>0. /\ SlotInv /\ todo \subseteq Case /\ proc \in [Slot -> ProcState]
      /\ pc' = "send" => target' \in Slot
  BY DEF Inv, SlotInv
<1>1. CASE \/ GatherVulkanInfo \/ EndDispatchPhase \/ AwaitRoom \/ ForkFails \/ AwaitWorker
           \/ YieldKillsWorkers \/ HaltTestRun \/ NothingToCollect \/ AwaitWorkers
  BY <1>1 DEF Rest, GatherVulkanInfo, EndDispatchPhase, AwaitRoom, ForkFails,
     AwaitWorker, YieldKillsWorkers, HaltTestRun, NothingToCollect, AwaitWorkers,
     RunningInv, Connected, CollectThen
<1>2. CASE YieldUninterrupted \/ WakeFromNap
  <2>1. \A to : KilledByTimeout(to) \subseteq Slot
    BY DEF Rest, KilledByTimeout
  <2> QED
    BY <1>2, <2>1 DEF Rest, YieldUninterrupted, WakeFromNap, RunningInv
<1>3. CASE ReportSkip \/ RunInProcess
  <2>1. PICK c \in Case, r \in Result : Report(c, r)
    BY <1>0, <1>3, NextCaseIsLeft, ResultsAreTyped DEF ReportSkip, RunInProcess
  <2>2. reports' \in [Name -> [Result -> Nat]]
    BY <2>1 DEF Rest, Report, Name
  <2> QED
    BY <1>3, <2>2 DEF Rest, ReportSkip, RunInProcess, RunningInv
<1>4. CASE DispatchTest
  <2>1. case' \in Case
    BY <1>0, <1>4, NextCaseIsLeft DEF DispatchTest
  <2> QED
    BY <1>4, <2>1 DEF Rest, DispatchTest, RunningInv
<1>5. CASE FindOpenWorker
  BY <1>0, <1>5 DEF Rest, FindOpenWorker, RunningInv
<1>6. CASE ForkWorker \/ WorkerSetUpFails
  <2>1. \A s \in Slot : proc'[s] = "running" => proc[s] = "running"
    BY <1>0, <1>6 DEF ForkWorker, WorkerSetUpFails, Fork
  <2> QED
    BY <1>0, <1>6, <2>1 DEF Rest, ForkWorker, WorkerSetUpFails, RunningInv
<1>7. CASE StartTest
  BY <1>7 DEF Rest, StartTest, RunningInv, CollectThen
<1>8. ASSUME NEW s \in Slot, DrainResultPipe(s) PROVE Rest'
  <2> DEFINE slots == {s}
  <2>1. \A n, r : PacketsOf(slots, n, r) \in Nat
    BY PacketsCounted DEF Rest
  <2>2. reports' = [n \in Name |-> [r \in Result |-> reports[n][r] + PacketsOf(slots, n, r)]]
    BY <1>8 DEF DrainResultPipe
  <2> HIDE DEF slots
  <2>3. reports' \in [Name -> [Result -> Nat]]
    BY <2>1, <2>2 DEF Rest
  <2>4. result_pipe' \in [Slot -> Seq(Case \X Result)]
    <3>1. result_pipe' = [result_pipe EXCEPT ![s] = <<>>]
      BY <1>8 DEF DrainResultPipe
    <3>2. <<>> \in Seq(Case \X Result)
      OBVIOUS
    <3> QED
      BY <3>1, <3>2 DEF Rest
  <2>5. expired' \subseteq Slot
    <3>1. expired' = expired \ {s} \/ expired' = expired
      BY <1>8 DEF DrainResultPipe
    <3> QED
      BY <3>1 DEF Rest
  <2>6. UNCHANGED <<napping, todo, case, target, flags, proc, running, killed, sigchld, user>>
    BY <1>8 DEF DrainResultPipe
  <2> QED
    BY <2>3, <2>4, <2>5, <2>6 DEF Rest, RunningInv
<1>9. CASE ReapWorkers
  <2> DEFINE dead == {s \in Slot : proc[s] = "zombie"}
             lost(n) == {s \in dead : n[1] \in LostBy(s)}
  <2>1. \A n, r : PacketsOf(dead, n, r) \in Nat
    BY PacketsCounted DEF Rest
  <2>2. \A n : Cardinality(lost(n)) \in Nat
    BY DispatcherAssumption, FS_Subset, FS_CardinalityType
  <2>3. reports' = [n \in Name |-> [r \in Result |->
           reports[n][r] + PacketsOf(dead, n, r)
           + IF r = LOST /\ n[2] = 0 THEN Cardinality(lost(n)) ELSE 0]]
    BY <1>9 DEF ReapWorkers
  <2> HIDE DEF dead, lost
  <2>4. reports' \in [Name -> [Result -> Nat]]
    BY <2>1, <2>2, <2>3 DEF Rest
  <2>5. result_pipe' \in [Slot -> Seq(Case \X Result)]
    <3>1. result_pipe' = [s \in Slot |-> IF s \in dead THEN <<>> ELSE result_pipe[s]]
      BY <1>9 DEF ReapWorkers, dead
    <3>2. <<>> \in Seq(Case \X Result)
      OBVIOUS
    <3> QED
      BY <3>1, <3>2 DEF Rest
  <2>6. expired' \subseteq Slot /\ killed' \subseteq Slot /\ sigchld' \in BOOLEAN
    <3>1. expired' = expired \ dead /\ killed' = killed \ dead /\ sigchld' = FALSE
      BY <1>9 DEF ReapWorkers, dead
    <3> QED
      BY <3>1 DEF Rest
  <2>7. UNCHANGED <<napping, todo, case, target, flags, running, user>>
    BY <1>9 DEF ReapWorkers
  <2>8. RunningInv'
    <3>1. proc' = [s \in Slot |-> IF s \in dead THEN "none" ELSE proc[s]]
      BY <1>9 DEF ReapWorkers, dead
    <3> QED
      BY <2>7, <3>1 DEF Rest, RunningInv
  <2> QED
    BY <2>4, <2>5, <2>6, <2>7, <2>8 DEF Rest
<1>10. CASE SendSentinels
  BY <1>10 DEF Rest, SendSentinels, RunningInv
<1>11. ASSUME NEW s \in Slot, WorkerSetsUp(s) \/ WorkerRecvSentinel(s) \/ WorkerKilled(s)
                               \/ WorkerCrashes(s)
       PROVE  Rest'
  BY <1>0, <1>11 DEF Rest, WorkerSetsUp, WorkerRecvSentinel, WorkerKilled, WorkerCrashes, Die,
     RunningInv
<1>12. ASSUME NEW s \in Slot, WorkerRecvTest(s) PROVE Rest'
  <2>1. Head(dispatch_pipe[s]) \in Case
    BY <1>0, <1>12 DEF WorkerRecvTest, SlotInv
  <2> QED
    BY <1>0, <1>12, <2>1 DEF Rest, WorkerRecvTest, RunningInv
<1>13. ASSUME NEW s \in Slot, WorkerSendResult(s) PROVE Rest'
  <2>1. PICK r \in Result :
            result_pipe' = [result_pipe EXCEPT ![s] = Append(@, <<running[s], r>>)]
    BY <1>13, ResultsAreTyped DEF WorkerSendResult
  <2>2. <<running[s], r>> \in Case \X Result
    BY <1>13 DEF WorkerSendResult, Rest, RunningInv
  <2>3. result_pipe' \in [Slot -> Seq(Case \X Result)]
    BY <2>1, <2>2 DEF Rest
  <2> QED
    BY <1>0, <1>13, <2>3 DEF Rest, WorkerSendResult, RunningInv
<1>14. ASSUME NEW s \in Slot, TestExpires(s) PROVE Rest'
  BY <1>14 DEF Rest, TestExpires, RunningInv
<1>15. CASE Interrupt
  BY <1>15, DispatcherAssumption DEF Rest, Interrupt, RunningInv
<1>16. CASE UNCHANGED vars
  BY <1>16 DEF vars, Rest, RunningInv
<1> QED
  BY <1>1, <1>2, <1>3, <1>4, <1>5, <1>6, <1>7, <1>8, <1>9, <1>10, <1>11, <1>12, <1>13,
     <1>14, <1>15, <1>16 DEF Next, DispatcherStep, WorkerStep, Finished

LEMMA RestInitially == Init => Rest
<1> SUFFICES ASSUME Init PROVE Rest
  OBVIOUS
<1>1. 0 \in 0 .. MaxInterrupts
  BY DispatcherAssumption
<1>2. reports \in [Name -> [Result -> Nat]]
  BY DEF Init
<1>3. result_pipe \in [Slot -> Seq(Case \X Result)]
  <2>1. <<>> \in Seq(Case \X Result)
    OBVIOUS
  <2> QED
    BY <2>1 DEF Init
<1>4. running \in [Slot -> Case \cup {NoCase}]
  BY DEF Init
<1>5. RunningInv
  BY DEF Init, RunningInv
<1> QED
  BY <1>1, <1>2, <1>3, <1>4, <1>5 DEF Init, Rest

(* Every variable keeps its type, for any number of tests, jobs and queues. *)
THEOREM TypeCorrect == Spec => []TypeOK
<1>1. Init => Inv /\ Rest
  BY InitEstablishes, RestInitially
<1>2. Inv /\ Rest /\ [Next]_vars => Inv' /\ Rest'
  BY NextKeeps, RestTyped
<1>3. Inv /\ Rest => TypeOK
  <2> SUFFICES ASSUME Inv, Rest PROVE TypeOK
    OBVIOUS
  <2>1. cur_dispatched_tests \in Nat /\ num_workers \in Nat
    BY CountersTyped DEF Inv
  <2> QED
    BY <2>1 DEF Inv, SlotInv, Rest, TypeOK
<1> QED
  BY <1>1, <1>2, <1>3, PTL DEF Spec

-----------------------------------------------------------------------------
(* Answers.                                                                 *)

LEMMA OnlyCollectingEmpties ==
    ASSUME Inv, Rest, [Next]_vars, NEW s \in Slot, result_pipe[s] # <<>>,
           result_pipe'[s] = <<>>
    PROVE  DrainResultPipe(s) \/ (ReapWorkers /\ proc[s] = "zombie")
<1> USE DEF control, books, flags, processes, user
<1>1. result_pipe \in [Slot -> Seq(Case \X Result)]
  BY DEF Rest
<1>2. result_pipe' # result_pipe
  OBVIOUS
<1>3. ASSUME NEW t \in Slot, WorkerSendResult(t) PROVE FALSE
  <2>1. PICK r : result_pipe' = [result_pipe EXCEPT ![t] = Append(@, <<running[t], r>>)]
    BY <1>3 DEF WorkerSendResult
  <2>2. t = s
    BY <1>1, <2>1
  <2>3. result_pipe'[s] = Append(result_pipe[s], <<running[t], r>>)
    BY <1>1, <2>1, <2>2
  <2>4. Len(Append(result_pipe[s], <<running[t], r>>)) = Len(result_pipe[s]) + 1
        /\ Len(result_pipe[s]) \in Nat /\ Len(<<>>) = 0
    BY <1>1
  <2>5. Len(result_pipe'[s]) = 0
    BY <2>4
  <2> QED
    BY <2>3, <2>4, <2>5
<1>4. ASSUME NEW t \in Slot, DrainResultPipe(t) PROVE t = s
  BY <1>1, <1>4 DEF DrainResultPipe
<1>5. ASSUME ReapWorkers PROVE proc[s] = "zombie"
  BY <1>1, <1>5 DEF ReapWorkers
<1>6. ASSUME NEW t \in Slot, WorkerStep(t) \/ WorkerCrashes(t) \/ TestExpires(t)
      PROVE  FALSE
  BY <1>2, <1>6 DEF WorkerStep, WorkerSetsUp, WorkerRecvTest, WorkerRecvSentinel, WorkerKilled,
     WorkerCrashes, TestExpires, Die
<1>7. CASE \/ GatherVulkanInfo \/ ReportSkip \/ RunInProcess \/ DispatchTest
           \/ EndDispatchPhase \/ AwaitRoom \/ FindOpenWorker \/ ForkWorker \/ ForkFails
           \/ WorkerSetUpFails \/ AwaitWorker \/ StartTest
  BY <1>2, <1>7 DEF GatherVulkanInfo, ReportSkip, RunInProcess, DispatchTest,
     EndDispatchPhase, AwaitRoom, FindOpenWorker, ForkWorker, ForkFails,
     WorkerSetUpFails, AwaitWorker, StartTest
<1>8. CASE \/ YieldUninterrupted \/ YieldKillsWorkers \/ WakeFromNap \/ HaltTestRun
           \/ NothingToCollect \/ SendSentinels \/ AwaitWorkers \/ Interrupt
           \/ UNCHANGED vars
  BY <1>2, <1>8 DEF YieldUninterrupted, YieldKillsWorkers, WakeFromNap, HaltTestRun,
     NothingToCollect, SendSentinels, AwaitWorkers, Interrupt, vars
<1>9. \/ ReapWorkers
      \/ \E t \in Slot : DrainResultPipe(t)
      \/ \E t \in Slot : \/ WorkerStep(t) \/ WorkerSendResult(t) \/ WorkerCrashes(t)
                         \/ TestExpires(t)
      \/ GatherVulkanInfo \/ ReportSkip \/ RunInProcess \/ DispatchTest
      \/ EndDispatchPhase \/ AwaitRoom \/ FindOpenWorker \/ ForkWorker \/ ForkFails
      \/ WorkerSetUpFails \/ AwaitWorker \/ StartTest
      \/ YieldUninterrupted \/ YieldKillsWorkers \/ WakeFromNap \/ HaltTestRun
      \/ NothingToCollect \/ SendSentinels \/ AwaitWorkers \/ Interrupt
      \/ UNCHANGED vars
  BY Zenon DEF Next, DispatcherStep, Finished
<1>10. ~ \E t \in Slot : \/ WorkerStep(t) \/ WorkerSendResult(t) \/ WorkerCrashes(t)
                          \/ TestExpires(t)
  BY <1>3, <1>6, Zenon
<1>11. (\E t \in Slot : DrainResultPipe(t)) => DrainResultPipe(s)
  BY <1>4, Zenon
<1> QED
  BY <1>5, <1>7, <1>8, <1>9, <1>10, <1>11, Zenon

LEMMA EmptyingReports ==
    ASSUME Inv, Rest, [Next]_vars, NEW s \in Slot, NEW i \in DOMAIN result_pipe[s],
           result_pipe'[s] = <<>>
    PROVE  LET answer == result_pipe[s][i]
           IN  reports'[answer[1]][answer[2]] > reports[answer[1]][answer[2]]
<1> DEFINE answer == result_pipe[s][i]
           n == answer[1]
           r == answer[2]
<1>1. /\ result_pipe \in [Slot -> Seq(Case \X Result)]
      /\ reports \in [Name -> [Result -> Nat]]
  BY DEF Rest
<1>2. answer \in Case \X Result
  BY <1>1
<1>3. n \in Name /\ r \in Result /\ result_pipe[s][i] = <<n, r>>
  BY <1>2 DEF Name
<1>4. reports[n][r] \in Nat
  BY <1>1, <1>3
<1>5. result_pipe[s] # <<>>
  OBVIOUS
<1> HIDE DEF answer, n, r
<1>6. CASE DrainResultPipe(s)
  <2>1. PacketsOf({s}, n, r) \in Nat /\ PacketsOf({s}, n, r) > 0
    BY <1>1, <1>3, PacketsCounted
  <2>2. reports'[n][r] = reports[n][r] + PacketsOf({s}, n, r)
    BY <1>3, <1>6 DEF DrainResultPipe
  <2> QED
    BY <1>4, <2>1, <2>2 DEF n, r, answer
<1>7. CASE ReapWorkers /\ proc[s] = "zombie"
  <2> DEFINE dead == {t \in Slot : proc[t] = "zombie"}
             lost == {t \in dead : n[1] \in LostBy(t)}
             more == IF r = LOST /\ n[2] = 0 THEN Cardinality(lost) ELSE 0
  <2>1. PacketsOf(dead, n, r) \in Nat /\ PacketsOf(dead, n, r) > 0
    <3>1. dead \in SUBSET Slot /\ s \in dead
      BY <1>7
    <3> HIDE DEF dead
    <3> QED
      BY <1>1, <1>3, <3>1, PacketsCounted
  <2>2. Cardinality(lost) \in Nat
    BY DispatcherAssumption, FS_Subset, FS_CardinalityType
  <2>3. reports' = [m \in Name |-> [q \in Result |->
           reports[m][q] + PacketsOf(dead, m, q)
           + IF q = LOST /\ m[2] = 0 THEN Cardinality({t \in dead : m[1] \in LostBy(t)}) ELSE 0]]
    BY <1>7 DEF ReapWorkers
  <2>4. reports'[n][r] = reports[n][r] + PacketsOf(dead, n, r) + more
    BY <1>3, <2>3
  <2>5. more \in Nat
    BY <2>2
  <2> HIDE DEF dead, lost, more
  <2>6. reports'[n][r] > reports[n][r]
    BY <1>4, <2>1, <2>4, <2>5
  <2> QED
    BY <2>6 DEF n, r, answer
<1> QED
  BY <1>5, <1>6, <1>7, OnlyCollectingEmpties

(* What a worker has written is reported, under its own name, whenever its  *)
(* pipe is emptied or closed, however the worker has ended.                 *)
THEOREM AnswersAreAlwaysReported == Spec => AnswersAreReported
<1>1. Init => Inv /\ Rest
  BY InitEstablishes, RestInitially
<1>2. Inv /\ Rest /\ [Next]_vars => Inv' /\ Rest'
  BY NextKeeps, RestTyped
<1>3. Inv /\ Rest /\ [Next]_vars =>
          [\A s \in Slot : \A i \in DOMAIN result_pipe[s] :
              result_pipe'[s] = <<>> =>
                  LET answer == result_pipe[s][i]
                  IN  reports'[answer[1]][answer[2]] > reports[answer[1]][answer[2]]]_vars
  BY EmptyingReports
<1> QED
  BY <1>1, <1>2, <1>3, PTL DEF Spec, AnswersAreReported

-----------------------------------------------------------------------------
(* Counting what is reported.                                               *)

(* The members of A that f puts in column y, and their numbers, which come   *)
(* on top of those that are there.                                          *)
Column(A, f, y) == {a \in A : f[a] = y}
Numbers(B, base, more) == UNION {{y} \X (base[y] + 1 .. base[y] + more[y]) : y \in B}

(* Each member gets one number: they are as many as A has members.          *)
LEMMA NumberedOnce ==
    ASSUME NEW A, IsFiniteSet(A), NEW B, NEW f \in [A -> B], NEW base \in [B -> Nat],
           NEW more \in [B -> Nat],
           \A y \in B : more[y] = Cardinality(Column(A, f, y))
    PROVE  /\ IsFiniteSet(Numbers(B, base, more))
           /\ Cardinality(Numbers(B, base, more)) = Cardinality(A)
<1> USE DEF Column
<1> DEFINE at(y) == Column(A, f, y)
           new == UNION {{y} \X (base[y] + 1 .. base[y] + more[y]) : y \in B}
           order == [y \in B |-> CHOOSE g : g \in Bijection(1 .. more[y], at(y))]
           to == [e \in new |-> order[e[1]][e[2] - base[e[1]]]]
<1>1. ASSUME NEW y \in B PROVE order[y] \in Bijection(1 .. more[y], at(y))
  <2>1. IsFiniteSet(at(y))
    BY FS_Subset
  <2>2. ExistsBijection(1 .. more[y], at(y))
    BY <2>1, FS_CardinalityType
  <2> QED
    BY <2>2 DEF ExistsBijection
<1>2. ASSUME NEW e \in new
      PROVE  /\ e[1] \in B /\ e[2] \in Nat /\ e = <<e[1], e[2]>>
             /\ e[2] - base[e[1]] \in 1 .. more[e[1]]
             /\ to[e] = order[e[1]][e[2] - base[e[1]]]
  <2>1. PICK y \in B : e \in {y} \X (base[y] + 1 .. base[y] + more[y])
    OBVIOUS
  <2>2. e[1] = y /\ e[2] \in base[y] + 1 .. base[y] + more[y] /\ e = <<e[1], e[2]>>
    BY <2>1
  <2>3. base[y] \in Nat /\ more[y] \in Nat
    OBVIOUS
  <2>4. \A i, m \in Nat : \A j \in i + 1 .. i + m : j \in Nat /\ j - i \in 1 .. m
    OBVIOUS
  <2>5. e[2] \in Nat /\ e[2] - base[e[1]] \in 1 .. more[e[1]]
    BY <2>2, <2>3, <2>4
  <2>6. to[e] = order[e[1]][e[2] - base[e[1]]]
    <3> HIDE DEF order, new
    <3> QED
      OBVIOUS
  <2> QED
    BY <2>2, <2>5, <2>6
<1>3. ASSUME NEW y \in B, NEW i \in 1 .. more[y]
      PROVE  /\ <<y, base[y] + i>> \in new
             /\ to[<<y, base[y] + i>>] = order[y][i]
  <2>1. base[y] \in Nat /\ more[y] \in Nat
    OBVIOUS
  <2>2. base[y] + i \in base[y] + 1 .. base[y] + more[y]
    BY <2>1
  <2>3. <<y, base[y] + i>> \in {y} \X (base[y] + 1 .. base[y] + more[y])
    BY <2>2
  <2>4. <<y, base[y] + i>> \in new
    BY <2>3
  <2>5. (base[y] + i) - base[y] = i
    BY <2>1
  <2> DEFINE e == <<y, base[y] + i>>
  <2>6. to[e] = order[e[1]][e[2] - base[e[1]]]
    <3> HIDE DEF order, new, e
    <3> QED
      BY <2>4 DEF e
  <2>7. e[1] = y /\ e[2] = base[y] + i
    OBVIOUS
  <2> QED
    BY <2>4, <2>5, <2>6, <2>7
<1> HIDE DEF order, new, to
<1> HIDE DEF at
<1>4. ASSUME NEW y \in B
      PROVE  /\ \A i \in 1 .. more[y] : order[y][i] \in at(y)
             /\ \A i, j \in 1 .. more[y] : order[y][i] = order[y][j] => i = j
             /\ \A a \in at(y) : \E i \in 1 .. more[y] : order[y][i] = a
  <2> DEFINE g == order[y]
  <2>1. g \in Bijection(1 .. more[y], at(y))
    BY <1>1
  <2> HIDE DEF g
  <2>2. /\ g \in [1 .. more[y] -> at(y)]
        /\ \A i, j \in 1 .. more[y] : g[i] = g[j] => i = j
        /\ \A a \in at(y) : \E i \in 1 .. more[y] : g[i] = a
    BY <2>1, Fun_BijectionProperties
  <2> QED
    BY <2>2 DEF g
<1>5. /\ \A e \in new : to[e] \in at(e[1])
      /\ to \in [new -> A]
  <2>1. \A e \in new : to[e] \in at(e[1])
    BY <1>2, <1>4
  <2>2. \A y : at(y) \subseteq A
    BY DEF at
  <2>3. \A e \in new : to[e] \in A
    BY <2>1, <2>2
  <2>4. to = [e \in new |-> to[e]]
    BY DEF to
  <2> QED
    BY <2>1, <2>3, <2>4
<1>6. ASSUME NEW d \in new, NEW e \in new, to[d] = to[e] PROVE d = e
  <2>1. d[1] = e[1]
    BY <1>5, <1>6 DEF at
  <2>2. d[2] - base[d[1]] = e[2] - base[d[1]]
    <3>1. /\ d[2] - base[d[1]] \in 1 .. more[d[1]] /\ e[2] - base[d[1]] \in 1 .. more[d[1]]
          /\ order[d[1]][d[2] - base[d[1]]] = order[d[1]][e[2] - base[d[1]]]
          /\ d[1] \in B
      BY <1>2, <1>6, <2>1
    <3> QED
      BY <1>4, <3>1
  <2>3. d[2] = e[2]
    <3>1. d[2] \in Nat /\ e[2] \in Nat /\ base[d[1]] \in Nat
      BY <1>2
    <3> QED
      BY <2>2, <3>1
  <2> QED
    BY <1>2, <2>1, <2>3
<1>7. ASSUME NEW a \in A PROVE \E e \in new : to[e] = a
  <2>1. f[a] \in B /\ a \in at(f[a])
    BY DEF at
  <2>2. PICK i \in 1 .. more[f[a]] : order[f[a]][i] = a
    BY <1>4, <2>1
  <2>3. /\ <<f[a], base[f[a]] + i>> \in new
        /\ to[<<f[a], base[f[a]] + i>>] = order[f[a]][i]
    BY <1>3, <2>1
  <2> QED
    BY <2>2, <2>3
<1>8. to \in Bijection(new, A)
  BY <1>5, <1>6, <1>7, Fun_IsBij
<1>9. ExistsBijection(A, new)
  BY <1>8, Fun_ExistsBijSymmetric DEF ExistsBijection
<1> QED
  BY <1>9, FS_Bijection DEF new, Numbers

(* Bars on the members of B, and how many blocks there are when A adds some. *)
Bars(B, height) == UNION {{y} \X (1 .. height[y]) : y \in B}

LEMMA BarsFinite ==
    ASSUME NEW B, IsFiniteSet(B), NEW height \in [B -> Nat]
    PROVE  IsFiniteSet(Bars(B, height)) /\ Cardinality(Bars(B, height)) \in Nat
<1> DEFINE bar(y) == {y} \X (1 .. height[y])
           family == {bar(y) : y \in B}
           of == [y \in B |-> bar(y)]
<1>1. ASSUME NEW y \in B PROVE IsFiniteSet(bar(y))
  <2>1. IsFiniteSet(1 .. height[y])
    BY FS_Interval
  <2> QED
    BY <2>1, FS_Singleton, FS_Product
<1>2. \A t \in family : IsFiniteSet(t)
  BY <1>1
<1>3. of \in [B -> family] /\ \A t \in family : \E y \in B : of[y] = t
  OBVIOUS
<1> HIDE DEF of, family, bar
<1>4. of \in Surjection(B, family)
  BY <1>3, Fun_IsSurj
<1>5. IsFiniteSet(family)
  BY <1>4, FS_Surjection
<1>6. IsFiniteSet(UNION family)
  BY <1>2, <1>5, FS_UNION
<1> QED
  BY <1>6, FS_CardinalityType DEF Bars, family, bar

LEMMA BarsGrow ==
    ASSUME NEW B, IsFiniteSet(B), NEW base \in [B -> Nat], NEW height \in [B -> Nat],
           NEW A, IsFiniteSet(A), NEW f \in [A -> B],
           \A y \in B : height[y] = base[y] + Cardinality(Column(A, f, y))
    PROVE  Cardinality(Bars(B, height)) = Cardinality(Bars(B, base)) + Cardinality(A)
<1> DEFINE more == [y \in B |-> Cardinality(Column(A, f, y))]
<1>1. more \in [B -> Nat]
  BY FS_Subset, FS_CardinalityType DEF Column
<1>2. /\ \A y \in B : more[y] = Cardinality(Column(A, f, y))
      /\ \A y \in B : height[y] = base[y] + more[y]
  OBVIOUS
<1> HIDE DEF more
<1>3. IsFiniteSet(Numbers(B, base, more)) /\ Cardinality(Numbers(B, base, more)) = Cardinality(A)
  BY <1>1, <1>2, NumberedOnce
<1>4. \A i, j \in Nat : /\ 1 .. i + j = (1 .. i) \cup (i + 1 .. i + j)
                        /\ (1 .. i) \cap (i + 1 .. i + j) = {}
  OBVIOUS
<1>5. \A y \in B : /\ 1 .. height[y] = (1 .. base[y]) \cup (base[y] + 1 .. base[y] + more[y])
                   /\ (1 .. base[y]) \cap (base[y] + 1 .. base[y] + more[y]) = {}
  BY <1>1, <1>2, <1>4
<1>6. Bars(B, height) = Bars(B, base) \cup Numbers(B, base, more)
  BY <1>5 DEF Bars, Numbers
<1>7. Bars(B, base) \cap Numbers(B, base, more) = {}
  BY <1>5 DEF Bars, Numbers
<1>8. IsFiniteSet(Bars(B, base)) /\ Cardinality(Bars(B, base)) \in Nat
  BY BarsFinite
<1>9. Cardinality(Bars(B, height))
          = Cardinality(Bars(B, base)) + Cardinality(Numbers(B, base, more)) - Cardinality({})
  BY <1>3, <1>6, <1>7, <1>8, FS_Union
<1>10. Cardinality(A) \in Nat /\ Cardinality({}) = 0
  BY FS_CardinalityType, FS_EmptySet
<1> QED
  BY <1>3, <1>8, <1>9, <1>10

LEMMA NamesFinite == IsFiniteSet(Case) /\ IsFiniteSet(Name) /\ IsFiniteSet(Result)
<1>1. ASSUME NEW d \in Def PROVE IsFiniteSet({d} \X QueuesOf(QueuePref[d]))
  <2>1. UintModulus \in Nat \ {0} /\ NumQueues \in Nat /\ QueuePref[d] \in Nat
    BY DispatcherAssumption, RunnerDefsAssumption DEF QueueNum, InvalidPref
  <2>2. \A a, b \in Int : IsFiniteSet(a .. b)
    BY FS_Interval
  <2>3. IsFiniteSet(QueuesOf(QueuePref[d]))
    <3>1. /\ QueuePref[d] % UintModulus \in Int
          /\ ((QueuePref[d] + 1) % UintModulus) - 1 \in Int /\ NumQueues - 1 \in Int
      BY <2>1
    <3> QED
      BY <2>2, <3>1 DEF QueuesOf
  <2> QED
    BY <2>3, FS_Singleton, FS_Product
<1> DEFINE family == {{d} \X QueuesOf(QueuePref[d]) : d \in Def}
           of == [d \in Def |-> {d} \X QueuesOf(QueuePref[d])]
<1>2. /\ of \in [Def -> family] /\ \A t \in family : \E d \in Def : of[d] = t
      /\ family = {of[d] : d \in Def}
      /\ \A d \in Def : of[d] = {d} \X QueuesOf(QueuePref[d])
  OBVIOUS
<1>3. \A t \in family : IsFiniteSet(t)
  <2>1. \A d \in Def : IsFiniteSet(of[d])
    BY <1>1, <1>2
  <2> HIDE DEF family, of
  <2> QED
    BY <1>2, <2>1
<1> HIDE DEF family, of
<1>4. IsFiniteSet(family)
  <2>1. of \in Surjection(Def, family)
    BY <1>2, Fun_IsSurj
  <2> QED
    BY <2>1, DispatcherAssumption, FS_Surjection
<1>5. IsFiniteSet(Case)
  BY <1>3, <1>4, FS_UNION DEF Case, family
<1>6. IsFiniteSet(Def \X {0})
  BY DispatcherAssumption, FS_Singleton, FS_Product
<1>7. IsFiniteSet(Name)
  BY <1>5, <1>6, FS_Union DEF Name
<1>8. IsFiniteSet(Result)
  <2>1. 0 \in Int /\ 3 \in Int
    OBVIOUS
  <2>2. IsFiniteSet(0 .. 3)
    BY <2>1, FS_Interval
  <2> QED
    BY <2>2 DEF Result, PASS, LOST
<1> QED
  BY <1>5, <1>7, <1>8

(* Made, of any table of reports.                                           *)
Heights(table, names, results) == [nr \in names \X results |-> table[nr[1]][nr[2]]]
MadeOf(table, names, results) ==
    UNION {{nr} \X (1 .. table[nr[1]][nr[2]]) : nr \in names \X results}

LEMMA MadeFinite ==
    ASSUME NEW table \in [Name -> [Result -> Nat]], NEW names \in SUBSET Name,
           NEW results \in SUBSET Result
    PROVE  /\ MadeOf(table, names, results)
                  = Bars(names \X results, Heights(table, names, results))
           /\ Heights(table, names, results) \in [names \X results -> Nat]
           /\ IsFiniteSet(names \X results)
           /\ IsFiniteSet(MadeOf(table, names, results))
           /\ Cardinality(MadeOf(table, names, results)) \in Nat
<1> DEFINE B == names \X results
           height == Heights(table, names, results)
<1>1. IsFiniteSet(B)
  BY NamesFinite, FS_Subset, FS_Product
<1>2. height \in [B -> Nat]
  BY DEF Heights
<1>3. MadeOf(table, names, results) = Bars(B, height)
  <2>1. \A y \in B : height[y] = table[y[1]][y[2]]
    BY DEF Heights
  <2> HIDE DEF height
  <2> QED
    BY <2>1 DEF MadeOf, Bars
<1> HIDE DEF B, height
<1>4. IsFiniteSet(Bars(B, height)) /\ Cardinality(Bars(B, height)) \in Nat
  BY <1>1, <1>2, BarsFinite
<1> QED
  BY <1>1, <1>2, <1>3, <1>4 DEF B, height

(* A table that has one more report for each member of A.                   *)
Adds(old, now, names, A, verdict) ==
    /\ old \in [Name -> [Result -> Nat]] /\ now \in [Name -> [Result -> Nat]]
    /\ names \in SUBSET Name
    /\ IsFiniteSet(A) /\ verdict \in [A -> names \X Result]
    /\ \A n \in names, r \in Result :
          now[n][r] = old[n][r] + Cardinality(Column(A, verdict, <<n, r>>))

LEMMA MadeGrows ==
    ASSUME NEW old, NEW now, NEW names, NEW A, NEW verdict,
           Adds(old, now, names, A, verdict)
    PROVE  Cardinality(MadeOf(now, names, Result))
               = Cardinality(MadeOf(old, names, Result)) + Cardinality(A)
<1> DEFINE B == names \X Result
           base == Heights(old, names, Result)
           height == Heights(now, names, Result)
<1>1. Result \in SUBSET Result
  OBVIOUS
<1>2. \A y \in B : height[y] = base[y] + Cardinality(Column(A, verdict, y))
  <2> SUFFICES ASSUME NEW y \in B
               PROVE  height[y] = base[y] + Cardinality(Column(A, verdict, y))
    OBVIOUS
  <2>1. y[1] \in names /\ y[2] \in Result /\ y = <<y[1], y[2]>>
    OBVIOUS
  <2>2. height[y] = now[y[1]][y[2]] /\ base[y] = old[y[1]][y[2]]
    BY DEF Heights
  <2>3. now[y[1]][y[2]] = old[y[1]][y[2]] + Cardinality(Column(A, verdict, <<y[1], y[2]>>))
    BY <2>1 DEF Adds
  <2> QED
    BY <2>1, <2>2, <2>3
<1>3. IsFiniteSet(A) /\ verdict \in [A -> B]
  BY DEF Adds
<1>4. /\ MadeOf(now, names, Result) = Bars(B, height) /\ height \in [B -> Nat]
      /\ MadeOf(old, names, Result) = Bars(B, base) /\ base \in [B -> Nat]
      /\ IsFiniteSet(B)
  BY <1>1, MadeFinite DEF Adds
<1> HIDE DEF B, base, height
<1>5. Cardinality(Bars(B, height)) = Cardinality(Bars(B, base)) + Cardinality(A)
  BY <1>2, <1>3, <1>4, BarsGrow
<1> QED
  BY <1>4, <1>5

-----------------------------------------------------------------------------
(* Where the case is that a slot owns.                                      *)

(* ParcelInv, of one slot.                                                  *)
ParcelOf(s) ==
    /\ \A i, j \in DOMAIN dispatch_pipe[s] :
          dispatch_pipe[s][i] # Sentinel /\ dispatch_pipe[s][j] # Sentinel => i = j
    /\ Len(result_pipe[s]) <= 1
    /\ \A i \in DOMAIN result_pipe[s] : result_pipe[s][i][2] # LOST
    /\ Run(s) # {} => Unread(s) = {}
    /\ Answers(s) # {} => Unread(s) = {} /\ Run(s) = {}
    /\ \A c \in Parcel(s) : c[1] \in workers[s].tests

LEMMA ParcelsOfSlots == ParcelInv <=> \A s \in Slot : ParcelOf(s)
BY DEF ParcelInv, ParcelOf

LEMMA CasesAreNoSentinels ==
    /\ Sentinel \notin Case
    /\ \A c \in Case : /\ c \in Nat \X Nat /\ c[1] \in Def /\ c[2] \in Nat /\ c = <<c[1], c[2]>>
                       /\ c \in Name
    /\ NoCase \notin Case /\ NoCase[1] \notin Def
<1>1. \A c \in Case : c \in Nat \X Nat /\ c[1] \in Def
  BY QueuesAreNumbers, DispatcherAssumption DEF Case
<1>2. ASSUME Sentinel \in Case PROVE FALSE
  <2>1. Sentinel \in Nat \X Nat
    BY <1>1, <1>2
  <2>2. Len(Sentinel) = 2 /\ Len(Sentinel) = 3
    BY <2>1 DEF Sentinel
  <2> QED
    BY <2>2
<1>3. NoCase[1] \notin Def
  BY DispatcherAssumption DEF NoCase
<1> QED
  BY <1>1, <1>2, <1>3 DEF Name

LEMMA PipesTyped ==
    ASSUME Inv, Rest, NEW s \in Slot
    PROVE  /\ dispatch_pipe[s] \in Seq(Case \cup {Sentinel})
           /\ result_pipe[s] \in Seq(Case \X Result)
           /\ workers[s] \in Worker /\ workers[s].tests \in SUBSET Def
           /\ \A d, e \in workers[s].tests : d = e
           /\ proc[s] = "running" => running[s] \in Case
BY DEF Inv, SlotInv, Rest, Worker, RunningInv

(* What a slot keeps that no step touches.                                  *)
LEMMA ParcelFrame ==
    ASSUME NEW s \in Slot, ParcelOf(s), dispatch_pipe'[s] = dispatch_pipe[s],
           running'[s] = running[s], result_pipe'[s] = result_pipe[s],
           workers'[s].tests = workers[s].tests,
           proc'[s] = "running" => proc[s] = "running"
    PROVE  ParcelOf(s)'
<1>1. Unread(s)' = Unread(s) /\ Run(s)' \subseteq Run(s) /\ Answers(s)' = Answers(s)
  BY DEF Unread, Run, Answers
<1> QED
  BY <1>1 DEF ParcelOf, Parcel

LEMMA NoPlaces ==
    ASSUME NEW T, NEW q \in Seq(T), DOMAIN q = {}
    PROVE  q = <<>>
<1>1. Len(q) \in Nat /\ DOMAIN q = 1 .. Len(q)
  OBVIOUS
<1>2. Len(q) = 0
  BY <1>1
<1> QED
  BY <1>2, EmptySeq

(* A slot that owns no test has nothing of one anywhere.                    *)
LEMMA NothingOwned ==
    ASSUME Inv, Rest, NEW s \in Slot, ParcelOf(s), workers[s].tests = {}
    PROVE  /\ Parcel(s) = {} /\ result_pipe[s] = <<>>
           /\ \A i \in DOMAIN dispatch_pipe[s] : dispatch_pipe[s][i] = Sentinel
<1>1. Parcel(s) = {}
  BY DEF ParcelOf
<1>2. /\ dispatch_pipe[s] \in Seq(Case \cup {Sentinel})
      /\ result_pipe[s] \in Seq(Case \X Result)
  BY PipesTyped
<1>3. \A i \in DOMAIN result_pipe[s] : result_pipe[s][i][1] \in Answers(s)
  BY <1>2 DEF Answers
<1>4. DOMAIN result_pipe[s] = {}
  BY <1>1, <1>3 DEF Parcel
<1>5. \A i \in DOMAIN dispatch_pipe[s] :
          dispatch_pipe[s][i] # Sentinel => dispatch_pipe[s][i] \in Unread(s)
  BY <1>2 DEF Unread
<1>6. result_pipe[s] = <<>>
  BY <1>2, <1>4, NoPlaces
<1> QED
  BY <1>1, <1>5, <1>6 DEF Parcel

(* worker_start_test(): to a slot that owns nothing.                        *)
LEMMA StartSends ==
    ASSUME Inv, Rest, ParcelInv, StartTest, NEW s, s = target, Alive(s)
    PROVE  /\ s \in Slot /\ case \in Case /\ workers[s].tests = {}
           /\ workers'[s].tests = {case[1]}
           /\ Parcel(s) = {} /\ Parcel(s)' = {case}
           /\ Unread(s)' = {case}
           /\ ParcelOf(s)'
<1>1. s \in Slot /\ workers[s].tests = {} /\ case \in Case
  BY OpenOwnsNothing DEF StartTest
<1>2. /\ Parcel(s) = {} /\ result_pipe[s] = <<>>
      /\ \A i \in DOMAIN dispatch_pipe[s] : dispatch_pipe[s][i] = Sentinel
  BY <1>1, NothingOwned, ParcelsOfSlots
<1>3. /\ workers[s] \in Worker /\ dispatch_pipe[s] \in Seq(Case \cup {Sentinel})
  BY <1>1, PipesTyped
<1> DEFINE sent == IF Isolation = "process" THEN <<case, Sentinel>> ELSE <<case>>
           old == dispatch_pipe[s]
           new == dispatch_pipe'[s]
<1>4. /\ workers'[s].tests = {case[1]}
      /\ new = old \o sent
      /\ UNCHANGED <<proc, running, result_pipe>>
  <2>1. /\ workers \in [Slot -> Worker] /\ dispatch_pipe \in [Slot -> Seq(Case \cup {Sentinel})]
    BY DEF Inv, SlotInv
  <2>2. /\ workers' = [workers EXCEPT
               ![s].tests = @ \cup {case[1]},
               ![s].lifetime_test_count = @ + 1,
               ![s].recvd_sentinel = @ \/ Isolation = "process"]
        /\ dispatch_pipe' = [dispatch_pipe EXCEPT ![s] =
               @ \o (IF Isolation = "process" THEN <<case, Sentinel>> ELSE <<case>>)]
        /\ UNCHANGED <<proc, running, result_pipe>>
    BY DEF StartTest
  <2>3. workers'[s].tests = workers[s].tests \cup {case[1]}
    BY <1>1, <2>1, <2>2 DEF Worker
  <2>4. new = old \o sent
    BY <1>1, <2>1, <2>2
  <2> QED
    BY <1>1, <2>2, <2>3, <2>4
<1>5. case # Sentinel
  BY <1>1, CasesAreNoSentinels
<1>6. /\ sent \in Seq(Case \cup {Sentinel}) /\ Len(sent) \in {1, 2} /\ sent[1] = case
      /\ Len(sent) = 2 => sent[2] = Sentinel
  <2>1. CASE Isolation = "process"
    <3>1. sent = <<case, Sentinel>>
      BY <2>1
    <3>2. /\ <<case, Sentinel>> \in Seq(Case \cup {Sentinel}) /\ Len(<<case, Sentinel>>) = 2
          /\ <<case, Sentinel>>[1] = case /\ <<case, Sentinel>>[2] = Sentinel
      BY <1>1
    <3> HIDE DEF sent
    <3> QED
      BY <3>1, <3>2
  <2>2. CASE Isolation # "process"
    <3>1. sent = <<case>>
      BY <2>2
    <3>2. /\ <<case>> \in Seq(Case \cup {Sentinel}) /\ Len(<<case>>) = 1
          /\ <<case>>[1] = case
      BY <1>1
    <3> HIDE DEF sent
    <3>3. Len(sent) = 1 /\ sent[1] = case /\ sent \in Seq(Case \cup {Sentinel})
      BY <3>1, <3>2
    <3> QED
      BY <3>3
  <2> QED
    BY <2>1, <2>2
<1> HIDE DEF sent, old, new
<1>7. /\ new \in Seq(Case \cup {Sentinel})
      /\ Len(old) \in Nat /\ Len(new) = Len(old) + Len(sent)
      /\ \A i \in 1 .. Len(old) : new[i] = old[i]
      /\ \A i \in 1 .. Len(sent) : new[Len(old) + i] = sent[i]
  BY <1>3, <1>4, <1>6 DEF old
<1>8. \A i \in DOMAIN new : \/ new[i] = Sentinel
                            \/ i = Len(old) + 1 /\ new[i] = case
  <2> SUFFICES ASSUME NEW i \in DOMAIN new
               PROVE  new[i] = Sentinel \/ (i = Len(old) + 1 /\ new[i] = case)
    OBVIOUS
  <2>1. i \in 1 .. Len(old) \/ i = Len(old) + 1 \/ (i = Len(old) + 2 /\ Len(sent) = 2)
    <3>1. i \in 1 .. Len(new)
      BY <1>7
    <3>2. \A m \in Nat, k \in {1, 2} : \A j \in 1 .. m + k :
              j \in 1 .. m \/ j = m + 1 \/ (j = m + 2 /\ k = 2)
      OBVIOUS
    <3>3. i \in 1 .. Len(old) + Len(sent) /\ Len(sent) \in {1, 2} /\ Len(old) \in Nat
      BY <1>6, <1>7, <3>1
    <3> QED
      BY <3>2, <3>3
  <2>2. CASE i \in 1 .. Len(old)
    BY <1>2, <1>3, <1>7, <2>2 DEF old
  <2>3. CASE i = Len(old) + 1
    <3>1. 1 \in 1 .. Len(sent) /\ sent[1] = case
      BY <1>6
    <3>2. new[Len(old) + 1] = sent[1]
      BY <1>7, <3>1
    <3> QED
      BY <2>3, <3>1, <3>2
  <2>4. CASE i = Len(old) + 2 /\ Len(sent) = 2
    <3>1. 2 \in 1 .. Len(sent) /\ sent[2] = Sentinel
      BY <1>6, <2>4
    <3>2. new[Len(old) + 2] = sent[2]
      BY <1>7, <3>1
    <3> QED
      BY <2>4, <3>1, <3>2
  <2> QED
    BY <2>1, <2>2, <2>3, <2>4
<1>9. Len(old) + 1 \in DOMAIN new /\ new[Len(old) + 1] = case
  BY <1>6, <1>7
<1>10. Unread(s)' = {case}
  BY <1>1, <1>8, <1>9, CasesAreNoSentinels DEF Unread, new
<1>11. Run(s)' = {} /\ Answers(s)' = {}
  <2>1. Run(s)' = Run(s) /\ Answers(s)' = Answers(s)
    BY <1>4 DEF Run, Answers
  <2> QED
    BY <1>2, <2>1 DEF Parcel
<1>12. Parcel(s)' = {case}
  BY <1>10, <1>11 DEF Parcel
<1>13. \A i, j \in DOMAIN new : new[i] # Sentinel /\ new[j] # Sentinel => i = j
  BY <1>8
<1>14. result_pipe'[s] = <<>>
  BY <1>2, <1>4
<1>15. ParcelOf(s)'
  BY <1>4, <1>11, <1>12, <1>13, <1>14 DEF ParcelOf, new
<1> QED
  BY <1>1, <1>2, <1>4, <1>10, <1>12, <1>15

(* worker_loop() receives the only test there is in the pipe.               *)
LEMMA RecvRuns ==
    ASSUME Inv, Rest, ParcelInv, NEW s \in Slot, WorkerRecvTest(s)
    PROVE  ParcelOf(s)' /\ Parcel(s)' = Parcel(s)
<1> DEFINE old == dispatch_pipe[s]
           new == dispatch_pipe'[s]
           c == Head(old)
<1>1. /\ old \in Seq(Case \cup {Sentinel}) /\ old # <<>> /\ c # Sentinel
      /\ proc[s] \in {"fresh", "served"} /\ proc'[s] = "running" /\ running'[s] = c
      /\ new = Tail(old)
      /\ UNCHANGED <<workers, result_pipe>>
  BY PipesTyped DEF WorkerRecvTest, Inv, SlotInv, Rest, books, processes
<1>2. ParcelOf(s)
  BY ParcelsOfSlots
<1>3. /\ c \in Case /\ c = old[1] /\ 1 \in DOMAIN old
      /\ Len(new) = Len(old) - 1 /\ Len(old) \in Nat /\ Len(new) \in Nat
      /\ \A i \in DOMAIN new : new[i] = old[i + 1] /\ i + 1 \in DOMAIN old /\ i + 1 # 1
  BY <1>1
<1>4. \A i \in DOMAIN new : new[i] = Sentinel
  BY <1>1, <1>2, <1>3 DEF ParcelOf
<1>5. \A i \in DOMAIN old : old[i] = Sentinel \/ old[i] = c
  BY <1>1, <1>2, <1>3 DEF ParcelOf
<1> HIDE DEF c, old, new
<1>6. Unread(s) = {c} /\ Unread(s)' = {}
  BY <1>3, <1>4, <1>5, CasesAreNoSentinels DEF Unread, old, new
<1>7. Run(s) = {} /\ Run(s)' = {c}
  BY <1>1, <1>3 DEF Run
<1>8. Answers(s) = {} /\ Answers(s)' = {}
  <2>1. Answers(s) = {}
    BY <1>2, <1>6 DEF ParcelOf
  <2> QED
    BY <1>1, <2>1 DEF Answers
<1>9. Parcel(s)' = Parcel(s)
  BY <1>6, <1>7, <1>8 DEF Parcel
<1>10. ParcelOf(s)'
  <2>1. \A i, j \in DOMAIN new : new[i] # Sentinel /\ new[j] # Sentinel => i = j
    BY <1>4
  <2> QED
    BY <1>1, <1>2, <1>6, <1>8, <1>9, <2>1 DEF ParcelOf, new
<1> QED
  BY <1>9, <1>10

(* worker_send_packet(): what was run is the answer, and the only one.      *)
LEMMA SendAnswers ==
    ASSUME Inv, Rest, ParcelInv, NEW s \in Slot, WorkerSendResult(s)
    PROVE  ParcelOf(s)' /\ Parcel(s)' = Parcel(s) /\ Run(s) # {}
<1> DEFINE c == running[s]
<1>1. PICK r \in {PASS, SKIP, FAIL} :
          result_pipe' = [result_pipe EXCEPT ![s] = Append(@, <<c, r>>)]
  BY DEF WorkerSendResult
<1>2. /\ proc[s] = "running" /\ proc'[s] = "served" /\ c \in Case
      /\ result_pipe[s] \in Seq(Case \X Result)
      /\ UNCHANGED <<workers, dispatch_pipe>>
  BY PipesTyped DEF WorkerSendResult, Inv, SlotInv, books, processes
<1>3. ParcelOf(s)
  BY ParcelsOfSlots
<1>4. Run(s) = {c} /\ Run(s)' = {}
  BY <1>2 DEF Run
<1>5. Unread(s) = {} /\ Answers(s) = {}
  BY <1>3, <1>4 DEF ParcelOf
<1>6. result_pipe[s] = <<>>
  <2>1. \A i \in DOMAIN result_pipe[s] : result_pipe[s][i][1] \in Answers(s)
    BY <1>2 DEF Answers
  <2>2. DOMAIN result_pipe[s] = {}
    BY <1>5, <2>1
  <2> QED
    BY <1>2, <2>2, NoPlaces
<1>7. result_pipe'[s] = <<<<c, r>>>>
  <2>1. result_pipe'[s] = Append(result_pipe[s], <<c, r>>)
    BY <1>1 DEF Rest
  <2> QED
    BY <1>6, <2>1
<1> HIDE DEF c
<1>8. Answers(s)' = {c} /\ Unread(s)' = {}
  <2>1. Unread(s)' = Unread(s)
    BY <1>2 DEF Unread
  <2>2. \A i \in DOMAIN result_pipe'[s] : result_pipe'[s][i][1] = c
    BY <1>7
  <2>3. 1 \in DOMAIN result_pipe'[s]
    BY <1>7
  <2> QED
    BY <1>2, <1>5, <2>1, <2>2, <2>3 DEF Answers
<1>9. Parcel(s)' = Parcel(s)
  BY <1>4, <1>5, <1>8 DEF Parcel
<1>10. r # LOST
  BY DEF PASS, SKIP, FAIL, LOST
<1>11. /\ Len(result_pipe'[s]) <= 1
       /\ \A i \in DOMAIN result_pipe'[s] : result_pipe'[s][i][2] # LOST
  BY <1>7, <1>10
<1>12. ParcelOf(s)'
  BY <1>2, <1>3, <1>4, <1>8, <1>9, <1>11 DEF ParcelOf
<1> QED
  BY <1>4, <1>9, <1>12

(* An answer is all there is of the one test that its slot owns.            *)
LEMMA AnswerOwned ==
    ASSUME Inv, Rest, ParcelInv, NEW s \in Slot, result_pipe[s] # <<>>
    PROVE  /\ result_pipe[s] = <<result_pipe[s][1]>>
           /\ result_pipe[s][1] \in Case \X Result /\ result_pipe[s][1][1] \in Case
           /\ result_pipe[s][1][2] # LOST
           /\ workers[s].tests = {result_pipe[s][1][1][1]}
           /\ Answered(s) = {result_pipe[s][1][1][1]}
           /\ Unread(s) = {} /\ Run(s) = {} /\ Parcel(s) = {result_pipe[s][1][1]}
<1> DEFINE a == result_pipe[s][1]
<1>1. /\ result_pipe[s] \in Seq(Case \X Result) /\ \A d, e \in workers[s].tests : d = e
      /\ ParcelOf(s)
  BY PipesTyped, ParcelsOfSlots
<1>2. Len(result_pipe[s]) = 1
  <2>1. Len(result_pipe[s]) \in Nat \ {0}
    BY <1>1, EmptySeq
  <2>2. Len(result_pipe[s]) <= 1
    BY <1>1 DEF ParcelOf
  <2>3. \A n \in Nat \ {0} : n <= 1 => n = 1
    OBVIOUS
  <2> QED
    BY <2>1, <2>2, <2>3
<1>3. DOMAIN result_pipe[s] = {1} /\ a \in Case \X Result /\ a[1] \in Case
  BY <1>1, <1>2
<1>4. result_pipe[s] = <<a>>
  BY <1>1, <1>2
<1>5. Answers(s) = {a[1]} /\ Answered(s) = {a[1][1]}
  BY <1>3 DEF Answers, Answered
<1>6. Unread(s) = {} /\ Run(s) = {}
  BY <1>1, <1>5 DEF ParcelOf
<1>7. a[1][1] \in workers[s].tests /\ a[2] # LOST
  BY <1>1, <1>3, <1>5 DEF ParcelOf, Parcel
<1>8. workers[s].tests = {a[1][1]}
  BY <1>1, <1>7
<1> QED
  BY <1>3, <1>4, <1>5, <1>6, <1>7, <1>8 DEF Parcel

(* worker_drain_result_pipe(): the answer goes, and the test with it.       *)
LEMMA DrainTakes ==
    ASSUME Inv, Rest, ParcelInv, NEW s \in Slot, DrainResultPipe(s)
    PROVE  /\ ParcelOf(s)'
           /\ result_pipe[s] = <<>> => /\ workers'[s].tests = workers[s].tests
                                       /\ Parcel(s)' = Parcel(s)
           /\ result_pipe[s] # <<>> => workers'[s].tests = {} /\ Parcel(s)' = {}
<1>1. ParcelOf(s)
  BY ParcelsOfSlots
<1>2. /\ workers'[s].tests = workers[s].tests \ Answered(s) /\ result_pipe'[s] = <<>>
      /\ UNCHANGED <<proc, running, dispatch_pipe>>
  <2>1. workers' = [workers EXCEPT ![s].tests = @ \ Answered(s)] /\ workers \in [Slot -> Worker]
    BY DEF DrainResultPipe, Inv, SlotInv
  <2>2. workers'[s].tests = workers[s].tests \ Answered(s)
    BY <2>1 DEF Worker
  <2> QED
    BY <2>2 DEF DrainResultPipe, Rest
<1>3. Unread(s)' = Unread(s) /\ Run(s)' = Run(s) /\ Answers(s)' = {}
  BY <1>2 DEF Unread, Run, Answers
<1>4. CASE result_pipe[s] = <<>>
  <2>1. Answered(s) = {} /\ Answers(s) = {}
    BY <1>4 DEF Answered, Answers
  <2>2. workers'[s].tests = workers[s].tests /\ Parcel(s)' = Parcel(s)
    BY <1>2, <1>3, <2>1 DEF Parcel
  <2>3. result_pipe'[s] = result_pipe[s]
    BY <1>2, <1>4
  <2> QED
    BY <1>1, <1>2, <1>4, <2>2, <2>3, ParcelFrame
<1>5. CASE result_pipe[s] # <<>>
  <2>1. /\ Unread(s) = {} /\ Run(s) = {} /\ workers'[s].tests = {}
    BY <1>2, <1>5, AnswerOwned
  <2>2. Parcel(s)' = {}
    BY <1>3, <2>1 DEF Parcel
  <2>3. Len(result_pipe'[s]) <= 1 /\ DOMAIN result_pipe'[s] = {}
    BY <1>2
  <2>4. ParcelOf(s)'
    BY <1>1, <1>2, <1>3, <2>1, <2>2, <2>3 DEF ParcelOf
  <2> QED
    BY <1>5, <2>1, <2>2, <2>4
<1> QED
  BY <1>4, <1>5

(* dispatcher_cleanup_dead_worker(): nothing is left of it.                 *)
LEMMA ReapClears ==
    ASSUME Inv, Rest, ParcelInv, ReapWorkers, NEW s \in Slot
    PROVE  /\ ParcelOf(s)'
           /\ proc[s] = "zombie" => Parcel(s)' = {} /\ workers'[s] = NoWorker
           /\ proc[s] # "zombie" => Parcel(s)' = Parcel(s) /\ workers'[s] = workers[s]
<1>1. ParcelOf(s)
  BY ParcelsOfSlots
<1>2. CASE proc[s] = "zombie"
  <2>1. /\ workers'[s] = NoWorker /\ proc'[s] = "none"
        /\ dispatch_pipe'[s] = <<>> /\ result_pipe'[s] = <<>>
    BY <1>2 DEF ReapWorkers
  <2>2. Unread(s)' = {} /\ Run(s)' = {} /\ Answers(s)' = {}
    BY <2>1 DEF Unread, Run, Answers
  <2>3. Len(result_pipe'[s]) <= 1 /\ DOMAIN result_pipe'[s] = {} /\ DOMAIN dispatch_pipe'[s] = {}
    BY <2>1
  <2> QED
    BY <1>2, <2>1, <2>2, <2>3 DEF ParcelOf, Parcel
<1>3. CASE proc[s] # "zombie"
  <2>1. /\ workers'[s] = workers[s] /\ proc'[s] = proc[s]
        /\ dispatch_pipe'[s] = dispatch_pipe[s] /\ result_pipe'[s] = result_pipe[s]
        /\ running' = running
    BY <1>3 DEF ReapWorkers
  <2>2. Parcel(s)' = Parcel(s)
    BY <2>1 DEF Parcel, Unread, Run, Answers
  <2> QED
    BY <1>1, <1>3, <2>1, <2>2, ParcelFrame
<1> QED
  BY <1>2, <1>3

(* A sentinel is no case.                                                   *)
LEMMA SentinelsAreNoParcels ==
    ASSUME Inv, Rest, ParcelInv, SendSentinels, NEW s \in Slot
    PROVE  ParcelOf(s)' /\ Parcel(s)' = Parcel(s) /\ workers'[s].tests = workers[s].tests
<1>1. /\ ParcelOf(s) /\ dispatch_pipe[s] \in Seq(Case \cup {Sentinel})
      /\ workers[s] \in Worker
  BY PipesTyped, ParcelsOfSlots
<1>2. UNCHANGED <<proc, running, result_pipe>> /\ workers'[s].tests = workers[s].tests
  BY <1>1 DEF SendSentinels, Worker
<1>3. dispatch_pipe'[s] = dispatch_pipe[s] \/ dispatch_pipe'[s] = Append(dispatch_pipe[s], Sentinel)
  BY DEF SendSentinels, WithSentinel
<1>4. /\ \A i \in DOMAIN dispatch_pipe'[s] :
            \/ dispatch_pipe'[s][i] = Sentinel
            \/ i \in DOMAIN dispatch_pipe[s] /\ dispatch_pipe'[s][i] = dispatch_pipe[s][i]
      /\ \A i \in DOMAIN dispatch_pipe[s] :
            i \in DOMAIN dispatch_pipe'[s] /\ dispatch_pipe'[s][i] = dispatch_pipe[s][i]
  BY <1>1, <1>3
<1>5. Unread(s)' = Unread(s)
  BY <1>4, CasesAreNoSentinels DEF Unread
<1>6. Run(s)' = Run(s) /\ Answers(s)' = Answers(s)
  BY <1>2 DEF Run, Answers
<1>7. \A i, j \in DOMAIN dispatch_pipe'[s] :
          dispatch_pipe'[s][i] # Sentinel /\ dispatch_pipe'[s][j] # Sentinel => i = j
  BY <1>1, <1>4 DEF ParcelOf
<1> QED
  BY <1>1, <1>2, <1>5, <1>6, <1>7 DEF ParcelOf, Parcel

(* The steps in which no test changes hands.                                *)
Quiet ==
    \/ GatherVulkanInfo \/ ReportSkip \/ RunInProcess \/ DispatchTest
    \/ EndDispatchPhase \/ AwaitRoom \/ FindOpenWorker \/ ForkWorker \/ ForkFails
    \/ WorkerSetUpFails \/ AwaitWorker
    \/ YieldUninterrupted \/ YieldKillsWorkers \/ WakeFromNap \/ HaltTestRun
    \/ NothingToCollect \/ SendSentinels \/ AwaitWorkers
    \/ \E s \in Slot :
          WorkerStep(s) \/ WorkerSendResult(s) \/ WorkerCrashes(s) \/ TestExpires(s)
    \/ Interrupt \/ UNCHANGED vars

LEMMA StepsAreQuiet ==
    [Next]_vars => \/ Quiet \/ StartTest \/ ReapWorkers
                   \/ \E s \in Slot : DrainResultPipe(s)
BY Zenon DEF Next, DispatcherStep, Finished, Quiet

LEMMA QuietKeepsParcels ==
    ASSUME Inv, Rest, ParcelInv, Quiet, NEW s \in Slot
    PROVE  /\ ParcelOf(s)' /\ workers'[s].tests = workers[s].tests
           /\ Parcel(s)' \subseteq Parcel(s)
           /\ Parcel(s)' = Parcel(s) \/ (proc'[s] = "zombie" /\ Run(s) # {} /\ proc[s] = "running")
<1> USE DEF control, books, flags, processes, user
<1>0. ParcelOf(s) /\ proc \in [Slot -> ProcState]
  BY ParcelsOfSlots DEF Inv, SlotInv
<1>1. CASE UNCHANGED <<workers, proc, running, dispatch_pipe, result_pipe>>
  <2>1. Parcel(s)' = Parcel(s)
    BY <1>1 DEF Parcel, Unread, Run, Answers
  <2> QED
    BY <1>0, <1>1, <2>1, ParcelFrame
<1>2. CASE ForkWorker \/ WorkerSetUpFails
  <2> DEFINE t == UnbornSlot
  <2>1. /\ workers' = [workers EXCEPT ![t] = [NoWorker EXCEPT !.pid = TRUE]]
        /\ proc' = [proc EXCEPT ![t] = "starting"]
        /\ UNCHANGED <<running, dispatch_pipe, result_pipe>>
    BY <1>2 DEF ForkWorker, WorkerSetUpFails, Fork
  <2>2. t \in Slot \ Connected
    BY <1>2, ForkFindsSlot
  <2> HIDE DEF t
  <2>3. workers[t].tests = {} /\ workers'[t].tests = {}
    BY <2>1, <2>2 DEF Inv, SlotInv, Connected, NoWorker
  <2>4. workers'[s].tests = workers[s].tests /\ (proc'[s] = "running" => proc[s] = "running")
    BY <1>0, <2>1, <2>2, <2>3 DEF Inv, SlotInv
  <2>5. Run(s)' = Run(s)
    <3>1. CASE s = t
      <4>1. proc[t] # "running"
        BY <2>2 DEF Inv, SlotInv, Connected
      <4> QED
        BY <1>0, <2>1, <2>2, <3>1, <4>1 DEF Run
    <3>2. CASE s # t
      BY <1>0, <2>1, <3>2 DEF Run
    <3> QED
      BY <3>1, <3>2
  <2>6. Parcel(s)' = Parcel(s)
    BY <2>1, <2>5 DEF Parcel, Unread, Answers
  <2> QED
    BY <1>0, <2>1, <2>4, <2>6, ParcelFrame
<1>3. ASSUME NEW t \in Slot,
             WorkerSetsUp(t) \/ WorkerRecvSentinel(t) \/ WorkerKilled(t) \/ WorkerCrashes(t)
      PROVE  /\ ParcelOf(s)' /\ workers'[s].tests = workers[s].tests
             /\ Parcel(s)' \subseteq Parcel(s)
             /\ Parcel(s)' = Parcel(s) \/ (proc'[s] = "zombie" /\ Run(s) # {} /\ proc[s] = "running")
  <2>1. /\ UNCHANGED <<workers, running, dispatch_pipe, result_pipe>>
        /\ \/ proc' = [proc EXCEPT ![t] = "zombie"]
           \/ proc' = [proc EXCEPT ![t] = "fresh"] /\ proc[t] = "starting"
    BY <1>3 DEF WorkerSetsUp, WorkerRecvSentinel, WorkerKilled, WorkerCrashes, Die
  <2>2. /\ proc'[s] = "running" => proc[s] = "running"
        /\ proc[s] = "running" => proc'[s] \in {"running", "zombie"}
    BY <1>0, <2>1
  <2>3. /\ Unread(s)' = Unread(s) /\ Answers(s)' = Answers(s) /\ Run(s)' \subseteq Run(s)
        /\ Run(s)' = Run(s) \/ (proc'[s] = "zombie" /\ Run(s) # {} /\ proc[s] = "running")
    BY <2>1, <2>2 DEF Unread, Answers, Run
  <2> QED
    BY <1>0, <2>1, <2>2, <2>3, ParcelFrame DEF Parcel
<1>4. ASSUME NEW t \in Slot, WorkerRecvTest(t) \/ WorkerSendResult(t)
      PROVE  ParcelOf(s)' /\ Parcel(s)' = Parcel(s) /\ workers'[s].tests = workers[s].tests
  <2>1. CASE s = t
    BY <1>4, <2>1, RecvRuns, SendAnswers DEF WorkerRecvTest, WorkerSendResult
  <2>2. CASE s # t
    <3>1. /\ workers' = workers /\ proc'[s] = proc[s] /\ running'[s] = running[s]
          /\ dispatch_pipe'[s] = dispatch_pipe[s] /\ result_pipe'[s] = result_pipe[s]
      BY <1>4, <2>2 DEF WorkerRecvTest, WorkerSendResult, Inv, SlotInv, Rest
    <3>2. Parcel(s)' = Parcel(s)
      BY <3>1 DEF Parcel, Unread, Run, Answers
    <3> QED
      BY <1>0, <3>1, <3>2, ParcelFrame
  <2> QED
    BY <2>1, <2>2
<1>5. CASE \E t \in Slot : WorkerStep(t) \/ WorkerSendResult(t) \/ WorkerCrashes(t)
  BY <1>3, <1>4, <1>5 DEF WorkerStep
<1>6. CASE SendSentinels
  BY <1>6, SentinelsAreNoParcels
<1>7. CASE \/ GatherVulkanInfo \/ ReportSkip \/ RunInProcess \/ DispatchTest
           \/ EndDispatchPhase \/ AwaitRoom \/ FindOpenWorker \/ ForkFails
           \/ AwaitWorker
           \/ YieldUninterrupted \/ YieldKillsWorkers \/ WakeFromNap \/ HaltTestRun
           \/ NothingToCollect \/ AwaitWorkers
           \/ Interrupt \/ (\E t \in Slot : TestExpires(t)) \/ UNCHANGED vars
  <2>1. UNCHANGED <<workers, proc, running, dispatch_pipe, result_pipe>>
    BY <1>7 DEF GatherVulkanInfo, ReportSkip, RunInProcess, DispatchTest,
       EndDispatchPhase, AwaitRoom, FindOpenWorker, ForkFails, AwaitWorker,
       YieldUninterrupted, YieldKillsWorkers, WakeFromNap, HaltTestRun,
       NothingToCollect, AwaitWorkers, Interrupt, TestExpires, vars
  <2> QED
    BY <1>1, <2>1
<1> QED
  BY <1>2, <1>5, <1>6, <1>7 DEF Quiet

LEMMA ParcelNext ==
    ASSUME Inv, Rest, ParcelInv, [Next]_vars
    PROVE  ParcelInv'
<1> SUFFICES ASSUME NEW s \in Slot PROVE ParcelOf(s)'
  BY DEF ParcelInv, ParcelOf
<1>0. ParcelOf(s)
  BY ParcelsOfSlots
<1>1. CASE Quiet
  BY <1>1, QuietKeepsParcels
<1>2. CASE StartTest
  <2>1. CASE s = target /\ Alive(s)
    BY <1>2, <2>1, StartSends
  <2>2. CASE s # target \/ ~Alive(s)
    <3>1. /\ dispatch_pipe'[s] = dispatch_pipe[s] /\ workers'[s].tests = workers[s].tests
          /\ UNCHANGED <<proc, running, result_pipe>>
      BY <1>2, <2>2 DEF StartTest, Inv, SlotInv
    <3> QED
      BY <1>0, <3>1, ParcelFrame
  <2> QED
    BY <2>1, <2>2
<1>3. CASE ReapWorkers
  BY <1>3, ReapClears
<1>4. ASSUME NEW t \in Slot, DrainResultPipe(t) PROVE ParcelOf(s)'
  <2>1. CASE s = t
    BY <1>4, <2>1, DrainTakes
  <2>2. CASE s # t
    <3>1. /\ workers'[s] = workers[s] /\ result_pipe'[s] = result_pipe[s]
          /\ UNCHANGED <<proc, running, dispatch_pipe>>
      BY <1>4, <2>2 DEF DrainResultPipe, Inv, SlotInv, Rest
    <3> QED
      BY <1>0, <3>1, ParcelFrame
  <2> QED
    BY <2>1, <2>2
<1> QED
  BY <1>1, <1>2, <1>3, <1>4, StepsAreQuiet

LEMMA ParcelInitially == Init => ParcelInv
BY DEF Init, ParcelInv, Parcel, Unread, Run, Answers

-----------------------------------------------------------------------------
(* What is reported of the slots that the dispatcher hears from.            *)

(* The test that a slot owns, and what is reported of it: its answer, or    *)
(* that it is lost.                                                         *)
Owned(t) == CHOOSE d \in workers[t].tests : TRUE
Verdict(t) == IF result_pipe[t] # <<>> THEN result_pipe[t][1] ELSE <<<<Owned(t), 0>>, LOST>>

(* Of the slots X, those of whose tests something is reported under some    *)
(* names when the tests of the slots in lost are given up.                  *)
Heard(X, lost, names) ==
    {t \in X : /\ result_pipe[t] # <<>> \/ (t \in lost /\ workers[t].tests # {})
               /\ Verdict(t)[1] \in names}
Lost(lost, n) == {t \in lost : n[1] \in workers[t].tests}

(* The slots whose answer is result r of case n.                            *)
Saying(X, n, r) == {t \in X : result_pipe[t] # <<>> /\ result_pipe[t][1] = <<n, r>>}

(* The reports grow by the answers of the slots X and by the tests that are *)
(* given up with the slots in lost.                                         *)
Hears(X, lost) ==
    \A n \in Name, r \in Result :
        reports'[n][r] = reports[n][r] + PacketsOf(X, n, r)
                         + IF r = LOST /\ n[2] = 0 THEN Cardinality(Lost(lost, n)) ELSE 0

LEMMA PacketsAreSlots ==
    ASSUME Inv, Rest, ParcelInv, NEW X \in SUBSET Slot, NEW n, NEW r
    PROVE  PacketsOf(X, n, r) = Cardinality(Saying(X, n, r))
<1> DEFINE S == {t \in X : result_pipe[t] # <<>> /\ result_pipe[t][1] = <<n, r>>}
           places(t) == {i \in DOMAIN result_pipe[t] : result_pipe[t][i] = <<n, r>>}
<1>1. ASSUME NEW t \in X
      PROVE  places(t) = IF t \in S THEN {1} ELSE {}
  <2>1. result_pipe[t] \in Seq(Case \X Result) /\ Len(result_pipe[t]) <= 1
    BY PipesTyped, ParcelsOfSlots DEF ParcelOf
  <2>2. result_pipe[t] = <<>> \/ DOMAIN result_pipe[t] = {1}
    <3>1. result_pipe[t] # <<>> => Len(result_pipe[t]) \in Nat \ {0}
      BY <2>1, EmptySeq
    <3>2. \A m \in Nat \ {0} : m <= 1 => m = 1
      OBVIOUS
    <3>3. result_pipe[t] # <<>> => Len(result_pipe[t]) = 1
      BY <2>1, <3>1, <3>2
    <3> QED
      BY <2>1, <3>3
  <2> QED
    BY <2>2
<1> HIDE DEF S, places
<1>2. UNION {{t} \X places(t) : t \in X} = S \X {1}
  <2>1. S \subseteq X
    BY DEF S
  <2> QED
    BY <1>1, <2>1
<1>3. IsFiniteSet(S)
  BY DispatcherAssumption, FS_Subset DEF S
<1>4. Cardinality(S \X {1}) = Cardinality(S) * 1 /\ Cardinality(S) \in Nat
  <2>1. IsFiniteSet({1}) /\ Cardinality({1}) = 1
    BY FS_Singleton
  <2>2. Cardinality(S \X {1}) = Cardinality(S) * Cardinality({1})
    BY <1>3, <2>1, FS_Product
  <2>3. Cardinality(S) \in Nat
    BY <1>3, FS_CardinalityType
  <2> QED
    BY <2>1, <2>2, <2>3
<1>5. PacketsOf(X, n, r) = Cardinality(S \X {1})
  BY <1>2 DEF PacketsOf, places
<1> QED
  <2>1. PacketsOf(X, n, r) = Cardinality(S)
    BY <1>4, <1>5
  <2> QED
    BY <2>1 DEF S, Saying

LEMMA NamesArePairs == \A n \in Name : n = <<n[1], n[2]>> /\ n[1] \in Def /\ n[2] \in Nat
BY CasesAreNoSentinels DEF Name

LEMMA HeardIsReported ==
    ASSUME Inv, Rest, ParcelInv, Rest', NEW X \in SUBSET Slot, NEW lost \in SUBSET X,
           \A t \in lost : result_pipe[t] = <<>>, Hears(X, lost),
           NEW names \in SUBSET Name
    PROVE  /\ IsFiniteSet(Heard(X, lost, names))
           /\ Cardinality(MadeOf(reports', names, Result))
                  = Cardinality(MadeOf(reports, names, Result)) + Cardinality(Heard(X, lost, names))
<1> DEFINE A == Heard(X, lost, names)
           verdict == [t \in A |-> Verdict(t)]
<1>1. IsFiniteSet(A)
  BY DispatcherAssumption, FS_Subset DEF Heard
<1>2. ASSUME NEW t \in X
      PROVE  /\ result_pipe[t] # <<>> => /\ Verdict(t) \in Case \X Result
                                         /\ Verdict(t)[2] # LOST /\ Verdict(t) = result_pipe[t][1]
             /\ result_pipe[t] = <<>> => Verdict(t) = <<<<Owned(t), 0>>, LOST>>
             /\ \A d, e \in workers[t].tests : d = e
             /\ \A d \in Def : d \in workers[t].tests <=> workers[t].tests # {} /\ Owned(t) = d
  <2>1. /\ result_pipe[t] \in Seq(Case \X Result) /\ \A d, e \in workers[t].tests : d = e
        /\ ParcelOf(t) /\ workers[t].tests \in SUBSET Def
    BY PipesTyped, ParcelsOfSlots
  <2>2. result_pipe[t] # <<>> => 1 \in DOMAIN result_pipe[t]
    <3>1. result_pipe[t] # <<>> => Len(result_pipe[t]) \in Nat \ {0}
      BY <2>1, EmptySeq
    <3> QED
      BY <2>1, <3>1
  <2>3. result_pipe[t] # <<>> => result_pipe[t][1] \in Case \X Result /\ result_pipe[t][1][2] # LOST
    BY <2>1, <2>2 DEF ParcelOf
  <2>4. workers[t].tests # {} => Owned(t) \in workers[t].tests
    BY DEF Owned
  <2> QED
    BY <2>1, <2>3, <2>4 DEF Verdict
<1>3. verdict \in [A -> names \X Result]
  <2>1. ASSUME NEW t \in A PROVE Verdict(t) \in names \X Result
    <3>1. t \in X /\ Verdict(t)[1] \in names
      BY DEF Heard
    <3>2. Verdict(t) = <<Verdict(t)[1], Verdict(t)[2]>> /\ Verdict(t)[2] \in Result
      BY <1>2, <3>1, ResultsAreTyped
    <3> QED
      BY <3>1, <3>2
  <2> QED
    BY <2>1
<1>4. ASSUME NEW n \in names, NEW r \in Result
      PROVE  reports'[n][r] = reports[n][r] + Cardinality(Column(A, verdict, <<n, r>>))
  <2> DEFINE col == {t \in A : Verdict(t) = <<n, r>>}
             packets == Saying(X, n, r)
  <2>1. Column(A, verdict, <<n, r>>) = col
    BY DEF Column
  <2>2. n \in Name /\ n = <<n[1], n[2]>> /\ n[1] \in Def
    BY NamesArePairs
  <2>3. PacketsOf(X, n, r) = Cardinality(packets)
    BY PacketsAreSlots
  <2>4. reports[n][r] \in Nat
    BY <2>2 DEF Rest
  <2>5. reports'[n][r] = reports[n][r] + Cardinality(packets)
                         + IF r = LOST /\ n[2] = 0 THEN Cardinality(Lost(lost, n)) ELSE 0
    BY <2>2, <2>3 DEF Hears
  <2>6. Cardinality(packets) \in Nat /\ Cardinality(Lost(lost, n)) \in Nat
    <3>1. IsFiniteSet(packets)
      BY DispatcherAssumption, FS_Subset DEF Saying
    <3>2. IsFiniteSet(Lost(lost, n))
      BY DispatcherAssumption, FS_Subset DEF Lost
    <3> QED
      BY <3>1, <3>2, FS_CardinalityType
  <2>7. CASE r # LOST
    <3>1. col = packets
      BY <1>2, <2>7 DEF Heard, Saying
    <3> HIDE DEF col, packets
    <3> QED
      BY <2>1, <2>4, <2>5, <2>6, <2>7, <3>1
  <2>8. CASE r = LOST
    <3>1. packets = {}
      BY <1>2, <2>8 DEF Saying
    <3>2. col = IF n[2] = 0 THEN Lost(lost, n) ELSE {}
      <4>1. ASSUME NEW t \in X
            PROVE  t \in col <=> t \in lost /\ n[1] \in workers[t].tests /\ n[2] = 0
        BY <1>2, <2>2, <2>8 DEF Heard
      <4>2. col \subseteq X
        BY DEF Heard
      <4> HIDE DEF col
      <4> QED
        BY <4>1, <4>2 DEF Lost
    <3>3. Cardinality({}) = 0
      BY FS_EmptySet
    <3> HIDE DEF col, packets
    <3>4. CASE n[2] = 0
      BY <2>1, <2>4, <2>5, <2>6, <2>8, <3>1, <3>2, <3>3, <3>4
    <3>5. CASE n[2] # 0
      <4>1. reports'[n][r] = reports[n][r] + Cardinality(packets) + 0
        BY <2>5, <3>5
      <4>2. Cardinality(packets) = 0 /\ Cardinality(col) = 0
        BY <3>1, <3>2, <3>3, <3>5
      <4> QED
        BY <2>1, <2>4, <4>1, <4>2
    <3> QED
      BY <3>4, <3>5
  <2> QED
    BY <2>7, <2>8
<1> HIDE DEF A, verdict
<1>5. Adds(reports, reports', names, A, verdict)
  BY <1>1, <1>3, <1>4 DEF Adds, Rest
<1> QED
  BY <1>1, <1>5, MadeGrows DEF A

(* The two steps that hear from slots.                                      *)
Dead == {t \in Slot : proc[t] = "zombie"}
Mute == {t \in Dead : result_pipe[t] = <<>>}

LEMMA DrainHears ==
    ASSUME Rest, NEW s \in Slot, DrainResultPipe(s)
    PROVE  Hears({s}, {})
<1> DEFINE X == {s}
           lost == {}
<1> SUFFICES ASSUME NEW n \in Name, NEW r \in Result
             PROVE  reports'[n][r] = reports[n][r] + PacketsOf(X, n, r)
                        + IF r = LOST /\ n[2] = 0 THEN Cardinality(Lost(lost, n)) ELSE 0
  BY DEF Hears
<1>1. reports'[n][r] = reports[n][r] + PacketsOf(X, n, r)
  BY DEF DrainResultPipe
<1>2. Lost(lost, n) = {} /\ Cardinality({}) = 0
  BY FS_EmptySet DEF Lost
<1>3. reports[n][r] \in Nat
  BY DEF Rest
<1>4. X \in SUBSET Slot
  OBVIOUS
<1> HIDE DEF X, lost
<1>5. PacketsOf(X, n, r) \in Nat
  BY <1>4, PacketsCounted DEF Rest
<1> QED
  BY <1>1, <1>2, <1>3, <1>5

LEMMA ReapHears ==
    ASSUME Inv, Rest, ParcelInv, ReapWorkers
    PROVE  Hears(Dead, Mute)
<1> SUFFICES ASSUME NEW n \in Name, NEW r \in Result
             PROVE  reports'[n][r] = reports[n][r] + PacketsOf(Dead, n, r)
                        + IF r = LOST /\ n[2] = 0 THEN Cardinality(Lost(Mute, n)) ELSE 0
  BY DEF Hears
<1>1. reports'[n][r] = reports[n][r] + PacketsOf(Dead, n, r)
          + IF r = LOST /\ n[2] = 0 THEN Cardinality({s \in Dead : n[1] \in LostBy(s)}) ELSE 0
  BY DEF ReapWorkers, Dead
<1>2. ASSUME NEW t \in Dead
      PROVE  n[1] \in LostBy(t) <=> t \in Mute /\ n[1] \in workers[t].tests
  <2>1. CASE result_pipe[t] = <<>>
    <3>1. Answered(t) = {}
      BY <2>1 DEF Answered
    <3> QED
      BY <2>1, <3>1 DEF LostBy, Mute
  <2>2. CASE result_pipe[t] # <<>>
    <3>1. workers[t].tests = Answered(t)
      BY <2>2, AnswerOwned DEF Dead
    <3> QED
      BY <2>2, <3>1 DEF LostBy, Mute
  <2> QED
    BY <2>1, <2>2
<1>3. {s \in Dead : n[1] \in LostBy(s)} = Lost(Mute, n)
  BY <1>2 DEF Lost, Mute
<1> QED
  BY <1>1, <1>3

LEMMA DrainReports ==
    ASSUME Inv, Rest, ParcelInv, Rest', NEW s \in Slot, DrainResultPipe(s),
           NEW names \in SUBSET Name
    PROVE  /\ IsFiniteSet(Heard({s}, {}, names))
           /\ Cardinality(MadeOf(reports', names, Result))
                  = Cardinality(MadeOf(reports, names, Result)) + Cardinality(Heard({s}, {}, names))
<1> DEFINE X == {s}
           lost == {}
<1>1. X \in SUBSET Slot /\ lost \in SUBSET X /\ \A t \in lost : result_pipe[t] = <<>>
  OBVIOUS
<1>2. Hears(X, lost)
  BY DrainHears
<1> HIDE DEF X, lost
<1>3. /\ IsFiniteSet(Heard(X, lost, names))
      /\ Cardinality(MadeOf(reports', names, Result))
             = Cardinality(MadeOf(reports, names, Result)) + Cardinality(Heard(X, lost, names))
  BY <1>1, <1>2, HeardIsReported
<1> QED
  BY <1>3 DEF X, lost

LEMMA ReapReports ==
    ASSUME Inv, Rest, ParcelInv, Rest', ReapWorkers, NEW names \in SUBSET Name
    PROVE  /\ IsFiniteSet(Heard(Dead, Mute, names))
           /\ Cardinality(MadeOf(reports', names, Result))
                  = Cardinality(MadeOf(reports, names, Result)) + Cardinality(Heard(Dead, Mute, names))
<1>1. Dead \in SUBSET Slot /\ Mute \in SUBSET Dead /\ \A t \in Mute : result_pipe[t] = <<>>
  BY DEF Dead, Mute
<1> QED
  BY <1>1, ReapHears, HeardIsReported

LEMMA SingleReport ==
    ASSUME Inv, Rest, Rest', ReportSkip \/ RunInProcess, NEW names \in SUBSET Name
    PROVE  /\ NextCase(todo) \in todo /\ todo' = todo \ {NextCase(todo)}
           /\ Cardinality(MadeOf(reports', names, Result))
                  = Cardinality(MadeOf(reports, names, Result))
                    + IF NextCase(todo) \in names THEN 1 ELSE 0
<1> DEFINE c == NextCase(todo)
           A == IF c \in names THEN {c} ELSE {}
<1>1. todo # {} /\ todo \subseteq Case
  BY DEF ReportSkip, RunInProcess, Inv, SlotInv
<1>2. c \in todo /\ c \in Name /\ todo' = todo \ {c}
  BY <1>1, NextCaseIsLeft, CasesAreNoSentinels DEF ReportSkip, RunInProcess
<1>3. PICK r \in Result : Report(c, r)
  BY ResultsAreTyped DEF ReportSkip, RunInProcess
<1> DEFINE verdict == [a \in A |-> <<c, r>>]
<1> HIDE DEF c
<1>4. verdict \in [A -> names \X Result]
  OBVIOUS
<1>5. IsFiniteSet(A) /\ Cardinality(A) = IF c \in names THEN 1 ELSE 0
  <2>1. /\ IsFiniteSet({c}) /\ Cardinality({c}) = 1
        /\ IsFiniteSet({}) /\ Cardinality({}) = 0
    BY FS_Singleton, FS_EmptySet
  <2> QED
    BY <2>1
<1>6. ASSUME NEW n \in names, NEW q \in Result
      PROVE  reports'[n][q] = reports[n][q] + Cardinality(Column(A, verdict, <<n, q>>))
  <2>1. reports[n][q] \in Nat
    BY DEF Rest
  <2>2. CASE n = c /\ q = r
    <3>1. Column(A, verdict, <<n, q>>) = {c}
      BY <2>2 DEF Column
    <3>2. Cardinality({c}) = 1
      BY FS_Singleton
    <3>3. reports'[n][q] = reports[n][q] + 1
      BY <1>2, <1>3, <2>2 DEF Report, Rest
    <3> QED
      BY <3>1, <3>2, <3>3
  <2>3. CASE ~(n = c /\ q = r)
    <3>1. Column(A, verdict, <<n, q>>) = {}
      BY <2>3 DEF Column
    <3>2. Cardinality({}) = 0
      BY FS_EmptySet
    <3>3. reports'[n][q] = reports[n][q]
      BY <1>2, <1>3, <2>3 DEF Report, Rest
    <3>4. Cardinality(Column(A, verdict, <<n, q>>)) = 0
      BY <3>1, <3>2
    <3> HIDE DEF A, verdict
    <3> QED
      BY <2>1, <3>3, <3>4
  <2> QED
    BY <2>2, <2>3
<1> HIDE DEF A, verdict
<1>7. Adds(reports, reports', names, A, verdict)
  BY <1>4, <1>5, <1>6 DEF Adds, Rest
<1>8. Cardinality(MadeOf(reports', names, Result))
          = Cardinality(MadeOf(reports, names, Result)) + Cardinality(A)
  BY <1>7, MadeGrows
<1> QED
  BY <1>2, <1>5, <1>8 DEF c

(* Every other step reports nothing.                                        *)
LEMMA OthersReportNothing ==
    ASSUME [Next]_vars, ~ReportSkip, ~RunInProcess, ~ReapWorkers,
           \A s \in Slot : ~DrainResultPipe(s)
    PROVE  reports' = reports
<1> USE DEF control, books, flags, processes, user
<1>1. Quiet \/ StartTest
  BY StepsAreQuiet
<1>2. CASE StartTest
  BY <1>2 DEF StartTest
<1>3. CASE \E s \in Slot :
              WorkerStep(s) \/ WorkerSendResult(s) \/ WorkerCrashes(s) \/ TestExpires(s)
  BY <1>3 DEF WorkerStep, WorkerSetsUp, WorkerRecvTest, WorkerRecvSentinel, WorkerKilled,
     WorkerSendResult, WorkerCrashes, TestExpires, Die
<1>4. CASE \/ GatherVulkanInfo \/ DispatchTest
           \/ EndDispatchPhase \/ AwaitRoom \/ FindOpenWorker \/ ForkWorker \/ ForkFails
           \/ WorkerSetUpFails \/ AwaitWorker
           \/ YieldUninterrupted \/ YieldKillsWorkers \/ WakeFromNap \/ HaltTestRun
           \/ NothingToCollect \/ SendSentinels \/ AwaitWorkers
           \/ Interrupt \/ UNCHANGED vars
  BY <1>4 DEF GatherVulkanInfo, DispatchTest,
     EndDispatchPhase, AwaitRoom, FindOpenWorker, ForkWorker, ForkFails, WorkerSetUpFails,
     AwaitWorker,
     YieldUninterrupted, YieldKillsWorkers, WakeFromNap, HaltTestRun,
     NothingToCollect, SendSentinels, AwaitWorkers, Interrupt, vars
<1> QED
  BY <1>1, <1>2, <1>3, <1>4 DEF Quiet

(* And the dispatch loop goes on in no other step.                          *)
LEMMA OthersBeginNothing ==
    ASSUME Quiet, ~ReportSkip, ~RunInProcess, ~DispatchTest
    PROVE  todo' = todo /\ case' = case
<1> USE DEF control, books, flags, processes, user
<1>1. CASE \E s \in Slot :
              WorkerStep(s) \/ WorkerSendResult(s) \/ WorkerCrashes(s) \/ TestExpires(s)
  BY <1>1 DEF WorkerStep, WorkerSetsUp, WorkerRecvTest, WorkerRecvSentinel, WorkerKilled,
     WorkerSendResult, WorkerCrashes, TestExpires, Die
<1>2. CASE \/ GatherVulkanInfo
           \/ EndDispatchPhase \/ AwaitRoom \/ FindOpenWorker \/ ForkWorker \/ ForkFails
           \/ WorkerSetUpFails \/ AwaitWorker
           \/ YieldUninterrupted \/ YieldKillsWorkers \/ WakeFromNap \/ HaltTestRun
           \/ NothingToCollect \/ SendSentinels \/ AwaitWorkers
           \/ Interrupt \/ UNCHANGED vars
  BY <1>2 DEF GatherVulkanInfo,
     EndDispatchPhase, AwaitRoom, FindOpenWorker, ForkWorker, ForkFails, WorkerSetUpFails,
     AwaitWorker,
     YieldUninterrupted, YieldKillsWorkers, WakeFromNap, HaltTestRun,
     NothingToCollect, SendSentinels, AwaitWorkers, Interrupt, vars
<1> QED
  BY <1>1, <1>2 DEF Quiet

-----------------------------------------------------------------------------
(* Nothing is reported twice.                                               *)

(* What NoDoubleVerdict counts of a definition.                             *)
Owners(d) == {s \in Slot : d \in workers[s].tests}
Begun(d) == {c \in Case \ todo : c[1] = d}
Verdicts(d) == Cardinality(MadeOf(reports, NamesOf(d), Result))
InHand(d) == IF case[1] = d THEN 1 ELSE 0

LEMMA VerdictsCounted ==
    NoDoubleVerdict <=>
        \A d \in Def : Verdicts(d) + Cardinality(Owners(d)) + InHand(d) <= Cardinality(Begun(d))
BY DEF NoDoubleVerdict, Verdicts, Owners, Begun, InHand, Made, MadeOf

LEMMA VerdictsFinite ==
    ASSUME Inv, Rest, NEW d \in Def
    PROVE  /\ Verdicts(d) \in Nat /\ InHand(d) \in Nat
           /\ IsFiniteSet(Owners(d)) /\ Cardinality(Owners(d)) \in Nat
           /\ IsFiniteSet(Begun(d)) /\ Cardinality(Begun(d)) \in Nat
<1>1. NamesOf(d) \in SUBSET Name /\ Result \in SUBSET Result
  BY DEF NamesOf
<1>2. Verdicts(d) \in Nat
  BY <1>1, MadeFinite DEF Verdicts, Rest
<1>3. IsFiniteSet(Owners(d)) /\ Cardinality(Owners(d)) \in Nat
  BY DispatcherAssumption, FS_Subset, FS_CardinalityType DEF Owners
<1>4. IsFiniteSet(Begun(d)) /\ Cardinality(Begun(d)) \in Nat
  BY NamesFinite, FS_Subset, FS_CardinalityType DEF Begun
<1> QED
  BY <1>2, <1>3, <1>4 DEF InHand

(* A slot that is heard of gives up its test.                               *)
LEMMA HeardLetGo ==
    ASSUME Inv, Rest, ParcelInv, NEW d \in Def, NEW X \in SUBSET Slot, NEW lost \in SUBSET X,
           \A t \in lost : result_pipe[t] = <<>>,
           \A t \in Slot :
               workers'[t].tests = IF t \in X /\ (result_pipe[t] # <<>> \/ t \in lost) THEN {}
                                   ELSE workers[t].tests
    PROVE  Cardinality(Owners(d)) = Cardinality(Owners(d)') + Cardinality(Heard(X, lost, NamesOf(d)))
<1> DEFINE H == Heard(X, lost, NamesOf(d))
<1>1. ASSUME NEW t \in X
      PROVE  t \in H <=> t \in Owners(d) /\ (result_pipe[t] # <<>> \/ t \in lost)
  <2>1. CASE result_pipe[t] # <<>>
    <3>1. /\ Verdict(t)[1] \in Case /\ workers[t].tests = {Verdict(t)[1][1]}
      BY <2>1, AnswerOwned DEF Verdict
    <3>2. Verdict(t)[1] \in NamesOf(d) <=> Verdict(t)[1][1] = d
      BY <3>1 DEF NamesOf, Name
    <3> QED
      BY <2>1, <3>1, <3>2 DEF Heard, Owners
  <2>2. CASE result_pipe[t] = <<>>
    <3>1. workers[t].tests # {} => Owned(t) \in workers[t].tests
      BY DEF Owned
    <3>2. workers[t].tests \in SUBSET Def /\ \A e, f \in workers[t].tests : e = f
      BY PipesTyped
    <3>3. Verdict(t)[1] = <<Owned(t), 0>>
      BY <2>2 DEF Verdict
    <3>4. Owned(t) \in Def => (<<Owned(t), 0>> \in NamesOf(d) <=> Owned(t) = d)
      BY DEF NamesOf, Name
    <3> QED
      BY <2>2, <3>1, <3>2, <3>3, <3>4 DEF Heard, Owners
  <2> QED
    BY <2>1, <2>2
<1>2. H \subseteq X
  BY DEF Heard
<1> HIDE DEF H
<1>3. /\ Owners(d) = Owners(d)' \cup H /\ Owners(d)' \cap H = {}
  BY <1>1, <1>2 DEF Owners
<1>4. IsFiniteSet(Owners(d)') /\ IsFiniteSet(H)
  BY <1>2, DispatcherAssumption, FS_Subset DEF Owners
<1>5. Cardinality(Owners(d))
          = Cardinality(Owners(d)') + Cardinality(H) - Cardinality(Owners(d)' \cap H)
  BY <1>3, <1>4, FS_Union
<1>6. Cardinality({}) = 0 /\ Cardinality(Owners(d)') \in Nat /\ Cardinality(H) \in Nat
  BY <1>4, FS_EmptySet, FS_CardinalityType
<1>7. Cardinality(Owners(d)' \cap H) = 0
  BY <1>3, <1>6
<1>8. Cardinality(Owners(d)) \in Nat
  BY DispatcherAssumption, FS_Subset, FS_CardinalityType DEF Owners
<1>9. Cardinality(Owners(d)) = Cardinality(Owners(d)') + Cardinality(H)
  BY <1>5, <1>6, <1>7, <1>8
<1> QED
  BY <1>9 DEF H

(* What the two steps that hear from slots do to the owners.                *)
LEMMA OwnersHeard ==
    ASSUME Inv, Rest, ParcelInv, Rest', NEW d \in Def,
           ReapWorkers \/ \E s \in Slot : DrainResultPipe(s)
    PROVE  /\ Verdicts(d)' + Cardinality(Owners(d)') = Verdicts(d) + Cardinality(Owners(d))
           /\ todo' = todo /\ case' = case
<1>1. NamesOf(d) \in SUBSET Name /\ Result \in SUBSET Result /\ NamesOf(d)' = NamesOf(d)
  BY DEF NamesOf
<1>2. /\ Verdicts(d) = Cardinality(MadeOf(reports, NamesOf(d), Result)) /\ Verdicts(d) \in Nat
      /\ Verdicts(d)' = Cardinality(MadeOf(reports', NamesOf(d), Result))
  BY <1>1, MadeFinite DEF Verdicts, Rest
<1>3. Cardinality(Owners(d)') \in Nat
  BY DispatcherAssumption, FS_Subset, FS_CardinalityType DEF Owners
<1>4. ASSUME NEW s \in Slot, DrainResultPipe(s)
      PROVE  /\ Verdicts(d)' + Cardinality(Owners(d)') = Verdicts(d) + Cardinality(Owners(d))
             /\ todo' = todo /\ case' = case
  <2> DEFINE H == Heard({s}, {}, NamesOf(d))
  <2>1. IsFiniteSet(H) /\ Verdicts(d)' = Verdicts(d) + Cardinality(H)
    BY <1>1, <1>2, <1>4, DrainReports
  <2>2. ASSUME NEW t \in Slot
        PROVE  workers'[t].tests = IF t \in {s} /\ (result_pipe[t] # <<>> \/ t \in {}) THEN {}
                                   ELSE workers[t].tests
    <3>1. CASE t = s
      BY <1>4, <3>1, DrainTakes
    <3>2. CASE t # s
      BY <1>4, <3>2 DEF DrainResultPipe, Inv, SlotInv
    <3> QED
      BY <3>1, <3>2
  <2>3. Cardinality(Owners(d)) = Cardinality(Owners(d)') + Cardinality(H)
    <3>1. {s} \in SUBSET Slot /\ {} \in SUBSET {s}
      OBVIOUS
    <3> QED
      BY <2>2, <3>1, HeardLetGo
  <2>4. Cardinality(H) \in Nat
    BY <2>1, FS_CardinalityType
  <2>5. todo' = todo /\ case' = case
    BY <1>4 DEF DrainResultPipe
  <2> HIDE DEF H
  <2> QED
    BY <1>2, <1>3, <2>1, <2>3, <2>4, <2>5
<1>5. CASE ReapWorkers
  <2> DEFINE H == Heard(Dead, Mute, NamesOf(d))
  <2>1. IsFiniteSet(H) /\ Verdicts(d)' = Verdicts(d) + Cardinality(H)
    BY <1>1, <1>2, <1>5, ReapReports
  <2>2. ASSUME NEW t \in Slot
        PROVE  workers'[t].tests = IF t \in Dead /\ (result_pipe[t] # <<>> \/ t \in Mute) THEN {}
                                   ELSE workers[t].tests
    <3>1. t \in Dead <=> proc[t] = "zombie"
      BY DEF Dead
    <3>2. t \in Dead => (t \in Mute <=> result_pipe[t] = <<>>)
      BY DEF Mute
    <3>3. NoWorker.tests = {}
      BY DEF NoWorker
    <3>4. /\ proc[t] = "zombie" => workers'[t] = NoWorker
          /\ proc[t] # "zombie" => workers'[t] = workers[t]
      BY <1>5, ReapClears
    <3> QED
      BY <3>1, <3>2, <3>3, <3>4
  <2>3. Dead \in SUBSET Slot /\ Mute \in SUBSET Dead /\ \A t \in Mute : result_pipe[t] = <<>>
    BY DEF Dead, Mute
  <2>4. Cardinality(Owners(d)) = Cardinality(Owners(d)') + Cardinality(H)
    BY <2>2, <2>3, HeardLetGo
  <2>5. Cardinality(H) \in Nat
    BY <2>1, FS_CardinalityType
  <2>6. todo' = todo /\ case' = case
    BY <1>5 DEF ReapWorkers
  <2> HIDE DEF H
  <2> QED
    BY <1>2, <1>3, <2>1, <2>4, <2>5, <2>6
<1> QED
  BY <1>4, <1>5

LEMMA VerdictNext ==
    ASSUME Inv, Rest, ParcelInv, Inv', Rest', [Next]_vars, NEW d \in Def,
           Verdicts(d) + Cardinality(Owners(d)) + InHand(d) <= Cardinality(Begun(d))
    PROVE  Verdicts(d)' + Cardinality(Owners(d)') + InHand(d)' <= Cardinality(Begun(d)')
<1>1. /\ Verdicts(d) \in Nat /\ InHand(d) \in Nat
      /\ IsFiniteSet(Owners(d)) /\ Cardinality(Owners(d)) \in Nat
      /\ IsFiniteSet(Begun(d)) /\ Cardinality(Begun(d)) \in Nat
  BY VerdictsFinite
<1>2. CASE ReapWorkers \/ \E s \in Slot : DrainResultPipe(s)
  <2>1. /\ Verdicts(d)' + Cardinality(Owners(d)') = Verdicts(d) + Cardinality(Owners(d))
        /\ todo' = todo /\ case' = case
    BY <1>2, OwnersHeard
  <2>2. InHand(d)' = InHand(d) /\ Begun(d)' = Begun(d)
    BY <2>1 DEF InHand, Begun
  <2>3. Verdicts(d)' \in Nat /\ Cardinality(Owners(d)') \in Nat
    <3>1. NamesOf(d) \in SUBSET Name /\ Result \in SUBSET Result /\ NamesOf(d)' = NamesOf(d)
      BY DEF NamesOf
    <3>2. Verdicts(d)' \in Nat
      BY <3>1, MadeFinite DEF Verdicts, Rest
    <3>3. Cardinality(Owners(d)') \in Nat
      BY DispatcherAssumption, FS_Subset, FS_CardinalityType DEF Owners
    <3> QED
      BY <3>2, <3>3
  <2> QED
    BY <1>1, <2>1, <2>2, <2>3
<1>3. CASE ReportSkip \/ RunInProcess
  <2> DEFINE c == NextCase(todo)
  <2>1. NamesOf(d) \in SUBSET Name /\ NamesOf(d)' = NamesOf(d)
    BY DEF NamesOf
  <2>2. /\ c \in todo /\ todo' = todo \ {c}
        /\ Verdicts(d)' = Verdicts(d) + IF c \in NamesOf(d) THEN 1 ELSE 0
    BY <1>3, <2>1, SingleReport DEF Verdicts
  <2>3. /\ workers' = workers /\ case' = case /\ todo \subseteq Case
    BY <1>3 DEF ReportSkip, RunInProcess, Inv, SlotInv
  <2>4. Owners(d)' = Owners(d) /\ InHand(d)' = InHand(d)
    BY <2>3 DEF Owners, InHand
  <2> HIDE DEF c
  <2>5. /\ Begun(d)' = IF c \in NamesOf(d) THEN Begun(d) \cup {c} ELSE Begun(d)
        /\ c \notin Begun(d)
    BY <2>2, <2>3 DEF Begun, NamesOf, Name
  <2>6. Cardinality(Begun(d) \cup {c}) = Cardinality(Begun(d)) + 1
    BY <1>1, <2>5, FS_AddElement
  <2>7. CASE c \in NamesOf(d)
    <3>1. Verdicts(d)' = Verdicts(d) + 1 /\ Cardinality(Begun(d)') = Cardinality(Begun(d)) + 1
      BY <2>2, <2>5, <2>6, <2>7
    <3> QED
      BY <1>1, <2>4, <3>1
  <2>8. CASE c \notin NamesOf(d)
    <3>1. Verdicts(d)' = Verdicts(d) + 0 /\ Begun(d)' = Begun(d)
      BY <2>2, <2>5, <2>8
    <3> QED
      BY <1>1, <2>4, <3>1
  <2> QED
    BY <2>7, <2>8
<1>4. CASE DispatchTest
  <2> DEFINE c == NextCase(todo)
  <2>1. /\ c \in todo /\ todo' = todo \ {c} /\ case' = c /\ todo \subseteq Case
        /\ UNCHANGED <<workers, reports>>
    BY <1>4, NextCaseIsLeft DEF DispatchTest, books, Inv, SlotInv
  <2>2. Owners(d)' = Owners(d) /\ Verdicts(d)' = Verdicts(d)
    BY <2>1 DEF Owners, Verdicts, NamesOf
  <2> HIDE DEF c
  <2>3. /\ Begun(d)' = IF c[1] = d THEN Begun(d) \cup {c} ELSE Begun(d)
        /\ c \notin Begun(d)
    BY <2>1 DEF Begun
  <2>4. Cardinality(Begun(d) \cup {c}) = Cardinality(Begun(d)) + 1
    BY <1>1, <2>3, FS_AddElement
  <2>5. InHand(d)' = (IF c[1] = d THEN 1 ELSE 0) /\ InHand(d) \in Nat
    BY <1>1, <2>1 DEF InHand
  <2>6. CASE c[1] = d
    <3>1. InHand(d)' = 1 /\ Cardinality(Begun(d)') = Cardinality(Begun(d)) + 1
      BY <2>3, <2>4, <2>5, <2>6
    <3> QED
      BY <1>1, <2>2, <3>1
  <2>7. CASE c[1] # d
    <3>1. InHand(d)' = 0 /\ Begun(d)' = Begun(d)
      BY <2>3, <2>5, <2>7
    <3> QED
      BY <1>1, <2>2, <3>1
  <2> QED
    BY <2>6, <2>7
<1>5. CASE StartTest
  <2>1. /\ UNCHANGED <<todo, reports>> /\ case' = NoCase /\ NoCase[1] # d
    BY <1>5, CasesAreNoSentinels DEF StartTest
  <2>2. Begun(d)' = Begun(d) /\ Verdicts(d)' = Verdicts(d) /\ InHand(d)' = 0
    BY <2>1 DEF Begun, Verdicts, NamesOf, InHand
  <2>3. IF case[1] = d THEN Owners(d)' \subseteq Owners(d) \cup {target}
        ELSE Owners(d)' \subseteq Owners(d)
    <3>1. ASSUME NEW t \in Slot, t \in Owners(d)', t \notin Owners(d)
          PROVE  t = target /\ case[1] = d
      <4>1. CASE t = target /\ Alive(t)
        <5>1. workers'[t].tests = {case[1]}
          BY <1>5, <4>1, StartSends
        <5> QED
          BY <3>1, <4>1, <5>1 DEF Owners
      <4>2. CASE t # target \/ ~Alive(t)
        <5>1. workers'[t].tests = workers[t].tests
          BY <1>5, <4>2 DEF StartTest, Inv, SlotInv
        <5> QED
          BY <3>1, <5>1 DEF Owners
      <4> QED
        BY <4>1, <4>2
    <3>2. Owners(d)' \subseteq Slot
      BY DEF Owners
    <3> QED
      BY <3>1, <3>2
  <2>4. Cardinality(Owners(d)') \in Nat /\ Cardinality(Owners(d)') <= Cardinality(Owners(d)) + InHand(d)
    <3>1. IsFiniteSet(Owners(d) \cup {target})
          /\ Cardinality(Owners(d) \cup {target}) <= Cardinality(Owners(d)) + 1
          /\ Cardinality(Owners(d) \cup {target}) \in Nat
      <4>1. IsFiniteSet(Owners(d) \cup {target})
            /\ Cardinality(Owners(d) \cup {target}) =
                 IF target \in Owners(d) THEN Cardinality(Owners(d)) ELSE Cardinality(Owners(d)) + 1
        BY <1>1, FS_AddElement
      <4>2. Cardinality(Owners(d) \cup {target}) \in {Cardinality(Owners(d)), Cardinality(Owners(d)) + 1}
        BY <4>1
      <4> QED
        BY <1>1, <4>1, <4>2
    <3>2. CASE case[1] = d
      <4>1. /\ Cardinality(Owners(d)') <= Cardinality(Owners(d) \cup {target})
            /\ IsFiniteSet(Owners(d)')
        BY <2>3, <3>1, <3>2, FS_Subset
      <4>2. Cardinality(Owners(d)') \in Nat /\ InHand(d) = 1
        BY <3>2, <4>1, FS_CardinalityType DEF InHand
      <4> QED
        BY <1>1, <3>1, <4>1, <4>2
    <3>3. CASE case[1] # d
      <4>1. Cardinality(Owners(d)') <= Cardinality(Owners(d)) /\ IsFiniteSet(Owners(d)')
        BY <1>1, <2>3, <3>3, FS_Subset
      <4>2. Cardinality(Owners(d)') \in Nat /\ InHand(d) = 0
        BY <3>3, <4>1, FS_CardinalityType DEF InHand
      <4> QED
        BY <1>1, <4>1, <4>2
    <3> QED
      BY <3>2, <3>3
  <2> QED
    BY <1>1, <2>2, <2>4
<1>6. CASE /\ Quiet /\ ~ReportSkip /\ ~RunInProcess /\ ~DispatchTest
           /\ ~ReapWorkers /\ \A s \in Slot : ~DrainResultPipe(s)
  <2>1. reports' = reports
    BY <1>6, OthersReportNothing
  <2>2. \A s \in Slot : workers'[s].tests = workers[s].tests
    BY <1>6, QuietKeepsParcels
  <2>3. todo' = todo /\ case' = case
    BY <1>6, OthersBeginNothing
  <2>4. /\ Owners(d)' = Owners(d) /\ Verdicts(d)' = Verdicts(d)
        /\ Begun(d)' = Begun(d) /\ InHand(d)' = InHand(d)
    BY <2>1, <2>2, <2>3 DEF Owners, Verdicts, Begun, InHand, NamesOf
  <2> QED
    BY <2>4
<1> QED
  BY <1>2, <1>3, <1>4, <1>5, <1>6, StepsAreQuiet

LEMMA VerdictInitially == Init => NoDoubleVerdict
<1> SUFFICES ASSUME Init, NEW d \in Def
             PROVE  Verdicts(d) + Cardinality(Owners(d)) + InHand(d) <= Cardinality(Begun(d))
  BY VerdictsCounted
<1>1. MadeOf(reports, NamesOf(d), Result) = {}
  BY DEF Init, MadeOf, NamesOf
<1>2. Owners(d) = {}
  BY DEF Init, Owners, NoWorker
<1>3. InHand(d) = 0
  BY CasesAreNoSentinels DEF Init, InHand
<1>4. Begun(d) = {}
  BY DEF Init, Begun
<1> QED
  BY <1>1, <1>2, <1>3, <1>4, FS_EmptySet DEF Verdicts

(* Nothing is reported twice: whatever dies, hangs or is interrupted, the   *)
(* results reported of a test and its runs in flight are no more than the   *)
(* runs begun, for any number of tests, queues and jobs.                    *)
THEOREM NothingIsReportedTwice == Spec => []NoDoubleVerdict
<1>1. Init => Inv /\ Rest /\ ParcelInv /\ NoDoubleVerdict
  BY InitEstablishes, RestInitially, ParcelInitially, VerdictInitially
<1>2. Inv /\ Rest /\ ParcelInv /\ NoDoubleVerdict /\ [Next]_vars
          => Inv' /\ Rest' /\ ParcelInv' /\ NoDoubleVerdict'
  <2> SUFFICES ASSUME Inv, Rest, ParcelInv, NoDoubleVerdict, [Next]_vars
               PROVE  Inv' /\ Rest' /\ ParcelInv' /\ NoDoubleVerdict'
    OBVIOUS
  <2>1. Inv' /\ Rest' /\ ParcelInv'
    BY NextKeeps, RestTyped, ParcelNext
  <2>2. \A d \in Def :
            Verdicts(d)' + Cardinality(Owners(d)') + InHand(d)' <= Cardinality(Begun(d)')
    BY <2>1, VerdictNext, VerdictsCounted
  <2>3. NoDoubleVerdict'
    BY <2>2 DEF NoDoubleVerdict, Verdicts, Owners, Begun, InHand, Made, MadeOf
  <2> QED
    BY <2>1, <2>3
<1> QED
  BY <1>1, <1>2, PTL DEF Spec
=============================================================================
