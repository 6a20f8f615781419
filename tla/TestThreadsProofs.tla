------------------------ MODULE TestThreadsProofs ------------------------
(***************************************************************************)
(* Proofs about TestThreads: IInv is inductive, for any number of threads  *)
(* that the test starts, and the safety properties follow from it.  At the *)
(* end, TestThreads implements TestLifecycle, liveness aside: every step   *)
(* of however many threads is a step of a test with one verdict and phases *)
(* in order, or no step of it at all.                                      *)
(***************************************************************************)
EXTENDS TestThreads, FiniteSetTheorems, TLAPS

-----------------------------------------------------------------------------
(* The set of counted threads and its size.                                 *)

ZeroLocation == {"lone"} \cup StopLocation

(* Only finitely many threads are ever counted, in either state of a step.  *)
LEMMA CountedFinite ==
    /\ IsFiniteSet(Counted) /\ Cardinality(Counted) \in Nat
    /\ IsFiniteSet(Counted') /\ Cardinality(Counted') \in Nat
<1>1. IsFiniteSet({Cleanup} \cup User)
  BY ThreadAssumption, FS_AddElement, {Cleanup} \cup User = User \cup {Cleanup}
<1>2. IsFiniteSet({First} \cup ({Cleanup} \cup User))
  BY <1>1, FS_AddElement,
     {First} \cup ({Cleanup} \cup User) = ({Cleanup} \cup User) \cup {First}
<1>3. IsFiniteSet(TestThread)
  BY <1>2, TestThread = {First} \cup ({Cleanup} \cup User) DEF TestThread
<1>4. Counted \subseteq TestThread /\ Counted' \subseteq TestThread
  BY DEF Counted
<1> QED
  BY <1>3, <1>4, FS_Subset, FS_CardinalityType

(* A thread that stays counted leaves the set as it is.                     *)
LEMMA MoveKeepsCounted ==
    ASSUME TypeOK, NEW th \in Thread, NEW to,
           pc' = [pc EXCEPT ![th] = to],
           th \in TestThread => pc[th] \notin Absent /\ to \notin Absent
    PROVE  Counted' = Counted
BY DEF TypeOK, Counted, Absent, Thread

(* The count stays exact when a thread moves between two locations at which *)
(* the count stands for it.                                                 *)
LEMMA MoveKeepsCount ==
    ASSUME TypeOK, CountExact, NEW th \in TestThread, NEW to,
           pc' = [pc EXCEPT ![th] = to], num_threads' = num_threads,
           pc[th] \notin Absent \cup ZeroLocation,
           to \notin Absent \cup ZeroLocation
    PROVE  CountExact'
<1>1. Counted' = Counted
  BY MoveKeepsCounted DEF Thread
<1>2. (\E t \in TestThread : pc'[t] \in ZeroLocation)
      <=> (\E t \in TestThread : pc[t] \in ZeroLocation)
  BY DEF TypeOK, Thread
<1> QED
  BY <1>1, <1>2 DEF CountExact, ZeroLocation

(* Nor do the steps of Main disturb it.                                     *)
LEMMA MainKeepsCount ==
    ASSUME CountExact, num_threads' = num_threads,
           \A th \in TestThread : pc'[th] = pc[th]
    PROVE  CountExact'
<1>1. Counted' = Counted
  BY DEF Counted
<1> QED
  BY <1>1 DEF CountExact

(* test_thread_create() counts the child that it makes.                     *)
LEMMA CreationIsCounted ==
    ASSUME TypeOK, CountExact, NEW th \in Thread, NEW from, NEW to,
           NEW child \in TestThread, CountThread(th, from, to, child), th # child,
           \A t \in TestThread : pc[t] \notin ZeroLocation,
           th \in TestThread =>
               from \notin Absent /\ to \notin Absent \cup ZeroLocation
    PROVE  CountExact'
<1>1. child \notin Counted /\ Counted' = Counted \cup {child}
  BY DEF CountThread, At, Counted, Absent, TypeOK, Thread
<1>2. Cardinality(Counted') = Cardinality(Counted) + 1
  BY <1>1, CountedFinite, FS_AddElement
<1>3. \A t \in TestThread : pc'[t] \notin ZeroLocation
  BY DEF CountThread, At, ZeroLocation, StopLocation, TypeOK, Thread
<1> QED
  BY <1>2, <1>3 DEF CountExact, CountThread, ZeroLocation

(* pthread_create() changes nothing of it, be it a success or a failure.    *)
LEMMA CreateKeepsCount ==
    ASSUME TypeOK, CountExact, NEW th \in Thread, NEW from, NEW to,
           PthreadCreate(th, from, to), from # "creating",
           th \in TestThread =>
               /\ from \notin Absent \cup ZeroLocation
               /\ to \notin Absent \cup ZeroLocation
    PROVE  CountExact'
<1>1. PICK child \in TestThread, outcome \in {"entry", "failed"} :
          At(child, "creating") /\ pc' = [pc EXCEPT ![th] = to, ![child] = outcome]
  BY DEF PthreadCreate
<1>2. child # th
  BY <1>1 DEF PthreadCreate, At
<1>3. Counted' = Counted
  BY <1>1, <1>2 DEF PthreadCreate, At, TypeOK, Thread, Counted, Absent
<1>4. (\E t \in TestThread : pc'[t] \in ZeroLocation)
      <=> (\E t \in TestThread : pc[t] \in ZeroLocation)
  BY <1>1, <1>2 DEF PthreadCreate, At, TypeOK, Thread, ZeroLocation, StopLocation
<1> QED
  BY <1>3, <1>4 DEF CountExact, ZeroLocation, PthreadCreate

(* A counted thread makes the count positive, unless it has been zeroed.    *)
LEMMA CountedPositive ==
    ASSUME CountExact, NEW th \in Counted,
           \A t \in TestThread : pc[t] \notin ZeroLocation
    PROVE  num_threads = Cardinality(Counted) /\ num_threads >= 1
<1>1. Cardinality(Counted) # 0
  BY CountedFinite, FS_EmptySet
<1> QED
  BY <1>1, CountedFinite DEF CountExact, ZeroLocation

(* The sieve's reading of 1 means what the code takes it for.               *)
LEMMA LastIsAlone ==
    ASSUME CountExact, num_threads = 1, NEW th \in Counted,
           \A t \in TestThread : pc[t] \notin ZeroLocation
    PROVE  Counted = {th}
<1>1. Cardinality(Counted) = 1
  BY CountedPositive
<1>2. IsFiniteSet(Counted \ {th}) /\ Cardinality(Counted \ {th}) = 0
  BY <1>1, CountedFinite, FS_RemoveElement
<1>3. Counted \ {th} = {}
  BY <1>2, FS_EmptySet
<1> QED
  BY <1>3

(* A thread in a location that is for the last thread only is alone, and    *)
(* nobody but such a thread can have zeroed the count.                      *)
LEMMA NobodyZeroed ==
    ASSUME SoleThread, NEW th \in TestThread,
           pc[th] \notin Absent \cup ZeroLocation
    PROVE  \A t \in TestThread : pc[t] \notin ZeroLocation
BY DEF SoleThread, SoloLocation, ZeroLocation

LEMMA SoleIsOnlyCounted ==
    ASSUME SoleThread, NEW th \in TestThread, pc[th] \in SoloLocation
    PROVE  Counted = {th} /\ Cardinality(Counted) = 1
<1>1. Counted = {th}
  BY DEF SoleThread, Counted, Absent, SoloLocation, StopLocation
<1> QED
  BY <1>1, FS_Singleton

(* t_thread_sieve() keeps the count exact in both of its outcomes.          *)
LEMMA SieveKeepsCount ==
    ASSUME TypeOK, CountExact, SoleThread, NEW th \in TestThread, Sieve(th)
    PROVE  CountExact' /\ num_threads' \in Nat /\ SoleThread'
<1>1. pc[th] = "sieve" /\ th \in Counted
  BY DEF Sieve, Goto, At, Counted
<1>2. \A t \in TestThread : pc[t] \notin ZeroLocation
  BY <1>1, NobodyZeroed DEF Absent, ZeroLocation, StopLocation
<1>3. num_threads = Cardinality(Counted) /\ num_threads >= 1
  BY <1>1, <1>2, CountedPositive
<1>4. num_threads' = num_threads - 1
  BY DEF Sieve
<1>5. CASE num_threads = 1
  <2>1. Counted = {th}
    BY <1>1, <1>2, <1>5, LastIsAlone
  <2>2. pc' = [pc EXCEPT ![th] = "lone"]
    BY <1>5 DEF Sieve, Goto
  <2>3. CountExact'
    BY <1>4, <1>5, <2>2 DEF CountExact, TypeOK, Thread
  <2>4. SoleThread'
    BY <2>1, <2>2 DEF SoleThread, Counted, Absent, TypeOK, Thread, SoloLocation, StopLocation
  <2> QED
    BY <1>4, <1>5, <2>3, <2>4
<1>6. CASE num_threads # 1
  <2>1. pc' = [pc EXCEPT ![th] = "exited"]
    BY <1>6 DEF Sieve, Goto
  <2>2. Counted' = Counted \ {th}
    BY <2>1 DEF Counted, TypeOK, Thread
  <2>3. Cardinality(Counted') = Cardinality(Counted) - 1
    BY <1>1, <2>2, CountedFinite, FS_RemoveElement
  <2>4. \A t \in TestThread : pc'[t] \notin ZeroLocation
    BY <1>2, <2>1 DEF TypeOK, Thread, ZeroLocation, StopLocation
  <2>5. CountExact'
    BY <1>3, <1>4, <2>3, <2>4 DEF CountExact, ZeroLocation
  <2>6. SoleThread'
    BY <2>1 DEF SoleThread, TypeOK, Thread, Absent, SoloLocation, StopLocation
  <2> QED
    BY <1>3, <1>4, <2>5, <2>6 DEF TypeOK
<1> QED
  BY <1>5, <1>6

-----------------------------------------------------------------------------
(* Every step keeps the invariant.  The places where threads stand are      *)
(* followed conjunct by conjunct through the definitions of their parts.    *)

(* A step of a test thread through the phases.                              *)
LEMMA ThreadStepKeeps ==
    ASSUME IInv, NEW th \in TestThread, ThreadStep(th)
    PROVE  IInv'
<1> USE ThreadAssumption, th \in Thread
    DEF IInv, Location, Thread, TestThread, Goto, At
<1> USE DEF PRESTART, SETUP, MAIN, PRECLEANUP, CLEANUP, STOPPED, Phase, MajorPhase,
            PASS, SKIP, FAIL, LOST, Result, NoResult
<1>1. CASE EnterThread(th)
  <2>1. TypeOK'
    BY <1>1 DEF TypeOK, EnterThread
  <2>2. CountExact'
    <3>1. PICK to : /\ pc' = [pc EXCEPT ![th] = to]
                   /\ to \notin Absent \cup ZeroLocation
                   /\ pc[th] \notin Absent \cup ZeroLocation
      BY <1>1 DEF EnterThread, Absent, ZeroLocation, StopLocation
    <3> QED
      BY <1>1, <3>1, MoveKeepsCount DEF EnterThread
  <2>3. Located'
    BY <1>1 DEF TypeOK, EnterThread, Located, SoleThread, LocationPhase, MainPhase, StopsFinal, UnwindsApart,
           Absent, SoloLocation, StopLocation
  <2> QED
    BY <2>1, <2>2, <2>3
<1>2. CASE StartThread(th)
  <2>1. TypeOK'
    BY <1>2 DEF TypeOK, StartThread, YieldTo, StartFunc
  <2>2. CountExact'
    <3>1. PICK to : /\ pc' = [pc EXCEPT ![th] = to]
                   /\ to \notin Absent \cup ZeroLocation
                   /\ pc[th] \notin Absent \cup ZeroLocation
      BY <1>2 DEF StartThread, YieldTo, StartFunc, Absent, ZeroLocation, StopLocation
    <3> QED
      BY <1>2, <3>1, MoveKeepsCount DEF StartThread, YieldTo, StartFunc
  <2>3. Located'
    BY <1>2 DEF TypeOK, StartThread, YieldTo, StartFunc, Located, SoleThread, LocationPhase, MainPhase, StopsFinal, UnwindsApart,
           Absent, SoloLocation, StopLocation
  <2> QED
    BY <2>1, <2>2, <2>3
<1>3. CASE UserStartThread(th)
  <2>1. TypeOK'
    BY <1>3 DEF TypeOK, UserStartThread, CountThread
  <2>2. CountExact'
    <3>1. PICK child \in User : CountThread(th, "body", "spawn", child)
      BY <1>3 DEF UserStartThread
    <3>2. pc[th] \notin Absent \cup ZeroLocation /\ th # child
      BY <3>1 DEF CountThread, Absent, ZeroLocation, StopLocation
    <3>3. \A t \in TestThread : pc[t] \notin ZeroLocation
      BY <3>2, NobodyZeroed DEF Located
    <3> QED
      BY <3>1, <3>2, <3>3, CreationIsCounted DEF Absent, ZeroLocation, StopLocation
  <2>3. Located'
    BY <1>3 DEF TypeOK, UserStartThread, CountThread, Located, SoleThread, LocationPhase, MainPhase, StopsFinal, UnwindsApart,
           Absent, SoloLocation, StopLocation
  <2> QED
    BY <2>1, <2>2, <2>3
<1>4. CASE UserCreate(th)
  <2>1. TypeOK'
    BY <1>4 DEF TypeOK, UserCreate, PthreadCreate
  <2>2. CountExact'
    BY <1>4, CreateKeepsCount DEF UserCreate, Absent, ZeroLocation, StopLocation
  <2>3. Located'
    BY <1>4 DEF TypeOK, UserCreate, PthreadCreate, Located, SoleThread, LocationPhase, MainPhase, StopsFinal, UnwindsApart,
           Absent, SoloLocation, StopLocation
  <2> QED
    BY <2>1, <2>2, <2>3
<1>5. CASE UserYield(th)
  <2>1. TypeOK'
    BY <1>5 DEF TypeOK, UserYield
  <2>2. CountExact'
    <3>1. PICK to : /\ pc' = [pc EXCEPT ![th] = to]
                   /\ to \notin Absent \cup ZeroLocation
                   /\ pc[th] \notin Absent \cup ZeroLocation
      BY <1>5 DEF UserYield, Absent, ZeroLocation, StopLocation
    <3> QED
      BY <1>5, <3>1, MoveKeepsCount DEF UserYield
  <2>3. Located'
    BY <1>5 DEF TypeOK, UserYield, Located, SoleThread, LocationPhase, MainPhase, StopsFinal, UnwindsApart,
           Absent, SoloLocation, StopLocation
  <2> QED
    BY <2>1, <2>2, <2>3
<1>6. CASE UserResume(th)
  <2>1. TypeOK'
    BY <1>6 DEF TypeOK, UserResume, YieldTo
  <2>2. CountExact'
    <3>1. PICK to : /\ pc' = [pc EXCEPT ![th] = to]
                   /\ to \notin Absent \cup ZeroLocation
                   /\ pc[th] \notin Absent \cup ZeroLocation
      BY <1>6 DEF UserResume, YieldTo, Absent, ZeroLocation, StopLocation
    <3> QED
      BY <1>6, <3>1, MoveKeepsCount DEF UserResume, YieldTo
  <2>3. Located'
    BY <1>6 DEF TypeOK, UserResume, YieldTo, Located, SoleThread, LocationPhase, MainPhase, StopsFinal, UnwindsApart,
           Absent, SoloLocation, StopLocation
  <2> QED
    BY <2>1, <2>2, <2>3
<1>7. CASE UserFinish(th)
  <2>1. TypeOK'
    BY <1>7 DEF TypeOK, UserFinish, UserEnd, UserReturn, CallEnd
  <2>2. CountExact'
    <3>1. PICK to : /\ pc' = [pc EXCEPT ![th] = to]
                   /\ to \notin Absent \cup ZeroLocation
                   /\ pc[th] \notin Absent \cup ZeroLocation
      BY <1>7 DEF UserFinish, UserEnd, UserReturn, CallEnd, Absent, ZeroLocation, StopLocation
    <3> QED
      BY <1>7, <3>1, MoveKeepsCount DEF UserFinish, UserEnd, UserReturn, CallEnd
  <2>3. Located'
    BY <1>7 DEF TypeOK, UserFinish, UserEnd, UserReturn, CallEnd, Located, SoleThread, LocationPhase, MainPhase, StopsFinal, UnwindsApart,
           Absent, SoloLocation, StopLocation
  <2> QED
    BY <2>1, <2>2, <2>3
<1>8. CASE Complain(th)
  <2>1. TypeOK'
    BY <1>8 DEF TypeOK, Complain, YieldTo
  <2>2. CountExact'
    <3>1. PICK to : /\ pc' = [pc EXCEPT ![th] = to]
                   /\ to \notin Absent \cup ZeroLocation
                   /\ pc[th] \notin Absent \cup ZeroLocation
      BY <1>8 DEF Complain, YieldTo, Absent, ZeroLocation, StopLocation
    <3> QED
      BY <1>8, <3>1, MoveKeepsCount DEF Complain, YieldTo
  <2>3. Located'
    BY <1>8 DEF TypeOK, Complain, YieldTo, Located, SoleThread, LocationPhase, MainPhase, StopsFinal, UnwindsApart,
           Absent, SoloLocation, StopLocation
  <2> QED
    BY <2>1, <2>2, <2>3
<1>9. CASE End(th)
  <2>1. TypeOK'
    BY <1>9 DEF TypeOK, End
  <2>2. CountExact'
    <3>1. PICK to : /\ pc' = [pc EXCEPT ![th] = to]
                   /\ to \notin Absent \cup ZeroLocation
                   /\ pc[th] \notin Absent \cup ZeroLocation
      BY <1>9 DEF End, Absent, ZeroLocation, StopLocation
    <3> QED
      BY <1>9, <3>1, MoveKeepsCount DEF End
  <2>3. Located'
    BY <1>9 DEF TypeOK, End, Located, SoleThread, LocationPhase, MainPhase, StopsFinal, UnwindsApart,
           Absent, SoloLocation, StopLocation
  <2> QED
    BY <2>1, <2>2, <2>3
<1>10. CASE Merge(th)
  <2>1. TypeOK'
    BY <1>10 DEF TypeOK, Merge
  <2>2. CountExact'
    <3>1. PICK to : /\ pc' = [pc EXCEPT ![th] = to]
                   /\ to \notin Absent \cup ZeroLocation
                   /\ pc[th] \notin Absent \cup ZeroLocation
      BY <1>10 DEF Merge, Absent, ZeroLocation, StopLocation
    <3> QED
      BY <1>10, <3>1, MoveKeepsCount DEF Merge
  <2>3. Located'
    BY <1>10 DEF TypeOK, Merge, Located, SoleThread, LocationPhase, MainPhase, StopsFinal, UnwindsApart,
           Absent, SoloLocation, StopLocation
  <2> QED
    BY <2>1, <2>2, <2>3
<1>11. CASE Release(th)
  <2>1. TypeOK'
    BY <1>11 DEF TypeOK, Release
  <2>2. CountExact'
    <3>1. PICK to : /\ pc' = [pc EXCEPT ![th] = to]
                   /\ to \notin Absent \cup ZeroLocation
                   /\ pc[th] \notin Absent \cup ZeroLocation
      BY <1>11 DEF Release, Absent, ZeroLocation, StopLocation
    <3> QED
      BY <1>11, <3>1, MoveKeepsCount DEF Release
  <2>3. Located'
    BY <1>11 DEF TypeOK, Release, Located, SoleThread, LocationPhase, MainPhase, StopsFinal, UnwindsApart,
           Absent, SoloLocation, StopLocation
  <2> QED
    BY <2>1, <2>2, <2>3
<1>12. CASE Sieve(th)
  <2>1. CountExact' /\ num_threads' \in Nat /\ SoleThread'
    BY <1>12, SieveKeepsCount DEF Located
  <2>2. TypeOK'
    BY <1>12, <2>1 DEF TypeOK, Sieve
  <2>3. Located'
    BY <1>12, <2>1 DEF TypeOK, Sieve, Located, SoleThread, LocationPhase, MainPhase, StopsFinal, UnwindsApart,
           Absent, SoloLocation, StopLocation
  <2> QED
    BY <2>1, <2>2, <2>3
<1>13. CASE Recount(th)
  <2>1. TypeOK'
    BY <1>13 DEF TypeOK, Recount
  <2>2. CountExact'
    <3>1. Counted = {th} /\ Cardinality(Counted) = 1
      BY <1>13, SoleIsOnlyCounted DEF Located, Recount, SoloLocation
    <3>2. Counted' = Counted
      BY <1>13, MoveKeepsCounted DEF Recount, Absent
    <3>3. \A t \in TestThread : pc'[t] \notin ZeroLocation
      BY <1>13, <3>1 DEF Recount, Counted, TypeOK, ZeroLocation, StopLocation
    <3> QED
      BY <1>13, <3>1, <3>2, <3>3 DEF Recount, CountExact, ZeroLocation
  <2>3. Located'
    BY <1>13 DEF TypeOK, Recount, Located, SoleThread, LocationPhase, MainPhase, StopsFinal, UnwindsApart,
           Absent, SoloLocation, StopLocation
  <2> QED
    BY <2>1, <2>2, <2>3
<1>14. CASE EnterSetup(th)
  <2>1. TypeOK'
    BY <1>14 DEF TypeOK, EnterSetup, EnterPhase
  <2>2. CountExact'
    <3>1. PICK to : /\ pc' = [pc EXCEPT ![th] = to]
                   /\ to \notin Absent \cup ZeroLocation
                   /\ pc[th] \notin Absent \cup ZeroLocation
      BY <1>14 DEF EnterSetup, EnterPhase, Absent, ZeroLocation, StopLocation
    <3> QED
      BY <1>14, <3>1, MoveKeepsCount DEF EnterSetup, EnterPhase
  <2>3. Located'
    BY <1>14 DEF TypeOK, EnterSetup, EnterPhase, Located, SoleThread, LocationPhase, MainPhase, StopsFinal, UnwindsApart,
           Absent, SoloLocation, StopLocation
  <2> QED
    BY <2>1, <2>2, <2>3
<1>15. CASE EnterMain(th)
  <2>1. TypeOK'
    BY <1>15 DEF TypeOK, EnterMain, EnterPhase
  <2>2. CountExact'
    <3>1. PICK to : /\ pc' = [pc EXCEPT ![th] = to]
                   /\ to \notin Absent \cup ZeroLocation
                   /\ pc[th] \notin Absent \cup ZeroLocation
      BY <1>15 DEF EnterMain, EnterPhase, Absent, ZeroLocation, StopLocation
    <3> QED
      BY <1>15, <3>1, MoveKeepsCount DEF EnterMain, EnterPhase
  <2>3. Located'
    BY <1>15 DEF TypeOK, EnterMain, EnterPhase, Located, SoleThread, LocationPhase, MainPhase, StopsFinal, UnwindsApart,
           Absent, SoloLocation, StopLocation
  <2> QED
    BY <2>1, <2>2, <2>3
<1>16. CASE EnterPrecleanup(th)
  <2>1. TypeOK'
    BY <1>16 DEF TypeOK, EnterPrecleanup, EnterPhase
  <2>2. CountExact'
    <3>1. PICK to : /\ pc' = [pc EXCEPT ![th] = to]
                   /\ to \notin Absent \cup ZeroLocation
                   /\ pc[th] \notin Absent \cup ZeroLocation
      BY <1>16 DEF EnterPrecleanup, EnterPhase, Absent, ZeroLocation, StopLocation
    <3> QED
      BY <1>16, <3>1, MoveKeepsCount DEF EnterPrecleanup, EnterPhase
  <2>3. Located'
    BY <1>16 DEF TypeOK, EnterPrecleanup, EnterPhase, Located, SoleThread, LocationPhase, MainPhase, StopsFinal, UnwindsApart,
           Absent, SoloLocation, StopLocation
  <2> QED
    BY <2>1, <2>2, <2>3
<1>17. CASE EnterCleanup(th)
  <2>1. TypeOK'
    BY <1>17 DEF TypeOK, EnterCleanup, EnterPhase
  <2>2. CountExact'
    <3>1. PICK to : /\ pc' = [pc EXCEPT ![th] = to]
                   /\ to \notin Absent \cup ZeroLocation
                   /\ pc[th] \notin Absent \cup ZeroLocation
      BY <1>17 DEF EnterCleanup, EnterPhase, Absent, ZeroLocation, StopLocation
    <3> QED
      BY <1>17, <3>1, MoveKeepsCount DEF EnterCleanup, EnterPhase
  <2>3. Located'
    BY <1>17 DEF TypeOK, EnterCleanup, EnterPhase, Located, SoleThread, LocationPhase, MainPhase, StopsFinal, UnwindsApart,
           Absent, SoloLocation, StopLocation
  <2> QED
    BY <2>1, <2>2, <2>3
<1>18. CASE EnterStopped(th)
  <2>1. TypeOK'
    BY <1>18 DEF TypeOK, EnterStopped
  <2>2. CountExact'
    BY <1>18 DEF EnterStopped, CountExact, TypeOK, StopLocation
  <2>3. Located'
    BY <1>18 DEF TypeOK, EnterStopped, Located, SoleThread, LocationPhase, MainPhase, StopsFinal, UnwindsApart,
           Absent, SoloLocation, StopLocation
  <2> QED
    BY <2>1, <2>2, <2>3
<1>19. CASE Setup(th)
  <2>1. TypeOK'
    BY <1>19 DEF TypeOK, Setup, CallEnd
  <2>2. CountExact'
    <3>1. PICK to : /\ pc' = [pc EXCEPT ![th] = to]
                   /\ to \notin Absent \cup ZeroLocation
                   /\ pc[th] \notin Absent \cup ZeroLocation
      BY <1>19 DEF Setup, CallEnd, Absent, ZeroLocation, StopLocation
    <3> QED
      BY <1>19, <3>1, MoveKeepsCount DEF Setup, CallEnd
  <2>3. Located'
    BY <1>19 DEF TypeOK, Setup, CallEnd, Located, SoleThread, LocationPhase, MainPhase, StopsFinal, UnwindsApart,
           Absent, SoloLocation, StopLocation
  <2> QED
    BY <2>1, <2>2, <2>3
<1>20. CASE Precleanup(th)
  <2>1. TypeOK'
    BY <1>20 DEF TypeOK, Precleanup, CallEnd
  <2>2. CountExact'
    <3>1. PICK to : /\ pc' = [pc EXCEPT ![th] = to]
                   /\ to \notin Absent \cup ZeroLocation
                   /\ pc[th] \notin Absent \cup ZeroLocation
      BY <1>20 DEF Precleanup, CallEnd, Absent, ZeroLocation, StopLocation
    <3> QED
      BY <1>20, <3>1, MoveKeepsCount DEF Precleanup, CallEnd
  <2>3. Located'
    BY <1>20 DEF TypeOK, Precleanup, CallEnd, Located, SoleThread, LocationPhase, MainPhase, StopsFinal, UnwindsApart,
           Absent, SoloLocation, StopLocation
  <2> QED
    BY <2>1, <2>2, <2>3
<1>21. CASE CleanupStartThread(th)
  <2>1. TypeOK'
    BY <1>21 DEF TypeOK, CleanupStartThread, CountThread
  <2>2. CountExact'
    <3>1. CountThread(th, "cleanup", "spawnCleanup", Cleanup)
      BY <1>21 DEF CleanupStartThread
    <3>2. pc[th] \notin Absent \cup ZeroLocation /\ th # Cleanup
      BY <3>1 DEF CountThread, Absent, ZeroLocation, StopLocation
    <3>3. \A t \in TestThread : pc[t] \notin ZeroLocation
      BY <3>2, NobodyZeroed DEF Located
    <3> QED
      BY <3>1, <3>2, <3>3, CreationIsCounted DEF Absent, ZeroLocation, StopLocation
  <2>3. Located'
    BY <1>21 DEF TypeOK, CleanupStartThread, CountThread, Located, SoleThread, LocationPhase, MainPhase, StopsFinal, UnwindsApart,
           Absent, SoloLocation, StopLocation
  <2> QED
    BY <2>1, <2>2, <2>3
<1>22. CASE CleanupCreate(th)
  <2>1. TypeOK'
    BY <1>22 DEF TypeOK, CleanupCreate, PthreadCreate
  <2>2. CountExact'
    BY <1>22, CreateKeepsCount DEF CleanupCreate, Absent, ZeroLocation, StopLocation
  <2>3. Located'
    BY <1>22 DEF TypeOK, CleanupCreate, PthreadCreate, Located, SoleThread, LocationPhase, MainPhase, StopsFinal, UnwindsApart,
           Absent, SoloLocation, StopLocation
  <2> QED
    BY <2>1, <2>2, <2>3
<1>23. CASE Unwind(th)
  <2>1. TypeOK'
    BY <1>23 DEF TypeOK, Unwind
  <2>2. CountExact'
    <3>1. CASE pc' = pc
      BY <1>23, <3>1, MainKeepsCount DEF Unwind
    <3>2. CASE pc' = [pc EXCEPT ![th] = "sieve"]
      BY <1>23, <3>2, MoveKeepsCount DEF Unwind, Absent, ZeroLocation, StopLocation
    <3> QED
      BY <1>23, <3>1, <3>2 DEF Unwind
  <2>3. Located'
    BY <1>23 DEF TypeOK, Unwind, Located, SoleThread, LocationPhase, MainPhase, StopsFinal, UnwindsApart,
           Absent, SoloLocation, StopLocation
  <2> QED
    BY <2>1, <2>2, <2>3
<1> QED
  BY <1>1, <1>2, <1>3, <1>4, <1>5, <1>6, <1>7, <1>8, <1>9, <1>10, <1>11, <1>12, <1>13, <1>14, <1>15, <1>16, <1>17, <1>18, <1>19, <1>20, <1>21, <1>22, <1>23 DEF ThreadStep

(* A step of test_broadcast_stop(), by the last test thread or by Main, for *)
(* whom no test thread ever existed.                                        *)
LEMMA StopStepKeeps ==
    ASSUME IInv, NEW th \in Thread, StopStep(th)
    PROVE  IInv'
<1> USE ThreadAssumption DEF IInv, Location, Thread, TestThread, Goto, At
<1> USE DEF PRESTART, SETUP, MAIN, PRECLEANUP, CLEANUP, STOPPED, Phase, MajorPhase,
            PASS, SKIP, FAIL, LOST, Result, NoResult
<1>0. /\ th \in TestThread => num_threads = 0 /\ pc[th] \in StopLocation
      /\ th \notin TestThread => th = Main /\ \A t \in TestThread : pc[t] = "unborn"
  <2>1. pc[th] \in StopLocation
    BY DEF StopStep, StopLock, StopSetPhase, StopUnlock, Broadcast, StopLocation
  <2> QED
    BY <2>1 DEF CountExact, Located, MainPhase
<1>1. CASE StopLock(th)
  <2>1. TypeOK'
    BY <1>1 DEF TypeOK, StopLock
  <2>2. CountExact'
    <3>1. CASE th \in TestThread
      BY <1>0, <1>1, <3>1 DEF StopLock, CountExact, TypeOK, StopLocation
    <3>2. CASE th \notin TestThread
      BY <1>0, <1>1, <3>2, MainKeepsCount DEF StopLock, TypeOK
    <3> QED
      BY <3>1, <3>2
  <2>3. Located'
    BY <1>1 DEF TypeOK, StopLock, Located, SoleThread, LocationPhase, MainPhase, StopsFinal, UnwindsApart,
           Absent, SoloLocation, StopLocation
  <2> QED
    BY <2>1, <2>2, <2>3
<1>2. CASE StopSetPhase(th)
  <2>1. TypeOK'
    BY <1>2 DEF TypeOK, StopSetPhase
  <2>2. CountExact'
    <3>1. CASE th \in TestThread
      BY <1>0, <1>2, <3>1 DEF StopSetPhase, CountExact, TypeOK, StopLocation
    <3>2. CASE th \notin TestThread
      BY <1>0, <1>2, <3>2, MainKeepsCount DEF StopSetPhase, TypeOK
    <3> QED
      BY <3>1, <3>2
  <2>3. Located'
    BY <1>2 DEF TypeOK, StopSetPhase, Located, SoleThread, LocationPhase, MainPhase, StopsFinal, UnwindsApart,
           Absent, SoloLocation, StopLocation
  <2> QED
    BY <2>1, <2>2, <2>3
<1>3. CASE StopUnlock(th)
  <2>1. TypeOK'
    BY <1>3 DEF TypeOK, StopUnlock
  <2>2. CountExact'
    <3>1. CASE th \in TestThread
      BY <1>0, <1>3, <3>1 DEF StopUnlock, CountExact, TypeOK, StopLocation
    <3>2. CASE th \notin TestThread
      BY <1>0, <1>3, <3>2, MainKeepsCount DEF StopUnlock, TypeOK
    <3> QED
      BY <3>1, <3>2
  <2>3. Located'
    BY <1>3 DEF TypeOK, StopUnlock, Located, SoleThread, LocationPhase, MainPhase, StopsFinal, UnwindsApart,
           Absent, SoloLocation, StopLocation
  <2> QED
    BY <2>1, <2>2, <2>3
<1>4. CASE Broadcast(th)
  <2>1. TypeOK'
    BY <1>4 DEF TypeOK, Broadcast
  <2>2. CountExact'
    <3>1. CASE th \in TestThread
      <4>1. Counted' = {} /\ num_threads' = 0
        BY <1>0, <1>4, <3>1 DEF Broadcast, Counted, TypeOK, Located, SoleThread,
           Absent, SoloLocation
      <4>2. \A t \in TestThread : pc'[t] \in Absent
        BY <4>1 DEF Counted, Absent
      <4> QED
        BY <4>1, <4>2, FS_EmptySet DEF CountExact, Absent, StopLocation
    <3>2. CASE th \notin TestThread
      BY <1>0, <1>4, <3>2, MainKeepsCount DEF Broadcast, TypeOK
    <3> QED
      BY <3>1, <3>2
  <2>3. Located'
    BY <1>4 DEF TypeOK, Broadcast, Located, SoleThread, LocationPhase, MainPhase, StopsFinal, UnwindsApart,
           Absent, SoloLocation, StopLocation
  <2> QED
    BY <2>1, <2>2, <2>3
<1> QED
  BY <1>1, <1>2, <1>3, <1>4 DEF StopStep

(* A step of run_test_def().                                                *)
LEMMA MainStepKeeps ==
    ASSUME IInv, MainStep \/ WakeSpuriously
    PROVE  IInv'
<1> USE ThreadAssumption DEF IInv, Location, Thread, TestThread, Goto, At
<1> USE DEF PRESTART, SETUP, MAIN, PRECLEANUP, CLEANUP, STOPPED, Phase, MajorPhase,
            PASS, SKIP, FAIL, LOST, Result, NoResult
<1>1. CASE StartSkipped
  <2>1. TypeOK'
    BY <1>1 DEF TypeOK, StartSkipped
  <2>2. CountExact'
    BY <1>1, MainKeepsCount DEF TypeOK, StartSkipped
  <2>3. Located'
    BY <1>1 DEF TypeOK, StartSkipped, Located, SoleThread, LocationPhase, MainPhase, StopsFinal, UnwindsApart,
           Absent, SoloLocation, StopLocation
  <2> QED
    BY <2>1, <2>2, <2>3
<1>2. CASE StartTest
  <2>1. TypeOK'
    BY <1>2 DEF TypeOK, StartTest, CountThread
  <2>2. CountExact'
    <3>1. CountThread(Main, "start", "spawnFirst", First)
      BY <1>2 DEF StartTest
    <3>2. \A t \in TestThread : pc[t] \notin ZeroLocation
      BY <3>1 DEF CountThread, Located, MainPhase, ZeroLocation, StopLocation
    <3> QED
      BY <3>1, <3>2, CreationIsCounted
  <2>3. Located'
    BY <1>2 DEF TypeOK, StartTest, CountThread, Located, SoleThread, LocationPhase, MainPhase, StopsFinal, UnwindsApart,
           Absent, SoloLocation, StopLocation
  <2> QED
    BY <2>1, <2>2, <2>3
<1>3. CASE StartCreate
  <2>1. TypeOK'
    BY <1>3 DEF TypeOK, StartCreate, PthreadCreate
  <2>2. CountExact'
    BY <1>3, CreateKeepsCount DEF StartCreate
  <2>3. Located'
    BY <1>3 DEF TypeOK, StartCreate, PthreadCreate, Located, SoleThread, LocationPhase, MainPhase, StopsFinal, UnwindsApart,
           Absent, SoloLocation, StopLocation
  <2> QED
    BY <2>1, <2>2, <2>3
<1>4. CASE WaitLock
  <2>1. TypeOK'
    BY <1>4 DEF TypeOK, WaitLock
  <2>2. CountExact'
    BY <1>4, MainKeepsCount DEF TypeOK, WaitLock
  <2>3. Located'
    BY <1>4 DEF TypeOK, WaitLock, Located, SoleThread, LocationPhase, MainPhase, StopsFinal, UnwindsApart,
           Absent, SoloLocation, StopLocation
  <2> QED
    BY <2>1, <2>2, <2>3
<1>5. CASE WaitCheck
  <2>1. TypeOK'
    BY <1>5 DEF TypeOK, WaitCheck
  <2>2. CountExact'
    BY <1>5, MainKeepsCount DEF TypeOK, WaitCheck
  <2>3. Located'
    BY <1>5 DEF TypeOK, WaitCheck, Located, SoleThread, LocationPhase, MainPhase, StopsFinal, UnwindsApart,
           Absent, SoloLocation, StopLocation
  <2> QED
    BY <2>1, <2>2, <2>3
<1>6. CASE WaitUnlock
  <2>1. TypeOK'
    BY <1>6 DEF TypeOK, WaitUnlock
  <2>2. CountExact'
    BY <1>6, MainKeepsCount DEF TypeOK, WaitUnlock
  <2>3. Located'
    BY <1>6 DEF TypeOK, WaitUnlock, Located, SoleThread, LocationPhase, MainPhase, StopsFinal, UnwindsApart,
           Absent, SoloLocation, StopLocation
  <2> QED
    BY <2>1, <2>2, <2>3
<1>7. CASE GetResult
  <2>1. TypeOK'
    BY <1>7 DEF TypeOK, GetResult
  <2>2. CountExact'
    BY <1>7, MainKeepsCount DEF TypeOK, GetResult
  <2>3. Located'
    BY <1>7 DEF TypeOK, GetResult, Located, SoleThread, LocationPhase, MainPhase, StopsFinal, UnwindsApart,
           Absent, SoloLocation, StopLocation
  <2> QED
    BY <2>1, <2>2, <2>3
<1>8. CASE Destroy
  <2>1. TypeOK'
    BY <1>8 DEF TypeOK, Destroy
  <2>2. CountExact'
    BY <1>8, MainKeepsCount DEF TypeOK, Destroy
  <2>3. Located'
    BY <1>8 DEF TypeOK, Destroy, Located, SoleThread, LocationPhase, MainPhase, StopsFinal, UnwindsApart,
           Absent, SoloLocation, StopLocation
  <2> QED
    BY <2>1, <2>2, <2>3
<1>9. CASE WakeSpuriously
  <2>1. TypeOK'
    BY <1>9 DEF TypeOK, WakeSpuriously
  <2>2. CountExact'
    BY <1>9, MainKeepsCount DEF TypeOK, WakeSpuriously
  <2>3. Located'
    BY <1>9 DEF TypeOK, WakeSpuriously, Located, SoleThread, LocationPhase, MainPhase, StopsFinal, UnwindsApart,
           Absent, SoloLocation, StopLocation
  <2> QED
    BY <2>1, <2>2, <2>3
<1> QED
  BY <1>1, <1>2, <1>3, <1>4, <1>5, <1>6, <1>7, <1>8, <1>9 DEF MainStep

(* The new test satisfies it.                                               *)
LEMMA InitEstablishes == Init => IInv
<1> SUFFICES ASSUME Init PROVE IInv
  OBVIOUS
<1> USE ThreadAssumption DEF Init, Location, Thread, TestThread
<1> USE DEF PRESTART, SETUP, MAIN, PRECLEANUP, CLEANUP, STOPPED, Phase, MajorPhase,
            PASS, SKIP, FAIL, LOST, Result, NoResult
<1>1. TypeOK
  <2>1. cleanup_stacks \in Seq(TestThread)
    OBVIOUS
  <2>2. pc \in [Thread -> Location] /\ ending \in [Thread -> Result]
    OBVIOUS
  <2>3. result_is_final \in BOOLEAN
    OBVIOUS
  <2>4. /\ phase \in Phase /\ num_threads \in Nat /\ result \in Result
        /\ stop_mutex \in Thread \cup {NoThread} /\ opt \in Option
        /\ reported \in Result \cup {NoResult}
    OBVIOUS
  <2> HIDE DEF Init, Location, Thread, TestThread, Phase, Result, NoResult
  <2> QED
    BY <2>1, <2>2, <2>3, <2>4 DEF TypeOK
<1>2. CountExact
  <2>1. Counted = {}
    BY DEF Counted
  <2> QED
    BY <2>1, FS_EmptySet DEF CountExact, StopLocation
<1>3. Located
  BY DEF Located, SoleThread, LocationPhase, MainPhase, StopsFinal, UnwindsApart,
         Absent, SoloLocation, StopLocation
<1> QED
  BY <1>1, <1>2, <1>3 DEF IInv

LEMMA NextKeeps == IInv /\ [Next]_vars => IInv'
<1> SUFFICES ASSUME IInv, [Next]_vars PROVE IInv'
  OBVIOUS
<1>1. CASE \E th \in TestThread : ThreadStep(th)
  BY <1>1, ThreadStepKeeps
<1>2. CASE \E th \in Thread : StopStep(th)
  BY <1>2, StopStepKeeps
<1>3. CASE MainStep \/ WakeSpuriously
  BY <1>3, MainStepKeeps
<1>4. CASE UNCHANGED vars
  BY <1>4 DEF vars, IInv, TypeOK, CountExact, Counted, StopLocation, Located, SoleThread,
     LocationPhase, MainPhase, StopsFinal, UnwindsApart
<1> QED
  BY <1>1, <1>2, <1>3, <1>4 DEF Next, Finished

-----------------------------------------------------------------------------
(* What follows.                                                            *)

(* The inductive invariant holds in every run of a test, whatever number of *)
(* threads it starts: the thread count of t_thread.c is exact and the phase *)
(* of t_phases.c stands still while more than one thread is counted.        *)
THEOREM Invariance == Spec => []IInv
BY InitEstablishes, NextKeeps, PTL DEF Spec

(* Every variable of a test keeps its type; num_threads, decremented without*)
(* a check by t_thread_sieve(), never becomes negative.                     *)
THEOREM TypeCorrect == Spec => []TypeOK
<1>1. IInv => TypeOK
  BY DEF IInv
<1> QED
  BY <1>1, Invariance, PTL

(* test::num_threads is the number of threads that t_thread.c has counted   *)
(* and not yet let go, but for the sieve's window and the stopped phase.    *)
THEOREM CountIsExact == Spec => []CountExact
<1>1. IInv => CountExact
  BY DEF IInv
<1> QED
  BY <1>1, Invariance, PTL

(* No assert() or log_internal_error() on the count or the phase, in        *)
(* t_thread.c, t_phases.c, t_result.c or test.c, can fail.                  *)
THEOREM AssertsHold == Spec => []CodeAsserts
<1>1. IInv => CodeAsserts
  <2> SUFFICES ASSUME IInv PROVE CodeAsserts
    OBVIOUS
  <2> USE DEF IInv, TypeOK, Located, LocationPhase, MainPhase, PRESTART, SETUP, MAIN,
              PRECLEANUP, CLEANUP, STOPPED, Phase, MajorPhase, StopLocation
  <2>1. ASSUME NEW th \in TestThread, pc[th] \in {"sieve", "advance"}
        PROVE  num_threads >= 1 /\ (pc[th] = "advance" => num_threads = 1)
    <3>1. th \in Counted
      BY <2>1 DEF Counted
    <3>2. \A t \in TestThread : pc[t] \notin ZeroLocation
      BY <2>1, NobodyZeroed DEF Absent, ZeroLocation
    <3>3. num_threads = Cardinality(Counted) /\ num_threads >= 1
      BY <3>1, <3>2, CountedPositive
    <3> QED
      BY <2>1, <3>3, SoleIsOnlyCounted DEF SoloLocation
  <2>2. ASSUME NEW th \in TestThread
        PROVE  /\ pc[th] \in {"body", "yielding", "spawn", "complaining", "ending",
                             "merging", "setup", "precleanup", "cleanup", "spawnCleanup"}
                    => phase \in MajorPhase
               /\ pc[th] \in {"release", "sieve", "advance"} => phase < STOPPED
               /\ pc[th] = "unwind" => phase = CLEANUP
    BY DEF Absent
  <2>3. ASSUME NEW th \in Thread, pc[th] = "stopping"
        PROVE  num_threads = 0 /\ phase < STOPPED
    BY <2>3 DEF CountExact, Thread
  <2>4. /\ pc[Main] = "getResult" => phase = STOPPED
        /\ pc[Main] = "destroy" => phase = STOPPED /\ num_threads = 0
    <3>1. SUFFICES ASSUME phase = STOPPED PROVE num_threads = 0
      BY DEF MainPhase
    <3>2. CASE \A t \in TestThread : pc[t] \in Absent
      <4>1. Counted = {}
        BY <3>2 DEF Counted, Absent
      <4> QED
        BY <3>2, <4>1, FS_EmptySet DEF CountExact, Absent
    <3>3. CASE \E t \in TestThread : pc[t] \in {"stopUnlock", "broadcast"}
      BY <3>3 DEF CountExact
    <3> QED
      BY <3>1, <3>2, <3>3
  <2> QED
    BY <2>1, <2>2, <2>3, <2>4 DEF CodeAsserts, At
<1> QED
  BY <1>1, Invariance, PTL

(* While t_unwind_cleanup_stacks() runs, no other thread can prepend a stack*)
(* or push onto one.                                                        *)
THEOREM UnwindIsAlone == Spec => []UnwindsAlone
<1>1. IInv => UnwindsAlone
  BY DEF IInv, Located, UnwindsApart, UnwindsAlone, At
<1> QED
  BY <1>1, Invariance, PTL

(* run_test_def() reads a result that nobody can change any more.           *)
THEOREM ReportIsFinal == Spec => []ReportedIsFinal
<1>1. IInv => ReportedIsFinal
  BY DEF IInv, Located, LocationPhase, MainPhase, StopsFinal, ReportedIsFinal, Absent
<1> QED
  BY <1>1, Invariance, PTL

(* t_enter_next_phase() and test_broadcast_stop() move the phase when at    *)
(* most one test thread is left, and only to the phase that comes next.     *)
THEOREM PhaseChangesAreAlone == Spec => PhaseChangesAlone
<1> DEFINE Alone ==
        /\ phase' = phase + 1 \/ (opt.skip /\ phase' = STOPPED)
        /\ Cardinality(Running) <= 1
        /\ \A th \in TestThread : pc[th] # "creating"
<1>1. ASSUME IInv, NEW th \in TestThread, pc[th] \in SoloLocation
      PROVE  Cardinality(Running) <= 1 /\ \A t \in TestThread : pc[t] # "creating"
  <2>1. Running \subseteq Counted /\ Cardinality(Counted) = 1
    BY <1>1, SoleIsOnlyCounted DEF Running, Counted, IInv, Located
  <2>2. Cardinality(Running) <= 1
    BY <2>1, CountedFinite, FS_Subset
  <2> QED
    BY <1>1, <2>2 DEF IInv, Located, SoleThread, Absent, SoloLocation, StopLocation
<1>2. IInv /\ [Next]_vars => [phase' # phase => Alone]_vars
  <2> SUFFICES ASSUME IInv, Next, phase' # phase PROVE Alone
    BY DEF vars
  <2> USE DEF PRESTART, SETUP, MAIN, PRECLEANUP, CLEANUP, STOPPED
  <2>1. CASE \E th \in TestThread : ThreadStep(th)
    <3>1. PICK th \in TestThread : ThreadStep(th)
      BY <2>1
    <3>2. pc[th] = "advance" /\ phase' = phase + 1
      BY <3>1 DEF ThreadStep, EnterThread, StartThread, UserStartThread, CountThread,
         UserCreate, PthreadCreate, UserYield, UserResume, YieldTo, UserFinish, UserEnd,
         UserReturn, CallEnd, Complain, End, Merge, Release, Sieve, Recount, EnterSetup,
         EnterMain, EnterPrecleanup, EnterCleanup, EnterPhase, EnterStopped, Setup,
         Precleanup, CleanupStartThread, CleanupCreate, Unwind, Goto, At
    <3> QED
      BY <3>2, <1>1 DEF SoloLocation
  <2>2. CASE \E th \in Thread : StopStep(th)
    <3>1. PICK th \in Thread : pc[th] = "stopping" /\ phase' = STOPPED
      BY <2>2 DEF StopStep, StopLock, StopSetPhase, StopUnlock, Broadcast, Goto, At
    <3>2. CASE th \in TestThread
      BY <3>1, <3>2, <1>1 DEF SoloLocation, StopLocation, IInv, Located, LocationPhase
    <3>3. CASE th = Main
      <4>1. opt.skip /\ \A t \in TestThread : pc[t] = "unborn"
        BY <3>1, <3>3 DEF IInv, Located, MainPhase, StopLocation
      <4>2. Running = {}
        BY <4>1 DEF Running
      <4> QED
        BY <3>1, <4>1, <4>2, FS_EmptySet
    <3> QED
      BY <3>2, <3>3 DEF Thread
  <2>3. CASE MainStep \/ WakeSpuriously \/ Finished
    BY <2>3 DEF MainStep, WakeSpuriously, Finished, vars, StartSkipped, StartTest,
       CountThread, StartCreate, PthreadCreate, WaitLock, WaitCheck, WaitUnlock,
       GetResult, Destroy
  <2> QED
    BY <2>1, <2>2, <2>3 DEF Next
<1> QED
  BY <1>2, Invariance, PTL DEF Spec, PhaseChangesAlone
-----------------------------------------------------------------------------
(* The order of the cleanup stacks.                                         *)

(* A step that leaves the list of stacks alone, lets nobody but Main bring  *)
(* the first thread to life and moves no thread back keeps the order.       *)
LEMMA QuietKeepsOrder ==
    ASSUME StackOrder, cleanup_stacks' = cleanup_stacks,
           pc[First] \notin Early => pc'[First] \notin Early,
           pc[First] \in Early =>
               \A t \in TestThread \ {First} : pc'[t] = pc[t]
    PROVE  StackOrder'
<1>1. First \in TestThread
  BY DEF TestThread
<1>2. DeviceStackLast'
  BY DEF StackOrder, DeviceStackLast
<1>3. pc'[First] \in Early =>
          /\ cleanup_stacks' = <<>>
          /\ \A t \in TestThread \ {First} : pc'[t] = "unborn"
  BY DEF StackOrder
<1> QED
  BY <1>2, <1>3 DEF StackOrder

(* A test thread that has got past its entry and moves on is such a step:   *)
(* it shows that the first thread is past its entry too.                    *)
LEMMA MoveKeepsOrder ==
    ASSUME TypeOK, StackOrder, cleanup_stacks' = cleanup_stacks,
           NEW th \in TestThread, NEW to,
           pc' = [pc EXCEPT ![th] = to], pc[th] \notin Early, to \notin Early
    PROVE  StackOrder'
<1>1. pc[First] \notin Early /\ pc'[First] \notin Early
  BY DEF StackOrder, Early, TypeOK, Thread, TestThread
<1> QED
  BY <1>1, QuietKeepsOrder

(* So is starting a thread, by a test thread or by test_start().            *)
LEMMA CreationKeepsOrder ==
    ASSUME TypeOK, StackOrder, cleanup_stacks' = cleanup_stacks,
           NEW th \in Thread, NEW from, NEW to, from \notin Early, to \notin Early,
           \/ \E child \in TestThread :
                 CountThread(th, from, to, child) /\ (th = Main => child = First)
           \/ PthreadCreate(th, from, to)
    PROVE  StackOrder'
<1>0. First \in Thread
  BY DEF Thread, TestThread
<1>1. th \in TestThread => pc[First] \notin Early
  BY DEF StackOrder, CountThread, PthreadCreate, At, Early
<1>2. PICK child \in TestThread, loc \in {"creating", "entry", "failed"} :
          /\ pc[child] \in {"unborn", "creating"}
          /\ pc' = [pc EXCEPT ![th] = to, ![child] = loc]
          /\ pc[First] \in Early => child = First
  BY <1>1 DEF StackOrder, CountThread, PthreadCreate, At, Early, Thread
<1>3. pc[First] \notin Early => pc'[First] \notin Early
  BY <1>0, <1>2 DEF TypeOK, Early
<1>4. pc[First] \in Early => \A t \in TestThread \ {First} : pc'[t] = pc[t]
  BY <1>1, <1>2 DEF TypeOK, Thread
<1> QED
  BY <1>3, <1>4, QuietKeepsOrder

(* A thread makes its stack visible in front of those that are there: the   *)
(* first thread's is the only one when it comes, and stays the last.        *)
LEMMA EntryKeepsOrder ==
    ASSUME TypeOK, StackOrder, NEW th \in TestThread, EnterThread(th)
    PROVE  StackOrder'
<1>0. /\ pc[th] = "entry" /\ pc' = [pc EXCEPT ![th] = "bound"]
      /\ cleanup_stacks' = <<th>> \o cleanup_stacks
      /\ First \in TestThread /\ First \in Thread /\ th \in Thread
      /\ cleanup_stacks \in Seq(TestThread)
  BY DEF EnterThread, Goto, At, Thread, TestThread, TypeOK
<1>1. pc'[First] \notin Early
  BY <1>0 DEF StackOrder, Early, TypeOK
<1>2. DeviceStackLast'
  <2> SUFFICES ASSUME NEW i \in DOMAIN (<<th>> \o cleanup_stacks),
                      (<<th>> \o cleanup_stacks)[i] = First
               PROVE  i = Len(<<th>> \o cleanup_stacks)
    BY <1>0 DEF DeviceStackLast
  <2>1. CASE th = First
    <3>1. cleanup_stacks = <<>>
      BY <1>0, <2>1 DEF StackOrder, Early
    <3> QED
      BY <3>1
  <2>2. CASE th # First
    <3>1. i \in 1..(Len(cleanup_stacks) + 1) /\ i # 1
      BY <1>0, <2>2
    <3>2. i - 1 \in DOMAIN cleanup_stacks /\ cleanup_stacks[i - 1] = First
      BY <1>0, <3>1
    <3> QED
      BY <1>0, <3>1, <3>2 DEF StackOrder, DeviceStackLast
  <2> QED
    BY <2>1, <2>2
<1> QED
  BY <1>1, <1>2 DEF StackOrder

(* t_unwind_cleanup_stacks() takes them from the front.                     *)
LEMMA UnwindKeepsOrder ==
    ASSUME TypeOK, StackOrder, NEW th \in TestThread, Unwind(th)
    PROVE  StackOrder'
<1>1. CASE cleanup_stacks = <<>>
  <2>1. pc[th] = "unwind" /\ pc' = [pc EXCEPT ![th] = "sieve"]
        /\ cleanup_stacks' = cleanup_stacks
    BY <1>1 DEF Unwind, At
  <2> QED
    BY <2>1, MoveKeepsOrder DEF Early
<1>2. CASE cleanup_stacks # <<>>
  <2>1. pc' = pc /\ cleanup_stacks' = Tail(cleanup_stacks)
        /\ cleanup_stacks \in Seq(TestThread)
    BY <1>2 DEF Unwind, TypeOK
  <2>2. pc[First] \notin Early
    BY <1>2 DEF StackOrder
  <2>3. DeviceStackLast'
    <3> SUFFICES ASSUME NEW i \in DOMAIN Tail(cleanup_stacks),
                        Tail(cleanup_stacks)[i] = First
                 PROVE  i = Len(Tail(cleanup_stacks))
      BY <2>1 DEF DeviceStackLast
    <3>1. i + 1 \in DOMAIN cleanup_stacks /\ cleanup_stacks[i + 1] = First
      BY <1>2, <2>1
    <3> QED
      BY <1>2, <2>1, <3>1 DEF StackOrder, DeviceStackLast
  <2> QED
    BY <2>1, <2>2, <2>3 DEF StackOrder
<1> QED
  BY <1>1, <1>2

LEMMA NextKeepsOrder == TypeOK /\ StackOrder /\ [Next]_vars => StackOrder'
<1> SUFFICES ASSUME TypeOK, StackOrder, [Next]_vars PROVE StackOrder'
  OBVIOUS
<1>1. ASSUME NEW th \in TestThread, ThreadStep(th) PROVE StackOrder'
  <2>0. th \in Thread /\ th # Main
    BY ThreadAssumption DEF Thread, TestThread
  <2>1. CASE EnterThread(th)
    BY <2>1, EntryKeepsOrder
  <2>2. CASE Unwind(th)
    BY <2>2, UnwindKeepsOrder
  <2>3. CASE UserStartThread(th) \/ UserCreate(th) \/ CleanupStartThread(th) \/ CleanupCreate(th)
    <3>1. PICK from \in {"body", "spawn", "cleanup", "spawnCleanup"},
               to \in {"spawn", "body", "spawnCleanup", "release"} :
              \/ \E child \in TestThread : CountThread(th, from, to, child)
              \/ PthreadCreate(th, from, to)
      BY <2>3 DEF UserStartThread, UserCreate, CleanupStartThread, CleanupCreate, TestThread
    <3>2. cleanup_stacks' = cleanup_stacks
      BY <2>3 DEF UserStartThread, UserCreate, CleanupStartThread, CleanupCreate, PthreadCreate
    <3> QED
      BY <2>0, <3>1, <3>2, CreationKeepsOrder DEF Early
  <2>4. CASE \/ StartThread(th) \/ UserYield(th) \/ UserResume(th) \/ UserFinish(th)
             \/ Complain(th) \/ End(th) \/ Merge(th) \/ Release(th) \/ Sieve(th)
             \/ Recount(th) \/ EnterSetup(th) \/ EnterMain(th) \/ EnterPrecleanup(th)
             \/ EnterCleanup(th) \/ EnterStopped(th) \/ Setup(th) \/ Precleanup(th)
    <3>1. PICK to : /\ pc' = [pc EXCEPT ![th] = to] /\ cleanup_stacks' = cleanup_stacks
                   /\ pc[th] \notin Early /\ to \notin Early
      BY <2>4 DEF StartThread, StartFunc, YieldTo, UserYield, UserResume, UserFinish,
         UserEnd, UserReturn, CallEnd, Complain, End, Merge, Release, Sieve, Recount,
         EnterSetup, EnterMain, EnterPrecleanup, EnterCleanup, EnterPhase, EnterStopped,
         Setup, Precleanup, Goto, At, Early
    <3> QED
      BY <3>1, MoveKeepsOrder
  <2> QED
    BY <1>1, <2>1, <2>2, <2>3, <2>4 DEF ThreadStep
<1>2. ASSUME NEW th \in Thread, StopStep(th) PROVE StackOrder'
  <2>1. CASE StopLock(th) \/ StopSetPhase(th) \/ StopUnlock(th)
    <3>1. PICK to : /\ pc' = [pc EXCEPT ![th] = to] /\ cleanup_stacks' = cleanup_stacks
                   /\ pc[th] \notin Early /\ to \notin Early
      BY <2>1 DEF StopLock, StopSetPhase, StopUnlock, Goto, At, Early
    <3>2. CASE th \in TestThread
      BY <3>1, <3>2, MoveKeepsOrder
    <3>3. CASE th = Main
      BY <3>1, <3>3, ThreadAssumption, QuietKeepsOrder DEF TypeOK, Thread, TestThread
    <3> QED
      BY <3>2, <3>3 DEF Thread
  <2>2. CASE Broadcast(th)
    <3>1. /\ cleanup_stacks' = cleanup_stacks /\ pc[th] = "broadcast"
          /\ \A t \in TestThread : pc'[t] = pc[t] \/ (pc[t] # "unborn" /\ pc'[t] \notin Early)
      BY <2>2, ThreadAssumption DEF Broadcast, At, Early, Thread, TestThread
    <3>2. pc[First] \notin Early => pc'[First] \notin Early
      BY <3>1 DEF TestThread
    <3>3. pc[First] \in Early => \A t \in TestThread \ {First} : pc'[t] = pc[t]
      BY <3>1 DEF StackOrder
    <3> QED
      BY <3>1, <3>2, <3>3, QuietKeepsOrder
  <2> QED
    BY <1>2, <2>1, <2>2 DEF StopStep
<1>3. CASE MainStep \/ WakeSpuriously
  <2>0. Main \in Thread /\ Main \notin TestThread /\ First \in TestThread
    BY ThreadAssumption DEF Thread, TestThread
  <2>1. CASE StartTest \/ StartCreate
    <3>1. cleanup_stacks' = cleanup_stacks
      BY <2>1 DEF StartTest, StartCreate, PthreadCreate
    <3>2. \/ CountThread(Main, "start", "spawnFirst", First)
          \/ PthreadCreate(Main, "spawnFirst", "wait")
      BY <2>1 DEF StartTest, StartCreate
    <3>3. CASE CountThread(Main, "start", "spawnFirst", First)
      BY <2>0, <3>1, <3>3, CreationKeepsOrder DEF Early
    <3>4. CASE PthreadCreate(Main, "spawnFirst", "wait")
      BY <2>0, <3>1, <3>4, CreationKeepsOrder DEF Early
    <3> QED
      BY <3>2, <3>3, <3>4
  <2>2. CASE \/ StartSkipped \/ WaitLock \/ WaitCheck \/ WaitUnlock \/ GetResult \/ Destroy
             \/ WakeSpuriously
    <3>1. cleanup_stacks' = cleanup_stacks /\ \A t \in TestThread : pc'[t] = pc[t]
      BY <2>0, <2>2 DEF StartSkipped, WaitLock, WaitCheck, WaitUnlock, GetResult, Destroy,
         WakeSpuriously, Goto, TypeOK, Thread
    <3> QED
      BY <2>0, <3>1, QuietKeepsOrder
  <2> QED
    BY <1>3, <2>1, <2>2 DEF MainStep
<1>4. CASE UNCHANGED vars
  BY <1>4, QuietKeepsOrder DEF vars
<1> QED
  BY <1>1, <1>2, <1>3, <1>4 DEF Next, Finished

(* Whatever threads a test starts, and in whatever order they come to       *)
(* prepend their stacks, the start thread's stack, with the VkDevice and the*)
(* instance, is the last of the list and so the last to be run down.        *)
THEOREM DeviceStackIsLast == Spec => []DeviceStackLast
<1>1. Init => StackOrder
  BY ThreadAssumption DEF Init, StackOrder, DeviceStackLast, Early, Thread, TestThread
<1>2. StackOrder => DeviceStackLast
  BY DEF StackOrder
<1> QED
  BY <1>1, <1>2, NextKeepsOrder, TypeCorrect, PTL DEF Spec

-----------------------------------------------------------------------------
(* The cleanup phase without a cleanup thread.                              *)

(* Where the result thread has left the unwinding, and where it may stand   *)
(* in the cleanup phase at all.                                             *)
Unwound == {"sieve", "lone", "advance", "stopLock", "stopping"}
InlineLocation == {"unborn", "exited", "unwind"} \cup Unwound

(* A step within a phase, of a thread that has no business in the cleanup   *)
(* phase, keeps the invariant.                                              *)
LEMMA OutsideKeepsInline ==
    ASSUME opt.no_separate_cleanup_thread => phase # CLEANUP,
           InlineCleanup, phase' = phase, opt' = opt, cleanup_stacks' = cleanup_stacks,
           opt.no_separate_cleanup_thread =>
               \A t \in TestThread : pc'[t] \notin {"cleanup", "spawnCleanup"}
    PROVE  InlineCleanup'
BY DEF InlineCleanup

(* So does one that leaves the list of stacks as it is and moves the result *)
(* thread on.                                                               *)
LEMMA InsideKeepsInline ==
    ASSUME InlineCleanup, phase' = phase, opt' = opt, cleanup_stacks' = cleanup_stacks,
           \A t \in TestThread :
               \/ pc'[t] = pc[t]
               \/ pc[t] \notin {"unborn", "exited", "unwind"}
                  /\ pc'[t] \in {"unborn", "exited"} \cup Unwound
    PROVE  InlineCleanup'
BY DEF InlineCleanup, Unwound

LEMMA ThreadKeepsInline ==
    ASSUME IInv, InlineCleanup, NEW th \in TestThread, ThreadStep(th)
    PROVE  InlineCleanup'
<1> USE DEF PRESTART, SETUP, MAIN, PRECLEANUP, CLEANUP, STOPPED
<1>0. /\ pc \in [Thread -> Location] /\ th \in Thread /\ TestThread \subseteq Thread
      /\ User \subseteq TestThread /\ Cleanup \in TestThread
  BY DEF IInv, TypeOK, Thread, TestThread
<1>1. CASE EnterThread(th)
  <2>1. /\ pc[th] = "entry" /\ pc' = [pc EXCEPT ![th] = "bound"]
        /\ phase' = phase /\ opt' = opt
    BY <1>1 DEF EnterThread, Goto, At
  <2>2. phase # STOPPED /\ (opt.no_separate_cleanup_thread => phase # CLEANUP)
    BY <2>1 DEF InlineCleanup, IInv, Located, LocationPhase, Absent
  <2> QED
    BY <1>0, <2>1, <2>2 DEF InlineCleanup
<1>2. CASE Unwind(th)
  <2>1. phase = CLEANUP /\ phase' = phase /\ opt' = opt /\ pc[th] = "unwind"
    BY <1>2 DEF Unwind, At, IInv, Located, LocationPhase
  <2>2. CASE cleanup_stacks = <<>>
    <3>1. pc' = [pc EXCEPT ![th] = "sieve"] /\ cleanup_stacks' = <<>>
      BY <1>2, <2>2 DEF Unwind
    <3> QED
      BY <1>0, <2>1, <2>2, <3>1 DEF InlineCleanup
  <2>3. CASE cleanup_stacks # <<>>
    <3>1. pc' = pc
      BY <1>2, <2>3 DEF Unwind
    <3> QED
      BY <2>1, <2>3, <3>1 DEF InlineCleanup
  <2> QED
    BY <2>2, <2>3
<1>3. CASE EnterCleanup(th)
  <2>1. /\ pc[th] = "advance" /\ phase' = CLEANUP /\ opt' = opt
        /\ opt.no_separate_cleanup_thread => pc' = [pc EXCEPT ![th] = "unwind"]
    BY <1>3 DEF EnterCleanup, EnterPhase, Goto, At
  <2>2. \A t \in TestThread : t # th => pc[t] \in {"unborn", "exited"}
    BY <2>1 DEF IInv, Located, SoleThread, SoloLocation, Absent
  <2> QED
    BY <1>0, <2>1, <2>2 DEF InlineCleanup
<1>4. CASE EnterSetup(th) \/ EnterMain(th) \/ EnterPrecleanup(th)
  <2>1. /\ phase' \in {SETUP, MAIN, PRECLEANUP} /\ opt' = opt
        /\ \A t \in TestThread :
              pc'[t] = pc[t] \/ pc'[t] \in {"setup", "sieve", "body", "precleanup"}
    BY <1>0, <1>4 DEF EnterSetup, EnterMain, EnterPrecleanup, EnterPhase, Goto, At
  <2> QED
    BY <2>1 DEF InlineCleanup
<1>5. CASE Sieve(th) \/ Recount(th) \/ EnterStopped(th)
  <2>1. /\ pc[th] \in {"sieve", "lone", "advance"}
        /\ \A t \in TestThread :
              \/ pc'[t] = pc[t]
              \/ t = th /\ pc'[t] \in {"exited", "lone", "advance", "stopLock"}
        /\ phase' = phase /\ opt' = opt /\ cleanup_stacks' = cleanup_stacks
    BY <1>0, <1>5 DEF Sieve, Recount, EnterStopped, Goto, At
  <2> QED
    BY <2>1, InsideKeepsInline DEF Unwound
<1>6. CASE \/ StartThread(th) \/ UserStartThread(th) \/ UserCreate(th)
           \/ UserYield(th) \/ UserResume(th) \/ UserFinish(th)
           \/ Complain(th) \/ End(th) \/ Merge(th) \/ Release(th)
           \/ Setup(th) \/ Precleanup(th)
           \/ CleanupStartThread(th) \/ CleanupCreate(th)
  <2>1. /\ pc[th] \notin InlineLocation
        /\ phase' = phase /\ opt' = opt /\ cleanup_stacks' = cleanup_stacks
    BY <1>6 DEF StartThread, YieldTo, UserStartThread, CountThread, UserCreate,
       PthreadCreate, UserYield, UserResume, UserFinish, UserEnd, UserReturn, CallEnd,
       Complain, End, Merge, Release, Setup, Precleanup, CleanupStartThread,
       CleanupCreate, Goto, At, InlineLocation, Unwound
  <2>2. opt.no_separate_cleanup_thread => phase # CLEANUP
    BY <2>1 DEF InlineCleanup, InlineLocation, Unwound
  <2>3. opt.no_separate_cleanup_thread =>
            \A t \in TestThread : pc'[t] \notin {"cleanup", "spawnCleanup"}
    <3> SUFFICES ASSUME opt.no_separate_cleanup_thread, NEW t \in TestThread
                 PROVE  pc'[t] \notin {"cleanup", "spawnCleanup"}
      OBVIOUS
    <3>1. pc[th] # "cleanup" /\ pc[t] \notin {"cleanup", "spawnCleanup"}
      BY DEF InlineCleanup
    <3>2. CASE UserStartThread(th) \/ UserCreate(th) \/ CleanupStartThread(th) \/ CleanupCreate(th)
      BY <1>0, <3>1, <3>2 DEF UserStartThread, CountThread, UserCreate, PthreadCreate,
         CleanupStartThread, CleanupCreate, At
    <3>3. CASE ~(UserStartThread(th) \/ UserCreate(th) \/ CleanupStartThread(th) \/ CleanupCreate(th))
      BY <1>0, <1>6, <3>1, <3>3 DEF StartThread, StartFunc, YieldTo, UserYield, UserResume,
         UserFinish, UserEnd, UserReturn, CallEnd, Complain, End, Merge, Release, Setup,
         Precleanup, Goto, At
    <3> QED
      BY <3>2, <3>3
  <2> QED
    BY <2>1, <2>2, <2>3, OutsideKeepsInline
<1> QED
  BY <1>1, <1>2, <1>3, <1>4, <1>5, <1>6 DEF ThreadStep

LEMMA NextKeepsInline ==
    IInv /\ StackOrder /\ InlineCleanup /\ [Next]_vars => InlineCleanup'
<1> SUFFICES ASSUME IInv, StackOrder, InlineCleanup, [Next]_vars PROVE InlineCleanup'
  OBVIOUS
<1> USE DEF PRESTART, CLEANUP, STOPPED
<1>0. /\ pc \in [Thread -> Location] /\ Main \in Thread /\ Main \notin TestThread
      /\ First \in TestThread /\ TestThread \subseteq Thread
  BY ThreadAssumption DEF IInv, TypeOK, Thread, TestThread
<1>1. CASE \E th \in TestThread : ThreadStep(th)
  BY <1>1, ThreadKeepsInline
<1>2. ASSUME NEW th \in Thread, StopStep(th) PROVE InlineCleanup'
  <2>1. CASE StopLock(th) \/ StopUnlock(th) \/ Broadcast(th)
    <3>1. /\ phase' = phase /\ opt' = opt /\ cleanup_stacks' = cleanup_stacks
          /\ \A t \in TestThread :
                \/ pc'[t] = pc[t]
                \/ pc[t] = "stopLock" /\ pc'[t] = "stopping"
                \/ pc[t] = "stopUnlock" /\ pc'[t] = "broadcast"
                \/ pc[t] = "broadcast" /\ pc'[t] = "exited"
                \/ pc[t] = "waiting" /\ pc'[t] = "woken"
      BY <1>0, <2>1 DEF StopLock, StopUnlock, Broadcast, Goto, At
    <3>2. \A t \in TestThread : pc[t] \in {"stopUnlock", "broadcast"} => phase = STOPPED
      BY DEF IInv, Located, LocationPhase
    <3> QED
      BY <3>1, <3>2 DEF InlineCleanup
  <2>2. CASE StopSetPhase(th)
    <3>1. /\ pc[th] = "stopping" /\ pc' = [pc EXCEPT ![th] = "stopUnlock"]
          /\ phase' = STOPPED /\ opt' = opt /\ cleanup_stacks' = cleanup_stacks
      BY <2>2 DEF StopSetPhase, Goto, At
    <3>2. CASE th \in TestThread
      <4>1. phase = CLEANUP
        BY <3>1, <3>2 DEF IInv, Located, LocationPhase
      <4> QED
        BY <1>0, <3>1, <3>2, <4>1 DEF InlineCleanup
    <3>3. CASE th = Main
      <4>1. cleanup_stacks = <<>>
        BY <1>0, <3>1, <3>3 DEF IInv, Located, MainPhase, StopLocation, StackOrder, Early
      <4> QED
        BY <1>0, <3>1, <3>3, <4>1 DEF InlineCleanup
    <3> QED
      BY <3>2, <3>3 DEF Thread
  <2> QED
    BY <1>2, <2>1, <2>2 DEF StopStep
<1>3. CASE MainStep \/ WakeSpuriously
  <2>1. CASE StartTest \/ StartCreate
    <3>1. /\ phase' = phase /\ opt' = opt /\ cleanup_stacks' = cleanup_stacks
          /\ \A t \in TestThread : pc'[t] = pc[t] \/ pc'[t] \in {"creating", "entry", "failed"}
      BY <1>0, <2>1 DEF StartTest, CountThread, StartCreate, PthreadCreate
    <3>2. opt.no_separate_cleanup_thread => phase # CLEANUP
      <4>1. CASE StartTest
        BY <4>1 DEF StartTest, CountThread, At, IInv, Located, MainPhase
      <4>2. CASE StartCreate
        BY <4>2 DEF StartCreate, PthreadCreate, At, InlineCleanup
      <4> QED
        BY <2>1, <4>1, <4>2
    <3> QED
      BY <3>1, <3>2, OutsideKeepsInline DEF InlineCleanup
  <2>2. CASE \/ StartSkipped \/ WaitLock \/ WaitCheck \/ WaitUnlock \/ GetResult \/ Destroy
             \/ WakeSpuriously
    <3>1. /\ phase' = phase /\ opt' = opt /\ cleanup_stacks' = cleanup_stacks
          /\ \A t \in TestThread : pc'[t] = pc[t]
      BY <1>0, <2>2 DEF StartSkipped, WaitLock, WaitCheck, WaitUnlock, GetResult, Destroy,
         WakeSpuriously, Goto
    <3> QED
      BY <3>1, InsideKeepsInline
  <2> QED
    BY <1>3, <2>1, <2>2 DEF MainStep
<1>4. CASE UNCHANGED vars
  BY <1>4, InsideKeepsInline DEF vars
<1> QED
  BY <1>1, <1>2, <1>3, <1>4 DEF Next, Finished

(* A test that unwinds in its result thread does not stop before every stack*)
(* of every thread has been run down, however many threads prepended one.   *)
THEOREM InlineCleanupIsComplete == Spec => []InlineCleanupUnwinds
<1>1. Init => InlineCleanup /\ StackOrder
  BY ThreadAssumption DEF Init, InlineCleanup, StackOrder, DeviceStackLast, Early,
     Thread, TestThread, PRESTART, CLEANUP, STOPPED
<1>2. InlineCleanup => InlineCleanupUnwinds
  BY DEF InlineCleanup, InlineCleanupUnwinds
<1>3. IInv => TypeOK
  BY DEF IInv
<1> QED
  BY <1>1, <1>2, <1>3, NextKeepsOrder, NextKeepsInline, Invariance, PTL DEF Spec

-----------------------------------------------------------------------------
(* TestThreads implements TestLifecycle.                                    *)

(* Where Main stands before it has let the test run, or has skipped it.     *)
NotStarted == {"start", "stopLock", "stopping"}

(* A step that neither takes the final result nor merges nor stops.         *)
Silent ==
    /\ result' = result /\ result_is_final' = result_is_final /\ reported' = reported
    /\ phase' = phase \/ (phase < CLEANUP /\ phase' = phase + 1)
    /\ \A t \in TestThread :
          /\ pc'[t] = "merging" <=> pc[t] = "merging"
          /\ \/ ending'[t] = ending[t]
             \/ pc[t] # "merging" /\ ending'[t] \in {PASS, SKIP, FAIL}
    /\ pc'[Main] \in NotStarted => pc[Main] \in NotStarted
    /\ pc'[Main] \in {"stopLock", "stopping"} <=> pc[Main] \in {"stopLock", "stopping"}

-----------------------------------------------------------------------------
(* What Verdict stands for.                                                 *)

VerdictTells ==
    /\ \A th \in TestThread : At(th, "merging") => Verdict = ending[th]
    /\ (\A th \in TestThread : ~At(th, "merging")) =>
           Verdict = IF result_is_final \/ phase = STOPPED THEN result ELSE NoResult

LEMMA VerdictValue == OneVerdict => VerdictTells
<1> SUFFICES ASSUME OneVerdict PROVE VerdictTells
  OBVIOUS
<1>1. ASSUME NEW th \in TestThread, At(th, "merging") PROVE Verdict = ending[th]
  <2> DEFINE m == CHOOSE t \in TestThread : At(t, "merging")
  <2>1. m \in TestThread /\ At(m, "merging")
    BY <1>1
  <2>2. m = th
    BY <1>1, <2>1 DEF OneVerdict
  <2>3. Verdict = ending[m]
    BY <1>1 DEF Verdict
  <2> QED
    BY <2>2, <2>3
<1>2. ASSUME \A th \in TestThread : ~At(th, "merging")
      PROVE  Verdict = IF result_is_final \/ phase = STOPPED THEN result ELSE NoResult
  BY <1>2 DEF Verdict
<1> QED
  BY <1>1, <1>2 DEF VerdictTells

(* The same of the state after a step.                                      *)
LEMMA NextVerdictValue == OneVerdict' => VerdictTells'
BY VerdictValue, PTL

(* A silent step leaves the verdict alone and is one of TestLifecycle.      *)
LEMMA SilentKeeps ==
    ASSUME IInv, OneVerdict, Silent
    PROVE  OneVerdict' /\ [Lifecycle!Next]_(Lifecycle!vars)
<1> USE DEF CLEANUP, STOPPED
<1>0. phase' = STOPPED <=> phase = STOPPED
  BY DEF Silent, IInv, TypeOK, Phase, PRESTART
<1>1. OneVerdict'
  BY <1>0 DEF OneVerdict, Silent, NotStarted, At
<1>2. VerdictTells /\ VerdictTells'
  BY <1>1, VerdictValue, NextVerdictValue
<1>3. Verdict' = Verdict
  <2>1. CASE \E th \in TestThread : pc[th] = "merging"
    <3>1. PICK th \in TestThread : pc[th] = "merging"
      BY <2>1
    <3>2. pc'[th] = "merging" /\ ending'[th] = ending[th]
      BY <3>1 DEF Silent
    <3> QED
      BY <1>2, <3>1, <3>2 DEF VerdictTells, At
  <2>2. CASE \A th \in TestThread : pc[th] # "merging"
    <3>1. \A th \in TestThread : pc'[th] # "merging"
      BY <2>2 DEF Silent
    <3>2. Verdict = IF result_is_final \/ phase = STOPPED THEN result ELSE NoResult
      BY <1>2, <2>2 DEF VerdictTells, At
    <3>3. Verdict' = IF result_is_final' \/ phase' = STOPPED THEN result' ELSE NoResult
      BY <1>2, <3>1 DEF VerdictTells, At, NoResult
    <3> QED
      BY <1>0, <3>2, <3>3 DEF Silent
  <2> QED
    BY <2>1, <2>2
<1>4. CASE phase' = phase
  BY <1>1, <1>3, <1>4 DEF Silent, Lifecycle!vars
<1>5. CASE phase < CLEANUP /\ phase' = phase + 1
  BY <1>1, <1>3, <1>5 DEF Silent, Lifecycle!Next, Lifecycle!Advance, Lifecycle!CLEANUP,
     Lifecycle!PRESTART, Lifecycle!STOPPED
<1> QED
  BY <1>1, <1>4, <1>5 DEF Silent

-----------------------------------------------------------------------------
(* The steps that are not silent.                                           *)

(* t_end(): the first one decides.                                          *)
LEMMA EndDecides ==
    ASSUME IInv, OneVerdict, NEW th \in TestThread, End(th)
    PROVE  OneVerdict' /\ [Lifecycle!Next]_(Lifecycle!vars)
<1> USE DEF CLEANUP, STOPPED, PASS, SKIP, FAIL, NoResult
<1>0. /\ pc[th] = "ending" /\ phase' = phase /\ result' = result /\ result_is_final' = TRUE
      /\ ending' = ending /\ reported' = reported
      /\ pc' = [pc EXCEPT ![th] = IF result_is_final THEN "release" ELSE "merging"]
      /\ pc \in [Thread -> Location] /\ Main # th /\ TestThread \subseteq Thread
      /\ Main \in Thread
  BY ThreadAssumption DEF End, Goto, At, IInv, TypeOK, Thread, TestThread
<1>1. phase \in MajorPhase /\ phase # STOPPED /\ pc[Main] \notin NotStarted
  BY <1>0 DEF IInv, Located, LocationPhase, MainPhase, MajorPhase, SETUP, PRESTART, NotStarted
<1>2. CASE result_is_final
  <2>1. Silent
    BY <1>0, <1>2 DEF Silent, NotStarted
  <2> QED
    BY <2>1, SilentKeeps
<1>3. CASE ~result_is_final
  <2>1. \A t \in TestThread : pc[t] # "merging"
    BY <1>3 DEF OneVerdict, At, NotStarted
  <2>2. \A t \in TestThread : pc'[t] = "merging" <=> t = th
    BY <1>0, <1>3, <2>1
  <2>3. result = PASS
    BY <1>1, <1>3 DEF OneVerdict, NotStarted
  <2>4. OneVerdict'
    BY <1>0, <1>1, <2>2, <2>3 DEF OneVerdict, At, NotStarted
  <2>5. Verdict = NoResult
    BY <1>1, <1>3, <2>1, VerdictValue DEF VerdictTells, At
  <2>6. Verdict' = ending[th]
    BY <1>0, <2>2, <2>4, NextVerdictValue DEF VerdictTells, At
  <2>7. Lifecycle!Decide(ending[th])
    BY <1>0, <1>1, <2>5, <2>6 DEF Lifecycle!Decide, MajorPhase, Lifecycle!MajorPhase,
       SETUP, Lifecycle!SETUP, Lifecycle!CLEANUP, Lifecycle!NoResult
  <2>8. ending[th] \in {PASS, SKIP, FAIL}
    BY DEF OneVerdict
  <2> QED
    BY <2>4, <2>7, <2>8 DEF Lifecycle!Next, Lifecycle!PASS, Lifecycle!SKIP, Lifecycle!FAIL
<1> QED
  BY <1>2, <1>3

(* test_result_merge(): the accumulated result becomes the verdict that was *)
(* taken.                                                                   *)
LEMMA MergeKeepsVerdict ==
    ASSUME IInv, OneVerdict, NEW th \in TestThread, Merge(th)
    PROVE  OneVerdict' /\ [Lifecycle!Next]_(Lifecycle!vars)
<1> USE DEF CLEANUP, STOPPED, PASS, SKIP, FAIL, NoResult
<1>0. /\ pc[th] = "merging" /\ phase' = phase /\ ending' = ending /\ reported' = reported
      /\ result_is_final' = result_is_final /\ pc' = [pc EXCEPT ![th] = "release"]
      /\ result' = IF ending[th] > result THEN ending[th] ELSE result
      /\ pc \in [Thread -> Location] /\ Main # th /\ TestThread \subseteq Thread
      /\ Main \in Thread
  BY ThreadAssumption DEF Merge, Goto, At, IInv, TypeOK, Thread, TestThread
<1>1. result_is_final /\ result = PASS /\ ending[th] \in {PASS, SKIP, FAIL}
  BY <1>0 DEF OneVerdict, At, NotStarted
<1>2. result' = ending[th]
  BY <1>0, <1>1
<1>3. \A t \in TestThread : pc'[t] # "merging"
  BY <1>0 DEF OneVerdict, At, NotStarted
<1>4. OneVerdict'
  BY <1>0, <1>1, <1>3 DEF OneVerdict, At, NotStarted
<1>5. Verdict = ending[th]
  BY <1>0, VerdictValue DEF VerdictTells, At
<1>6. Verdict' = result'
  BY <1>0, <1>1, <1>3, <1>4, NextVerdictValue DEF VerdictTells, At
<1> QED
  BY <1>0, <1>2, <1>4, <1>5, <1>6 DEF Lifecycle!vars

(* t_enter_stopped_phase(): a test that nobody has ended has passed.        *)
LEMMA StopDecides ==
    ASSUME IInv, OneVerdict, NEW th \in TestThread, EnterStopped(th)
    PROVE  OneVerdict' /\ [Lifecycle!Next]_(Lifecycle!vars)
<1> USE DEF CLEANUP, STOPPED, PASS, SKIP, FAIL, NoResult
<1>0. /\ pc[th] = "advance" /\ phase = CLEANUP /\ phase' = phase /\ result' = result
      /\ ending' = ending /\ reported' = reported
      /\ result_is_final' = TRUE /\ pc' = [pc EXCEPT ![th] = "stopLock"]
      /\ pc \in [Thread -> Location] /\ Main # th /\ TestThread \subseteq Thread
      /\ Main \in Thread
  BY ThreadAssumption DEF EnterStopped, Goto, At, IInv, TypeOK, Thread, TestThread
<1>1. /\ \A t \in TestThread : pc[t] # "merging" /\ pc'[t] # "merging"
      /\ pc[Main] \notin NotStarted
  BY <1>0 DEF IInv, Located, SoleThread, SoloLocation, Absent, MainPhase, PRESTART,
     NotStarted
<1>2. OneVerdict'
  BY <1>0, <1>1 DEF OneVerdict, At, NotStarted
<1>3. Verdict = IF result_is_final THEN result ELSE NoResult
  BY <1>0, <1>1, VerdictValue DEF VerdictTells, At
<1>4. Verdict' = result
  BY <1>0, <1>1, <1>2, NextVerdictValue DEF VerdictTells, At
<1>5. CASE result_is_final
  BY <1>0, <1>2, <1>3, <1>4, <1>5 DEF Lifecycle!vars
<1>6. CASE ~result_is_final
  <2>1. result = PASS
    BY <1>0, <1>1, <1>6 DEF OneVerdict, NotStarted
  <2>2. Lifecycle!Decide(PASS)
    BY <1>0, <1>3, <1>4, <1>6, <2>1 DEF Lifecycle!Decide, Lifecycle!MajorPhase,
       Lifecycle!SETUP, Lifecycle!CLEANUP, Lifecycle!NoResult
  <2> QED
    BY <1>2, <2>2 DEF Lifecycle!Next, Lifecycle!PASS, Lifecycle!SKIP, Lifecycle!FAIL
<1> QED
  BY <1>5, <1>6

(* test_broadcast_stop(), by the last thread or for a skipped test.         *)
LEMMA StopSetPhaseStops ==
    ASSUME IInv, OneVerdict, NEW th \in Thread, StopSetPhase(th)
    PROVE  OneVerdict' /\ [Lifecycle!Next]_(Lifecycle!vars)
<1> USE DEF CLEANUP, STOPPED, PASS, SKIP, FAIL, NoResult, PRESTART
<1>0. /\ pc[th] = "stopping" /\ phase' = STOPPED /\ result' = result
      /\ ending' = ending /\ reported' = reported
      /\ result_is_final' = result_is_final /\ pc' = [pc EXCEPT ![th] = "stopUnlock"]
      /\ pc \in [Thread -> Location] /\ TestThread \subseteq Thread /\ Main \in Thread
      /\ Main \notin TestThread
  BY ThreadAssumption DEF StopSetPhase, Goto, At, IInv, TypeOK, Thread, TestThread
<1>1. CASE th \in TestThread
  <2>1. /\ phase = CLEANUP /\ result_is_final /\ pc[Main] \notin NotStarted
        /\ \A t \in TestThread : pc[t] # "merging" /\ pc'[t] # "merging"
    BY <1>0, <1>1 DEF IInv, Located, LocationPhase, StopsFinal, SoleThread, SoloLocation,
       StopLocation, Absent, MainPhase, NotStarted
  <2>2. OneVerdict'
    BY <1>0, <1>1, <2>1 DEF OneVerdict, At, NotStarted
  <2>3. Verdict = result /\ Verdict' = result
    BY <1>0, <2>1, <2>2, VerdictValue, NextVerdictValue DEF VerdictTells, At
  <2>4. result # NoResult
    BY DEF IInv, TypeOK, Result, LOST
  <2>5. Lifecycle!Stop
    BY <1>0, <2>1, <2>3, <2>4 DEF Lifecycle!Stop, Lifecycle!CLEANUP, Lifecycle!STOPPED,
       Lifecycle!NoResult
  <2> QED
    BY <2>2, <2>5 DEF Lifecycle!Next
<1>2. CASE th = Main
  <2>1. /\ phase = PRESTART /\ ~result_is_final /\ result = SKIP
        /\ \A t \in TestThread : pc[t] # "merging" /\ pc'[t] # "merging"
    BY <1>0, <1>2 DEF IInv, Located, MainPhase, StopLocation, OneVerdict
  <2>2. OneVerdict'
    BY <1>0, <1>2, <2>1 DEF OneVerdict, At, NotStarted
  <2>3. Verdict' = SKIP
    BY <1>0, <2>1, <2>2, NextVerdictValue DEF VerdictTells, At
  <2>4. Lifecycle!StopSkipped
    BY <1>0, <2>1, <2>3 DEF Lifecycle!StopSkipped, Lifecycle!PRESTART, Lifecycle!STOPPED,
       Lifecycle!SKIP
  <2> QED
    BY <2>2, <2>4 DEF Lifecycle!Next
<1> QED
  BY <1>1, <1>2 DEF Thread

(* test_start() of a test marked skip: the result is written before the     *)
(* phase that makes it the verdict.                                         *)
LEMMA SkipIsNoVerdictYet ==
    ASSUME IInv, OneVerdict, StartSkipped
    PROVE  OneVerdict' /\ [Lifecycle!Next]_(Lifecycle!vars)
<1> USE DEF CLEANUP, STOPPED, PASS, SKIP, FAIL, NoResult, PRESTART
<1>0. /\ pc[Main] = "start" /\ phase' = phase /\ result' = SKIP
      /\ ending' = ending /\ reported' = reported
      /\ result_is_final' = result_is_final /\ pc' = [pc EXCEPT ![Main] = "stopLock"]
      /\ pc \in [Thread -> Location] /\ TestThread \subseteq Thread /\ Main \in Thread
      /\ Main \notin TestThread /\ opt.skip
  BY ThreadAssumption DEF StartSkipped, Goto, At, IInv, TypeOK, Thread, TestThread
<1>1. /\ phase = PRESTART /\ num_threads = 0
      /\ \A t \in TestThread : pc[t] # "merging" /\ pc'[t] # "merging"
  BY <1>0 DEF IInv, Located, MainPhase
<1>2. ~result_is_final
  BY <1>0 DEF OneVerdict
<1>3. OneVerdict'
  BY <1>0, <1>1, <1>2 DEF OneVerdict, At, NotStarted
<1>4. Verdict = NoResult /\ Verdict' = NoResult
  BY <1>0, <1>1, <1>2, <1>3, VerdictValue, NextVerdictValue DEF VerdictTells, At
<1> QED
  BY <1>0, <1>3, <1>4 DEF Lifecycle!vars

-----------------------------------------------------------------------------
(* All other steps are silent.                                              *)

LEMMA ThreadStepRefines ==
    ASSUME IInv, OneVerdict, NEW th \in TestThread, ThreadStep(th)
    PROVE  OneVerdict' /\ [Lifecycle!Next]_(Lifecycle!vars)
<1>0. /\ pc \in [Thread -> Location] /\ ending \in [Thread -> Result]
      /\ th \in Thread /\ Main \in Thread /\ Main \notin TestThread
      /\ TestThread \subseteq Thread /\ User \subseteq TestThread /\ Cleanup \in TestThread
  BY ThreadAssumption DEF IInv, TypeOK, Thread, TestThread
<1>1. CASE End(th)
  BY <1>1, EndDecides
<1>2. CASE Merge(th)
  BY <1>2, MergeKeepsVerdict
<1>3. CASE EnterStopped(th)
  BY <1>3, StopDecides
<1>4. CASE \/ EnterThread(th) \/ StartThread(th) \/ UserYield(th) \/ UserResume(th)
           \/ UserReturn(th) \/ Complain(th) \/ Release(th) \/ Sieve(th) \/ Recount(th)
           \/ EnterSetup(th) \/ EnterMain(th) \/ EnterPrecleanup(th) \/ EnterCleanup(th)
           \/ Unwind(th)
  <2>1. /\ result' = result /\ result_is_final' = result_is_final
        /\ reported' = reported /\ ending' = ending
        /\ pc[th] # "merging"
        /\ pc' = pc \/ \E to : to # "merging" /\ pc' = [pc EXCEPT ![th] = to]
    BY <1>4 DEF EnterThread, StartThread, StartFunc, YieldTo, UserYield, UserResume,
       UserReturn, Complain, Release, Sieve, Recount, EnterSetup, EnterMain,
       EnterPrecleanup, EnterCleanup, EnterPhase, Unwind, Goto, At
  <2>2. phase' = phase \/ (phase < CLEANUP /\ phase' = phase + 1)
    BY <1>4 DEF EnterThread, StartThread, YieldTo, UserYield, UserResume,
       UserReturn, Complain, Release, Sieve, Recount, EnterSetup, EnterMain,
       EnterPrecleanup, EnterCleanup, EnterPhase, Unwind, PRESTART, SETUP, MAIN,
       PRECLEANUP, CLEANUP
  <2>3. Silent
    BY <1>0, <2>1, <2>2 DEF Silent
  <2> QED
    BY <2>3, SilentKeeps
<1>5. CASE UserEnd(th) \/ Setup(th) \/ Precleanup(th)
  <2>1. PICK to \in {"ending", "complaining", "sieve"}, r \in {PASS, SKIP, FAIL} :
            /\ pc[th] # "merging" /\ pc' = [pc EXCEPT ![th] = to]
            /\ ending' = [ending EXCEPT ![th] = r] \/ ending' = ending
    BY <1>5 DEF UserEnd, Setup, Precleanup, CallEnd, Goto, At
  <2>2. /\ result' = result /\ result_is_final' = result_is_final
        /\ reported' = reported /\ phase' = phase
    BY <1>5 DEF UserEnd, Setup, Precleanup, CallEnd
  <2>3. Silent
    BY <1>0, <2>1, <2>2 DEF Silent
  <2> QED
    BY <2>3, SilentKeeps
<1>6. CASE UserStartThread(th) \/ UserCreate(th) \/ CleanupStartThread(th) \/ CleanupCreate(th)
  <2>1. PICK child \in TestThread, to \in {"spawn", "body", "spawnCleanup", "release"},
             loc \in {"creating", "entry", "failed"} :
            /\ pc[th] \in {"body", "spawn", "cleanup", "spawnCleanup"}
            /\ pc[child] \in {"unborn", "creating"}
            /\ pc' = [pc EXCEPT ![th] = to, ![child] = loc]
    BY <1>0, <1>6 DEF UserStartThread, CountThread, UserCreate, PthreadCreate,
       CleanupStartThread, CleanupCreate, At
  <2>2. /\ result' = result /\ result_is_final' = result_is_final
        /\ reported' = reported /\ phase' = phase /\ ending' = ending
    BY <1>6 DEF UserStartThread, UserCreate, PthreadCreate, CleanupStartThread,
       CleanupCreate
  <2>3. Silent
    BY <1>0, <2>1, <2>2 DEF Silent
  <2> QED
    BY <2>3, SilentKeeps
<1> QED
  BY <1>1, <1>2, <1>3, <1>4, <1>5, <1>6 DEF ThreadStep, UserFinish

LEMMA StopStepRefines ==
    ASSUME IInv, OneVerdict, NEW th \in Thread, StopStep(th)
    PROVE  OneVerdict' /\ [Lifecycle!Next]_(Lifecycle!vars)
<1>0. /\ pc \in [Thread -> Location] /\ Main \in Thread /\ TestThread \subseteq Thread
      /\ Main \notin TestThread
  BY ThreadAssumption DEF IInv, TypeOK, Thread, TestThread
<1>1. CASE StopSetPhase(th)
  BY <1>1, StopSetPhaseStops
<1>2. CASE StopLock(th) \/ StopUnlock(th) \/ Broadcast(th)
  <2>1. /\ result' = result /\ result_is_final' = result_is_final
        /\ reported' = reported /\ phase' = phase /\ ending' = ending
    BY <1>2 DEF StopLock, StopUnlock, Broadcast
  <2>2. \A t \in Thread :
            \/ pc'[t] = pc[t]
            \/ pc[t] = "stopLock" /\ pc'[t] = "stopping"
            \/ pc[t] \in {"stopUnlock", "broadcast", "waiting"}
               /\ pc'[t] \in {"broadcast", "wait", "exited", "woken"}
    BY <1>0, <1>2 DEF StopLock, StopUnlock, Broadcast, Goto, At
  <2>3. Silent
    BY <1>0, <2>1, <2>2 DEF Silent, NotStarted
  <2> QED
    BY <2>3, SilentKeeps
<1> QED
  BY <1>1, <1>2 DEF StopStep

(* test_get_result() reports the verdict, and only once.                    *)
LEMMA MainStepRefines ==
    ASSUME IInv, OneVerdict, MainStep \/ WakeSpuriously
    PROVE  OneVerdict' /\ [Lifecycle!Next]_(Lifecycle!vars)
<1>0. /\ pc \in [Thread -> Location] /\ Main \in Thread /\ TestThread \subseteq Thread
      /\ Main \notin TestThread /\ First \in TestThread
  BY ThreadAssumption DEF IInv, TypeOK, Thread, TestThread
<1>1. CASE StartSkipped
  BY <1>1, SkipIsNoVerdictYet
<1>2. CASE GetResult
  <2>1. /\ pc[Main] = "getResult" /\ pc' = [pc EXCEPT ![Main] = "destroy"]
        /\ reported' = result /\ result' = result /\ phase' = phase
        /\ result_is_final' = result_is_final /\ ending' = ending
    BY <1>2 DEF GetResult, Goto, At
  <2>2. /\ phase = STOPPED /\ reported = NoResult
        /\ \A t \in TestThread : pc[t] # "merging" /\ pc'[t] # "merging"
    BY <1>0, <2>1 DEF IInv, Located, LocationPhase, MainPhase, Absent
  <2>3. OneVerdict'
    BY <1>0, <2>1, <2>2 DEF OneVerdict, At
  <2>4. Verdict = result /\ Verdict' = result
    BY <2>1, <2>2, <2>3, VerdictValue, NextVerdictValue DEF VerdictTells, At
  <2>5. Lifecycle!Report
    BY <2>1, <2>2, <2>4 DEF Lifecycle!Report, STOPPED, Lifecycle!STOPPED, NoResult,
       Lifecycle!NoResult
  <2> QED
    BY <2>3, <2>5 DEF Lifecycle!Next
<1>3. CASE StartTest \/ StartCreate
  <2>1. PICK child \in TestThread, to \in {"spawnFirst", "wait"},
             loc \in {"creating", "entry", "failed"} :
            /\ pc[child] \in {"unborn", "creating"}
            /\ pc' = [pc EXCEPT ![Main] = to, ![child] = loc]
    BY <1>0, <1>3 DEF StartTest, CountThread, StartCreate, PthreadCreate, At
  <2>2. /\ result' = result /\ result_is_final' = result_is_final /\ ending' = ending
        /\ reported' = reported /\ phase' = phase
        /\ pc[Main] \in {"start", "spawnFirst"}
    BY <1>3 DEF StartTest, CountThread, StartCreate, PthreadCreate, At
  <2>3. Silent
    BY <1>0, <2>1, <2>2 DEF Silent, NotStarted
  <2> QED
    BY <2>3, SilentKeeps
<1>4. CASE WaitLock \/ WaitCheck \/ WaitUnlock \/ Destroy \/ WakeSpuriously
  <2>1. PICK to \in {"waitCheck", "waiting", "waitUnlock", "getResult", "done", "woken"} :
            /\ pc[Main] \in {"wait", "woken", "waitCheck", "waiting", "waitUnlock", "destroy"}
            /\ pc' = [pc EXCEPT ![Main] = to]
    BY <1>4 DEF WaitLock, WaitCheck, WaitUnlock, Destroy, WakeSpuriously, Goto, At
  <2>2. /\ result' = result /\ result_is_final' = result_is_final /\ ending' = ending
        /\ reported' = reported /\ phase' = phase
    BY <1>4 DEF WaitLock, WaitCheck, WaitUnlock, Destroy, WakeSpuriously
  <2>3. Silent
    BY <1>0, <2>1, <2>2 DEF Silent, NotStarted
  <2> QED
    BY <2>3, SilentKeeps
<1> QED
  BY <1>1, <1>2, <1>3, <1>4 DEF MainStep

LEMMA NextRefines ==
    IInv /\ OneVerdict /\ [Next]_vars => OneVerdict' /\ [Lifecycle!Next]_(Lifecycle!vars)
<1> SUFFICES ASSUME IInv, OneVerdict, [Next]_vars
             PROVE  OneVerdict' /\ [Lifecycle!Next]_(Lifecycle!vars)
  OBVIOUS
<1>1. CASE \E th \in TestThread : ThreadStep(th)
  BY <1>1, ThreadStepRefines
<1>2. CASE \E th \in Thread : StopStep(th)
  BY <1>2, StopStepRefines
<1>3. CASE MainStep \/ WakeSpuriously
  BY <1>3, MainStepRefines
<1>4. CASE UNCHANGED vars
  <2>1. Silent
    BY <1>4 DEF vars, Silent
  <2> QED
    BY <2>1, SilentKeeps
<1> QED
  BY <1>1, <1>2, <1>3, <1>4 DEF Next, Finished

LEMMA InitRefines == Init => OneVerdict /\ Lifecycle!Init
<1> SUFFICES ASSUME Init PROVE OneVerdict /\ Lifecycle!Init
  OBVIOUS
<1>1. \A th \in TestThread : pc[th] # "merging"
  BY ThreadAssumption DEF Init, Thread, TestThread
<1>2. OneVerdict
  BY <1>1, ThreadAssumption DEF Init, OneVerdict, At, Thread, TestThread, PRESTART,
     STOPPED, PASS, SKIP, FAIL
<1>3. Verdict = NoResult
  BY <1>1, <1>2, VerdictValue DEF VerdictTells, At, Init, PRESTART, STOPPED
<1> QED
  BY <1>2, <1>3 DEF Init, Lifecycle!Init, PRESTART, Lifecycle!PRESTART, NoResult,
     Lifecycle!NoResult

-----------------------------------------------------------------------------
(* The atomic exchange of t_end() settles the verdict: only its winner ever *)
(* merges, into a result that nobody has touched, and the MAX of            *)
(* test_result_merge() is the winner's own.                                 *)
THEOREM VerdictIsOne == Spec => []OneVerdict
<1>1. IInv /\ OneVerdict /\ [Next]_vars => OneVerdict'
  BY NextRefines
<1>2. Init => OneVerdict
  BY InitRefines
<1> QED
  BY <1>1, <1>2, Invariance, PTL DEF Spec

(* Every behaviour of a test's threads is, seen by the runner, one of a test*)
(* with phases in order, one verdict and one report of it: the safety part  *)
(* of ImplementsLifecycle, for any number of threads.                       *)
THEOREM RefinesLifecycle ==
    Spec => Lifecycle!Init /\ [][Lifecycle!Next]_(Lifecycle!vars)
<1>1. Init => Lifecycle!Init
  BY InitRefines
<1>2. IInv /\ OneVerdict /\ [Next]_vars => [Lifecycle!Next]_(Lifecycle!vars)
  BY NextRefines
<1> QED
  BY <1>1, <1>2, Invariance, VerdictIsOne, PTL DEF Spec

=============================================================================
