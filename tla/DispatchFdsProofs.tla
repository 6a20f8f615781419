------------------------- MODULE DispatchFdsProofs -------------------------
(***************************************************************************)
(* Proofs about DispatchFds: for any number of slots and of workers, no    *)
(* descriptor leaks, a dead worker is noticed, and events on result pipes  *)
(* lead to the slots that own them.                                        *)
(***************************************************************************)
EXTENDS DispatchFds, FiniteSetTheorems, FunctionTheorems, TLAPS

-----------------------------------------------------------------------------
(* Sets and their sizes.                                                    *)

LEMMA IntervalSize ==
    ASSUME NEW n \in Nat
    PROVE  IsFiniteSet(0 .. n - 1) /\ Cardinality(0 .. n - 1) = n
<1>1. /\ IsFiniteSet(0 .. n - 1)
      /\ Cardinality(0 .. n - 1) = IF 0 > n - 1 THEN 0 ELSE (n - 1) - 0 + 1
  <2>1. 0 \in Int /\ n - 1 \in Int
    OBVIOUS
  <2>2. \A a, b \in Int : /\ IsFiniteSet(a .. b)
                          /\ Cardinality(a .. b) = IF a > b THEN 0 ELSE b - a + 1
    BY FS_Interval
  <2> QED
    BY <2>1, <2>2, Zenon
<1>2. (IF 0 > n - 1 THEN 0 ELSE (n - 1) - 0 + 1) = n
  OBVIOUS
<1> QED
  BY <1>1, <1>2

(* In a finite set of numbers each place has its element: the ranks are     *)
(* different numbers, as many as there are elements.                        *)
LEMMA RankExists ==
    ASSUME NEW S \in SUBSET Nat, IsFiniteSet(S), NEW n \in 1 .. Cardinality(S)
    PROVE  \E f \in S : Cardinality({g \in S : g < f}) = n - 1
<1> DEFINE below(f) == {g \in S : g < f}
           rank == [f \in S |-> Cardinality(below(f))]
           T == 0 .. Cardinality(S) - 1
<1>1. Cardinality(S) \in Nat
  BY FS_CardinalityType
<1>2. \A f \in S : IsFiniteSet(below(f)) /\ Cardinality(below(f)) \in Nat
  BY FS_Subset, FS_CardinalityType
<1>3. ASSUME NEW f \in S PROVE Cardinality(below(f)) \in T
  <2>1. f \notin below(f) /\ below(f) \subseteq S \ {f}
    OBVIOUS
  <2>2. IsFiniteSet(S \ {f}) /\ Cardinality(S \ {f}) = Cardinality(S) - 1
    BY FS_RemoveElement
  <2> HIDE DEF below
  <2>3. Cardinality(below(f)) <= Cardinality(S \ {f})
    BY <2>1, <2>2, FS_Subset
  <2> QED
    BY <1>1, <1>2, <2>2, <2>3
<1>4. ASSUME NEW f \in S, NEW h \in S, f < h
      PROVE  Cardinality(below(f)) < Cardinality(below(h))
  <2>1. below(f) \cup {f} \subseteq below(h) /\ f \notin below(f)
    <3>1. f \in Nat /\ h \in Nat /\ \A g \in S : g \in Nat
      OBVIOUS
    <3>2. \A g \in S : g < f => g < h
      BY <1>4, <3>1
    <3>3. ~(f < f)
      BY <3>1
    <3> QED
      BY <1>4, <3>2, <3>3, Zenon
  <2> HIDE DEF below
  <2>2. /\ IsFiniteSet(below(f) \cup {f})
        /\ Cardinality(below(f) \cup {f}) = Cardinality(below(f)) + 1
    BY <1>2, <2>1, FS_AddElement
  <2>3. Cardinality(below(f) \cup {f}) <= Cardinality(below(h))
    BY <1>2, <2>1, FS_Subset
  <2> QED
    BY <1>2, <2>2, <2>3
<1> HIDE DEF below
<1>5. rank \in [S -> T]
  BY <1>3
<1>6. \A f, h \in S : rank[f] = rank[h] => f = h
  <2> SUFFICES ASSUME NEW f \in S, NEW h \in S, f # h PROVE rank[f] # rank[h]
    OBVIOUS
  <2>1. f < h \/ h < f
    OBVIOUS
  <2>2. Cardinality(below(f)) \in Nat /\ Cardinality(below(h)) \in Nat
    BY <1>2
  <2>3. Cardinality(below(f)) < Cardinality(below(h)) \/ Cardinality(below(h)) < Cardinality(below(f))
    BY <1>4, <2>1
  <2> QED
    BY <2>2, <2>3
<1>7. IsFiniteSet(T) /\ Cardinality(T) = Cardinality(S)
  BY <1>1, IntervalSize
<1> HIDE DEF rank, T
<1>8. rank \in Surjection(S, T)
  <2>1. rank \in Injection(S, T)
    BY <1>5, <1>6, Fun_IsInj
  <2> QED
    BY <1>7, <2>1, FS_Injection
<1>9. n - 1 \in T
  BY <1>1 DEF T
<1>10. PICK f \in S : rank[f] = n - 1
  BY <1>8, <1>9 DEF Surjection
<1> QED
  BY <1>10 DEF rank, below

LEMMA KindFacts ==
    /\ DOMAIN Kind = 1 .. 4
    /\ KindName = {"dispatch", "result", "stdout", "stderr"}
    /\ IsFiniteSet(KindName) /\ Cardinality(KindName) = 4
<1>1. DOMAIN Kind = 1 .. 4
  BY DEF Kind
<1>2. KindName = {"dispatch", "result", "stdout", "stderr"}
  <2>1. /\ Kind[1] = "dispatch" /\ Kind[2] = "result" /\ Kind[3] = "stdout"
        /\ Kind[4] = "stderr"
    BY DEF Kind
  <2>2. 1 .. 4 = {1, 2, 3, 4}
    OBVIOUS
  <2> QED
    BY <1>1, <2>1, <2>2 DEF KindName
<1>3. IsFiniteSet({"dispatch"}) /\ Cardinality({"dispatch"}) = 1
  BY FS_Singleton
<1>4. /\ IsFiniteSet({"dispatch", "result"}) /\ Cardinality({"dispatch", "result"}) = 2
  <2>1. {"dispatch"} \cup {"result"} = {"dispatch", "result"} /\ "result" \notin {"dispatch"}
    OBVIOUS
  <2>2. /\ IsFiniteSet({"dispatch"} \cup {"result"})
        /\ Cardinality({"dispatch"} \cup {"result"}) = Cardinality({"dispatch"}) + 1
    BY <1>3, <2>1, FS_AddElement
  <2> QED
    BY <1>3, <2>1, <2>2
<1>5. /\ IsFiniteSet({"dispatch", "result", "stdout"})
      /\ Cardinality({"dispatch", "result", "stdout"}) = 3
  <2>1. /\ {"dispatch", "result"} \cup {"stdout"} = {"dispatch", "result", "stdout"}
        /\ "stdout" \notin {"dispatch", "result"}
    OBVIOUS
  <2>2. /\ IsFiniteSet({"dispatch", "result"} \cup {"stdout"})
        /\ Cardinality({"dispatch", "result"} \cup {"stdout"})
              = Cardinality({"dispatch", "result"}) + 1
    BY <1>4, <2>1, FS_AddElement
  <2> QED
    BY <1>4, <2>1, <2>2
<1>6. /\ IsFiniteSet({"dispatch", "result", "stdout", "stderr"})
      /\ Cardinality({"dispatch", "result", "stdout", "stderr"}) = 4
  <2>1. /\ {"dispatch", "result", "stdout"} \cup {"stderr"}
              = {"dispatch", "result", "stdout", "stderr"}
        /\ "stderr" \notin {"dispatch", "result", "stdout"}
    OBVIOUS
  <2>2. /\ IsFiniteSet({"dispatch", "result", "stdout"} \cup {"stderr"})
        /\ Cardinality({"dispatch", "result", "stdout"} \cup {"stderr"})
              = Cardinality({"dispatch", "result", "stdout"}) + 1
    BY <1>5, <2>1, FS_AddElement
  <2> QED
    BY <1>5, <2>1, <2>2
<1> QED
  BY <1>1, <1>2, <1>6

(* An end that the dispatcher keeps is not one that it gives away.          *)
LEMMA EndsDiffer ==
    /\ \A p, q, kind, k : Kept(p, kind) # Given(q, k)
    /\ \A p, q \in Pid, kind, k \in KindName :
          Kept(p, kind) = Kept(q, k) => p = q /\ kind = k
    /\ \A p \in Pid, kind \in KindName :
          /\ Kept(p, kind) \in End /\ Given(p, kind) \in End
          /\ Kept(p, kind) # Closed /\ Given(p, kind) # Closed
<1>1. ASSUME NEW p, NEW q, NEW kind, NEW k PROVE Kept(p, kind) # Given(q, k)
  <2>1. /\ Kept(p, kind).kind = kind /\ Given(q, k).kind = k
        /\ Kept(p, kind).end = KeptEnd(kind) /\ Given(q, k).end = WorkerEnd(k)
    BY DEF Kept, Given
  <2>2. KeptEnd(kind) # WorkerEnd(kind)
    BY DEF KeptEnd, WorkerEnd
  <2> QED
    BY <2>1, <2>2
<1>2. ASSUME NEW p, NEW q, NEW kind, NEW k, Kept(p, kind) = Kept(q, k)
      PROVE  p = q /\ kind = k
  <2>1. /\ Kept(p, kind).kind = kind /\ Kept(p, kind).worker = p
        /\ Kept(q, k).kind = k /\ Kept(q, k).worker = q
    BY DEF Kept
  <2> QED
    BY <1>2, <2>1
<1>3. ASSUME NEW p \in Pid, NEW kind \in KindName
      PROVE  /\ Kept(p, kind) \in End /\ Given(p, kind) \in End
             /\ Kept(p, kind) # Closed /\ Given(p, kind) # Closed
  <2>1. KeptEnd(kind) \in {"read", "write"} /\ WorkerEnd(kind) \in {"read", "write"}
    BY DEF KeptEnd, WorkerEnd
  <2>2. /\ Kept(p, kind).worker = p /\ Given(p, kind).worker = p /\ Closed.worker = 0
    BY DEF Kept, Given, Closed, NoPid
  <2>3. p # 0
    BY FdsAssumption DEF Pid
  <2> QED
    BY <2>1, <2>2, <2>3 DEF Kept, Given, End
<1> QED
  BY <1>1, <1>2, <1>3

-----------------------------------------------------------------------------
(* The descriptors that a fork takes.                                       *)

Used == {f \in Fd : fds[f] # Closed}
Free == {f \in Fd : fds[f] = Closed}

(* While a slot is free, the dispatcher has at most four descriptors open   *)
(* for each of the others.                                                  *)
LEMMA UsedAreFew ==
    ASSUME NoLeak, NEW s \in Slot, pid[s] = NoPid
    PROVE  IsFiniteSet(Used) /\ Cardinality(Used) <= 4 * Cardinality(Slot) - 4
<1> DEFINE others == Slot \ {s}
           owner(f) == CHOOSE o \in others \X KindName : pipes[o[1]][o[2]] = f
           own == [f \in Used |-> owner(f)]
<1>1. ASSUME NEW f \in Used
      PROVE  owner(f) \in others \X KindName /\ pipes[owner(f)[1]][owner(f)[2]] = f
  <2>1. PICK t \in Slot, kind \in KindName : pid[t] # NoPid /\ pipes[t][kind] = f
    BY DEF NoLeak, Used
  <2>2. <<t, kind>> \in others \X KindName /\ pipes[<<t, kind>>[1]][<<t, kind>>[2]] = f
    BY <2>1
  <2> QED
    BY <2>2
<1>2. own \in [Used -> others \X KindName]
  BY <1>1
<1>3. \A f, g \in Used : own[f] = own[g] => f = g
  <2> SUFFICES ASSUME NEW f \in Used, NEW g \in Used, own[f] = own[g] PROVE f = g
    OBVIOUS
  <2>1. owner(f) = owner(g)
    OBVIOUS
  <2> HIDE DEF owner
  <2> QED
    BY <1>1, <2>1
<1>4. /\ IsFiniteSet(others) /\ Cardinality(others) = Cardinality(Slot) - 1
      /\ Cardinality(Slot) \in Nat
  BY FdsAssumption, FS_RemoveElement, FS_CardinalityType
<1> HIDE DEF others
<1>5. /\ IsFiniteSet(others \X KindName)
      /\ Cardinality(others \X KindName) = Cardinality(others) * Cardinality(KindName)
  BY <1>4, KindFacts, FS_Product
<1> HIDE DEF own
<1>6. own \in Injection(Used, others \X KindName)
  BY <1>2, <1>3, Fun_IsInj
<1>7. IsFiniteSet(Used) /\ Cardinality(Used) <= Cardinality(others \X KindName)
  BY <1>5, <1>6, FS_Injection
<1>8. Cardinality(others \X KindName) = (Cardinality(Slot) - 1) * 4
  BY <1>4, <1>5, KindFacts
<1>9. (Cardinality(Slot) - 1) * 4 = 4 * Cardinality(Slot) - 4
  BY <1>4
<1> QED
  BY <1>7, <1>8, <1>9

(* The eight descriptors of four pipes are there, free, different, and      *)
(* within the bound.                                                        *)
LEMMA FreeFdsAreNew ==
    ASSUME NoLeak, NEW s \in Slot, pid[s] = NoPid
    PROVE  /\ \A n \in 1 .. 8 : FreeFd(n) \in Free /\ FreeFd(n) \in 0 .. Enough - 1
           /\ \A n, m \in 1 .. 8 : FreeFd(n) = FreeFd(m) => n = m
<1>1. /\ Cardinality(Slot) \in Nat /\ Enough = 4 * Cardinality(Slot) + 4
      /\ Enough \in Nat
  BY FdsAssumption, FS_CardinalityType DEF Enough
<1>2. IsFiniteSet(Fd) /\ Cardinality(Fd) = 2 * Enough
  <2>1. 2 * Enough \in Nat
    BY <1>1
  <2> QED
    BY <2>1, IntervalSize DEF Fd
<1>3. /\ IsFiniteSet(Used) /\ Cardinality(Used) \in Nat
      /\ Cardinality(Used) <= 4 * Cardinality(Slot) - 4
  BY UsedAreFew, FS_CardinalityType
<1>4. IsFiniteSet(Free) /\ Cardinality(Free) \in Nat /\ Cardinality(Free) >= 8
  <2>1. Free = Fd \ Used /\ Fd \cap Used = Used
    BY DEF Free, Used
  <2>2. IsFiniteSet(Free) /\ Cardinality(Free) = Cardinality(Fd) - Cardinality(Used)
    BY <1>2, <2>1, FS_Difference
  <2> QED
    BY <1>1, <1>2, <1>3, <2>2, FS_CardinalityType
<1>5. Free \in SUBSET Nat
  BY <1>1 DEF Free, Fd
<1>6. ASSUME NEW n \in 1 .. 8
      PROVE  /\ FreeFd(n) \in Free
             /\ Cardinality({g \in Free : g < FreeFd(n)}) = n - 1
  <2>1. n \in 1 .. Cardinality(Free)
    BY <1>4
  <2>2. \E f \in Free : Cardinality({g \in Free : g < f}) = n - 1
    BY <1>4, <1>5, <2>1, RankExists
  <2>3. FreeFd(n) = CHOOSE f \in Free : Cardinality({g \in Free : g < f}) = n - 1
    BY DEF FreeFd, Free
  <2> QED
    BY <2>2, <2>3
<1>7. ASSUME NEW n \in 1 .. 8 PROVE FreeFd(n) \in 0 .. Enough - 1
  <2> DEFINE f == FreeFd(n)
             used == {g \in Used : g < f}
             free == {g \in Free : g < f}
  <2>1. f \in Fd /\ f \in Nat
    BY <1>5, <1>6 DEF Free
  <2>2. 0 .. f - 1 = used \cup free
    BY <1>1, <2>1 DEF Fd, Used, Free
  <2>3. used \cap free = {}
    BY DEF Used, Free
  <2>4. IsFiniteSet(used) /\ Cardinality(used) <= Cardinality(Used)
        /\ Cardinality(used) \in Nat
    BY <1>3, FS_Subset, FS_CardinalityType
  <2>5. IsFiniteSet(free) /\ Cardinality(free) = n - 1
    BY <1>4, <1>6, FS_Subset
  <2>6. Cardinality(0 .. f - 1) = f
    BY <2>1, IntervalSize
  <2> HIDE DEF f, used, free
  <2>7. Cardinality(used \cup free) = Cardinality(used) + Cardinality(free) - Cardinality(used \cap free)
    BY <2>4, <2>5, FS_Union
  <2>8. Cardinality(used \cap free) = 0
    BY <2>3, FS_EmptySet
  <2>9. f = Cardinality(used) + (n - 1)
    <3>1. Cardinality(used \cup free) = f
      BY <2>2, <2>6
    <3> QED
      BY <2>4, <2>5, <2>7, <2>8, <3>1
  <2>10. f <= Enough - 1
    BY <1>1, <1>3, <2>4, <2>9
  <2>11. f \in 0 .. Enough - 1
    BY <1>1, <2>1, <2>10
  <2> QED
    BY <2>11 DEF f
<1>8. ASSUME NEW n \in 1 .. 8, NEW m \in 1 .. 8, FreeFd(n) = FreeFd(m) PROVE n = m
  BY <1>6, <1>8
<1> QED
  BY <1>6, <1>7, <1>8

-----------------------------------------------------------------------------
(* Each step keeps what follows.                                            *)

Inv == NoLeak /\ ResultEventsAreOwn /\ HeldInv

(* What the dispatcher has open are ends that it keeps of connected workers.*)
LEMMA UsedAreKept ==
    ASSUME NoLeak, NEW f \in Fd, fds[f] # Closed
    PROVE  \E s \in Slot, kind \in KindName :
              /\ pid[s] \in Pid /\ pipes[s][kind] = f /\ fds[f] = Kept(pid[s], kind)
<1>1. PICK s \in Slot, kind \in KindName : pid[s] # NoPid /\ pipes[s][kind] = f
  BY DEF NoLeak
<1>2. pid[s] \in Pid
  BY <1>1 DEF NoLeak, TypeOK
<1>3. fds[f] = Kept(pid[s], kind)
  BY <1>1 DEF NoLeak
<1> QED
  BY <1>1, <1>2, <1>3

LEMMA OpenAreKept ==
    ASSUME NoLeak, NEW e \in OpenEnds
    PROVE  e \in End /\ \E p \in Pid, kind \in KindName : e = Kept(p, kind)
<1>1. PICK f \in Fd : e = fds[f] /\ fds[f] # Closed
  BY DEF OpenEnds
<1> QED
  BY <1>1, UsedAreKept, EndsDiffer

(* The four descriptors that a fork leaves to the dispatcher.               *)
LEMMA KeptFdsAreNew ==
    ASSUME NoLeak, NEW s \in Slot, pid[s] = NoPid
    PROVE  /\ \A i \in 1 .. 4 : /\ KeptFd(i) \in Fd /\ fds[KeptFd(i)] = Closed
                                /\ KeptFd(i) \in 0 .. Enough - 1
           /\ \A i, j \in 1 .. 4 : KeptFd(i) = KeptFd(j) => i = j
<1>1. /\ KeptFd(1) = FreeFd(2) /\ KeptFd(2) = FreeFd(3)
      /\ KeptFd(3) = FreeFd(5) /\ KeptFd(4) = FreeFd(7)
  <2>1. /\ KeptEnd(Kind[1]) = "write" /\ KeptEnd(Kind[2]) = "read"
        /\ KeptEnd(Kind[3]) = "read" /\ KeptEnd(Kind[4]) = "read"
    BY DEF KeptEnd, Kind
  <2>2. 2 * 1 = 2 /\ 2 * 2 - 1 = 3 /\ 2 * 3 - 1 = 5 /\ 2 * 4 - 1 = 7
    OBVIOUS
  <2> QED
    BY <2>1, <2>2 DEF KeptFd
<1>2. 1 .. 4 = {1, 2, 3, 4}
  OBVIOUS
<1>3. 2 \in 1 .. 8 /\ 3 \in 1 .. 8 /\ 5 \in 1 .. 8 /\ 7 \in 1 .. 8
  OBVIOUS
<1>4. \A i \in 1 .. 4 : KeptFd(i) \in Free /\ KeptFd(i) \in 0 .. Enough - 1
  <2>1. \A n \in 1 .. 8 : FreeFd(n) \in Free /\ FreeFd(n) \in 0 .. Enough - 1
    BY FreeFdsAreNew
  <2> QED
    BY <1>1, <1>2, <1>3, <2>1, Zenon
<1>5. \A i, j \in 1 .. 4 : KeptFd(i) = KeptFd(j) => i = j
  <2>1. \A n, m \in 1 .. 8 : FreeFd(n) = FreeFd(m) => n = m
    BY FreeFdsAreNew
  <2>2. /\ FreeFd(2) # FreeFd(3) /\ FreeFd(2) # FreeFd(5) /\ FreeFd(2) # FreeFd(7)
        /\ FreeFd(3) # FreeFd(5) /\ FreeFd(3) # FreeFd(7) /\ FreeFd(5) # FreeFd(7)
    BY <1>3, <2>1
  <2> QED
    BY <1>1, <1>2, <2>2
<1> QED
  BY <1>4, <1>5 DEF Free

(* Where the new worker's pipe of each kind is.                             *)
LEMMA EachKindHasItsPlace ==
    ASSUME NEW kind \in KindName
    PROVE  LET i == CHOOSE i \in DOMAIN Kind : Kind[i] = kind
           IN  i \in 1 .. 4 /\ Kind[i] = kind
<1>1. \E i \in DOMAIN Kind : Kind[i] = kind
  BY DEF KindName
<1> QED
  BY <1>1, KindFacts

LEMMA ForkKeeps ==
    ASSUME Inv, ForkWorker
    PROVE  Inv'
<1>1. PICK s \in Slot :
          /\ pid[s] = NoPid
          /\ pid' = [pid EXCEPT ![s] = forks + 1]
          /\ fds' = FdsAfterFork(forks + 1)
          /\ pipes' = [pipes EXCEPT ![s] = [kind \in KindName |->
                KeptFd(CHOOSE i \in DOMAIN Kind : Kind[i] = kind)]]
          /\ held' = [held EXCEPT ![forks + 1] =
                OpenEnds \cup {Given(forks + 1, kind) : kind \in KindName}]
          /\ epoll' = epoll \cup
                {[worker |-> forks + 1, kind |-> kind, slot |-> s] :
                    kind \in KindName \ {"dispatch"}}
  BY DEF ForkWorker
<1> DEFINE p == forks + 1
           new == {KeptFd(i) : i \in 1 .. 4}
           Place(kind) == KeptFd(CHOOSE i \in DOMAIN Kind : Kind[i] = kind)
<1>2. p \in Pid /\ forks' \in 0 .. MaxForks /\ p # NoPid
  BY FdsAssumption DEF ForkWorker, Inv, NoLeak, TypeOK, Pid, NoPid
<1>3. /\ TypeOK /\ NoLeak /\ ResultEventsAreOwn /\ HeldInv
  BY DEF Inv, NoLeak
<1>4. /\ \A i \in 1 .. 4 : /\ KeptFd(i) \in Fd /\ fds[KeptFd(i)] = Closed
                           /\ KeptFd(i) \in 0 .. Enough - 1
      /\ \A i, j \in 1 .. 4 : KeptFd(i) = KeptFd(j) => i = j
  BY <1>1, <1>3, KeptFdsAreNew
<1>5. ASSUME NEW i \in 1 .. 4 PROVE fds'[KeptFd(i)] = Kept(p, Kind[i])
  <2>1. \E j \in DOMAIN Kind : KeptFd(i) = KeptFd(j)
    BY KindFacts
  <2>2. (CHOOSE j \in DOMAIN Kind : KeptFd(i) = KeptFd(j)) = i
    BY <1>4, <2>1, KindFacts
  <2>3. KeptFd(i) \in Fd
    BY <1>4
  <2>4. fds'[KeptFd(i)] = Kept(p, Kind[CHOOSE j \in DOMAIN Kind : KeptFd(i) = KeptFd(j)])
    BY <1>1, <2>1, <2>3 DEF FdsAfterFork
  <2> QED
    BY <2>2, <2>4
<1>6. ASSUME NEW f \in Fd, f \notin new PROVE fds'[f] = fds[f]
  BY <1>1, <1>6, KindFacts DEF FdsAfterFork
<1>7. ASSUME NEW kind \in KindName
      PROVE  Place(kind) \in new /\ fds'[Place(kind)] = Kept(p, kind)
             /\ Place(kind) \in 0 .. Enough - 1 /\ Place(kind) \in Fd
  BY <1>4, <1>5, EachKindHasItsPlace
<1>8. ASSUME NEW f \in new PROVE \E kind \in KindName : Place(kind) = f
  <2>1. PICK i \in 1 .. 4 : f = KeptFd(i)
    OBVIOUS
  <2>2. Kind[i] \in KindName
    BY KindFacts DEF KindName
  <2>3. (CHOOSE j \in DOMAIN Kind : Kind[j] = Kind[i]) = i
    <3>1. \A j \in 1 .. 4 : Kind[j] = Kind[i] => j = i
      BY DEF Kind
    <3> QED
      BY <3>1, KindFacts
  <2> QED
    BY <2>1, <2>2, <2>3
<1>9. /\ pid'[s] = p /\ \A t \in Slot \ {s} : pid'[t] = pid[t]
      /\ \A kind \in KindName : pipes'[s][kind] = Place(kind)
      /\ \A t \in Slot \ {s} : pipes'[t] = pipes[t]
  BY <1>1, <1>3 DEF TypeOK
<1> HIDE DEF new, Place
<1>10. TypeOK'
  <2>1. fds' \in [Fd -> End \cup {Closed}]
    <3>1. fds' = [f \in Fd |-> fds'[f]]
      BY <1>1 DEF FdsAfterFork
    <3>2. ASSUME NEW f \in Fd PROVE fds'[f] \in End \cup {Closed}
      <4>1. CASE f \in new
        <5>1. PICK kind \in KindName : Place(kind) = f
          BY <1>8, <4>1
        <5> QED
          BY <1>2, <1>7, <5>1, EndsDiffer
      <4>2. CASE f \notin new
        BY <1>3, <1>6, <4>2 DEF TypeOK
      <4> QED
        BY <4>1, <4>2
    <3> QED
      BY <3>1, <3>2
  <2>2. pid' \in [Slot -> Pid \cup {NoPid}]
    BY <1>1, <1>2, <1>3 DEF TypeOK
  <2>3. pipes' \in [Slot -> [KindName -> (0 .. Enough - 1) \cup {NoFd}]]
    BY <1>1, <1>3, <1>7 DEF TypeOK, Place
  <2>4. epoll' \subseteq Interest
    BY <1>1, <1>2, <1>3 DEF TypeOK, Interest
  <2>5. held' \in [Pid -> SUBSET End]
    BY <1>1, <1>2, <1>3, OpenAreKept, EndsDiffer DEF TypeOK
  <2> QED
    BY <1>2, <2>1, <2>2, <2>3, <2>4, <2>5 DEF TypeOK, Pid
<1>11. NoLeak'
  <2>1. ASSUME NEW t \in Slot, NEW kind \in KindName, pid'[t] # NoPid
        PROVE  pipes'[t][kind] \in Fd /\ fds'[pipes'[t][kind]] = Kept(pid'[t], kind)
    <3>1. CASE t = s
      BY <1>7, <1>9, <3>1
    <3>2. CASE t # s
      <4>1. pid[t] # NoPid /\ pid[t] \in Pid
        BY <1>3, <1>9, <2>1, <3>2 DEF TypeOK
      <4>2. fds[pipes[t][kind]] = Kept(pid[t], kind)
        BY <1>3, <4>1 DEF NoLeak
      <4>3. fds[pipes[t][kind]] # Closed
        BY <4>1, <4>2, EndsDiffer
      <4>4. pipes[t][kind] \in Fd /\ pipes[t][kind] \notin new
        BY <1>3, <1>4, <4>1, <4>3 DEF new, NoLeak
      <4> QED
        BY <1>6, <1>9, <3>2, <4>2, <4>4
    <3> QED
      BY <3>1, <3>2
  <2>2. ASSUME NEW f \in Fd, fds'[f] # Closed
        PROVE  \E t \in Slot, kind \in KindName : pid'[t] # NoPid /\ pipes'[t][kind] = f
    <3>1. CASE f \in new
      BY <1>2, <1>8, <1>9, <3>1
    <3>2. CASE f \notin new
      <4>1. fds[f] # Closed
        BY <1>6, <2>2, <3>2
      <4>2. PICK t \in Slot, kind \in KindName : pid[t] # NoPid /\ pipes[t][kind] = f
        BY <1>3, <4>1 DEF NoLeak
      <4>3. t # s
        BY <1>1, <4>2
      <4> QED
        BY <1>9, <4>2, <4>3
    <3> QED
      BY <3>1, <3>2
  <2> QED
    BY <1>10, <2>1, <2>2 DEF NoLeak
<1>12. ResultEventsAreOwn'
  <2>1. ASSUME NEW i \in epoll', i.kind = "result" PROVE pid'[i.slot] = i.worker
    <3>1. CASE i \in epoll
      <4>1. i.slot \in Slot /\ i.worker \in Pid
        BY <1>3, <3>1 DEF TypeOK, Interest
      <4>2. pid[i.slot] = i.worker
        BY <1>3, <2>1, <3>1 DEF ResultEventsAreOwn
      <4>3. i.slot # s
        BY <1>1, <4>1, <4>2, FdsAssumption DEF Pid, NoPid
      <4> QED
        BY <1>9, <4>1, <4>2, <4>3
    <3>2. CASE i \notin epoll
      BY <1>1, <1>9, <3>2
    <3> QED
      BY <3>1, <3>2
  <2>2. ASSUME NEW t \in Slot, pid'[t] # NoPid
        PROVE  [worker |-> pid'[t], kind |-> "result", slot |-> t] \in epoll'
    <3>1. CASE t = s
      BY <1>1, <1>9, <3>1, KindFacts
    <3>2. CASE t # s
      BY <1>1, <1>3, <1>9, <2>2, <3>2 DEF ResultEventsAreOwn
    <3> QED
      BY <3>1, <3>2
  <2> QED
    BY <2>1, <2>2 DEF ResultEventsAreOwn
<1>13. HeldInv'
  <2> SUFFICES ASSUME NEW q \in Pid, NEW e \in held'[q]
               PROVE  \/ \E kind \in KindName : e = Given(q, kind)
                      \/ \E r \in Pid, kind \in KindName : e = Kept(r, kind)
    BY DEF HeldInv, Given, Kept
  <2>1. CASE q = p
    <3>1. held'[q] = OpenEnds \cup {Given(p, kind) : kind \in KindName}
      BY <1>1, <1>2, <1>3, <2>1 DEF TypeOK
    <3>2. CASE e \in OpenEnds
      BY <1>3, <3>2, OpenAreKept
    <3>3. CASE e \notin OpenEnds
      BY <2>1, <3>1, <3>3
    <3> QED
      BY <3>2, <3>3
  <2>2. CASE q # p
    <3>1. held'[q] = held[q]
      BY <1>1, <1>3, <2>2 DEF TypeOK
    <3> QED
      BY <1>3, <3>1 DEF HeldInv
  <2> QED
    BY <2>1, <2>2
<1> QED
  BY <1>11, <1>12, <1>13 DEF Inv

(* A connected worker's result pipe is open on the dispatcher's side.       *)
LEMMA ResultEndIsOpen ==
    ASSUME NoLeak, NEW s \in Slot, pid[s] # NoPid
    PROVE  Kept(pid[s], "result") \in OpenEnds
<1>1. "result" \in KindName /\ pid[s] \in Pid
  BY KindFacts DEF NoLeak, TypeOK
<1>2. fds[pipes[s]["result"]] = Kept(pid[s], "result")
  BY <1>1 DEF NoLeak
<1>3. Kept(pid[s], "result") # Closed
  BY <1>1, EndsDiffer
<1>4. pipes[s]["result"] \in Fd
  BY <1>1 DEF NoLeak
<1> QED
  BY <1>2, <1>3, <1>4 DEF OpenEnds

LEMMA DeathKeeps ==
    ASSUME Inv, NEW p \in Pid, WorkerDies(p)
    PROVE  Inv'
<1>1. /\ TypeOK /\ NoLeak /\ ResultEventsAreOwn /\ HeldInv
      /\ held' = [held EXCEPT ![p] = {}]
      /\ epoll' = StillOpen(epoll, OpenEnds \cup UNION {held'[q] : q \in Pid})
      /\ UNCHANGED <<fds, pid, pipes, forks>>
  BY DEF Inv, NoLeak, WorkerDies
<1>2. epoll' \subseteq epoll /\ \A q \in Pid : held'[q] \subseteq held[q]
  BY <1>1 DEF StillOpen, TypeOK
<1>3. TypeOK'
  BY <1>1, <1>2 DEF TypeOK
<1>4. NoLeak'
  BY <1>1, <1>3 DEF NoLeak, Kept, KeptEnd
<1>5. ResultEventsAreOwn'
  <2>1. ASSUME NEW t \in Slot, pid'[t] # NoPid
        PROVE  [worker |-> pid'[t], kind |-> "result", slot |-> t] \in epoll'
    <3> DEFINE i == [worker |-> pid[t], kind |-> "result", slot |-> t]
    <3>1. i \in epoll /\ pid'[t] = pid[t] /\ i.worker = pid[t] /\ i.kind = "result"
      BY <1>1, <2>1 DEF ResultEventsAreOwn
    <3>2. Kept(pid[t], "result") \in OpenEnds
      BY <1>1, <2>1, ResultEndIsOpen
    <3> HIDE DEF i
    <3>3. i \in epoll'
      BY <1>1, <3>1, <3>2 DEF StillOpen
    <3> QED
      BY <3>1, <3>3 DEF i
  <2> QED
    BY <1>1, <1>2, <2>1 DEF ResultEventsAreOwn
<1>6. HeldInv'
  BY <1>1, <1>2 DEF HeldInv, Given, Kept
<1> QED
  BY <1>4, <1>5, <1>6 DEF Inv

LEMMA ReapKeeps ==
    ASSUME Inv, ReapWorkers
    PROVE  Inv'
<1> DEFINE dead == {s \in Slot : Dead(s)}
<1>1. /\ TypeOK /\ NoLeak /\ ResultEventsAreOwn /\ HeldInv
      /\ fds' = [f \in Fd |->
            IF \E s \in dead : \E kind \in Finished(s) : pipes[s][kind] = f
            THEN Closed ELSE fds[f]]
      /\ pid' = [s \in Slot |-> IF s \in dead THEN NoPid ELSE pid[s]]
      /\ epoll' = StillOpen(epoll \ Unregistered(dead),
                            ({fds'[f] : f \in Fd} \ {Closed}) \cup UNION {held[q] : q \in Pid})
      /\ UNCHANGED <<pipes, forks, held>>
  BY DEF Inv, NoLeak, ReapWorkers
<1>2. /\ \A s \in dead : s \in Slot /\ pid[s] # NoPid /\ pid'[s] = NoPid /\ pid[s] \notin Living
      /\ \A s \in Slot \ dead : /\ pid'[s] = pid[s]
                                /\ pid[s] # NoPid => pid[s] \in Living
  BY <1>1 DEF Dead
<1> HIDE DEF dead
<1>3. ASSUME NEW t \in Slot \ dead, NEW kind \in KindName, pid[t] # NoPid
      PROVE  /\ pipes[t][kind] \in Fd /\ fds[pipes[t][kind]] = Kept(pid[t], kind)
             /\ fds'[pipes[t][kind]] = fds[pipes[t][kind]]
             /\ Kept(pid[t], kind) # Closed
  <2>1. pid[t] \in Pid
    BY <1>1, <1>3 DEF TypeOK
  <2>2. fds[pipes[t][kind]] = Kept(pid[t], kind)
    BY <1>1, <1>3 DEF NoLeak
  <2>3. Kept(pid[t], kind) # Closed
    BY <2>1, EndsDiffer
  <2>4. pipes[t][kind] \in Fd
    BY <1>1, <1>3 DEF NoLeak
  <2>5. ASSUME NEW s \in dead, NEW k \in KindName PROVE pipes[s][k] # pipes[t][kind]
    <3>0. s \in Slot /\ pid[s] # NoPid
      BY <1>2
    <3>1. fds[pipes[s][k]] = Kept(pid[s], k) /\ pid[s] \in Pid
      BY <1>1, <3>0 DEF NoLeak, TypeOK
    <3>2. pid[s] # pid[t]
      BY <1>2, <1>3
    <3> QED
      BY <2>1, <2>2, <3>1, <3>2, EndsDiffer
  <2> QED
    BY <1>1, <2>2, <2>3, <2>4, <2>5 DEF Finished
<1>4. TypeOK'
  <2>1. epoll' \subseteq epoll
    BY <1>1 DEF StillOpen
  <2>2. fds' \in [Fd -> End \cup {Closed}] /\ pid' \in [Slot -> Pid \cup {NoPid}]
    BY <1>1 DEF TypeOK
  <2> QED
    BY <1>1, <2>1, <2>2 DEF TypeOK
<1>5. NoLeak'
  <2>1. ASSUME NEW t \in Slot, NEW kind \in KindName, pid'[t] # NoPid
        PROVE  pipes'[t][kind] \in Fd /\ fds'[pipes'[t][kind]] = Kept(pid'[t], kind)
    <3>1. t \notin dead
      BY <1>2, <2>1
    <3> QED
      BY <1>1, <1>2, <1>3, <2>1, <3>1
  <2>2. ASSUME NEW f \in Fd, fds'[f] # Closed
        PROVE  \E t \in Slot, kind \in KindName : pid'[t] # NoPid /\ pipes'[t][kind] = f
    <3>1. /\ fds[f] # Closed
          /\ ~\E s \in dead : \E kind \in KindName : pipes[s][kind] = f
      BY <1>1, <2>2 DEF Finished
    <3>2. PICK t \in Slot, kind \in KindName : pid[t] # NoPid /\ pipes[t][kind] = f
      BY <1>1, <3>1 DEF NoLeak
    <3>3. t \notin dead
      BY <3>1, <3>2
    <3> QED
      BY <1>1, <1>2, <3>2, <3>3
  <2> QED
    BY <1>4, <2>1, <2>2 DEF NoLeak
<1>6. ResultEventsAreOwn'
  <2>1. ASSUME NEW i \in epoll', i.kind = "result" PROVE pid'[i.slot] = i.worker
    <3>1. i \in epoll /\ i \notin Unregistered(dead)
      BY <1>1 DEF StillOpen
    <3>2. i.slot \in Slot \ dead
      BY <1>1, <2>1, <3>1 DEF Unregistered, TypeOK, Interest
    <3> QED
      BY <1>1, <1>2, <2>1, <3>1, <3>2 DEF ResultEventsAreOwn
  <2>2. ASSUME NEW t \in Slot, pid'[t] # NoPid
        PROVE  [worker |-> pid'[t], kind |-> "result", slot |-> t] \in epoll'
    <3> DEFINE i == [worker |-> pid[t], kind |-> "result", slot |-> t]
    <3>1. t \in Slot \ dead /\ pid'[t] = pid[t] /\ pid[t] # NoPid
      BY <1>2, <2>2
    <3>2. i \in epoll /\ i.worker = pid[t] /\ i.kind = "result" /\ i.slot = t
      BY <1>1, <3>1 DEF ResultEventsAreOwn
    <3>3. "result" \in KindName
      BY KindFacts
    <3>4. Kept(pid[t], "result") \in {fds'[f] : f \in Fd} \ {Closed}
      BY <1>3, <3>1, <3>3
    <3> HIDE DEF i
    <3>5. i \notin Unregistered(dead)
      BY <3>1, <3>2 DEF Unregistered
    <3>6. i \in epoll'
      BY <1>1, <3>2, <3>4, <3>5 DEF StillOpen
    <3> QED
      BY <3>1, <3>6 DEF i
  <2> QED
    BY <2>1, <2>2 DEF ResultEventsAreOwn
<1>7. HeldInv'
  BY <1>1 DEF HeldInv, Given, Kept
<1> QED
  BY <1>5, <1>6, <1>7 DEF Inv

-----------------------------------------------------------------------------
(* What follows.                                                            *)

LEMMA InitEstablishes == Init => Inv
<1> SUFFICES ASSUME Init PROVE Inv
  OBVIOUS
<1>1. TypeOK
  BY FdsAssumption DEF Init, TypeOK
<1> QED
  BY <1>1 DEF Init, Inv, NoLeak, ResultEventsAreOwn, HeldInv

LEMMA NextKeeps == Inv /\ [Next]_vars => Inv'
<1> SUFFICES ASSUME Inv, [Next]_vars PROVE Inv'
  OBVIOUS
<1>1. CASE ForkWorker
  BY <1>1, ForkKeeps
<1>2. CASE \E p \in Pid : WorkerDies(p)
  BY <1>2, DeathKeeps
<1>3. CASE ReapWorkers
  BY <1>3, ReapKeeps
<1>4. CASE UNCHANGED vars
  BY <1>4 DEF vars, Inv, NoLeak, TypeOK, ResultEventsAreOwn, HeldInv, Given, Kept
<1> QED
  BY <1>1, <1>2, <1>3, <1>4 DEF Next

(* However many workers come and go in however many slots, the descriptors  *)
(* that the dispatcher has open are those in the structs of its slots, each *)
(* the right one, and those that a fork takes are within the bound.         *)
THEOREM NothingLeaks == Spec => []NoLeak
<1>1. Inv => NoLeak
  BY DEF Inv
<1> QED
  BY <1>1, InitEstablishes, NextKeeps, PTL DEF Spec

(* An event on a result pipe is handled for the worker that wrote it, and   *)
(* EPOLL_CTL_DEL finds what it is to delete.                                *)
THEOREM ResultsAreOwn == Spec => []ResultEventsAreOwn
<1>1. Inv => ResultEventsAreOwn
  BY DEF Inv
<1> QED
  BY <1>1, InitEstablishes, NextKeeps, PTL DEF Spec

(* Nobody holds a dead worker's ends of its pipes, so that a write to it    *)
(* fails and its output ends.                                               *)
THEOREM DeathIsAlwaysNoticed == Spec => []DeathIsNoticed
<1>1. Inv => DeathIsNoticed
  <2> SUFFICES ASSUME Inv, NEW s \in Slot, Dead(s), NEW kind \in KindName,
                      Given(pid[s], kind) \in OpenEnds \cup UNION {held[p] : p \in Living}
               PROVE  FALSE
    BY DEF DeathIsNoticed
  <2>1. NoLeak /\ HeldInv /\ pid[s] \notin Living
    BY DEF Inv, Dead
  <2>2. Given(pid[s], kind) \notin OpenEnds
    BY <2>1, OpenAreKept, EndsDiffer
  <2>3. PICK p \in Living : Given(pid[s], kind) \in held[p]
    BY <2>2
  <2>4. p \in Pid /\ p # pid[s]
    BY <2>1 DEF Living
  <2>5. PICK k \in KindName : Given(pid[s], kind) = Given(p, k)
    BY <2>1, <2>3, <2>4, EndsDiffer DEF HeldInv
  <2>6. Given(pid[s], kind).worker = pid[s] /\ Given(p, k).worker = p
    BY DEF Given
  <2> QED
    BY <2>4, <2>5, <2>6
<1> QED
  BY <1>1, InitEstablishes, NextKeeps, PTL DEF Spec
=============================================================================
