----------------------------- MODULE DispatchFds -----------------------------
(***************************************************************************)
(* The descriptors of the dispatcher: the pipes to its workers             *)
(* (src/framework/runner/dispatcher.c), the copies that workers inherit    *)
(* from fork() and keep, as they never exec(), and the epoll set, which    *)
(* knows an open file until its last copy is closed, wherever that copy    *)
(* is.  Process isolation, where workers come and go with the tests; a     *)
(* failing system call halts the test run and is left out, so is           *)
(* everything that the Dispatcher module says of the same functions.       *)
(***************************************************************************)
EXTENDS Integers, FiniteSets

CONSTANTS
    Slot,       \* dispatcher.workers, numbered in their order
    MaxForks    \* bound on the workers forked in one test run

ASSUME FdsAssumption ==
    /\ Slot \subseteq Nat /\ IsFiniteSet(Slot) /\ Slot # {}
    /\ MaxForks \in Nat

VARIABLES
    fds,        \* the dispatcher's descriptor table
    pid,        \* worker::pid of each slot; a pid is never used twice
    pipes,      \* the descriptors in the four pipe structs of each slot
    epoll,      \* the epoll set
    forks,      \* how many workers have been forked
    held        \* the pipe ends that each worker process has open

vars == <<fds, pid, pipes, epoll, forks, held>>

Pid == 1 .. MaxForks
NoPid == 0

(* The pipes in the order in which they are made, and the end that the      *)
(* dispatcher keeps of each.                                                *)
Kind == <<"dispatch", "result", "stdout", "stderr">>
KindName == {Kind[i] : i \in DOMAIN Kind}
KeptEnd(kind) == IF kind = "dispatch" THEN "write" ELSE "read"
WorkerEnd(kind) == IF kind = "dispatch" THEN "read" ELSE "write"

(* One end of one pipe of one worker.                                       *)
End == [worker : Pid, kind : KindName, end : {"read", "write"}]
Kept(p, kind) == [worker |-> p, kind |-> kind, end |-> KeptEnd(kind)]
Given(p, kind) == [worker |-> p, kind |-> kind, end |-> WorkerEnd(kind)]
Closed == [worker |-> NoPid, kind |-> "none", end |-> "none"]

(* All that the dispatcher can have open, next to its own few descriptors:  *)
(* four pipe ends per worker, and four more while it forks one.  Its table  *)
(* has room for twice as much.                                              *)
Enough == 4 * Cardinality(Slot) + 4
Fd == 0 .. 2 * Enough - 1
NoFd == -1

(* What epoll_ctl() was told of a pipe: the file behind the read end, and   *)
(* the address of the pipe struct, which is a place in a slot.              *)
Interest == [worker : Pid, kind : KindName \ {"dispatch"}, slot : Slot]

TypeOK ==
    /\ fds \in [Fd -> End \cup {Closed}]
    /\ pid \in [Slot -> Pid \cup {NoPid}]
    /\ pipes \in [Slot -> [KindName -> (0 .. Enough - 1) \cup {NoFd}]]
    /\ epoll \subseteq Interest
    /\ forks \in 0 .. MaxForks
    /\ held \in [Pid -> SUBSET End]

Init ==
    /\ fds = [f \in Fd |-> Closed]
    /\ pid = [s \in Slot |-> NoPid]
    /\ pipes = [s \in Slot |-> [kind \in KindName |-> NoFd]]
    /\ epoll = {}
    /\ forks = 0
    /\ held = [p \in Pid |-> {}]

-----------------------------------------------------------------------------
(* A worker that has not exited holds the ends of its own pipes.            *)
Living == {p \in Pid : held[p] # {}}
Dead(s) == pid[s] # NoPid /\ pid[s] \notin Living
OpenEnds == {fds[f] : f \in Fd} \ {Closed}

(* The kernel drops an interest with the last copy of the file.             *)
StillOpen(interests, open) ==
    {i \in interests : Kept(i.worker, i.kind) \in open}

(* The n-th lowest free descriptor, as pipe2() takes them.                  *)
FreeFd(n) ==
    LET free == {f \in Fd : fds[f] = Closed}
    IN  CHOOSE f \in free : Cardinality({g \in free : g < f}) = n - 1

(* The descriptor of the i-th of four new pipes that the dispatcher keeps:  *)
(* the write end of the first, the read end of the others.                  *)
KeptFd(i) == FreeFd(IF KeptEnd(Kind[i]) = "read" THEN 2 * i - 1 ELSE 2 * i)

(* MUTANT: the dispatcher does not close the end of the dispatch pipe that  *)
(* is the worker's.                                                         *)
FdsAfterForkKept(p) ==
    [f \in Fd |->
        IF \E i \in DOMAIN Kind : f = KeptFd(i)
        THEN Kept(p, Kind[CHOOSE i \in DOMAIN Kind : f = KeptFd(i)])
        ELSE IF f = FreeFd(1) THEN Given(p, "dispatch") ELSE fds[f]]

(* Both sides have closed the ends they have no use for.                    *)
FdsAfterFork(p) ==
    [f \in Fd |->
        IF \E i \in DOMAIN Kind : f = KeptFd(i)
        THEN Kept(p, Kind[CHOOSE i \in DOMAIN Kind : f = KeptFd(i)])
        ELSE fds[f]]

(* dispatcher_get_new_worker(): four pipes, a fork, and each side closes    *)
(* the ends it has no use for; the worker also those of its own pipes that  *)
(* the dispatcher keeps, but not what it inherits of older workers.  The    *)
(* dispatcher registers the three pipes that it reads.                      *)
ForkWorker ==
    /\ forks < MaxForks
    /\ \E s \in Slot :
          /\ pid[s] = NoPid /\ \A t \in Slot : t < s => pid[t] # NoPid
          /\ LET p == forks + 1
             IN  /\ pid' = [pid EXCEPT ![s] = p]
                 /\ fds' = FdsAfterFork(p)
                 /\ pipes' = [pipes EXCEPT ![s] = [kind \in KindName |->
                       KeptFd(CHOOSE i \in DOMAIN Kind : Kind[i] = kind)]]
                 /\ held' = [held EXCEPT ![p] =
                       OpenEnds \cup {Given(p, kind) : kind \in KindName}]
                 /\ epoll' = epoll \cup
                       {[worker |-> p, kind |-> kind, slot |-> s] :
                           kind \in KindName \ {"dispatch"}}
    /\ forks' = forks + 1

(* A worker exits or is killed: all its copies are closed.                  *)
WorkerDies(p) ==
    /\ p \in Living
    /\ held' = [held EXCEPT ![p] = {}]
    /\ epoll' = StillOpen(epoll, OpenEnds \cup UNION {held'[q] : q \in Pid})
    /\ UNCHANGED <<fds, pid, pipes, forks>>

(* MUTANT: the stderr pipe is not closed.                                   *)
FinishedKinds(s) == KindName \ {"stderr"}

(* The pipes that worker_pipe_finish() is called for.                       *)
Finished(s) == KindName

(* MUTANT: nothing is taken off the epoll set by hand.                      *)
UnregisteredNone(dead) == {}

(* dispatcher_cleanup_dead_worker() calls EPOLL_CTL_DEL for the result pipe *)
(* and leaves the other two to the kernel.                                  *)
Unregistered(dead) == {i \in epoll : i.kind = "result" /\ i.slot \in dead}

(* dispatcher_handle_sigchld(): clean up every dead worker.  The structs    *)
(* keep their descriptors until the slot is used again.                     *)
ReapWorkers ==
    LET dead == {s \in Slot : Dead(s)}
    IN  /\ dead # {}
        /\ fds' = [f \in Fd |->
              IF \E s \in dead : \E kind \in Finished(s) : pipes[s][kind] = f
              THEN Closed ELSE fds[f]]
        /\ pid' = [s \in Slot |-> IF s \in dead THEN NoPid ELSE pid[s]]
        /\ epoll' = StillOpen(epoll \ Unregistered(dead),
                              ({fds'[f] : f \in Fd} \ {Closed})
                              \cup UNION {held[q] : q \in Pid})
        /\ UNCHANGED <<pipes, forks, held>>

Next ==
    \/ ForkWorker
    \/ \E p \in Pid : WorkerDies(p)
    \/ ReapWorkers

Spec == Init /\ [][Next]_vars

-----------------------------------------------------------------------------
(* Every variable keeps its type, and nothing leaks, however many tests are *)
(* run: what the dispatcher has open are the four ends of each connected    *)
(* worker, each where its struct says, so what worker_pipe_finish() closes  *)
(* belongs to the worker it is for.                                         *)
NoLeak ==
    /\ TypeOK
    /\ \A s \in Slot, kind \in KindName :
          pid[s] # NoPid =>
              pipes[s][kind] \in Fd /\ fds[pipes[s][kind]] = Kept(pid[s], kind)
    /\ \A f \in Fd : fds[f] # Closed =>
          \E s \in Slot, kind \in KindName : pid[s] # NoPid /\ pipes[s][kind] = f

(* Why that is: what a worker inherits are ends that the dispatcher keeps,  *)
(* never another worker's own.                                              *)
HeldInv ==
    \A p \in Pid : \A e \in held[p] :
        \/ \E kind \in KindName : e = Given(p, kind)
        \/ \E q \in Pid, kind \in KindName : e = Kept(q, kind)

(* A dead worker is noticed: nobody else, neither the dispatcher nor a      *)
(* worker forked later, has its ends of the pipes.  Otherwise a write to    *)
(* its dispatch pipe would succeed and its other pipes never end.           *)
DeathIsNoticed ==
    \A s \in Slot : Dead(s) =>
        \A kind \in KindName :
            Given(pid[s], kind) \notin OpenEnds \cup UNION {held[p] : p \in Living}

(* An event on a result pipe leads to the slot of the worker that owns it,  *)
(* and every connected worker's result pipe is registered, so the           *)
(* EPOLL_CTL_DEL of its clean-up, which aborts on an error, succeeds.       *)
ResultEventsAreOwn ==
    /\ \A i \in epoll : i.kind = "result" => pid[i.slot] = i.worker
    /\ \A s \in Slot : pid[s] # NoPid =>
          [worker |-> pid[s], kind |-> "result", slot |-> s] \in epoll
=============================================================================
