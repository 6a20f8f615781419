--------------------------- MODULE MCDispatcher ---------------------------
(* Instances of Dispatcher for TLC: the values a configuration cannot      *)
(* write down itself.                                                      *)
EXTENDS Dispatcher

AllQueues == [d \in Def |-> NoPref]

(* Definition 3 was selected for a queue that does not exist.              *)
ThirdOnQueue7 == [d \in Def |-> IF d = 3 THEN 7 ELSE NoPref]

(* Definition 2 was selected for queue 1, 3 for queue 0, the others for all.*)
SecondOnQueue1 == [d \in Def |-> CASE d = 2 -> 1 [] d = 3 -> 0 [] OTHER -> NoPref]

AnyState == {"starting", "fresh", "running", "served"}

Asked(isolation, no_fork, jobs, timeout) ==
    [isolation |-> isolation, no_fork |-> no_fork, jobs |-> jobs, timeout |-> timeout]

Processes == {Asked("process", FALSE, 2, TRUE)}

(* Both methods of isolation, and combinations that runner_init() refuses.  *)
(* crucible-run refuses a timeout where it does not fork.                   *)
BothIsolations ==
    {Asked("process", FALSE, 2, TRUE)}
    \cup {Asked("thread", no_fork, jobs, ~no_fork) : no_fork \in BOOLEAN, jobs \in {1, 2}}

(* With and without forking.                                                *)
ForkOrNot ==
    {Asked("process", no_fork, jobs, ~no_fork) : no_fork \in BOOLEAN, jobs \in {1, 2}}
=============================================================================
