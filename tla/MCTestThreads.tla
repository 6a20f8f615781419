-------------------------- MODULE MCTestThreads --------------------------
(* Instances of TestThreads for TLC: the user threads are interchangeable. *)
EXTENDS TestThreads, TLC

UserSymmetry == Permutations(User)
=============================================================================
