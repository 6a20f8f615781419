--------------------------- MODULE TestLifecycle ---------------------------
(***************************************************************************)
(* What a test promises the runner, whatever threads it is made of: its    *)
(* phases come in order, its verdict is chosen once and never again, it    *)
(* does not stop before there is one, and the verdict reported is that     *)
(* one.                                                                    *)
(***************************************************************************)
EXTENDS TestEnums

VARIABLES
    phase,     \* the phase the test is in
    verdict,   \* the verdict, or NoResult while it is open
    reported   \* what the runner has been told, or NoResult

vars == <<phase, verdict, reported>>

Init == phase = PRESTART /\ verdict = NoResult /\ reported = NoResult

Advance ==
    /\ phase < CLEANUP
    /\ phase' = phase + 1
    /\ UNCHANGED <<verdict, reported>>

Decide(r) ==
    /\ phase \in MajorPhase
    /\ verdict = NoResult
    /\ verdict' = r
    /\ UNCHANGED <<phase, reported>>

Stop ==
    /\ phase = CLEANUP
    /\ verdict # NoResult
    /\ phase' = STOPPED
    /\ UNCHANGED <<verdict, reported>>

(* A test that is marked to be skipped never starts.                       *)
StopSkipped ==
    /\ phase = PRESTART
    /\ phase' = STOPPED
    /\ verdict' = SKIP
    /\ UNCHANGED reported

Report ==
    /\ phase = STOPPED
    /\ reported = NoResult
    /\ reported' = verdict
    /\ UNCHANGED <<phase, verdict>>

Next ==
    \/ Advance
    \/ \E r \in {PASS, SKIP, FAIL} : Decide(r)
    \/ Stop
    \/ StopSkipped
    \/ Report

Spec == Init /\ [][Next]_vars /\ WF_vars(Next)
=============================================================================
