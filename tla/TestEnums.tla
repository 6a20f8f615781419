----------------------------- MODULE TestEnums -----------------------------
(* The enumerations that the test framework and the dispatcher compare by  *)
(* value.                                                                  *)
EXTENDS Integers

(* enum test_phase (framework/test/test.h), compared with < in the code.   *)
PRESTART == 0
SETUP == 1
MAIN == 2
PRECLEANUP == 3
CLEANUP == 4
STOPPED == 5
Phase == PRESTART .. STOPPED
MajorPhase == SETUP .. CLEANUP

(* enum test_result (tapi/t_result.h), accumulated with MAX.               *)
PASS == 0
SKIP == 1
FAIL == 2
LOST == 3
Result == PASS .. LOST

(* The place of a result that nobody has asked for yet.                    *)
NoResult == -1
=============================================================================
