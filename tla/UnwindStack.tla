----------------------------- MODULE UnwindStack -----------------------------
(***************************************************************************)
(* What a cleanup stack promises: the commands pushed on it, one or more   *)
(* at a time, are run or dropped one at a time and in the reverse order,   *)
(* each once.                                                              *)
(***************************************************************************)
EXTENDS Sequences, SequencesExt

CONSTANT Pushable       \* the commands

VARIABLES
    commands,           \* those that have been pushed and not popped
    done                \* the object on which the last command was run

Init == commands = <<>> /\ done = "none"

Push ==
    /\ IsStrictPrefix(commands, commands')
    /\ Range(commands') \subseteq Pushable
    /\ UNCHANGED done

Run ==
    /\ commands # <<>>
    /\ commands' = Front(commands)
    /\ done' = Last(commands).object

Drop ==
    /\ commands # <<>>
    /\ commands' = Front(commands)
    /\ UNCHANGED done

Spec == Init /\ [][Push \/ Run \/ Drop]_<<commands, done>>
=============================================================================
