-------------------------- MODULE MCTestSelection --------------------------
(* An instance of TestSelection for TLC: three ordinary tests and one bench *)
(* test, globs that match one, some or all of them.                         *)
EXTENDS TestSelection

FourthIsBench == [d \in Def |-> IF d = 4 THEN "bench." ELSE NoPrefix]

Globs == {[prefix |-> NoPrefix, names |-> Def, star |-> TRUE],
          [prefix |-> NoPrefix, names |-> {1}, star |-> FALSE],
          [prefix |-> NoPrefix, names |-> {1, 2}, star |-> TRUE],
          [prefix |-> "bench.", names |-> {4}, star |-> TRUE]}

WithBangs(glob, bangs, suffix) ==
    [bangs |-> bangs, prefix |-> glob.prefix, names |-> glob.names,
     star |-> glob.star, suffix |-> suffix]

(* Suffixes up to the greatest 32-bit number and beyond.                    *)
Patterns == {WithBangs(glob, bangs, suffix) :
                glob \in Globs, bangs \in 0 .. 2, suffix \in {NoSuffix, 0, 3, 6}}

SimplePatterns == {WithBangs(glob, bangs, NoSuffix) : glob \in Globs, bangs \in 0 .. 1}

Typed(patterns_, fork, jobs, timeout, isolation) ==
    [patterns |-> patterns_, fork |-> fork, jobs |-> jobs, timeout |-> timeout,
     isolation |-> isolation]

(* All options with at most one pattern, no options with two or three.      *)
MCCommandLines ==
    {Typed(ps, fork, jobs, timeout, isolation) :
        ps \in {<<>>} \cup {<<p>> : p \in SimplePatterns}, fork \in {-1, 0, 1},
        jobs \in 0 .. 3, timeout \in BOOLEAN, isolation \in {"process", "thread"}}
    \cup {Typed(<<p, q>>, -1, 0, FALSE, "process") : p \in Patterns, q \in Patterns}
    \cup {Typed(<<p, q, r>>, -1, 0, FALSE, "process") :
            p \in SimplePatterns, q \in SimplePatterns, r \in Patterns}
=============================================================================
