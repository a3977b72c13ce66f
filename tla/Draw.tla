---- MODULE Draw ----
(* The pool of turns and what is drawn from it (hardening/pool.py, draw.py, params.py). *)
EXTENDS Integers, FiniteSets, FiniteSetsExt

CONSTANTS
    Turns,           \* the era's pool, each a key that may sign once
    Width,           \* turns drawn for a block
    Threshold        \* stamps that harden it

ASSUME ThresholdIsReachable == Threshold \in 1..Width

Exhausted == {}

\* What draw_turns may come to; a hash of the block before decides.
Drawable(spent) ==
    IF Cardinality(Turns \ spent) < Width THEN {Exhausted} ELSE kSubset(Width, Turns \ spent)

\* max_fork_depth: the deepest branch a holder of these turns can build.
Ceiling(held) == Cardinality(held) \div Width
====
