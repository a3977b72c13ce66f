---- MODULE Params ----
(* What a chain's parameters may be before anything is founded on them (params.py).  A set
   of parameters is a record of the knobs something is decided by; the numbers the algebra
   is sized by are constants. *)
EXTENDS Integers, FiniteSets

CONSTANTS
    GroebnerFloor, RangeFloor, SoundnessBits    \* below these a launch is refused

\* The names of the conditions that hold, of a record of conditions.
Holding(conditions) == {name \in DOMAIN conditions : conditions[name]}

\* ceil(n * num / den): the attestations that decide, of n.
QuorumSize(n, num, den) == (n * num + den - 1) \div den

\* __post_init__: what no object can be built of.
Constructible(p) ==
    /\ p.blinders >= 1 /\ p.range >= 1 /\ p.row >= 2
    /\ 0 < p.num /\ p.num <= p.den
    /\ p.admitNum > 0 /\ p.admitDen > 0

TiersRun(tiers) == 0..(IF tiers < 1 THEN 1 ELSE tiers) - 1

AtLeastTwoThirds(p) == p.num * 3 >= p.den * 2

\* assess: what is wrong with the values.
Weaknesses(p, tiers) == Holding(
    [groebner   |-> p.blinders < GroebnerFloor,
     range      |-> p.range < RangeFloor,
     soundness  |-> p.rounds < SoundnessBits \/ p.security < SoundnessBits,
     default    |-> p.default \notin p.backends,
     policy     |-> \E t \in TiersRun(tiers) : t \notin DOMAIN p.policy \/ p.policy[t] \notin p.backends,
     quorum     |-> ~AtLeastTwoThirds(p),
     attendance |-> p.attend < 1])
====
