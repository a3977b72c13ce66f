---- MODULE Activation ----
(* Which rules a height runs under, and what a build that does not have them does
   (protocol.py, and the places of tiers.py and net/node.py that ask it).  The changes a
   version makes are that blocks made under its rules do not pass under others. *)
EXTENDS Integers, Sequences, FiniteSets, FiniteSetsExt

CONSTANTS
    Builds,          \* node -> the highest version it implements: PROTOCOL_VERSION
    AcceptingBuilds, \* nodes whose certificate makes a block
    ScheduleEntries, \* <<version, height>> a document may hold
    MaxUpgradeHeight \* bound

\* Versions count from 1, and each build and each schedule names one.
ASSUME VersionsAssumption ==
    /\ \A n \in DOMAIN Builds : Builds[n] \in Nat \ {0}
    /\ ScheduleEntries \subseteq Nat \X Nat
    /\ IsFiniteSet({e[1] : e \in ScheduleEntries})

VARIABLES
    activations,     \* the schedule of the genesis document: a set of <<version, height>>
    certified,       \* blocks: [claims, rules]
    applied,         \* node -> height
    haltedFor        \* node -> the version it stopped for, or 0

activationVars == <<activations, certified, applied, haltedFor>>

Installations == DOMAIN Builds

\* normalise: nothing below version 2 or height 1, nothing twice, later versions later.
Normal(entries) ==
    /\ \A e \in entries : e[1] > 1 /\ e[2] >= 1
    /\ \A d, e \in entries : d # e => d[1] # e[1] /\ (d[1] < e[1] => d[2] < e[2])

InForce(entries, height) == {e[1] : e \in {d \in entries : height >= d[2]}}
\* expected_version.
Expected(height) == Max({1} \cup InForce(activations, height))

\* readiness, and next_activation: what an operator is shown at a height.
NextActivation(height) ==
    LET ahead == {e \in activations : e[2] > height}
    IN IF ahead = {} THEN <<>> ELSE CHOOSE e \in ahead : \A d \in ahead : e[2] <= d[2]
NextIsKnown(n, height) == NextActivation(height) = <<>> \/ NextActivation(height)[1] <= Builds[n]
Ready(n, height) == \A e \in activations : e[2] > height => e[1] <= Builds[n]

\* ---- nodes ----

RulesOf(n, height) == Min({Builds[n], Expected(height)})
Running(n) == haltedFor[n] = 0

\* check: the version a block names is the one its height calls for, either way; what
\* else a node checks it checks by the rules it has.
Accepts(n, block, height) == block.claims = Expected(height) /\ block.rules = RulesOf(n, height)

\* A leader names the version of the height and makes the block by the rules it has.
Certify(leader) ==
    LET height == Len(certified) + 1
        block == [claims |-> Expected(height), rules |-> RulesOf(leader, height)]
    IN /\ height <= MaxUpgradeHeight /\ Running(leader) /\ applied[leader] = height - 1
       /\ Cardinality({n \in Installations : /\ Running(n) /\ applied[n] = height - 1
                                             /\ Accepts(n, block, height)}) >= AcceptingBuilds
       /\ certified' = Append(certified, block)
       /\ UNCHANGED <<activations, applied, haltedFor>>

RequiresTheTip(n) == Expected(applied[n])
\* require, before anything moves.
Require(n) == Expected(applied[n] + 1)

Follow(n) ==
    /\ Running(n) /\ applied[n] < Len(certified)
    /\ IF Require(n) > Builds[n]
       THEN haltedFor' = [haltedFor EXCEPT ![n] = Require(n)] /\ UNCHANGED applied
       ELSE applied' = [applied EXCEPT ![n] = @ + 1] /\ UNCHANGED haltedFor
    /\ UNCHANGED <<activations, certified>>

ActivationInit ==
    /\ activations \in {entries \in SUBSET ScheduleEntries : Normal(entries)}
    /\ certified = <<>>
    /\ applied = [n \in Installations |-> 0] /\ haltedFor = [n \in Installations |-> 0]

ActivationNext == \E n \in Installations : Certify(n) \/ Follow(n)

ActivationSpec == ActivationInit /\ [][ActivationNext]_activationVars

\* ---- properties ----

\* Nobody goes on under rules it does not have, however far the others are: it has stopped
\* at the height before.
NoSilentFork ==
    \A n \in Installations : /\ \A h \in 1..applied[n] : Expected(h) <= Builds[n]
                             /\ haltedFor[n] # 0 => haltedFor[n] = Expected(applied[n] + 1)

\* A node that stops has shown that it would at every height since genesis, and was not
\* ready while the change could still be seen coming.
WarnedBeforeHalting ==
    \A n \in Installations : ~Running(n) => \A h \in 0..applied[n] : ~Ready(n, h)

\* An upgrade is refused by who lacks it, loudly and in time.
UpgradesAreSafe == NoSilentFork /\ WarnedBeforeHalting

\* "Every block names the version it was produced under" (protocol.py).
ProducedAsNamed == \A i \in DOMAIN certified : certified[i].rules = certified[i].claims
====
