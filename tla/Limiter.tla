---- MODULE Limiter ----
(* What a source may make a node do, and how often (net/limits.py, and how the read loop of
   net/peer.py charges it).  A token is a token; the price of a submission is a multiple of
   its written price, which follows what a proof is measured to cost. *)
EXTENDS Selection, SequencesExt, FiniteSetsExt

CONSTANTS
    Clients, Validators,        \* sources
    Capacity, Rate,             \* of a client's bucket
    PeerCapacity, PeerRate,
    QueryCost, TxCost, BytesCost,   \* a lookup, a submission at the written price, a largest frame
    MaxMultiple,                \* of the written price: MAX_PRICE_MULTIPLE
    IdleAfter, MaxSources,
    MaxTime                     \* bound

ASSUME LimiterAssumption ==
    /\ \A amount \in {Capacity, Rate, PeerCapacity, PeerRate, QueryCost, TxCost, BytesCost, IdleAfter, MaxTime} :
          amount \in Nat
    /\ MaxMultiple \in Nat \ {0} /\ MaxSources \in Nat \ {0}
    /\ Clients \cap Validators = {}

\* The largest burst there can be; a bucket that is idle long enough to be forgotten is full.
LargestFloor == TxCost * MaxMultiple + BytesCost
ASSUME ForgottenIsFull ==
    /\ Rate * IdleAfter >= Max({Capacity, LargestFloor})
    /\ PeerRate * IdleAfter >= PeerCapacity

VARIABLES
    clock,
    multiple,        \* what the meter says
    buckets,         \* source -> [capacity, tokens, last]
    recent,          \* sources with a bucket, least recently used first
    ledger,          \* source -> [spent, top]: all it was allowed, its largest burst, till crowded
    crowded          \* sources forgotten before they were idle

limiterVars == <<clock, multiple, buckets, recent, ledger, crowded>>

Sources == Clients \cup Validators
TxPrice == TxCost * multiple
NothingYet == [spent |-> 0, top |-> 0]
FloorCapacity == TxPrice + BytesCost

\* ---- the bucket ----

BuiltFor(s) == IF s \in Validators THEN PeerCapacity ELSE Max({Capacity, FloorCapacity})
RateOf(s) == IF s \in Validators THEN PeerRate ELSE Rate

NeverRaised(s, b) == b.capacity
\* The price may have moved since the bucket was made.
Raised(s, b) == IF s \in Clients THEN Max({b.capacity, FloorCapacity}) ELSE b.capacity

Refilled(s, b, now) == Min({Raised(s, b), b.tokens + (now - b.last) * RateOf(s)})

\* take: refused or not, what has been earned by now is counted once.
Take(s, b, cost, now) ==
    LET tokens == Refilled(s, b, now)
    IN [ok |-> tokens >= cost,
        bucket |-> [capacity |-> Raised(s, b), last |-> now,
                    tokens |-> IF tokens >= cost THEN tokens - cost ELSE tokens]]

\* ---- the table ----

IdleFor(b) == clock - b.last
WrittenCapacityEarned(b) == IdleFor(b) * Rate >= Capacity
IsIdle(b) == IdleFor(b) > IdleAfter
\* _sweep: the idle ones are looked for from the front, and then whatever is at the front.
IdlePrefix == CHOOSE n \in 0..Len(recent) :
    /\ \A i \in 1..n : IsIdle(buckets[recent[i]])
    /\ n < Len(recent) => ~IsIdle(buckets[recent[n + 1]])
SweptOfIdle(n) == n
Swept(n) == Max({n, Len(recent) - MaxSources + 1})

\* One charge, which makes the source the most recent: check.
Charge(s, cost) ==
    LET known == s \in DOMAIN buckets
        gone == IF known THEN {} ELSE {recent[i] : i \in 1..Swept(IdlePrefix)}
        full == [capacity |-> BuiltFor(s), tokens |-> BuiltFor(s), last |-> clock]
        took == Take(s, IF known THEN buckets[s] ELSE full, cost, clock)
    IN /\ buckets' = [t \in (DOMAIN buckets \ gone) \cup {s} |-> IF t = s THEN took.bucket ELSE buckets[t]]
       /\ recent' = Append(Lacking(recent, gone \cup {s}), s)
       /\ crowded' = crowded \cup {t \in gone : ~IsIdle(buckets[t])}
       /\ ledger' = [t \in Sources |->
              IF t \in crowded' THEN NothingYet
              ELSE IF t # s THEN ledger[t]
              ELSE [spent |-> ledger[t].spent + (IF took.ok THEN cost ELSE 0),
                    top |-> Max({ledger[t].top, took.bucket.capacity})]]
       /\ UNCHANGED <<clock, multiple>>

\* A frame pays for its bytes before it is read, and for its kind afterwards.
ChargeFrame(s) == Charge(s, BytesCost)
ChargeQuery(s) == Charge(s, QueryCost)
ChargeTx(s) == Charge(s, TxPrice)

\* Once an epoch, of what the meter measured.
ObserveUnit(m) ==
    /\ multiple' = m /\ m # multiple
    /\ UNCHANGED <<clock, buckets, recent, ledger, crowded>>

LimiterTick ==
    /\ clock < MaxTime /\ clock' = clock + 1
    /\ UNCHANGED <<multiple, buckets, recent, ledger, crowded>>

LimiterInit ==
    /\ clock = 0 /\ multiple = 1
    /\ buckets = [s \in {} |-> 0] /\ recent = <<>>
    /\ ledger = [s \in Sources |-> NothingYet] /\ crowded = {}

LimiterNext ==
    \/ \E s \in Sources : ChargeFrame(s) \/ ChargeQuery(s) \/ ChargeTx(s)
    \/ \E m \in 1..MaxMultiple : ObserveUnit(m)
    \/ LimiterTick

LimiterSpec == LimiterInit /\ [][LimiterNext]_limiterVars

\* ---- properties ----

\* What a source is allowed over any time is one burst and what it earned since: not by
\* asking often, nor by being forgotten and coming back, nor when prices move.  Only a
\* table crowded with other sources gives it a second burst.
BudgetIsABound ==
    \A s \in Sources \ crowded : ledger[s].spent <= ledger[s].top + RateOf(s) * clock

\* The meter is a price and not a ban: a client that waits long enough can send a largest
\* frame and have the submission in it looked at, whatever a proof costs by now and
\* whatever it cost when its bucket was made.
PatientClientsSubmit ==
    \A s \in Clients \cap DOMAIN buckets :
        LET frame == Take(s, buckets[s], BytesCost, clock + IdleAfter)
        IN frame.ok /\ Take(s, frame.bucket, TxPrice, clock + IdleAfter).ok

\* The table is as large as the code says, and forgets the least recently used.
TableIsBounded ==
    /\ Len(recent) <= MaxSources /\ ToSet(recent) = DOMAIN buckets
    /\ \A i, j \in DOMAIN recent : i < j => buckets[recent[i]].last <= buckets[recent[j]].last

\* Metering costs the sender a wait and the node a bounded table.
MeterIsBearable == PatientClientsSubmit /\ TableIsBounded
====
