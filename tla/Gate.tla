---- MODULE Gate ----
(* Who gets a socket and for how long (net/gate.py, and what the accept and read loops of
   net/peer.py do with it).  Time is in seconds, and the timeout of a read is one. *)
EXTENDS Integers, FiniteSets, FiniteSetsExt

CONSTANTS
    Addresses,
    Links,           \* connections there may be: a bound
    MaxConnections, MaxPerAddress,
    PenaltySeconds, PenaltyMax, MaxPenalised,
    IdleSeconds, PartialSeconds,
    MaxSeconds       \* bound

ASSUME LinksAreBounded == IsFiniteSet(Links)
ASSUME PenaltiesAreNumbers == MaxPenalised \in Nat /\ {PenaltySeconds, PenaltyMax} \subseteq Int

VARIABLES
    gateNow,
    link,            \* link -> [at, address, last, partialSince]
    holding,         \* address -> sockets, of those that hold one
    gateTotal,
    box,             \* address -> [until, strikes]
    order,           \* <<until, address>>, superseded ones among them
    owed,            \* address -> when its last penalty ends
    evicted          \* addresses dropped from a full box before that

gateVars == <<gateNow, link, holding, gateTotal, box, order, owed, evicted>>

Never == -1
Unopened == [at |-> "unopened", address |-> "none", last |-> 0, partialSince |-> Never]
OpenLinks == {l \in Links : link[l].at = "open"}

\* ---- admission ----

Penalised(address) == address \in DOMAIN box /\ gateNow < box[address].until
HeldBy(address) == IF address \in DOMAIN holding THEN holding[address] ELSE 0

Admit(l, address) ==
    /\ link[l].at = "unopened" /\ \A k \in Links : k < l => link[k].at # "unopened"
    /\ ~Penalised(address)
    /\ gateTotal < MaxConnections /\ HeldBy(address) < MaxPerAddress
    /\ holding' = [a \in DOMAIN holding \cup {address} |->
                   IF a = address THEN HeldBy(address) + 1 ELSE holding[a]]
    /\ gateTotal' = gateTotal + 1
    /\ link' = [link EXCEPT ![l] = [at |-> "open", address |-> address, last |-> gateNow,
                                    partialSince |-> Never]]
    /\ UNCHANGED <<gateNow, box, order, owed, evicted>>

ReleasedKeepsLast(address) == [a \in DOMAIN holding |-> IF a = address /\ holding[a] > 1 THEN holding[a] - 1 ELSE holding[a]]
Released(address) ==
    [a \in {b \in DOMAIN holding : b # address \/ holding[b] > 1} |->
        IF a = address THEN holding[a] - 1 ELSE holding[a]]

\* The finally of the read loop.
Release(l) ==
    /\ holding' = Released(link[l].address) /\ gateTotal' = Max({0, gateTotal - 1})
    /\ link' = [link EXCEPT ![l].at = "closed"]

\* ---- the penalty box ----

Without(b, address) == [a \in DOMAIN b \ {address} |-> b[a]]
Heads(o) == {e \in o : \A f \in o : e[1] <= f[1]}

DropAnyOfIts(b, entry) == FALSE
Superseded(b, entry) == entry[2] \notin DOMAIN b \/ b[entry[2]].until # entry[1]

\* Everything at the head that is superseded or over goes, and whatever is at the head
\* while the box is too full: <<box, order, evicted>>.  Ties go either way.
SweepStep(s, entry) ==
    LET addr == entry[2]
    IN IF Superseded(s.box, entry) THEN [s EXCEPT !.order = @ \ {entry}]
       ELSE [box |-> Without(s.box, addr), order |-> s.order \ {entry},
             evicted |-> IF entry[1] <= gateNow THEN s.evicted ELSE s.evicted \cup {addr}]
Stops(s) ==
    \/ s.order = {}
    \/ \E e \in Heads(s.order) : /\ ~Superseded(s.box, e) /\ e[1] > gateNow
                                 /\ Cardinality(DOMAIN s.box) <= MaxPenalised
SweptOnce(s) == IF Stops(s) THEN s ELSE SweepStep(s, CHOOSE e \in Heads(s.order) : TRUE)
Sweep(s) ==
    LET after[n \in 0..Cardinality(s.order)] == IF n = 0 THEN s ELSE SweptOnce(after[n - 1])
    IN after[Cardinality(s.order)]

Wait(strikes) == Min({PenaltyMax, PenaltySeconds * 2^(strikes - 1)})

\* penalise, and the finally that follows it.
BreakRule(l) ==
    /\ link[l].at = "open"
    /\ LET addr == link[l].address
           strikes == 1 + IF addr \in DOMAIN box THEN box[addr].strikes ELSE 0
           until == gateNow + Wait(strikes)
           entered == [a \in DOMAIN box \cup {addr} |->
                          IF a = addr THEN [until |-> until, strikes |-> strikes] ELSE box[a]]
       IN \E swept \in {Sweep([box |-> entered, order |-> order \cup {<<until, addr>>},
                               evicted |-> evicted \ {addr}])} :
             /\ box' = swept.box /\ order' = swept.order /\ evicted' = swept.evicted
             /\ owed' = [owed EXCEPT ![addr] = until]
    /\ Release(l)
    /\ UNCHANGED gateNow

\* ---- the read loop ----

\* Bytes that complete a frame, or that do not.
Receive(l, completes) ==
    /\ link[l].at = "open"
    /\ link' = [link EXCEPT ![l].last = gateNow,
                            ![l].partialSince = IF completes THEN Never
                                                ELSE IF @ = Never THEN gateNow ELSE @]
    /\ UNCHANGED <<gateNow, holding, gateTotal, box, order, owed, evicted>>

HangUp(l) ==
    /\ link[l].at = "open" /\ Release(l)
    /\ UNCHANGED <<gateNow, box, order, owed, evicted>>

Expired(l) ==
    \/ link[l].partialSince # Never /\ gateNow - link[l].partialSince > PartialSeconds
    \/ gateNow - link[l].last > IdleSeconds

\* A read that timed out looks at the deadlines; one that got bytes does not.
TimesOut(l) == link[l].at = "open" /\ gateNow > link[l].last /\ Expired(l)
GiveUp(l) ==
    /\ TimesOut(l) /\ Release(l)
    /\ UNCHANGED <<gateNow, box, order, owed, evicted>>

Second ==
    /\ gateNow < MaxSeconds /\ gateNow' = gateNow + 1
    /\ ~\E l \in Links : TimesOut(l)
    /\ UNCHANGED <<link, holding, gateTotal, box, order, owed, evicted>>

GateInit ==
    /\ gateNow = 0 /\ link = [l \in Links |-> Unopened]
    /\ holding = [a \in {} |-> 0] /\ gateTotal = 0
    /\ box = [a \in {} |-> 0] /\ order = {}
    /\ owed = [a \in Addresses |-> 0] /\ evicted = {}

GateNext ==
    \/ \E l \in Links, a \in Addresses : Admit(l, a)
    \/ \E l \in Links, completes \in BOOLEAN : Receive(l, completes)
    \/ \E l \in Links : BreakRule(l) \/ HangUp(l) \/ GiveUp(l)
    \/ Second

GateSpec == GateInit /\ [][GateNext]_gateVars

\* ---- properties ----

\* What the gate counts is what is open, in all and by address, however each connection
\* ended: it neither locks out nor lets in for sockets that are gone.
SocketsAreCounted ==
    /\ gateTotal = Cardinality(OpenLinks)
    /\ \A a \in Addresses : HeldBy(a) = Cardinality({l \in OpenLinks : link[l].address = a})

\* An address that broke a rule waits until its last penalty is over, whatever older
\* penalties of its expire meanwhile, unless a full box had to drop it; and the box is
\* never over its bound, nor holds a penalty that no sweep will find.
PenaltiesAreServed ==
    /\ \A a \in Addresses : gateNow < owed[a] => Penalised(a) \/ a \in evicted
    /\ Cardinality(DOMAIN box) <= MaxPenalised
    /\ \A a \in DOMAIN box : <<box[a].until, a>> \in order

\* "How long a connection may hold a worker without completing a frame"
\* (net/gate.py, IDLE_SECONDS and PARTIAL_SECONDS).
PartialFramesEnd ==
    \A l \in OpenLinks : link[l].partialSince # Never =>
        gateNow - link[l].partialSince <= PartialSeconds + 1
====
