---- MODULE Ceremony ----
(* One ceremony in one process, and the views of an epoch (ceremony.py).  The seats run in
   lock step: in every round each absorbs what its neighbours held when the round began.
   A seat is a node at a position: 1 is the leader, and the others fill rows of row_size in
   their order.  The order is drawn from a seed, so any order there is may come up.

   Beside the leaders the code can act out, seats may be mute: what the topology is for is
   that nothing passes through them, whoever they are.  A set of nodes finds what the
   leader proposes invalid. *)
EXTENDS Integers, Sequences, FiniteSets, SequencesExt, FiniteSetsExt

CONSTANTS
    Companies,    \* [orders, attesters, row, num, den, leads, refusing, mute, views]
    Nobody        \* the leader of a view that could not be seated

VARIABLES
    company,      \* who runs it: orders, what a seed may draw; attesters, whose attestations
                  \* count; leads, node -> how it leads; refusing; mute; views, how many
    tried,        \* the leaders of the views before, in order
    grid,         \* the seats of this view in order, the leader first; <<>> between views
    envelopes,    \* node -> [proposals, attested, faults]
    validated,    \* node -> what it said of the one block it validated
    reacted,      \* those that reported
    round,
    rounds,       \* how many this view has
    results       \* [status, leader, accepted, voters, faults, roll] of every view so far

ceremonyVars == <<company, tried, grid, envelopes, validated, reacted, round, rounds, results>>

Blocks == {"block", "second"}
Unsaid == [block |-> "", ok |-> FALSE]
Company == ToSet(CHOOSE order \in company.orders : TRUE)
Counting == company.attesters

\* ---- seating ----

\* Grid.seat: attesters before apprentices, and the first of them that has not led leads.
InFront(order) == SelectSeq(order, LAMBDA n : n \in Counting)
Behind(order) == SelectSeq(order, LAMBDA n : n \notin Counting)
Untried(order) == SelectSeq(InFront(order), LAMBDA n : n \notin ToSet(tried))
SeatedFor(order) ==
    LET leader == Untried(order)[1]
    IN <<leader>> \o SelectSeq(InFront(order), LAMBDA n : n # leader) \o Behind(order)

RowOf(p) == IF p = 1 THEN 0 ELSE (p - 2) \div company.row + 1
ColumnOf(p) == (p - 2) % company.row
RowLength(row) ==
    Min({company.row, Len(grid) - 1 - (row - 1) * company.row})

FrontOf(p) == IF p = 1 THEN {} ELSE IF RowOf(p) = 1 THEN {1} ELSE {p - company.row}
NoRing(p) == {}
\* The next in the row, round.
RightOf(p) ==
    IF p = 1 \/ RowLength(RowOf(p)) < 2 THEN {}
    ELSE {p - ColumnOf(p) + ((ColumnOf(p) + 1) % RowLength(RowOf(p)))}

Neighbours(p) == FrontOf(p) \cup RightOf(p)
Adjacent(p) == Neighbours(p) \cup {q \in 1..Len(grid) : p \in Neighbours(q)}

\* The longest of the shortest ways between two seats: how often everybody has to tell its
\* neighbours what it knows before everybody knows everything.
Diameter ==
    LET seats == DOMAIN grid
        knows[k \in 0..Len(grid)] ==
            IF k = 0 THEN {<<p, p>> : p \in seats}
            ELSE UNION {{e} \cup {<<e[1], q>> : q \in Adjacent(e[2])} : e \in knows[k - 1]}
    IN Min({k \in 0..Len(grid) : knows[k] = seats \X seats})
RoundsOneWay == Max({2, Diameter})
\* There and back: the block out, and the attestations to everybody.
Rounds == Max({2, 2 * Diameter})

Quorum == (Cardinality(Counting) * company.num + company.den - 1) \div company.den

\* ---- an envelope ----

EmptyEnvelope == [proposals |-> {}, attested |-> {}, faults |-> {}]
Evidence(e) == Cardinality(e.proposals) >= 2
SoleProposal(e) == CHOOSE b \in Blocks : e.proposals = {b}

\* Absorbing is a union: a seat says one thing of one block, and what is absorbed is
\* checked against the registry of keys, so nobody says it for another.
Absorbed(e, others) ==
    [proposals |-> e.proposals \cup UNION {o.proposals : o \in others},
     attested  |-> e.attested \cup UNION {o.attested : o \in others},
     faults    |-> e.faults \cup UNION {o.faults : o \in others}]

\* ---- reaction ----

Refuses(n) == n \in company.refusing

Equivocal(n, e) == Evidence(e) /\ n \notin reacted
Judges(n, e) ==
    n \notin reacted /\ Cardinality(e.proposals) = 1 /\ validated[n] = Unsaid

\* With two proposals it reports, and withdraws its own attestation where it counts, until
\* a neighbour brings it back; with one it attests to it or reports it, once.
Reaction(n, e) ==
    IF Equivocal(n, e)
    THEN [e EXCEPT !.faults = @ \cup {<<n, "equivocation">>},
                   !.attested = {a \in @ : a[1] # n \/ n \notin Counting}]
    ELSE IF Judges(n, e)
    THEN IF Refuses(n) THEN [e EXCEPT !.faults = @ \cup {<<n, "invalid_block">>}]
         ELSE [e EXCEPT !.attested = @ \cup {<<n, SoleProposal(e)>>}]
    ELSE e

React(before) ==
    /\ envelopes' = [n \in DOMAIN before |-> Reaction(n, before[n])]
    /\ reacted' = reacted \cup {n \in DOMAIN before :
                     Equivocal(n, before[n]) \/ (Judges(n, before[n]) /\ Refuses(n))}
    /\ validated' = [n \in DOMAIN before |->
                        IF ~Equivocal(n, before[n]) /\ Judges(n, before[n])
                        THEN [block |-> SoleProposal(before[n]), ok |-> ~Refuses(n)]
                        ELSE validated[n]]

\* ---- leading ----

\* What reaches position p from a leader in round 0: one that equivocates sends the odd
\* columns of the first row another block.
Proposed(leads, p) ==
    IF leads = "silent" \/ RowOf(p) > 1 THEN {}
    ELSE IF leads = "equivocating" /\ p # 1 /\ ColumnOf(p) % 2 = 1 THEN {"second"}
    ELSE {"block"}

\* ---- one view ----

NoLeader ==
    [status |-> "raised", leader |-> Nobody, accepted |-> {}, voters |-> {}, faults |-> {}, roll |-> {}]

\* Another view is due.
Due == grid = <<>> /\ Len(results) < company.views /\ \A i \in DOMAIN results : results[i].status = "aborted"

\* Seat, propose, and the first reaction.
BeginView(order) ==
    /\ Due /\ Untried(order) # <<>>
    /\ grid' = SeatedFor(order)
    /\ validated' = [n \in Company |-> Unsaid]
    /\ UNCHANGED <<company, tried, envelopes, reacted, round, rounds, results>>

\* Grid.seat raises, and so does the epoch.
RunOut(order) ==
    /\ Due /\ Untried(order) = <<>>
    /\ results' = Append(results, NoLeader)
    /\ UNCHANGED <<company, tried, grid, envelopes, validated, reacted, round, rounds>>

Position(n) == CHOOSE p \in DOMAIN grid : grid[p] = n

Propose ==
    /\ grid # <<>> /\ round = 0
    /\ \E before \in {[n \in Company |->
            [EmptyEnvelope EXCEPT !.proposals = Proposed(company.leads[grid[1]], Position(n))]]} :
           React(before)
    /\ round' = 1 /\ rounds' = Rounds
    /\ UNCHANGED <<company, tried, grid, results>>

\* What a mute seat holds does not leave it.
Round ==
    /\ round \in 1..rounds
    /\ \E before \in {[n \in Company |->
            Absorbed(envelopes[n],
                {envelopes[grid[q]] : q \in {r \in Adjacent(Position(n)) : grid[r] \notin company.mute}})]} :
           React(before)
    /\ round' = round + 1
    /\ UNCHANGED <<company, tried, grid, rounds, results>>

\* ---- the decision ----

AttestationsFor(e, block) == {a[1] : a \in {x \in e.attested : x[2] = block}}

Accepts(n) ==
    LET e == envelopes[n]
    IN /\ \A f \in e.faults : f[2] # "equivocation"
       /\ Cardinality(e.proposals) = 1 /\ validated[n].ok
       /\ Cardinality(AttestationsFor(e, SoleProposal(e)) \cap Counting) >= Quorum

\* The certificate, apprentices beside it, from everybody that accepted; the roll from
\* every seat there is.
VotersWithoutApprentices(accepted, block) ==
    UNION {AttestationsFor(envelopes[n], block) \cap Counting : n \in accepted}
Voters(accepted, block) ==
    UNION {AttestationsFor(envelopes[n], block) : n \in accepted}
RollCall == UNION {{a[1] : a \in envelopes[n].attested} : n \in Company}

Decided ==
    LET accepted == {n \in Company : Accepts(n)}
        blocks == {SoleProposal(envelopes[n]) : n \in accepted}
        final == Cardinality(blocks) = 1 /\ Cardinality(accepted) >= Quorum
    IN [status   |-> IF final THEN "finalised" ELSE "aborted",
        leader   |-> grid[1],
        accepted |-> accepted,
        voters   |-> IF final THEN Voters(accepted, CHOOSE b \in blocks : TRUE) ELSE {},
        faults   |-> UNION {envelopes[n].faults : n \in Company},
        roll     |-> RollCall]

Decide ==
    /\ grid # <<>> /\ round > 0 /\ round = rounds + 1
    /\ results' = Append(results, Decided)
    /\ tried' = Append(tried, grid[1])
    /\ grid' = <<>> /\ round' = 0 /\ rounds' = 0
    /\ envelopes' = <<>> /\ validated' = <<>> /\ reacted' = {}
    /\ UNCHANGED company

NoViewYet ==
    /\ tried = <<>> /\ grid = <<>> /\ round = 0 /\ rounds = 0 /\ results = <<>>
    /\ envelopes = <<>> /\ validated = <<>> /\ reacted = {}

CeremonyInit == company \in Companies /\ NoViewYet

CeremonyNext ==
    \/ \E order \in company.orders : BeginView(order) \/ RunOut(order)
    \/ Propose \/ Round \/ Decide

\* ---- properties ----

Able == Counting \ company.refusing
HonestlyLed(r) == r.leader \in Company /\ company.leads[r.leader] = "honest"
ApprenticesAlone == company.mute \cap Counting = {}

\* The schedule is long enough for every grid there is: an honest leader's block is final
\* when a quorum of attesters finds it valid, every one of those holds a certificate's worth
\* and is in the certificate; and apprentices that pass nothing on starve only apprentices
\* (Grid.seat).
TheScheduleIsEnough ==
    \A i \in DOMAIN results :
        HonestlyLed(results[i]) /\ ApprenticesAlone /\ Cardinality(Able) >= Quorum =>
            /\ results[i].status = "finalised"
            /\ Able \subseteq results[i].accepted \cap results[i].voters

\* When two attesters of the first row were given two blocks, the seats find out among
\* themselves, with a leader that passes nothing on: nobody accepts either.
EquivocationIsCaught ==
    \A i \in DOMAIN results :
        LET r == results[i]
        IN (/\ r.status # "raised" /\ company.leads[r.leader] = "equivocating"
            /\ company.mute \cap Counting \subseteq {r.leader}
            /\ Cardinality(Counting) >= 3) =>
                /\ r.accepted \cap Counting = {} /\ r.status = "aborted"
                /\ \A n \in Counting : <<n, "equivocation">> \in r.faults \/ <<n, "invalid_block">> \in r.faults

\* What a register is advanced by is read from the certificate, and a trust list from the
\* roll: they name the same nodes when everybody's envelope went round.
RollIsTheCertificates ==
    \A i \in DOMAIN results :
        results[i].status = "finalised" /\ company.mute = {} => results[i].roll = results[i].voters

\* An epoch with a view for every attester ends with a block if there is a member that leads
\* honestly and a quorum that has nothing against it, in whatever orders they are seated.
EpochFinalises ==
    (/\ grid = <<>> /\ results # <<>> /\ ~Due
     /\ \E n \in Counting : company.leads[n] = "honest"
     /\ Cardinality(Able) >= Quorum /\ ApprenticesAlone
     /\ company.views >= Cardinality(Counting))
        => Last(results).status = "finalised"

\* The grid agrees whenever enough of it could: in the rounds of one view, in the views of
\* one epoch, and about who was there.
EpochsFinalise == TheScheduleIsEnough /\ EpochFinalises /\ RollIsTheCertificates

\* "If every view fails the epoch produces nothing" (docs/supreme_tier_design.md, 9.4).
FailedEpochsProduceNothing == \A i \in DOMAIN results : results[i].status # "raised"
====
