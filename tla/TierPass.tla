---- MODULE TierPass ----
(* One pass up the tiers in one process (run_tiered_epoch in tiers.py): every grid runs its
   ceremony, the leaders of those that finalised are dealt into groups that bundle the
   grids' blocks, and the seats of the groups that finalised agree on the network block, in
   views, which every node then applies.

   A ceremony is what Ceremony.tla finds it to be: final when a quorum of its seats finds
   the leader's block valid, with all of those in its certificate.  A leader is honest, is
   silent, leaves children out, lists them as dropped, or keeps children that collide. *)
EXTENDS Integers, Sequences, FiniteSets, SequencesExt, FiniteSetsExt, Selection

CONSTANTS
    Passes,      \* [leader, spent, created, size, views, groupLeads, topLeads, refusing]
    QNum, QDen   \* a quorum is ceil(QNum / QDen) of the seats

VARIABLES
    pass,        \* leader, grid -> who leads it; spent and created, grid -> notes; size of a
                 \* group; views of the top tier; how each node leads; who finds all invalid
    phase,       \* "grids", "groups", "top", or how it ended
    finalGrids,  \* the grids whose ceremony finalised
    groups,      \* [seats, leader, children, dropped, signers] of the groups that did, and of
                 \* those that did not, with no leader
    ledViews,       \* the leaders of the top tier's views
    root,        \* [groups, leader, signers, tiers] of the network block
    spentNotes, createdNotes,   \* by the block applied
    confirmed    \* the grids whose transactions are recorded as in the block

passVars == <<pass, phase, finalGrids, groups, ledViews, root, spentNotes, createdNotes, confirmed>>

Grids == DOMAIN pass.leader
NoOne == 0

\* A quorum is a fraction of the seats; grids and nodes are numbered in the order of their
\* names, and a node leads one grid.
PassAssumption ==
    /\ QNum \in Nat /\ QDen \in Nat \ {0} /\ QNum <= QDen
    /\ \A p \in Passes :
          /\ IsFiniteSet(DOMAIN p.leader) /\ DOMAIN p.leader = 1..Cardinality(DOMAIN p.leader)
          /\ \A g, h \in DOMAIN p.leader :
                /\ p.leader[g] \in Nat \ {NoOne}
                /\ p.leader[g] = p.leader[h] => g = h
          /\ p.size \in Nat \ {0} /\ p.views \in Nat \ {0}
ASSUME PassAssumption

QuorumSize(n) == Max({1, (n * QNum + QDen - 1) \div QDen})

\* ---- merge_deltas, over children in order ----

ClashOnSpends(g, kept) == \E h \in ToSet(kept) : pass.spent[g] \cap pass.spent[h] # {}
Clash(g, kept) ==
    \E h \in ToSet(kept) :
        pass.spent[g] \cap pass.spent[h] # {} \/ pass.created[g] \cap pass.created[h] # {}
Merged(children) ==
    LET kept[i \in 0..Len(children)] ==
            IF i = 0 THEN <<>>
            ELSE LET before == kept[i - 1]
                 IN IF Clash(children[i], before) THEN before ELSE Append(before, children[i])
    IN kept[Len(children)]
InOrder(S) == [k \in 1..Cardinality(S) |-> Nth(S, k)]

\* ---- the deal ----

LeadersOf(S) == InOrder({pass.leader[g] : g \in S})
GridOf(n) == CHOOSE g \in Grids : pass.leader[g] = n
GroupCount(n) == Max({1, (n + pass.size - 1) \div pass.size})

InSlices(items) ==
    [j \in 1..GroupCount(Len(items)) |->
        {items[i] : i \in {i \in DOMAIN items : (i - 1) \div pass.size = j - 1}}]
\* As even as it can be: one card at a time, round.
Deal(items) ==
    LET k == GroupCount(Len(items))
    IN [j \in 1..k |-> {items[i] : i \in {i \in DOMAIN items : (i - 1) % k = j - 1}}]

NotFormed(seats) == [seats |-> seats, leader |-> NoOne, children |-> {}, dropped |-> {}, signers |-> {}]

\* ---- the grids ----

NothingMoved == UNCHANGED <<pass, ledViews, root, spentNotes, createdNotes, confirmed>>

\* Some finalise.  With one grid the same ceremony is all the tiers there are.
EndGrids(final) ==
    /\ phase = "grids" /\ Cardinality(Grids) >= 2
    /\ finalGrids' = final
    /\ IF final = {} THEN phase' = "aborted" /\ groups' = <<>>
       ELSE /\ phase' = "groups"
            /\ groups' = [j \in DOMAIN Deal(LeadersOf(final)) |-> NotFormed(Deal(LeadersOf(final))[j])]
    /\ NothingMoved

Solo ==
    /\ phase = "grids" /\ Cardinality(Grids) = 1
    /\ finalGrids' = Grids /\ phase' = "agreed"
    /\ root' = [groups |-> <<[NotFormed({}) EXCEPT !.children = Grids]>>, leader |-> pass.leader[1],
                signers |-> {}, tiers |-> 1]
    /\ UNCHANGED <<pass, groups, ledViews, spentNotes, createdNotes, confirmed>>

\* ---- the groups: SuperWorkload ----

\* A seat knows the block of the grid it led, and misses it unless it is said to be dropped.
MisreadOmission(n, children, dropped) == TRUE
NotOmitted(n, children, dropped) == GridOf(n) \in children \cup dropped

BundleIsValid(n, children, dropped) ==
    /\ n \notin pass.refusing
    /\ NotOmitted(n, children, dropped)
    /\ Merged(InOrder(children)) = InOrder(children)

Bundles(n, offered) ==
    LET kept == ToSet(Merged(InOrder(offered)))
    IN CASE pass.groupLeads[n] = "honest" -> {<<kept, offered \ kept>>}
         [] pass.groupLeads[n] = "omits"  -> {<<kept \ out, offered \ kept>> : out \in SUBSET kept}
         [] pass.groupLeads[n] = "lists"  -> {<<kept \ out, (offered \ kept) \cup out>> : out \in SUBSET kept}
         [] pass.groupLeads[n] = "keeps"  -> {<<offered, {}>>}
         [] OTHER -> {}

Unformed(group) == group.leader = NoOne /\ Cardinality(group.seats) >= 2
Offered(seats) == {GridOf(n) : n \in seats}
Signers(seats, bundle) == {n \in seats : BundleIsValid(n, bundle[1], bundle[2])}
Carries(seats, signers) == Cardinality(signers) >= QuorumSize(Cardinality(seats))
BundledBy(leader, seats, bundle) ==
    [seats |-> seats, leader |-> leader, children |-> bundle[1], dropped |-> bundle[2],
     signers |-> Signers(seats, bundle)]

Group(j, leader) ==
    /\ phase = "groups" /\ Unformed(groups[j])
    /\ \E bundle \in Bundles(leader, Offered(groups[j].seats)) :
           /\ Carries(groups[j].seats, Signers(groups[j].seats, bundle))
           /\ groups' = [groups EXCEPT ![j] = BundledBy(leader, @.seats, bundle)]
    /\ UNCHANGED <<phase, finalGrids>> /\ NothingMoved

\* A group is seated once, and fails with a leader that is silent or gets no quorum.
MayFail(seats) ==
    \E leader \in seats :
        \/ pass.groupLeads[leader] = "silent"
        \/ \E bundle \in Bundles(leader, Offered(seats)) : ~Carries(seats, Signers(seats, bundle))

Formed == Selected(groups, {j \in DOMAIN groups : groups[j].leader # NoOne})
EndGroups ==
    /\ phase = "groups"
    /\ \A j \in DOMAIN groups : Unformed(groups[j]) => MayFail(groups[j].seats)
    /\ phase' = IF Formed = <<>> THEN "aborted" ELSE "top"
    /\ UNCHANGED <<finalGrids, groups>> /\ NothingMoved

\* ---- the top tier: RootWorkload, in views ----

Committee == UNION {Formed[j].seats : j \in DOMAIN Formed}
Tiers == IF Len(Formed) >= 2 THEN 3 ELSE 2
Anybody == Committee
YetToLead == Committee \ ToSet(ledViews)

\* A seat misses its own group.
RootIsValid(n, chosen) ==
    n \notin pass.refusing /\ \E j \in DOMAIN chosen : n \in chosen[j].seats
RootSigners(chosen) == {n \in Committee : RootIsValid(n, chosen)}

RootsOf(n) ==
    CASE pass.topLeads[n] = "honest" -> {Formed}
      [] pass.topLeads[n] = "omits"  ->
             {[i \in 1..Cardinality(in) |-> Formed[InOrder(in)[i]]] : in \in (SUBSET DOMAIN Formed) \ {{}}}
      [] OTHER -> {}

\* The seats change with the view, and whoever led one does not lead the next.
View(leader) ==
    /\ phase = "top" /\ Len(ledViews) < pass.views /\ leader \in YetToLead
    /\ \/ \E chosen \in RootsOf(leader) :
              IF Carries(Committee, RootSigners(chosen))
              THEN /\ root' = [groups |-> chosen, leader |-> leader, signers |-> RootSigners(chosen), tiers |-> Tiers]
                   /\ phase' = "agreed" /\ UNCHANGED ledViews
              ELSE ledViews' = Append(ledViews, leader) /\ UNCHANGED <<phase, root>>
       \/ RootsOf(leader) = {} /\ ledViews' = Append(ledViews, leader) /\ UNCHANGED <<phase, root>>
    /\ UNCHANGED <<pass, finalGrids, groups, spentNotes, createdNotes, confirmed>>

GiveUp ==
    /\ phase = "top"
    /\ \/ Len(ledViews) = pass.views /\ phase' = "aborted"
       \/ Len(ledViews) < pass.views /\ YetToLead = {} /\ phase' = "raised"
    /\ UNCHANGED <<finalGrids, groups>> /\ NothingMoved

\* ---- apply_network_block ----

Children == FlattenSeq([j \in DOMAIN root.groups |-> InOrder(root.groups[j].children)])

\* Every transaction of every child is evicted and recorded as in the block; what the
\* merge keeps is applied.
Apply ==
    /\ phase = "agreed"
    /\ spentNotes' = UNION {pass.spent[g] : g \in ToSet(Merged(Children))}
    /\ createdNotes' = UNION {pass.created[g] : g \in ToSet(Merged(Children))}
    /\ confirmed' = ToSet(Children)
    /\ phase' = "applied"
    /\ UNCHANGED <<pass, finalGrids, groups, ledViews, root>>

\* tier_service: who sat above the grids, who signed, who led, summed over the tiers.
SeatsOf(children) == {pass.leader[g] : g \in children}
CreditedIfSigned(seats, signers, leader, n) ==
    [seated |-> IF n \in seats \cap signers THEN 1 ELSE 0,
     attended |-> IF n \in seats \cap signers THEN 1 ELSE 0,
     led |-> IF n \in seats /\ n = leader THEN 1 ELSE 0]
Credited(seats, signers, leader, n) ==
    [seated |-> IF n \in seats THEN 1 ELSE 0,
     attended |-> IF n \in seats \cap signers THEN 1 ELSE 0,
     led |-> IF n \in seats /\ n = leader THEN 1 ELSE 0]
TierService(n) ==
    LET none == [seated |-> 0, attended |-> 0, led |-> 0]
        top == Credited(SeatsOf(ToSet(Children)), root.signers, root.leader, n)
        mine == {g \in ToSet(root.groups) : n \in SeatsOf(g.children)}
        below == IF mine = {} THEN none
                 ELSE LET g == CHOOSE g \in mine : TRUE
                      IN Credited(SeatsOf(g.children), g.signers, g.leader, n)
    IN IF root.tiers < 2 THEN none
       ELSE [seated |-> below.seated + top.seated, attended |-> below.attended + top.attended,
             led |-> below.led + top.led]

NothingRun ==
    /\ phase = "grids" /\ finalGrids = {} /\ groups = <<>> /\ ledViews = <<>> /\ root = <<>>
    /\ spentNotes = {} /\ createdNotes = {} /\ confirmed = {}

TierPassInit == pass \in Passes /\ NothingRun

TierPassNext ==
    \/ \E final \in SUBSET Grids : EndGrids(final)
    \/ Solo
    \/ \E j \in DOMAIN groups : \E leader \in groups[j].seats : Group(j, leader)
    \/ EndGroups
    \/ \E leader \in DOMAIN pass.topLeads : View(leader)
    \/ GiveUp
    \/ Apply

TierPassSpec == TierPassInit /\ [][TierPassNext]_passVars

\* ---- properties ----

Nodes == {pass.leader[g] : g \in Grids}
Over == phase \in {"applied", "aborted", "raised"}
AllHonest(leads) == \A n \in Nodes : leads[n] = "honest"
Collide(g, h) == pass.spent[g] \cap pass.spent[h] # {} \/ pass.created[g] \cap pass.created[h] # {}

Delivered(g) == pass.spent[g] \subseteq spentNotes
Blocked(g) == \E h \in finalGrids \ {g} : Delivered(h) /\ Collide(g, h)

\* With honest leaders and seats that can check, a pass carries the work of every grid that
\* finalised when two did.  What is not applied collides with what is; or its group dropped
\* it for a sibling that collides with what is, and that is not applied either.
PassDeliversEveryGrid ==
    (/\ Over /\ Cardinality(finalGrids) >= 2 /\ pass.size >= 3 /\ pass.refusing = {}
     /\ AllHonest(pass.groupLeads) /\ AllHonest(pass.topLeads)) =>
        /\ phase = "applied"
        /\ \A g \in finalGrids :
               Delivered(g) \/ Blocked(g) \/ \E h \in finalGrids \ {g} : Collide(g, h) /\ Blocked(h)

\* A silent leader at the top costs a view and not the epoch, as long as fewer are silent
\* than there are views and one of the committee is not (docs/supreme_tier_design.md, 9.4).
SilentLeadersCostViews ==
    (/\ Over /\ Formed # <<>> /\ pass.refusing = {}
     /\ \A n \in Committee : pass.topLeads[n] \in {"honest", "silent"}
     /\ \E n \in Committee : pass.topLeads[n] = "honest"
     /\ Cardinality({n \in Committee : pass.topLeads[n] = "silent"}) < pass.views) => phase = "applied"

\* A leader above the grids leaves work out without a word only as far as the seats it
\* leaves out are too few to be missed by the quorum.
OmissionsAreTooFewToCount ==
    /\ \A j \in DOMAIN groups :
           groups[j].leader # NoOne =>
               Cardinality(Offered(groups[j].seats) \ (groups[j].children \cup groups[j].dropped))
                   <= Cardinality(groups[j].seats) - QuorumSize(Cardinality(groups[j].seats))
    /\ root # <<>> /\ root.tiers > 1 =>
           Cardinality(Committee \ UNION {g.seats : g \in ToSet(root.groups)})
               <= Cardinality(Committee) - QuorumSize(Cardinality(Committee))

\* Whoever bundles them, the children a group or a block applies spend no note and make no
\* note twice between them.
NothingIsMadeTwice ==
    /\ \A j \in DOMAIN groups : \A g, h \in groups[j].children : g # h => ~Collide(g, h)
    /\ phase = "applied" => \A g, h \in ToSet(Merged(Children)) : g # h => ~Collide(g, h)

\* What a member is credited with above its grid is what it did there, tier by tier, unless
\* the block does not carry its grid (tier_service).
ServiceIsWhoSat ==
    phase = "applied" =>
        \A n \in Nodes :
            LET sat == IF root.tiers < 2 \/ GridOf(n) \notin ToSet(Children) THEN {}
                       ELSE {g \in ToSet(Formed) : n \in g.seats} \cup {root}
            IN TierService(n) = [seated |-> Cardinality(sat),
                                 attended |-> Cardinality({s \in sat : n \in s.signers}),
                                 led |-> Cardinality({s \in sat : s.leader = n})]

\* A pass takes everybody's work to the top, once, and credits those who carried it there,
\* as far as silent leaders and omissions let it.
PassIsSound ==
    /\ PassDeliversEveryGrid /\ SilentLeadersCostViews /\ OmissionsAreTooFewToCount
    /\ NothingIsMadeTwice /\ ServiceIsWhoSat

\* A transaction recorded as "in block h" is one whose notes the block spent
\* (docs/wallet_design.md, txstatus).
ConfirmedIsApplied ==
    phase = "applied" => \A g \in confirmed : pass.spent[g] \subseteq spentNotes
====
