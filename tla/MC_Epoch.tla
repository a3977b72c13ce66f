---- MODULE MC_Epoch ----
(* An epoch in one process, a part at a time: a ceremony and its views, the block a grid
   agrees, and the pass that takes the blocks of all the grids to the top. *)
EXTENDS Ceremony, GridBlock, TierPass

CONSTANTS a, b, c, d

VARIABLE part

\* ---- ceremonies ----

\* Every seating of up to seven, with every split into attesters and apprentices that the
\* rows tell apart; mute are apprentices, or the leader that sent two blocks.
Row(n) == [i \in 1..n |-> i]
Refusers(n) == {{}} \cup {{i} : i \in 1..n} \cup (IF n >= 5 THEN {{1, 5}, {2, 5}} ELSE {})
Mutes(n, k, how) ==
    {{}, (k + 1)..n, {k + 1} \cap 1..n}
        \cup (IF how = "equivocating" THEN {{1}, {1} \cup ((k + 1)..n)} ELSE {})
Seating(n, k, row, how, refusing, mute) ==
    [orders |-> {Row(n)}, attesters |-> 1..k, row |-> row, num |-> 2, den |-> 3,
     leads |-> [i \in 1..n |-> how], refusing |-> refusing, mute |-> mute, views |-> 1]
Seatings ==
    UNION {UNION {{Seating(n, k, row, how, refusing, mute) :
                      refusing \in Refusers(n), mute \in Mutes(n, k, how)} :
                  k \in {1, 2, 3, n - 1, n} \cap 1..n} :
           n \in 2..7, row \in 2..4, how \in {"honest", "silent", "equivocating"}}

\* A view for every member, in whatever order each is seated.
Viewed(n, views, leads, refusing) ==
    [orders |-> SetToSeqs(1..n), attesters |-> 1..n, row |-> 2, num |-> 2, den |-> 3,
     leads |-> leads, refusing |-> refusing, mute |-> {}, views |-> views]
Epochs ==
    UNION {{Viewed(n, n, leads, refusing) :
               leads \in [1..n -> {"honest", "silent", "equivocating"}],
               refusing \in {{}} \cup {{i} : i \in 1..n}} : n \in 2..3}
\* A committee of two and the three views of the top tier.
TopTiers == {Viewed(2, 3, leads, {}) : leads \in [1..2 -> {"honest", "silent"}]}
MCCompanies == Seatings \cup Epochs \cup TopTiers

\* ---- the block of a grid ----

Att(n, height, what) == <<"attestation", n, height, what>>
Pro(n, height, what) == <<"proposal", n, height, what>>
\* At height 3 a led and signed two blocks, and b attested to one that contradicts itself.
Said == {Att(n, 3, "agreed") : n \in {a, b, c, d}} \cup {Att(n, 2, "old") : n \in {a, b}}
            \cup {Att(b, 3, "flawed"), Pro(a, 3, "agreed"), Pro(a, 3, "other"), Pro(b, 2, "old")}

Tx(ins, outs, parts, proof) == [ins |-> ins, outs |-> outs, parts |-> parts, proof |-> proof]
\* p, q and s clash in pairs; t and u are not of this grid; v spends what is gone; w proves nothing.
MCTransactions ==
    [p |-> Tx({2}, {6}, {0}, TRUE), q |-> Tx({2, 4}, {7}, {0}, TRUE), s |-> Tx({4}, {6}, {0}, TRUE),
     t |-> Tx({3}, {8}, {1}, TRUE), u |-> Tx({1, 2}, {8}, {0, 1}, TRUE),
     v |-> Tx({5}, {9}, {0}, TRUE), w |-> Tx({4}, {9}, {0}, FALSE)]

GridWorld(height, new, said, offered) ==
    [height |-> height, founded |-> new, register |-> Admit(GenesisRegister({a, b, c}), d), said |-> said,
     partition |-> 0, live |-> 1..4, ever |-> 1..5, offered |-> offered]
\* Genesis, a grid just founded, one whose nodes may hold any certificate, one with a pool.
MCWorlds ==
    {GridWorld(0, FALSE, {}, {}), GridWorld(3, TRUE, Said, {}), GridWorld(3, FALSE, Said, {}),
     GridWorld(3, FALSE, Said \ {Att(c, 3, "agreed"), Att(d, 3, "agreed")}, DOMAIN MCTransactions)}

Report(kind, signed, evidence, subject) ==
    [kind |-> kind, signed |-> signed, evidence |-> evidence, at |-> 3, subject |-> subject]
Of(n, statements) == {[names |-> n, made |-> s] : s \in statements}
TwoBlocks == Report("equivocation", TRUE, Of(a, {Pro(a, 3, "agreed"), Pro(a, 3, "other")}), "")
Flaw == Report("lazy_attestation", TRUE, Of(b, {Att(b, 3, "flawed")}), "flawed")
\* Of what was signed and what was not, under the name of its author and of another.
MCReports ==
    {TwoBlocks, [TwoBlocks EXCEPT !.signed = FALSE], Flaw,
     [TwoBlocks EXCEPT !.evidence = Of(c, {Pro(a, 3, "agreed"), Pro(a, 3, "other")})],
     [TwoBlocks EXCEPT !.evidence = Of(a, {Pro(a, 3, "agreed")}) \cup Of(c, {Pro(a, 3, "other")})],
     [TwoBlocks EXCEPT !.evidence = Of(a, {Pro(a, 3, "agreed")}) \cup Of(b, {Pro(b, 2, "old")})],
     [TwoBlocks EXCEPT !.evidence = Of(c, {Pro(c, 3, "agreed"), Pro(c, 3, "other")})],
     [Flaw EXCEPT !.evidence = Of(c, {Att(b, 3, "flawed")})],
     [Flaw EXCEPT !.evidence = Of(c, {Att(c, 3, "agreed")}), !.subject = "agreed"],
     [Flaw EXCEPT !.evidence = Of(c, {Att(c, 3, "agreed")})],
     Report("invalid_block", TRUE, {}, "")}
MCSeen == {{}, {TwoBlocks}}

Certificate(height, what, voters, shadows, rooted) ==
    [height |-> height, block |-> what, voters |-> voters, shadows |-> shadows, root |-> rooted]
MCAltered ==
    {None, Certificate(2, "old", {a, b}, {}, TRUE), Certificate(3, "agreed", {d}, {}, TRUE),
     Certificate(3, "agreed", {a}, {}, TRUE), Certificate(3, "other", {a, b}, {}, TRUE),
     Certificate(3, "flawed", {b}, {}, TRUE), Certificate(3, "agreed", {a, b}, {}, FALSE),
     Certificate(3, "agreed", {}, {d}, TRUE), Certificate(3, "flawed", {b}, {c}, TRUE),
     Certificate(3, "agreed", {a, b, c}, {c}, TRUE)}

\* ---- the pass ----

AllBut(n, odd, how) == [i \in 1..n |-> IF i \in odd THEN how ELSE "honest"]
AllHonestly(n) == AllBut(n, {}, "honest")
\* Up to five grids, led in their order or against it; those of a set in same make one note
\* between them.
PassOf(n, size, same, below, above, refusing) ==
    [leader |-> [i \in 1..n |-> IF n = 4 THEN n + 1 - i ELSE i],
     spent |-> [i \in 1..n |-> {i}],
     created |-> [i \in 1..n |-> {10 + i} \cup {20 + Min(s) : s \in {t \in same : i \in t}}],
     size |-> size, views |-> 3, groupLeads |-> below, topLeads |-> above, refusing |-> refusing]
Odd(n) == kSubset(2, 1..n) \cup kSubset(3, 1..n) \cup {1..n}
PassesOf(n, size, same) ==
    {PassOf(n, size, same, AllBut(n, {i}, how), AllHonestly(n), {}) :
        i \in 1..n, how \in {"honest", "silent", "omits", "lists", "keeps"}}
    \cup {PassOf(n, size, same, AllHonestly(n), AllBut(n, odd, how), {}) : odd \in Odd(n), how \in {"silent", "omits"}}
    \cup {PassOf(n, size, same, AllHonestly(n), AllHonestly(n), refusing) :
             refusing \in {{}} \cup {{i} : i \in 1..n} \cup {{1, n}}}
MCPasses ==
    UNION {PassesOf(n, size, same) : n \in 2..5, size \in 2..3, same \in {{}, {{1, 2}}, {{1, 2}, {2, 4}}}}
        \cup {PassOf(1, 3, {}, AllHonestly(1), AllHonestly(1), {})}

\* ---- one of them at a time ----

NoCeremony == company = Viewed(2, 2, AllHonestly(2), {}) /\ NoViewYet
NoGrid == world = GridWorld(0, FALSE, {}, {}) /\ NothingHeld
NoPass == pass = PassOf(1, 3, {}, AllHonestly(1), AllHonestly(1), {}) /\ NothingRun

Init ==
    \/ part = "ceremony" /\ CeremonyInit /\ NoGrid /\ NoPass
    \/ part = "grid" /\ GridBlockInit /\ NoCeremony /\ NoPass
    \/ part = "pass" /\ TierPassInit /\ NoCeremony /\ NoGrid
Next ==
    /\ part' = part
    /\ \/ part = "ceremony" /\ CeremonyNext /\ UNCHANGED <<gridVars, passVars>>
       \/ part = "grid" /\ GridBlockNext /\ UNCHANGED <<ceremonyVars, passVars>>
       \/ part = "pass" /\ TierPassNext /\ UNCHANGED <<ceremonyVars, gridVars>>

Spec == Init /\ [][Next]_<<part, ceremonyVars, gridVars, passVars>>
====
