---- MODULE MC_Founding ----
(* What a network is founded on, a part at a time: the arithmetic of slices, the ceremony of
   era 0, and the document with the nodes that boot from it. *)
EXTENDS EraPool, Founding

VARIABLE part

\* The schemer among two others, dealt to first or last.
Deals == {<<"a", "b", "s">>, <<"s", "a", "b">>}
Claimed == UNION {[1..n -> [first : 0..3, count : 0..2]] : n \in 0..3}
NothingAsked == [holders |-> 0, turns |-> 0, claimed |-> <<>>]
Questions ==
    [holders : {1}, turns : {3}, claimed : Claimed] \cup [holders : 0..6, turns : 0..13, claimed : {<<>>}]

Founders(names) == [i \in DOMAIN names |-> [id |-> names[i], key |-> names[i]]]
Four == Founders(<<"a", "b", "c", "d">>)
\* A fifth seat with the fourth one's key.
SharedKey == Append(Four, [id |-> "e", key |-> "d"])

Sound ==
    [blinders |-> 3, range |-> 2, rounds |-> 1, security |-> 1, default |-> "m",
     backends |-> {"m"}, policy |-> [t \in 0..2 |-> "m"], num |-> 2, den |-> 3, attend |-> 1,
     row |-> 2, admitNum |-> 1, admitDen |-> 4]
Mint == [minted |-> TRUE, total |-> 5, cms |-> <<1, 2>>, values |-> <<>>]
Issue == [minted |-> FALSE, total |-> 0, cms |-> <<>>, values |-> <<2, 3>>]

LaunchOrTest ==
    {[purpose |-> "launch", roster |-> Four, params |-> Sound, tiers |-> 1, money |-> Mint, era0 |-> "attested"],
     [purpose |-> "test", roster |-> Four, params |-> Sound, tiers |-> 1, money |-> Issue, era0 |-> "none"]}
OneField == {<<"threshold", 2>>, <<"threshold", 4>>, <<"roster", SharedKey>>}

Init ==
    /\ part \in {"arithmetic", "pool", "document"}
    /\ PoolInit /\ FoundingInit
    /\ part # "arithmetic" => asked = NothingAsked
    /\ part # "document" => doc.body.purpose = "launch"
Next ==
    /\ part' = part
    /\ \/ part = "pool" /\ PoolNext /\ UNCHANGED foundingVars
       \/ part = "document" /\ FoundingNext /\ UNCHANGED poolVars

Spec == Init /\ [][Next]_<<part, poolVars, foundingVars>>
====
