---- MODULE MC_Value ----
(* The path of a payment, a part at a time: what is paid, what a node does with it
   and what the one it is paid to comes to know. *)
EXTENDS Payment, Mempool, Wallet, TLC

VARIABLE part

\* Two that spend one note, one whose inputs part when the network grows, and one
\* that was not signed by the owner of what it spends.
Bodies == [tx \in Txs |->
    CASE tx = "a" -> [ins |-> {0}, outs |-> {4}, fee |-> 1, authentic |-> TRUE]
      [] tx = "b" -> [ins |-> {0}, outs |-> {5}, fee |-> 2, authentic |-> TRUE]
      [] tx = "c" -> [ins |-> {1, 2}, outs |-> {6}, fee |-> 3, authentic |-> TRUE]
      [] tx = "d" -> [ins |-> {3}, outs |-> {7}, fee |-> 2, authentic |-> FALSE]]
Arriving == {<<"a", "good">>, <<"a", "bad">>, <<"b", "good">>, <<"c", "good">>, <<"d", "good">>}

HoldersAlike == Permutations(Holders)
Endowments == {<<1, 1>>}

\* Two of one partition and two assets, and one of another partition.
Arrivals == {[value |-> 2, part |-> 0, to |-> 0, asset |-> "USD"],
             [value |-> 1, part |-> 0, to |-> 1, asset |-> "EUR"],
             [value |-> 1, part |-> 1, to |-> 1, asset |-> "USD"]}

Init ==
    /\ part \in {"payment", "mempool", "wallet"}
    /\ PaymentInit /\ MempoolInit /\ WalletInit
    /\ part # "mempool" => slack = CHOOSE s \in Slacks : TRUE
Next ==
    \/ part = "payment" /\ PaymentNext /\ UNCHANGED <<part, mempoolVars, walletVars>>
    \/ part = "mempool" /\ MempoolNext /\ UNCHANGED <<part, paymentVars, walletVars>>
    \/ part = "wallet" /\ WalletNext /\ UNCHANGED <<part, paymentVars, mempoolVars>>
Spec == Init /\ [][Next]_<<part, paymentVars, mempoolVars, walletVars>>
====
