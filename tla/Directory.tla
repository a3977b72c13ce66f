---- MODULE Directory ----
(* How seats find each other (net/directory.py, the addresses of net/node.py and the dialling
   of net/peer.py).  The seats are settled; a record says where one of them listens, is
   signed by it and names the epoch it was signed in.  A restarted node has the addresses
   its file names and nothing else, and may come back somewhere else. *)
EXTENDS Integers, FiniteSets, FiniteSetsExt

CONSTANTS
    Roster,
    Configured,      \* node -> the seats its file gives the first address of
    Restarters, Movers,     \* those that may restart, and move when they do: once each
    MaxAge,          \* epochs a record is believed for
    LastRestart, LastEpoch  \* bounds

ASSUME RestartsEnd == LastRestart < LastEpoch

VARIABLES
    now,
    home,            \* node -> where it listens: 0 at first
    restarted,       \* those that have
    records,         \* node -> seat -> [at, epoch], or Unheard
    dials,           \* node -> seat -> the address it dials, or Nowhere
    outbound,        \* node -> seat -> "none", "live" or "dead": its socket to it
    post             \* [from, to, records]: what is read late, or NoPost

directoryVars == <<now, home, restarted, records, dials, outbound, post>>

Nowhere == -1
Unheard == [at |-> Nowhere, epoch |-> 0]
Record(at, e) == [at |-> at, epoch |-> e]
NothingHeard == [s \in Roster |-> Unheard]
NoPost == [from |-> Nowhere, to |-> Nowhere, records |-> NothingHeard]

\* ---- the directory ----

News(held, r) == r # Unheard /\ (held = Unheard \/ held.epoch < r.epoch)
\* learn: believed for MaxAge epochs, and only if it is news.
Absorbed(n, rs) ==
    [s \in Roster |-> IF News(records[n][s], rs[s]) /\ now - rs[s].epoch <= MaxAge THEN rs[s]
                      ELSE records[n][s]]
FreshOf(held) == [s \in Roster |-> IF now - held[s].epoch <= MaxAge THEN held[s] ELSE Unheard]

\* my_address: signed again in every epoch.
MyAddress(n) ==
    IF records[n][n] = Unheard \/ records[n][n].epoch < now THEN Record(home[n], now) ELSE records[n][n]

\* ---- telling ----

\* _share_addresses: the first write to a dead socket is how its death is noticed.
ShareIntoTheVoid(n, s) ==
    /\ outbound[n][s] = "dead"
    /\ outbound' = [outbound EXCEPT ![n][s] = "none"]
    /\ records' = [records EXCEPT ![n][n] = MyAddress(n)]
    /\ UNCHANGED <<now, home, restarted, dials, post>>

Sent(n) == FreshOf([records[n] EXCEPT ![n] = MyAddress(n)])

OnlyTheSender(n, s, from) == s = from
\* unknown, address_of and Mesh.learn: everything held is dialled, but a socket that is
\* thought to be there is not moved.
Redials(n, s, from) == s # n /\ outbound[n][s] = "none"

\* _take_addresses, of a seat this node has dialled itself.
Takes(n, from, rs, all) ==
    \E held \in {IF outbound[n][from] = "none" THEN records[n] ELSE Absorbed(n, rs)} :
       /\ records' = [all EXCEPT ![n] = held]
       /\ dials' = IF held = records[n] THEN dials
                   ELSE [dials EXCEPT ![n] = [s \in Roster |->
                            IF held[s] # Unheard /\ Redials(n, s, from) THEN held[s].at ELSE @[s]]]

ShareInTime(n, s) ==
    /\ outbound[n][s] = "live" /\ Takes(s, n, Sent(n), [records EXCEPT ![n][n] = MyAddress(n)])
    /\ UNCHANGED <<now, home, restarted, outbound, post>>

\* What was sent may be read much later: one message at a time is that late.
ShareLate(n, s) ==
    /\ outbound[n][s] = "live" /\ post = NoPost
    /\ post' = [from |-> n, to |-> s, records |-> Sent(n)]
    /\ records' = [records EXCEPT ![n][n] = MyAddress(n)]
    /\ UNCHANGED <<now, home, restarted, dials, outbound>>

TakeLate ==
    /\ post # NoPost /\ post' = NoPost
    /\ Takes(post.to, post.from, post.records, records)
    /\ UNCHANGED <<now, home, restarted, outbound>>

\* ---- dialling ----

\* _dial_loop: the address is read again every time round.
Connect(n, s) ==
    /\ n # s /\ outbound[n][s] = "none" /\ dials[n][s] = home[s]
    /\ outbound' = [outbound EXCEPT ![n][s] = "live"]
    /\ UNCHANGED <<now, home, restarted, records, dials, post>>

FromFile(n) == [s \in Roster |-> IF s \in Configured[n] THEN 0 ELSE Nowhere]

\* What the others had open to it is dead, and they do not know.  What it had sent arrives.
Reboot(n, to) ==
    /\ n \in Restarters \ restarted /\ now <= LastRestart
    /\ to \in IF n \in Movers THEN {0, 1} ELSE {0}
    /\ restarted' = restarted \cup {n} /\ home' = [home EXCEPT ![n] = to]
    /\ records' = [records EXCEPT ![n] = NothingHeard]
    /\ dials' = [dials EXCEPT ![n] = FromFile(n)]
    /\ outbound' = [m \in Roster |-> [s \in Roster |->
                       IF m = n THEN "none" ELSE IF s = n /\ outbound[m][s] = "live" THEN "dead"
                       ELSE outbound[m][s]]]
    /\ post' = IF post.to = n THEN NoPost ELSE post
    /\ UNCHANGED now

NextEpoch ==
    /\ now < LastEpoch /\ now' = now + 1
    /\ UNCHANGED <<home, restarted, records, dials, outbound, post>>

DirectoryInit ==
    /\ now = 1 /\ home = [n \in Roster |-> 0] /\ restarted = {}
    /\ records = [n \in Roster |-> NothingHeard]
    /\ dials = [n \in Roster |-> FromFile(n)]
    /\ outbound = [n \in Roster |-> [s \in Roster |-> "none"]]
    /\ post = NoPost

DirectoryNext ==
    \/ \E n, s \in Roster : ShareIntoTheVoid(n, s) \/ ShareInTime(n, s) \/ ShareLate(n, s) \/ Connect(n, s)
    \/ \E n \in Roster, to \in {0, 1} : Reboot(n, to)
    \/ TakeLate \/ NextEpoch

DirectorySpec == DirectoryInit /\ [][DirectoryNext]_directoryVars

\* ---- properties ----

Meshed == \A n, s \in Roster : n # s => outbound[n][s] = "live"

\* A seat is never believed to be where it was before, by a node that has not been
\* restarted since: not when records come late, or from one that has not heard.
LearnsForward ==
    \A n, s \in Roster : n \notin restarted' \ restarted =>
        records'[n][s].epoch >= records[n][s].epoch
NeverSentBack == [][LearnsForward]_directoryVars
====
