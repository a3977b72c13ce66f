---- MODULE Founding ----
(* From a draft to a running network (genesis.py, and the first lines of net/node.py): the
   document goes round the founders, is edited in between, in memory or in its file, and is
   booted from by every node, again and again.  The digest of a document is its body, and a
   signature is the key and the body it was made over.  How era 0 is put together is EraPool's;
   here a document has none, one that passes, or one that does not. *)
EXTENDS Params, Sequences, SequencesExt, FiniteSetsExt, Functions

CONSTANTS
    Keepers,      \* founders that sign one document and no other
    Others,       \* founders that sign what they are given
    Drafts,       \* [purpose, roster, params, tiers, money, era0]: what a draft may start from
    Edits,        \* <<field, value>>: what may be changed in a body
    MaxEdits,     \* bound
    Booting,      \* the founders whose nodes are watched
    GridSize, Implements,
    Absent        \* no file, no store, no node, no stated chain id

\* What a document is read into: a list of founders, a fraction, a number.
IsRoster(roster) == Len(roster) \in Nat /\ DOMAIN roster = 1..Len(roster)
IsFraction(p) == p.num \in Nat /\ p.den \in Nat /\ Constructible(p)

ASSUME EditsAssumption ==
    \A e \in Edits : /\ e[1] = "roster" => IsRoster(e[2])
                     /\ e[1] = "params" => IsFraction(e[2])
                     /\ e[1] = "threshold" => e[2] \in Nat

\* Who drafts names each founder once and by the key it holds, no more than one grid seats if
\* there is one tier, and money that is a mint's or a list of values.
ASSUME DraftsAssumption ==
    \A d \in Drafts :
        /\ IsRoster(d.roster) /\ Len(d.roster) > 0 /\ IsFraction(d.params)
        /\ \A i \in DOMAIN d.roster : d.roster[i].key = d.roster[i].id
        /\ \A i, j \in DOMAIN d.roster : d.roster[i].id = d.roster[j].id => i = j
        /\ d.tiers = 1 => Len(d.roster) <= GridSize
        /\ d.era0 # "refused"
        /\ d.purpose = "launch" =>
               Weaknesses(d.params, d.tiers) = {} /\ d.money.minted /\ d.era0 # "none"
        /\ d.money.minted =>
               /\ d.money.values = <<>> /\ d.money.cms # <<>>
               /\ \A i, j \in DOMAIN d.money.cms : d.money.cms[i] = d.money.cms[j] => i = j

ASSUME ImplementsAssumption == Implements \in Nat \ {0}

VARIABLES
    doc,          \* what goes round: [body, sigs], sigs a function of node ids
    file,         \* [body, sigs, stated]
    signed,       \* history variable: every <<key, body>> that was signed
    nodes,        \* founder -> what runs: [body, chain, cms, seats]
    stores,       \* founder -> what its tables hold: [chain, cms, seats]
    founded,      \* history variable: every body a node has booted from
    edits

foundingVars == <<doc, file, signed, nodes, stores, founded, edits>>

NoSignatures == [id \in {} |-> <<>>]
Ids(body) == {body.roster[i].id : i \in DOMAIN body.roster}
Keys(body) == {body.roster[i].key : i \in DOMAIN body.roster}
\* Of two entries with one id, the last one's key.
KeyOf(body, id) ==
    body.roster[Max({i \in DOMAIN body.roster : body.roster[i].id = id})].key
Floor(body) == QuorumSize(Len(body.roster), body.params.num, body.params.den)
Total(values) == FoldLeft(LAMBDA a, v : a + v, 0, values)
NoDuplicates(seq) == \A i, j \in DOMAIN seq : seq[i] = seq[j] => i = j

\* ---- drafting ----

ThresholdIsTheFloor(d) == QuorumSize(Len(d.roster), d.params.num, d.params.den)
Threshold(d) ==
    IF d.purpose = "launch" THEN Len(d.roster)
    ELSE QuorumSize(Len(d.roster), d.params.num, d.params.den)
\* draft: a launch is ratified by all and reserves room for rule changes; a test is ratified
\* by as many as finalise a block and reserves none.
Draft(d) ==
    [purpose |-> d.purpose, roster |-> d.roster, params |-> d.params, tiers |-> d.tiers,
     partitions |-> IF d.tiers = 1 THEN 1 ELSE 0,
     holders |-> [i \in DOMAIN d.roster |-> d.roster[i].id],
     money |-> d.money,
     declared |-> IF d.money.minted THEN d.money.total ELSE Total(d.money.values),
     threshold |-> Threshold(d),
     schedule |-> IF d.purpose = "launch" THEN {<<Implements + 1, 3>>, <<Implements + 2, 5>>} ELSE {},
     era0 |-> d.era0]

\* ---- verify: the checklist ----

ParameterProblems(b) ==
    IF b.purpose = "launch" THEN Weaknesses(b.params, b.tiers) ELSE {}

RosterProblems(b) == Holding(
    [ids |-> Cardinality(Ids(b)) # Len(b.roster), keys |-> Cardinality(Keys(b)) # Len(b.roster)])

Verifies(b, id, sig) == id \in Ids(b) /\ sig = <<KeyOf(b, id), b>>
\* Whoever signed something, it does not ask what.
SignaturesByCount(d) == Holding(
    [stranger |-> DOMAIN d.sigs \ Ids(d.body) # {},
     few      |-> Cardinality(DOMAIN d.sigs) < d.body.threshold])
\* Every signature there is has to be a founder's, over this body.
RatificationProblems(d) == Holding(
    [stranger |-> DOMAIN d.sigs \ Ids(d.body) # {},
     bad      |-> \E id \in DOMAIN d.sigs \cap Ids(d.body) : ~Verifies(d.body, id, d.sigs[id]),
     few      |-> Cardinality({id \in DOMAIN d.sigs : Verifies(d.body, id, d.sigs[id])})
                      < d.body.threshold])

ThresholdOfALaunch(b) ==
    Holding([unreachable |-> b.threshold > Len(b.roster),
             launch |-> b.purpose = "launch" /\ b.threshold # Len(b.roster)])
ThresholdProblems(b) ==
    LET n == Len(b.roster)
    IN Holding([unreachable |-> b.threshold > n, below |-> b.threshold < Floor(b),
                launch |-> b.purpose = "launch" /\ b.threshold # n])

ScheduleNormal(entries) ==
    /\ \A e \in entries : e[1] > 1 /\ e[2] >= 1
    /\ \A d, e \in entries : d # e => d[1] # e[1] /\ (d[1] < e[1] => d[2] < e[2])
ScheduleProblems(b) == Holding(
    [odd   |-> ~ScheduleNormal(b.schedule),
     ahead |-> /\ ScheduleNormal(b.schedule)
               /\ \E e \in b.schedule : e[2] <= 1 /\ e[1] > Implements])

GridProblems(b) == Holding([partitions |-> b.tiers = 1 /\ b.partitions # 1])

\* The holder map, which nothing compares with the slices of era 0.
HolderProblems(b) == Holding(
    [strangers |-> ToSet(b.holders) \ Ids(b) # {}, twice |-> ~NoDuplicates(b.holders)])

Era0Problems(b) == Holding(
    [absent |-> b.era0 = "none" /\ b.purpose = "launch", refused |-> b.era0 = "refused"])

\* Issued: the values are there and add up.  Minted: there are none, and the total is the mint's.
SupplyProblems(b) ==
    IF b.money.minted
    THEN Holding([values |-> b.money.values # <<>>, total |-> b.money.total # b.declared,
                  empty |-> b.money.cms = <<>>, twice |-> ~NoDuplicates(b.money.cms)])
    ELSE Holding([sum |-> Total(b.money.values) # b.declared, issued |-> b.purpose = "launch"])

Problems(d) ==
    UNION {ParameterProblems(d.body), RosterProblems(d.body), RatificationProblems(d),
           ThresholdProblems(d.body), ScheduleProblems(d.body), GridProblems(d.body),
           HolderProblems(d.body), Era0Problems(d.body), SupplyProblems(d.body)}

\* ---- booting ----

\* What issue() puts into the first state: a mint's commitments, or one for every value.
GenesisNotesOf(b) ==
    IF b.money.minted THEN b.money.cms ELSE [i \in DOMAIN b.money.values |-> <<b, i>>]

GridsFormed(b) == IF Len(b.roster) <= GridSize THEN 1 ELSE 2
\* boot, strictly: the document verifies, every node holds the key the roster names, and the
\* roster forms the grids the document says.
Boots(d) ==
    /\ Problems(d) = {}
    /\ \A i \in DOMAIN d.body.roster : d.body.roster[i].key = d.body.roster[i].id
    /\ GridsFormed(d.body) = d.body.partitions

\* from_json: a file that states a chain id has to hash to it.
Loads(f) == f # Absent /\ f.stated \in {Absent, f.body}

DocOf(f) == [body |-> f.body, sigs |-> f.sigs]

\* ---- the document goes round ----

Redraft(d) ==
    /\ doc' = [body |-> Draft(d), sigs |-> NoSignatures] /\ doc' # doc
    /\ UNCHANGED <<file, signed, nodes, stores, founded, edits>>

Replace(field, value) ==
    /\ edits < MaxEdits /\ edits' = edits + 1
    /\ doc.body[field] # value
    /\ doc' = [doc EXCEPT !.body[field] = value]
    /\ UNCHANGED <<file, signed, nodes, stores, founded>>

\* ratify: the signer's key has to be the one the roster has for that id.
Ratify(key, id) ==
    /\ id \in Ids(doc.body) /\ KeyOf(doc.body, id) = key
    /\ key \in Keepers => \A s \in signed : s[1] = key => s[2] = doc.body
    /\ LET sig == <<key, doc.body>>
       IN /\ id \in DOMAIN doc.sigs => doc.sigs[id] # sig
          /\ doc' = [doc EXCEPT !.sigs = [i \in DOMAIN @ \cup {id} |-> IF i = id THEN sig ELSE @[i]]]
          /\ signed' = signed \cup {sig}
    /\ UNCHANGED <<file, nodes, stores, founded, edits>>

Save ==
    /\ file' = [body |-> doc.body, sigs |-> doc.sigs, stated |-> doc.body]
    /\ file' # file
    /\ UNCHANGED <<doc, signed, nodes, stores, founded, edits>>

\* By hand, with or without the line that states the chain id.
EditFile(field, value, stated) ==
    /\ file # Absent /\ edits < MaxEdits /\ edits' = edits + 1
    /\ file.body[field] # value
    /\ file' = [file EXCEPT !.body[field] = value, !.stated = stated]
    /\ UNCHANGED <<doc, signed, nodes, stores, founded>>

Load ==
    /\ Loads(file) /\ doc' = DocOf(file) /\ doc' # doc
    /\ UNCHANGED <<file, signed, nodes, stores, founded, edits>>

\* ---- a node ----

\* The first time it writes the genesis state down, and then, in a transaction of its own,
\* who is seated; any other time it is what its tables say.
BootNode(n) ==
    /\ nodes[n] = Absent /\ Loads(file) /\ Boots(DocOf(file)) /\ n \in Ids(file.body)
    /\ founded' = founded \cup {file.body}
    /\ LET fresh == [chain |-> file.body, cms |-> GenesisNotesOf(file.body), seats |-> {}]
           held == IF stores[n] = Absent THEN fresh ELSE stores[n]
       IN /\ stores' = [stores EXCEPT ![n] = held]
          /\ nodes' = [nodes EXCEPT ![n] =
                 [body |-> file.body, chain |-> held.chain, cms |-> held.cms,
                  seats |-> IF stores[n] = Absent THEN Ids(file.body) ELSE held.seats]]
    /\ UNCHANGED <<doc, file, signed, edits>>

SaveSeats(n) ==
    /\ nodes[n] # Absent /\ stores[n].seats = {} /\ nodes[n].seats # {}
    /\ stores' = [stores EXCEPT ![n].seats = nodes[n].seats]
    /\ UNCHANGED <<doc, file, signed, nodes, founded, edits>>

StopNode(n) ==
    /\ nodes[n] # Absent /\ nodes' = [nodes EXCEPT ![n] = Absent]
    /\ UNCHANGED <<doc, file, signed, stores, founded, edits>>

FoundingInit ==
    /\ doc \in {[body |-> Draft(d), sigs |-> NoSignatures] : d \in Drafts}
    /\ file = Absent /\ signed = {} /\ founded = {} /\ edits = 0
    /\ nodes = [n \in Booting |-> Absent] /\ stores = [n \in Booting |-> Absent]

FoundingNext ==
    \/ \E d \in Drafts : Redraft(d)
    \/ \E e \in Edits : Replace(e[1], e[2])
    \/ \E key \in Keepers \cup Others, id \in Ids(doc.body) : Ratify(key, id)
    \/ Save \/ Load
    \/ \E e \in Edits : \E stated \in {Absent, IF file = Absent THEN Absent ELSE file.stated} :
           EditFile(e[1], e[2], stated)
    \/ \E n \in Booting : BootNode(n) \/ SaveSeats(n) \/ StopNode(n)

FoundingSpec == FoundingInit /\ [][FoundingNext]_foundingVars

\* ---- properties ----

\* What a node boots from was signed by the holders of enough of its keys, this body and not
\* one it was edited from: at a launch by every founder it names.
FoundersAgreed ==
    \A b \in founded :
        LET signers == {key \in Keys(b) : <<key, b>> \in signed}
        IN /\ b.purpose = "launch" => signers = Ids(b)
           /\ Cardinality(signers) >= b.threshold

\* While the founders that sign more than one document are as few as the faults its quorum
\* is for, a roster founds one network: a set too small to agree a block does not agree the
\* chain (genesis.py, verify 4a).
RosterFoundsOneChain ==
    \A b, c \in founded :
        (/\ Ids(b) = Ids(c) /\ AtLeastTwoThirds(b.params) /\ AtLeastTwoThirds(c.params)
         /\ 3 * Cardinality(Others \cap Ids(b)) < Cardinality(Ids(b))) => b = c

\* What draft leaves to its defaults, verify and boot accept: a one-tier draft nobody touched
\* founds a network once everybody it names, and nobody else, has ratified it.
DraftsAreFoundable ==
    (/\ doc.body \in {Draft(d) : d \in Drafts} /\ doc.body.tiers = 1
     /\ DOMAIN doc.sigs = Ids(doc.body)
     /\ \A id \in Ids(doc.body) : Verifies(doc.body, id, doc.sigs[id]))
        => Boots(doc)

\* A network is founded by the consent of its founders, one from a roster, and can be.
FoundingIsByConsent == FoundersAgreed /\ RosterFoundsOneChain /\ DraftsAreFoundable

\* "Refuses a store that belongs to a different chain" (boot).
LedgersAreTheDocuments == \A n \in Booting : nodes[n] # Absent => nodes[n].chain = nodes[n].body

\* A restarted node has the seats of its chain.
SeatsSurviveTheFirstBoot == \A n \in Booting : nodes[n] # Absent => nodes[n].seats # {}
====
