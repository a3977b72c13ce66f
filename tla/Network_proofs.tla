--------------------------- MODULE Network_proofs ---------------------------
(***************************************************************************)
(* What stands between a node and the others, proved a part at a time for    *)
(* any number of addresses, sources, seats and builds.                       *)
(***************************************************************************)
EXTENDS Mesh, Gate, Limiter, Directory, Activation, Selection_proofs, FiniteSetTheorems,
        WellFoundedInduction, TLAPS

-----------------------------------------------------------------------------
(***************************************************************************)
(* Why a connection carries its sender's stream: a hello opens one session,  *)
(* because its nonce is remembered for as long as its epoch is near enough   *)
(* to be believed, and in a session the numbers only grow.                   *)
(***************************************************************************)
Frames == [kind : {"hello", "frame"}, session : Nat, epoch : Nat, id : Nat, seq : Nat]
Ends == [at : {"none", "unproved", "seated", "closed"}, session : Nat, lastSeq : Nat,
         taken : Seq(Frames), opened : Seq(Nat)]
Seals == [session : Nat, seq : Nat]

MeshTypeOK ==
    /\ out \in Sockets \cup {NoSocket} /\ dialling \in Sockets \cup {NoSocket}
    /\ sealer \in Seals
    /\ sender \in [Threads -> [at : {"ready", "chosen", "packed"}, sock : Sockets \cup {NoSocket},
                               frame : Seals]]
    /\ wire \in [Sockets -> Seq(Frames)] /\ alive \in [Sockets -> BOOLEAN]
    /\ conn \in [Sockets -> Ends]
    /\ nonces \subseteq [nonce : Nat, epoch : Nat]
    /\ meshEpoch \in Nat /\ framesSent \in Nat

\* Hellos on their way, and the sessions that were opened and where.
Carried(f) == \E s \in Sockets : \E i \in DOMAIN wire[s] : wire[s][i] = f
Hellos == {f \in Frames : f.kind = "hello" /\ Carried(f)}
Opened(s, x) == x \in ToSet(conn[s].opened)
Remembered(x) == \E n \in nonces : n.nonce = x
Believable(e) == e >= meshEpoch - EpochSlack

HellosAreAsked ==
    /\ \A f \in Hellos : f.session \in Sockets /\ conn[f.session].at # "none" /\ f.epoch <= meshEpoch
    /\ \A f, g \in Hellos : f.session = g.session => f.epoch = g.epoch
NoncesAreOfHellos ==
    \A n \in nonces : /\ n.nonce \in Sockets /\ conn[n.nonce].at # "none" /\ n.epoch <= meshEpoch
                      /\ \A f \in Hellos : f.session = n.nonce => f.epoch = n.epoch
SessionsAreSpent ==
    \A s \in Sockets : \A x \in ToSet(conn[s].opened) :
        /\ x \in Sockets /\ conn[x].at # "none"
        /\ Remembered(x) \/ \A f \in Hellos : f.session = x => ~Believable(f.epoch)

TakenIn(s) ==
    /\ \A i \in DOMAIN conn[s].taken : conn[s].taken[i].session \in ToSet(conn[s].opened)
    /\ \A i, j \in DOMAIN conn[s].taken :
          j < i /\ conn[s].taken[j].session = conn[s].taken[i].session
              => conn[s].taken[j].seq < conn[s].taken[i].seq
SeatedIn(s) ==
    conn[s].at = "seated" =>
        /\ conn[s].session \in ToSet(conn[s].opened)
        /\ \A i \in DOMAIN conn[s].taken :
              conn[s].taken[i].session = conn[s].session => conn[s].taken[i].seq <= conn[s].lastSeq

MeshInv ==
    /\ MeshTypeOK /\ HellosAreAsked /\ NoncesAreOfHellos /\ SessionsAreSpent /\ SessionsOpenOnce
    /\ \A s \in Sockets : TakenIn(s) /\ SeatedIn(s)


LEMMA TailOf ==
    ASSUME NEW S, NEW q \in Seq(S), q # <<>>
    PROVE  /\ 1 \in DOMAIN q /\ Head(q) = q[1] /\ Head(q) \in S /\ Tail(q) \in Seq(S)
           /\ \A i \in DOMAIN Tail(q) : i + 1 \in DOMAIN q /\ Tail(q)[i] = q[i + 1]
OBVIOUS

LEMMA Appended ==
    ASSUME NEW S, NEW q \in Seq(S), NEW x \in S
    PROVE  /\ Append(q, x) \in Seq(S)
           /\ DOMAIN Append(q, x) = DOMAIN q \cup {Len(q) + 1}
           /\ Append(q, x)[Len(q) + 1] = x
           /\ \A i \in DOMAIN q : Append(q, x)[i] = q[i] /\ i < Len(q) + 1
           /\ ToSet(Append(q, x)) = ToSet(q) \cup {x}
<1>1. /\ Append(q, x) \in Seq(S)
      /\ DOMAIN Append(q, x) = DOMAIN q \cup {Len(q) + 1}
      /\ Append(q, x)[Len(q) + 1] = x
      /\ \A i \in DOMAIN q : Append(q, x)[i] = q[i] /\ i < Len(q) + 1
    OBVIOUS

<1> QED
    BY <1>1 DEF ToSet

LEMMA TypesAtFirst == MeshInit => MeshTypeOK
BY MeshAssumption DEF MeshInit, MeshTypeOK, NoSocket, Unsealed, NotSending, NoSession, NoThread, Seals, Ends

\* What a step may put on one wire.
LEMMA OneWire ==
    ASSUME MeshTypeOK, NEW s \in Sockets, NEW q \in Seq(Frames), wire' = [wire EXCEPT ![s] = q]
    PROVE  /\ wire' \in [Sockets -> Seq(Frames)]
           /\ \A f \in Hellos' : f \in Hellos \/ \E i \in DOMAIN q : q[i] = f
           /\ \A f \in Hellos' : f \in Frames /\ f.kind = "hello"
<1>1. wire \in [Sockets -> Seq(Frames)]
    BY DEF MeshTypeOK
<1>2. wire' \in [Sockets -> Seq(Frames)] /\ wire'[s] = q /\ \A r \in Sockets \ {s} : wire'[r] = wire[r]
    BY <1>1
<1> QED
    BY <1>2 DEF Hellos, Carried

LEMMA ShorterWire ==
    ASSUME MeshTypeOK, NEW s \in Sockets, wire[s] # <<>>, wire' = [wire EXCEPT ![s] = Tail(@)]
    PROVE  wire' \in [Sockets -> Seq(Frames)] /\ Hellos' \subseteq Hellos
<1>1. wire \in [Sockets -> Seq(Frames)] /\ wire[s] \in Seq(Frames)
    BY DEF MeshTypeOK
<1>2. Tail(wire[s]) \in Seq(Frames) /\ \A i \in DOMAIN Tail(wire[s]) :
          i + 1 \in DOMAIN wire[s] /\ Tail(wire[s])[i] = wire[s][i + 1]
    BY <1>1, TailOf
<1>3. wire' = [wire EXCEPT ![s] = Tail(wire[s])]
    OBVIOUS
<1>4. \A f \in Frames : (\E i \in DOMAIN Tail(wire[s]) : Tail(wire[s])[i] = f) => Carried(f)
    BY <1>2 DEF Carried
<1>5. /\ wire' \in [Sockets -> Seq(Frames)]
      /\ \A f \in Hellos' : f \in Hellos \/ \E i \in DOMAIN Tail(wire[s]) : Tail(wire[s])[i] = f
      /\ \A f \in Hellos' : f \in Frames /\ f.kind = "hello"
    BY <1>2, <1>3, OneWire
<1> QED
    BY <1>4, <1>5 DEF Hellos

LEMMA LongerWire ==
    ASSUME MeshTypeOK, NEW s \in Sockets, NEW g \in Frames, wire' = [wire EXCEPT ![s] = Append(@, g)],
           g.kind = "frame" \/ Carried(g)
    PROVE  wire' \in [Sockets -> Seq(Frames)] /\ Hellos' \subseteq Hellos
<1>1. wire \in [Sockets -> Seq(Frames)] /\ wire[s] \in Seq(Frames)
    BY DEF MeshTypeOK
<1>2. Append(wire[s], g) \in Seq(Frames)
      /\ \A i \in DOMAIN Append(wire[s], g) :
            Append(wire[s], g)[i] = g \/ (i \in DOMAIN wire[s] /\ Append(wire[s], g)[i] = wire[s][i])
    BY <1>1, Appended
<1>3. wire' = [wire EXCEPT ![s] = Append(wire[s], g)]
    OBVIOUS
<1>4. \A f \in Frames : (\E i \in DOMAIN Append(wire[s], g) : Append(wire[s], g)[i] = f) => f = g \/ Carried(f)
    BY <1>2 DEF Carried
<1>5. /\ wire' \in [Sockets -> Seq(Frames)]
      /\ \A f \in Hellos' : f \in Hellos \/ \E i \in DOMAIN Append(wire[s], g) : Append(wire[s], g)[i] = f
      /\ \A f \in Hellos' : f \in Frames /\ f.kind = "hello"
    BY <1>2, <1>3, OneWire
<1> QED
    BY <1>4, <1>5 DEF Hellos

\* A step that asks for no session and opens none leaves them as they were.
LEMMA NothingIsOpened ==
    ASSUME MeshInv, Hellos' \subseteq Hellos, nonces' = nonces,
           meshEpoch' \in Nat, meshEpoch' >= meshEpoch,
           \A s \in Sockets : conn'[s].opened = conn[s].opened /\ (conn[s].at # "none" => conn'[s].at # "none")
    PROVE  HellosAreAsked' /\ NoncesAreOfHellos' /\ SessionsAreSpent' /\ SessionsOpenOnce'
<1>1. meshEpoch \in Nat /\ nonces \subseteq [nonce : Nat, epoch : Nat]
      /\ \A f \in Hellos : f.epoch \in Nat /\ f.session \in Nat
    BY DEF MeshInv, MeshTypeOK, Hellos, Frames
<1>2. HellosAreAsked'
    BY <1>1 DEF MeshInv, HellosAreAsked
<1>3. NoncesAreOfHellos'
    BY <1>1 DEF MeshInv, NoncesAreOfHellos
<1>4. \A f \in Hellos : ~Believable(f.epoch) => ~Believable(f.epoch)'
    BY <1>1, MeshAssumption DEF Believable
<1>5. \A x : Remembered(x)' <=> Remembered(x)
    BY DEF Remembered
<1>6. SessionsAreSpent'
    BY <1>4, <1>5 DEF MeshInv, SessionsAreSpent
<1>7. SessionsOpenOnce'
    BY DEF MeshInv, SessionsOpenOnce
<1> QED
    BY <1>2, <1>3, <1>6, <1>7

\* What a connection has taken stays sound when the step takes nothing from it.
LEMMA NothingIsTaken ==
    ASSUME MeshInv, NEW s \in Sockets,
           conn'[s].taken = conn[s].taken, conn'[s].opened = conn[s].opened,
           conn'[s].session = conn[s].session, conn'[s].lastSeq = conn[s].lastSeq,
           conn'[s].at = "seated" => conn[s].at = "seated"
    PROVE  TakenIn(s)' /\ SeatedIn(s)'
<1>1. TakenIn(s)'
    BY DEF MeshInv, TakenIn
<1>2. SeatedIn(s)'
    BY DEF MeshInv, SeatedIn
<1> QED
    BY <1>1, <1>2

\* The listener's end after a step that only closes or opens a connection.
LEMMA OneEnd ==
    ASSUME MeshTypeOK, NEW s \in Sockets, NEW a \in {"none", "unproved", "seated", "closed"},
           conn' = [conn EXCEPT ![s].at = a]
    PROVE  /\ conn' \in [Sockets -> Ends] /\ conn'[s].at = a
           /\ \A r \in Sockets : /\ conn'[r].taken = conn[r].taken /\ conn'[r].opened = conn[r].opened
                                 /\ conn'[r].session = conn[r].session
                                 /\ conn'[r].lastSeq = conn[r].lastSeq
                                 /\ r # s => conn'[r].at = conn[r].at
<1>1. conn \in [Sockets -> Ends]
    BY DEF MeshTypeOK
<1>2. conn' = [conn EXCEPT ![s] = [conn[s] EXCEPT !.at = a]] /\ conn[s] \in Ends
    BY <1>1
<1>3. [conn[s] EXCEPT !.at = a] \in Ends
    BY <1>2 DEF Ends
<1>4. conn' \in [Sockets -> Ends] /\ conn'[s] = [conn[s] EXCEPT !.at = a]
      /\ \A r \in Sockets \ {s} : conn'[r] = conn[r]
    BY <1>1, <1>2, <1>3
<1>5. LET e == [conn[s] EXCEPT !.at = a]
      IN /\ e.at = a /\ e.taken = conn[s].taken /\ e.opened = conn[s].opened
         /\ e.session = conn[s].session /\ e.lastSeq = conn[s].lastSeq
    BY <1>2 DEF Ends
<1> QED
    BY <1>4, <1>5

LEMMA DialKeeps == ASSUME MeshInv, NEW s \in Sockets, Dial(s) PROVE MeshInv'
<1> DEFINE h == HelloFrame(s, meshEpoch)
<1>0. MeshTypeOK /\ s \in Nat /\ meshEpoch \in Nat
    BY MeshAssumption DEF MeshInv, MeshTypeOK, NoSocket
<1>1. h \in Frames /\ h.kind = "hello" /\ h.session = s /\ h.epoch = meshEpoch
    BY <1>0 DEF HelloFrame, Frames
<1> HIDE DEF h
<1>2. <<h>> \in Seq(Frames) /\ \A i \in DOMAIN <<h>> : <<h>>[i] = h
    BY <1>1
<1>3. wire' = [wire EXCEPT ![s] = <<h>>]
    BY DEF Dial, h
<1>4. /\ wire' \in [Sockets -> Seq(Frames)]
      /\ \A f \in Hellos' : f \in Hellos \/ \E i \in DOMAIN <<h>> : <<h>>[i] = f
    BY <1>0, <1>2, <1>3, OneWire
<1>5. \A f \in Hellos' : f \in Hellos \/ f = h
    BY <1>2, <1>4
<1>6. conn' = [conn EXCEPT ![s].at = "unproved"]
    BY DEF Dial
<1>7. /\ conn' \in [Sockets -> Ends] /\ conn'[s].at = "unproved"
      /\ \A r \in Sockets : /\ conn'[r].taken = conn[r].taken /\ conn'[r].opened = conn[r].opened
                            /\ conn'[r].session = conn[r].session
                            /\ conn'[r].lastSeq = conn[r].lastSeq
                            /\ r # s => conn'[r].at = conn[r].at
    BY <1>0, <1>6, OneEnd
<1>8. conn[s].at = "none" /\ UNCHANGED <<nonces, meshEpoch, out, sender, framesSent>>
      /\ dialling' = s /\ sealer' = [session |-> s, seq |-> 0] /\ alive' = [alive EXCEPT ![s] = TRUE]
    BY DEF Dial
<1>9. \A r \in Sockets : conn[r].at # "none" => conn'[r].at # "none" /\ r # s
    BY <1>7, <1>8
<1>10. MeshTypeOK'
    BY <1>0, <1>4, <1>7, <1>8 DEF MeshTypeOK, Seals
<1>11. \A f \in Hellos : f.session # s
    BY <1>8 DEF MeshInv, HellosAreAsked
<1>12. HellosAreAsked'
    <2>1. \A f \in Hellos' : f.session \in Sockets /\ conn'[f.session].at # "none" /\ f.epoch <= meshEpoch'
        <3>1. ASSUME NEW f \in Hellos
              PROVE  f.session \in Sockets /\ conn'[f.session].at # "none" /\ f.epoch <= meshEpoch'
            BY <1>8, <1>9 DEF MeshInv, HellosAreAsked
        <3>2. h.session \in Sockets /\ conn'[h.session].at # "none" /\ h.epoch <= meshEpoch'
            BY <1>0, <1>1, <1>7, <1>8
        <3> QED
            BY <1>5, <3>1, <3>2
    <2>2. \A f, g \in Hellos' : f.session = g.session => f.epoch = g.epoch
        BY <1>1, <1>5, <1>11 DEF MeshInv, HellosAreAsked
    <2> QED
        BY <2>1, <2>2 DEF HellosAreAsked
<1>13. NoncesAreOfHellos'
    BY <1>1, <1>5, <1>8, <1>9 DEF MeshInv, NoncesAreOfHellos
<1>14. \A r \in Sockets : \A x \in ToSet(conn[r].opened) : x # s
    BY <1>8 DEF MeshInv, SessionsAreSpent
<1>15. SessionsAreSpent'
    <2> SUFFICES ASSUME NEW r \in Sockets, NEW x \in ToSet(conn'[r].opened)
                 PROVE  /\ x \in Sockets /\ conn'[x].at # "none"
                        /\ Remembered(x)' \/ \A f \in Hellos' : f.session = x => ~Believable(f.epoch)'
        BY DEF SessionsAreSpent
    <2>1. x \in ToSet(conn[r].opened) /\ x # s
        BY <1>7, <1>14
    <2>2. /\ x \in Sockets /\ conn[x].at # "none"
          /\ Remembered(x) \/ \A f \in Hellos : f.session = x => ~Believable(f.epoch)
        BY <2>1 DEF MeshInv, SessionsAreSpent
    <2>3. Remembered(x)' <=> Remembered(x)
        BY <1>8 DEF Remembered
    <2>4. \A e : Believable(e)' <=> Believable(e)
        BY <1>8 DEF Believable
    <2> QED
        BY <1>1, <1>5, <1>9, <2>1, <2>2, <2>3, <2>4
<1>16. SessionsOpenOnce'
    BY <1>7 DEF MeshInv, SessionsOpenOnce
<1>17. \A r \in Sockets : TakenIn(r)' /\ SeatedIn(r)'
    BY <1>7, NothingIsTaken
<1> QED
    BY <1>10, <1>12, <1>13, <1>15, <1>16, <1>17 DEF MeshInv

LEMMA SendingKeeps ==
    ASSUME MeshInv,
           Dialled \/ MeshTick \/ \E t \in Threads : ChooseSocket(t) \/ PackFrame(t) \/ WriteFrame(t)
    PROVE  MeshInv'
<1>0. MeshTypeOK
    BY DEF MeshInv
<1>1. MeshTypeOK' /\ Hellos' \subseteq Hellos /\ meshEpoch' >= meshEpoch
    <2>1. CASE Dialled
        BY <1>0, <2>1 DEF Dialled, MeshTypeOK, Hellos, Carried
    <2>2. CASE MeshTick
        BY <1>0, <2>2 DEF MeshTick, MeshTypeOK, Hellos, Carried
    <2>3. ASSUME NEW t \in Threads, ChooseSocket(t)
          PROVE  MeshTypeOK' /\ Hellos' \subseteq Hellos /\ meshEpoch' >= meshEpoch
        <3>1. [session |-> sealer.session, seq |-> sealer.seq + 1] \in Seals
            BY <1>0 DEF MeshTypeOK, Seals
        <3> QED
            BY <1>0, <2>3, <3>1 DEF ChooseSocket, MeshTypeOK, Hellos, Carried
    <2>4. ASSUME NEW t \in Threads, PackFrame(t)
          PROVE  MeshTypeOK' /\ Hellos' \subseteq Hellos /\ meshEpoch' >= meshEpoch
        <3>1. Numbered(t) \in Seals
            BY <1>0 DEF MeshTypeOK, Seals, Numbered
        <3>2. /\ sealer' = [sealer EXCEPT !.seq = @ + 1]
              /\ sender' = [sender EXCEPT ![t].at = "packed", ![t].frame = Numbered(t)]
            BY <2>4 DEF PackFrame
        <3>3. sealer' \in Seals
            <4>1. sealer \in [session : Nat, seq : Nat] /\ sealer.seq + 1 \in Nat
                BY <1>0 DEF MeshTypeOK, Seals
            <4>2. sealer' = [sealer EXCEPT !.seq = sealer.seq + 1]
                BY <3>2
            <4> QED
                BY <4>1, <4>2 DEF Seals
        <3>4. sender' \in [Threads -> [at : {"ready", "chosen", "packed"}, sock : Sockets \cup {NoSocket},
                                       frame : Seals]]
            BY <1>0, <3>1, <3>2 DEF MeshTypeOK
        <3> QED
            BY <1>0, <2>4, <3>3, <3>4 DEF PackFrame, MeshTypeOK, Hellos, Carried
    <2>5. ASSUME NEW t \in Threads, WriteFrame(t)
          PROVE  MeshTypeOK' /\ Hellos' \subseteq Hellos /\ meshEpoch' >= meshEpoch
        <3> DEFINE g == SealedFrame(sender[t].frame, framesSent)
        <3>1. g \in Frames /\ g.kind = "frame"
            BY <1>0 DEF MeshTypeOK, Seals, SealedFrame, Frames
        <3> HIDE DEF g
        <3>2. sender[t].sock \in Sockets \cup {NoSocket}
            BY <1>0 DEF MeshTypeOK
        <3>3. wire' \in [Sockets -> Seq(Frames)] /\ Hellos' \subseteq Hellos
            <4>1. CASE wire' = wire
                BY <1>0, <4>1 DEF MeshTypeOK, Hellos, Carried
            <4>2. CASE wire' = [wire EXCEPT ![sender[t].sock] = Append(@, g)]
                <5>1. CASE sender[t].sock \in Sockets
                    BY <1>0, <3>1, <4>2, <5>1, LongerWire
                <5>2. CASE sender[t].sock \notin Sockets
                    <6>1. wire' = wire
                        BY <1>0, <4>2, <5>2 DEF MeshTypeOK
                    <6> QED
                        BY <4>1, <6>1
                <5> QED
                    BY <5>1, <5>2
            <4> QED
                BY <2>5, <4>1, <4>2 DEF WriteFrame, g
        <3>4. /\ out' \in {out, NoSocket} /\ sender' = [sender EXCEPT ![t] = NotSending]
              /\ UNCHANGED <<dialling, sealer, alive, conn, nonces, meshEpoch, framesSent>>
            BY <2>5 DEF WriteFrame
        <3>5. NotSending \in [at : {"ready", "chosen", "packed"}, sock : Sockets \cup {NoSocket},
                              frame : Seals]
            BY DEF NotSending, Unsealed, NoSession, Seals
        <3>6. sender' \in [Threads -> [at : {"ready", "chosen", "packed"}, sock : Sockets \cup {NoSocket},
                                       frame : Seals]]
            BY <1>0, <3>4, <3>5 DEF MeshTypeOK
        <3> QED
            BY <1>0, <3>3, <3>4, <3>6 DEF MeshTypeOK
    <2> QED
        BY <2>1, <2>2, <2>3, <2>4, <2>5
<1>2. UNCHANGED <<conn, nonces>>
    BY DEF Dialled, MeshTick, ChooseSocket, PackFrame, WriteFrame
<1>3. HellosAreAsked' /\ NoncesAreOfHellos' /\ SessionsAreSpent' /\ SessionsOpenOnce'
    BY <1>1, <1>2, NothingIsOpened DEF MeshTypeOK
<1>4. \A s \in Sockets : TakenIn(s)' /\ SeatedIn(s)'
    BY <1>2, NothingIsTaken
<1> QED
    BY <1>1, <1>3, <1>4 DEF MeshInv

LEMMA PathKeeps ==
    ASSUME MeshInv,
           \E s \in Sockets : LoseFrame(s) \/ BreakSocket(s) \/ \E r \in Sockets : RepeatFrame(s, r)
    PROVE  MeshInv'
<1>0. MeshTypeOK /\ meshEpoch \in Nat
    BY DEF MeshInv, MeshTypeOK
<1>1. ASSUME NEW s \in Sockets, LoseFrame(s)
      PROVE  wire' \in [Sockets -> Seq(Frames)] /\ Hellos' \subseteq Hellos
    BY <1>0, <1>1, ShorterWire DEF LoseFrame
<1>2. ASSUME NEW s \in Sockets, NEW r \in Sockets, RepeatFrame(s, r)
      PROVE  wire' \in [Sockets -> Seq(Frames)] /\ Hellos' \subseteq Hellos
    <2>1. wire[s] \in Seq(Frames) /\ wire[s] # <<>>
        BY <1>0, <1>2 DEF MeshTypeOK, RepeatFrame
    <2>2. Head(wire[s]) \in Frames /\ Carried(Head(wire[s]))
        BY <2>1, TailOf DEF Carried
    <2>3. wire' = [wire EXCEPT ![r] = Append(@, Head(wire[s]))]
        BY <1>2 DEF RepeatFrame
    <2> QED
        BY <1>0, <2>2, <2>3, LongerWire
<1>3. ASSUME NEW s \in Sockets, BreakSocket(s)
      PROVE  MeshInv'
    <2>1. wire' = [wire EXCEPT ![s] = <<>>] /\ conn' = [conn EXCEPT ![s].at = "closed"]
          /\ alive' = [alive EXCEPT ![s] = FALSE]
          /\ UNCHANGED <<out, dialling, sealer, sender, nonces, meshEpoch, framesSent>>
        BY <1>3 DEF BreakSocket
    <2>2. wire' \in [Sockets -> Seq(Frames)] /\ Hellos' \subseteq Hellos
        <3>1. <<>> \in Seq(Frames) /\ \A i \in DOMAIN <<>> : FALSE
            OBVIOUS
        <3> QED
            BY <1>0, <2>1, <3>1, OneWire
    <2>3. /\ conn' \in [Sockets -> Ends] /\ conn'[s].at = "closed"
          /\ \A r \in Sockets : /\ conn'[r].taken = conn[r].taken /\ conn'[r].opened = conn[r].opened
                                /\ conn'[r].session = conn[r].session
                                /\ conn'[r].lastSeq = conn[r].lastSeq
                                /\ r # s => conn'[r].at = conn[r].at
        BY <1>0, <2>1, OneEnd
    <2>4. MeshTypeOK'
        BY <1>0, <2>1, <2>2, <2>3 DEF MeshTypeOK
    <2>5. HellosAreAsked' /\ NoncesAreOfHellos' /\ SessionsAreSpent' /\ SessionsOpenOnce'
        BY <1>0, <2>1, <2>2, <2>3, NothingIsOpened
    <2>6. \A r \in Sockets : TakenIn(r)' /\ SeatedIn(r)'
        BY <2>3, NothingIsTaken
    <2> QED
        BY <2>4, <2>5, <2>6 DEF MeshInv
<1>4. ASSUME wire' \in [Sockets -> Seq(Frames)], Hellos' \subseteq Hellos,
             UNCHANGED <<out, dialling, sealer, sender, alive, conn, nonces, meshEpoch, framesSent>>
      PROVE  MeshInv'
    <2>1. MeshTypeOK'
        BY <1>0, <1>4 DEF MeshTypeOK
    <2>2. HellosAreAsked' /\ NoncesAreOfHellos' /\ SessionsAreSpent' /\ SessionsOpenOnce'
        BY <1>0, <1>4, NothingIsOpened
    <2>3. \A r \in Sockets : TakenIn(r)' /\ SeatedIn(r)'
        BY <1>4, NothingIsTaken
    <2> QED
        BY <2>1, <2>2, <2>3 DEF MeshInv
<1> QED
    BY <1>1, <1>2, <1>3, <1>4 DEF LoseFrame, RepeatFrame

\* A frame or a hello that is refused ends its connection and changes nothing else.
LEMMA RefusingKeeps ==
    ASSUME MeshInv, NEW s \in Sockets, NEW honest, Listens(s), Refuse(s, honest),
           wire' = [wire EXCEPT ![s] = Tail(@)],
           UNCHANGED <<out, dialling, sealer, sender, nonces, meshEpoch, framesSent>>
    PROVE  MeshInv'
<1>0. MeshTypeOK /\ meshEpoch \in Nat /\ wire[s] # <<>>
    BY DEF MeshInv, MeshTypeOK, Listens
<1>1. wire' \in [Sockets -> Seq(Frames)] /\ Hellos' \subseteq Hellos
    BY <1>0, ShorterWire
<1>2. conn' = [conn EXCEPT ![s].at = "closed"] /\ alive' = [alive EXCEPT ![s] = FALSE]
    BY DEF Refuse
<1>3. /\ conn' \in [Sockets -> Ends] /\ conn'[s].at = "closed"
      /\ \A r \in Sockets : /\ conn'[r].taken = conn[r].taken /\ conn'[r].opened = conn[r].opened
                            /\ conn'[r].session = conn[r].session
                            /\ conn'[r].lastSeq = conn[r].lastSeq
                            /\ r # s => conn'[r].at = conn[r].at
    BY <1>0, <1>2, OneEnd
<1>4. MeshTypeOK'
    BY <1>0, <1>1, <1>2, <1>3 DEF MeshTypeOK
<1>5. HellosAreAsked' /\ NoncesAreOfHellos' /\ SessionsAreSpent' /\ SessionsOpenOnce'
    BY <1>0, <1>1, <1>3, NothingIsOpened
<1>6. \A r \in Sockets : TakenIn(r)' /\ SeatedIn(r)'
    BY <1>3, NothingIsTaken
<1> QED
    BY <1>4, <1>5, <1>6 DEF MeshInv

LEMMA TakeFrameKeeps == ASSUME MeshInv, NEW s \in Sockets, TakeFrame(s) PROVE MeshInv'
<1> DEFINE frame == Head(wire[s])
<1>0. MeshTypeOK /\ meshEpoch \in Nat /\ wire[s] # <<>> /\ wire[s] \in Seq(Frames) /\ Listens(s)
      /\ wire' = [wire EXCEPT ![s] = Tail(@)]
      /\ UNCHANGED <<out, dialling, sealer, sender, nonces, meshEpoch, framesSent>>
    BY DEF MeshInv, MeshTypeOK, Listens, TakeFrame
<1>1. CASE Refuse(s, TRUE)
    BY <1>0, <1>1, RefusingKeeps
<1>2. ASSUME conn[s].at = "seated", SealHolds(s, frame), alive' = alive,
             conn' = [conn EXCEPT ![s].lastSeq = frame.seq, ![s].taken = Append(@, frame)]
      PROVE  MeshInv'
    <2>1. frame \in Frames /\ frame.seq \in Nat /\ frame.session \in Nat
        <3>1. frame \in Frames
            BY <1>0, TailOf
        <3> QED
            BY <3>1 DEF Frames
    <2> HIDE DEF frame
    <2>2. conn \in [Sockets -> Ends] /\ conn[s] \in Ends /\ conn[s].taken \in Seq(Frames)
        BY <1>0 DEF MeshTypeOK, Ends
    <2> DEFINE took == Append(conn[s].taken, frame)
               n == Len(conn[s].taken) + 1
    <2>3. /\ took \in Seq(Frames) /\ DOMAIN took = DOMAIN conn[s].taken \cup {n} /\ took[n] = frame
          /\ \A i \in DOMAIN conn[s].taken : took[i] = conn[s].taken[i] /\ i < n /\ i \in Nat
          /\ n \in Nat
        BY <2>1, <2>2, Appended
    <2> HIDE DEF took, n
    <2>4. conn' = [conn EXCEPT ![s] = [conn[s] EXCEPT !.lastSeq = frame.seq, !.taken = took]]
        BY <1>2, <2>2 DEF took
    <2>5. /\ conn' \in [Sockets -> Ends] /\ \A r \in Sockets \ {s} : conn'[r] = conn[r]
          /\ conn'[s].at = "seated" /\ conn'[s].session = conn[s].session
          /\ conn'[s].opened = conn[s].opened /\ conn'[s].lastSeq = frame.seq /\ conn'[s].taken = took
        <3> DEFINE e == [conn[s] EXCEPT !.lastSeq = frame.seq, !.taken = took]
        <3>1. /\ e \in Ends /\ e.at = conn[s].at /\ e.session = conn[s].session
              /\ e.opened = conn[s].opened /\ e.lastSeq = frame.seq /\ e.taken = took
            BY <2>1, <2>2, <2>3 DEF Ends
        <3> HIDE DEF e
        <3>2. conn' = [conn EXCEPT ![s] = e]
            BY <2>4 DEF e
        <3> QED
            BY <1>2, <2>2, <3>1, <3>2
    <2>6. wire' \in [Sockets -> Seq(Frames)] /\ Hellos' \subseteq Hellos
        BY <1>0, ShorterWire
    <2>7. MeshTypeOK'
        BY <1>0, <1>2, <2>5, <2>6 DEF MeshTypeOK
    <2>8. HellosAreAsked' /\ NoncesAreOfHellos' /\ SessionsAreSpent' /\ SessionsOpenOnce'
        BY <1>0, <1>2, <2>5, <2>6, NothingIsOpened
    <2>9. \A r \in Sockets \ {s} : TakenIn(r)' /\ SeatedIn(r)'
        BY <2>5, NothingIsTaken
    <2>10. frame.session = conn[s].session /\ frame.seq > conn[s].lastSeq
           /\ conn[s].session \in ToSet(conn[s].opened)
           /\ \A i \in DOMAIN conn[s].taken :
                  conn[s].taken[i].session = conn[s].session => conn[s].taken[i].seq <= conn[s].lastSeq
        BY <1>2 DEF SealHolds, MeshInv, SeatedIn
    <2>11. \A i \in DOMAIN conn[s].taken : conn[s].taken[i].seq \in Nat
        <3>1. \A i \in DOMAIN conn[s].taken : conn[s].taken[i] \in Frames
            BY <2>2
        <3> QED
            BY <3>1 DEF Frames
    <2>12. conn[s].lastSeq \in Nat
        BY <2>2 DEF Ends
    <2>13. \A i \in DOMAIN conn[s].taken :
              conn[s].taken[i].session = frame.session => conn[s].taken[i].seq < frame.seq
        BY <2>1, <2>10, <2>11, <2>12
    <2>14. TakenIn(s)'
        <3>1. \A i \in DOMAIN took : took[i].session \in ToSet(conn[s].opened)
            BY <2>3, <2>10 DEF MeshInv, TakenIn
        <3>2. ASSUME NEW i \in DOMAIN took, NEW j \in DOMAIN took, j < i, took[j].session = took[i].session
              PROVE  took[j].seq < took[i].seq
            <4>1. j \in DOMAIN conn[s].taken
                BY <2>3, <3>2
            <4>2. CASE i = n
                BY <2>3, <2>13, <3>2, <4>1, <4>2
            <4>3. CASE i \in DOMAIN conn[s].taken
                BY <2>3, <3>2, <4>1, <4>3 DEF MeshInv, TakenIn
            <4> QED
                BY <2>3, <4>2, <4>3
        <3> QED
            BY <2>5, <3>1, <3>2 DEF TakenIn
    <2>15. SeatedIn(s)'
        <3>1. \A i \in DOMAIN took : took[i].session = conn[s].session => took[i].seq <= frame.seq
            BY <2>1, <2>3, <2>10, <2>11, <2>13
        <3> QED
            BY <2>5, <2>10, <3>1 DEF SeatedIn
    <2> QED
        BY <2>7, <2>8, <2>9, <2>14, <2>15 DEF MeshInv
<1> QED
    BY <1>1, <1>2 DEF TakeFrame

LEMMA TakeHelloKeeps == ASSUME MeshInv, NEW s \in Sockets, TakeHello(s) PROVE MeshInv'
<1> DEFINE frame == Head(wire[s])
           x == frame.session
<1>0. MeshTypeOK /\ meshEpoch \in Nat /\ wire[s] # <<>> /\ wire[s] \in Seq(Frames) /\ Listens(s)
      /\ wire' = [wire EXCEPT ![s] = Tail(@)] /\ frame.kind = "hello"
      /\ UNCHANGED <<out, dialling, sealer, sender, meshEpoch, framesSent>>
    BY DEF MeshInv, MeshTypeOK, Listens, TakeHello
<1>1. CASE Refuse(s, ~WindowFull) /\ UNCHANGED nonces
    BY <1>0, <1>1, RefusingKeeps
<1>2. ASSUME HelloHolds(frame), alive' = alive,
             nonces' = (IF Cardinality(nonces) >= MaxSeen THEN Fresh(meshEpoch) ELSE nonces)
                           \cup {[nonce |-> frame.session, epoch |-> frame.epoch]},
             conn' = [conn EXCEPT ![s].at = "seated", ![s].session = frame.session, ![s].lastSeq = 0,
                                  ![s].opened = Append(@, frame.session)]
      PROVE  MeshInv'
    <2>1. frame \in Hellos /\ x \in Nat /\ frame.epoch \in Nat
        <3>1. frame \in Frames /\ frame = wire[s][1] /\ 1 \in DOMAIN wire[s]
            BY <1>0, TailOf
        <3>2. frame \in Hellos
            BY <1>0, <3>1 DEF Hellos, Carried
        <3> QED
            BY <3>1, <3>2 DEF Frames
    <2> HIDE DEF frame
    <2>2. conn \in [Sockets -> Ends] /\ conn[s] \in Ends /\ conn[s].opened \in Seq(Nat)
        BY <1>0 DEF MeshTypeOK, Ends
    <2> DEFINE open == Append(conn[s].opened, x)
               n == Len(conn[s].opened) + 1
    <2>3. /\ open \in Seq(Nat) /\ DOMAIN open = DOMAIN conn[s].opened \cup {n} /\ open[n] = x
          /\ \A i \in DOMAIN conn[s].opened : open[i] = conn[s].opened[i] /\ i < n
          /\ ToSet(open) = ToSet(conn[s].opened) \cup {x}
        BY <2>1, <2>2, Appended
    <2> HIDE DEF open, n
    <2>4. conn' = [conn EXCEPT ![s] = [conn[s] EXCEPT !.at = "seated", !.session = x, !.lastSeq = 0,
                                                      !.opened = open]]
        BY <1>2, <2>2 DEF open
    <2>5. /\ conn' \in [Sockets -> Ends] /\ \A r \in Sockets \ {s} : conn'[r] = conn[r]
          /\ conn'[s].at = "seated" /\ conn'[s].session = x
          /\ conn'[s].opened = open /\ conn'[s].lastSeq = 0 /\ conn'[s].taken = conn[s].taken
        BY <2>1, <2>2, <2>3, <2>4 DEF Ends
    <2> HIDE DEF x
    <2>6. wire' \in [Sockets -> Seq(Frames)] /\ Hellos' \subseteq Hellos
        BY <1>0, ShorterWire
    <2>7. x \in Sockets /\ conn[x].at # "none" /\ frame.epoch <= meshEpoch
          /\ \A f \in Hellos : f.session = x => f.epoch = frame.epoch
        BY <2>1 DEF MeshInv, HellosAreAsked, x
    <2>8. Believable(frame.epoch) /\ \A m \in nonces : m.nonce # x
        BY <1>0, <1>2, <2>1, MeshAssumption DEF HelloHolds, Believable, x
    <2> DEFINE entry == [nonce |-> x, epoch |-> frame.epoch]
    <2>9. entry \in nonces' /\ \A m \in nonces' : m \in nonces \/ m = entry
        BY <1>2 DEF Fresh, x
    <2>10. entry.nonce = x /\ entry.epoch = frame.epoch /\ entry \in [nonce : Nat, epoch : Nat]
        BY <2>1
    <2> HIDE DEF entry
    <2>11. \A m \in nonces : m \in nonces' \/ ~Believable(m.epoch)
        <3>1. \A m \in nonces : m.epoch \in Nat /\ m.epoch <= meshEpoch
            BY <1>0 DEF MeshInv, NoncesAreOfHellos, MeshTypeOK
        <3>2. \A m \in nonces : Believable(m.epoch) => m \in Fresh(meshEpoch)
            BY <1>0, <3>1, MeshAssumption DEF Believable, Fresh
        <3> QED
            BY <1>2, <3>2
    <2>12. \A r \in Sockets : conn[r].at # "none" => conn'[r].at # "none"
        BY <2>5
    <2>13. MeshTypeOK'
        BY <1>0, <1>2, <2>5, <2>6, <2>9, <2>10 DEF MeshTypeOK
    <2>14. HellosAreAsked'
        BY <1>0, <2>6, <2>12 DEF MeshInv, HellosAreAsked
    <2>15. NoncesAreOfHellos'
        <3>1. ASSUME NEW m \in nonces
              PROVE  /\ m.nonce \in Sockets /\ conn'[m.nonce].at # "none" /\ m.epoch <= meshEpoch'
                     /\ \A f \in Hellos' : f.session = m.nonce => f.epoch = m.epoch
            BY <1>0, <2>6, <2>12 DEF MeshInv, NoncesAreOfHellos
        <3>2. /\ entry.nonce \in Sockets /\ conn'[entry.nonce].at # "none" /\ entry.epoch <= meshEpoch'
              /\ \A f \in Hellos' : f.session = entry.nonce => f.epoch = entry.epoch
            BY <1>0, <2>6, <2>7, <2>10, <2>12
        <3> QED
            BY <2>9, <3>1, <3>2 DEF NoncesAreOfHellos
    <2>16. \A r \in Sockets : x \notin ToSet(conn[r].opened)
        <3> SUFFICES ASSUME NEW r \in Sockets, x \in ToSet(conn[r].opened) PROVE FALSE
            OBVIOUS
        <3>1. Remembered(x) \/ \A f \in Hellos : f.session = x => ~Believable(f.epoch)
            BY DEF MeshInv, SessionsAreSpent
        <3> QED
            BY <2>1, <2>8, <3>1 DEF Remembered, x
    <2>17. SessionsAreSpent'
        <3> SUFFICES ASSUME NEW r \in Sockets, NEW y \in ToSet(conn'[r].opened)
                     PROVE  /\ y \in Sockets /\ conn'[y].at # "none"
                            /\ Remembered(y)' \/ \A f \in Hellos' : f.session = y => ~Believable(f.epoch)'
            BY DEF SessionsAreSpent
        <3>1. CASE y = x
            BY <2>7, <2>9, <2>10, <2>12, <3>1 DEF Remembered
        <3>2. CASE y # x
            <4>1. y \in ToSet(conn[r].opened)
                BY <2>3, <2>5, <3>2
            <4>2. /\ y \in Sockets /\ conn[y].at # "none"
                  /\ Remembered(y) \/ \A f \in Hellos : f.session = y => ~Believable(f.epoch)
                BY <4>1 DEF MeshInv, SessionsAreSpent
            <4>3. \A e : Believable(e)' <=> Believable(e)
                BY <1>0 DEF Believable
            <4>4. CASE Remembered(y)
                <5>1. PICK m \in nonces : m.nonce = y
                    BY <4>4 DEF Remembered
                <5>2. CASE m \in nonces'
                    BY <2>12, <4>2, <5>1, <5>2 DEF Remembered
                <5>3. CASE ~Believable(m.epoch)
                    BY <2>6, <2>12, <4>2, <4>3, <5>1, <5>3 DEF MeshInv, NoncesAreOfHellos
                <5> QED
                    BY <2>11, <5>2, <5>3
            <4>5. CASE \A f \in Hellos : f.session = y => ~Believable(f.epoch)
                BY <2>6, <2>12, <4>2, <4>3, <4>5
            <4> QED
                BY <4>2, <4>4, <4>5
        <3> QED
            BY <3>1, <3>2
    <2>18. SessionsOpenOnce'
        <3>1. \A r \in Sockets : \A i \in DOMAIN conn[r].opened : conn[r].opened[i] # x
            BY <2>16 DEF ToSet
        <3> SUFFICES ASSUME NEW q \in Sockets, NEW r \in Sockets,
                            NEW i \in DOMAIN conn'[q].opened, NEW j \in DOMAIN conn'[r].opened,
                            conn'[q].opened[i] = conn'[r].opened[j]
                     PROVE  q = r /\ i = j
            BY DEF SessionsOpenOnce
        <3>2. (i \in DOMAIN conn[q].opened /\ conn'[q].opened[i] = conn[q].opened[i])
              \/ (q = s /\ i = n /\ conn'[q].opened[i] = x)
            BY <2>3, <2>5
        <3>3. (j \in DOMAIN conn[r].opened /\ conn'[r].opened[j] = conn[r].opened[j])
              \/ (r = s /\ j = n /\ conn'[r].opened[j] = x)
            BY <2>3, <2>5
        <3> QED
            BY <3>1, <3>2, <3>3 DEF MeshInv, SessionsOpenOnce
    <2>19. \A r \in Sockets \ {s} : TakenIn(r)' /\ SeatedIn(r)'
        BY <2>5, NothingIsTaken
    <2>20. TakenIn(s)'
        BY <2>3, <2>5 DEF MeshInv, TakenIn
    <2>21. SeatedIn(s)'
        BY <2>3, <2>5, <2>16 DEF MeshInv, TakenIn, SeatedIn
    <2> QED
        BY <2>13, <2>14, <2>15, <2>17, <2>18, <2>19, <2>20, <2>21 DEF MeshInv
<1> QED
    BY <1>1, <1>2 DEF TakeHello

\* A frame is taken once because its session was opened once and its number passed once.
LEMMA StreamsAreTheSenders == MeshInv => MeshIsFaithful
<1> SUFFICES ASSUME MeshInv PROVE StreamIsTheSenders
    BY DEF MeshInv, MeshIsFaithful
<1>1. ASSUME NEW s \in Sockets, NEW i \in DOMAIN conn[s].taken
      PROVE  /\ conn[s].taken[i].session \in ToSet(conn[s].opened) /\ i \in Nat
             /\ \A j \in DOMAIN conn[s].taken :
                   j < i /\ conn[s].taken[j].session = conn[s].taken[i].session
                       => conn[s].taken[j].seq < conn[s].taken[i].seq
             /\ conn[s].taken[i].seq \in Nat
             /\ 1..(i - 1) \subseteq DOMAIN conn[s].taken
    <2>1. conn[s].taken \in Seq(Frames)
        BY DEF MeshInv, MeshTypeOK, Ends
    <2>2. i \in Nat /\ 1..(i - 1) \subseteq DOMAIN conn[s].taken
        BY <2>1
    <2>3. conn[s].taken[i].seq \in Nat
        <3>1. conn[s].taken[i] \in Frames
            BY <2>1
        <3> QED
            BY <3>1 DEF Frames
    <2> QED
        BY <2>2, <2>3 DEF MeshInv, TakenIn
<1>2. ASSUME NEW r \in Sockets, NEW s \in Sockets,
             NEW i \in DOMAIN conn[r].taken, NEW j \in DOMAIN conn[s].taken,
             conn[r].taken[i] = conn[s].taken[j]
      PROVE  r = s /\ i = j
    <2>1. conn[r].taken[i].session \in ToSet(conn[r].opened)
          /\ conn[r].taken[i].session \in ToSet(conn[s].opened)
        BY <1>1, <1>2
    <2>2. r = s
        BY <2>1 DEF ToSet, MeshInv, SessionsOpenOnce
    <2>3. i < j \/ j < i \/ i = j
        BY <1>1
    <2> QED
        BY <1>1, <1>2, <2>2, <2>3
<1>3. \A s \in Sockets : \A i \in DOMAIN conn[s].taken :
          /\ conn[s].taken[i].session \in ToSet(conn[s].opened)
          /\ \A j \in 1..(i - 1) : conn[s].taken[j].session = conn[s].taken[i].session
                                     => conn[s].taken[j].seq < conn[s].taken[i].seq
    BY <1>1
<1> QED
    BY <1>2, <1>3 DEF StreamIsTheSenders

LEMMA MeshAtFirst == ASSUME MeshInit PROVE MeshInv
<1>1. /\ \A s \in Sockets : wire[s] = <<>> /\ conn[s].taken = <<>> /\ conn[s].opened = <<>>
                            /\ conn[s].at = "none"
      /\ nonces = {}
    BY DEF MeshInit
<1>2. Hellos = {} /\ \A s \in Sockets : ToSet(conn[s].opened) = {}
    BY <1>1 DEF Hellos, Carried, ToSet
<1>3. MeshTypeOK
    BY TypesAtFirst
<1>4. HellosAreAsked /\ NoncesAreOfHellos /\ SessionsAreSpent
    BY <1>1, <1>2 DEF HellosAreAsked, NoncesAreOfHellos, SessionsAreSpent
<1>5. SessionsOpenOnce /\ \A s \in Sockets : TakenIn(s) /\ SeatedIn(s)
    BY <1>1 DEF SessionsOpenOnce, TakenIn, SeatedIn
<1> QED
    BY <1>3, <1>4, <1>5 DEF MeshInv

LEMMA MeshStep == ASSUME MeshInv, [MeshNext]_meshVars PROVE MeshInv'
<1>1. CASE MeshNext
    <2>1. CASE Dialled \/ MeshTick \/ \E t \in Threads : ChooseSocket(t) \/ PackFrame(t) \/ WriteFrame(t)
        BY <2>1, SendingKeeps
    <2>2. CASE \E s \in Sockets : Dial(s)
        BY <2>2, DialKeeps
    <2>3. CASE \E s \in Sockets : TakeHello(s)
        BY <2>3, TakeHelloKeeps
    <2>4. CASE \E s \in Sockets : TakeFrame(s)
        BY <2>4, TakeFrameKeeps
    <2>5. CASE \E s \in Sockets : LoseFrame(s) \/ BreakSocket(s) \/ \E r \in Sockets : RepeatFrame(s, r)
        BY <2>5, PathKeeps
    <2> QED
        BY <1>1, <2>1, <2>2, <2>3, <2>4, <2>5 DEF MeshNext
<1>2. CASE UNCHANGED meshVars
    <2>1. UNCHANGED <<out, dialling, sealer, sender, wire, alive, conn, nonces, meshEpoch, framesSent>>
        BY <1>2 DEF meshVars
    <2>2. MeshTypeOK' /\ Hellos' = Hellos /\ meshEpoch' \in Nat /\ meshEpoch' >= meshEpoch
        BY <2>1 DEF MeshInv, MeshTypeOK, Hellos, Carried
    <2>3. HellosAreAsked' /\ NoncesAreOfHellos' /\ SessionsAreSpent' /\ SessionsOpenOnce'
        BY <2>1, <2>2, NothingIsOpened
    <2>4. \A s \in Sockets : TakenIn(s)' /\ SeatedIn(s)'
        BY <2>1, NothingIsTaken
    <2> QED
        BY <2>2, <2>3, <2>4 DEF MeshInv
<1> QED
    BY <1>1, <1>2

\* MeshIsFaithful over any number of connections, hellos, threads and faults of the path:
\* what Verifier.check remembers and SealCheck.check counts is enough.
THEOREM MeshesAreFaithful == MeshSpec => []MeshIsFaithful
<1>1. MeshInit => MeshInv
    BY MeshAtFirst
<1>2. MeshInv /\ [MeshNext]_meshVars => MeshInv'
    BY MeshStep
<1> QED
    BY <1>1, <1>2, StreamsAreTheSenders, PTL DEF MeshSpec

(***************************************************************************)
(* Why honest frames are taken: at most one connection can carry, it is the  *)
(* one the session in use was opened for, and its frames are in the order    *)
(* they were numbered in.  A write that fails on a connection already        *)
(* replaced takes the new one away while it lives, and breaks the first.     *)
(***************************************************************************)
InOrder(s) ==
    /\ \A i \in DOMAIN wire[s] :
          /\ wire[s][i].kind = "hello" <=> conn[s].at = "unproved" /\ i = 1
          /\ wire[s][i].session = s /\ wire[s][i].seq <= sealer.seq
    /\ \A i, j \in DOMAIN wire[s] : i < j => wire[s][i].seq < wire[s][j].seq
    /\ conn[s].at = "unproved" => wire[s] # <<>> /\ ~Remembered(s)
    /\ conn[s].at = "seated" =>
          /\ conn[s].session = s /\ conn[s].lastSeq <= sealer.seq
          /\ \A i \in DOMAIN wire[s] : conn[s].lastSeq < wire[s][i].seq
IsNext(s, seal) ==
    /\ seal.session = s /\ seal.seq <= sealer.seq
    /\ \A i \in DOMAIN wire[s] : wire[s][i].seq < seal.seq
    /\ conn[s].at = "seated" => conn[s].lastSeq < seal.seq
Orderly ==
    /\ \A s \in Sockets : alive[s] => s = sealer.session /\ s \in {out, dialling} /\ InOrder(s)
    /\ \A t \in Threads : sender[t].at = "packed" /\ alive[sender[t].sock]
                             => IsNext(sender[t].sock, sender[t].frame)

Used ==
    /\ \A s \in Sockets : alive[s] <=> conn[s].at \in {"unproved", "seated"}
    /\ out = NoSocket \/ dialling = NoSocket
    /\ \A s \in {out, dialling} \cap Sockets : conn[s].at # "none"
    /\ \A t \in Threads : /\ sender[t].at # "ready" => sender[t].sock \in Sockets /\ conn[sender[t].sock].at # "none"
                          /\ sender[t].at = "packed" => socketLock = t
Flags == pathFaults \in Nat /\ droppedAlive \in BOOLEAN /\ refusedHonest \in BOOLEAN
HonestInv ==
    /\ MeshInv /\ Flags /\ Used /\ HonestFramesAreTaken
    /\ \A f \in Hellos : Believable(f.epoch)
    /\ pathFaults = 0 /\ ~droppedAlive => Orderly

\* A hello is asked for in the epoch there is, and is in flight across one boundary.
LEMMA HellosAreBelieved ==
    ASSUME MeshInv, MeshNext, \A f \in Hellos : Believable(f.epoch)
    PROVE  \A f \in Hellos' : Believable(f.epoch)'
<1>0. MeshTypeOK /\ meshEpoch \in Nat /\ \A f \in Hellos : f.epoch \in Nat
    BY DEF MeshInv, MeshTypeOK, Hellos, Frames
<1>1. ASSUME NEW s \in Sockets, Dial(s)
      PROVE  \A f \in Hellos' : Believable(f.epoch)'
    <2> DEFINE h == HelloFrame(s, meshEpoch)
    <2>1. h \in Frames /\ h.epoch = meshEpoch
        BY <1>0, MeshAssumption DEF HelloFrame, Frames
    <2>2. wire' = [wire EXCEPT ![s] = <<h>>] /\ meshEpoch' = meshEpoch
        BY <1>1 DEF Dial
    <2> HIDE DEF h
    <2>3. <<h>> \in Seq(Frames) /\ \A j \in DOMAIN <<h>> : <<h>>[j] = h
        BY <2>1
    <2>4. \A f \in Hellos' : f \in Hellos \/ \E j \in DOMAIN <<h>> : <<h>>[j] = f
        BY <1>0, <2>2, <2>3, OneWire
    <2> QED
        BY <1>0, <2>1, <2>2, <2>3, <2>4, MeshAssumption DEF Believable
<1>2. CASE MeshTick
    <2>1. Hellos' = Hellos /\ meshEpoch' = meshEpoch + 1
        BY <1>2 DEF MeshTick, Hellos, Carried
    <2>2. \A f \in Hellos : f.epoch > meshEpoch - EpochSlack
        BY <1>2 DEF MeshTick, Hellos, Carried
    <2> QED
        BY <1>0, <2>1, <2>2, MeshAssumption DEF Believable
<1>3. ASSUME Hellos' \subseteq Hellos, meshEpoch' = meshEpoch
      PROVE  \A f \in Hellos' : Believable(f.epoch)'
    BY <1>3 DEF Believable
<1>4. CASE \E s \in Sockets : TakeHello(s) \/ TakeFrame(s) \/ LoseFrame(s)
    BY <1>0, <1>3, <1>4, ShorterWire DEF TakeHello, TakeFrame, LoseFrame, Listens
<1>5. CASE Dialled \/ \E t \in Threads : ChooseSocket(t) \/ PackFrame(t)
    BY <1>3, <1>5 DEF Dialled, ChooseSocket, PackFrame, Hellos, Carried
<1>6. CASE \E s \in Sockets : BreakSocket(s)
    <2>1. <<>> \in Seq(Frames) /\ \A j \in DOMAIN <<>> : FALSE
        OBVIOUS
    <2> QED
        BY <1>0, <1>3, <1>6, <2>1, OneWire DEF BreakSocket
<1>7. ASSUME NEW s \in Sockets, NEW r \in Sockets, RepeatFrame(s, r)
      PROVE  \A f \in Hellos' : Believable(f.epoch)'
    <2>1. wire[s] \in Seq(Frames) /\ wire[s] # <<>>
        BY <1>0, <1>7 DEF MeshTypeOK, RepeatFrame
    <2>2. Head(wire[s]) \in Frames /\ Carried(Head(wire[s]))
        BY <2>1, TailOf DEF Carried
    <2>3. wire' = [wire EXCEPT ![r] = Append(@, Head(wire[s]))] /\ meshEpoch' = meshEpoch
        BY <1>7 DEF RepeatFrame
    <2> QED
        BY <1>0, <1>3, <2>2, <2>3, LongerWire
<1>8. ASSUME NEW t \in Threads, WriteFrame(t)
      PROVE  \A f \in Hellos' : Believable(f.epoch)'
    <2> DEFINE g == SealedFrame(sender[t].frame, framesSent)
    <2>1. g \in Frames /\ g.kind = "frame"
        BY <1>0 DEF MeshTypeOK, Seals, SealedFrame, Frames
    <2> HIDE DEF g
    <2>2. meshEpoch' = meshEpoch
          /\ (wire' = wire \/ wire' = [wire EXCEPT ![sender[t].sock] = Append(@, g)])
        BY <1>8 DEF WriteFrame, g
    <2>3. CASE wire' = wire \/ sender[t].sock \notin Sockets
        <3>1. wire' = wire
            BY <1>0, <2>2, <2>3 DEF MeshTypeOK
        <3> QED
            BY <1>3, <2>2, <3>1 DEF Hellos, Carried
    <2> QED
        BY <1>0, <1>3, <2>1, <2>2, <2>3, LongerWire
<1> QED
    BY <1>1, <1>2, <1>4, <1>5, <1>6, <1>7, <1>8 DEF MeshNext

\* Who holds the lock, and which sockets there are.
LEMMA UsedIsKept == ASSUME MeshInv, Used, MeshNext PROVE Used'
<1>0. MeshTypeOK
    BY DEF MeshInv
<1>1. ASSUME NEW s \in Sockets, conn'[s].at = "closed", \A r \in Sockets \ {s} : conn'[r].at = conn[r].at,
             alive' = [alive EXCEPT ![s] = FALSE],
             UNCHANGED <<out, dialling, sender, socketLock>>
      PROVE  Used'
    <2>1. \A r \in Sockets : conn[r].at # "none" => conn'[r].at # "none"
        BY <1>1
    <2>2. \A r \in Sockets : alive'[r] <=> conn'[r].at \in {"unproved", "seated"}
        BY <1>0, <1>1 DEF MeshTypeOK, Used
    <2> QED
        BY <1>1, <2>1, <2>2 DEF Used
<1>2. ASSUME NEW s \in Sockets, Dial(s) PROVE Used'
    <2>1. conn' = [conn EXCEPT ![s].at = "unproved"] /\ alive' = [alive EXCEPT ![s] = TRUE]
          /\ dialling' = s /\ out' = NoSocket /\ UNCHANGED <<sender, socketLock>>
        BY <1>2 DEF Dial
    <2>2. conn'[s].at = "unproved" /\ \A r \in Sockets \ {s} : conn'[r].at = conn[r].at
        BY <1>0, <2>1, OneEnd
    <2>3. \A r \in Sockets : alive'[r] <=> conn'[r].at \in {"unproved", "seated"}
        BY <1>0, <2>1, <2>2 DEF MeshTypeOK, Used
    <2>4. \A r \in Sockets : conn[r].at # "none" => conn'[r].at # "none"
        BY <2>2
    <2>5. NoSocket \notin Sockets
        BY MeshAssumption
    <2> QED
        BY <2>1, <2>2, <2>3, <2>4, <2>5 DEF Used
<1>3. CASE Dialled
    BY <1>3, MeshAssumption DEF Dialled, Used
<1>4. CASE MeshTick \/ \E s, r \in Sockets : RepeatFrame(s, r)
    BY <1>4 DEF MeshTick, RepeatFrame, Used
<1>5. CASE \E s \in Sockets : LoseFrame(s)
    BY <1>5 DEF LoseFrame, Used
<1>6. ASSUME NEW t \in Threads, ChooseSocket(t) PROVE Used'
    <2>1. out \in Sockets /\ conn[out].at # "none"
        BY <1>0, <1>6 DEF ChooseSocket, MeshTypeOK, Used
    <2>2. sender' = [sender EXCEPT ![t] = [at |-> "chosen", sock |-> out,
                                           frame |-> [session |-> sealer.session, seq |-> sealer.seq + 1]]]
          /\ UNCHANGED <<out, dialling, socketLock, alive, conn>>
        BY <1>6 DEF ChooseSocket
    <2>3. sender'[t].at = "chosen" /\ sender'[t].sock = out /\ \A u \in Threads \ {t} : sender'[u] = sender[u]
        BY <1>0, <2>2 DEF MeshTypeOK
    <2> QED
        BY <2>1, <2>2, <2>3 DEF Used
<1>7. ASSUME NEW t \in Threads, PackFrame(t) PROVE Used'
    <2>1. sender' = [sender EXCEPT ![t].at = "packed", ![t].frame = Numbered(t)]
          /\ socketLock = NoThread /\ socketLock' = t /\ sender[t].at = "chosen"
          /\ UNCHANGED <<out, dialling, alive, conn>>
        BY <1>7 DEF PackFrame
    <2>2. sender'[t].sock = sender[t].sock /\ \A u \in Threads \ {t} : sender'[u] = sender[u]
        BY <1>0, <2>1 DEF MeshTypeOK
    <2>3. \A u \in Threads : sender[u].at # "packed"
        BY <2>1, MeshAssumption DEF Used
    <2> QED
        BY <2>1, <2>2, <2>3 DEF Used
<1>8. ASSUME NEW t \in Threads, WriteFrame(t) PROVE Used'
    <2>1. sender' = [sender EXCEPT ![t] = NotSending] /\ sender[t].at = "packed"
          /\ out' \in {out, NoSocket} /\ UNCHANGED <<dialling, alive, conn>>
        BY <1>8 DEF WriteFrame
    <2>2. sender'[t].at = "ready" /\ \A u \in Threads \ {t} : sender'[u] = sender[u]
        BY <1>0, <2>1 DEF MeshTypeOK, NotSending
    <2>3. \A u \in Threads \ {t} : sender[u].at # "packed"
        BY <2>1 DEF Used
    <2> QED
        BY <2>1, <2>2, <2>3, MeshAssumption DEF Used
<1>9. ASSUME NEW s \in Sockets, NEW honest, Refuse(s, honest), UNCHANGED <<out, dialling, sender, socketLock>>
      PROVE  Used'
    <2>1. conn' = [conn EXCEPT ![s].at = "closed"] /\ alive' = [alive EXCEPT ![s] = FALSE]
        BY <1>9 DEF Refuse
    <2>2. conn' \in [Sockets -> Ends] /\ conn'[s].at = "closed" /\ \A r \in Sockets \ {s} : conn'[r].at = conn[r].at
        BY <1>0, <2>1, OneEnd
    <2> QED
        BY <1>1, <1>9, <2>1, <2>2
<1>10. ASSUME NEW s \in Sockets, BreakSocket(s) PROVE Used'
    <2>1. conn' = [conn EXCEPT ![s].at = "closed"] /\ alive' = [alive EXCEPT ![s] = FALSE]
          /\ UNCHANGED <<out, dialling, sender, socketLock>>
        BY <1>10 DEF BreakSocket
    <2>2. conn' \in [Sockets -> Ends] /\ conn'[s].at = "closed" /\ \A r \in Sockets \ {s} : conn'[r].at = conn[r].at
        BY <1>0, <2>1, OneEnd
    <2> QED
        BY <1>1, <2>1, <2>2
<1>11. ASSUME NEW s \in Sockets, conn[s].at \in {"unproved", "seated"}, conn'[s].at = "seated",
              \A r \in Sockets \ {s} : conn'[r].at = conn[r].at,
              UNCHANGED <<out, dialling, sender, socketLock, alive>>
       PROVE  Used'
    <2>1. \A r \in Sockets : conn[r].at # "none" => conn'[r].at # "none"
        BY <1>11
    <2>2. \A r \in Sockets : alive'[r] <=> conn'[r].at \in {"unproved", "seated"}
        BY <1>11 DEF Used
    <2> QED
        BY <1>11, <2>1, <2>2 DEF Used
<1>12. ASSUME NEW s \in Sockets, TakeHello(s) \/ TakeFrame(s) PROVE Used'
    <2>1. UNCHANGED <<out, dialling, sender, socketLock>> /\ conn[s].at \in {"unproved", "seated"}
        BY <1>12 DEF TakeHello, TakeFrame, Listens
    <2>2. (\E honest \in {~WindowFull, TRUE} : Refuse(s, honest)) \/
          (alive' = alive /\
           \/ conn' = [conn EXCEPT ![s].at = "seated", ![s].session = Head(wire[s]).session, ![s].lastSeq = 0,
                                   ![s].opened = Append(@, Head(wire[s]).session)]
           \/ conn' = [conn EXCEPT ![s].lastSeq = Head(wire[s]).seq, ![s].taken = Append(@, Head(wire[s]))]
              /\ conn[s].at = "seated")
        BY <1>12 DEF TakeHello, TakeFrame
    <2>3. conn \in [Sockets -> Ends]
        BY <1>0 DEF MeshTypeOK
    <2>4. CASE conn' = [conn EXCEPT ![s].at = "seated", ![s].session = Head(wire[s]).session, ![s].lastSeq = 0,
                                    ![s].opened = Append(@, Head(wire[s]).session)] /\ alive' = alive
        BY <1>11, <2>1, <2>3, <2>4 DEF Ends
    <2>5. CASE conn' = [conn EXCEPT ![s].lastSeq = Head(wire[s]).seq, ![s].taken = Append(@, Head(wire[s]))]
               /\ conn[s].at = "seated" /\ alive' = alive
        BY <1>11, <2>1, <2>3, <2>5 DEF Ends
    <2> QED
        BY <1>9, <2>1, <2>2, <2>4, <2>5
<1> QED
    BY <1>2, <1>3, <1>4, <1>5, <1>6, <1>7, <1>8, <1>10, <1>12 DEF MeshNext

\* A packed frame is the only one, and a connection that carries is the one in use.
LEMMA OrderlyFacts ==
    ASSUME HonestInv, pathFaults = 0, ~droppedAlive
    PROVE  /\ Orderly
           /\ \A s \in Sockets : /\ wire[s] \in Seq(Frames)
                                 /\ \A i \in DOMAIN wire[s] : i \in Nat /\ wire[s][i] \in Frames /\ wire[s][i].seq \in Nat
                                 /\ conn[s].lastSeq \in Nat
           /\ sealer.seq \in Nat
           /\ \A t \in Threads : sender[t].frame.seq \in Nat
<1>1. MeshTypeOK /\ Orderly
    BY DEF HonestInv, MeshInv
<1>2. ASSUME NEW s \in Sockets
      PROVE  /\ wire[s] \in Seq(Frames)
             /\ \A i \in DOMAIN wire[s] : i \in Nat /\ wire[s][i] \in Frames /\ wire[s][i].seq \in Nat
             /\ conn[s].lastSeq \in Nat
    <2>1. wire[s] \in Seq(Frames) /\ conn[s] \in Ends
        BY <1>1 DEF MeshTypeOK
    <2>2. \A i \in DOMAIN wire[s] : i \in Nat /\ wire[s][i] \in Frames
        BY <2>1
    <2> QED
        BY <2>1, <2>2 DEF Ends, Frames
<1>3. sealer.seq \in Nat
    BY <1>1 DEF MeshTypeOK, Seals
<1>4. \A t \in Threads : sender[t].frame.seq \in Nat
    BY <1>1 DEF MeshTypeOK, Seals
<1> QED
    BY <1>1, <1>2, <1>3, <1>4

LEMMA DialIsOrderly == ASSUME HonestInv, Orderly, NEW s \in Sockets, Dial(s) PROVE Orderly'
<1> DEFINE h == HelloFrame(s, meshEpoch)
<1>0. MeshTypeOK /\ Used
    BY DEF HonestInv, MeshInv
<1>1. /\ out = NoSocket /\ dialling = NoSocket /\ conn[s].at = "none" /\ UNCHANGED <<sender, nonces, out>>
      /\ dialling' = s /\ sealer' = [session |-> s, seq |-> 0]
      /\ wire' = [wire EXCEPT ![s] = <<h>>] /\ alive' = [alive EXCEPT ![s] = TRUE]
      /\ conn' = [conn EXCEPT ![s].at = "unproved"]
    BY DEF Dial
<1>2. h.kind = "hello" /\ h.session = s /\ h.seq = 0
    BY DEF HelloFrame
<1> HIDE DEF h
<1>3. \A r \in Sockets : ~alive[r]
    BY <1>1, MeshAssumption DEF Orderly
<1>4. wire'[s] = <<h>> /\ conn'[s].at = "unproved" /\ \A r \in Sockets \ {s} : ~alive'[r]
    BY <1>0, <1>1, <1>3, OneEnd DEF MeshTypeOK
<1>5. ~Remembered(s)'
    BY <1>1 DEF HonestInv, MeshInv, NoncesAreOfHellos, Remembered
<1>6. InOrder(s)'
    <2>1. DOMAIN <<h>> = {1} /\ <<h>>[1] = h /\ <<h>> # <<>>
        OBVIOUS
    <2> QED
        BY <1>1, <1>2, <1>4, <1>5, <2>1 DEF InOrder
<1>7. \A t \in Threads : sender'[t].at = "packed" => ~alive'[sender'[t].sock]
    BY <1>0, <1>1, <1>4 DEF Used
<1> QED
    BY <1>1, <1>4, <1>6, <1>7 DEF Orderly

\* What is on a wire stays in order when the step leaves it, its end and the sealer alone.
LEMMA SameOrder ==
    ASSUME NEW s \in Sockets, wire' = wire, conn' = conn, nonces' = nonces, sealer' = sealer
    PROVE  InOrder(s) => InOrder(s)'
BY DEF InOrder, Remembered

LEMMA ClosingIsOrderly ==
    ASSUME HonestInv, Orderly, NEW s \in Sockets, alive[s], alive' = [alive EXCEPT ![s] = FALSE],
           UNCHANGED sender
    PROVE  Orderly'
<1>0. alive \in [Sockets -> BOOLEAN] /\ Used
    BY DEF HonestInv, MeshInv, MeshTypeOK
<1>1. \A r \in Sockets : ~alive'[r]
    BY <1>0 DEF Orderly
<1>2. \A t \in Threads : sender[t].at = "packed" => sender[t].sock \in Sockets
    BY <1>0 DEF Used
<1> QED
    BY <1>1, <1>2 DEF Orderly

LEMMA SendingIsOrderly ==
    ASSUME HonestInv, pathFaults = 0, ~droppedAlive, ~droppedAlive',
           Dialled \/ MeshTick \/ \E t \in Threads : ChooseSocket(t) \/ PackFrame(t) \/ WriteFrame(t)
    PROVE  Orderly'
<1>0. MeshTypeOK /\ Used /\ Orderly
    BY OrderlyFacts DEF HonestInv, MeshInv
<1>1. CASE Dialled
    <2>1. UNCHANGED <<sealer, sender, wire, alive, conn, nonces>> /\ out' = dialling /\ dialling # NoSocket
        BY <1>1 DEF Dialled
    <2>2. out = NoSocket
        BY <1>0, <2>1 DEF Used
    <2>3. \A s \in Sockets : alive'[s] => s = sealer'.session /\ s \in {out', dialling'} /\ InOrder(s)'
        BY <1>0, <2>1, <2>2, SameOrder, MeshAssumption DEF Orderly
    <2>4. \A s, seal : IsNext(s, seal) => IsNext(s, seal)'
        BY <2>1 DEF IsNext
    <2> QED
        BY <1>0, <2>1, <2>3, <2>4 DEF Orderly
<1>2. CASE MeshTick
    <2>1. UNCHANGED <<out, dialling, sealer, sender, wire, alive, conn, nonces>>
        BY <1>2 DEF MeshTick
    <2>2. \A s, seal : IsNext(s, seal) => IsNext(s, seal)'
        BY <2>1 DEF IsNext
    <2> QED
        BY <1>0, <2>1, <2>2, SameOrder DEF Orderly
<1>3. ASSUME NEW t \in Threads, ChooseSocket(t) PROVE Orderly'
    <2>1. UNCHANGED <<out, dialling, sealer, wire, alive, conn, nonces>>
          /\ sender' = [sender EXCEPT ![t] = [at |-> "chosen", sock |-> out,
                                 frame |-> [session |-> sealer.session, seq |-> sealer.seq + 1]]]
        BY <1>3 DEF ChooseSocket
    <2>2. sender'[t].at = "chosen" /\ \A u \in Threads \ {t} : sender'[u] = sender[u]
        BY <1>0, <2>1 DEF MeshTypeOK
    <2>3. \A s, seal : IsNext(s, seal) => IsNext(s, seal)'
        BY <2>1 DEF IsNext
    <2> QED
        BY <1>0, <2>1, <2>2, <2>3, SameOrder DEF Orderly
<1>4. ASSUME NEW t \in Threads, PackFrame(t) PROVE Orderly'
    <2>1. /\ UNCHANGED <<out, dialling, wire, alive, conn, nonces>> /\ socketLock = NoThread
          /\ sender' = [sender EXCEPT ![t].at = "packed", ![t].frame = Numbered(t)]
          /\ sealer' = [sealer EXCEPT !.seq = @ + 1] /\ sender[t].at = "chosen"
        BY <1>4 DEF PackFrame
    <2>2. /\ sender'[t].sock = sender[t].sock /\ sender'[t].frame = Numbered(t)
          /\ \A u \in Threads \ {t} : sender'[u] = sender[u]
        BY <1>0, <2>1 DEF MeshTypeOK
    <2>3. \A u \in Threads : sender[u].at # "packed"
        BY <1>0, <2>1, MeshAssumption DEF Used
    <2>4. sealer'.session = sealer.session /\ sealer'.seq = sealer.seq + 1 /\ sealer.seq \in Nat
        BY <1>0, <2>1 DEF MeshTypeOK, Seals
    <2> PICK seal : seal = Numbered(t)
        OBVIOUS
    <2>5. ASSUME NEW s \in Sockets, alive[s]
          PROVE  InOrder(s)' /\ IsNext(s, seal)'
        <3>1. InOrder(s) /\ s = sealer.session
            BY <1>0, <2>5 DEF Orderly
        <3>2. /\ \A i \in DOMAIN wire[s] : wire[s][i].seq \in Nat
              /\ conn[s].lastSeq \in Nat
            BY OrderlyFacts
        <3>3. Remembered(s)' <=> Remembered(s)
            BY <2>1 DEF Remembered
        <3>4. InOrder(s)'
            BY <2>1, <2>4, <3>1, <3>2, <3>3 DEF InOrder
        <3>5. seal.session = s /\ seal.seq = sealer'.seq /\ seal.seq = sealer.seq + 1
            BY <2>4, <3>1 DEF Numbered
        <3>6. \A i \in DOMAIN wire[s] : wire[s][i].seq <= sealer.seq
            BY <3>1 DEF InOrder
        <3>7. conn[s].at = "seated" => conn[s].lastSeq <= sealer.seq
            BY <3>1 DEF InOrder
        <3>8. /\ seal.session = s /\ seal.seq <= sealer'.seq
              /\ \A i \in DOMAIN wire'[s] : wire'[s][i].seq < seal.seq
              /\ conn'[s].at = "seated" => conn'[s].lastSeq < seal.seq
            BY <2>1, <2>4, <3>2, <3>5, <3>6, <3>7
        <3> QED
            BY <3>4, <3>8 DEF IsNext
    <2>6. \A u \in Threads : sender'[u].at = "packed" => u = t
        BY <2>2, <2>3
    <2>7. sender'[t].sock \in Sockets /\ sender'[t].frame = seal
        BY <1>0, <2>1, <2>2 DEF Used
    <2> QED
        BY <1>0, <2>1, <2>4, <2>5, <2>6, <2>7 DEF Orderly
<1>5. ASSUME NEW t \in Threads, WriteFrame(t) PROVE Orderly'
    <2> PICK k : k = sender[t].sock
        OBVIOUS
    <2> PICK g : g = SealedFrame(sender[t].frame, framesSent)
        OBVIOUS
    <2>1. /\ sender' = [sender EXCEPT ![t] = NotSending] /\ sender[t].at = "packed"
          /\ UNCHANGED <<dialling, sealer, alive, conn, nonces>>
        BY <1>5 DEF WriteFrame
    <2>2. sender'[t].at = "ready" /\ \A u \in Threads \ {t} : sender'[u] = sender[u]
        BY <1>0, <2>1 DEF MeshTypeOK, NotSending
    <2>3. \A u \in Threads : sender'[u].at # "packed"
        BY <1>0, <2>1, <2>2 DEF Used
    <2>4. k \in Sockets
        BY <1>0, <2>1 DEF Used
    <2>5. g.kind = "frame" /\ g.session = sender[t].frame.session /\ g.seq = sender[t].frame.seq /\ g \in Frames
        BY <1>0 DEF MeshTypeOK, Seals, SealedFrame, Frames
    <2>6. CASE ~alive[k]
        <3>1. out' = NoSocket /\ wire' = wire /\ ~(out # NoSocket /\ alive[out])
            BY <1>5, <2>6 DEF WriteFrame
        <3>2. \A s \in Sockets : alive[s] => s = dialling
            BY <1>0, <3>1, MeshAssumption DEF Orderly
        <3> QED
            BY <1>0, <2>1, <2>3, <3>1, <3>2, SameOrder DEF Orderly
    <2>7. CASE alive[k]
        <3>1. out' = out /\ wire' = [wire EXCEPT ![k] = Append(@, g)]
            BY <1>5, <2>7 DEF WriteFrame
        <3>2. \A s \in Sockets : alive[s] => s = k
            BY <1>0, <2>4, <2>7 DEF Orderly
        <3>3. InOrder(k) /\ IsNext(k, sender[t].frame)
            BY <1>0, <2>1, <2>4, <2>7 DEF Orderly
        <3>4. wire[k] \in Seq(Frames) /\ \A i \in DOMAIN wire[k] : i \in Nat /\ wire[k][i].seq \in Nat
            BY <2>4, OrderlyFacts
        <3> DEFINE q == Append(wire[k], g)
                   n == Len(wire[k]) + 1
        <3>5. /\ DOMAIN q = DOMAIN wire[k] \cup {n} /\ q[n] = g
              /\ \A i \in DOMAIN wire[k] : q[i] = wire[k][i] /\ i < n
              /\ n \in Nat /\ (wire[k] # <<>> => n # 1)
            BY <2>5, <3>4, Appended
        <3> HIDE DEF q, n
        <3>6. wire'[k] = q
            BY <1>0, <2>4, <3>1 DEF MeshTypeOK, q
        <3>7. q # <<>>
            BY <3>5
        <3>8. Remembered(k)' <=> Remembered(k)
            BY <2>1 DEF Remembered
        <3>9. g.session = k /\ g.seq <= sealer.seq /\ (\A i \in DOMAIN wire[k] : wire[k][i].seq < g.seq)
              /\ (conn[k].at = "seated" => conn[k].lastSeq < g.seq)
            BY <2>5, <3>3 DEF IsNext
        <3>10. \A i \in DOMAIN q : /\ q[i].kind = "hello" <=> conn[k].at = "unproved" /\ i = 1
                                   /\ q[i].session = k /\ q[i].seq <= sealer.seq
            BY <2>5, <3>3, <3>5, <3>9 DEF InOrder
        <3>11. \A i, j \in DOMAIN q : i < j => q[i].seq < q[j].seq
            <4> SUFFICES ASSUME NEW i \in DOMAIN q, NEW j \in DOMAIN q, i < j PROVE q[i].seq < q[j].seq
                OBVIOUS
            <4>1. i \in DOMAIN wire[k]
                <5>1. j \in Nat /\ j <= n
                    BY <3>4, <3>5
                <5>2. i # n
                    BY <3>5, <5>1
                <5> QED
                    BY <3>5, <5>2
            <4>2. CASE j = n
                BY <3>5, <3>9, <4>1, <4>2
            <4>3. CASE j \in DOMAIN wire[k]
                BY <3>3, <3>5, <4>1, <4>3 DEF InOrder
            <4> QED
                BY <3>5, <4>2, <4>3
        <3>12. conn[k].at = "seated" =>
                   /\ conn[k].session = k /\ conn[k].lastSeq <= sealer.seq
                   /\ \A i \in DOMAIN q : conn[k].lastSeq < q[i].seq
            BY <3>3, <3>5, <3>9 DEF InOrder
        <3>13. InOrder(k)'
            BY <2>1, <3>3, <3>6, <3>7, <3>8, <3>10, <3>11, <3>12 DEF InOrder
        <3> QED
            BY <1>0, <2>1, <2>3, <3>1, <3>2, <3>13 DEF Orderly
    <2> QED
        BY <1>0, <2>4, <2>6, <2>7 DEF MeshTypeOK
<1> QED
    BY <1>1, <1>2, <1>3, <1>4, <1>5

\* The hello of a connection that carries is believed, and so is every frame after it.
LEMMA TakingIsOrderly ==
    ASSUME HonestInv, pathFaults = 0, ~droppedAlive, NEW s \in Sockets, TakeHello(s) \/ TakeFrame(s)
    PROVE  Orderly' /\ refusedHonest' = refusedHonest
<1> PICK frame : frame = Head(wire[s])
    OBVIOUS
<1>0. MeshTypeOK /\ Used /\ Orderly
    BY OrderlyFacts DEF HonestInv, MeshInv
<1>1. /\ conn[s].at \in {"unproved", "seated"} /\ wire[s] # <<>>
      /\ wire' = [wire EXCEPT ![s] = Tail(@)]
      /\ UNCHANGED <<out, dialling, sealer, sender, pathFaults, meshEpoch>>
    BY DEF TakeHello, TakeFrame, Listens
<1>2. alive[s] /\ InOrder(s) /\ \A r \in Sockets : alive[r] => r = s
    BY <1>0, <1>1 DEF Used, Orderly
<1>3. /\ wire[s] \in Seq(Frames)
      /\ \A i \in DOMAIN wire[s] : i \in Nat /\ wire[s][i] \in Frames /\ wire[s][i].seq \in Nat
      /\ conn[s].lastSeq \in Nat /\ sealer.seq \in Nat
    BY OrderlyFacts
<1>4. /\ frame = wire[s][1] /\ 1 \in DOMAIN wire[s] /\ frame \in Frames /\ frame.seq \in Nat
      /\ Tail(wire[s]) \in Seq(Frames)
      /\ \A i \in DOMAIN Tail(wire[s]) : i \in Nat /\ i + 1 \in DOMAIN wire[s] /\ i + 1 # 1 /\ 1 < i + 1
                                         /\ Tail(wire[s])[i] = wire[s][i + 1]
    BY <1>1, <1>3, TailOf
<1>5. wire'[s] = Tail(wire[s])
    BY <1>0, <1>1 DEF MeshTypeOK
<1>6. frame.session = s /\ (frame.kind = "hello" <=> conn[s].at = "unproved") /\ frame.seq <= sealer.seq
      /\ \A i \in DOMAIN Tail(wire[s]) : /\ Tail(wire[s])[i].kind # "hello" /\ Tail(wire[s])[i].session = s
                                         /\ Tail(wire[s])[i].seq <= sealer.seq
                                         /\ frame.seq < Tail(wire[s])[i].seq
    BY <1>2, <1>4 DEF InOrder
<1>7. \A i, j \in DOMAIN Tail(wire[s]) : i < j => Tail(wire[s])[i].seq < Tail(wire[s])[j].seq
    <2> SUFFICES ASSUME NEW i \in DOMAIN Tail(wire[s]), NEW j \in DOMAIN Tail(wire[s]), i < j
                 PROVE  Tail(wire[s])[i].seq < Tail(wire[s])[j].seq
        OBVIOUS
    <2>1. i + 1 < j + 1
        BY <1>4
    <2> QED
        BY <1>2, <1>4, <2>1 DEF InOrder
<1>8. frame.kind = "hello" => HelloHolds(frame)
    <2> SUFFICES ASSUME frame.kind = "hello" PROVE HelloHolds(frame)
        OBVIOUS
    <2>1. frame \in Hellos
        BY <1>4 DEF Hellos, Carried
    <2>2. frame.epoch >= meshEpoch - EpochSlack /\ frame.epoch <= meshEpoch
        BY <2>1 DEF HonestInv, MeshInv, HellosAreAsked, Believable
    <2>3. frame.epoch \in Nat /\ meshEpoch \in Nat
        BY <1>0, <1>4 DEF MeshTypeOK, Frames
    <2>4. ~Remembered(s)
        BY <1>2, <1>6 DEF InOrder
    <2> QED
        BY <1>6, <2>2, <2>3, <2>4, MeshAssumption DEF HelloHolds, Remembered
<1>9. frame.kind # "hello" => conn[s].at = "seated" /\ SealHolds(s, frame)
    BY <1>1, <1>2, <1>4, <1>6 DEF InOrder, SealHolds
<1>10. CASE Refuse(s, ~WindowFull) /\ WindowFull
    <2>1. alive' = [alive EXCEPT ![s] = FALSE]
          /\ refusedHonest' = (refusedHonest \/ (Tamed /\ ~WindowFull))
        BY <1>10 DEF Refuse
    <2>2. refusedHonest' = refusedHonest
        BY <1>10, <2>1 DEF HonestInv, Flags
    <2>3. Orderly'
        BY <1>0, <1>1, <1>2, <2>1, ClosingIsOrderly
    <2> QED
        BY <2>2, <2>3
<1>11. ASSUME conn'[s].at = "seated", conn'[s].session = s, conn'[s].lastSeq = 0 \/ conn'[s].lastSeq = frame.seq,
              alive' = alive, refusedHonest' = refusedHonest
       PROVE  Orderly' /\ refusedHonest' = refusedHonest
    <2>1. \A i \in DOMAIN wire'[s] : conn'[s].lastSeq < wire'[s][i].seq
        BY <1>3, <1>4, <1>5, <1>6, <1>11
    <2>2. InOrder(s)'
        <3>1. \A i \in DOMAIN wire'[s] :
                  /\ wire'[s][i].kind = "hello" <=> conn'[s].at = "unproved" /\ i = 1
                  /\ wire'[s][i].session = s /\ wire'[s][i].seq <= sealer'.seq
            BY <1>1, <1>5, <1>6, <1>11
        <3>2. \A i, j \in DOMAIN wire'[s] : i < j => wire'[s][i].seq < wire'[s][j].seq
            BY <1>5, <1>7
        <3>3. conn'[s].lastSeq <= sealer'.seq /\ conn'[s].at # "unproved"
            BY <1>1, <1>3, <1>6, <1>11
        <3> QED
            BY <1>11, <2>1, <3>1, <3>2, <3>3 DEF InOrder
    <2>3. ASSUME NEW t \in Threads, sender[t].at = "packed", alive[sender[t].sock]
          PROVE  IsNext(sender[t].sock, sender[t].frame)'
        <3>1. sender[t].sock = s
            BY <1>0, <1>2, <2>3 DEF Used
        <3>2. IsNext(s, sender[t].frame) /\ sender[t].frame.seq \in Nat
            BY <1>0, <2>3, <3>1, OrderlyFacts DEF Orderly
        <3>3. frame.seq < sender[t].frame.seq /\ 0 < sender[t].frame.seq
              /\ \A i \in DOMAIN Tail(wire[s]) : Tail(wire[s])[i].seq < sender[t].frame.seq
            BY <1>4, <3>2 DEF IsNext
        <3> QED
            BY <1>1, <1>5, <1>11, <3>1, <3>2, <3>3 DEF IsNext
    <2> QED
        BY <1>0, <1>1, <1>2, <1>11, <2>2, <2>3 DEF Orderly
<1>12. CASE conn' = [conn EXCEPT ![s].at = "seated", ![s].session = frame.session, ![s].lastSeq = 0,
                                 ![s].opened = Append(@, frame.session)]
            /\ UNCHANGED <<alive, refusedHonest>>
    <2>1. conn \in [Sockets -> Ends]
        BY <1>0 DEF MeshTypeOK
    <2>2. conn'[s].at = "seated" /\ conn'[s].session = frame.session /\ conn'[s].lastSeq = 0
        BY <1>12, <2>1 DEF Ends
    <2> QED
        BY <1>6, <1>11, <1>12, <2>2
<1>13. CASE conn' = [conn EXCEPT ![s].lastSeq = frame.seq, ![s].taken = Append(@, frame)]
            /\ UNCHANGED <<alive, refusedHonest>> /\ conn[s].at = "seated"
    <2>1. conn \in [Sockets -> Ends]
        BY <1>0 DEF MeshTypeOK
    <2>2. conn'[s].at = conn[s].at /\ conn'[s].session = conn[s].session /\ conn'[s].lastSeq = frame.seq
        BY <1>13, <2>1 DEF Ends
    <2>3. conn[s].session = s
        BY <1>2, <1>13 DEF InOrder
    <2> QED
        BY <1>11, <1>13, <2>2, <2>3
<1> QED
    BY <1>8, <1>9, <1>10, <1>12, <1>13 DEF TakeHello, TakeFrame

LEMMA HonestStep == ASSUME HonestInv, MeshNext PROVE HonestInv'
<1>1. MeshInv' /\ Used' /\ \A f \in Hellos' : Believable(f.epoch)'
    BY MeshStep, UsedIsKept, HellosAreBelieved DEF HonestInv
<1>2. pathFaults \in Nat /\ droppedAlive \in BOOLEAN /\ refusedHonest \in BOOLEAN
    BY DEF HonestInv, Flags
<1>3. ASSUME droppedAlive' = droppedAlive, pathFaults' = pathFaults, refusedHonest' = refusedHonest,
             pathFaults = 0 /\ ~droppedAlive => Orderly'
      PROVE  HonestInv'
    BY <1>1, <1>2, <1>3 DEF HonestInv, Flags, HonestFramesAreTaken
<1>4. CASE \E s \in Sockets : Dial(s)
    <2>1. UNCHANGED <<droppedAlive, pathFaults, refusedHonest>>
        BY <1>4 DEF Dial
    <2> QED
        BY <1>3, <1>4, <2>1, DialIsOrderly, OrderlyFacts
<1>5. CASE Dialled \/ MeshTick \/ \E t \in Threads : ChooseSocket(t) \/ PackFrame(t)
    <2>1. UNCHANGED <<droppedAlive, pathFaults, refusedHonest>>
        BY <1>5 DEF Dialled, MeshTick, ChooseSocket, PackFrame
    <2> QED
        BY <1>3, <1>5, <2>1, SendingIsOrderly
<1>6. CASE \E t \in Threads : WriteFrame(t)
    <2>1. UNCHANGED <<pathFaults, refusedHonest>> /\ droppedAlive' \in BOOLEAN
          /\ (droppedAlive => droppedAlive')
        BY <1>2, <1>6 DEF WriteFrame
    <2>2. pathFaults = 0 /\ ~droppedAlive' => Orderly'
        BY <1>6, <2>1, SendingIsOrderly
    <2> QED
        BY <1>1, <1>2, <2>1, <2>2 DEF HonestInv, Flags, HonestFramesAreTaken
<1>7. CASE \E s \in Sockets : LoseFrame(s) \/ \E r \in Sockets : RepeatFrame(s, r)
    <2>1. UNCHANGED <<droppedAlive, refusedHonest>> /\ pathFaults' = pathFaults + 1
        BY <1>7 DEF LoseFrame, RepeatFrame, Meddles
    <2> QED
        BY <1>1, <1>2, <2>1 DEF HonestInv, Flags, HonestFramesAreTaken
<1>8. CASE \E s \in Sockets : BreakSocket(s)
    <2>1. PICK s \in Sockets : BreakSocket(s)
        BY <1>8
    <2>2. UNCHANGED <<droppedAlive, pathFaults, refusedHonest, sender>> /\ alive[s]
          /\ alive' = [alive EXCEPT ![s] = FALSE]
        BY <2>1 DEF BreakSocket
    <2> QED
        BY <1>3, <2>2, ClosingIsOrderly, OrderlyFacts
<1>9. ASSUME NEW s \in Sockets, TakeHello(s) \/ TakeFrame(s)
      PROVE  HonestInv'
    <2>1. UNCHANGED <<droppedAlive, pathFaults>>
        BY <1>9 DEF TakeHello, TakeFrame
    <2>2. CASE pathFaults = 0 /\ ~droppedAlive
        BY <1>3, <1>9, <2>1, <2>2, TakingIsOrderly
    <2>3. CASE ~(pathFaults = 0 /\ ~droppedAlive)
        <3>1. refusedHonest' \in BOOLEAN /\ (refusedHonest' => refusedHonest \/ pathFaults = 0)
            BY <1>2, <1>9 DEF TakeHello, TakeFrame, Refuse, Tamed
        <3> QED
            BY <1>1, <1>2, <2>1, <2>3, <3>1 DEF HonestInv, Flags, HonestFramesAreTaken
    <2> QED
        BY <2>2, <2>3
<1> QED
    BY <1>4, <1>5, <1>6, <1>7, <1>8, <1>9 DEF MeshNext

\* HonestFramesAreTaken over any number of reconnections: packing under the lock is enough,
\* but for the write that fails late.
THEOREM HonestFramesPass == MeshSpec => []HonestFramesAreTaken
<1>1. MeshInit => HonestInv
    <2> SUFFICES ASSUME MeshInit PROVE HonestInv
        OBVIOUS
    <2>1. /\ \A s \in Sockets : wire[s] = <<>> /\ conn[s].at = "none" /\ ~alive[s]
          /\ \A t \in Threads : sender[t].at = "ready"
          /\ out = NoSocket /\ dialling = NoSocket
          /\ pathFaults = 0 /\ refusedHonest = FALSE /\ droppedAlive = FALSE
        BY DEF MeshInit, NotSending
    <2>2. Hellos = {}
        BY <2>1 DEF Hellos, Carried
    <2> QED
        BY <2>1, <2>2, MeshAtFirst, MeshAssumption
        DEF HonestInv, Flags, Used, Orderly, HonestFramesAreTaken
<1>2. HonestInv /\ [MeshNext]_meshVars => HonestInv'
    <2> SUFFICES ASSUME HonestInv, UNCHANGED meshVars PROVE HonestInv'
        BY HonestStep
    <2>1. MeshInv'
        BY MeshStep DEF HonestInv
    <2>2. UNCHANGED <<out, dialling, sealer, sender, socketLock, wire, alive, conn, nonces, meshEpoch,
                      pathFaults, refusedHonest, droppedAlive>>
        BY DEF meshVars
    <2>3. (\A s \in Sockets : InOrder(s) => InOrder(s)') /\ \A s, seal : IsNext(s, seal) => IsNext(s, seal)'
        BY <2>2, SameOrder DEF IsNext
    <2>4. Hellos' = Hellos /\ \A e : Believable(e)' <=> Believable(e)
        BY <2>2 DEF Hellos, Carried, Believable
    <2>5. Orderly => Orderly'
        BY <2>2, <2>3 DEF Orderly
    <2> QED
        BY <2>1, <2>2, <2>4, <2>5 DEF HonestInv, Flags, Used, HonestFramesAreTaken
<1>3. HonestInv => HonestFramesAreTaken
    BY DEF HonestInv
<1> QED
    BY <1>1, <1>2, <1>3, PTL DEF MeshSpec

-----------------------------------------------------------------------------
(***************************************************************************)
(* Why the gate's counts are the sockets that are open: each connection is   *)
(* counted when it opens and uncounted once, by whichever exit it takes.     *)
(***************************************************************************)
Connections == [at : {"unopened", "open", "closed"}, address : Addresses \cup {"none"},
                last : Int, partialSince : Int]

GateTypeOK ==
    /\ gateNow \in Int /\ link \in [Links -> Connections]
    /\ \A l \in OpenLinks : link[l].address \in Addresses

GateInv == GateTypeOK /\ SocketsAreCounted

OpenAt(a) == {l \in OpenLinks : link[l].address = a}

LEMMA OpenLinksAreFinite == IsFiniteSet(OpenLinks) /\ \A a : IsFiniteSet(OpenAt(a))
<1>1. OpenLinks \in SUBSET Links /\ \A a : OpenAt(a) \in SUBSET Links
    BY DEF OpenLinks, OpenAt
<1> QED
    BY <1>1, LinksAreBounded, FS_Subset

LEMMA CountedByAddress ==
    /\ SocketsAreCounted <=> /\ gateTotal = Cardinality(OpenLinks)
                             /\ \A a \in Addresses : HeldBy(a) = Cardinality(OpenAt(a))
    /\ SocketsAreCounted' <=> /\ gateTotal' = Cardinality(OpenLinks')
                              /\ \A a \in Addresses : HeldBy(a)' = Cardinality(OpenAt(a)')
BY DEF SocketsAreCounted, OpenAt

LEMMA OneLess == ASSUME NEW k \in Nat PROVE Max({0, k}) = k
<1>1. \A y \in {0, k} : k >= y
    OBVIOUS
<1>2. \A x \in {0, k} : (\A y \in {0, k} : x >= y) => x = k
    OBVIOUS
<1> QED
    BY <1>1, <1>2 DEF Max

\* A connection that is neither opened nor closed changes no count.
LEMMA SameSockets ==
    ASSUME GateInv, UNCHANGED <<holding, gateTotal>>, gateNow' \in Int, link' \in [Links -> Connections],
           \A l \in Links : link'[l].at = link[l].at /\ link'[l].address = link[l].address
    PROVE  GateInv'
<1>1. OpenLinks' = OpenLinks /\ \A a : OpenAt(a)' = OpenAt(a)
    BY DEF OpenLinks, OpenAt
<1>2. \A a : HeldBy(a)' = HeldBy(a)
    BY DEF HeldBy
<1>3. SocketsAreCounted'
    BY <1>1, <1>2, CountedByAddress DEF GateInv
<1>4. GateTypeOK'
    BY <1>1 DEF GateInv, GateTypeOK, OpenLinks
<1> QED
    BY <1>3, <1>4 DEF GateInv

LEMMA AdmittedIsCounted ==
    ASSUME GateInv, NEW l \in Links, NEW a \in Addresses, Admit(l, a)
    PROVE  GateInv'
<1>1. link' \in [Links -> Connections] /\ gateNow' \in Int
    BY DEF GateInv, GateTypeOK, Admit, Connections, Never
<1>2. l \notin OpenLinks /\ OpenLinks' = OpenLinks \cup {l}
    BY DEF GateInv, GateTypeOK, Admit, OpenLinks, Connections
<1>3. /\ link'[l].address = a /\ \A k \in Links \ {l} : link'[k] = link[k]
    BY DEF GateInv, GateTypeOK, Admit
<1>4. OpenAt(a)' = OpenAt(a) \cup {l} /\ \A b \in Addresses \ {a} : OpenAt(b)' = OpenAt(b)
    BY <1>2, <1>3 DEF OpenAt, OpenLinks
<1>5. Cardinality(OpenLinks') = Cardinality(OpenLinks) + 1
    BY <1>2, OpenLinksAreFinite, FS_AddElement
<1>6. Cardinality(OpenAt(a)') = Cardinality(OpenAt(a)) + 1
    <2>1. l \notin OpenAt(a)
        BY <1>2 DEF OpenAt
    <2> QED
        BY <1>4, <2>1, OpenLinksAreFinite, FS_AddElement
<1>7. HeldBy(a)' = HeldBy(a) + 1 /\ \A b \in Addresses \ {a} : HeldBy(b)' = HeldBy(b)
    <2>1. holding' = [b \in DOMAIN holding \cup {a} |-> IF b = a THEN HeldBy(a) + 1 ELSE holding[b]]
        BY DEF Admit
    <2>2. a \in DOMAIN holding' /\ holding'[a] = HeldBy(a) + 1
        BY <2>1
    <2>3. \A b \in Addresses \ {a} :
            /\ b \in DOMAIN holding' <=> b \in DOMAIN holding
            /\ b \in DOMAIN holding => holding'[b] = holding[b]
        BY <2>1
    <2> QED
        BY <2>2, <2>3 DEF HeldBy
<1>8. SocketsAreCounted'
    BY <1>4, <1>5, <1>6, <1>7, CountedByAddress DEF GateInv, Admit
<1> QED
    BY <1>1, <1>2, <1>3, <1>8 DEF GateInv, GateTypeOK, OpenLinks

LEMMA ReleasedIsUncounted ==
    ASSUME GateInv, NEW l \in Links, link[l].at = "open", Release(l), gateNow' = gateNow
    PROVE  GateInv'
<1>0. PICK a : a = link[l].address
    OBVIOUS
<1>1. link' \in [Links -> Connections] /\ gateNow' \in Int
    BY DEF GateInv, GateTypeOK, Release, Connections
<1>2. l \in OpenLinks /\ OpenLinks' = OpenLinks \ {l} /\ a \in Addresses
    BY <1>0 DEF GateInv, GateTypeOK, Release, OpenLinks, Connections
<1>3. \A k \in Links : link'[k].address = link[k].address
    BY DEF GateInv, GateTypeOK, Release, Connections
<1>4. l \in OpenAt(a) /\ OpenAt(a)' = OpenAt(a) \ {l} /\ \A b \in Addresses \ {a} : OpenAt(b)' = OpenAt(b)
    BY <1>0, <1>2, <1>3 DEF OpenAt, OpenLinks
<1>5. Cardinality(OpenLinks') = Cardinality(OpenLinks) - 1
    BY <1>2, OpenLinksAreFinite, FS_RemoveElement
<1>6. Cardinality(OpenAt(a)') = Cardinality(OpenAt(a)) - 1
    BY <1>4, OpenLinksAreFinite, FS_RemoveElement
<1>7. Cardinality(OpenLinks) - 1 \in Nat /\ Cardinality(OpenAt(a)) - 1 \in Nat
    <2>1. OpenLinks # {} /\ OpenAt(a) # {}
        BY <1>2, <1>4
    <2> QED
        BY <2>1, OpenLinksAreFinite, FS_CardinalityType, FS_EmptySet
<1>8. HeldBy(a) = Cardinality(OpenAt(a)) /\ gateTotal = Cardinality(OpenLinks)
    BY <1>2, CountedByAddress DEF GateInv
<1>9. gateTotal' = Cardinality(OpenLinks')
    BY <1>5, <1>7, <1>8, OneLess DEF Release
<1>10. HeldBy(a)' = HeldBy(a) - 1 /\ \A b \in Addresses \ {a} : HeldBy(b)' = HeldBy(b)
    <2>1. HeldBy(a) \in Nat \ {0}
        BY <1>4, <1>7, <1>8, OpenLinksAreFinite, FS_CardinalityType
    <2>2. a \in DOMAIN holding /\ holding[a] = HeldBy(a)
        BY <2>1 DEF HeldBy
    <2>3. holding' = Released(a)
        BY <1>0 DEF Release
    <2>4. \A b \in Addresses \ {a} :
            /\ b \in DOMAIN holding' <=> b \in DOMAIN holding
            /\ b \in DOMAIN holding => holding'[b] = holding[b]
        BY <2>3 DEF Released
    <2>5. CASE holding[a] > 1
        <3>1. a \in DOMAIN holding' /\ holding'[a] = holding[a] - 1
            BY <2>2, <2>3, <2>5 DEF Released
        <3> QED
            BY <2>2, <2>4, <3>1 DEF HeldBy
    <2>6. CASE holding[a] = 1
        <3>1. a \notin DOMAIN holding'
            BY <2>3, <2>6 DEF Released
        <3>2. HeldBy(a)' = 0 /\ HeldBy(a) - 1 = 0
            BY <2>2, <2>6, <3>1 DEF HeldBy
        <3> QED
            BY <2>4, <3>2 DEF HeldBy
    <2> QED
        BY <2>1, <2>2, <2>5, <2>6
<1>11. SocketsAreCounted'
    <2>1. ASSUME NEW b \in Addresses PROVE HeldBy(b)' = Cardinality(OpenAt(b)')
        <3>1. CASE b = a
            BY <1>6, <1>8, <1>10, <3>1
        <3>2. CASE b # a
            BY <1>4, <1>10, <3>2, CountedByAddress DEF GateInv
        <3> QED
            BY <3>1, <3>2
    <2> QED
        BY <1>9, <2>1, CountedByAddress
<1> QED
    BY <1>1, <1>2, <1>3, <1>11 DEF GateInv, GateTypeOK, OpenLinks

LEMMA GateInitially == GateInit => GateInv
<1> SUFFICES ASSUME GateInit PROVE GateInv
    OBVIOUS
<1>1. OpenLinks = {} /\ \A a : OpenAt(a) = {}
    BY DEF GateInit, OpenLinks, OpenAt, Unopened
<1>2. gateTotal = 0 /\ \A a \in Addresses : HeldBy(a) = 0
    BY DEF GateInit, HeldBy
<1>3. SocketsAreCounted
    BY <1>1, <1>2, FS_EmptySet, CountedByAddress
<1> QED
    BY <1>1, <1>3 DEF GateInit, GateInv, GateTypeOK, Connections, Unopened, Never

LEMMA GateStep == GateInv /\ [GateNext]_gateVars => GateInv'
<1> SUFFICES ASSUME GateInv, [GateNext]_gateVars PROVE GateInv'
    OBVIOUS
<1>1. ASSUME NEW l \in Links, NEW a \in Addresses, Admit(l, a) PROVE GateInv'
    BY <1>1, AdmittedIsCounted
<1>2. ASSUME NEW l \in Links, BreakRule(l) \/ HangUp(l) \/ GiveUp(l) PROVE GateInv'
    <2>1. link[l].at = "open" /\ Release(l) /\ gateNow' = gateNow
        <3>1. CASE BreakRule(l)
            BY <3>1 DEF BreakRule
        <3>2. CASE HangUp(l) \/ GiveUp(l)
            BY <3>2 DEF HangUp, GiveUp, TimesOut
        <3> QED
            BY <1>2, <3>1, <3>2
    <2> QED
        BY <2>1, ReleasedIsUncounted
<1>3. ASSUME NEW l \in Links, NEW completes \in BOOLEAN, Receive(l, completes) PROVE GateInv'
    <2>1. link' \in [Links -> Connections] /\ gateNow' \in Int
        <3> DEFINE p == IF completes THEN Never
                        ELSE IF link[l].partialSince = Never THEN gateNow ELSE link[l].partialSince
        <3>1. link' = [link EXCEPT ![l] = [link[l] EXCEPT !.last = gateNow, !.partialSince = p]]
            BY <1>3 DEF GateInv, GateTypeOK, Receive
        <3>2. p \in Int
            BY DEF GateInv, GateTypeOK, Connections, Never
        <3> HIDE DEF p
        <3>3. [link[l] EXCEPT !.last = gateNow, !.partialSince = p] \in Connections
            BY <3>2 DEF GateInv, GateTypeOK, Connections
        <3> QED
            BY <1>3, <3>1, <3>3 DEF GateInv, GateTypeOK, Receive
    <2>2. \A k \in Links : link'[k].at = link[k].at /\ link'[k].address = link[k].address
        BY <1>3 DEF GateInv, GateTypeOK, Receive, Connections
    <2> QED
        BY <1>3, <2>1, <2>2, SameSockets DEF Receive
<1>4. CASE Second \/ UNCHANGED gateVars
    BY <1>4, SameSockets DEF Second, gateVars, GateInv, GateTypeOK
<1> QED
    BY <1>1, <1>2, <1>3, <1>4 DEF GateNext

\* However connections end, over any number of them, the gate's counts are the sockets
\* that are open: none is ever leaked or freed twice (net/gate.py, admit and release;
\* net/peer.py, the finally of the read loop).
THEOREM CountsAreSockets == GateSpec => []SocketsAreCounted
<1>1. GateInit => GateInv
    BY GateInitially
<1>2. GateInv /\ [GateNext]_gateVars => GateInv'
    BY GateStep
<1>3. GateInv => SocketsAreCounted
    BY DEF GateInv
<1> QED
    BY <1>1, <1>2, <1>3, PTL DEF GateSpec

-----------------------------------------------------------------------------
(***************************************************************************)
(* Why a source's budget is a bound: what it spent and what it has left are  *)
(* together one burst and what it had earned when it was last charged; and a *)
(* bucket is forgotten only when it has earned more than it could hold.      *)
(***************************************************************************)
Bucket == [capacity : Nat, tokens : Nat, last : Nat]
Account == [spent : Nat, top : Nat]

\* The largest burst this source can ever be given.
Largest(s) == IF s \in Validators THEN PeerCapacity ELSE Max({Capacity, LargestFloor})

LimiterTypeOK ==
    /\ clock \in Nat /\ multiple \in 1..MaxMultiple
    /\ DOMAIN buckets \subseteq Sources
    /\ \A s \in DOMAIN buckets : /\ buckets[s] \in Bucket /\ buckets[s].last <= clock
                                 /\ buckets[s].capacity <= Largest(s)
    /\ ledger \in [Sources -> Account]

WithinItsMeans(s) ==
    /\ ledger[s].top <= Largest(s)
    /\ s \in DOMAIN buckets =>
         ledger[s].spent + buckets[s].tokens <= ledger[s].top + RateOf(s) * buckets[s].last
    /\ s \notin DOMAIN buckets => ledger[s].spent <= RateOf(s) * clock

LimiterInv == LimiterTypeOK /\ \A s \in Sources \ crowded : WithinItsMeans(s)

LEMMA MaxOfTwo ==
    ASSUME NEW a \in Nat, NEW b \in Nat
    PROVE  Max({a, b}) \in Nat /\ Max({a, b}) >= a /\ Max({a, b}) >= b /\ Max({a, b}) \in {a, b}
<1>1. \E x \in {a, b} : \A y \in {a, b} : x >= y
    <2>1. CASE a >= b
        BY <2>1
    <2>2. CASE b >= a
        BY <2>2
    <2> QED
        BY <2>1, <2>2
<1>2. Max({a, b}) \in {a, b} /\ \A y \in {a, b} : Max({a, b}) >= y
    BY <1>1 DEF Max
<1> QED
    BY <1>2

LEMMA MinOfTwo ==
    ASSUME NEW a \in Nat, NEW b \in Nat
    PROVE  Min({a, b}) \in Nat /\ Min({a, b}) <= a /\ Min({a, b}) <= b
<1>1. \E x \in {a, b} : \A y \in {a, b} : x =< y
    <2>1. CASE a =< b
        BY <2>1
    <2>2. CASE b =< a
        BY <2>2
    <2> QED
        BY <2>1, <2>2
<1>2. Min({a, b}) \in {a, b} /\ \A y \in {a, b} : Min({a, b}) =< y
    BY <1>1 DEF Min
<1> QED
    BY <1>2

LEMMA EarnsWithTime ==
    ASSUME NEW r \in Nat, NEW x \in Nat, NEW y \in Nat, x <= y
    PROVE  /\ r * x \in Nat /\ r * y \in Nat /\ (y - x) * r \in Nat
           /\ r * y = r * x + (y - x) * r
BY SMT

LEMMA RatesAndCosts ==
    ASSUME LimiterTypeOK, NEW s \in Sources
    PROVE  /\ RateOf(s) \in Nat /\ Largest(s) \in Nat /\ TxPrice \in Nat /\ FloorCapacity \in Nat
           /\ BuiltFor(s) \in Nat /\ BuiltFor(s) <= Largest(s)
           /\ s \in Clients => FloorCapacity <= Largest(s)
           /\ RateOf(s) * IdleAfter >= Largest(s)
<1> USE LimiterAssumption, ForgottenIsFull DEF LimiterTypeOK
<1>1. RateOf(s) \in Nat
    BY DEF RateOf
<1>2. TxPrice \in Nat /\ TxCost * MaxMultiple = TxPrice + (MaxMultiple - multiple) * TxCost
      /\ (MaxMultiple - multiple) * TxCost \in Nat /\ TxCost * MaxMultiple \in Nat
    BY EarnsWithTime DEF TxPrice
<1>3. FloorCapacity \in Nat /\ LargestFloor \in Nat /\ FloorCapacity <= LargestFloor
    <2> DEFINE most == TxCost * MaxMultiple
               rest == (MaxMultiple - multiple) * TxCost
    <2>1. most \in Nat /\ rest \in Nat /\ most = TxPrice + rest /\ TxPrice \in Nat
        BY <1>2
    <2>2. FloorCapacity = TxPrice + BytesCost /\ LargestFloor = most + BytesCost /\ BytesCost \in Nat
        BY DEF FloorCapacity, LargestFloor
    <2> HIDE DEF most, rest
    <2> QED
        BY <2>1, <2>2
<1>4. /\ Max({Capacity, LargestFloor}) \in Nat /\ Max({Capacity, LargestFloor}) >= Capacity
      /\ Max({Capacity, LargestFloor}) >= LargestFloor
    BY <1>3, MaxOfTwo
<1>5. Max({Capacity, FloorCapacity}) \in {Capacity, FloorCapacity}
    BY <1>3, MaxOfTwo
<1>6. Largest(s) \in Nat /\ BuiltFor(s) \in Nat /\ BuiltFor(s) <= Largest(s)
    BY <1>3, <1>4, <1>5 DEF Largest, BuiltFor
<1>7. s \in Clients => FloorCapacity <= Largest(s)
    BY <1>3, <1>4 DEF Largest
<1>8. RateOf(s) * IdleAfter >= Largest(s)
    BY DEF RateOf, Largest
<1> QED
    BY <1>1, <1>2, <1>3, <1>6, <1>7, <1>8

\* What one charge does to the bucket it is taken from.
LEMMA TakingIsPaidFor ==
    ASSUME LimiterTypeOK, NEW s \in Sources, NEW b \in Bucket, NEW cost \in Nat,
           b.last <= clock, b.capacity <= Largest(s)
    PROVE  LET took == Take(s, b, cost, clock)
               paid == IF took.ok THEN cost ELSE 0
           IN /\ took.bucket \in Bucket /\ took.bucket.last = clock
              /\ took.bucket.capacity >= b.capacity /\ took.bucket.capacity <= Largest(s)
              /\ paid + took.bucket.tokens <= b.tokens + (clock - b.last) * RateOf(s)
<1> DEFINE earned == (clock - b.last) * RateOf(s)
           tokens == Refilled(s, b, clock)
           took == Take(s, b, cost, clock)
<1>1. earned \in Nat
    BY EarnsWithTime, RatesAndCosts DEF LimiterTypeOK, Bucket
<1>2. Raised(s, b) \in Nat /\ Raised(s, b) >= b.capacity /\ Raised(s, b) <= Largest(s)
    BY MaxOfTwo, RatesAndCosts DEF Raised, Bucket
<1>3. tokens \in Nat /\ tokens <= b.tokens + earned
    <2> HIDE DEF earned
    <2>1. b.tokens + earned \in Nat
        BY <1>1 DEF Bucket
    <2>2. tokens = Min({Raised(s, b), b.tokens + earned})
        BY DEF Refilled, earned
    <2> QED
        BY <1>2, <2>1, <2>2, MinOfTwo
<1> HIDE DEF tokens, earned
<1>4. took = [ok |-> tokens >= cost,
              bucket |-> [capacity |-> Raised(s, b), last |-> clock,
                          tokens |-> IF tokens >= cost THEN tokens - cost ELSE tokens]]
    BY DEF Take, tokens
<1>5. took.bucket \in Bucket /\ took.bucket.last = clock /\ took.bucket.capacity = Raised(s, b)
    BY <1>2, <1>3, <1>4 DEF Bucket, LimiterTypeOK
<1>6. (IF took.ok THEN cost ELSE 0) + took.bucket.tokens = tokens
    <2> HIDE DEF took
    <2>1. CASE tokens >= cost
        <3>1. took.ok /\ took.bucket.tokens = tokens - cost
            BY <1>4, <2>1
        <3> QED
            BY <1>3, <3>1
    <2>2. CASE ~(tokens >= cost)
        <3>1. ~took.ok /\ took.bucket.tokens = tokens
            BY <1>4, <2>2
        <3> QED
            BY <1>3, <3>1
    <2> QED
        BY <2>1, <2>2
<1> QED
    BY <1>2, <1>3, <1>5, <1>6 DEF earned

LEMMA NeverVaries == \A s : RateOf(s)' = RateOf(s) /\ Largest(s)' = Largest(s)
BY DEF RateOf, Largest

\* A charge leaves the source that is charged, and those that are forgotten for it, within
\* what they had coming.
LEMMA ChargedWithinMeans ==
    ASSUME LimiterInv, NEW s \in Sources, NEW cost \in Nat, Charge(s, cost)
    PROVE  LimiterInv'
<1>0. PICK b, gone, took, paid :
        /\ b = IF s \in DOMAIN buckets THEN buckets[s]
               ELSE [capacity |-> BuiltFor(s), tokens |-> BuiltFor(s), last |-> clock]
        /\ gone = IF s \in DOMAIN buckets THEN {} ELSE {recent[i] : i \in 1..Swept(IdlePrefix)}
        /\ took = Take(s, b, cost, clock)
        /\ paid = IF took.ok THEN cost ELSE 0
    OBVIOUS
<1>1. /\ buckets' = [t \in (DOMAIN buckets \ gone) \cup {s} |-> IF t = s THEN took.bucket ELSE buckets[t]]
      /\ crowded' = crowded \cup {t \in gone : ~IsIdle(buckets[t])}
      /\ ledger' = [t \in Sources |->
             IF t \in crowded' THEN NothingYet
             ELSE IF t # s THEN ledger[t]
             ELSE [spent |-> ledger[t].spent + paid, top |-> Max({ledger[t].top, took.bucket.capacity})]]
      /\ clock' = clock /\ multiple' = multiple
    BY <1>0 DEF Charge
<1>2. b \in Bucket /\ b.last <= clock /\ b.capacity <= Largest(s)
    <2>1. CASE s \in DOMAIN buckets
        BY <1>0, <2>1 DEF LimiterInv, LimiterTypeOK
    <2>2. CASE s \notin DOMAIN buckets
        BY <1>0, <2>2, RatesAndCosts DEF LimiterInv, LimiterTypeOK, Bucket
    <2> QED
        BY <2>1, <2>2
<1>3. /\ took.bucket \in Bucket /\ took.bucket.last = clock
      /\ took.bucket.capacity >= b.capacity /\ took.bucket.capacity <= Largest(s)
      /\ paid + took.bucket.tokens <= b.tokens + (clock - b.last) * RateOf(s) /\ paid \in Nat
    BY <1>0, <1>2, TakingIsPaidFor DEF LimiterInv
<1>4. \A t \in Sources : ledger[t] \in Account /\ ledger'[t] \in Account
    <2>1. \A t \in Sources : ledger[t] \in Account
        BY DEF LimiterInv, LimiterTypeOK
    <2>2. Max({ledger[s].top, took.bucket.capacity}) \in Nat
        BY <1>3, <2>1, MaxOfTwo DEF Account, Bucket
    <2>3. [spent |-> ledger[s].spent + paid, top |-> Max({ledger[s].top, took.bucket.capacity})] \in Account
        BY <1>3, <2>1, <2>2 DEF Account
    <2> QED
        BY <1>1, <2>1, <2>3 DEF Account, NothingYet
<1>5. LimiterTypeOK'
    <2>1. \A t \in DOMAIN buckets' : buckets'[t] \in Bucket /\ buckets'[t].last <= clock
                                    /\ buckets'[t].capacity <= Largest(t)
        BY <1>1, <1>3 DEF LimiterInv, LimiterTypeOK, Bucket
    <2>2. ledger' \in [Sources -> Account] /\ DOMAIN buckets' \subseteq Sources
        BY <1>1, <1>4 DEF LimiterInv, LimiterTypeOK
    <2> QED
        BY <1>1, <2>1, <2>2, NeverVaries DEF LimiterInv, LimiterTypeOK
<1>6. ASSUME NEW t \in Sources \ crowded' PROVE WithinItsMeans(t)'
    <2>1. t \notin crowded /\ WithinItsMeans(t)
        BY <1>1, <1>6 DEF LimiterInv
    <2>2. /\ RateOf(t) \in Nat /\ Largest(t) \in Nat /\ clock \in Nat
          /\ RateOf(t) * IdleAfter >= Largest(t) /\ IdleAfter \in Nat
        BY RatesAndCosts, LimiterAssumption DEF LimiterInv, LimiterTypeOK
    <2>3. CASE t = s
        <3>1. /\ ledger'[t].spent = ledger[t].spent + paid
              /\ ledger'[t].top = Max({ledger[t].top, took.bucket.capacity})
              /\ t \in DOMAIN buckets' /\ buckets'[t] = took.bucket
            BY <1>1, <1>6, <2>3
        <3>2. /\ Max({ledger[t].top, took.bucket.capacity}) >= ledger[t].top
              /\ Max({ledger[t].top, took.bucket.capacity}) >= took.bucket.capacity
              /\ Max({ledger[t].top, took.bucket.capacity}) \in {ledger[t].top, took.bucket.capacity}
            BY <1>3, <1>4, MaxOfTwo DEF Account, Bucket
        <3>3. ledger'[t].top <= Largest(t)
            BY <1>3, <2>1, <2>3, <3>1, <3>2 DEF WithinItsMeans
        <3>4. ledger[t].spent + b.tokens <= ledger'[t].top + RateOf(t) * b.last
            <4>1. CASE s \in DOMAIN buckets
                BY <1>0, <1>4, <2>1, <2>2, <2>3, <3>1, <3>2, <4>1, <1>2, <1>3, EarnsWithTime
                DEF WithinItsMeans, Account, Bucket
            <4>2. CASE s \notin DOMAIN buckets
                <5>1. b.tokens = b.capacity /\ b.last = clock
                    BY <1>0, <4>2
                <5>2. ledger[t].spent <= RateOf(t) * clock /\ RateOf(t) * clock \in Nat
                    BY <2>1, <2>2, <2>3, <4>2, EarnsWithTime DEF WithinItsMeans
                <5> QED
                    BY <1>2, <1>3, <1>4, <3>1, <3>2, <5>1, <5>2 DEF Account, Bucket
            <4> QED
                BY <4>1, <4>2
        <3>5. ledger'[t].spent + took.bucket.tokens <= ledger'[t].top + RateOf(t) * clock
            <4> DEFINE before == RateOf(t) * b.last
                       after == RateOf(t) * clock
                       earned == (clock - b.last) * RateOf(t)
            <4>1. before \in Nat /\ after \in Nat /\ earned \in Nat /\ after = before + earned
                BY <1>2, <2>2, EarnsWithTime DEF Bucket
            <4>2. paid + took.bucket.tokens <= b.tokens + earned
                BY <1>3, <2>3
            <4>3. ledger[t].spent + b.tokens <= ledger'[t].top + before
                BY <3>4
            <4> HIDE DEF before, after, earned
            <4>4. ledger'[t].spent + took.bucket.tokens <= ledger'[t].top + after
                BY <1>2, <1>3, <1>4, <3>1, <4>1, <4>2, <4>3 DEF Account, Bucket
            <4> QED
                BY <4>4 DEF after
        <3> QED
            BY <1>3, <3>1, <3>3, <3>5, NeverVaries DEF WithinItsMeans
    <2>4. CASE t # s /\ t \in DOMAIN buckets \ gone
        <3>1. ledger'[t] = ledger[t] /\ t \in DOMAIN buckets' /\ buckets'[t] = buckets[t]
            BY <1>1, <1>6, <2>4
        <3> QED
            BY <2>1, <2>4, <3>1, NeverVaries DEF WithinItsMeans
    <2>5. CASE t # s /\ t \in DOMAIN buckets /\ t \in gone
        <3>1. ledger'[t] = ledger[t] /\ t \notin DOMAIN buckets' /\ IsIdle(buckets[t])
            BY <1>1, <1>6, <2>5
        <3>2. buckets[t].last + IdleAfter <= clock /\ buckets[t] \in Bucket
            BY <2>2, <2>5, <3>1 DEF IsIdle, IdleFor, LimiterInv, LimiterTypeOK, Bucket
        <3>3. RateOf(t) * buckets[t].last + RateOf(t) * IdleAfter <= RateOf(t) * clock
            <4> DEFINE from == buckets[t].last + IdleAfter
            <4>1. from \in Nat /\ RateOf(t) * from <= RateOf(t) * clock
                BY <2>2, <3>2, EarnsWithTime DEF Bucket
            <4>2. RateOf(t) * from = RateOf(t) * buckets[t].last + RateOf(t) * IdleAfter
                BY <2>2, <3>2 DEF Bucket
            <4> QED
                BY <4>1, <4>2
        <3>4. ledger[t].spent + buckets[t].tokens <= ledger[t].top + RateOf(t) * buckets[t].last
            BY <2>1, <2>5 DEF WithinItsMeans
        <3>5. ledger[t].spent <= RateOf(t) * clock
            <4> DEFINE before == RateOf(t) * buckets[t].last
                       idle == RateOf(t) * IdleAfter
                       sofar == RateOf(t) * clock
            <4>1. before \in Nat /\ idle \in Nat /\ sofar \in Nat /\ before + idle <= sofar /\ idle >= Largest(t)
                BY <2>2, <3>2, <3>3, EarnsWithTime DEF Bucket
            <4>2. ledger[t].spent + buckets[t].tokens <= ledger[t].top + before /\ ledger[t].top <= Largest(t)
                BY <2>1, <3>4 DEF WithinItsMeans
            <4> HIDE DEF before, idle, sofar
            <4>3. ledger[t].spent <= sofar
                BY <1>4, <2>2, <3>2, <4>1, <4>2 DEF Account, Bucket
            <4> QED
                BY <4>3 DEF sofar
        <3> QED
            BY <1>1, <2>1, <3>1, <3>5, NeverVaries DEF WithinItsMeans
    <2>6. CASE t # s /\ t \notin DOMAIN buckets
        BY <1>1, <1>6, <2>1, <2>6, NeverVaries DEF WithinItsMeans
    <2> QED
        BY <2>3, <2>4, <2>5, <2>6
<1> QED
    BY <1>5, <1>6 DEF LimiterInv

LEMMA LimiterInitially == LimiterInit => LimiterInv
<1> SUFFICES ASSUME LimiterInit PROVE LimiterInv
    OBVIOUS
<1>1. LimiterTypeOK
    BY LimiterAssumption DEF LimiterInit, LimiterTypeOK, NothingYet, Account
<1>2. \A s \in Sources : RateOf(s) * 0 = 0 /\ Largest(s) >= 0
    BY <1>1, RatesAndCosts
<1> QED
    BY <1>1, <1>2 DEF LimiterInit, LimiterInv, WithinItsMeans, NothingYet

LEMMA LimiterStep == LimiterInv /\ [LimiterNext]_limiterVars => LimiterInv'
<1> SUFFICES ASSUME LimiterInv, [LimiterNext]_limiterVars PROVE LimiterInv'
    OBVIOUS
<1>1. ASSUME NEW s \in Sources, ChargeFrame(s) \/ ChargeQuery(s) \/ ChargeTx(s) PROVE LimiterInv'
    <2>1. BytesCost \in Nat /\ QueryCost \in Nat /\ TxPrice \in Nat
        BY LimiterAssumption, RatesAndCosts DEF LimiterInv
    <2> QED
        BY <1>1, <2>1, ChargedWithinMeans DEF ChargeFrame, ChargeQuery, ChargeTx
<1>2. ASSUME NEW m \in 1..MaxMultiple, ObserveUnit(m) PROVE LimiterInv'
    BY <1>2, NeverVaries DEF ObserveUnit, LimiterInv, LimiterTypeOK, WithinItsMeans
<1>3. CASE LimiterTick
    <2>1. \A s \in Sources : RateOf(s) * clock <= RateOf(s) * (clock + 1) /\ RateOf(s) * clock \in Nat
        BY RatesAndCosts, EarnsWithTime DEF LimiterInv, LimiterTypeOK
    <2>2. \A s \in Sources : ledger[s].spent \in Nat /\ RateOf(s) * (clock + 1) \in Nat
        BY RatesAndCosts, EarnsWithTime DEF LimiterInv, LimiterTypeOK, Account
    <2>3. LimiterTypeOK'
        BY <1>3, NeverVaries DEF LimiterTick, LimiterInv, LimiterTypeOK, Bucket
    <2>4. ASSUME NEW s \in Sources \ crowded PROVE WithinItsMeans(s)'
        <3>1. /\ WithinItsMeans(s) /\ clock' = clock + 1 /\ UNCHANGED <<buckets, ledger>>
              /\ RateOf(s)' = RateOf(s) /\ Largest(s)' = Largest(s)
            BY <1>3, NeverVaries DEF LimiterTick, LimiterInv
        <3>2. ledger[s].spent <= RateOf(s) * clock => ledger[s].spent <= RateOf(s) * (clock + 1)
            BY <2>1, <2>2
        <3> QED
            BY <3>1, <3>2 DEF WithinItsMeans
    <2> QED
        BY <1>3, <2>3, <2>4 DEF LimiterTick, LimiterInv
<1>4. CASE UNCHANGED limiterVars
    BY <1>4, NeverVaries DEF limiterVars, LimiterInv, LimiterTypeOK, WithinItsMeans
<1> QED
    BY <1>1, <1>2, <1>3, <1>4 DEF LimiterNext

THEOREM MeansAreKept == LimiterSpec => []LimiterInv
<1>1. LimiterInit => LimiterInv
    BY LimiterInitially
<1>2. LimiterInv /\ [LimiterNext]_limiterVars => LimiterInv'
    BY LimiterStep
<1> QED
    BY <1>1, <1>2, PTL DEF LimiterSpec

\* For every price list, burst and number of sources: what a source was ever allowed is at
\* most one burst and what it earned, unless a full table forgot it early
\* (net/limits.py, TokenBucket.take and RateLimiter._sweep).
THEOREM OneBurstAndWhatIsEarned == LimiterSpec => []BudgetIsABound
<1>1. LimiterInv => BudgetIsABound
    <2> SUFFICES ASSUME LimiterInv, NEW s \in Sources \ crowded
                 PROVE  ledger[s].spent <= ledger[s].top + RateOf(s) * clock
        BY DEF BudgetIsABound
    <2> DEFINE all == RateOf(s) * clock
    <2>1. /\ WithinItsMeans(s) /\ ledger[s] \in Account /\ all \in Nat
          /\ clock \in Nat /\ RateOf(s) \in Nat
        <3>1. WithinItsMeans(s) /\ ledger[s] \in Account /\ clock \in Nat
            BY DEF LimiterInv, LimiterTypeOK
        <3>2. RateOf(s) \in Nat
            BY RatesAndCosts DEF LimiterInv
        <3> QED
            BY <3>1, <3>2, EarnsWithTime
    <2>2. CASE s \in DOMAIN buckets
        <3> DEFINE some == RateOf(s) * buckets[s].last
        <3>1. buckets[s] \in Bucket /\ some <= all /\ some \in Nat
            <4>1. buckets[s] \in Bucket /\ buckets[s].last \in Nat /\ buckets[s].last <= clock
                BY <2>2 DEF LimiterInv, LimiterTypeOK, Bucket
            <4> QED
                BY <2>1, <4>1, EarnsWithTime
        <3>2. ledger[s].spent + buckets[s].tokens <= ledger[s].top + some
            BY <2>1, <2>2 DEF WithinItsMeans
        <3> HIDE DEF some, all
        <3>3. ledger[s].spent <= ledger[s].top + all
            BY <2>1, <3>1, <3>2 DEF Account, Bucket
        <3> QED
            BY <3>3 DEF all
    <2>3. CASE s \notin DOMAIN buckets
        <3>1. ledger[s].spent <= all
            BY <2>1, <2>3 DEF WithinItsMeans
        <3> HIDE DEF all
        <3>2. ledger[s].spent <= ledger[s].top + all
            BY <2>1, <3>1 DEF Account
        <3> QED
            BY <3>2 DEF all
    <2> QED
        BY <2>2, <2>3
<1> QED
    BY <1>1, MeansAreKept, PTL

-----------------------------------------------------------------------------
(***************************************************************************)
(* Why a directory only learns forward: everything that is written into one  *)
(* is either newer than what was there or signed in an epoch later than it.  *)
(***************************************************************************)
Addressed == [at : Int, epoch : Nat]
Directories == [Roster -> Addressed]

DirectoryTypeOK ==
    /\ now \in Nat /\ home \in [Roster -> Int]
    /\ records \in [Roster -> Directories]
    /\ post # NoPost => post.to \in Roster /\ post.records \in Directories

\* d is as new as c about every seat.
AsNew(d, c) == \A s \in Roster : d[s].epoch >= c[s].epoch

LEMMA UnheardIsAddressed == Unheard \in Addressed /\ Unheard.epoch = 0
BY DEF Unheard, Nowhere, Addressed

LEMMA MyAddressIsNewer ==
    ASSUME DirectoryTypeOK, NEW n \in Roster
    PROVE  /\ MyAddress(n) \in Addressed /\ MyAddress(n).epoch >= records[n][n].epoch
           /\ [records[n] EXCEPT ![n] = MyAddress(n)] \in Directories
           /\ AsNew([records[n] EXCEPT ![n] = MyAddress(n)], records[n])
<1>1. records[n] \in Directories /\ records[n][n] \in Addressed
    BY DEF DirectoryTypeOK, Directories
<1>2. MyAddress(n) \in Addressed /\ MyAddress(n).epoch >= records[n][n].epoch
    <2>1. CASE MyAddress(n) = records[n][n]
        BY <1>1, <2>1 DEF Addressed
    <2>2. CASE MyAddress(n) # records[n][n]
        <3>1. MyAddress(n) = Record(home[n], now)
            BY <2>2 DEF MyAddress
        <3>2. records[n][n] = Unheard \/ records[n][n].epoch < now
            BY <2>2 DEF MyAddress
        <3> QED
            BY <1>1, <3>1, <3>2, UnheardIsAddressed DEF Record, DirectoryTypeOK, Addressed
    <2> QED
        BY <2>1, <2>2
<1>3. \A s \in Roster : records[n][s].epoch \in Nat
    BY <1>1 DEF Directories, Addressed
<1> QED
    BY <1>1, <1>2, <1>3 DEF Directories, AsNew

LEMMA AbsorbedIsNewer ==
    ASSUME DirectoryTypeOK, NEW n \in Roster, NEW rs \in Directories
    PROVE  Absorbed(n, rs) \in Directories /\ AsNew(Absorbed(n, rs), records[n])
<1>1. \A s \in Roster : records[n][s] \in Addressed /\ rs[s] \in Addressed
    BY DEF DirectoryTypeOK, Directories
<1>2. \A s \in Roster : News(records[n][s], rs[s]) => rs[s].epoch >= records[n][s].epoch
    BY <1>1, UnheardIsAddressed DEF News, Addressed
<1> QED
    BY <1>1, <1>2 DEF Absorbed, Directories, AsNew, Addressed

LEMMA SentIsAddressed ==
    ASSUME DirectoryTypeOK, NEW n \in Roster
    PROVE  Sent(n) \in Directories
BY MyAddressIsNewer, UnheardIsAddressed DEF Sent, FreshOf, Directories

\* Whatever a node takes, its directory is as new as it was, and no other has moved.
LEMMA TakingLearnsForward ==
    ASSUME DirectoryTypeOK, NEW n \in Roster, NEW from, NEW rs \in Directories,
           NEW all \in [Roster -> Directories], \A m \in Roster : AsNew(all[m], records[m]),
           Takes(n, from, rs, all)
    PROVE  /\ records' \in [Roster -> Directories]
           /\ \A m \in Roster : AsNew(records'[m], records[m])
<1>1. PICK held \in {records[n], Absorbed(n, rs)} : records' = [all EXCEPT ![n] = held]
    BY DEF Takes
<1>2. held \in Directories /\ AsNew(held, records[n])
    BY <1>1, AbsorbedIsNewer DEF AsNew, DirectoryTypeOK, Directories, Addressed
<1> QED
    BY <1>1, <1>2

LEMMA Introduced ==
    ASSUME DirectoryTypeOK, NEW n \in Roster
    PROVE  LET all == [records EXCEPT ![n][n] = MyAddress(n)]
           IN all \in [Roster -> Directories] /\ \A m \in Roster : AsNew(all[m], records[m])
<1> DEFINE mine == [records[n] EXCEPT ![n] = MyAddress(n)]
           all == [records EXCEPT ![n] = mine]
<1>1. [records EXCEPT ![n][n] = MyAddress(n)] = all
    BY DEF DirectoryTypeOK
<1>2. mine \in Directories /\ AsNew(mine, records[n])
    BY MyAddressIsNewer
<1>3. \A m \in Roster : AsNew(records[m], records[m])
    BY DEF DirectoryTypeOK, AsNew, Directories, Addressed
<1> HIDE DEF mine
<1>4. all \in [Roster -> Directories] /\ \A m \in Roster : AsNew(all[m], records[m])
    BY <1>2, <1>3 DEF DirectoryTypeOK
<1> QED
    BY <1>1, <1>4

\* Every step keeps the types, and learns forward wherever nobody restarted.
LEMMA DirectoryStep ==
    ASSUME DirectoryTypeOK, [DirectoryNext]_directoryVars
    PROVE  DirectoryTypeOK' /\ LearnsForward
<1>0. \A m \in Roster : AsNew(records[m], records[m])
    BY DEF DirectoryTypeOK, AsNew, Directories, Addressed
<1> DEFINE Forward == /\ records' \in [Roster -> Directories]
                      /\ \A m \in Roster : AsNew(records'[m], records[m])
<1>1. ASSUME NEW n \in Roster, NEW s \in Roster, ShareIntoTheVoid(n, s) \/ ShareLate(n, s)
      PROVE  DirectoryTypeOK' /\ LearnsForward
    <2>1. Forward /\ UNCHANGED <<now, home>>
        BY <1>1, Introduced DEF ShareIntoTheVoid, ShareLate
    <2>2. (post # NoPost => post.to \in Roster /\ post.records \in Directories)'
        BY <1>1, SentIsAddressed DEF ShareIntoTheVoid, ShareLate, DirectoryTypeOK, NoPost, Directories
    <2> QED
        BY <2>1, <2>2 DEF DirectoryTypeOK, LearnsForward, AsNew
<1>2. ASSUME NEW n \in Roster, NEW s \in Roster, ShareInTime(n, s)
      PROVE  DirectoryTypeOK' /\ LearnsForward
    <2>1. Forward
        BY <1>2, Introduced, SentIsAddressed, TakingLearnsForward DEF ShareInTime
    <2> QED
        BY <1>2, <2>1 DEF ShareInTime, DirectoryTypeOK, LearnsForward, AsNew, NoPost
<1>3. CASE TakeLate
    <2>1. Forward
        BY <1>0, <1>3, TakingLearnsForward DEF TakeLate, DirectoryTypeOK
    <2> QED
        BY <1>3, <2>1 DEF TakeLate, DirectoryTypeOK, LearnsForward, AsNew, NoPost
<1>4. ASSUME NEW n \in Roster, NEW to \in {0, 1}, Reboot(n, to)
      PROVE  DirectoryTypeOK' /\ LearnsForward
    <2>1. NothingHeard \in Directories
        BY UnheardIsAddressed DEF NothingHeard, Directories
    <2>2. /\ records' = [records EXCEPT ![n] = NothingHeard] /\ n \in restarted' \ restarted
          /\ home' = [home EXCEPT ![n] = to] /\ now' = now /\ post' \in {NoPost, post}
        BY <1>4 DEF Reboot
    <2>3. DirectoryTypeOK'
        BY <2>1, <2>2 DEF DirectoryTypeOK, NoPost
    <2>4. LearnsForward
        BY <1>0, <2>2 DEF LearnsForward, AsNew, DirectoryTypeOK
    <2> QED
        BY <2>3, <2>4
<1>5. CASE UNCHANGED <<home, restarted, records, post>> /\ now' \in {now, now + 1}
    BY <1>0, <1>5 DEF DirectoryTypeOK, LearnsForward, AsNew, NoPost
<1>6. ASSUME NEW n \in Roster, NEW s \in Roster, Connect(n, s)
      PROVE  DirectoryTypeOK' /\ LearnsForward
    BY <1>5, <1>6 DEF Connect
<1>7. CASE NextEpoch \/ UNCHANGED directoryVars
    BY <1>5, <1>7 DEF NextEpoch, directoryVars
<1> QED
    BY <1>1, <1>2, <1>3, <1>4, <1>6, <1>7 DEF DirectoryNext

THEOREM DirectoryTypes == DirectorySpec => []DirectoryTypeOK
<1>1. DirectoryInit => DirectoryTypeOK
    BY UnheardIsAddressed DEF DirectoryInit, DirectoryTypeOK, NothingHeard, Directories
<1>2. DirectoryTypeOK /\ [DirectoryNext]_directoryVars => DirectoryTypeOK'
    BY DirectoryStep
<1> QED
    BY <1>1, <1>2, PTL DEF DirectorySpec

\* No message, however late or whoever sends it, moves a node back to where a seat used
\* to be (net/directory.py, learn; net/node.py, _take_addresses).
THEOREM SeatsAreNeverSentBack == DirectorySpec => NeverSentBack
<1>1. DirectoryTypeOK /\ [DirectoryNext]_directoryVars => [LearnsForward]_directoryVars
    BY DirectoryStep
<1> QED
    BY <1>1, DirectoryTypes, PTL DEF DirectorySpec, NeverSentBack

-----------------------------------------------------------------------------
(***************************************************************************)
(* Why an old build stops instead of forking: what it has applied it had the *)
(* rules of, since each height was required of it before it was applied.     *)
(***************************************************************************)
ActivationTypeOK ==
    /\ activations \subseteq ScheduleEntries /\ Normal(activations)
    /\ applied \in [Installations -> Nat]

\* A node is short of rules at a height that calls for a version it does not implement.
Short(n, height) == Expected(height) > Builds[n]

ActivationInv ==
    /\ ActivationTypeOK
    /\ \A n \in Installations :
         /\ \A h \in 1..applied[n] : ~Short(n, h)
         /\ ~Running(n) => haltedFor[n] = Expected(applied[n] + 1) /\ Short(n, applied[n] + 1)

\* The largest of some versions is one of them: of the sets of what is above one, take
\* one that includes no other.
LEMMA LargestOfSome ==
    ASSUME NEW S \in SUBSET Int, S # {}, IsFiniteSet(S)
    PROVE  Max(S) \in S /\ \A v \in S : v <= Max(S)
<1> DEFINE Above(v) == {w \in S : w > v}
           Aboves == {Above(v) : v \in S}
           Inside == StrictSubsetOrdering(S)
<1>1. PICK A \in Aboves : \A B \in Aboves : <<B, A>> \notin Inside
    <2>1. IsWellFoundedOn(Inside, SUBSET S)
        BY FS_StrictSubsetOrderingWellFounded, FS_FiniteSubsetsOfFinite
    <2>2. Aboves \subseteq SUBSET S /\ Aboves # {}
        OBVIOUS
    <2> HIDE DEF Aboves, Inside
    <2> QED
        BY <2>1, <2>2, WFMin
<1>2. PICK v \in S : A = Above(v)
    OBVIOUS
<1>3. ASSUME NEW w \in S, w > v PROVE FALSE
    <2>1. Above(w) \subseteq Above(v) /\ Above(w) # Above(v)
        <3>1. S \subseteq Int /\ v \in Int /\ w \in Int
            OBVIOUS
        <3>2. w \in Above(v) /\ w \notin Above(w)
            BY <1>3, <3>1
        <3>3. \A u \in S : u > w => u > v
            BY <1>3, <3>1
        <3> QED
            BY <3>2, <3>3
    <2>2. <<Above(w), Above(v)>> \in Inside
        BY <2>1 DEF StrictSubsetOrdering
    <2> QED
        BY <1>1, <1>2, <1>3, <2>2
<1>4. \A y \in S : v >= y
    BY <1>3
<1>5. Max(S) \in S /\ \A y \in S : Max(S) >= y
    BY <1>4 DEF Max
<1> QED
    BY <1>5

LEMMA ExpectedIsLatest ==
    ASSUME ActivationTypeOK, NEW height
    PROVE  /\ Expected(height) \in Nat
           /\ Expected(height) = 1 \/ \E e \in activations : height >= e[2] /\ e[1] = Expected(height)
           /\ \A e \in activations : height >= e[2] => e[1] <= Expected(height)
<1> DEFINE Versions == {1} \cup InForce(activations, height)
<1>1. activations \subseteq Nat \X Nat
    BY VersionsAssumption DEF ActivationTypeOK
<1>2. Versions \in SUBSET Nat /\ Versions # {}
    BY <1>1 DEF InForce
<1>3. IsFiniteSet(Versions)
    <2>1. InForce(activations, height) \in SUBSET {e[1] : e \in ScheduleEntries}
        BY DEF InForce, ActivationTypeOK
    <2>2. IsFiniteSet(InForce(activations, height))
        BY <2>1, VersionsAssumption, FS_Subset
    <2> QED
        BY <2>2, FS_AddElement
<1>4. Max(Versions) \in Versions /\ \A v \in Versions : v <= Max(Versions)
    <2> HIDE DEF Versions
    <2> QED
        BY <1>2, <1>3, LargestOfSome
<1> QED
    BY <1>1, <1>2, <1>4 DEF Expected, InForce

LEMMA ActivationInitially == ActivationInit => ActivationInv
BY DEF ActivationInit, ActivationInv, ActivationTypeOK, Running

LEMMA ActivationStep == ActivationInv /\ [ActivationNext]_activationVars => ActivationInv'
<1> SUFFICES ASSUME ActivationInv, [ActivationNext]_activationVars PROVE ActivationInv'
    OBVIOUS
<1>1. activations' = activations
    BY DEF ActivationNext, Certify, Follow, activationVars
<1>2. \A height : Expected(height)' = Expected(height) /\ Expected(height) \in Nat
    BY <1>1, ExpectedIsLatest DEF Expected, ActivationInv
<1>3. CASE UNCHANGED <<applied, haltedFor>>
    BY <1>1, <1>2, <1>3 DEF ActivationInv, ActivationTypeOK, Running, Short
<1>4. ASSUME NEW n \in Installations, Follow(n), Short(n, applied[n] + 1) PROVE ActivationInv'
    <2>1. applied' = applied /\ haltedFor' = [haltedFor EXCEPT ![n] = Expected(applied[n] + 1)]
        BY <1>4 DEF Follow, Require, Short
    <2> QED
        BY <1>1, <1>2, <1>4, <2>1 DEF ActivationInv, ActivationTypeOK, Running, Short
<1>5. ASSUME NEW n \in Installations, Follow(n), ~Short(n, applied[n] + 1) PROVE ActivationInv'
    <2>1. applied' = [applied EXCEPT ![n] = @ + 1] /\ haltedFor' = haltedFor /\ Running(n)
        BY <1>5 DEF Follow, Require, Short
    <2>2. applied[n] \in Nat /\ applied' \in [Installations -> Nat]
        BY <2>1 DEF ActivationInv, ActivationTypeOK
    <2>3. \A m \in Installations : ~Running(m)' => m # n /\ applied'[m] = applied[m]
        BY <2>1 DEF ActivationInv, ActivationTypeOK, Running
    <2>4. ASSUME NEW m \in Installations, NEW h \in 1..applied'[m] PROVE ~Short(m, h)'
        BY <1>2, <1>5, <2>1, <2>2, <2>4 DEF ActivationInv, ActivationTypeOK, Short
    <2> QED
        BY <1>1, <1>2, <2>1, <2>2, <2>3, <2>4 DEF ActivationInv, ActivationTypeOK, Running, Short
<1> QED
    BY <1>3, <1>4, <1>5 DEF ActivationNext, Certify, activationVars

THEOREM ActivationInvariance == ActivationSpec => []ActivationInv
<1>1. ActivationInit => ActivationInv
    BY ActivationInitially
<1>2. ActivationInv /\ [ActivationNext]_activationVars => ActivationInv'
    BY ActivationStep
<1> QED
    BY <1>1, <1>2, PTL DEF ActivationSpec

\* Whatever builds and schedules there are, nobody applies a height it has not the rules
\* of, and who stops does so at the height before (protocol.py, require).
THEOREM NobodyForksSilently == ActivationSpec => []NoSilentFork
<1>1. ActivationInv => NoSilentFork
    <2> SUFFICES ASSUME ActivationInv, NEW n \in Installations
                 PROVE  /\ \A h \in 1..applied[n] : Expected(h) <= Builds[n]
                        /\ haltedFor[n] # 0 => haltedFor[n] = Expected(applied[n] + 1)
        BY DEF NoSilentFork
    <2>1. Builds[n] \in Nat /\ \A height : Expected(height) \in Nat
        BY VersionsAssumption, ExpectedIsLatest DEF ActivationInv, Installations
    <2> QED
        BY <2>1 DEF ActivationInv, Short, Running
<1> QED
    BY <1>1, ActivationInvariance, PTL

\* Whoever stops for a version was shown, at every height it ever was at, that it would:
\* readiness is no later than the halt it warns of (protocol.py, readiness).
THEOREM HaltsAreForeseen == ActivationSpec => []WarnedBeforeHalting
<1>1. ActivationInv => WarnedBeforeHalting
    <2> SUFFICES ASSUME ActivationInv, NEW n \in Installations, ~Running(n),
                        NEW seen \in 0..applied[n]
                 PROVE  ~Ready(n, seen)
        BY DEF WarnedBeforeHalting
    <2> DEFINE next == applied[n] + 1
    <2>1. applied[n] \in Nat /\ Builds[n] \in Nat \ {0} /\ Short(n, next)
        BY VersionsAssumption DEF ActivationInv, ActivationTypeOK, Installations
    <2>2. Expected(next) \in Nat /\ Expected(next) # 1
        BY <2>1, ExpectedIsLatest DEF ActivationInv, Short
    <2>3. PICK e \in activations : next >= e[2] /\ e[1] = Expected(next)
        BY <2>2, ExpectedIsLatest DEF ActivationInv
    <2>4. e[1] \in Nat /\ e[2] \in Nat /\ e[2] >= 1
        BY <2>3, VersionsAssumption DEF ActivationInv, ActivationTypeOK, Normal
    <2>5. e[2] > applied[n]
        <3>1. CASE applied[n] = 0
            BY <3>1, <2>4
        <3>2. CASE applied[n] # 0 /\ applied[n] >= e[2]
            <4>1. e[1] <= Expected(applied[n]) /\ Expected(applied[n]) \in Nat
                BY <3>2, ExpectedIsLatest DEF ActivationInv
            <4>2. ~Short(n, applied[n])
                BY <3>2, <2>1 DEF ActivationInv
            <4> QED
                BY <4>1, <4>2, <2>1, <2>2, <2>3 DEF Short
        <3> QED
            BY <3>1, <3>2, <2>1, <2>4
    <2>6. e[2] > seen /\ ~(e[1] <= Builds[n])
        BY <2>1, <2>2, <2>3, <2>4, <2>5 DEF Short
    <2> QED
        BY <2>6 DEF Ready
<1> QED
    BY <1>1, ActivationInvariance, PTL

\* Both together: for any builds and schedule an upgrade forks nobody silently and stops
\* nobody unforeseen (require and readiness of protocol.py).
THEOREM UpgradesNeverSurprise == ActivationSpec => []UpgradesAreSafe
<1>1. ActivationSpec => []NoSilentFork
    BY NobodyForksSilently
<1>2. ActivationSpec => []WarnedBeforeHalting
    BY HaltsAreForeseen
<1>3. NoSilentFork /\ WarnedBeforeHalting => UpgradesAreSafe
    BY DEF UpgradesAreSafe
<1> QED
    BY <1>1, <1>2, <1>3, PTL
-----------------------------------------------------------------------------
(***************************************************************************)
(* Why a penalty is served.  A sweep is a loop over what is queued; each turn *)
(* of it keeps the box, the queue and what is owed together, and takes one    *)
(* entry off the queue unless it may stop.                                    *)
(***************************************************************************)

Boxes == UNION {[A -> [until : Int, strikes : Nat]] : A \in SUBSET Addresses}
Sweepable == [box : Boxes, order : SUBSET (Int \X Addresses), evicted : SUBSET Addresses]

\* What is in the box is queued and is what is owed, and what is owed still is in the box
\* unless it had to be dropped.
Consistent(s, debts) ==
    /\ s \in Sweepable /\ IsFiniteSet(s.order)
    /\ \A a \in DOMAIN s.box : <<s.box[a].until, a>> \in s.order /\ s.box[a].until = debts[a]
    /\ \A a \in Addresses : gateNow < debts[a] => a \in DOMAIN s.box \cup s.evicted

PenaltyBox == [box |-> box, order |-> order, evicted |-> evicted]

PenaltyInv ==
    /\ GateInv
    /\ owed \in [Addresses -> Int] /\ Consistent(PenaltyBox, owed)
    /\ Cardinality(DOMAIN box) <= MaxPenalised

LEMMA ImageIsFinite ==
    ASSUME NEW S, IsFiniteSet(S), NEW T, NEW f \in [S -> T], \A y \in T : \E x \in S : y = f[x]
    PROVE  IsFiniteSet(T)
<1>1. f \in Surjection(S, T)
    BY DEF Surjection
<1> QED
    BY <1>1, FS_Surjection

LEMMA SmallestOfSome ==
    ASSUME NEW S \in SUBSET Int, S # {}, IsFiniteSet(S)
    PROVE  \E m \in S : \A v \in S : m <= v
<1> DEFINE N == {-v : v \in S}
           f == [v \in S |-> -v]
<1>1. N \in SUBSET Int /\ N # {} /\ (\A y \in N : \E v \in S : y = -v) /\ \A v \in S : -v \in N
    <2>1. \A v \in S : v \in Int
        OBVIOUS
    <2>2. \A v \in S : -v \in N
        OBVIOUS
    <2>3. \A y \in N : \E v \in S : y = -v
        OBVIOUS
    <2>4. N \subseteq Int
        BY <2>1, <2>3
    <2> HIDE DEF N
    <2> QED
        BY <2>2, <2>3, <2>4
<1> HIDE DEF N
<1>2. f \in [S -> N] /\ \A y \in N : \E v \in S : y = f[v]
    BY <1>1
<1>3. IsFiniteSet(N)
    <2> HIDE DEF f
    <2> QED
        BY <1>2, ImageIsFinite
<1>4. Max(N) \in N /\ \A v \in N : v <= Max(N)
    BY <1>1, <1>3, LargestOfSome
<1>5. PICK m \in S : Max(N) = -m
    BY <1>1, <1>4
<1>6. ASSUME NEW v \in S PROVE m <= v
    <2>1. -v <= -m
        BY <1>1, <1>4, <1>5
    <2> QED
        BY <2>1
<1> QED
    BY <1>6

LEMMA QueueHasAHead ==
    ASSUME NEW o \in SUBSET (Int \X Addresses), o # {}, IsFiniteSet(o)
    PROVE  Heads(o) # {} /\ Heads(o) \subseteq o
<1> DEFINE S == {e[1] : e \in o}
           f == [e \in o |-> e[1]]
<1>1. S \in SUBSET Int /\ S # {} /\ (\A y \in S : \E e \in o : y = e[1]) /\ \A e \in o : e[1] \in S
    OBVIOUS
<1> HIDE DEF S
<1>2. f \in [o -> S] /\ \A y \in S : \E e \in o : y = f[e]
    BY <1>1
<1>3. IsFiniteSet(S)
    <2> HIDE DEF f
    <2> QED
        BY <1>2, ImageIsFinite
<1>4. PICK m \in S : \A v \in S : m <= v
    BY <1>1, <1>3, SmallestOfSome
<1>5. PICK e \in o : e[1] = m
    BY <1>1
<1>6. e \in Heads(o)
    BY <1>1, <1>4, <1>5 DEF Heads
<1> QED
    BY <1>6 DEF Heads

\* One turn of the sweep.
LEMMA SweptOnceIsConsistent ==
    ASSUME gateNow \in Int, NEW debts \in [Addresses -> Int], NEW s, Consistent(s, debts), ~Stops(s)
    PROVE  /\ Consistent(SweptOnce(s), debts)
           /\ Cardinality(SweptOnce(s).order) = Cardinality(s.order) - 1
<1> DEFINE e == CHOOSE x \in Heads(s.order) : TRUE
           t == SweptOnce(s)
<1>1. e \in s.order
    <2>1. s.order # {} /\ s.order \in SUBSET (Int \X Addresses) /\ IsFiniteSet(s.order)
        BY DEF Stops, Consistent, Sweepable
    <2> QED
        BY <2>1, QueueHasAHead
<1>2. t = SweepStep(s, e)
    BY DEF SweptOnce
<1> HIDE DEF e, t
<1>3. e[1] \in Int /\ e[2] \in Addresses /\ e = <<e[1], e[2]>>
    BY <1>1 DEF Consistent, Sweepable
<1>4. t.order = s.order \ {e}
    BY <1>2 DEF SweepStep, Consistent, Sweepable
<1>5. Cardinality(t.order) = Cardinality(s.order) - 1 /\ IsFiniteSet(t.order)
    BY <1>1, <1>4, FS_RemoveElement DEF Consistent
<1>6. CASE Superseded(s.box, e)
    <2>1. t.box = s.box /\ t.evicted = s.evicted /\ t \in Sweepable
        BY <1>2, <1>6 DEF SweepStep, Consistent, Sweepable
    <2>2. \A a \in DOMAIN s.box : <<s.box[a].until, a>> # e
        BY <1>6 DEF Superseded
    <2> QED
        BY <1>4, <1>5, <2>1, <2>2 DEF Consistent, t
<1>7. CASE ~Superseded(s.box, e)
    <2>1. /\ t = [box |-> Without(s.box, e[2]), order |-> s.order \ {e},
                  evicted |-> IF e[1] <= gateNow THEN s.evicted ELSE s.evicted \cup {e[2]}]
          /\ e[2] \in DOMAIN s.box /\ s.box[e[2]].until = e[1]
        BY <1>2, <1>7 DEF SweepStep, Superseded
    <2>2. /\ DOMAIN t.box = DOMAIN s.box \ {e[2]}
          /\ \A a \in DOMAIN t.box : t.box[a] = s.box[a]
        BY <2>1 DEF Without
    <2>3. t \in Sweepable
        <3>1. PICK A \in SUBSET Addresses : s.box \in [A -> [until : Int, strikes : Nat]]
            BY DEF Consistent, Sweepable, Boxes
        <3>2. t.box \in [A \ {e[2]} -> [until : Int, strikes : Nat]]
            BY <2>1, <3>1 DEF Without
        <3>3. t.box \in Boxes
            BY <3>2 DEF Boxes
        <3> QED
            BY <1>3, <2>1, <3>3 DEF Consistent, Sweepable
    <2>4. \A a \in DOMAIN t.box : <<t.box[a].until, a>> \in t.order /\ t.box[a].until = debts[a]
        BY <1>3, <1>4, <2>2 DEF Consistent
    <2>5. ASSUME NEW a \in Addresses, gateNow < debts[a] PROVE a \in DOMAIN t.box \cup t.evicted
        <3>1. CASE a # e[2]
            BY <2>1, <2>2, <2>5, <3>1 DEF Consistent
        <3>2. CASE a = e[2]
            <4>1. e[1] = debts[a] /\ ~(e[1] <= gateNow)
                BY <1>3, <2>1, <2>5, <3>2 DEF Consistent
            <4> QED
                BY <2>1, <3>2, <4>1
        <3> QED
            BY <3>1, <3>2
    <2> QED
        BY <1>5, <2>3, <2>4, <2>5 DEF Consistent, t
<1> QED
    BY <1>5, <1>6, <1>7 DEF t

\* The loop: as many turns as there were entries, and no turn once it may stop.
LEMMA SweepRuns ==
    ASSUME NEW s, Cardinality(s.order) \in Nat
    PROVE  \E run : /\ run = [n \in 0..Cardinality(s.order) |->
                                IF n = 0 THEN s ELSE SweptOnce(run[n - 1])]
                   /\ Sweep(s) = run[Cardinality(s.order)]
<1> DEFINE Run(f, k) == f = [n \in 0..k |-> IF n = 0 THEN s ELSE SweptOnce(f[n - 1])]
<1>1. \A k \in Nat : \E f : Run(f, k)
    <2> DEFINE T == {n \in Nat : ~\E f : Run(f, n)}
    <2> SUFFICES ASSUME T # {} PROVE FALSE
        <3> HIDE DEF Run
        <3> QED
            OBVIOUS
    <2>1. PICK m \in T : \A k \in T : m <= k
        <3>1. T \in SUBSET Nat
            OBVIOUS
        <3> HIDE DEF T
        <3> QED
            BY <3>1, LeastOfSome
    <2>2. m # 0
        <3>1. Run([n \in 0..0 |-> s], 0)
            OBVIOUS
        <3> HIDE DEF Run
        <3> QED
            BY <3>1
    <2>3. m \in Nat /\ m - 1 \in Nat /\ m - 1 \notin T
        <3>1. m \in Nat
            OBVIOUS
        <3> HIDE DEF T
        <3> QED
            BY <2>1, <2>2, <3>1
    <2>4. PICK f : Run(f, m - 1)
        BY <2>3
    <2> DEFINE g == [n \in 0..m |-> IF n = m THEN SweptOnce(f[m - 1]) ELSE f[n]]
    <2>5. \A n \in 0..m : g[n] = IF n = 0 THEN s ELSE SweptOnce(g[n - 1])
        <3> TAKE n \in 0..m
        <3>1. CASE n = 0
            BY <2>2, <2>3, <2>4, <3>1
        <3>2. CASE n = m
            BY <2>2, <2>3, <3>2
        <3>3. CASE n # 0 /\ n # m
            <4>1. n \in 0..(m - 1) /\ n - 1 \in 0..(m - 1) /\ n - 1 # m
                BY <2>3, <3>3
            <4>2. f[n] = SweptOnce(f[n - 1])
                BY <2>4, <3>3, <4>1
            <4> QED
                BY <3>3, <4>1, <4>2, <2>3
        <3> QED
            BY <3>1, <3>2, <3>3
    <2>6. g = [n \in 0..m |-> IF n = 0 THEN s ELSE SweptOnce(g[n - 1])]
        <3> DEFINE h == [n \in 0..m |-> IF n = 0 THEN s ELSE SweptOnce(g[n - 1])]
        <3>1. \A n \in 0..m : g[n] = h[n]
            BY <2>5
        <3> QED
            BY <3>1
    <2> QED
        BY <2>1, <2>6
<1> DEFINE K == Cardinality(s.order)
           run == CHOOSE f : Run(f, K)
<1>2. Run(run, K)
    BY <1>1
<1>3. Sweep(s) = run[K]
    BY DEF Sweep
<1> QED
    BY <1>2, <1>3

\* What the whole loop leaves.
LEMMA SweepIsConsistent ==
    ASSUME gateNow \in Int, NEW debts \in [Addresses -> Int], NEW s, Consistent(s, debts)
    PROVE  Consistent(Sweep(s), debts) /\ Stops(Sweep(s))
<1> DEFINE K == Cardinality(s.order)
<1>1. K \in Nat
    BY FS_CardinalityType DEF Consistent
<1>2. PICK run : /\ run = [n \in 0..K |-> IF n = 0 THEN s ELSE SweptOnce(run[n - 1])]
                 /\ Sweep(s) = run[K]
    BY <1>1, SweepRuns
<1> HIDE DEF K
<1> DEFINE Good(n) == /\ Consistent(run[n], debts)
                      /\ Stops(run[n]) \/ Cardinality(run[n].order) = K - n
           Bad == {n \in 0..K : ~Good(n)}
<1>3. Bad = {}
    <2> SUFFICES ASSUME Bad # {} PROVE FALSE
        OBVIOUS
    <2>1. Bad \in SUBSET Nat
        BY <1>1
    <2>2. PICK m \in Bad : \A k \in Bad : m <= k
        <3> HIDE DEF Bad
        <3> QED
            BY <2>1, LeastOfSome
    <2>3. m \in 0..K /\ ~Good(m)
        OBVIOUS
    <2>4. m # 0
        <3>1. run[0] = s
            BY <1>1, <1>2
        <3> QED
            BY <1>1, <2>3, <3>1 DEF K
    <2>5. m - 1 \in 0..K /\ Good(m - 1)
        <3>1. m - 1 \in 0..K /\ ~(m <= m - 1)
            BY <1>1, <2>3, <2>4
        <3> HIDE DEF Good
        <3> QED
            BY <2>2, <3>1
    <2>6. run[m] = SweptOnce(run[m - 1])
        BY <1>2, <2>3, <2>4
    <2>7. CASE Stops(run[m - 1])
        <3>1. run[m] = run[m - 1]
            BY <2>6, <2>7 DEF SweptOnce
        <3> QED
            BY <2>3, <2>5, <2>7, <3>1
    <2>8. CASE ~Stops(run[m - 1])
        <3>1. /\ Consistent(run[m], debts)
              /\ Cardinality(run[m].order) = Cardinality(run[m - 1].order) - 1
            BY <2>5, <2>6, <2>8, SweptOnceIsConsistent
        <3>2. Cardinality(run[m].order) = K - m
            BY <1>1, <2>3, <2>5, <2>8, <3>1
        <3> QED
            BY <2>3, <3>1, <3>2
    <2> QED
        BY <2>7, <2>8
<1>4. Consistent(run[K], debts) /\ (Stops(run[K]) \/ Cardinality(run[K].order) = 0)
    BY <1>1, <1>3
<1>5. CASE Cardinality(run[K].order) = 0
    BY <1>2, <1>4, <1>5, FS_EmptySet DEF Stops, Consistent
<1> QED
    BY <1>2, <1>4, <1>5

LEMMA StoppedIsWithinBounds ==
    ASSUME NEW s, NEW debts, Consistent(s, debts), Stops(s)
    PROVE  Cardinality(DOMAIN s.box) <= MaxPenalised
<1>1. CASE s.order = {}
    <2>1. DOMAIN s.box = {}
        BY <1>1 DEF Consistent
    <2> QED
        BY <2>1, FS_EmptySet, PenaltiesAreNumbers
<1> QED
    BY <1>1 DEF Stops

LEMMA LesserIsOfThem == ASSUME NEW x \in Int, NEW y \in Int PROVE Min({x, y}) \in {x, y}
<1>1. \E m \in {x, y} : \A v \in {x, y} : m <= v
    OBVIOUS
<1> QED
    BY <1>1 DEF Min

LEMMA PenaltyStep == PenaltyInv /\ [GateNext]_gateVars => PenaltyInv'
<1> SUFFICES ASSUME PenaltyInv, [GateNext]_gateVars PROVE PenaltyInv'
    OBVIOUS
<1>1. GateInv'
    BY GateStep DEF PenaltyInv
<1>2. gateNow \in Int /\ gateNow' \in Int /\ gateNow <= gateNow'
    <2>1. gateNow \in Int
        BY DEF PenaltyInv, GateInv, GateTypeOK
    <2>2. gateNow' = gateNow \/ gateNow' = gateNow + 1
        BY DEF GateNext, gateVars, Admit, Receive, BreakRule, HangUp, GiveUp, Second
    <2> QED
        BY <2>1, <2>2
<1>3. CASE UNCHANGED <<box, order, owed, evicted>>
    BY <1>1, <1>2, <1>3 DEF PenaltyInv, Consistent, PenaltyBox
<1>4. ASSUME NEW l \in Links, BreakRule(l) PROVE PenaltyInv'
    <2> DEFINE addr == link[l].address
               strikes == 1 + (IF addr \in DOMAIN box THEN box[addr].strikes ELSE 0)
               until == gateNow + Wait(strikes)
               entered == [a \in DOMAIN box \cup {addr} |->
                              IF a = addr THEN [until |-> until, strikes |-> strikes] ELSE box[a]]
               s == [box |-> entered, order |-> order \cup {<<until, addr>>},
                     evicted |-> evicted \ {addr}]
               debts == [owed EXCEPT ![addr] = until]
    <2>1. /\ box' = Sweep(s).box /\ order' = Sweep(s).order /\ evicted' = Sweep(s).evicted
          /\ owed' = debts /\ gateNow' = gateNow
        BY <1>4 DEF BreakRule
    <2>2. addr \in Addresses
        BY <1>4 DEF BreakRule, PenaltyInv, GateInv, GateTypeOK, OpenLinks
    <2>3. /\ box \in Boxes /\ order \in SUBSET (Int \X Addresses) /\ IsFiniteSet(order)
          /\ evicted \in SUBSET Addresses /\ owed \in [Addresses -> Int]
          /\ \A a \in DOMAIN box : <<box[a].until, a>> \in order /\ box[a].until = owed[a]
          /\ \A a \in Addresses : gateNow < owed[a] => a \in DOMAIN box \cup evicted
        BY DEF PenaltyInv, Consistent, PenaltyBox, Sweepable
    <2>4. PICK A \in SUBSET Addresses : box \in [A -> [until : Int, strikes : Nat]]
        BY <2>3 DEF Boxes
    <2>5. strikes \in Nat \ {0} /\ until \in Int
        <3>1. strikes \in Nat \ {0}
            BY <2>4
        <3> HIDE DEF strikes
        <3>2. Wait(strikes) \in Int
            <4>1. strikes - 1 \in Nat
                BY <3>1
            <4>2. PenaltySeconds * 2^(strikes - 1) \in Int
                BY <4>1, PenaltiesAreNumbers
            <4> QED
                BY <4>2, PenaltiesAreNumbers, LesserIsOfThem DEF Wait
        <3> QED
            BY <1>2, <3>1, <3>2
    <2> HIDE DEF strikes, until
    <2>6. entered \in [A \cup {addr} -> [until : Int, strikes : Nat]]
        BY <2>4, <2>5
    <2>7. s \in Sweepable
        <3>1. entered \in Boxes
            <4> HIDE DEF entered
            <4>1. A \cup {addr} \in SUBSET Addresses
                BY <2>2
            <4> QED
                BY <2>6, <4>1 DEF Boxes
        <3>2. order \cup {<<until, addr>>} \in SUBSET (Int \X Addresses)
            BY <2>2, <2>3, <2>5
        <3> QED
            BY <2>3, <3>1, <3>2 DEF Sweepable
    <2>8. Consistent(s, debts) /\ debts \in [Addresses -> Int]
        <3>1. IsFiniteSet(s.order)
            BY <2>3, FS_AddElement
        <3>2. \A a \in DOMAIN entered : <<entered[a].until, a>> \in s.order /\ entered[a].until = debts[a]
            BY <2>2, <2>3, <2>4, <2>5
        <3>3. \A a \in Addresses : gateNow < debts[a] => a \in DOMAIN entered \cup s.evicted
            BY <2>2, <2>3
        <3>4. debts \in [Addresses -> Int]
            BY <2>3, <2>5
        <3> QED
            BY <2>7, <3>1, <3>2, <3>3, <3>4 DEF Consistent
    <2> HIDE DEF s, debts
    <2>9. Consistent(Sweep(s), debts) /\ Stops(Sweep(s))
        BY <1>2, <2>8, SweepIsConsistent
    <2>10. PenaltyBox' = Sweep(s)
        BY <2>1, <2>9 DEF PenaltyBox, Consistent, Sweepable
    <2>11. Consistent(PenaltyBox, owed)'
        BY <2>1, <2>9, <2>10 DEF Consistent
    <2>12. Cardinality(DOMAIN box') <= MaxPenalised
        BY <2>1, <2>9, StoppedIsWithinBounds
    <2> QED
        BY <1>1, <2>1, <2>8, <2>11, <2>12 DEF PenaltyInv
<1> QED
    BY <1>3, <1>4 DEF GateNext, gateVars, Admit, Receive, HangUp, GiveUp, Second

\* Whoever broke a rule waits until its last penalty is over, unless a full box dropped it,
\* and the box keeps its bound and loses no penalty that no sweep would find, for any
\* addresses, bounds and waits and however penalties of one address supersede each other
\* (net/gate.py, penalise and _sweep).
THEOREM PenaltiesAreKept == GateSpec => []PenaltiesAreServed
<1>1. GateInit => PenaltyInv
    <2> SUFFICES ASSUME GateInit PROVE PenaltyInv
        OBVIOUS
    <2>1. DOMAIN box = {} /\ box \in Boxes
        BY DEF GateInit, Boxes
    <2>2. owed \in [Addresses -> Int] /\ \A a \in Addresses : ~(gateNow < owed[a])
        BY DEF GateInit
    <2>3. PenaltyBox \in Sweepable /\ IsFiniteSet(PenaltyBox.order)
        BY <2>1, FS_EmptySet DEF GateInit, PenaltyBox, Sweepable
    <2>4. Cardinality(DOMAIN box) <= MaxPenalised
        BY <2>1, FS_EmptySet, PenaltiesAreNumbers
    <2> QED
        BY <2>1, <2>2, <2>3, <2>4, GateInitially DEF PenaltyInv, Consistent, PenaltyBox
<1>2. PenaltyInv /\ [GateNext]_gateVars => PenaltyInv'
    BY PenaltyStep
<1>3. PenaltyInv => PenaltiesAreServed
    BY DEF PenaltyInv, PenaltiesAreServed, Consistent, PenaltyBox, Penalised
<1> QED
    BY <1>1, <1>2, <1>3, PTL DEF GateSpec

-----------------------------------------------------------------------------
(***************************************************************************)
(* Why the table of buckets stays whole: what is swept is a run at its front, *)
(* what is charged goes to its back, and time does not go backwards.          *)
(***************************************************************************)
TableInv ==
    /\ recent \in Seq(Sources)
    /\ \A i \in 1 .. Len(recent) : recent[i] \in DOMAIN buckets
    /\ \A s \in DOMAIN buckets : \E i \in 1 .. Len(recent) : recent[i] = s
    /\ \A i, j \in 1 .. Len(recent) : i < j =>
         recent[i] # recent[j] /\ buckets[recent[i]].last <= buckets[recent[j]].last
    /\ Len(recent) <= MaxSources

MeterInv == LimiterInv /\ TableInv

LEMMA PrefixIsThere ==
    ASSUME recent \in Seq(Sources)
    PROVE  IdlePrefix \in 0 .. Len(recent)
<1> DEFINE RunsOut(n) == n < Len(recent) => ~IsIdle(buckets[recent[n + 1]])
           T == {n \in 0 .. Len(recent) : RunsOut(n)}
<1>0. PICK l : l = Len(recent) /\ l \in Nat
    OBVIOUS
<1>1. l \in T /\ T \in SUBSET Nat
    BY <1>0
<1>2. PICK n \in T : \A k \in T : n <= k
    BY <1>1, LeastOfSome
<1>3. n \in 0 .. l /\ RunsOut(n)
    BY <1>0, <1>2
<1>4. \A i \in 1 .. n : IsIdle(buckets[recent[i]])
    <2> SUFFICES ASSUME NEW i \in 1 .. n, ~IsIdle(buckets[recent[i]]) PROVE FALSE
        OBVIOUS
    <2>1. PICK j \in 0 .. l : j + 1 = i /\ j < n /\ n \in Int
        <3>1. i - 1 \in 0 .. l /\ (i - 1) + 1 = i /\ i - 1 < n /\ n \in Int
            BY <1>0, <1>3
        <3> QED
            BY <3>1
    <2>2. ~IsIdle(buckets[recent[j + 1]])
        BY <2>1
    <2>3. j \in T
        BY <1>0, <2>2
    <2> QED
        BY <1>2, <2>1, <2>3
<1> QED
    BY <1>0, <1>3, <1>4 DEF IdlePrefix

LEMMA LargerOfTwo ==
    ASSUME NEW x \in Int, NEW y \in Int
    PROVE  Max({x, y}) \in {x, y} /\ Max({x, y}) >= x /\ Max({x, y}) >= y
<1>1. \E u \in {x, y} : \A v \in {x, y} : u >= v
    <2>1. CASE x >= y
        BY <2>1
    <2>2. CASE y >= x
        BY <2>2
    <2> QED
        BY <2>1, <2>2
<1>2. Max({x, y}) \in {x, y} /\ \A v \in {x, y} : Max({x, y}) >= v
    BY <1>1 DEF Max
<1> QED
    BY <1>2

\* What is left of the table when a source is charged, which has then room for it.
LEMMA RoomIsMade ==
    ASSUME MeterInv, NEW s \in Sources, NEW gone,
           gone = IF s \in DOMAIN buckets THEN {} ELSE {recent[i] : i \in 1 .. Swept(IdlePrefix)}
    PROVE  LET where == {i \in DOMAIN recent : recent[i] \notin gone \cup {s}}
           IN Cardinality(where) <= MaxSources - 1
<1> DEFINE where == {i \in DOMAIN recent : recent[i] \notin gone \cup {s}}
<1>0. PICK l : l = Len(recent) /\ l \in Nat /\ DOMAIN recent = 1 .. l /\ l <= MaxSources
    BY DEF MeterInv, TableInv
<1>1. MaxSources \in Nat \ {0}
    BY LimiterAssumption
<1>2. CASE s \in DOMAIN buckets
    <2>1. PICK i \in 1 .. l : recent[i] = s
        BY <1>0, <1>2 DEF MeterInv, TableInv
    <2>2. where \subseteq (1 .. l) \ {i}
        BY <1>0, <2>1
    <2>3. 1 \in Int /\ l \in Int
        BY <1>0
    <2>4. IsFiniteSet(1 .. l) /\ Cardinality(1 .. l) = l
        BY <1>0, <2>3, FS_Interval
    <2>5. IsFiniteSet((1 .. l) \ {i}) /\ Cardinality((1 .. l) \ {i}) = l - 1
        BY <2>1, <2>4, FS_RemoveElement
    <2> DEFINE others == (1 .. l) \ {i}
    <2> HIDE DEF where, others
    <2>6. IsFiniteSet(where) /\ Cardinality(where) <= l - 1
        <3>1. where \subseteq others /\ IsFiniteSet(others) /\ Cardinality(others) = l - 1
            BY <2>2, <2>5 DEF others
        <3> QED
            BY <3>1, FS_Subset
    <2>7. Cardinality(where) \in Nat
        BY <2>6, FS_CardinalityType
    <2>8. Cardinality(where) <= MaxSources - 1
        BY <1>0, <1>1, <2>6, <2>7
    <2> QED
        BY <2>8 DEF where
<1>3. CASE s \notin DOMAIN buckets
    <2>1. PICK n : n = Swept(IdlePrefix) /\ n \in Int /\ n >= l - MaxSources + 1 /\ n <= l /\ n >= 0
        <3>1. IdlePrefix \in 0 .. l
            BY <1>0, PrefixIsThere DEF MeterInv, TableInv
        <3> DEFINE p == IdlePrefix
                   e == l - MaxSources + 1
        <3>2. p \in Int /\ e \in Int /\ p <= l /\ e <= l /\ p >= 0
            BY <1>0, <1>1, <3>1
        <3>3. Swept(p) = Max({p, e})
            BY <1>0 DEF Swept
        <3> HIDE DEF p, e
        <3>4. Max({p, e}) \in {p, e} /\ Max({p, e}) >= p /\ Max({p, e}) >= e
            BY <3>2, LargerOfTwo
        <3>5. Swept(p) \in Int /\ Swept(p) >= e /\ Swept(p) <= l /\ Swept(p) >= 0
            BY <1>0, <3>2, <3>3, <3>4
        <3> QED
            BY <3>5 DEF p, e
    <2>2. where \subseteq n + 1 .. l
        BY <1>0, <1>3, <2>1
    <2>3. n + 1 \in Int /\ l \in Int
        BY <1>0, <2>1
    <2>4. IsFiniteSet(n + 1 .. l) /\ Cardinality(n + 1 .. l) = l - n
        <3>1. IsFiniteSet(n + 1 .. l) /\ Cardinality(n + 1 .. l) = IF n + 1 > l THEN 0 ELSE l - (n + 1) + 1
            BY <2>3, FS_Interval
        <3> QED
            BY <1>0, <2>1, <3>1
    <2> HIDE DEF where
    <2>5. IsFiniteSet(where) /\ Cardinality(where) <= l - n
        BY <2>2, <2>4, FS_Subset
    <2>6. Cardinality(where) \in Nat
        BY <2>5, FS_CardinalityType
    <2>7. Cardinality(where) <= MaxSources - 1
        BY <1>0, <1>1, <2>1, <2>5, <2>6
    <2> QED
        BY <2>7 DEF where
<1> QED
    BY <1>2, <1>3

LEMMA ChargedKeepsTheTable ==
    ASSUME MeterInv, NEW s \in Sources, NEW cost \in Nat, Charge(s, cost)
    PROVE  TableInv'
<1>0. PICK gone, where, took :
        /\ gone = IF s \in DOMAIN buckets THEN {} ELSE {recent[i] : i \in 1 .. Swept(IdlePrefix)}
        /\ where = {i \in DOMAIN recent : recent[i] \notin gone \cup {s}}
        /\ took = Take(s, IF s \in DOMAIN buckets THEN buckets[s]
                          ELSE [capacity |-> BuiltFor(s), tokens |-> BuiltFor(s), last |-> clock],
                       cost, clock)
    OBVIOUS
<1>1. /\ buckets' = [t \in (DOMAIN buckets \ gone) \cup {s} |-> IF t = s THEN took.bucket ELSE buckets[t]]
      /\ recent' = Append(Selected(recent, where), s)
    BY <1>0 DEF Charge, Lacking
<1>2. took.bucket.last = clock
    BY <1>0 DEF Take
<1>3. PICK l : l = Len(recent) /\ l \in Nat /\ DOMAIN recent = 1 .. l /\ recent \in Seq(Sources)
    BY DEF MeterInv, TableInv
<1>4. PICK n, kept : n = Cardinality(where) /\ kept = Selected(recent, where)
    OBVIOUS
<1>5. /\ n \in Nat /\ kept \in Seq(Sources) /\ Len(kept) = n
      /\ \A k \in 1 .. n : Nth(where, k) \in where /\ kept[k] = recent[Nth(where, k)]
      /\ \A k, m \in 1 .. n : k < m => Nth(where, k) < Nth(where, m)
      /\ \A i \in where : \E k \in 1 .. n : kept[k] = recent[i]
    <2>1. where \in SUBSET (1 .. Len(recent))
        BY <1>0, <1>3
    <2> QED
        <3>1. /\ Cardinality(where) \in 0 .. Len(recent)
              /\ Selected(recent, where) \in Seq(Sources) /\ Len(Selected(recent, where)) = Cardinality(where)
              /\ \A k \in 1 .. Cardinality(where) :
                   Nth(where, k) \in where /\ Selected(recent, where)[k] = recent[Nth(where, k)]
              /\ \A k, m \in 1 .. Cardinality(where) : k < m => Nth(where, k) < Nth(where, m)
              /\ \A i \in where : \E k \in 1 .. Cardinality(where) : Selected(recent, where)[k] = recent[i]
            BY <1>3, <2>1, SelectedFacts
        <3> QED
            BY <1>3, <1>4, <3>1
<1>6. n <= MaxSources - 1
    BY <1>0, <1>4, RoomIsMade
<1>7. \A k \in 1 .. n : /\ kept[k] \in DOMAIN buckets \ (gone \cup {s})
                        /\ buckets[kept[k]].last <= clock
    <2>1. \A i \in where : recent[i] \in DOMAIN buckets \ (gone \cup {s})
        BY <1>0, <1>3 DEF MeterInv, TableInv
    <2>2. \A t \in DOMAIN buckets : buckets[t].last <= clock
        BY DEF MeterInv, LimiterInv, LimiterTypeOK
    <2> QED
        BY <1>5, <2>1, <2>2
<1>8. \A k, m \in 1 .. n : k < m => kept[k] # kept[m] /\ buckets[kept[k]].last <= buckets[kept[m]].last
    <2>1. \A i, j \in 1 .. l : i < j => recent[i] # recent[j] /\ buckets[recent[i]].last <= buckets[recent[j]].last
        BY <1>3 DEF MeterInv, TableInv
    <2>2. where \subseteq 1 .. l
        BY <1>0, <1>3
    <2> QED
        BY <1>5, <2>1, <2>2
<1>9. \A t \in DOMAIN buckets \ (gone \cup {s}) : \E k \in 1 .. n : kept[k] = t
    <2>1. \A t \in DOMAIN buckets \ (gone \cup {s}) : \E i \in where : recent[i] = t
        BY <1>0, <1>3 DEF MeterInv, TableInv
    <2> QED
        BY <1>5, <2>1
<1>10. /\ recent' \in Seq(Sources) /\ Len(recent') = n + 1 /\ recent'[n + 1] = s
       /\ \A k \in 1 .. n : recent'[k] = kept[k]
    <2>1. recent' = Append(kept, s)
        BY <1>1, <1>4
    <2> QED
        BY <1>5, <2>1
<1> HIDE DEF MeterInv
<1>11. /\ DOMAIN buckets' = (DOMAIN buckets \ gone) \cup {s} /\ buckets'[s].last = clock
       /\ \A t \in DOMAIN buckets \ (gone \cup {s}) : buckets'[t] = buckets[t]
    BY <1>1, <1>2
<1>12. \A i \in 1 .. n + 1 : recent'[i] \in DOMAIN buckets'
    BY <1>5, <1>7, <1>10, <1>11
<1>13. \A t \in DOMAIN buckets' : \E i \in 1 .. n + 1 : recent'[i] = t
    <2> SUFFICES ASSUME NEW t \in DOMAIN buckets' PROVE \E i \in 1 .. n + 1 : recent'[i] = t
        OBVIOUS
    <2>1. CASE t = s
        <3>1. n + 1 \in 1 .. n + 1
            BY <1>5
        <3> QED
            BY <1>10, <2>1, <3>1
    <2>2. CASE t # s
        <3>1. PICK k \in 1 .. n : kept[k] = t
            BY <1>9, <1>11, <2>2
        <3>2. k \in 1 .. n + 1
            BY <1>5
        <3> QED
            BY <1>10, <3>1, <3>2
    <2> QED
        BY <2>1, <2>2
<1>14. \A i, j \in 1 .. n + 1 : i < j =>
          recent'[i] # recent'[j] /\ buckets'[recent'[i]].last <= buckets'[recent'[j]].last
    <2> SUFFICES ASSUME NEW i \in 1 .. n + 1, NEW j \in 1 .. n + 1, i < j
                 PROVE  recent'[i] # recent'[j] /\ buckets'[recent'[i]].last <= buckets'[recent'[j]].last
        OBVIOUS
    <2>1. i \in 1 .. n
        BY <1>5
    <2>2. recent'[i] = kept[i] /\ kept[i] \in DOMAIN buckets \ (gone \cup {s})
          /\ buckets'[recent'[i]] = buckets[kept[i]] /\ buckets[kept[i]].last <= clock
        BY <1>7, <1>10, <1>11, <2>1
    <2>3. CASE j = n + 1
        BY <1>10, <1>11, <2>2, <2>3
    <2>4. CASE j # n + 1
        <3>1. j \in 1 .. n
            BY <1>5, <2>4
        <3>2. recent'[j] = kept[j] /\ buckets'[recent'[j]] = buckets[kept[j]]
            BY <1>7, <1>10, <1>11, <3>1
        <3> QED
            BY <1>8, <2>1, <2>2, <3>1, <3>2
    <2> QED
        BY <2>3, <2>4
<1>15. n + 1 <= MaxSources
    BY <1>5, <1>6, LimiterAssumption
<1> QED
    BY <1>10, <1>12, <1>13, <1>14, <1>15 DEF TableInv

LEMMA MeterStep == MeterInv /\ [LimiterNext]_limiterVars => MeterInv'
<1> SUFFICES ASSUME MeterInv, [LimiterNext]_limiterVars PROVE MeterInv'
    OBVIOUS
<1>1. LimiterInv'
    BY LimiterStep DEF MeterInv
<1>2. ASSUME NEW s \in Sources, ChargeFrame(s) \/ ChargeQuery(s) \/ ChargeTx(s) PROVE TableInv'
    <2>1. BytesCost \in Nat /\ QueryCost \in Nat /\ TxPrice \in Nat
        BY LimiterAssumption, RatesAndCosts DEF LimiterInv, MeterInv
    <2> QED
        BY <1>2, <2>1, ChargedKeepsTheTable DEF ChargeFrame, ChargeQuery, ChargeTx
<1>3. ASSUME NEW m \in 1..MaxMultiple, ObserveUnit(m) PROVE TableInv'
    BY <1>3 DEF ObserveUnit, MeterInv, TableInv
<1>4. ASSUME LimiterTick \/ UNCHANGED limiterVars PROVE TableInv'
    BY <1>4 DEF LimiterTick, limiterVars, MeterInv, TableInv
<1> QED
    BY <1>1, <1>2, <1>3, <1>4 DEF LimiterNext, MeterInv

\* A bucket that is left alone for the idle time is full, of a burst that covers a largest
\* frame with a submission in it.
LEMMA PatienceIsRewarded == MeterInv => PatientClientsSubmit
<1> SUFFICES ASSUME MeterInv, NEW s \in Clients \cap DOMAIN buckets
             PROVE  LET frame == Take(s, buckets[s], BytesCost, clock + IdleAfter)
                    IN frame.ok /\ Take(s, frame.bucket, TxPrice, clock + IdleAfter).ok
    BY DEF PatientClientsSubmit
<1> DEFINE then == clock + IdleAfter
           b == buckets[s]
           frame == Take(s, b, BytesCost, then)
<1>1. /\ s \in Sources /\ b \in Bucket /\ b.last <= clock /\ b.capacity <= Largest(s)
      /\ clock \in Nat /\ IdleAfter \in Nat /\ BytesCost \in Nat /\ s \notin Validators
    BY LimiterAssumption DEF MeterInv, LimiterInv, LimiterTypeOK, Sources
<1>2. /\ RateOf(s) \in Nat /\ Largest(s) \in Nat /\ TxPrice \in Nat /\ FloorCapacity \in Nat
      /\ FloorCapacity <= Largest(s) /\ RateOf(s) * IdleAfter >= Largest(s)
    BY <1>1, RatesAndCosts DEF MeterInv, LimiterInv
<1>3. b.last \in Nat /\ b.tokens \in Nat /\ b.capacity \in Nat /\ then \in Nat
    BY <1>1 DEF Bucket
<1> HIDE DEF b
<1>4. PICK earned : /\ earned = (then - b.last) * RateOf(s) /\ earned \in Nat /\ earned >= Largest(s)
    <2>1. IdleAfter <= then - b.last /\ then - b.last \in Nat
        BY <1>1, <1>3
    <2> DEFINE gap == then - b.last
    <2> HIDE DEF gap, then
    <2>2. RateOf(s) * gap >= RateOf(s) * IdleAfter /\ gap * RateOf(s) = RateOf(s) * gap /\ gap * RateOf(s) \in Nat
        BY <1>1, <1>2, <2>1, EarnsWithTime DEF gap
    <2> QED
        BY <1>1, <1>2, <2>2 DEF gap
<1>5. PICK high : high = Raised(s, b) /\ high \in Nat /\ high >= FloorCapacity /\ high <= Largest(s)
    BY <1>1, <1>2, <1>3, MaxOfTwo DEF Raised
<1>6. PICK filled : filled = Refilled(s, b, then) /\ filled = high
    <2>1. Refilled(s, b, then) = Min({high, b.tokens + earned})
        BY <1>4, <1>5 DEF Refilled
    <2>2. b.tokens + earned \in Nat /\ b.tokens + earned >= high
        BY <1>2, <1>3, <1>4, <1>5
    <2>3. Min({high, b.tokens + earned}) = high
        BY <1>5, <2>2 DEF Min
    <2> QED
        BY <2>1, <2>3
<1>7. FloorCapacity = TxPrice + BytesCost
    BY DEF FloorCapacity
<1>8. filled >= BytesCost
    BY <1>1, <1>2, <1>5, <1>6, <1>7
<1>9. frame = [ok |-> TRUE, bucket |-> [capacity |-> high, last |-> then, tokens |-> filled - BytesCost]]
    BY <1>5, <1>6, <1>8 DEF Take
<1> HIDE DEF frame
<1>10. PICK c : c = frame.bucket /\ c.capacity = high /\ c.last = then /\ c.tokens = filled - BytesCost
    BY <1>9
<1>11. Raised(s, c) \in Nat /\ Raised(s, c) >= high
    BY <1>1, <1>2, <1>5, <1>10, MaxOfTwo DEF Raised
<1>12. Refilled(s, c, then) >= TxPrice
    <2>1. (then - c.last) * RateOf(s) = 0
        BY <1>2, <1>3, <1>10
    <2>2. c.tokens \in Nat /\ c.tokens >= TxPrice /\ c.tokens + 0 = c.tokens
        BY <1>1, <1>2, <1>5, <1>6, <1>7, <1>10
    <2>3. Refilled(s, c, then) = Min({Raised(s, c), c.tokens})
        BY <2>1, <2>2 DEF Refilled
    <2>4. Raised(s, c) >= TxPrice
        BY <1>1, <1>2, <1>5, <1>7, <1>11
    <2>5. Min({Raised(s, c), c.tokens}) \in {Raised(s, c), c.tokens}
        BY <1>11, <2>2, LesserIsOfThem
    <2> QED
        BY <2>2, <2>3, <2>4, <2>5
<1>13. Take(s, c, TxPrice, then).ok
    BY <1>12 DEF Take
<1> QED
    BY <1>9, <1>10, <1>13 DEF frame, b

\* For every price list, every price a proof may come to have and any number of sources:
\* a client that waits is served, and the table of buckets is never larger than its cap,
\* nor parted from the order it is swept in (net/limits.py, TokenBucket.take, Limiter.check
\* and _sweep).
THEOREM MetersAreBearable == LimiterSpec => []MeterIsBearable
<1>1. LimiterInit => MeterInv
    <2> SUFFICES ASSUME LimiterInit PROVE TableInv
        BY LimiterInitially DEF MeterInv
    <2> QED
        BY LimiterAssumption DEF LimiterInit, TableInv
<1>2. MeterInv /\ [LimiterNext]_limiterVars => MeterInv'
    BY MeterStep
<1>3. MeterInv => TableIsBounded
    <2> SUFFICES ASSUME MeterInv PROVE TableIsBounded
        OBVIOUS
    <2>1. DOMAIN recent = 1 .. Len(recent)
        BY DEF MeterInv, TableInv
    <2>2. ToSet(recent) = DOMAIN buckets
        BY <2>1, ZenonT(40) DEF ToSet, MeterInv, TableInv
    <2> QED
        BY <2>1, <2>2 DEF MeterInv, TableInv, TableIsBounded
<1>4. MeterInv => MeterIsBearable
    BY <1>3, PatienceIsRewarded DEF MeterIsBearable
<1> QED
    BY <1>1, <1>2, <1>4, PTL DEF LimiterSpec
=============================================================================
