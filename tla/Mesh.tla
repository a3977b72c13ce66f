---- MODULE Mesh ----
(* One directed connection of the mesh and its successors (net/peer.py, handshake.py,
   frame.py): a seat dials, proves itself with a hello, and several of its threads send
   frames that are signed for the session the hello opened.  A signature is the fields it
   covers.  Sockets are numbered in the order they are dialled, and the nonce of a hello
   is the number of its socket. *)
EXTENDS Integers, Sequences, FiniteSets, SequencesExt

CONSTANTS
    Threads,         \* senders of the dialling node
    Sockets,         \* 1..n: a bound on reconnections
    EpochSlack,      \* epochs a hello may be off by
    MaxSeen,         \* nonces remembered
    MaxFrames, MaxPath, MaxEpochs   \* bounds

VARIABLES
    out,             \* the socket sends go to, or NoSocket
    dialling,        \* a socket whose hello is sent and which is not in out yet
    sealer,          \* [session, seq]
    sender,          \* thread -> [at, sock, frame]
    socketLock,      \* the thread inside send, or NoThread
    wire,            \* socket -> frames on their way
    alive,           \* socket -> it can still carry
    conn,            \* socket -> [at, session, lastSeq, taken]: the listener's end
    nonces,            \* (nonce, epoch) the listener remembers
    meshEpoch,
    framesSent, pathFaults, refusedHonest,
    droppedAlive     \* a failed write took away a connection that could still carry

meshVars == <<out, dialling, sealer, sender, socketLock, wire, alive, conn, nonces, meshEpoch,
              framesSent, pathFaults, refusedHonest, droppedAlive>>

NoSocket == 0
NoThread == "none"
NoSession == 0

ASSUME MeshAssumption ==
    /\ Sockets \subseteq Nat \ {NoSocket} /\ NoThread \notin Threads
    /\ EpochSlack \in Nat

Unsealed == [session |-> NoSession, seq |-> 0]
NotSending == [at |-> "ready", sock |-> NoSocket, frame |-> Unsealed]

HelloFrame(nonce, e) == [kind |-> "hello", session |-> nonce, epoch |-> e, id |-> 0, seq |-> 0]
SealedFrame(seal, id) == [kind |-> "frame", session |-> seal.session, epoch |-> 0, id |-> id,
                          seq |-> seal.seq]

\* ---- the dialling node ----

\* _dial_loop: a connection, a hello, and with it a new session, before out knows of it.
Dial(s) ==
    /\ out = NoSocket /\ dialling = NoSocket /\ conn[s].at = "none"
    /\ \A r \in Sockets : r < s => conn[r].at # "none"
    /\ dialling' = s
    /\ sealer' = [session |-> s, seq |-> 0]
    /\ wire' = [wire EXCEPT ![s] = <<HelloFrame(s, meshEpoch)>>]
    /\ alive' = [alive EXCEPT ![s] = TRUE]
    /\ conn' = [conn EXCEPT ![s].at = "unproved"]
    /\ UNCHANGED <<out, sender, socketLock, nonces, meshEpoch, framesSent, pathFaults, refusedHonest, droppedAlive>>

Dialled ==
    /\ dialling # NoSocket
    /\ out' = dialling /\ dialling' = NoSocket
    /\ UNCHANGED <<sealer, sender, socketLock, wire, alive, conn, nonces, meshEpoch, framesSent,
                   pathFaults, refusedHonest, droppedAlive>>

\* send, up to the lock: the socket is read outside it.
ChooseSocket(t) ==
    /\ sender[t].at = "ready" /\ out # NoSocket /\ framesSent < MaxFrames
    /\ framesSent' = framesSent + 1
    /\ sender' = [sender EXCEPT ![t] = [at |-> "chosen", sock |-> out,
                                        frame |-> [session |-> sealer.session, seq |-> sealer.seq + 1]]]
    /\ UNCHANGED <<out, dialling, sealer, socketLock, wire, alive, conn, nonces, meshEpoch, pathFaults,
                   refusedHonest, droppedAlive>>

NumberedAtChoice(t) == [sender[t].frame EXCEPT !.session = sender[t].frame.session]
\* Packed under the lock, so that numbers reach the socket in order.
Numbered(t) == [session |-> sealer.session, seq |-> sealer.seq + 1]

PackFrame(t) ==
    /\ sender[t].at = "chosen" /\ socketLock = NoThread
    /\ socketLock' = t
    /\ \E seal \in {Numbered(t)} :
          /\ sealer' = [sealer EXCEPT !.seq = @ + 1]
          /\ sender' = [sender EXCEPT ![t].at = "packed", ![t].frame = seal]
    /\ UNCHANGED <<out, dialling, wire, alive, conn, nonces, meshEpoch, framesSent, pathFaults,
                   refusedHonest, droppedAlive>>

\* sendall, or an OSError: whatever out holds by now is dropped, this socket is closed.
WriteFrame(t) ==
    /\ sender[t].at = "packed"
    /\ socketLock' = NoThread
    /\ sender' = [sender EXCEPT ![t] = NotSending]
    /\ IF alive[sender[t].sock]
       THEN /\ wire' = [wire EXCEPT ![sender[t].sock] =
                           Append(@, SealedFrame(sender[t].frame, framesSent))]
            /\ UNCHANGED <<out, droppedAlive>>
       ELSE /\ out' = NoSocket /\ UNCHANGED wire
            /\ droppedAlive' = (droppedAlive \/ (out # NoSocket /\ alive[out]))
    /\ UNCHANGED <<dialling, sealer, alive, conn, nonces, meshEpoch, framesSent, pathFaults, refusedHonest>>

\* ---- the listening node ----

Listens(s) == conn[s].at \in {"unproved", "seated"} /\ wire[s] # <<>>
Tamed == pathFaults = 0

\* FrameError: the connection ends, and the frame that ended it came from an honest node
\* if nothing on the path meddled.
Refuse(s, honest) ==
    /\ conn' = [conn EXCEPT ![s].at = "closed"]
    /\ alive' = [alive EXCEPT ![s] = FALSE]
    /\ refusedHonest' = (refusedHonest \/ (Tamed /\ honest))

\* _sweep and _full.
Fresh(e) == {n \in nonces : n.epoch \in (e - EpochSlack)..(e + EpochSlack)}
WindowFull == Cardinality(nonces) >= MaxSeen /\ Cardinality(Fresh(meshEpoch)) >= MaxSeen

AnyNonce(frame) == frame.epoch \in (meshEpoch - EpochSlack)..(meshEpoch + EpochSlack)
\* Verifier.check.
HelloHolds(frame) ==
    /\ frame.epoch \in (meshEpoch - EpochSlack)..(meshEpoch + EpochSlack)
    /\ \A n \in nonces : n.nonce # frame.session

TakeHello(s) ==
    /\ Listens(s) /\ Head(wire[s]).kind = "hello"
    /\ wire' = [wire EXCEPT ![s] = Tail(@)]
    /\ LET frame == Head(wire[s])
       IN IF HelloHolds(frame) /\ ~WindowFull
          THEN /\ nonces' = (IF Cardinality(nonces) >= MaxSeen THEN Fresh(meshEpoch) ELSE nonces)
                             \cup {[nonce |-> frame.session, epoch |-> frame.epoch]}
               /\ conn' = [conn EXCEPT ![s].at = "seated", ![s].session = frame.session, ![s].lastSeq = 0,
                                       ![s].opened = Append(@, frame.session)]
               /\ UNCHANGED <<alive, refusedHonest>>
          ELSE Refuse(s, ~WindowFull) /\ UNCHANGED nonces
    /\ UNCHANGED <<out, dialling, sealer, sender, socketLock, meshEpoch, framesSent, pathFaults, droppedAlive>>

AnySession(s, frame) == frame.seq > conn[s].lastSeq
\* SealCheck.check: signed for this session, after everything taken so far.
SealHolds(s, frame) == frame.seq > conn[s].lastSeq /\ frame.session = conn[s].session

TakeFrame(s) ==
    /\ Listens(s) /\ Head(wire[s]).kind = "frame"
    /\ wire' = [wire EXCEPT ![s] = Tail(@)]
    /\ LET frame == Head(wire[s])
       IN IF conn[s].at = "seated" /\ SealHolds(s, frame)
          THEN /\ conn' = [conn EXCEPT ![s].lastSeq = frame.seq, ![s].taken = Append(@, frame)]
               /\ UNCHANGED <<alive, refusedHonest>>
          ELSE Refuse(s, TRUE)
    /\ UNCHANGED <<out, dialling, sealer, sender, socketLock, nonces, meshEpoch, framesSent, pathFaults, droppedAlive>>

\* ---- the path and the clock ----

Meddles == pathFaults < MaxPath /\ pathFaults' = pathFaults + 1

\* The path loses what was sent, or delivers again, on this connection or another.
LoseFrame(s) ==
    /\ Meddles /\ wire[s] # <<>>
    /\ wire' = [wire EXCEPT ![s] = Tail(@)]
    /\ UNCHANGED <<out, dialling, sealer, sender, socketLock, alive, conn, nonces, meshEpoch, framesSent,
                   refusedHonest, droppedAlive>>

RepeatFrame(from, to) ==
    /\ Meddles /\ wire[from] # <<>> /\ conn[to].at \in {"unproved", "seated"}
    /\ wire' = [wire EXCEPT ![to] = Append(@, Head(wire[from]))]
    /\ UNCHANGED <<out, dialling, sealer, sender, socketLock, alive, conn, nonces, meshEpoch, framesSent,
                   refusedHonest, droppedAlive>>

\* A connection dies on its own; what was on it is lost.
BreakSocket(s) ==
    /\ alive[s] /\ conn[s].at # "none"
    /\ alive' = [alive EXCEPT ![s] = FALSE]
    /\ wire' = [wire EXCEPT ![s] = <<>>]
    /\ conn' = [conn EXCEPT ![s].at = "closed"]
    /\ UNCHANGED <<out, dialling, sealer, sender, socketLock, nonces, meshEpoch, framesSent, pathFaults,
                   refusedHonest, droppedAlive>>

\* A hello is in flight across one boundary at most.
MeshTick ==
    /\ meshEpoch < MaxEpochs /\ meshEpoch' = meshEpoch + 1
    /\ \A s \in Sockets : \A i \in DOMAIN wire[s] :
          wire[s][i].kind = "hello" => wire[s][i].epoch > meshEpoch - EpochSlack
    /\ UNCHANGED <<out, dialling, sealer, sender, socketLock, wire, alive, conn, nonces, framesSent,
                   pathFaults, refusedHonest, droppedAlive>>

MeshInit ==
    /\ out = NoSocket /\ dialling = NoSocket /\ sealer = Unsealed
    /\ sender = [t \in Threads |-> NotSending] /\ socketLock = NoThread
    /\ wire = [s \in Sockets |-> <<>>] /\ alive = [s \in Sockets |-> FALSE]
    /\ conn = [s \in Sockets |-> [at |-> "none", session |-> NoSession, lastSeq |-> 0, taken |-> <<>>,
                                  opened |-> <<>>]]
    /\ nonces = {} /\ meshEpoch = 0 /\ framesSent = 0 /\ pathFaults = 0 /\ refusedHonest = FALSE
    /\ droppedAlive = FALSE

MeshNext ==
    \/ Dialled \/ MeshTick
    \/ \E s \in Sockets : Dial(s) \/ TakeHello(s) \/ TakeFrame(s) \/ LoseFrame(s) \/ BreakSocket(s)
    \/ \E from, to \in Sockets : RepeatFrame(from, to)
    \/ \E t \in Threads : ChooseSocket(t) \/ PackFrame(t) \/ WriteFrame(t)

MeshSpec == MeshInit /\ [][MeshNext]_meshVars

\* ---- properties ----

\* What the listener takes from a connection is what was sent for the session that opened
\* it, in the order it was numbered and nothing twice, over all the connections there ever
\* were and whatever the path loses, repeats or moves between them.
StreamIsTheSenders ==
    /\ \A s \in Sockets : \A i \in DOMAIN conn[s].taken :
          /\ conn[s].taken[i].session \in ToSet(conn[s].opened)
          /\ \A j \in 1..(i - 1) : conn[s].taken[j].session = conn[s].taken[i].session
                                     => conn[s].taken[j].seq < conn[s].taken[i].seq
    /\ \A r, s \in Sockets : \A i \in DOMAIN conn[r].taken, j \in DOMAIN conn[s].taken :
          conn[r].taken[i] = conn[s].taken[j] => r = s /\ i = j

\* One hello opens one session, once.
SessionsOpenOnce ==
    \A r, s \in Sockets : \A i \in DOMAIN conn[r].opened, j \in DOMAIN conn[s].opened :
        conn[r].opened[i] = conn[s].opened[j] => r = s /\ i = j

\* Nothing is taken that was not sent, nor opened that was not asked for.
MeshIsFaithful == StreamIsTheSenders /\ SessionsOpenOnce

\* While the path delivers what it is given or dies, no frame of a node whose threads send
\* at once, while it reconnects, is refused, unless a write that failed on a connection
\* already replaced has taken the new one away: a refusal costs it the connection and a wait.
HonestFramesAreTaken == refusedHonest => droppedAlive

\* The same without the exception, which the code does not keep.
HonestFramesAreAlwaysTaken == ~refusedHonest
====
