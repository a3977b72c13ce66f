---- MODULE MC_Network ----
(* What stands between a node and the others, a part at a time: the mesh, the gate, the
   meter, the directory, the rules they agree to run, and the clock they share. *)
EXTENDS Mesh, Gate, Limiter, Directory, Activation, ViewTiming

VARIABLE part

\* The first untried attester in ascending order, in every view.
Ascending(e, v, T) ==
    CHOOSE s \in Attesters \ T : \A t \in Attesters \ T : s <= t

\* A line: nobody but the middle one names the ends.
Files == <<{2}, {1, 3}, {2}>>

UnequalBuilds == <<1, 2, 3, 3>>
Entries == (2..3) \X (1..4)

NetworkInit ==
    /\ part \in {"mesh", "gate", "limiter", "directory", "activation", "clock"}
    /\ MeshInit /\ GateInit /\ LimiterInit /\ DirectoryInit /\ ActivationInit /\ Init
    /\ part # "activation" => activations = {}
NetworkNext ==
    /\ part' = part
    /\ \/ part = "mesh" /\ MeshNext
          /\ UNCHANGED <<gateVars, limiterVars, directoryVars, activationVars, vars>>
       \/ part = "gate" /\ GateNext
          /\ UNCHANGED <<meshVars, limiterVars, directoryVars, activationVars, vars>>
       \/ part = "limiter" /\ LimiterNext
          /\ UNCHANGED <<meshVars, gateVars, directoryVars, activationVars, vars>>
       \/ part = "directory" /\ DirectoryNext
          /\ UNCHANGED <<meshVars, gateVars, limiterVars, activationVars, vars>>
       \/ part = "activation" /\ ActivationNext
          /\ UNCHANGED <<meshVars, gateVars, limiterVars, directoryVars, vars>>
       \/ part = "clock" /\ TimedNext
          /\ UNCHANGED <<meshVars, gateVars, limiterVars, directoryVars, activationVars>>

\* Epochs pass and loops turn; what is sent every epoch is sent again and again.
NetworkFairness ==
    /\ WF_directoryVars(part = "directory" /\ NextEpoch)
    /\ \A n, s \in Roster : /\ WF_directoryVars(part = "directory" /\ ShareIntoTheVoid(n, s))
                            /\ WF_directoryVars(part = "directory" /\ ShareInTime(n, s))
                            /\ WF_directoryVars(part = "directory" /\ Connect(n, s))
    /\ \A s \in Seats : WF_vars(part = "clock" /\ TimedStep(s))

NetworkSpec ==
    /\ NetworkInit
    /\ [][NetworkNext]_<<part, meshVars, gateVars, limiterVars, directoryVars, activationVars, vars>>
    /\ NetworkFairness

\* Seats whose files name each other, however sparsely, end up with a socket from every
\* one to every other, over restarts that forget all but the file (net/directory.py,
\* NodeProcess._share_addresses).
SeatsFindEachOther == <>[](part = "directory" => Meshed)

\* FinishesInOneEpoch, of the part that runs: leaders that stay silent cost the seats a
\* view each and never the epoch (_views; docs/view_change_design.md 3).
SilentLeadersCostNoEpoch == <>(part = "clock" => FinishedInOneEpoch)
====
