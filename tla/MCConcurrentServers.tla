------------------------ MODULE MCConcurrentServers ------------------------
(* Instances of ConcurrentServers for TLC. *)
EXTENDS ConcurrentServers, TLC

AllServers == {"sequential", "threaded", "pool"}

\* Enough to cut a message in two, and to have a newline in the middle of a chunk.
SafetyBytes == [s \in Servers |-> 3]

\* For liveness, the clients of the threaded server only connect and close.
ServedBytes == [s \in Servers |-> IF s = "threaded" THEN 0 ELSE 1]

\* Clients are interchangeable; descriptors are not, accept takes the lowest.
Symmetry == Permutations(Clients)

=============================================================================
