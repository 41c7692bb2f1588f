----------------------------- MODULE MCTreeSync -----------------------------
(* Instances of TreeSync for TLC: two devices of one user.                   *)
EXTENDS TreeSync, TLC

CONSTANTS s1, s2, s3, d1, d2

\* The first device can connect twice.
Connections == s1 :> d1 @@ s2 :> d2 @@ s3 :> d1

\* Two changes on two connections, as they are.
Changes == [stored |-> 1, sessions |-> {s1, s2}, changes |-> 2, faults |-> 0]

\* One change, while connections and requests are lost, and a device that comes
\* back; and one in a larger tree.
Losses == [stored |-> 1, sessions |-> {s1, s2, s3}, changes |-> 1, faults |-> 1]
Cuts   == [stored |-> 2, sessions |-> {s1, s2}, changes |-> 1, faults |-> 1]

\* A folder in a folder in a folder: one change can bring back what the other
\* has cut off.
Rescue == [stored |-> 3, sessions |-> {s1}, changes |-> 2, faults |-> 0]

ChangesOnly     == {Changes}
All             == {Changes, Losses, Cuts, Rescue}
Interchangeable == Permutations(Nodes)
=============================================================================
