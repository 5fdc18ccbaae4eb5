------------------------------ MODULE MCRouting ------------------------------
(***************************************************************************)
(* A small instance of Routing: three nodes with two virtual nodes each.    *)
(***************************************************************************)
EXTENDS Routing, TLC

CONSTANTS n1, n2, n3

TwoReplicas == {0, 1}
SevenPositions == 0 .. 6

\* A cell in the middle of the ring, and one past every replica.
TwoKeys == {3, 6}

\* The position of each node's first replica, and of its second.
Placed(f, g) == [r \in Nodes \X Replicas |-> IF r[2] = 0 THEN f[r[1]] ELSE g[r[1]]]

\* Replicas in turn; and a node whose replicas collide with one of each other.
SomeHashes ==
    {Placed((n1 :> 0) @@ (n2 :> 2) @@ (n3 :> 1), (n1 :> 3) @@ (n2 :> 5) @@ (n3 :> 4)),
     Placed((n1 :> 2) @@ (n2 :> 3) @@ (n3 :> 5), (n1 :> 0) @@ (n2 :> 0) @@ (n3 :> 3))}
=============================================================================
