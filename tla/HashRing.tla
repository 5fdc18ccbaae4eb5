------------------------------ MODULE HashRing ------------------------------
(***************************************************************************)
(* internal/hashring/ring.go: a ring is a function from the positions taken*)
(* to the nodes that own them.  The sorted slice hashes is its domain, and *)
(* the n-th entry of a node's replicas is a member of P, the node's        *)
(* positions.                                                              *)
(***************************************************************************)
EXTENDS Naturals

\* What Lookup returns besides ok = false.
NoNode == ""

EmptyRing == [p \in {} |-> p]

\* Mutant: a colliding replica takes the position over.
AddNodeOverwrite(owners, P, n) ==
    [p \in DOMAIN owners \cup P |-> IF p \in P THEN n ELSE owners[p]]

\* On a collision the first node to come keeps the position.
AddNode(owners, P, n) ==
    [p \in DOMAIN owners \cup P |-> IF p \in DOMAIN owners THEN owners[p] ELSE n]

\* Mutant: the positions are removed whoever owns them.
RemoveNodeUnchecked(owners, P, n) ==
    [p \in DOMAIN owners \ P |-> owners[p]]

\* Mutant: a removed position stays in the slice, without an owner.
RemoveNodeKeepsHashes(owners, P, n) ==
    [p \in DOMAIN owners |-> IF p \in P /\ owners[p] = n THEN NoNode ELSE owners[p]]

RemoveNode(owners, P, n) ==
    [p \in {q \in DOMAIN owners : q \in P => owners[q] # n} |-> owners[p]]

First(S) == CHOOSE p \in S : \A q \in S : p <= q

\* The owner of the first position at or after h, or of the first of all.
Lookup(owners, h) ==
    LET after == {p \in DOMAIN owners : p >= h} IN
    IF DOMAIN owners = {} THEN NoNode
    ELSE owners[First(IF after = {} THEN DOMAIN owners ELSE after)]
=============================================================================
