---------------------------- MODULE RoutingProofs ----------------------------
(***************************************************************************)
(* Proofs about Routing, for any nodes, replicas, hashes and requests:     *)
(* type correctness, that a ring follows its node's view, that no request  *)
(* is ever forwarded back while its cell stays the same, and that a change *)
(* of a view moves the cells of the node that came or went only.           *)
(***************************************************************************)
EXTENDS Routing, WellFoundedInduction, TLAPS

USE RingAssumption, NoNodeAssumption, NoCellAssumption

-----------------------------------------------------------------------------
(* What Lookup returns.                                                    *)

Below == {s \in Nat \X Nat : s[1] < s[2]}

LEMMA BelowWellFounded == IsWellFoundedOn(Below, Nat)
  BY NatLessThanWellFounded, Zenon DEF OpToRel, Below

LEMMA NotBelow ==
  ASSUME NEW p \in Nat, NEW q \in Nat, <<q, p>> \notin Below
  PROVE  p <= q
  <1>1. <<q, p>> \in Nat \X Nat
    OBVIOUS
  <1>2. ~(<<q, p>>[1] < <<q, p>>[2])
    BY <1>1, Zenon DEF Below
  <1> QED BY <1>2

\* A set of positions has a first one.
LEMMA FirstIsLeast ==
  ASSUME NEW S \in SUBSET Nat, S # {}
  PROVE  First(S) \in S /\ \A q \in S : First(S) <= q
  <1>1. \E p \in S : \A q \in S : <<q, p>> \notin Below
    BY BelowWellFounded, WFMin, Zenon
  <1>2. PICK p \in S : \A q \in S : <<q, p>> \notin Below
    BY <1>1
  <1>3. \A q \in S : p <= q
    BY <1>2, NotBelow
  <1> QED BY <1>3 DEF First

\* Going round the ring from h, position p comes before position q.
Sooner(h, p, q) == IF (p >= h) = (q >= h) THEN p < q ELSE p >= h

\* Lookup answers with the owner of the position that comes first.
LEMMA LookupIsSoonest ==
  ASSUME NEW owners, NEW h \in Nat, DOMAIN owners \subseteq Nat, DOMAIN owners # {}
  PROVE  \E p \in DOMAIN owners :
            /\ Lookup(owners, h) = owners[p]
            /\ \A q \in DOMAIN owners : q = p \/ Sooner(h, p, q)
  <1> DEFINE D == DOMAIN owners
             after == {p \in D : p >= h}
             S == IF after = {} THEN D ELSE after
             f == First(S)
  <1>1. S \in SUBSET Nat /\ S # {} /\ S \subseteq D
    OBVIOUS
  <1>2. f \in S /\ \A q \in S : f <= q
    <2> HIDE DEF S
    <2> QED BY <1>1, FirstIsLeast
  <1>3. Lookup(owners, h) = owners[f]
    BY DEF Lookup
  <1> HIDE DEF f
  <1>4. \A q \in D : q = f \/ Sooner(h, f, q)
    <2> SUFFICES ASSUME NEW q \in D, q # f PROVE Sooner(h, f, q)
      OBVIOUS
    <2> f \in Nat /\ q \in Nat
      BY <1>1, <1>2
    <2>1. CASE after = {}
      <3>1. f < h /\ q < h /\ f <= q
        BY <1>1, <1>2, <2>1
      <3> QED BY <3>1 DEF Sooner
    <2>2. CASE after # {}
      <3>1. f >= h /\ (q >= h => f <= q)
        BY <1>2, <2>2
      <3> QED BY <3>1 DEF Sooner
    <2> QED BY <2>1, <2>2
  <1> QED BY <1>1, <1>2, <1>3, <1>4

-----------------------------------------------------------------------------
(* Type correctness.                                                       *)

TypeInv == TypeOK /\ ring = [n \in Nodes |-> ring[n]]

\* A call that has not ended runs on a node that runs, and so do those that
\* wait for it; once its cell is found, it was found on that node.
CallUp(q) ==
    Active(q) =>
        /\ at[q] \in via[q] /\ \A m \in via[q] : Up(m)
        /\ pc[q] # "arrived" => key[q] \in Keys /\ at[q] \in since[q]

CallsUp == \A q \in Requests : CallUp(q)

LEMMA PositionsType ==
  ASSUME TypeInv, NEW n \in Nodes
  PROVE  PositionsOf(n) \subseteq Positions
  <1>1. hash \in [Nodes \X Replicas -> Positions]
    BY DEF TypeInv, TypeOK
  <1>2. \A i \in Replicas : <<n, i>> \in Nodes \X Replicas
    OBVIOUS
  <1> QED BY <1>1, <1>2 DEF PositionsOf

LEMMA AddNodeType ==
  ASSUME NEW R \in Rings, NEW P \in SUBSET Positions, NEW n \in Nodes
  PROVE  AddNode(R, P, n) \in Rings
  <1>1. PICK D \in SUBSET Positions : R \in [D -> Nodes]
    BY DEF Rings
  <1>2. AddNode(R, P, n) \in [D \cup P -> Nodes]
    BY <1>1 DEF AddNode
  <1>3. D \cup P \in SUBSET Positions
    OBVIOUS
  <1> QED BY <1>2, <1>3 DEF Rings

LEMMA RemoveNodeType ==
  ASSUME NEW R \in Rings, NEW P, NEW n
  PROVE  RemoveNode(R, P, n) \in Rings
  <1>1. PICK D \in SUBSET Positions : R \in [D -> Nodes]
    BY DEF Rings
  <1> DEFINE E == {q \in D : q \in P => R[q] # n}
  <1>2. RemoveNode(R, P, n) \in [E -> Nodes]
    BY <1>1 DEF RemoveNode
  <1>3. E \in SUBSET Positions
    OBVIOUS
  <1> HIDE DEF E
  <1> QED BY <1>2, <1>3 DEF Rings

LEMMA EmptyRingType == EmptyRing \in Rings
  <1>1. EmptyRing \in [{} -> Nodes]
    BY DEF EmptyRing
  <1> QED BY <1>1 DEF Rings

LEMMA TypeInit == Init => TypeInv
  <1> SUFFICES ASSUME Init PROVE TypeInv
    OBVIOUS
  <1>1. \A n \in Nodes : ring[n] \in Rings
    BY EmptyRingType DEF Init
  <1> QED BY <1>1 DEF Init, TypeInv, TypeOK

\* An action that gives one node a new ring and leaves the other types alone.
LEMMA OneRing ==
  ASSUME TypeInv, NEW n \in Nodes, NEW R \in Rings, ring' = [ring EXCEPT ![n] = R]
  PROVE  /\ ring' = [m \in Nodes |-> ring'[m]]
         /\ ring'[n] = R
         /\ \A m \in Nodes : ring'[m] \in Rings /\ (m # n => ring'[m] = ring[m])
  <1>1. ring = [m \in Nodes |-> ring[m]] /\ \A m \in Nodes : ring[m] \in Rings
    BY DEF TypeInv, TypeOK
  <1>2. ring' = [m \in Nodes |-> IF m = n THEN R ELSE ring[m]]
    BY <1>1
  <1> QED BY <1>1, <1>2

\* The actions that change a ring.
LEMMA RingType ==
  ASSUME TypeInv, NEW n \in Nodes,
         \/ Start(n) \/ Stop(n)
         \/ \E m \in Nodes : Learn(n, m) \/ Leaves(n, m)
  PROVE  ring' = [m \in Nodes |-> ring'[m]] /\ \A m \in Nodes : ring'[m] \in Rings
  <1>1. \A m \in Nodes : ring[m] \in Rings /\ PositionsOf(m) \subseteq Positions
    BY PositionsType DEF TypeInv, TypeOK
  <1>2. CASE Start(n)
    BY <1>1, <1>2, EmptyRingType, AddNodeType, OneRing DEF Start
  <1>3. CASE Stop(n)
    BY <1>3, EmptyRingType, OneRing DEF Stop
  <1>4. ASSUME NEW m \in Nodes, Learn(n, m)
        PROVE  ring' = [p \in Nodes |-> ring'[p]] /\ \A p \in Nodes : ring'[p] \in Rings
    <2>1. ring' = [ring EXCEPT ![n] = AddNode(ring[n], PositionsOf(m), m)]
      BY <1>4 DEF Learn, TypeInv
    <2> QED BY <1>1, <2>1, AddNodeType, OneRing
  <1>5. ASSUME NEW m \in Nodes, Leaves(n, m)
        PROVE  ring' = [p \in Nodes |-> ring'[p]] /\ \A p \in Nodes : ring'[p] \in Rings
    <2>1. ring' = [ring EXCEPT ![n] = RemoveNode(ring[n], PositionsOf(m), m)]
      BY <1>5 DEF Leaves, TypeInv
    <2> QED BY <1>1, <2>1, RemoveNodeType, OneRing
  <1> QED BY <1>2, <1>3, <1>4, <1>5

\* What the actions of a node's life and gossip do besides.
LEMMA ClusterType ==
  ASSUME TypeInv, NEW n \in Nodes,
         \/ Start(n) \/ Serve(n) \/ Crash(n) \/ Shutdown(n) \/ Leave(n)
         \/ \E m \in Nodes : Learn(n, m) \/ Forget(n, m) \/ Suspect(n, m)
  PROVE  TypeInv'
  <1>1. CASE Serve(n) \/ Shutdown(n)
    <2>1. UNCHANGED <<hash, view, ring, call, pc, key, at, owner, via, since>>
      BY <1>1 DEF Serve, Shutdown, requestVars
    <2>2. status' \in [Nodes -> {"unstarted", "down", "joining", "serving", "stopping"}]
      BY <1>1 DEF Serve, Shutdown, TypeInv, TypeOK
    <2>3. churn' \in 0 .. MaxChurn
      BY <1>1 DEF Serve, Shutdown, TypeInv, TypeOK
    <2> QED BY <2>1, <2>2, <2>3 DEF TypeInv, TypeOK
  <1>2. CASE Start(n)
    <2>1. ring' = [m \in Nodes |-> ring'[m]] /\ \A m \in Nodes : ring'[m] \in Rings
      BY <1>2, RingType
    <2> QED BY <1>2, <2>1 DEF Start, requestVars, TypeInv, TypeOK
  <1>3. CASE Crash(n) \/ Leave(n)
    <2>1. Stop(n) /\ churn' \in 0 .. MaxChurn
      BY <1>3 DEF Crash, Leave, TypeInv, TypeOK
    <2>2. ring' = [m \in Nodes |-> ring'[m]] /\ \A m \in Nodes : ring'[m] \in Rings
      BY <2>1, RingType
    <2> QED BY <2>1, <2>2 DEF Stop, TypeInv, TypeOK
  <1>4. ASSUME NEW m \in Nodes, Learn(n, m) PROVE TypeInv'
    <2>1. ring' = [p \in Nodes |-> ring'[p]] /\ \A p \in Nodes : ring'[p] \in Rings
      BY <1>4, RingType
    <2> QED BY <1>4, <2>1 DEF Learn, requestVars, TypeInv, TypeOK
  <1>5. ASSUME NEW m \in Nodes, Forget(n, m) \/ Suspect(n, m) PROVE TypeInv'
    <2>1. Leaves(n, m) /\ churn' \in 0 .. MaxChurn
      BY <1>5 DEF Forget, Suspect, TypeInv, TypeOK
    <2>2. ring' = [p \in Nodes |-> ring'[p]] /\ \A p \in Nodes : ring'[p] \in Rings
      BY <2>1, RingType
    <2> QED BY <2>1, <2>2 DEF Leaves, requestVars, TypeInv, TypeOK
  <1> QED BY <1>1, <1>2, <1>3, <1>4, <1>5

\* Lookup answers with a node, or none when the ring is empty.
LEMMA LookupType ==
  ASSUME TypeInv, NEW n \in Nodes, NEW h \in Positions
  PROVE  Lookup(ring[n], h) \in Nodes \cup {NoNode}
  <1>1. PICK D \in SUBSET Positions : ring[n] \in [D -> Nodes]
    BY DEF TypeInv, TypeOK, Rings
  <1>2. CASE DOMAIN ring[n] = {}
    BY <1>2 DEF Lookup
  <1>3. CASE DOMAIN ring[n] # {}
    <2>1. h \in Nat /\ DOMAIN ring[n] \subseteq Nat
      BY <1>1
    <2>2. \E p \in DOMAIN ring[n] : Lookup(ring[n], h) = ring[n][p]
      BY <1>3, <2>1, LookupIsSoonest
    <2> QED BY <1>1, <2>2
  <1> QED BY <1>2, <1>3

LEMMA CallType ==
  ASSUME TypeInv, CallsUp, NEW q \in Requests,
         Resolve(q) \/ Route(q) \/ Forward(q) \/ \E n \in Nodes : Arrive(q, n)
  PROVE  TypeInv'
  <1>1. CASE \E n \in Nodes : Arrive(q, n)
    BY <1>1 DEF Arrive, clusterVars, TypeInv, TypeOK
  <1>2. CASE Route(q)
    <2>1. at[q] \in Nodes /\ key[q] \in Positions
      BY <1>2 DEF Route, Active, CallsUp, CallUp, TypeInv, TypeOK
    <2>2. Lookup(ring[at[q]], key[q]) \in Nodes \cup {NoNode}
      BY <2>1, LookupType
    <2>3. UNCHANGED <<hash, status, view, ring, churn, call, key, at, via, since>>
      BY <1>2 DEF Route, clusterVars
    <2>4. owner' \in [Requests -> Nodes \cup {NoNode}]
      BY <1>2, <2>2 DEF Route, TypeInv, TypeOK
    <2>5. pc' \in [Requests -> {"idle", "arrived", "routing", "forwarding", "handled", "failed"}]
      BY <1>2 DEF Route, TypeInv, TypeOK
    <2> QED BY <2>3, <2>4, <2>5 DEF TypeInv, TypeOK
  <1>3. CASE Forward(q)
    <2>1. at[q] \in Nodes /\ (owner[q] \in view[at[q]] => owner[q] \in Nodes)
      BY <1>3 DEF Forward, Active, CallsUp, CallUp, TypeInv, TypeOK
    <2>2. UNCHANGED <<hash, status, view, ring, churn, call, key, owner, since>>
      BY <1>3 DEF Forward, clusterVars
    <2>3. at' \in [Requests -> Nodes \cup {NoNode}] /\ via' \in [Requests -> SUBSET Nodes]
      BY <1>3, <2>1 DEF Forward, TypeInv, TypeOK
    <2>4. pc' \in [Requests -> {"idle", "arrived", "routing", "forwarding", "handled", "failed"}]
      BY <1>3 DEF Forward, TypeInv, TypeOK
    <2> QED BY <2>2, <2>3, <2>4 DEF TypeInv, TypeOK
  <1>4. CASE Resolve(q)
    <2>1. UNCHANGED <<hash, status, view, ring, churn, call, at, owner, via>>
      BY <1>4 DEF Resolve, clusterVars
    <2>2. PICK c \in Keys \cup {NoCell} :
            /\ key' = [key EXCEPT ![q] = c]
            /\ since' = [since EXCEPT ![q] = IF c = key[q] THEN since[q] \cup {at[q]} ELSE {at[q]}]
            /\ pc' = [pc EXCEPT ![q] = IF c = NoCell THEN "handled" ELSE "routing"]
      BY <1>4 DEF Resolve, TypeInv, TypeOK
    <2>3. at[q] \in Nodes
      BY <1>4 DEF Resolve, Active, CallsUp, CallUp, TypeInv, TypeOK
    <2>4. key' \in [Requests -> Keys \cup {NoCell}] /\ since' \in [Requests -> SUBSET Nodes]
      BY <2>2, <2>3 DEF TypeInv, TypeOK
    <2>5. pc' \in [Requests -> {"idle", "arrived", "routing", "forwarding", "handled", "failed"}]
      BY <2>2 DEF TypeInv, TypeOK
    <2> QED BY <2>1, <2>4, <2>5 DEF TypeInv, TypeOK
  <1> QED BY <1>1, <1>2, <1>3, <1>4

-----------------------------------------------------------------------------
(* The nodes a request passes.  Every node keeps its own replicas on its   *)
(* ring; a lookup that names another node has therefore found a position   *)
(* of it that comes before all of the node's own, and since hash never     *)
(* changes that stays so.                                                  *)

OwnKept ==
    \A n \in Nodes : Up(n) =>
        \A p \in PositionsOf(n) : p \in DOMAIN ring[n] /\ ring[n][p] = n

\* Node n has a position that comes before every position of m.
Closer(h, n, m) ==
    \E p \in PositionsOf(n) : \A r \in PositionsOf(m) : Sooner(h, p, r)

Approach ==
    \A q \in Requests : Active(q) =>
        /\ \A m \in since[q] \ {at[q]} : Closer(key[q], at[q], m)
        /\ pc[q] = "forwarding" =>
               owner[q] \in Nodes /\ Closer(key[q], owner[q], at[q])

LEMMA NotCloserThanItself ==
  ASSUME TypeInv, NEW n \in Nodes, NEW h \in Positions
  PROVE  ~Closer(h, n, n)
  <1>1. ASSUME NEW p \in PositionsOf(n) PROVE ~Sooner(h, p, p)
    <2>1. p \in Nat /\ h \in Nat
      BY PositionsType
    <2> QED BY <2>1 DEF Sooner
  <1> QED BY <1>1 DEF Closer

LEMMA CloserIsTransitive ==
  ASSUME TypeInv, NEW n \in Nodes, NEW m \in Nodes, NEW o \in Nodes, NEW h \in Positions,
         Closer(h, n, m), Closer(h, m, o)
  PROVE  Closer(h, n, o)
  <1>1. PICK p \in PositionsOf(n) : \A r \in PositionsOf(m) : Sooner(h, p, r)
    BY DEF Closer
  <1>2. PICK r \in PositionsOf(m) : \A s \in PositionsOf(o) : Sooner(h, r, s)
    BY DEF Closer
  <1>3. ASSUME NEW s \in PositionsOf(o) PROVE Sooner(h, p, s)
    <2>1. Sooner(h, p, r) /\ Sooner(h, r, s)
      BY <1>1, <1>2
    <2>2. p \in Nat /\ r \in Nat /\ s \in Nat /\ h \in Nat
      BY PositionsType
    <2> QED BY <2>1, <2>2 DEF Sooner
  <1> QED BY <1>3 DEF Closer

\* A lookup that names another node has found one closer to the cell.
LEMMA LookupIsCloser ==
  ASSUME TypeInv, RingFollowsView, OwnKept, NEW n \in Nodes, Up(n), NEW h \in Positions, NEW o \in Nodes,
         Lookup(ring[n], h) = o, o # n
  PROVE  Closer(h, o, n)
  <1>1. DOMAIN ring[n] \subseteq Nat /\ h \in Nat
    BY DEF TypeInv, TypeOK, Rings
  <1>2. DOMAIN ring[n] # {}
    BY DEF Lookup
  <1>3. PICK p \in DOMAIN ring[n] :
            ring[n][p] = o /\ \A r \in DOMAIN ring[n] : r = p \/ Sooner(h, p, r)
    BY <1>1, <1>2, LookupIsSoonest
  <1>4. p \in PositionsOf(o)
    BY <1>3 DEF RingFollowsView
  <1>5. ASSUME NEW r \in PositionsOf(n) PROVE Sooner(h, p, r)
    <2>1. r \in DOMAIN ring[n] /\ ring[n][r] = n
      BY <1>5 DEF OwnKept
    <2> QED BY <1>3, <2>1
  <1> QED BY <1>4, <1>5 DEF Closer

LEMMA TypeNext == TypeInv /\ CallsUp /\ [Next]_vars => TypeInv'
  <1> SUFFICES ASSUME TypeInv, CallsUp, [Next]_vars PROVE TypeInv'
    OBVIOUS
  <1>1. CASE UNCHANGED vars
    BY <1>1 DEF vars, clusterVars, requestVars, TypeInv, TypeOK
  <1>2. CASE Gossip \/ Life
    BY <1>2, ClusterType DEF Gossip, Life
  <1>3. CASE Calls
    BY <1>3, CallType DEF Calls, Handler
  <1> QED BY <1>1, <1>2, <1>3 DEF Next

-----------------------------------------------------------------------------
(* RingFollowsView and OwnKept.                                            *)

LEMMA HashUnchanged == [Next]_vars => hash' = hash
  BY DEF Next, Gossip, Life, Calls, Start, Learn, Leaves, Forget, Suspect, Serve, Stop, Crash,
         Shutdown, Leave, Arrive, Handler, Resolve, Route, Forward, vars, clusterVars

\* Without collisions a position is a replica of one node only.
LEMMA OneOwner ==
  ASSUME NoCollision, NEW n \in Nodes, NEW m \in Nodes,
         NEW p, p \in PositionsOf(n), p \in PositionsOf(m)
  PROVE  n = m
  <1>1. PICK i \in Replicas : p = hash[<<n, i>>]
    BY DEF PositionsOf
  <1>2. PICK j \in Replicas : p = hash[<<m, j>>]
    BY DEF PositionsOf
  <1>3. <<n, i>> \in Nodes \X Replicas /\ <<m, j>> \in Nodes \X Replicas
    OBVIOUS
  <1>4. <<n, i>> = <<m, j>>
    BY <1>1, <1>2, <1>3 DEF NoCollision
  <1> QED BY <1>4

\* What the invariants say of one ring, and of the ring of a node that runs.
Follows(R, V) ==
    /\ \A p \in DOMAIN R : R[p] \in V /\ p \in PositionsOf(R[p])
    /\ NoCollision => DOMAIN R = UNION {PositionsOf(m) : m \in V}

Keeps(R, n) == \A p \in PositionsOf(n) : p \in DOMAIN R /\ R[p] = n

LEMMA AddFollows ==
  ASSUME NEW R, NEW V \in SUBSET Nodes, NEW m \in Nodes, Follows(R, V)
  PROVE  Follows(AddNode(R, PositionsOf(m), m), V \cup {m})
  <1> DEFINE P == PositionsOf(m)
             R2 == AddNode(R, P, m)
  <1>1. DOMAIN R2 = DOMAIN R \cup P
    BY DEF AddNode
  <1>2. \A p \in DOMAIN R2 : R2[p] = IF p \in DOMAIN R THEN R[p] ELSE m
    BY DEF AddNode
  <1> HIDE DEF R2
  <1>3. \A p \in DOMAIN R2 : R2[p] \in V \cup {m} /\ p \in PositionsOf(R2[p])
    BY <1>1, <1>2 DEF Follows
  <1>4. ASSUME NoCollision PROVE DOMAIN R2 = UNION {PositionsOf(k) : k \in V \cup {m}}
    <2>1. DOMAIN R = UNION {PositionsOf(k) : k \in V}
      BY <1>4 DEF Follows
    <2>2. UNION {PositionsOf(k) : k \in V \cup {m}} = (UNION {PositionsOf(k) : k \in V}) \cup P
      OBVIOUS
    <2> QED BY <1>1, <2>1, <2>2
  <1>5. Follows(R2, V \cup {m})
    BY <1>3, <1>4 DEF Follows
  <1> QED BY <1>5 DEF R2

LEMMA RemoveFollows ==
  ASSUME NEW R, NEW V \in SUBSET Nodes, NEW m \in V, Follows(R, V)
  PROVE  Follows(RemoveNode(R, PositionsOf(m), m), V \ {m})
  <1> DEFINE P == PositionsOf(m)
             R2 == RemoveNode(R, P, m)
  <1>1. DOMAIN R2 = {q \in DOMAIN R : q \in P => R[q] # m}
    BY DEF RemoveNode
  <1>2. \A p \in DOMAIN R2 : R2[p] = R[p]
    BY DEF RemoveNode
  <1> HIDE DEF R2
  <1>3. \A p \in DOMAIN R2 : R2[p] \in V \ {m} /\ p \in PositionsOf(R2[p])
    BY <1>1, <1>2 DEF Follows
  <1>4. ASSUME NoCollision PROVE DOMAIN R2 = UNION {PositionsOf(k) : k \in V \ {m}}
    <2>1. DOMAIN R = UNION {PositionsOf(k) : k \in V}
      BY <1>4 DEF Follows
    <2>2. ASSUME NEW p \in DOMAIN R2 PROVE p \in UNION {PositionsOf(k) : k \in V \ {m}}
      BY <1>3
    <2>3. ASSUME NEW k \in V \ {m}, NEW p \in PositionsOf(k) PROVE p \in DOMAIN R2
      <3>1. p \in DOMAIN R
        BY <2>1
      <3>2. p \notin P
        BY <1>4, OneOwner
      <3> QED BY <1>1, <3>1, <3>2
    <2> QED BY <2>2, <2>3
  <1>5. Follows(R2, V \ {m})
    BY <1>3, <1>4 DEF Follows
  <1> QED BY <1>5 DEF R2

LEMMA StartFollows ==
  ASSUME NEW n \in Nodes
  PROVE  LET R == AddNode(EmptyRing, PositionsOf(n), n) IN Follows(R, {n}) /\ Keeps(R, n)
  <1>1. Follows(EmptyRing, {})
    BY DEF Follows, EmptyRing
  <1>2. Follows(AddNode(EmptyRing, PositionsOf(n), n), {} \cup {n})
    BY <1>1, AddFollows
  <1>3. Keeps(AddNode(EmptyRing, PositionsOf(n), n), n)
    BY DEF Keeps, AddNode, EmptyRing
  <1> QED BY <1>2, <1>3

LEMMA OthersKeep ==
  ASSUME NEW R, NEW P, NEW n, NEW m, m # n, Keeps(R, n)
  PROVE  Keeps(AddNode(R, P, m), n) /\ Keeps(RemoveNode(R, P, m), n)
  BY DEF Keeps, AddNode, RemoveNode

RingInv == \A n \in Nodes : Follows(ring[n], view[n]) /\ (Up(n) => Keeps(ring[n], n))

LEMMA RingInvMeans == RingInv <=> RingFollowsView /\ OwnKept
  BY DEF RingInv, RingFollowsView, OwnKept, Follows, Keeps

\* An action that gives at most node n a new ring and a new view.
LEMMA OneRingInv ==
  ASSUME RingInv, hash' = hash, NEW n \in Nodes,
         \A m \in Nodes \ {n} : ring'[m] = ring[m] /\ view'[m] = view[m] /\ (Up(m)' => Up(m)),
         Follows(ring'[n], view'[n]), Up(n)' => Keeps(ring'[n], n)
  PROVE  RingInv'
  <1>1. ASSUME NEW m \in Nodes PROVE Follows(ring'[m], view'[m]) /\ (Up(m)' => Keeps(ring'[m], m))
    BY DEF RingInv
  <1> SUFFICES ASSUME NEW m \in Nodes
               PROVE  Follows(ring[m], view[m])' /\ (Up(m)' => Keeps(ring[m], m)')
    BY DEF RingInv
  <1> DEFINE R == ring'[m]
             V == view'[m]
  <1>2. \A p \in DOMAIN R : R[p] \in V /\ p \in PositionsOf(R[p])
    BY <1>1 DEF Follows
  <1>3. (\A p \in DOMAIN ring[m] : ring[m][p] \in view[m] /\ p \in PositionsOf(ring[m][p]))'
    BY <1>2 DEF PositionsOf
  <1>4. ASSUME NoCollision' PROVE (DOMAIN ring[m] = UNION {PositionsOf(k) : k \in view[m]})'
    <2>1. NoCollision
      BY <1>4 DEF NoCollision
    <2>2. DOMAIN R = UNION {PositionsOf(k) : k \in V}
      BY <1>1, <2>1 DEF Follows
    <2> QED BY <2>2 DEF PositionsOf
  <1>5. ASSUME Up(m)' PROVE Keeps(ring[m], m)'
    BY <1>1, <1>5 DEF Keeps, PositionsOf
  <1> QED BY <1>3, <1>4, <1>5 DEF Follows

LEMMA StopFollows ==
  ASSUME TypeInv, RingInv, NEW n \in Nodes, Stop(n)
  PROVE  RingInv'
  <1>1. ring'[n] = EmptyRing /\ view'[n] = {} /\ ~Up(n)'
    BY DEF Stop, TypeInv, TypeOK, Up
  <1>2. Follows(EmptyRing, {})
    BY DEF Follows, EmptyRing
  <1>3. \A m \in Nodes \ {n} : ring'[m] = ring[m] /\ view'[m] = view[m] /\ (Up(m)' => Up(m))
    BY DEF Stop, TypeInv, TypeOK, Up
  <1>4. hash' = hash
    BY DEF Stop
  <1>5. Follows(ring'[n], view'[n])
    BY <1>1, <1>2
  <1> QED BY <1>1, <1>3, <1>4, <1>5, OneRingInv

LEMMA ClusterFollows ==
  ASSUME TypeInv, RingInv, NEW n \in Nodes,
         \/ Start(n) \/ Serve(n) \/ Crash(n) \/ Shutdown(n) \/ Leave(n)
         \/ \E m \in Nodes : Learn(n, m) \/ Forget(n, m) \/ Suspect(n, m)
  PROVE  RingInv'
  <1> USE DEF TypeInv, TypeOK
  <1>1. CASE Start(n)
    <2>1. ring'[n] = AddNode(EmptyRing, PositionsOf(n), n) /\ view'[n] = {n}
      BY <1>1 DEF Start
    <2>2. Follows(ring'[n], view'[n]) /\ Keeps(ring'[n], n)
      <3> DEFINE R == AddNode(EmptyRing, PositionsOf(n), n)
      <3>1. Follows(R, {n}) /\ Keeps(R, n)
        BY StartFollows
      <3>2. ring'[n] = R /\ view'[n] = {n}
        BY <2>1
      <3> HIDE DEF R, TypeInv, TypeOK
      <3> QED BY <3>1, <3>2
    <2>3. \A m \in Nodes \ {n} : ring'[m] = ring[m] /\ view'[m] = view[m] /\ (Up(m)' => Up(m))
      BY <1>1 DEF Start, Up
    <2>4. hash' = hash
      BY <1>1 DEF Start
    <2> QED BY <2>2, <2>3, <2>4, OneRingInv
  <1>2. CASE Serve(n) \/ Shutdown(n)
    <2>1. hash' = hash /\ ring' = ring /\ view' = view
      BY <1>2 DEF Serve, Shutdown
    <2>2. \A m \in Nodes : Up(m)' => Up(m)
      BY <1>2 DEF Serve, Shutdown, Up
    <2>3. Follows(ring'[n], view'[n]) /\ (Up(n)' => Keeps(ring'[n], n))
      BY <2>1, <2>2 DEF RingInv
    <2> QED BY <2>1, <2>2, <2>3, OneRingInv
  <1>3. CASE Crash(n) \/ Leave(n)
    BY <1>3, StopFollows DEF Crash, Leave
  <1>4. ASSUME NEW m \in Nodes, Learn(n, m) PROVE RingInv'
    <2>1. ring'[n] = AddNode(ring[n], PositionsOf(m), m) /\ view'[n] = view[n] \cup {m}
      BY <1>4 DEF Learn
    <2>2. Follows(ring[n], view[n]) /\ Keeps(ring[n], n) /\ view[n] \in SUBSET Nodes
      BY <1>4 DEF Learn, RingInv
    <2>3. Follows(ring'[n], view'[n])
      BY <2>1, <2>2, AddFollows
    <2>4. Keeps(ring'[n], n)
      <3>1. CASE m # n
        BY <2>1, <2>2, <3>1, OthersKeep
      <3>2. CASE m = n
        BY <2>1, <2>2, <3>2 DEF Keeps, AddNode
      <3> QED BY <3>1, <3>2
    <2>5. \A k \in Nodes \ {n} : ring'[k] = ring[k] /\ view'[k] = view[k] /\ (Up(k)' => Up(k))
      BY <1>4 DEF Learn, Up
    <2>6. hash' = hash
      BY <1>4 DEF Learn
    <2> QED BY <2>3, <2>4, <2>5, <2>6, OneRingInv
  <1>5. ASSUME NEW m \in Nodes, Leaves(n, m) PROVE RingInv'
    <2>1. ring'[n] = RemoveNode(ring[n], PositionsOf(m), m) /\ view'[n] = view[n] \ {m}
      BY <1>5 DEF Leaves
    <2>2. Follows(ring[n], view[n]) /\ Keeps(ring[n], n) /\ m \in view[n] /\ m # n
           /\ view[n] \in SUBSET Nodes
      BY <1>5 DEF Leaves, RingInv
    <2>3. Follows(ring'[n], view'[n])
      BY <2>1, <2>2, RemoveFollows
    <2>4. Keeps(ring'[n], n)
      BY <2>1, <2>2, OthersKeep
    <2>5. \A k \in Nodes \ {n} : ring'[k] = ring[k] /\ view'[k] = view[k] /\ (Up(k)' => Up(k))
      BY <1>5 DEF Leaves, Up
    <2>6. hash' = hash
      BY <1>5 DEF Leaves
    <2> QED BY <2>3, <2>4, <2>5, <2>6, OneRingInv
  <1> QED BY <1>1, <1>2, <1>3, <1>4, <1>5 DEF Forget, Suspect

LEMMA RingNext == TypeInv /\ RingInv /\ [Next]_vars => RingInv'
  <1> SUFFICES ASSUME TypeInv, RingInv, [Next]_vars PROVE RingInv'
    OBVIOUS
  <1>1. CASE UNCHANGED vars \/ Calls
    <2>1. hash' = hash /\ ring' = ring /\ view' = view /\ status' = status
      BY <1>1 DEF vars, clusterVars, Calls, Arrive, Handler, Resolve, Route, Forward
    <2>2. \A m \in Nodes : Up(m)' <=> Up(m)
      BY <2>1 DEF Up
    <2>3. ASSUME NEW n \in Nodes PROVE RingInv'
      <3>1. Follows(ring'[n], view'[n]) /\ (Up(n)' => Keeps(ring'[n], n))
        BY <2>1, <2>2 DEF RingInv
      <3> QED BY <2>1, <2>2, <3>1, OneRingInv
    <2> QED BY <2>3 DEF RingInv
  <1>2. CASE Gossip \/ Life
    BY <1>2, ClusterFollows DEF Gossip, Life
  <1> QED BY <1>1, <1>2 DEF Next

-----------------------------------------------------------------------------
(* CallsUp and Approach.                                                   *)

LEMMA ClusterCallsUp ==
  ASSUME TypeInv, CallsUp, Gossip \/ Life
  PROVE  CallsUp' /\ \A q \in Requests : Active(q)' => Active(q) /\ pc'[q] = pc[q]
  <1> USE DEF TypeInv, TypeOK
  <1>1. CASE Gossip
    <2>1. UNCHANGED <<status, pc, key, at, via, since>>
      BY <1>1 DEF Gossip, Learn, Forget, Suspect, Leaves, requestVars
    <2> QED BY <2>1 DEF CallsUp, CallUp, Active, Up
  <1>2. ASSUME NEW n \in Nodes, Start(n) \/ Serve(n) \/ Shutdown(n)
        PROVE  CallsUp' /\ \A q \in Requests : Active(q)' => Active(q) /\ pc'[q] = pc[q]
    <2>1. UNCHANGED <<pc, key, at, via, since>>
      BY <1>2 DEF Start, Serve, Shutdown, requestVars
    <2>2. \A m \in Nodes : Up(m) => Up(m)'
      BY <1>2 DEF Start, Serve, Shutdown, Up
    <2> QED BY <2>1, <2>2 DEF CallsUp, CallUp, Active
  <1>3. ASSUME NEW n \in Nodes, Stop(n)
        PROVE  CallsUp' /\ \A q \in Requests : Active(q)' => Active(q) /\ pc'[q] = pc[q]
    <2>1. \A q \in Requests : Active(q)' => Active(q) /\ pc'[q] = pc[q] /\ n \notin via[q]
      BY <1>3 DEF Stop, Active
    <2>2. \A m \in Nodes \ {n} : Up(m) => Up(m)'
      BY <1>3 DEF Stop, Up
    <2>3. UNCHANGED <<key, at, via, since>>
      BY <1>3 DEF Stop
    <2> QED BY <2>1, <2>2, <2>3 DEF CallsUp, CallUp
  <1> QED BY <1>1, <1>2, <1>3 DEF Life, Crash, Leave

\* What a step of a call does to the other calls, and to the rest.
LEMMA OtherCalls ==
  ASSUME TypeInv, NEW q \in Requests,
         Resolve(q) \/ Route(q) \/ Forward(q) \/ \E n \in Nodes : Arrive(q, n)
  PROVE  /\ UNCHANGED <<hash, status, call>>
         /\ \A r \in Requests \ {q} :
               /\ pc'[r] = pc[r] /\ key'[r] = key[r] /\ at'[r] = at[r]
               /\ owner'[r] = owner[r] /\ via'[r] = via[r] /\ since'[r] = since[r]
  BY DEF Resolve, Route, Forward, Arrive, clusterVars, TypeInv, TypeOK

\* What a handler finds, and what it keeps in mind.
LEMMA Resolved ==
  ASSUME TypeInv, NEW q \in Requests, Resolve(q)
  PROVE  /\ pc[q] = "arrived" /\ at'[q] = at[q] /\ via'[q] = via[q]
         /\ \/ pc'[q] = "handled"
            \/ pc'[q] = "routing" /\ key'[q] \in Keys
         /\ call[q] = "Dispatch" => key'[q] = key[q]
         /\ since'[q] = IF key'[q] = key[q] THEN since[q] \cup {at[q]} ELSE {at[q]}
  BY DEF Resolve, TypeInv, TypeOK

LEMMA CallCallsUp ==
  ASSUME TypeInv, CallsUp, NEW q \in Requests,
         Resolve(q) \/ Route(q) \/ Forward(q) \/ \E n \in Nodes : Arrive(q, n)
  PROVE  CallsUp'
  <1> USE DEF TypeInv, TypeOK
  <1>1. UNCHANGED status
    BY OtherCalls
  <1>2. ASSUME NEW r \in Requests \ {q} PROVE CallUp(r)'
    BY <1>1, <1>2, OtherCalls DEF CallsUp, CallUp, Active, Up
  <1>3. CallUp(q)'
    <2>1. CASE \E n \in Nodes : Arrive(q, n)
      BY <1>1, <2>1 DEF Arrive, CallUp, Up
    <2>2. CASE Route(q)
      BY <1>1, <2>2 DEF Route, CallsUp, CallUp, Active, Up
    <2>3. CASE Forward(q)
      BY <1>1, <2>3 DEF Forward, CallsUp, CallUp, Active, Up
    <2>4. CASE Resolve(q)
      <3>1. at[q] \in via[q] /\ \A m \in via[q] : Up(m)
        BY <2>4 DEF Resolve, CallsUp, CallUp, Active
      <3>2. at'[q] \in via'[q] /\ \A m \in via'[q] : Up(m)'
        BY <1>1, <2>4, <3>1, Resolved DEF Up
      <3>3. at'[q] \in since'[q]
        BY <2>4, Resolved
      <3>4. pc'[q] = "handled" \/ key'[q] \in Keys
        BY <2>4, Resolved
      <3> QED BY <3>2, <3>3, <3>4 DEF CallUp, Active
    <2> QED BY <2>1, <2>2, <2>3, <2>4
  <1> QED BY <1>2, <1>3 DEF CallsUp

-----------------------------------------------------------------------------
(* Approach.                                                               *)

\* hash never changes, so neither does which node is closer to a cell.
LEMMA CloserUnchanged ==
  ASSUME hash' = hash, NEW h, NEW n, NEW m
  PROVE  Closer(h, n, m)' <=> Closer(h, n, m)
  BY DEF Closer, PositionsOf

\* A request that has not arrived is nowhere.
IdleNowhere == \A q \in Requests : pc[q] = "idle" => at[q] = NoNode /\ since[q] = {}

\* What the invariants say of one call.
OnItsWay(q) ==
    Active(q) =>
        /\ \A m \in since[q] \ {at[q]} : Closer(key[q], at[q], m)
        /\ pc[q] = "forwarding" =>
               owner[q] \in Nodes /\ Closer(key[q], owner[q], at[q])

LEMMA ApproachMeans == Approach <=> \A q \in Requests : OnItsWay(q)
  BY DEF Approach, OnItsWay

\* A call that goes on as it was, or ends, stays on its way.
LEMMA StaysOnItsWay ==
  ASSUME NEW q \in Requests, OnItsWay(q), hash' = hash,
         Active(q)' => /\ Active(q) /\ pc'[q] = pc[q]
                       /\ key'[q] = key[q] /\ at'[q] = at[q]
                       /\ owner'[q] = owner[q] /\ since'[q] = since[q]
  PROVE  OnItsWay(q)'
  <1> SUFFICES ASSUME Active(q)'
               PROVE  /\ \A m \in since'[q] \ {at'[q]} : Closer(key[q], at[q], m)'
                      /\ pc'[q] = "forwarding" =>
                             owner'[q] \in Nodes /\ Closer(key[q], owner[q], at[q])'
    BY DEF OnItsWay
  <1>1. \A m \in since[q] \ {at[q]} : Closer(key[q], at[q], m)
    BY DEF OnItsWay
  <1>2. pc[q] = "forwarding" => owner[q] \in Nodes /\ Closer(key[q], owner[q], at[q])
    BY DEF OnItsWay
  <1>3. key'[q] = key[q] /\ at'[q] = at[q] /\ owner'[q] = owner[q] /\ since'[q] = since[q]
        /\ pc'[q] = pc[q]
    OBVIOUS
  <1>4. ASSUME NEW m \in since'[q] \ {at'[q]} PROVE Closer(key[q], at[q], m)'
    <2>1. Closer(key[q], at[q], m)
      BY <1>1, <1>3
    <2> QED BY <1>3, <2>1 DEF Closer, PositionsOf
  <1>5. ASSUME pc'[q] = "forwarding"
        PROVE  owner'[q] \in Nodes /\ Closer(key[q], owner[q], at[q])'
    <2>1. owner[q] \in Nodes /\ Closer(key[q], owner[q], at[q])
      BY <1>2, <1>3, <1>5
    <2> QED BY <1>3, <2>1 DEF Closer, PositionsOf
  <1> QED BY <1>4, <1>5

LEMMA ForwardOnItsWay ==
  ASSUME TypeInv, CallsUp, NEW q \in Requests, OnItsWay(q), Forward(q)
  PROVE  OnItsWay(q)'
  <1>1. hash' = hash /\ key' = key /\ owner' = owner /\ since' = since
    BY DEF Forward, clusterVars
  <1>2. CASE pc'[q] = "failed"
    BY <1>2 DEF OnItsWay, Active
  <1>3. CASE pc'[q] # "failed"
    <2>1. pc[q] = "forwarding" /\ pc'[q] = "arrived"
      BY <1>3 DEF Forward, TypeInv, TypeOK
    <2>2. at'[q] = owner[q]
      BY <1>3 DEF Forward, TypeInv, TypeOK
    <2>3. at[q] \in since[q] /\ since[q] \subseteq Nodes /\ key[q] \in Positions
      BY <2>1 DEF CallsUp, CallUp, Active, TypeInv, TypeOK
    <2>4. owner[q] \in Nodes /\ Closer(key[q], owner[q], at[q])
      BY <2>1 DEF OnItsWay, Active
    <2>5. \A m \in since[q] \ {at[q]} : Closer(key[q], at[q], m)
      BY <2>1 DEF OnItsWay, Active
    <2>6. ASSUME NEW m \in since[q] PROVE Closer(key[q], owner[q], m)
      <3>1. CASE m = at[q]
        BY <2>4, <3>1
      <3>2. CASE m # at[q]
        <4>1. Closer(key[q], at[q], m)
          BY <2>5, <3>2
        <4>2. at[q] \in Nodes /\ m \in Nodes
          BY <2>3
        <4> QED BY <2>3, <2>4, <4>1, <4>2, CloserIsTransitive
      <3> QED BY <3>1, <3>2
    <2>7. \A m \in since'[q] \ {at'[q]} : Closer(key[q], owner[q], m)
      BY <1>1, <2>6
    <2>8. \A m \in since'[q] \ {at'[q]} : Closer(key[q], at[q], m)'
      BY <1>1, <2>2, <2>7 DEF Closer, PositionsOf
    <2> QED BY <2>1, <2>8 DEF OnItsWay
  <1> QED BY <1>2, <1>3

LEMMA RouteOnItsWay ==
  ASSUME TypeInv, RingFollowsView, OwnKept, CallsUp, NEW q \in Requests, OnItsWay(q), Route(q)
  PROVE  OnItsWay(q)'
  <1> DEFINE n == Lookup(ring[at[q]], key[q])
  <1>1. hash' = hash /\ key' = key /\ at' = at /\ since' = since
    BY DEF Route, clusterVars
  <1>2. pc[q] = "routing" /\ at[q] \in since[q] /\ since[q] \subseteq Nodes
        /\ key[q] \in Positions /\ at[q] \in Nodes /\ Up(at[q])
    BY DEF Route, CallsUp, CallUp, Active, TypeInv, TypeOK
  <1>3. owner'[q] = n
    BY DEF Route, TypeInv, TypeOK
  <1>4. pc'[q] = IF n = NoNode THEN "failed" ELSE IF n = at[q] THEN "handled" ELSE "forwarding"
    BY DEF Route, TypeInv, TypeOK
  <1>5. n \in Nodes \cup {NoNode}
    BY <1>2, LookupType
  <1> HIDE DEF n
  <1>6. CASE n = NoNode \/ n = at[q]
    BY <1>4, <1>6 DEF OnItsWay, Active
  <1>7. CASE n # NoNode /\ n # at[q]
    <2>1. n \in Nodes
      BY <1>5, <1>7
    <2>2. Closer(key[q], n, at[q])
      BY <1>2, <1>7, <2>1, LookupIsCloser DEF n
    <2>3. \A m \in since[q] \ {at[q]} : Closer(key[q], at[q], m)
      BY <1>2 DEF OnItsWay, Active
    <2>4. \A m \in since'[q] \ {at'[q]} : Closer(key[q], at[q], m)'
      BY <1>1, <2>3 DEF Closer, PositionsOf
    <2>5. owner'[q] \in Nodes /\ Closer(key[q], owner[q], at[q])'
      BY <1>1, <1>3, <2>1, <2>2 DEF Closer, PositionsOf
    <2> QED BY <2>4, <2>5 DEF OnItsWay
  <1> QED BY <1>6, <1>7

LEMMA ResolveOnItsWay ==
  ASSUME TypeInv, NEW q \in Requests, OnItsWay(q), Resolve(q)
  PROVE  OnItsWay(q)'
  <1>1. hash' = hash
    BY DEF Resolve, clusterVars
  <1>2. pc[q] = "arrived" /\ at'[q] = at[q] /\ pc'[q] # "forwarding"
        /\ since'[q] = IF key'[q] = key[q] THEN since[q] \cup {at[q]} ELSE {at[q]}
    BY Resolved
  <1>3. \A m \in since[q] \ {at[q]} : Closer(key[q], at[q], m)
    BY <1>2 DEF OnItsWay, Active
  <1>4. ASSUME NEW m \in since'[q] \ {at'[q]} PROVE Closer(key[q], at[q], m)'
    <2>1. key'[q] = key[q] /\ m \in since[q] \ {at[q]}
      BY <1>2
    <2>2. Closer(key[q], at[q], m)
      BY <1>3, <2>1
    <2> QED BY <1>1, <1>2, <2>1, <2>2 DEF Closer, PositionsOf
  <1> QED BY <1>2, <1>4 DEF OnItsWay

LEMMA ApproachNext ==
  ASSUME TypeInv, RingFollowsView, OwnKept, CallsUp, Approach, IdleNowhere, [Next]_vars
  PROVE  Approach'
  <1>1. hash' = hash
    BY HashUnchanged
  <1> SUFFICES ASSUME NEW q \in Requests PROVE OnItsWay(q)'
    BY ApproachMeans DEF Approach, OnItsWay
  <1>2. OnItsWay(q)
    BY ApproachMeans
  <1>3. CASE UNCHANGED vars
    BY <1>1, <1>2, <1>3, StaysOnItsWay DEF vars, requestVars, Active
  <1>4. CASE Gossip \/ Life
    <2>1. UNCHANGED <<key, at, owner, since>>
      BY <1>4 DEF Gossip, Life, Start, Learn, Leaves, Forget, Suspect, Serve, Stop, Crash,
                  Shutdown, Leave, requestVars
    <2>2. Active(q)' => Active(q) /\ pc'[q] = pc[q]
      BY <1>4, ClusterCallsUp
    <2> QED BY <1>1, <1>2, <2>1, <2>2, StaysOnItsWay
  <1>5. ASSUME NEW r \in Requests,
               Resolve(r) \/ Route(r) \/ Forward(r) \/ \E n \in Nodes : Arrive(r, n)
        PROVE  OnItsWay(q)'
    <2>1. CASE q # r
      <3>1. /\ key'[q] = key[q] /\ pc'[q] = pc[q] /\ at'[q] = at[q]
            /\ owner'[q] = owner[q] /\ since'[q] = since[q]
        BY <1>5, <2>1, OtherCalls
      <3>2. Active(q)' => Active(q)
        BY <3>1 DEF Active
      <3> QED BY <1>1, <1>2, <3>1, <3>2, StaysOnItsWay
    <2>2. CASE q = r /\ \E n \in Nodes : Arrive(r, n)
      <3>1. pc'[q] = "arrived" /\ since'[q] = {}
        BY <2>2 DEF Arrive, IdleNowhere, TypeInv, TypeOK
      <3> QED BY <3>1 DEF OnItsWay
    <2>3. CASE q = r /\ Route(r)
      BY <1>2, <2>3, RouteOnItsWay
    <2>4. CASE q = r /\ Forward(r)
      BY <1>2, <2>4, ForwardOnItsWay
    <2>5. CASE q = r /\ Resolve(r)
      BY <1>2, <2>5, ResolveOnItsWay
    <2> QED BY <1>5, <2>1, <2>2, <2>3, <2>4, <2>5
  <1> QED BY <1>3, <1>4, <1>5 DEF Next, Calls, Handler

-----------------------------------------------------------------------------
(* The theorems.                                                           *)

\* A Dispatch call has one cell, and has found it on all the nodes before.
OneCell ==
    \A q \in Requests : call[q] = "Dispatch" =>
        key[q] \in Keys /\ (Active(q) => via[q] = since[q] \cup {at[q]})

IInv == TypeInv /\ RingInv /\ CallsUp /\ Approach /\ IdleNowhere /\ OneCell

LEMMA IInvInit == Init => IInv
  <1> SUFFICES ASSUME Init PROVE IInv
    OBVIOUS
  <1>1. TypeInv
    BY TypeInit
  <1>2. \A n \in Nodes : ~Up(n) /\ ring[n] = EmptyRing /\ view[n] = {}
    BY DEF Init, Up
  <1>3. Follows(EmptyRing, {})
    BY DEF Follows, EmptyRing
  <1>4. RingInv
    BY <1>2, <1>3 DEF RingInv
  <1>5. \A q \in Requests : ~Active(q) /\ at[q] = NoNode /\ since[q] = {}
    BY DEF Init, Active
  <1>6. CallsUp /\ Approach /\ IdleNowhere
    BY <1>5 DEF CallsUp, CallUp, Approach, IdleNowhere
  <1>7. OneCell
    BY <1>5 DEF Init, OneCell
  <1> QED BY <1>1, <1>4, <1>6, <1>7 DEF IInv

LEMMA IdleNext ==
  ASSUME TypeInv, IdleNowhere, [Next]_vars
  PROVE  IdleNowhere'
  <1>1. CASE UNCHANGED vars
    BY <1>1 DEF vars, requestVars, IdleNowhere
  <1>2. CASE Gossip \/ Life
    <2>1. UNCHANGED <<at, since>>
      BY <1>2 DEF Gossip, Life, Start, Learn, Leaves, Forget, Suspect, Serve, Stop, Crash,
                  Shutdown, Leave, requestVars
    <2>2. \A q \in Requests : pc'[q] = "idle" => pc[q] = "idle"
      BY <1>2 DEF Gossip, Life, Start, Learn, Leaves, Forget, Suspect, Serve, Stop, Crash,
                  Shutdown, Leave, requestVars
    <2> QED BY <2>1, <2>2 DEF IdleNowhere
  <1>3. ASSUME NEW r \in Requests,
               Resolve(r) \/ Route(r) \/ Forward(r) \/ \E n \in Nodes : Arrive(r, n)
        PROVE  IdleNowhere'
    <2>1. pc'[r] # "idle"
      BY <1>3 DEF Resolve, Route, Forward, Arrive, TypeInv, TypeOK
    <2>2. \A q \in Requests \ {r} : pc'[q] = pc[q] /\ at'[q] = at[q] /\ since'[q] = since[q]
      BY <1>3, OtherCalls
    <2> QED BY <2>1, <2>2 DEF IdleNowhere
  <1> QED BY <1>1, <1>2, <1>3 DEF Next, Calls, Handler

LEMMA OneCellNext ==
  ASSUME TypeInv, CallsUp, IdleNowhere, OneCell, [Next]_vars
  PROVE  OneCell'
  <1> SUFFICES ASSUME NEW q \in Requests, call'[q] = "Dispatch"
               PROVE  key'[q] \in Keys /\ (Active(q)' => via'[q] = since'[q] \cup {at'[q]})
    BY DEF OneCell
  <1>1. CASE UNCHANGED vars
    BY <1>1 DEF vars, requestVars, OneCell, Active
  <1>2. CASE Gossip \/ Life
    <2>1. UNCHANGED <<call, key, at, via, since>>
      BY <1>2 DEF Gossip, Life, Start, Learn, Leaves, Forget, Suspect, Serve, Stop, Crash,
                  Shutdown, Leave, requestVars
    <2>2. Active(q)' => Active(q)
      BY <1>2, ClusterCallsUp
    <2> QED BY <2>1, <2>2 DEF OneCell
  <1>3. ASSUME NEW r \in Requests,
               Resolve(r) \/ Route(r) \/ Forward(r) \/ \E n \in Nodes : Arrive(r, n)
        PROVE  key'[q] \in Keys /\ (Active(q)' => via'[q] = since'[q] \cup {at'[q]})
    <2>1. call[q] = "Dispatch" /\ key[q] \in Keys
      BY <1>3, OtherCalls DEF OneCell
    <2>2. CASE q # r
      BY <1>3, <2>1, <2>2, OtherCalls DEF OneCell, Active
    <2>3. CASE q = r /\ \E n \in Nodes : Arrive(q, n)
      BY <2>1, <2>3 DEF Arrive, IdleNowhere, TypeInv, TypeOK
    <2>4. CASE q = r /\ Resolve(q)
      <3>1. Active(q)
        BY <2>4 DEF Resolve, Active
      <3>2. via[q] = since[q] \cup {at[q]}
        BY <2>1, <3>1 DEF OneCell
      <3> QED BY <2>1, <2>4, <3>2, Resolved
    <2>5. CASE q = r /\ Route(q)
      BY <2>1, <2>5 DEF Route, Active, OneCell
    <2>6. CASE q = r /\ Forward(q)
      <3>1. via[q] = since[q] \cup {at[q]} /\ at[q] \in since[q]
        BY <2>1, <2>6 DEF Forward, Active, CallsUp, CallUp, OneCell
      <3>2. key' = key /\ since' = since
        BY <2>6 DEF Forward
      <3>3. \/ pc'[q] = "failed"
            \/ at'[q] = owner[q] /\ via'[q] = via[q] \cup {owner[q]}
        BY <2>6 DEF Forward, TypeInv, TypeOK
      <3> QED BY <2>1, <3>1, <3>2, <3>3 DEF Active
    <2> QED BY <1>3, <2>2, <2>3, <2>4, <2>5, <2>6
  <1> QED BY <1>1, <1>2, <1>3 DEF Next, Calls, Handler

LEMMA CallsUpNext ==
  ASSUME TypeInv, CallsUp, [Next]_vars
  PROVE  CallsUp'
  <1>1. CASE UNCHANGED vars
    BY <1>1 DEF vars, clusterVars, requestVars, CallsUp, CallUp, Active, Up
  <1>2. CASE Gossip \/ Life
    BY <1>2, ClusterCallsUp
  <1>3. CASE Calls
    BY <1>3, CallCallsUp DEF Calls, Handler
  <1> QED BY <1>1, <1>2, <1>3 DEF Next

LEMMA IInvNext == IInv /\ [Next]_vars => IInv'
  <1> SUFFICES ASSUME IInv, [Next]_vars PROVE IInv'
    OBVIOUS
  <1>1. TypeInv /\ RingInv /\ CallsUp /\ Approach /\ IdleNowhere /\ OneCell
    BY DEF IInv
  <1>2. TypeInv'
    BY <1>1, TypeNext
  <1>3. RingInv'
    BY <1>1, RingNext
  <1>4. CallsUp'
    BY <1>1, CallsUpNext
  <1>5. Approach'
    BY <1>1, ApproachNext, RingInvMeans
  <1>6. IdleNowhere'
    BY <1>1, IdleNext
  <1>7. OneCell'
    BY <1>1, OneCellNext
  <1> QED BY <1>2, <1>3, <1>4, <1>5, <1>6, <1>7 DEF IInv

THEOREM Invariance == Spec => []IInv
  BY IInvInit, IInvNext, PTL DEF Spec

\* Every ring maps positions of the hash space to nodes, and every variable
\* keeps its type.  (Ring, Membership and Router.)
THEOREM TypeCorrect == Spec => []TypeOK
  <1>1. IInv => TypeOK
    BY DEF IInv, TypeInv
  <1> QED BY <1>1, Invariance, PTL

\* Whatever order joins and leaves are told in, and however nodes crash and
\* come back, the ring of a node is the ring of the members it lists: without
\* collisions exactly their positions, and always only positions of theirs.
\* (AddNode and RemoveNode under NotifyJoin and NotifyLeave.)
THEOREM RingsFollowViews == Spec => []RingFollowsView
  <1>1. IInv => RingFollowsView
    BY RingInvMeans DEF IInv
  <1> QED BY <1>1, Invariance, PTL

\* Nodes that list the same members route alike, whatever order they learnt of
\* them in, as long as no two replicas collide.  (AddNode and RemoveNode, as
\* NotifyJoin and NotifyLeave call them.)
ViewsDecide ==
  NoCollision => \A n, m \in Nodes : view[n] = view[m] =>
      \A h \in Positions : Lookup(ring[n], h) = Lookup(ring[m], h)

THEOREM EqualViewsRouteAlike == Spec => []ViewsDecide
  <1>1. TypeOK /\ RingFollowsView => ViewsDecide
    <2> SUFFICES ASSUME TypeOK, RingFollowsView, NoCollision, NEW n \in Nodes, NEW m \in Nodes, view[n] = view[m]
                 PROVE  ring[n] = ring[m]
      BY DEF ViewsDecide
    <2>1. DOMAIN ring[n] = DOMAIN ring[m]
      BY DEF RingFollowsView
    <2>2. ASSUME NEW p \in DOMAIN ring[n] PROVE ring[n][p] = ring[m][p]
      <3>1. /\ ring[n][p] \in view[n] /\ p \in PositionsOf(ring[n][p])
            /\ ring[m][p] \in view[n] /\ p \in PositionsOf(ring[m][p])
        BY <2>1 DEF RingFollowsView
      <3>2. view[n] \subseteq Nodes
        BY DEF TypeOK
      <3> QED BY <3>1, <3>2, OneOwner
    <2>3. ring[n] = [p \in DOMAIN ring[n] |-> ring[n][p]] /\ ring[m] = [p \in DOMAIN ring[m] |-> ring[m][p]]
      BY DEF TypeOK, Rings
    <2> QED BY <2>1, <2>2, <2>3
  <1> QED BY <1>1, TypeCorrect, RingsFollowViews, PTL

LEMMA NeverBackStep ==
  ASSUME IInv, [Next]_vars, NEW q \in Requests, at[q] # NoNode, at'[q] # at[q]
  PROVE  at'[q] \notin (IF call[q] = "Dispatch" THEN via[q] ELSE since[q])
  <1>1. TypeInv /\ CallsUp /\ Approach /\ IdleNowhere /\ OneCell
    BY DEF IInv
  <1>2. ~(Gossip \/ Life) /\ ~UNCHANGED vars
    BY DEF Gossip, Life, Start, Learn, Leaves, Forget, Suspect, Serve, Stop, Crash,
           Shutdown, Leave, vars, requestVars
  <1>3. PICK r \in Requests : Resolve(r) \/ Route(r) \/ Forward(r) \/ \E n \in Nodes : Arrive(r, n)
    BY <1>2 DEF Next, Calls, Handler
  <1>4. r = q
    BY <1>1, <1>3, OtherCalls
  <1>5. ~Resolve(q) /\ ~Route(q) /\ \A n \in Nodes : ~Arrive(q, n)
    BY <1>1 DEF Resolve, Route, Arrive, IdleNowhere
  <1>6. Forward(q)
    BY <1>3, <1>4, <1>5
  <1>7. pc[q] = "forwarding" /\ at'[q] = owner[q]
    BY <1>1, <1>6 DEF Forward, TypeInv, TypeOK
  <1>8. /\ owner[q] \in Nodes /\ Closer(key[q], owner[q], at[q])
        /\ \A m \in since[q] \ {at[q]} : Closer(key[q], at[q], m)
        /\ at[q] \in since[q] /\ since[q] \subseteq Nodes /\ key[q] \in Positions
    BY <1>1, <1>7 DEF Approach, CallsUp, CallUp, Active, TypeInv, TypeOK
  <1>9. ASSUME owner[q] \in since[q] PROVE FALSE
    <2>1. owner[q] # at[q]
      BY <1>1, <1>8, NotCloserThanItself
    <2>2. Closer(key[q], at[q], owner[q])
      BY <1>8, <1>9, <2>1
    <2>3. Closer(key[q], owner[q], owner[q])
      BY <1>1, <1>8, <2>2, CloserIsTransitive
    <2> QED BY <1>1, <1>8, <2>3, NotCloserThanItself
  <1>10. call[q] = "Dispatch" => via[q] = since[q]
    BY <1>1, <1>7, <1>8 DEF OneCell, Active
  <1> QED BY <1>7, <1>9, <1>10

\* Although every node routes by a ring of its own and the calls carry no hop
\* count, nodes that disagree about an owner cannot pass a Dispatch call to and
\* fro: it is forwarded to no node it has been to.  A RespondToOffer call, for
\* which every node reads anew which trip its driver is offered, is forwarded
\* to none of the nodes that found the cell it now has, since another was found.
\* (Route, RouteOfferResponse, and RespondToOffer in cmd/disco/grpc_server.go.)
THEOREM NeverForwardedBack == Spec => NeverBack
  <1>1. IInv /\ [Next]_vars =>
          [\A q \in Requests : at[q] # NoNode /\ at'[q] # at[q] =>
              at'[q] \notin (IF call[q] = "Dispatch" THEN via[q] ELSE since[q])]_vars
    BY NeverBackStep
  <1> QED BY <1>1, Invariance, PTL DEF Spec, NeverBack

-----------------------------------------------------------------------------
(* A view that changes moves the cells of the node that came or went.      *)

\* Ring S is ring R with positions of m besides.
Grown(R, S, m) ==
    /\ DOMAIN R \subseteq DOMAIN S
    /\ \A p \in DOMAIN S : S[p] = IF p \in DOMAIN R THEN R[p] ELSE m

\* A cell of a ring that has grown is where it was, or with the new node.
LEMMA GrownLookup ==
  ASSUME NEW R, NEW S, NEW m, NEW h \in Nat, DOMAIN S \subseteq Nat, Grown(R, S, m)
  PROVE  Lookup(S, h) = Lookup(R, h) \/ Lookup(S, h) = m
  <1>1. DOMAIN R \subseteq DOMAIN S /\ DOMAIN R \subseteq Nat
    BY DEF Grown
  <1>2. CASE DOMAIN S = {}
    <2>1. DOMAIN R = {}
      BY <1>1, <1>2
    <2>2. Lookup(S, h) = NoNode /\ Lookup(R, h) = NoNode
      BY <1>2, <2>1 DEF Lookup
    <2> QED BY <2>2
  <1>3. CASE DOMAIN S # {}
    <2>1. PICK p \in DOMAIN S :
             /\ Lookup(S, h) = S[p]
             /\ \A q \in DOMAIN S : q = p \/ Sooner(h, p, q)
      BY <1>3, LookupIsSoonest
    <2>2. CASE p \notin DOMAIN R
      BY <2>1, <2>2 DEF Grown
    <2>3. CASE p \in DOMAIN R
      <3>1. PICK r \in DOMAIN R :
               /\ Lookup(R, h) = R[r]
               /\ \A q \in DOMAIN R : q = r \/ Sooner(h, r, q)
        BY <1>1, <2>3, LookupIsSoonest
      <3>2. r = p \/ (Sooner(h, p, r) /\ Sooner(h, r, p))
        BY <1>1, <2>1, <2>3, <3>1
      <3>3. p \in Nat /\ r \in Nat
        BY <1>1, <2>3
      <3>4. r = p
        BY <3>2, <3>3 DEF Sooner
      <3> QED BY <2>1, <2>3, <3>1, <3>4 DEF Grown
    <2> QED BY <2>2, <2>3
  <1> QED BY <1>2, <1>3

LEMMA AddGrows ==
  ASSUME NEW R, NEW P, NEW m
  PROVE  Grown(R, AddNode(R, P, m), m)
  BY DEF Grown, AddNode

LEMMA RemoveShrinks ==
  ASSUME NEW R, NEW P, NEW m
  PROVE  Grown(RemoveNode(R, P, m), R, m)
  BY DEF Grown, RemoveNode

\* A process that does not run lists nobody.
DownListsNone == \A n \in Nodes : ~Up(n) => view[n] = {}

LEMMA DownInit == Init => DownListsNone
  BY DEF Init, DownListsNone

LEMMA DownNext ==
  ASSUME TypeInv, DownListsNone, [Next]_vars
  PROVE  DownListsNone'
  <1> USE DEF TypeInv, TypeOK, DownListsNone, Up
  <1>1. CASE UNCHANGED vars \/ Calls
    <2>1. UNCHANGED <<status, view>>
      BY <1>1 DEF vars, clusterVars, Calls, Arrive, Handler, Resolve, Route, Forward
    <2> QED BY <2>1
  <1>2. ASSUME NEW n \in Nodes, NEW m \in Nodes, Learn(n, m) \/ Leaves(n, m)
        PROVE  DownListsNone'
    BY <1>2 DEF Learn, Leaves
  <1>3. ASSUME NEW n \in Nodes, Start(n) \/ Serve(n) \/ Shutdown(n) PROVE DownListsNone'
    BY <1>3 DEF Start, Serve, Shutdown
  <1>4. ASSUME NEW n \in Nodes, Stop(n) PROVE DownListsNone'
    BY <1>4 DEF Stop
  <1> QED BY <1>1, <1>2, <1>3, <1>4 DEF Next, Gossip, Life, Forget, Suspect, Crash, Leave

\* Only three actions change a view, and two of them one that stays non-empty.
LEMMA ViewSteps ==
  ASSUME TypeInv, DownListsNone, [Next]_vars, NEW n \in Nodes, view[n] # {}, view'[n] # {}
  PROVE  \/ ring'[n] = ring[n]
         \/ \E m \in Nodes \ view[n] :
               view'[n] = view[n] \cup {m} /\ ring'[n] = AddNode(ring[n], PositionsOf(m), m)
         \/ \E m \in view[n] :
               view'[n] = view[n] \ {m} /\ ring'[n] = RemoveNode(ring[n], PositionsOf(m), m)
  <1> DEFINE Goal ==
         \/ ring'[n] = ring[n]
         \/ \E m \in Nodes \ view[n] :
               view'[n] = view[n] \cup {m} /\ ring'[n] = AddNode(ring[n], PositionsOf(m), m)
         \/ \E m \in view[n] :
               view'[n] = view[n] \ {m} /\ ring'[n] = RemoveNode(ring[n], PositionsOf(m), m)
  <1> SUFFICES Goal
    OBVIOUS
  <1>0. /\ ring = [k \in Nodes |-> ring[k]] /\ view \in [Nodes -> SUBSET Nodes]
        /\ ~Up(n) => view[n] = {}
    BY DEF TypeInv, TypeOK, DownListsNone
  <1>1. CASE UNCHANGED vars \/ Calls
    <2>1. ring' = ring
      BY <1>1 DEF vars, clusterVars, Calls, Arrive, Handler, Resolve, Route, Forward
    <2> QED BY <2>1
  <1>2. ASSUME NEW k \in Nodes, NEW m \in Nodes, Learn(k, m) PROVE Goal
    <2>1. CASE k # n
      <3>1. ring'[n] = ring[n]
        BY <1>0, <1>2, <2>1 DEF Learn
      <3> QED BY <3>1
    <2>2. CASE k = n
      <3>1. m \in Nodes \ view[n] /\ view'[n] = view[n] \cup {m}
        BY <1>0, <1>2, <2>2 DEF Learn
      <3>2. ring'[n] = AddNode(ring[n], PositionsOf(m), m)
        BY <1>0, <1>2, <2>2 DEF Learn
      <3> QED BY <3>1, <3>2
    <2> QED BY <2>1, <2>2
  <1>3. ASSUME NEW k \in Nodes, NEW m \in Nodes, Leaves(k, m) PROVE Goal
    <2>1. CASE k # n
      <3>1. ring'[n] = ring[n]
        BY <1>0, <1>3, <2>1 DEF Leaves
      <3> QED BY <3>1
    <2>2. CASE k = n
      <3>1. m \in view[n] /\ view'[n] = view[n] \ {m}
        BY <1>0, <1>3, <2>2 DEF Leaves
      <3>2. ring'[n] = RemoveNode(ring[n], PositionsOf(m), m)
        BY <1>0, <1>3, <2>2 DEF Leaves
      <3> QED BY <3>1, <3>2
    <2> QED BY <2>1, <2>2
  <1>4. ASSUME NEW k \in Nodes, Start(k) PROVE Goal
    <2>1. k # n
      BY <1>0, <1>4 DEF Start, Up
    <2>2. ring'[n] = ring[n]
      BY <1>0, <1>4, <2>1 DEF Start
    <2> QED BY <2>2
  <1>5. ASSUME NEW k \in Nodes, Serve(k) \/ Shutdown(k) PROVE Goal
    <2>1. ring' = ring
      BY <1>5 DEF Serve, Shutdown
    <2> QED BY <2>1
  <1>6. ASSUME NEW k \in Nodes, Stop(k) PROVE Goal
    <2>1. k # n
      BY <1>0, <1>6 DEF Stop
    <2>2. ring'[n] = ring[n]
      BY <1>0, <1>6, <2>1 DEF Stop
    <2> QED BY <2>2
  <1> QED BY <1>1, <1>2, <1>3, <1>4, <1>5, <1>6
          DEF Next, Gossip, Life, Forget, Suspect, Crash, Leave

\* When a node learns of a member or forgets one, a cell that its ring moves
\* moves to the one that came or away from the one that went, whatever replicas
\* collide: no other pair of nodes exchanges a cell.  (AddNode and RemoveNode.)
THEOREM CellsMoveWithMembers == Spec => OnlyItsCellsMove
  <1>1. TypeInv /\ DownListsNone /\ [Next]_vars =>
          [\A n \in Nodes : view[n] # {} /\ view'[n] # {} /\ ring'[n] # ring[n] =>
              \A h \in Positions :
                  LET o == Lookup(ring[n], h)  o2 == Lookup(ring[n], h)' IN
                  o2 # o => o \in view[n] \ view'[n] \/ o2 \in view'[n] \ view[n]]_vars
    <2> SUFFICES ASSUME TypeInv, DownListsNone, [Next]_vars, NEW n \in Nodes, NEW h \in Positions,
                        view[n] # {}, view'[n] # {}, Lookup(ring[n], h)' # Lookup(ring[n], h)
                 PROVE  \/ Lookup(ring[n], h) \in view[n] \ view'[n]
                        \/ Lookup(ring[n], h)' \in view'[n] \ view[n]
      OBVIOUS
    <2>0. Lookup(ring[n], h)' = Lookup(ring'[n], h)
      BY DEF Lookup, First
    <2>1. h \in Nat
      OBVIOUS
    <2>2. DOMAIN ring[n] \subseteq Nat
      BY DEF TypeInv, TypeOK, Rings
    <2>3. ASSUME NEW m \in Nodes \ view[n],
                 view'[n] = view[n] \cup {m}, ring'[n] = AddNode(ring[n], PositionsOf(m), m)
          PROVE  Lookup(ring'[n], h) \in view'[n] \ view[n]
      <3> DEFINE S == AddNode(ring[n], PositionsOf(m), m)
      <3>1. Grown(ring[n], S, m)
        BY AddGrows
      <3>2. DOMAIN S \subseteq Nat
        <4>1. DOMAIN S = DOMAIN ring[n] \cup PositionsOf(m)
          BY DEF AddNode
        <4>2. PositionsOf(m) \subseteq Nat
          BY PositionsType
        <4> HIDE DEF S
        <4> QED BY <2>2, <4>1, <4>2
      <3> HIDE DEF S
      <3>3. Lookup(S, h) = Lookup(ring[n], h) \/ Lookup(S, h) = m
        BY <2>1, <3>1, <3>2, GrownLookup
      <3>4. ring'[n] = S
        BY <2>3 DEF S
      <3>5. Lookup(ring'[n], h) = m
        BY <3>3, <3>4
      <3> QED BY <2>3, <3>5
    <2>4. ASSUME NEW m \in view[n],
                 view'[n] = view[n] \ {m}, ring'[n] = RemoveNode(ring[n], PositionsOf(m), m)
          PROVE  Lookup(ring[n], h) \in view[n] \ view'[n]
      <3> DEFINE S == RemoveNode(ring[n], PositionsOf(m), m)
      <3>1. Grown(S, ring[n], m)
        BY RemoveShrinks
      <3> HIDE DEF S
      <3>2. Lookup(ring[n], h) = Lookup(S, h) \/ Lookup(ring[n], h) = m
        BY <2>1, <2>2, <3>1, GrownLookup
      <3>3. ring'[n] = S
        BY <2>4 DEF S
      <3>4. Lookup(ring[n], h) = m
        BY <3>2, <3>3
      <3> QED BY <2>4, <3>4
    <2>5. \/ ring'[n] = ring[n]
          \/ \E m \in Nodes \ view[n] :
                view'[n] = view[n] \cup {m} /\ ring'[n] = AddNode(ring[n], PositionsOf(m), m)
          \/ \E m \in view[n] :
                view'[n] = view[n] \ {m} /\ ring'[n] = RemoveNode(ring[n], PositionsOf(m), m)
      BY ViewSteps
    <2> QED BY <2>0, <2>3, <2>4, <2>5
  <1>2. TypeInv /\ DownListsNone /\ [Next]_vars => DownListsNone'
    BY DownNext
  <1>3. Spec => []TypeInv
    <2>1. IInv => TypeInv
      BY DEF IInv
    <2> QED BY <2>1, Invariance, PTL
  <1> QED BY <1>1, <1>2, <1>3, DownInit, PTL DEF Spec, OnlyItsCellsMove
=============================================================================
