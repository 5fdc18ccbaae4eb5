------------------------------- MODULE Routing -------------------------------
(***************************************************************************)
(* internal/router, internal/membership and the node's life in             *)
(* cmd/disco: requests are forwarded along the rings of the nodes they     *)
(* reach, while gossip brings those rings in line with the cluster.  Every *)
(* node works out a request's cell anew: that of a Dispatch call from the  *)
(* origin it carries, that of a RespondToOffer call from the trip that     *)
(* Redis names for its driver then.                                        *)
(*                                                                         *)
(* Gossip itself is memberlist's: a node comes to know of another that     *)
(* runs or ran, in whatever order the news reach it, forgets one that      *)
(* stopped, and may take a slow one for dead.                              *)
(***************************************************************************)
EXTENDS HashRing, FiniteSets

CONSTANTS
    Nodes,
    Requests,
    Replicas,         \* indices of a node's virtual nodes
    Positions,        \* what xxhash.Sum64String returns
    Keys,             \* the hashes of the cells asked for
    NoCell,           \* no offer is open for the driver
    Hashes,           \* the hashes of replicas a run considers
    MaxChurn          \* bound on crashes, shutdowns and false suspicions

ASSUME RingAssumption ==
    /\ Positions \subseteq Nat /\ Keys \subseteq Positions
    /\ MaxChurn \in Nat
    /\ Hashes \subseteq [Nodes \X Replicas -> Positions]
ASSUME NoNodeAssumption == NoNode \notin Nodes
ASSUME NoCellAssumption == NoCell \notin Positions

VARIABLES
    hash,             \* hashReplica
    status,           \* a node's process
    view,             \* list.Members()
    ring,             \* the ring kept by its event delegate
    churn,
    call,             \* the RPC of a request
    pc, key,          \* its handlers' program counter; the hash of the cell they found last
    at, owner,        \* the node whose handler runs, what its ring answered,
    via,              \* and the nodes whose calls wait for it
    since             \* history: the nodes that found the cell in key, one after the other

clusterVars == <<hash, status, view, ring, churn>>
requestVars == <<call, pc, key, at, owner, via, since>>
vars == <<clusterVars, requestVars>>

PositionsOf(n) == {hash[<<n, i>>] : i \in Replicas}

Up(n) == status[n] \notin {"unstarted", "down"}

Init ==
    /\ hash \in Hashes
    /\ status = [n \in Nodes |-> "unstarted"]
    /\ view = [n \in Nodes |-> {}]
    /\ ring = [n \in Nodes |-> EmptyRing]
    /\ churn = 0
    /\ call \in [Requests -> {"Dispatch", "RespondToOffer"}]
    /\ pc = [q \in Requests |-> "idle"]
    /\ key \in [Requests -> Keys \cup {NoCell}]
    /\ \A q \in Requests : call[q] = "Dispatch" <=> key[q] # NoCell
    /\ at = [q \in Requests |-> NoNode]
    /\ owner = [q \in Requests |-> NoNode]
    /\ via = [q \in Requests |-> {}]
    /\ since = [q \in Requests |-> {}]

-----------------------------------------------------------------------------
(* A node's life, and what gossip tells it.                                *)

\* membership.New: a node is the first one it knows.
Start(n) ==
    /\ ~Up(n)
    /\ status' = [status EXCEPT ![n] = "joining"]
    /\ view' = [view EXCEPT ![n] = {n}]
    /\ ring' = [ring EXCEPT ![n] = AddNode(EmptyRing, PositionsOf(n), n)]
    /\ UNCHANGED <<hash, churn, requestVars>>

\* NotifyJoin: of a node that runs or, from a message that is late, of one that ran.
Learn(n, m) ==
    /\ Up(n) /\ m \notin view[n]
    /\ status[m] # "unstarted"
    /\ view' = [view EXCEPT ![n] = @ \cup {m}]
    /\ ring' = [ring EXCEPT ![n] = AddNode(@, PositionsOf(m), m)]
    /\ UNCHANGED <<hash, status, churn, requestVars>>

\* Mutant: as little happens to the ring as in NotifyUpdate.
LeavesViewOnly(n, m) ==
    /\ Up(n) /\ m \in view[n] \ {n}
    /\ view' = [view EXCEPT ![n] = @ \ {m}]
    /\ UNCHANGED <<hash, status, ring, requestVars>>

\* NotifyLeave.
Leaves(n, m) ==
    /\ Up(n) /\ m \in view[n] \ {n}
    /\ view' = [view EXCEPT ![n] = @ \ {m}]
    /\ ring' = [ring EXCEPT ![n] = RemoveNode(@, PositionsOf(m), m)]
    /\ UNCHANGED <<hash, status, requestVars>>

\* A node that left or crashed is found out; one that runs is suspected.
Forget(n, m) == ~Up(m) /\ Leaves(n, m) /\ UNCHANGED churn
Suspect(n, m) == Up(m) /\ churn < MaxChurn /\ churn' = churn + 1 /\ Leaves(n, m)

\* The join through the seeds is done, or there are none to join.
Serve(n) ==
    /\ status[n] = "joining"
    /\ view[n] # {n} \/ \A m \in Nodes \ {n} : ~Up(m)
    /\ status' = [status EXCEPT ![n] = "serving"]
    /\ UNCHANGED <<hash, view, ring, churn, requestVars>>

Active(q) == pc[q] \in {"arrived", "routing", "forwarding"}

\* The process ends: its memory is lost, and every call that runs on it or
\* waits on it with an error.
Stop(n) ==
    /\ status' = [status EXCEPT ![n] = "down"]
    /\ view' = [view EXCEPT ![n] = {}]
    /\ ring' = [ring EXCEPT ![n] = EmptyRing]
    /\ pc' = [q \in Requests |-> IF Active(q) /\ n \in via[q] THEN "failed" ELSE pc[q]]
    /\ UNCHANGED <<hash, call, key, at, owner, via, since>>

Crash(n) ==
    /\ Up(n) /\ churn < MaxChurn
    /\ churn' = churn + 1
    /\ Stop(n)

\* SIGTERM: GracefulStop takes no new calls and waits for the pending ones ...
Shutdown(n) ==
    /\ status[n] = "serving" /\ churn < MaxChurn
    /\ churn' = churn + 1
    /\ status' = [status EXCEPT ![n] = "stopping"]
    /\ UNCHANGED <<hash, view, ring, requestVars>>

\* ... and only then the node leaves the cluster.
Leave(n) ==
    /\ status[n] = "stopping"
    /\ \A q \in Requests : Active(q) => n \notin via[q]
    /\ Stop(n)
    /\ UNCHANGED churn

-----------------------------------------------------------------------------
(* A request, from any front end to any node.                              *)

Arrive(q, n) ==
    /\ pc[q] = "idle" /\ status[n] = "serving"
    /\ pc' = [pc EXCEPT ![q] = "arrived"]
    /\ at' = [at EXCEPT ![q] = n]
    /\ via' = [via EXCEPT ![q] = {n}]
    /\ UNCHANGED <<clusterVars, call, key, owner, since>>

\* grpcServer.Dispatch: the cell of the origin that the call carries, found
\* anew but always the same.  grpcServer.RespondToOffer: that of the trip which
\* driver_offer names by now, or none; loops and TTLs may have moved it.
Resolve(q) ==
    /\ pc[q] = "arrived"
    /\ \E c \in Keys \cup {NoCell} :
          /\ call[q] = "Dispatch" => c = key[q]
          /\ key' = [key EXCEPT ![q] = c]
          /\ since' = [since EXCEPT ![q] = IF c = key[q] THEN @ \cup {at[q]} ELSE {at[q]}]
          /\ pc' = [pc EXCEPT ![q] = IF c = NoCell THEN "handled" ELSE "routing"]
    /\ UNCHANGED <<clusterVars, call, at, owner, via>>

\* Mutant: a node's own cells are forwarded too.
RouteAlways(q) ==
    /\ pc[q] = "routing"
    /\ LET n == Lookup(ring[at[q]], key[q]) IN
       /\ owner' = [owner EXCEPT ![q] = n]
       /\ pc' = [pc EXCEPT ![q] = "forwarding"]
    /\ UNCHANGED <<clusterVars, call, key, at, via, since>>

\* Route and RouteOfferResponse: the lookup.
Route(q) ==
    /\ pc[q] = "routing"
    /\ LET n == Lookup(ring[at[q]], key[q]) IN
       /\ owner' = [owner EXCEPT ![q] = n]
       /\ pc' = [pc EXCEPT ![q] = IF n = NoNode THEN "failed"
                                   ELSE IF n = at[q] THEN "handled" ELSE "forwarding"]
    /\ UNCHANGED <<clusterVars, call, key, at, via, since>>

\* Their call to the owner, whose own server takes it as any other.
Forward(q) ==
    /\ pc[q] = "forwarding"
    /\ IF owner[q] \in view[at[q]] /\ status[owner[q]] = "serving"
       THEN /\ at' = [at EXCEPT ![q] = owner[q]]
            /\ via' = [via EXCEPT ![q] = @ \cup {owner[q]}]
            /\ pc' = [pc EXCEPT ![q] = "arrived"]
       ELSE /\ pc' = [pc EXCEPT ![q] = "failed"]
            /\ UNCHANGED <<at, via>>
    /\ UNCHANGED <<clusterVars, call, key, owner, since>>

-----------------------------------------------------------------------------

Gossip == \E n, m \in Nodes : Learn(n, m) \/ Forget(n, m) \/ Suspect(n, m)
Life == \E n \in Nodes : Start(n) \/ Serve(n) \/ Crash(n) \/ Shutdown(n) \/ Leave(n)
Handler(q) == Resolve(q) \/ Route(q) \/ Forward(q)
Calls == \E q \in Requests : (\E n \in Nodes : Arrive(q, n)) \/ Handler(q)

Next == Gossip \/ Life \/ Calls

Spec == Init /\ [][Next]_vars

\* A handler is a goroutine: it goes on until its call returns.  Nothing is
\* asked of gossip.
FairSpec == Spec /\ \A q \in Requests : WF_vars(Handler(q))

-----------------------------------------------------------------------------

Rings == UNION {[D -> Nodes] : D \in SUBSET Positions}

TypeOK ==
    /\ hash \in Hashes
    /\ status \in [Nodes -> {"unstarted", "down", "joining", "serving", "stopping"}]
    /\ view \in [Nodes -> SUBSET Nodes]
    /\ \A n \in Nodes : ring[n] \in Rings
    /\ churn \in 0 .. MaxChurn
    /\ call \in [Requests -> {"Dispatch", "RespondToOffer"}]
    /\ key \in [Requests -> Keys \cup {NoCell}]
    /\ pc \in [Requests -> {"idle", "arrived", "routing", "forwarding", "handled", "failed"}]
    /\ at \in [Requests -> Nodes \cup {NoNode}] /\ owner \in [Requests -> Nodes \cup {NoNode}]
    /\ via \in [Requests -> SUBSET Nodes] /\ since \in [Requests -> SUBSET Nodes]

\* The hashes of two replicas differ.
NoCollision == \A r, s \in Nodes \X Replicas : r # s => hash[r] # hash[s]

\* A node's ring is the ring of the nodes it lists, in whatever order they came
\* and went: nodes that list the same members route alike.  (AddNode and
\* RemoveNode under NotifyJoin and NotifyLeave.)  With a collision a ring still
\* has only its members' positions, each owned by a member hashed there.
RingFollowsView ==
    \A n \in Nodes :
        /\ \A p \in DOMAIN ring[n] : ring[n][p] \in view[n] /\ p \in PositionsOf(ring[n][p])
        /\ NoCollision => DOMAIN ring[n] = UNION {PositionsOf(m) : m \in view[n]}

\* When a node's view changes, a cell only moves to the node that joined or
\* away from the one that left.  (ring.go:48-51 and 64-66.)
OnlyItsCellsMove ==
    [][\A n \in Nodes : view[n] # {} /\ view'[n] # {} /\ ring'[n] # ring[n] =>
          \A h \in Positions :
              LET o == Lookup(ring[n], h)  o2 == Lookup(ring[n], h)' IN
              o2 # o => o \in view[n] \ view'[n] \/ o2 \in view'[n] \ view[n]]_vars

\* However much the rings along its way differ, a Dispatch call is never
\* forwarded to a node it has been to, and a RespondToOffer call to none that
\* found the same cell for it since another was found: a node keeps its own
\* replicas, so it only passes a call on to a node closer to the cell than
\* itself.  When the driver's offer moves, a response may well come back.
\* (Route and RouteOfferResponse, whose calls carry no hop count, over
\* AddNode's first writer wins; RespondToOffer, which reads CurrentOfferFor on
\* every node.)
NeverBack ==
    [][\A q \in Requests : at[q] # NoNode /\ at'[q] # at[q] =>
          at'[q] \notin (IF call[q] = "Dispatch" THEN via[q] ELSE since[q])]_vars

\* So a request that a node took ends, whether or not gossip ever brings the
\* rings together, unless the offer of a response's driver moves for ever
\* between the nodes that pass it on.
RequestEnds ==
    \A q \in Requests :
        <>[][key'[q] = key[q]]_vars => (pc[q] = "arrived") ~> (pc[q] \in {"handled", "failed"})
=============================================================================
