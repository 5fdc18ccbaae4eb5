------------------------------ MODULE GatewayHub ------------------------------
(***************************************************************************)
(* The map's feed: cmd/gateway reads trip.lifecycle and the hub of         *)
(* internal/gateway writes every event to every WebSocket client.  One     *)
(* goroutine consumes and broadcasts; each connection has a handler that   *)
(* registers it, reads until that fails and unregisters it.  The hub's     *)
(* mutex is held through a whole broadcast, and a write has no deadline.   *)
(***************************************************************************)
EXTENDS Integers, Sequences

CONSTANTS
    Clients,
    MaxEvents,  \* bound: events in the topic
    MaxFaults   \* bound: reads that fail

ASSUME HubAssumption == MaxEvents \in Nat /\ MaxFaults \in Nat

VARIABLES
    written, read,  \* the topic's length; the offset the group has committed
    message,        \* the event the consumer holds (0: none)
    locked, todo,   \* mu is held by Broadcast; the clients left in its loop
    clients,        \* Hub.clients
    handler,        \* the /ws handler of each connection
    peer,           \* the other end: "there", "stalled" (its buffers are full), "gone"
    feed,           \* what was written to each connection
    handled, joined, closes,    \* history: events broadcast, and how many before Register; Close calls
    faults

topicVars == <<written, read, message>>
hubVars   == <<locked, todo, clients>>
connVars  == <<handler, peer>>
histVars  == <<handled, joined>>
vars == <<topicVars, hubVars, connVars, feed, closes, histVars, faults>>

Open(c) == closes[c] = 0

Init ==
    /\ written = 0 /\ read = 0 /\ message = 0
    /\ locked = FALSE /\ todo = {} /\ clients = {}
    /\ handler = [c \in Clients |-> "new"] /\ peer = [c \in Clients |-> "there"]
    /\ feed = [c \in Clients |-> <<>>]
    /\ handled = <<>> /\ joined = [c \in Clients |-> 0] /\ closes = [c \in Clients |-> 0]
    /\ faults = 0

-----------------------------------------------------------------------------
(* The topic and its consumer.                                             *)

\* A dispatch loop publishes.
Produce ==
    /\ written < MaxEvents
    /\ written' = written + 1
    /\ UNCHANGED <<read, message, hubVars, connVars, feed, closes, histVars, faults>>

\* Mutant: the offset is committed after the broadcast, which may be cut short.
ReadUncommitted ==
    /\ message = 0 /\ read < written
    /\ message' = read + 1
    /\ read' \in IF faults < MaxFaults THEN {read, read + 1} ELSE {read + 1}
    /\ faults' = faults + (IF read' = read THEN 1 ELSE 0)
    /\ UNCHANGED <<written, hubVars, connVars, feed, closes, histVars>>

\* ReadMessage commits what it returns.
ReadMessage ==
    /\ message = 0 /\ read < written
    /\ read' = read + 1 /\ message' = read + 1
    /\ UNCHANGED <<written, hubVars, connVars, feed, closes, histVars, faults>>

\* It fails with the offset committed or not; there is a new reader in 5 s.
ReadFails ==
    /\ message = 0 /\ read < written /\ faults < MaxFaults
    /\ faults' = faults + 1
    /\ read' \in {read, read + 1}
    /\ UNCHANGED <<written, message, hubVars, connVars, feed, closes, histVars>>

Malformed ==
    /\ message # 0 /\ ~locked
    /\ message' = 0
    /\ UNCHANGED <<written, read, hubVars, connVars, feed, closes, histVars, faults>>

StartBroadcast ==
    /\ message # 0 /\ ~locked
    /\ locked' = TRUE /\ todo' = clients
    /\ handled' = Append(handled, message)
    /\ UNCHANGED <<topicVars, clients, connVars, feed, closes, joined, faults>>

\* WriteMessage to the next client; what a peer that is gone is sent may still
\* fit in the connection's buffer.
Deliver(c) ==
    /\ locked /\ c \in todo /\ Open(c) /\ peer[c] # "stalled"
    /\ todo' = todo \ {c}
    /\ feed' = [feed EXCEPT ![c] = Append(@, message)]
    /\ UNCHANGED <<topicVars, locked, clients, connVars, closes, histVars, faults>>

\* Mutants: a client that fails stays in the map; the loop returns at the
\* first error, and without unlocking.
WriteFailsKeeps(c) ==
    /\ locked /\ c \in todo /\ (peer[c] = "gone" \/ ~Open(c))
    /\ todo' = todo \ {c}
    /\ closes' = [closes EXCEPT ![c] = @ + 1]
    /\ UNCHANGED <<topicVars, locked, clients, connVars, feed, histVars, faults>>
WriteFailsReturns(c) ==
    /\ locked /\ c \in todo /\ (peer[c] = "gone" \/ ~Open(c))
    /\ todo' = {} /\ message' = 0 /\ clients' = clients \ {c}
    /\ closes' = [closes EXCEPT ![c] = @ + 1]
    /\ UNCHANGED <<written, read, locked, connVars, feed, histVars, faults>>

WriteFails(c) ==
    /\ locked /\ c \in todo /\ (peer[c] = "gone" \/ ~Open(c))
    /\ todo' = todo \ {c} /\ clients' = clients \ {c}
    /\ closes' = [closes EXCEPT ![c] = @ + 1]
    /\ UNCHANGED <<topicVars, locked, connVars, feed, histVars, faults>>

EndBroadcast ==
    /\ locked /\ todo = {} /\ message # 0
    /\ locked' = FALSE /\ message' = 0
    /\ UNCHANGED <<written, read, todo, clients, connVars, feed, closes, histVars, faults>>

-----------------------------------------------------------------------------
(* The handlers.                                                           *)

Step(c, from, to) == handler[c] = from /\ handler' = [handler EXCEPT ![c] = to]

Upgrade(c) ==
    /\ Step(c, "new", "upgraded")
    /\ UNCHANGED <<topicVars, hubVars, peer, feed, closes, histVars, faults>>

Register(c) ==
    /\ Step(c, "upgraded", "reading") /\ ~locked
    /\ clients' = clients \cup {c}
    /\ joined' = [joined EXCEPT ![c] = Len(handled)]
    /\ UNCHANGED <<topicVars, locked, todo, peer, feed, closes, handled, faults>>

\* The read fails when the peer has gone or the hub has closed the connection.
ReadEnds(c) ==
    /\ Step(c, "reading", "leaving")
    /\ peer[c] = "gone" \/ ~Open(c)
    /\ UNCHANGED <<topicVars, hubVars, peer, feed, closes, histVars, faults>>

\* Mutants: the connection is closed whether it is registered or not; the
\* handler returns without unregistering.
UnregisterAlways(c) ==
    /\ Step(c, "leaving", "done") /\ ~locked
    /\ clients' = clients \ {c}
    /\ closes' = [closes EXCEPT ![c] = @ + 1]
    /\ UNCHANGED <<topicVars, locked, todo, peer, feed, histVars, faults>>
NoUnregister(c) ==
    /\ Step(c, "leaving", "done")
    /\ UNCHANGED <<topicVars, hubVars, peer, feed, closes, histVars, faults>>

Unregister(c) ==
    /\ Step(c, "leaving", "done") /\ ~locked
    /\ clients' = clients \ {c}
    /\ closes' = [closes EXCEPT ![c] = @ + (IF c \in clients THEN 1 ELSE 0)]
    /\ UNCHANGED <<topicVars, locked, todo, peer, feed, histVars, faults>>

\* The browser stops reading, reads again, goes away.
PeerTurns(c, to) ==
    /\ peer[c] # "gone" /\ peer[c] # to /\ handler[c] # "new"
    /\ peer' = [peer EXCEPT ![c] = to]
    /\ UNCHANGED <<topicVars, hubVars, handler, feed, closes, histVars, faults>>

-----------------------------------------------------------------------------

Consumer ==
    \/ ReadMessage \/ Malformed \/ StartBroadcast \/ EndBroadcast
    \/ \E c \in Clients : Deliver(c) \/ WriteFails(c)

Handler(c) == Upgrade(c) \/ Register(c) \/ ReadEnds(c) \/ Unregister(c)

Next ==
    \/ Produce \/ ReadFails \/ Consumer
    \/ \E c \in Clients : Handler(c) \/ \E to \in {"there", "stalled", "gone"} : PeerTurns(c, to)

Spec == Init /\ [][Next]_vars

\* The goroutines run, and a handler gets the mutex between two broadcasts.
FairSpec == Spec /\ WF_vars(Consumer) /\ \A c \in Clients : SF_vars(Handler(c))

-----------------------------------------------------------------------------

Stalled == \E c \in clients : peer[c] = "stalled"

TypeOK ==
    /\ written \in 0 .. MaxEvents /\ read \in 0 .. written /\ message \in 0 .. read
    /\ locked \in BOOLEAN /\ clients \subseteq Clients /\ todo \subseteq clients
    /\ handler \in [Clients -> {"new", "upgraded", "reading", "leaving", "done"}]
    /\ peer \in [Clients -> {"there", "stalled", "gone"}]
    /\ feed \in [Clients -> Seq(1 .. MaxEvents)] /\ handled \in Seq(1 .. MaxEvents)
    /\ joined \in [Clients -> 0 .. MaxEvents] /\ closes \in [Clients -> 0 .. 1]
    /\ faults \in 0 .. MaxFaults

\* A client sees the events in the topic's order without a gap or a repeat,
\* from its registration until it is removed; those it misses were lost or
\* malformed for everybody.  (Broadcast and Register under mu, runConsumer.)
FeedIsContiguous ==
    /\ \A i, j \in DOMAIN handled : i < j => handled[i] < handled[j]
    /\ \A c \in Clients :
        /\ feed[c] = SubSeq(handled, joined[c] + 1, joined[c] + Len(feed[c]))
        /\ c \in clients \ todo => joined[c] + Len(feed[c]) = Len(handled)

\* A connection is closed once, by the broadcast that could not write to it or
\* by its handler, and exactly when the hub lets go of it.  (Unregister's
\* check, and Broadcast's delete and Close.)
ClosedWhenRemoved ==
    \A c \in Clients : closes[c] = IF c \in clients \/ handler[c] \in {"new", "upgraded"} THEN 0 ELSE 1

\* A client that goes away is removed, whether or not there are events, if
\* none that is registered stops reading for good: a broadcast would wait for
\* it with the mutex.  (The /ws handler's loop, Broadcast's missing deadline.)
GoneClientLeaves ==
    <>[]~Stalled => \A c \in Clients : c \in clients /\ peer[c] = "gone" ~> c \notin clients

\* Every event that is written is read and its broadcast ends, on the same
\* condition, whatever connections fail meanwhile.  (runConsumer, Broadcast.)
FeedGoesOn ==
    <>[]~Stalled => (written > read \/ message # 0 ~> read = written /\ message = 0 /\ ~locked)
=============================================================================
