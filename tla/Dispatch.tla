------------------------------- MODULE Dispatch -------------------------------
(***************************************************************************)
(* The dispatch of ride requests: cmd/disco's request handler, the         *)
(* offer/reoffer loop of internal/offers, its ResponseHub and Reconciler,  *)
(* over the Redis records of internal/store.                               *)
(*                                                                         *)
(* A step is one Redis command (a script or MULTI is one command), one     *)
(* locked operation of the hub, or one local decision, so that what other  *)
(* goroutines and other nodes do between two commands of a function is     *)
(* explored.  A "run" is one invocation of localHandler.Handle (Requests)  *)
(* or of Reconciler.resumeIfStuck (Sweeps); both continue into             *)
(* Dispatcher.Run.  pc[r] names the command the run executes next, goal[r] *)
(* is the `to` argument of the store call it is inside of.                 *)
(***************************************************************************)
EXTENDS StateMachines, Integers, FiniteSets

CONSTANTS
    Trips,          \* one per idempotency key: CreateTrip makes at most one trip of a key
    Drivers,
    Nodes,          \* DISCO processes
    Requests,       \* Dispatch calls; several of one trip are retries of one request
    Sweeps,         \* one (node, trip) visit of a Reconciler sweep each
    TripOf,         \* the trip a run works on
    NodeOf,         \* the node a run executes on
    Owner,          \* the node the ring routes responses about a trip to
    MaxRounds,      \* Config.MaxRounds
    MaxSeen,        \* bound: how often one scan reads the same driver
    MaxReplies,     \* bound: driver responses in flight
    MaxFaults,      \* bound: cancelled runs plus node crashes
    DriversExpire,  \* may drivers stop pinging for DriverLocationTTL?
    SlowRedis,      \* may an offer record expire while its round is being resolved?
    NoTrip, NoDriver, NoRun

Runs == Requests \cup Sweeps

ASSUME RunsAssumption ==
    /\ Requests \cap Sweeps = {}
    /\ TripOf \in [Runs -> Trips]
    /\ NodeOf \in [Runs -> Nodes]
    /\ Owner \in [Trips -> Nodes]
ASSUME BoundsAssumption ==
    /\ MaxRounds \in Nat /\ MaxSeen \in Nat /\ MaxReplies \in Nat /\ MaxFaults \in Nat
    /\ DriversExpire \in BOOLEAN /\ SlowRedis \in BOOLEAN
ASSUME SentinelAssumption ==
    NoTrip \notin Trips /\ NoDriver \notin Drivers /\ NoRun \notin Runs

VARIABLES
    tstate, tdriver, index,       \* trip:<id> state and matched_driver_id; trips:offered
    dstate, located,              \* driver:<id> state ("GONE": no hash); drivers whose hash has a location
    stranded,                     \* history: drivers left OFFERED by a run that ended without releasing them
    offer, pointer,               \* offer:<trip>; driver_offer:<driver>
    waiters, chan,                \* ResponseHub.waiters of each node; the channel a run opened last
    pc, goal, cands, cur, rounds, got,   \* the runs' program counters and locals
    replies,                      \* RespondToOffer calls being routed
    faults

tripVars   == <<tstate, tdriver, index>>
driverVars == <<dstate, located, stranded>>
offerVars  == <<offer, pointer>>
hubVars    == <<waiters, chan>>
loopVars   == <<cands, cur, rounds, got>>
envVars    == <<replies, faults>>
vars == <<tripVars, driverVars, offerVars, hubVars, pc, goal, loopVars, envVars>>

Answers == {"Accepted", "Declined"}

NoAnswer == [from |-> NoDriver, ans |-> "NoResponse"]      \* also: an empty channel

NoOffer == [driver |-> NoDriver, state |-> "NONE"]         \* no hash under offer:<trip>

\* SetOfferState's final HSET can recreate a hash that has expired: such a
\* record has a state and nothing else, and no TTL.
Partial(o) == o.driver = NoDriver /\ o # NoOffer

NothingFound == [d \in Drivers |-> 0]

Ended == {"idle", "done", "failed"}
Active(r) == pc[r] \notin Ended

\* The run has made its driver OFFERED and has not yet moved it on.
Holding(r) ==
    \/ pc[r] \in {"create", "open", "await", "close", "offerRead", "offerWrite", "offerClear"}
    \/ pc[r] \in {"driverRead", "driverWrite"} /\ goal[r] \in {"EN_ROUTE", "AVAILABLE"}

\* The steps at which a run talks to Redis or sleeps, where a cancelled
\* context or a Redis error ends it.
Interruptible == {"fetch", "poll", "search", "load", "loop", "tripRead", "tripWrite", "tripIndex",
                  "driverRead", "driverWrite", "create", "offerRead", "offerWrite", "offerClear",
                  "queued", "recheck"}
PCs == Ended \cup Interruptible \cup {"open", "await", "close"}

Init ==
    /\ tstate = [t \in Trips |-> "NONE"]
    /\ tdriver = [t \in Trips |-> NoDriver]
    /\ index = {}
    /\ dstate = [d \in Drivers |-> "AVAILABLE"]
    /\ located = Drivers
    /\ stranded = {}
    /\ offer = [t \in Trips |-> NoOffer]
    /\ pointer = [d \in Drivers |-> NoTrip]
    /\ waiters = [n \in Nodes |-> [t \in Trips |-> NoRun]]
    /\ chan = [r \in Runs |-> NoAnswer]
    /\ pc = [r \in Runs |-> "idle"]
    /\ goal = [r \in Runs |-> "NONE"]
    /\ cands = [r \in Runs |-> NothingFound]
    /\ cur = [r \in Runs |-> NoDriver]
    /\ rounds = [r \in Runs |-> 0]
    /\ got = [r \in Runs |-> NoAnswer]
    /\ replies = {}
    /\ faults = 0

-----------------------------------------------------------------------------
(* How a run continues, and how it ends.                                   *)

Goto(r, l) == pc' = [pc EXCEPT ![r] = l] /\ UNCHANGED goal

\* Enter a store call (the command l) that is to move its record to state `to`.
Call(r, l, to) == pc' = [pc EXCEPT ![r] = l] /\ goal' = [goal EXCEPT ![r] = to]

NextRound(r) ==
    /\ Call(r, "loop", "NONE")
    /\ cur' = [cur EXCEPT ![r] = NoDriver]
    /\ got' = [got EXCEPT ![r] = NoAnswer]
    /\ UNCHANGED <<cands, rounds>>

\* The locals of the runs in R go out of scope.
Forget(R) ==
    /\ goal' = [r \in Runs |-> IF r \in R THEN "NONE" ELSE goal[r]]
    /\ cands' = [r \in Runs |-> IF r \in R THEN NothingFound ELSE cands[r]]
    /\ cur' = [r \in Runs |-> IF r \in R THEN NoDriver ELSE cur[r]]
    /\ rounds' = [r \in Runs |-> IF r \in R THEN 0 ELSE rounds[r]]
    /\ got' = [r \in Runs |-> IF r \in R THEN NoAnswer ELSE got[r]]

Finish(r) ==
    /\ pc' = [pc EXCEPT ![r] = IF r \in Sweeps THEN "idle" ELSE "done"]
    /\ Forget({r})

\* The visits a sweep still had ahead of it when visit r returned an error.
RestOfSweep(r) ==
    {q \in Sweeps : r \in Sweeps /\ NodeOf[q] = NodeOf[r] /\ pc[q] = "queued"}

\* The runs in R end with an error; what they held stays as it is in Redis.
EndRuns(R) ==
    /\ pc' = [r \in Runs |-> IF r \notin R THEN pc[r] ELSE IF r \in Sweeps THEN "idle" ELSE "failed"]
    /\ Forget(R)
    /\ stranded' = stranded \cup {d \in Drivers : dstate[d] = "OFFERED"
                                      /\ \E r \in R : Holding(r) /\ cur[r] = d}
    /\ UNCHANGED <<dstate, located>>

\* Reconciler.Sweep stops at the first visit that returns an error.
Fail(r) == EndRuns({r} \cup RestOfSweep(r))

-----------------------------------------------------------------------------
(* localHandler.Handle: a ride request, or a retry of one.                 *)

\* CreateTrip's script: a known idempotency key answers the existing trip.
Request(r) ==
    /\ r \in Requests /\ pc[r] = "idle"
    /\ tstate' = IF tstate[TripOf[r]] = "NONE" THEN [tstate EXCEPT ![TripOf[r]] = "REQUESTED"]
                                               ELSE tstate
    /\ Goto(r, "fetch")
    /\ UNCHANGED <<tdriver, index, driverVars, offerVars, hubVars, loopVars, envVars>>

\* The GetTrip that ends CreateTrip, and Handle's switch on the state it read.
Fetch(r) ==
    /\ pc[r] = "fetch"
    /\ \/ tstate[TripOf[r]] \in TerminalTrip /\ Finish(r)
       \/ tstate[TripOf[r]] = "OFFERED" /\ Goto(r, "poll") /\ UNCHANGED loopVars
       \/ tstate[TripOf[r]] = "REQUESTED" /\ Goto(r, "search") /\ UNCHANGED loopVars
    /\ UNCHANGED <<tripVars, driverVars, offerVars, hubVars, envVars>>

\* awaitResolution polls until the trip has ended.
Poll(r) ==
    /\ pc[r] = "poll"
    /\ tstate[TripOf[r]] \in TerminalTrip
    /\ Finish(r)
    /\ UNCHANGED <<tripVars, driverVars, offerVars, hubVars, envVars>>

\* FindCandidates reads one cell after the other; a driver that moves
\* meanwhile is read again in its new cell.
Scan(r, d) ==
    /\ pc[r] = "search"
    /\ d \in located /\ dstate[d] = "AVAILABLE"
    /\ cands[r][d] < MaxSeen
    /\ cands' = [cands EXCEPT ![r][d] = @ + 1]
    /\ UNCHANGED <<tripVars, driverVars, offerVars, hubVars, pc, goal, cur, rounds, got, envVars>>

\* GetDrivers returns an error when a hash it reads has no location.
SearchFails(r) ==
    /\ pc[r] = "search"
    /\ \E d \in Drivers : d \notin located /\ dstate[d] # "GONE"
    /\ Fail(r)
    /\ UNCHANGED <<tripVars, offerVars, hubVars, envVars>>

\* The scan is over and Rank has ordered what it found.
Ranked(r) ==
    /\ pc[r] = "search"
    /\ Goto(r, "load")
    /\ UNCHANGED <<tripVars, driverVars, offerVars, hubVars, loopVars, envVars>>

-----------------------------------------------------------------------------
(* Reconciler.Sweep and resumeIfStuck.                                     *)

SweepsOf(n) == {r \in Sweeps : NodeOf[r] = n}

\* The ticker fires and SMEMBERS trips:offered lists what to visit.
SweepList(n) ==
    /\ \A r \in SweepsOf(n) : pc[r] = "idle"
    /\ \E r \in SweepsOf(n) : TripOf[r] \in index
    /\ pc' = [r \in Runs |-> IF r \in SweepsOf(n) /\ TripOf[r] \in index THEN "queued" ELSE pc[r]]
    /\ UNCHANGED <<tripVars, driverVars, offerVars, hubVars, goal, loopVars, envVars>>

\* GetOffer: any record at all means that some node is driving the trip,
\* and one that does not parse is an error.  Visits are made one by one.
SweepOffer(r) ==
    /\ pc[r] = "queued"
    /\ \A q \in SweepsOf(NodeOf[r]) \ {r} : pc[q] \in {"idle", "queued"}
    /\ \/ Partial(offer[TripOf[r]]) /\ Fail(r)
       \/ offer[TripOf[r]].driver # NoDriver /\ Finish(r) /\ UNCHANGED driverVars
       \/ offer[TripOf[r]] = NoOffer /\ Goto(r, "recheck") /\ UNCHANGED <<loopVars, driverVars>>
    /\ UNCHANGED <<tripVars, offerVars, hubVars, envVars>>

\* GetTrip: resolved concurrently since it was listed, or stuck.
SweepTrip(r) ==
    /\ pc[r] = "recheck"
    /\ \/ tstate[TripOf[r]] # "OFFERED" /\ Finish(r)
       \/ tstate[TripOf[r]] = "OFFERED" /\ Goto(r, "search") /\ UNCHANGED loopVars
    /\ UNCHANGED <<tripVars, driverVars, offerVars, hubVars, envVars>>

-----------------------------------------------------------------------------
(* TripStore.transitionTo, DriverStore.SetState and OfferStore.SetOfferState: *)
(* each reads the state, validates the transition in the process, and      *)
(* then writes unconditionally.                                            *)

TransitionRead(r) ==
    /\ pc[r] = "tripRead"
    /\ \/ ValidTripTransition(tstate[TripOf[r]], goal[r])
          /\ Goto(r, "tripWrite") /\ UNCHANGED <<loopVars, driverVars>>
       \/ ~ValidTripTransition(tstate[TripOf[r]], goal[r]) /\ Fail(r)
    /\ UNCHANGED <<tripVars, offerVars, hubVars, envVars>>

\* Mutant: the match is recorded for the driver who answered, not the one asked.
TransitionWriteResponder(r) ==
    /\ pc[r] = "tripWrite"
    /\ tstate' = [tstate EXCEPT ![TripOf[r]] = goal[r]]
    /\ tdriver' = IF goal[r] = "MATCHED" THEN [tdriver EXCEPT ![TripOf[r]] = got[r].from] ELSE tdriver
    /\ Goto(r, "tripIndex")
    /\ UNCHANGED <<index, driverVars, offerVars, hubVars, loopVars, envVars>>

\* Mutant: MarkMatched as a plain SetTripState, without matched_driver_id.
TransitionWriteNoDriver(r) ==
    /\ pc[r] = "tripWrite"
    /\ tstate' = [tstate EXCEPT ![TripOf[r]] = goal[r]]
    /\ Goto(r, "tripIndex")
    /\ UNCHANGED <<tdriver, index, driverVars, offerVars, hubVars, loopVars, envVars>>

TransitionWrite(r) ==
    /\ pc[r] = "tripWrite"
    /\ tstate' = [tstate EXCEPT ![TripOf[r]] = goal[r]]
    /\ tdriver' = IF goal[r] = "MATCHED" THEN [tdriver EXCEPT ![TripOf[r]] = cur[r]] ELSE tdriver
    /\ Goto(r, "tripIndex")
    /\ UNCHANGED <<index, driverVars, offerVars, hubVars, loopVars, envVars>>

\* Mutant: only a match takes the trip off the index.
TransitionIndexKeepsUnfulfilled(r) ==
    /\ pc[r] = "tripIndex"
    /\ \/ goal[r] = "OFFERED" /\ index' = index \cup {TripOf[r]} /\ NextRound(r)
       \/ goal[r] = "MATCHED" /\ index' = index \ {TripOf[r]} /\ Finish(r)
       \/ goal[r] = "UNFULFILLED" /\ UNCHANGED index /\ Finish(r)
    /\ UNCHANGED <<tstate, tdriver, driverVars, offerVars, hubVars, envVars>>

\* SADD, and Run enters its loop; or SREM, and Run returns.
TransitionIndex(r) ==
    /\ pc[r] = "tripIndex"
    /\ \/ goal[r] = "OFFERED" /\ index' = index \cup {TripOf[r]} /\ NextRound(r)
       \/ goal[r] \in TerminalTrip /\ index' = index \ {TripOf[r]} /\ Finish(r)
    /\ UNCHANGED <<tstate, tdriver, driverVars, offerVars, hubVars, envVars>>

\* A missing driver ends the run; a transition that is illegal is passed
\* over: the claim moves on, the match goes ahead, nothing is released.
SetStateRead(r) ==
    /\ pc[r] = "driverRead"
    /\ LET from == dstate[cur[r]] IN
       \/ from = "GONE" /\ Fail(r)
       \/ from # "GONE" /\ ValidDriverTransition(from, goal[r])
          /\ Goto(r, "driverWrite") /\ UNCHANGED <<loopVars, driverVars>>
       \/ from # "GONE" /\ ~ValidDriverTransition(from, goal[r]) /\ goal[r] = "EN_ROUTE"
          /\ Call(r, "tripRead", "MATCHED") /\ UNCHANGED <<loopVars, driverVars>>
       \/ from # "GONE" /\ ~ValidDriverTransition(from, goal[r]) /\ goal[r] # "EN_ROUTE"
          /\ NextRound(r) /\ UNCHANGED driverVars
    /\ UNCHANGED <<tripVars, offerVars, hubVars, envVars>>

\* HSET: it brings a hash that expired since the read back, without a location.
PutDriver(d, s) ==
    /\ dstate' = [dstate EXCEPT ![d] = s]
    /\ stranded' = IF s = "OFFERED" THEN stranded ELSE stranded \ {d}

SetStateWrite(r) ==
    /\ pc[r] = "driverWrite"
    /\ PutDriver(cur[r], goal[r])
    /\ \/ goal[r] = "OFFERED" /\ Goto(r, "create") /\ UNCHANGED loopVars
       \/ goal[r] = "EN_ROUTE" /\ Call(r, "tripRead", "MATCHED") /\ UNCHANGED loopVars
       \/ goal[r] = "AVAILABLE" /\ NextRound(r)
    /\ UNCHANGED <<located, tripVars, offerVars, hubVars, envVars>>

\* Mutant: an offer that has expired ends the round without the release.
SetOfferStateReadNoRelease(r) ==
    /\ pc[r] = "offerRead"
    /\ LET o == offer[TripOf[r]]
           open == o.driver = cur[r] /\ ValidOfferTransition(o.state, goal[r]) IN
       \/ o = NoOffer /\ goal[r] = "TIMED_OUT" /\ NextRound(r) /\ UNCHANGED driverVars
       \/ o = NoOffer /\ goal[r] # "TIMED_OUT" /\ Fail(r)
       \/ o # NoOffer /\ ~open /\ Fail(r)
       \/ o # NoOffer /\ open /\ Goto(r, "offerWrite") /\ UNCHANGED <<loopVars, driverVars>>
    /\ UNCHANGED <<tripVars, offerVars, hubVars, envVars>>

SetOfferStateRead(r) ==
    /\ pc[r] = "offerRead"
    /\ LET o == offer[TripOf[r]]
           open == o.driver = cur[r] /\ ValidOfferTransition(o.state, goal[r]) IN
       \/ o = NoOffer /\ goal[r] = "TIMED_OUT"              \* ErrOfferNotFound is a timeout
          /\ Call(r, "driverRead", "AVAILABLE") /\ UNCHANGED <<loopVars, driverVars>>
       \/ o = NoOffer /\ goal[r] # "TIMED_OUT" /\ Fail(r)
       \/ o # NoOffer /\ ~open /\ Fail(r)
       \/ o # NoOffer /\ open /\ Goto(r, "offerWrite") /\ UNCHANGED <<loopVars, driverVars>>
    /\ UNCHANGED <<tripVars, offerVars, hubVars, envVars>>

SetOfferStateWrite(r) ==
    /\ pc[r] = "offerWrite"
    /\ offer' = [offer EXCEPT ![TripOf[r]].state = goal[r]]
    /\ Goto(r, "offerClear")
    /\ UNCHANGED <<pointer, tripVars, driverVars, hubVars, loopVars, envVars>>

\* Mutant: the reverse index is left to its TTL.
SetOfferStateClearNoDel(r) ==
    /\ pc[r] = "offerClear"
    /\ Call(r, "driverRead", IF goal[r] = "ACCEPTED" THEN "EN_ROUTE" ELSE "AVAILABLE")
    /\ UNCHANGED <<offerVars, tripVars, driverVars, hubVars, loopVars, envVars>>

\* Mutant: the Declined branch continues with the next candidate at once.
SetOfferStateClearDeclined(r) ==
    /\ pc[r] = "offerClear"
    /\ pointer' = [pointer EXCEPT ![cur[r]] = NoTrip]
    /\ \/ goal[r] = "ACCEPTED" /\ Call(r, "driverRead", "EN_ROUTE") /\ UNCHANGED loopVars
       \/ goal[r] = "TIMED_OUT" /\ Call(r, "driverRead", "AVAILABLE") /\ UNCHANGED loopVars
       \/ goal[r] = "DECLINED" /\ NextRound(r)
    /\ UNCHANGED <<offer, tripVars, driverVars, hubVars, envVars>>

\* DEL driver_offer, whatever trip it points to by now; then Run moves the
\* driver on, or releases it.
SetOfferStateClear(r) ==
    /\ pc[r] = "offerClear"
    /\ pointer' = [pointer EXCEPT ![cur[r]] = NoTrip]
    /\ Call(r, "driverRead", IF goal[r] = "ACCEPTED" THEN "EN_ROUTE" ELSE "AVAILABLE")
    /\ UNCHANGED <<offer, tripVars, driverVars, hubVars, loopVars, envVars>>

-----------------------------------------------------------------------------
(* Dispatcher.Run.                                                         *)

NoCandidates(r) == cands[r] = NothingFound

\* Mutant: a trip that is already OFFERED is marked OFFERED again.
LoadReoffers(r) ==
    /\ pc[r] = "load"
    /\ LET s == tstate[TripOf[r]] IN
       \/ s \in {"REQUESTED", "OFFERED"} /\ UNCHANGED <<loopVars, driverVars>>
          /\ Call(r, "tripRead", IF NoCandidates(r) THEN "UNFULFILLED" ELSE "OFFERED")
       \/ s \in TerminalTrip /\ Fail(r)
    /\ UNCHANGED <<tripVars, offerVars, hubVars, envVars>>

Load(r) ==
    /\ pc[r] = "load"
    /\ LET s == tstate[TripOf[r]] IN
       \/ s \in {"REQUESTED", "OFFERED"} /\ NoCandidates(r)
          /\ Call(r, "tripRead", "UNFULFILLED") /\ UNCHANGED <<loopVars, driverVars>>
       \/ s = "REQUESTED" /\ ~NoCandidates(r)
          /\ Call(r, "tripRead", "OFFERED") /\ UNCHANGED <<loopVars, driverVars>>
       \/ s = "OFFERED" /\ ~NoCandidates(r)
          /\ Goto(r, "loop") /\ UNCHANGED <<loopVars, driverVars>>
       \/ s \in TerminalTrip /\ Fail(r)
    /\ UNCHANGED <<tripVars, offerVars, hubVars, envVars>>

\* Mutant: one round too many.
NextCandidateOneMore(r, d) ==
    /\ pc[r] = "loop" /\ rounds[r] <= MaxRounds
    /\ cands[r][d] > 0
    /\ cands' = [cands EXCEPT ![r][d] = @ - 1]
    /\ cur' = [cur EXCEPT ![r] = d]
    /\ Call(r, "driverRead", "OFFERED")
    /\ UNCHANGED <<rounds, got, tripVars, driverVars, offerVars, hubVars, envVars>>

\* The loop header: claim the next candidate.
NextCandidate(r, d) ==
    /\ pc[r] = "loop" /\ rounds[r] < MaxRounds
    /\ cands[r][d] > 0
    /\ cands' = [cands EXCEPT ![r][d] = @ - 1]
    /\ cur' = [cur EXCEPT ![r] = d]
    /\ Call(r, "driverRead", "OFFERED")
    /\ UNCHANGED <<rounds, got, tripVars, driverVars, offerVars, hubVars, envVars>>

\* Mutant: the loop ends at the round cap only, not with its candidates.
GiveUpAtCap(r) ==
    /\ pc[r] = "loop" /\ rounds[r] = MaxRounds
    /\ Call(r, "tripRead", "UNFULFILLED")
    /\ UNCHANGED <<loopVars, tripVars, driverVars, offerVars, hubVars, envVars>>

GiveUp(r) ==
    /\ pc[r] = "loop" /\ (rounds[r] = MaxRounds \/ NoCandidates(r))
    /\ Call(r, "tripRead", "UNFULFILLED")
    /\ UNCHANGED <<loopVars, tripVars, driverVars, offerVars, hubVars, envVars>>

\* One MULTI writes the record and the driver's reverse index.
CreateOffer(r) ==
    /\ pc[r] = "create"
    /\ offer' = [offer EXCEPT ![TripOf[r]] = [driver |-> cur[r], state |-> "PENDING"]]
    /\ pointer' = [pointer EXCEPT ![cur[r]] = TripOf[r]]
    /\ rounds' = [rounds EXCEPT ![r] = @ + 1]
    /\ Goto(r, "open")
    /\ UNCHANGED <<cands, cur, got, tripVars, driverVars, hubVars, envVars>>

OpenWaiter(r) ==
    /\ pc[r] = "open"
    /\ waiters' = [waiters EXCEPT ![NodeOf[r]][TripOf[r]] = r]
    /\ chan' = [chan EXCEPT ![r] = NoAnswer]
    /\ Goto(r, "await")
    /\ UNCHANGED <<loopVars, tripVars, driverVars, offerVars, envVars>>

\* The select: a message that has arrived, or the timer.  Go may take the
\* timer even when a message has arrived.
Receive(r) ==
    /\ pc[r] = "await" /\ chan[r] # NoAnswer
    /\ got' = [got EXCEPT ![r] = chan[r]]
    /\ chan' = [chan EXCEPT ![r] = NoAnswer]
    /\ Goto(r, "close")
    /\ UNCHANGED <<waiters, cands, cur, rounds, tripVars, driverVars, offerVars, envVars>>

Timeout(r) ==
    /\ pc[r] = "await"
    /\ got' = [got EXCEPT ![r] = NoAnswer]
    /\ Goto(r, "close")
    /\ UNCHANGED <<cands, cur, rounds, hubVars, tripVars, driverVars, offerVars, envVars>>

OutcomeOf(ans) ==
    CASE ans = "Accepted" -> "ACCEPTED" [] ans = "Declined" -> "DECLINED" [] OTHER -> "TIMED_OUT"

\* Mutant: a timed out offer is not marked so, only its driver is released.
CloseWaiterSkipsTimeout(r) ==
    /\ pc[r] = "close"
    /\ waiters' = [waiters EXCEPT ![NodeOf[r]][TripOf[r]] = NoRun]
    /\ chan' = [chan EXCEPT ![r] = NoAnswer]
    /\ IF got[r] = NoAnswer THEN Call(r, "driverRead", "AVAILABLE")
                            ELSE Call(r, "offerRead", OutcomeOf(got[r].ans))
    /\ UNCHANGED <<loopVars, tripVars, driverVars, offerVars, envVars>>

\* Mutant: close is not deferred, and the timeout returns before it.
CloseWaiterLeaks(r) ==
    /\ pc[r] = "close"
    /\ waiters' = IF got[r] = NoAnswer THEN waiters
                  ELSE [waiters EXCEPT ![NodeOf[r]][TripOf[r]] = NoRun]
    /\ chan' = [chan EXCEPT ![r] = NoAnswer]
    /\ Call(r, "offerRead", OutcomeOf(got[r].ans))
    /\ UNCHANGED <<loopVars, tripVars, driverVars, offerVars, envVars>>

\* The deferred close deletes the trip's waiter, whoever opened it.
CloseWaiter(r) ==
    /\ pc[r] = "close"
    /\ waiters' = [waiters EXCEPT ![NodeOf[r]][TripOf[r]] = NoRun]
    /\ chan' = [chan EXCEPT ![r] = NoAnswer]
    /\ Call(r, "offerRead", OutcomeOf(got[r].ans))
    /\ UNCHANGED <<loopVars, tripVars, driverVars, offerVars, envVars>>

-----------------------------------------------------------------------------
(* A driver's response: the node it reaches first looks up the driver's    *)
(* offer to find the owner of the trip's cell; the owner looks it up again *)
(* and hands the answer to its hub.                                        *)

Respond(d, ans) ==
    /\ pointer[d] # NoTrip
    /\ Cardinality(replies) < MaxReplies
    /\ replies' = replies \cup {[driver |-> d, ans |-> ans, node |-> Owner[pointer[d]], trip |-> NoTrip]}
    /\ UNCHANGED <<tripVars, driverVars, offerVars, hubVars, pc, goal, loopVars, faults>>

\* HandleOfferResponse: no offer open answers delivered = false.
LookUpOffer(m) ==
    /\ m.trip = NoTrip
    /\ replies' = (replies \ {m}) \cup
                  (IF pointer[m.driver] = NoTrip THEN {}
                   ELSE {[m EXCEPT !.trip = pointer[m.driver]]})
    /\ UNCHANGED <<tripVars, driverVars, offerVars, hubVars, pc, goal, loopVars, faults>>

\* Hub.Respond: the channel has room for one answer and none is waited for.
Deliver(m) ==
    /\ m.trip # NoTrip
    /\ LET w == waiters[m.node][m.trip] IN
       chan' = IF w # NoRun /\ chan[w] = NoAnswer
               THEN [chan EXCEPT ![w] = [from |-> m.driver, ans |-> m.ans]] ELSE chan
    /\ replies' = replies \ {m}
    /\ UNCHANGED <<waiters, tripVars, driverVars, offerVars, pc, goal, loopVars, faults>>

-----------------------------------------------------------------------------
(* Time, and failures.                                                     *)

\* DriverLocationTTL passes without a ping; the next ping makes an unknown
\* driver AVAILABLE and keeps the state of a known one.
ExpireDriver(d) ==
    /\ DriversExpire /\ d \in located
    /\ dstate' = [dstate EXCEPT ![d] = "GONE"]
    /\ located' = located \ {d}
    /\ stranded' = stranded \ {d}
    /\ UNCHANGED <<tripVars, offerVars, hubVars, pc, goal, loopVars, envVars>>

Ping(d) ==
    /\ d \notin located          \* any other ping changes nothing here
    /\ located' = located \cup {d}
    /\ dstate' = IF dstate[d] = "GONE" THEN [dstate EXCEPT ![d] = "AVAILABLE"] ELSE dstate
    /\ UNCHANGED <<stranded, tripVars, offerVars, hubVars, pc, goal, loopVars, envVars>>

\* The run's offer is open, or it was accepted and the match is not recorded yet.
RoundOpen(r) ==
    \/ pc[r] \in {"open", "await", "close", "offerRead", "offerWrite", "offerClear"}
    \/ goal[r] \in {"EN_ROUTE", "MATCHED"}

\* OfferWindow + 10 s covers a round, unless Redis is slow, but not always the
\* backoff and the claims after it (see OfferTiming).
ExpireOffer(t) ==
    /\ offer[t].driver # NoDriver
    /\ \A r \in Runs : TripOf[r] = t /\ RoundOpen(r) =>
           SlowRedis /\ pc[r] \notin {"open", "await", "close"}
    /\ offer' = [offer EXCEPT ![t] = NoOffer]
    /\ UNCHANGED <<pointer, tripVars, driverVars, hubVars, pc, goal, loopVars, envVars>>

ExpirePointer(d) ==
    /\ pointer[d] # NoTrip
    /\ \A r \in Runs : TripOf[r] = pointer[d] /\ cur[r] = d =>
           /\ pc[r] \notin {"open", "await", "close"}
           /\ SlowRedis \/ pc[r] \notin {"offerRead", "offerWrite", "offerClear"}
    /\ pointer' = [pointer EXCEPT ![d] = NoTrip]
    /\ UNCHANGED <<offer, tripVars, driverVars, hubVars, pc, goal, loopVars, envVars>>

\* The caller of a run went away, or Redis returned an error.
Cancel(r) ==
    /\ faults < MaxFaults
    /\ pc[r] \in Interruptible
    /\ Fail(r)
    /\ faults' = faults + 1
    /\ UNCHANGED <<tripVars, offerVars, hubVars, replies>>

\* A node loses its runs, its hub and the responses it was handling.
Crash(n) ==
    /\ faults < MaxFaults
    /\ \E r \in Runs : NodeOf[r] = n /\ Active(r)
    /\ EndRuns({r \in Runs : NodeOf[r] = n /\ Active(r)})
    /\ waiters' = [waiters EXCEPT ![n] = [t \in Trips |-> NoRun]]
    /\ chan' = [r \in Runs |-> IF NodeOf[r] = n THEN NoAnswer ELSE chan[r]]
    /\ replies' = {m \in replies : m.node # n}
    /\ faults' = faults + 1
    /\ UNCHANGED <<tripVars, offerVars>>

-----------------------------------------------------------------------------

\* What run r does on its own once it has been started.
Step(r) ==
    \/ Fetch(r) \/ Poll(r) \/ SearchFails(r) \/ Ranked(r)
    \/ \E d \in Drivers : Scan(r, d) \/ NextCandidate(r, d)
    \/ SweepOffer(r) \/ SweepTrip(r) \/ Load(r) \/ GiveUp(r)
    \/ TransitionRead(r) \/ TransitionWrite(r) \/ TransitionIndex(r)
    \/ SetStateRead(r) \/ SetStateWrite(r)
    \/ CreateOffer(r) \/ OpenWaiter(r) \/ Receive(r) \/ Timeout(r) \/ CloseWaiter(r)
    \/ SetOfferStateRead(r) \/ SetOfferStateWrite(r) \/ SetOfferStateClear(r)

DriverStep(d) ==
    \/ \E ans \in Answers : Respond(d, ans)
    \/ ExpireDriver(d) \/ Ping(d) \/ ExpirePointer(d)

Next ==
    \/ \E r \in Runs : Request(r) \/ Step(r) \/ Cancel(r)
    \/ \E n \in Nodes : SweepList(n) \/ Crash(n)
    \/ \E d \in Drivers : DriverStep(d)
    \/ \E m \in replies : LookUpOffer(m) \/ Deliver(m)
    \/ \E t \in Trips : ExpireOffer(t)

Spec == Init /\ [][Next]_vars

\* Goroutines are scheduled, tickers tick and keys with a TTL expire.
Fairness ==
    /\ \A r \in Runs : WF_vars(Step(r))
    /\ \A n \in Nodes : WF_vars(SweepList(n))
    /\ \A t \in Trips : WF_vars(ExpireOffer(t))
    /\ \A d \in Drivers : WF_vars(ExpirePointer(d))

FairSpec == Spec /\ Fairness

-----------------------------------------------------------------------------

Message == [from : Drivers, ans : Answers]

TypeOK ==
    /\ tstate \in [Trips -> TripStates \cup {"NONE"}]
    /\ tdriver \in [Trips -> Drivers \cup {NoDriver}]
    /\ index \subseteq Trips
    /\ dstate \in [Drivers -> DriverStates \cup {"GONE"}]
    /\ located \subseteq Drivers /\ stranded \subseteq Drivers
    /\ offer \in [Trips -> [driver : Drivers \cup {NoDriver}, state : OfferStates \cup {"NONE"}]]
    /\ pointer \in [Drivers -> Trips \cup {NoTrip}]
    /\ waiters \in [Nodes -> [Trips -> Runs \cup {NoRun}]]
    /\ chan \in [Runs -> Message \cup {NoAnswer}]
    /\ pc \in [Runs -> PCs]
    /\ goal \in [Runs -> {"NONE"} \cup TripStates \cup DriverStates \cup OfferStates]
    /\ cands \in [Runs -> [Drivers -> 0 .. MaxSeen]]
    /\ cur \in [Runs -> Drivers \cup {NoDriver}]
    /\ rounds \in [Runs -> 0 .. MaxRounds]
    /\ got \in [Runs -> Message \cup {NoAnswer}]
    /\ replies \subseteq [driver : Drivers, ans : Answers, node : Nodes, trip : Trips \cup {NoTrip}]
    /\ faults \in 0 .. MaxFaults

-----------------------------------------------------------------------------
(* Safety, whatever runs work on a trip.                                   *)

\* A driver marked OFFERED is always some run's to move on: a loop holds it
\* between its claim and the SetState calls that follow the answer, unless a
\* loop that ended with an error left it behind.  (Dispatcher.Run's claim and
\* its two later SetState calls, over the read-then-write of SetState.)
DriverAccounted ==
    \A d \in Drivers : dstate[d] = "OFFERED" =>
        d \in stranded \/ \E r \in Runs : Holding(r) /\ cur[r] = d

\* The hub never names a run that has stopped waiting: whatever order loops
\* on the same trip open and close in, a delivered answer goes to a loop that
\* is between awaitResponse's open and its deferred close.
WaiterAwaits ==
    \A n \in Nodes, t \in Trips :
        LET r == waiters[n][t] IN
        r # NoRun => /\ r \in Runs /\ pc[r] \in {"await", "close"}
                     /\ TripOf[r] = t /\ NodeOf[r] = n

-----------------------------------------------------------------------------
(* Safety of a trip that one run works on.                                 *)

\* The trip and its offer tell the same story: a MATCHED trip's driver is the
\* one its last offer was accepted by, for as long as the offer record lives.
\* (MarkMatched after SetOfferState, in Run's Accepted branch.)
MatchAgreesWithOffer ==
    \A t \in Trips : tstate[t] = "MATCHED" =>
        /\ tdriver[t] \in Drivers
        /\ offer[t] \in {NoOffer, [driver |-> tdriver[t], state |-> "ACCEPTED"]}

\* A PENDING offer belongs to a round being played: the run of its trip holds
\* that very driver and has not resolved the offer.  (CreateOffer replacing
\* the last round's record, SetOfferState before the next claim.)
PendingHasRound ==
    \A t \in Trips : offer[t].state = "PENDING" =>
        \E r \in Runs : /\ TripOf[r] = t /\ cur[r] = offer[t].driver
                        /\ pc[r] \in {"open", "await", "close", "offerRead", "offerWrite"}

\* "The reverse index ... must not point a later poll at a round that's
\* already resolved" (SetOfferState): the trip a driver finds is one whose
\* run is still in its round with that driver, also when two trips have
\* claimed the same driver.
PointerHasRound ==
    \A d \in Drivers : pointer[d] # NoTrip =>
        \E r \in Runs : /\ TripOf[r] = pointer[d] /\ cur[r] = d
                        /\ pc[r] \in {"open", "await", "close", "offerRead", "offerWrite", "offerClear"}

\* A driver sent EN_ROUTE goes to a trip: one that is MATCHED to it, or whose
\* run has the acceptance in hand and is about to record the match.  (Run
\* moves the driver before it marks the trip.)
EnRouteHasTrip ==
    \A d \in Drivers : dstate[d] = "EN_ROUTE" =>
        \/ \E t \in Trips : tstate[t] = "MATCHED" /\ tdriver[t] = d
        \/ \E r \in Runs : cur[r] = d /\ goal[r] = "MATCHED" /\ pc[r] \in {"tripRead", "tripWrite"}

\* trips:offered follows the trips: it differs from the set of OFFERED trips
\* only while the run that changed the trip is about to change the index.
\* (transitionTo's HSET, then SADD or SREM.)
IndexFollowsTrips ==
    \A t \in Trips : (t \in index) # (tstate[t] = "OFFERED") =>
        \E r \in Runs : TripOf[r] = t /\ pc[r] = "tripIndex" /\ goal[r] = tstate[t]

\* A trip goes through the life TripLifecycle promises.
Lifecycle == INSTANCE TripLifecycle WITH state <- tstate, driver <- tdriver
LifecycleSpec == Lifecycle!Spec

-----------------------------------------------------------------------------
(* Liveness.                                                               *)

\* Every request is answered: "failing to match is a valid outcome that must
\* be handled explicitly, not by hanging" (Dispatcher.Run).
RequestAnswered == \A r \in Requests : (pc[r] = "fetch") ~> (pc[r] = "done")

\* A driver that was offered a trip is moved on.
DriverMovesOn == \A d \in Drivers : (dstate[d] = "OFFERED") ~> (dstate[d] # "OFFERED")

\* A trip the sweep can find ends, although its run was cancelled or its node
\* crashed.  (Reconciler.)
IndexedTripEnds == \A t \in Trips : (t \in index) ~> (tstate[t] \in TerminalTrip)
=============================================================================
