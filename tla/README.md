# Verification of geo-dispatch

TLA+ modules that model the ride dispatch of this repository, TLC configurations
that check them on small instances, and TLAPS proofs of the properties that matter
most for any number of trips, drivers, nodes, calls and cells. Source references
are to `src/`.

1. [The system](#1-the-system)
2. [Modules](#2-modules)
3. [How state and actions correspond to the code](#3-how-state-and-actions-correspond-to-the-code)
4. [Runs](#4-runs)
5. [Fairness](#5-fairness)
6. [What is proved](#6-what-is-proved)
7. [Where the code and its documents part](#7-where-the-code-and-its-documents-part)
8. [What is left out, and why](#8-what-is-left-out-and-why)
9. [Plan](#9-plan)

## 1. The system

Riders ask for trips; DISCO nodes offer each trip to one nearby driver at a time.
All shared state is in one Redis; which node handles a trip is decided by a
consistent hash ring that every node maintains from gossip.

| Component | State | Operations | What makes it correct |
|---|---|---|---|
| Dispatch loop (`internal/offers/dispatcher.go`) | locals of `Run`: candidates left, round, current driver | claim, `CreateOffer`, `awaitResponse`, release or match, back off | every driver it marks OFFERED is moved on; a trip ends once; at most `MaxRounds` offers |
| Response hub (`hub.go`) | `waiters[trip]`, one channel of size one per wait | `open`, `close`, `Respond` | an answer goes to a loop that is waiting |
| Reconciler (`reconcile.go`, `main.go:171-192`) | none; reads `trips:offered` | `Sweep`, `resumeIfStuck` every 10 s, on every node | a trip whose node is gone still ends |
| Request handler (`cmd/disco/server.go`, `grpc_server.go`) | none | `Handle` with idempotent retries, `awaitResolution`, `HandleOfferResponse` | every request is answered |
| Trip store (`internal/store/trip.go`) | `trip:<id>`, `trips:offered`, idempotency keys | `CreateTrip` (script), `transitionTo` (read, write, index) | legal transitions; the index follows the trips |
| Offer store (`offer.go`) | `offer:<trip>`, `driver_offer:<driver>`, both with TTL | `CreateOffer` (MULTI), `SetOfferState` (read, write, delete) | record and reverse index describe a round being played |
| Driver store (`driver.go`) | `driver:<id>` with TTL, `cell:<id>:drivers` without | `UpdateLocation` (script), `SetState` (read, write), `DriversInCell` with its clean-up | a live driver is indexed under its cell, once |
| Candidate search (`internal/matching`) | none | `FindCandidates` ring by ring, `Rank` | no driver that stays put is missed or repeated |
| State machines (`internal/statemachine`) | none | three transition tables | |
| Hash ring (`internal/hashring`) | sorted positions and their owners | `AddNode`, `RemoveNode`, `Lookup` | a change moves only the keys it has to |
| Membership and routing (`internal/membership`, `internal/router`) | memberlist, the node's ring | join and leave events; `Route`, `RouteOfferResponse` | the ring follows the member list; a request ends at an owner |
| Events (`internal/events`) | none; three Kafka topics | `PublishTripLifecycle`, `PublishDriverLocation`, `PublishOffer` | events of one trip or driver keep their order as far as one publisher writes them |
| Surge (`internal/surge`, `internal/store/surge.go`, `cmd/surge`) | per-cell windows of open trips and drivers, in memory; `cell:<id>:surge` with TTL | `RecordTrip`, `RecordDriver`, `Ratio`, `Multiplier`, `Prune`, `SetMultiplier` every 5 s | each open trip and free driver of the window counts once; a price follows demand, and ends with it |
| WebSocket gateway (`internal/gateway`, `cmd/gateway`) | set of clients | `Register`, `Unregister`, `Broadcast` | each client sees the feed without gaps until it is let go of, once |
| Front ends, metrics, H3 wrapper, load generator | none of their own | | |

How they interact. `Handle` (or a sweep) creates or reloads the trip, searches the
driver store, and calls `Run`, which writes the trip, driver and offer records one
Redis command at a time and blocks on the hub for an answer. A driver's answer
arrives at any node, which looks the driver's offer up in the reverse index, routes
by the trip's cell to a node that looks it up again, and calls that node's hub. A
rider's request is routed by the ring of each node it reaches, too, but its cell is that of
its own origin on all of them. Loops and
driver pings publish events, which the surge process turns into prices per cell and the
gateway into its feed; nothing flows back into the dispatch.

What is hard here, and what the properties aim at:

- `transitionTo`, `SetState` and `SetOfferState` read, validate in the process, and
  write in a later command. Anything may happen between.
- Several loops can work on one trip: a retry of the request, and the sweeps of every
  node. They share the trip, the offer record and the hub entry.
- Records expire: a driver's hash, an offer, its reverse index. An `HSET` after the
  expiry brings back a part of the record.
- An answer, the timer and the next round race; answers are delivered by trip.
- A crash or an error between any two commands leaves what was written so far.
- A search is many commands over cells that change while it runs.
- Rings differ between nodes while gossip spreads, and forwarding has no hop count.
- Four clocks have to fit together: the offer window, the backoff, the offer record's TTL and
  the reconciler's ticker, with commands, searches and publishing taking time in between.
- Events are stamped before they are written, may overtake each other, and are lost by a reader that
  stops between committing and handling them.
- The hub of the gateway writes to its clients under its mutex, without a deadline.

`PROJECT.json` lists every such hazard at its line, with the properties that bear on it.

## 2. Modules

| Module | What it is |
|---|---|
| `StateMachines` | the three transition tables |
| `TripLifecycle` | abstract specification: what a trip promises its rider |
| `Dispatch` | handler, loop, hub, reconciler and stores, one Redis command per step |
| `DispatchClaims` | statements of the documents which the code does not keep |
| `MCDispatch` | instances of `Dispatch` |
| `OfferTiming`, `MCOfferTiming` | loop, offer record, backoff and reconciler in seconds |
| `DriverStore`, `MCDriverStore` | the geospatial index and the search over it |
| `HashRing` | the ring as functions on the map from positions to owners |
| `Routing`, `MCRouting` | node life, gossip, and the calls of riders and drivers forwarded along rings that differ |
| `SurgeAggregator` | from events to the price of a cell |
| `GatewayHub` | the WebSocket feed |
| `DispatchProofs` | what holds of any number of runs per trip: type correctness, `DriverAccounted`, `WaiterAwaits` |
| `DispatchSoloProofs` | what holds of one run per trip: `LifecycleSpec`, `MatchAgreesWithOffer`, `PendingHasRound`, `PointerHasRound`, `IndexFollowsTrips`, `EnRouteHasTrip` |
| `DriverStoreProofs` | type correctness, `IndexedOnce`, `SearchFindsSteady` |
| `OfferTimingProofs` | type correctness, `RecordOutlivesRound`, `RecoveredInTime` |
| `RoutingProofs` | type correctness, `RingFollowsView`, `OnlyItsCellsMove`, `NeverBack`, equal views route alike |
| `SurgeProofs` | the operators of `SurgeAggregator` and its type correctness |
| `SurgeSafetyProofs` | `CountsLastEvents`, `EndedTripForgotten`, `SurgeIsRecent`, `PressureIsPriced` |
| `GatewayHubProofs` | type correctness, `FeedIsContiguous`, `ClosedWhenRemoved` |

`Dispatch` and `DriverStore` overlap on purpose. In `Dispatch` a driver is its state
and whether its hash has a location, and a search is any sequence of reads of
AVAILABLE drivers. `DriverStore` has the cells and the search command by command, and
there the loop's calls are any `SetState` at any time. In `Dispatch` the node that owns
a trip's cell is the constant `Owner`; `Routing` has the rings.

`OfferTiming` has the steps of `Dispatch` that time passes in, for one trip and with
seconds for TTLs and timers. It keeps of the drivers only whether a claim succeeds, and of a
search how many candidates it found. `Dispatch` in turn assumes by the guard of `ExpireOffer`
what `OfferTiming` shows as `RecordOutlivesRound`: the record may expire at any time but while a
round is open or being settled (`RoundOpen`). `SlowRedis` lifts that guard for the settling, too.

Operators commented as "Mutant" next to an action are forms of it that a plausible
mistake in the code would give. No specification uses them: `PROJECT.json` names, for each
property, the one that breaks it.

## 3. How state and actions correspond to the code

`Dispatch`. A *run* is one call of `localHandler.Handle` (a member of `Requests`) or of
`Reconciler.resumeIfStuck` (a member of `Sweeps`). `pc[r]` names the command the run
executes next, `goal[r]` the `to` argument of the store call it is in, and `cands`,
`cur`, `rounds`, `got` are `Run`'s locals.

| Code | Variables and actions |
|---|---|
| `trip:<id>`, `trips:offered` | `tstate`, `tdriver`, `index` |
| `driver:<id>` | `dstate` ("GONE": no hash), `located` (its location was written since it last expired) |
| `offer:<trip>`, `driver_offer:<driver>` | `offer`, `pointer` |
| `ResponseHub.waiters`, the channels | `waiters`, `chan` |
| `Handle` | `Request` (the create script), `Fetch`, `Poll` (`awaitResolution`) |
| `FindCandidates`, `Rank` | `Scan`, `SearchFails`, `Ranked` |
| `runReconciler`, `Sweep`, `resumeIfStuck` | `SweepList`, `SweepOffer`, `SweepTrip`; `Fail` ends the rest of the sweep too |
| `transitionTo` | `TransitionRead`, `TransitionWrite`, `TransitionIndex` |
| `SetState`, `SetOfferState` | `SetStateRead/Write`, `SetOfferStateRead/Write/Clear` |
| `Run` | `Load`, `NextCandidate`, `CreateOffer`, `GiveUp` and the continuations of the store calls |
| `awaitResponse` | `OpenWaiter`, `Receive`, `Timeout`, `CloseWaiter` |
| `RespondToOffer`, `HandleOfferResponse`, `Respond` | `Respond`, `LookUpOffer`, `Deliver` |
| TTLs, pings | `ExpireDriver`, `Ping`, `ExpireOffer`, `ExpirePointer` |
| a cancelled context, a Redis error, the end of a process | `Cancel`, `Crash` |

`stranded` is a history variable: the drivers a run left OFFERED when it ended with an error.

`DriverStore`. `hash` and `members` are the driver hashes and cell sets, `pending` a
`SetState` between its two commands, and the remaining variables are one search:
its ring `k`, the cells `scanned`, the cell `here` it is reading with the members it
got (`ids`), those to clean up (`stale`), and what it `found`. `UpdateLocation` is one
step because it is a script; the HSETNX after it is `SetAvailableSince`, a step only where
the hash has expired in between. `DriversInCell` is `Members` (SMEMBERS), `Probe` (the
EXISTS pipeline) and `Sweep` (SREM); `GetDrivers` is `Read`. `lapsed` and `steady`
are history: drivers whose hash has expired once, and drivers that stayed AVAILABLE
in one cell since a search began.

`OfferTiming`. Two loops, of the request and of another node's sweep, each with its `pc`, the
candidates `left`, `rounds` and `backoff` of `Run`, the `timer` of the `time.After` it is in, and
`lag`, the seconds it has spent on anything else since its last `CreateOffer`. `ttl` and `by` are the
offer record; `phase` and `due` the ticker and its channel of size one; `sweep` says where
the sweep stands, and `others` how long the other trips it listed will keep it. `Tick` is a
second: it waits for whoever has something to do at once, and `MaxLag` bounds the rest, the publishes
above all: each waits for the writer's batch timeout, a second by default (`publisher.go:41-49`), and
there are up to two between one `CreateOffer` and the next (`dispatcher.go:134` and `182`).
`orphan` is history, the seconds without a loop.

`SurgeAggregator`. Times are ages, capped where nothing depends on them any more.
`inFlight` are events between their stamp and their write (`publish`, which a loop waits for but
another node's loop does not), `topic` the events not yet read, by key. `held` and `seen` are the
aggregator's maps; a trip and a driver have different keys, so `seen[cell][key]` stands for
both. `writing`, `now`, `todo` and `quote` are `writeMultipliersLoop` between its tick and its last `SET`.
A price of 1.0 and no price read the same, and are the same here. History: `last` (what the
last events read say), `offeredAge`, `endedAge` and `pressing`.

| Code | Actions |
|---|---|
| `Run`'s `publishTrip` calls, `KafkaPublisher` | `OfferTrip`, `EndTrip`, `Written`, `NotWritten` |
| `UpdateLocation` | `Ping` |
| `consumeLoop`, `RecordTrip`, `RecordDriver` | `Consume`, `Lose` |
| `Prune` | `Prune` |
| `writeMultipliersLoop`, `SetMultiplier` | `StartWrite`, `Quote`, `SetMultiplier`, `SetFails`, `EndWrite` |
| the end of the process; time | `Crash`; `Tick` |

`GatewayHub`. `message` is the event `runConsumer` holds, `locked` and `todo` a `Broadcast` under
way, `handler[c]` where the `/ws` handler of a connection is, `peer[c]` what the browser
does. `Register` and `Unregister` take the mutex, so they wait for `locked` to fall. `feed[c]`
is what was written to a connection, `handled` what was broadcast, `joined[c]` how much of
it came before `Register`.

`Routing`. `view[n]` is what `list.Members()` returns on node `n` and `ring[n]` the ring
its event delegate keeps. `Start` is `membership.New`; `Learn`, `Forget` and `Suspect`
are memberlist's events, any of which may come in any order; `Serve` is the end of
the join and the start of the gRPC server; `Shutdown` and `Leave` are `GracefulStop` and
the `Leave` that follows it. News may be as late as they like: a node can learn of one that has died or
stopped since. A request is a call of `Dispatch` or of `RespondToOffer`, and its handlers form a chain: `at`
is the node whose handler runs, `via` the nodes whose calls wait for its answer, `owner` what its
lookup said. `Resolve` is what the gRPC handler does before it calls the router: `Dispatch` works out the
cell of the origin in the call (`grpc_server.go:27-33`), `RespondToOffer` that of the trip the driver's
reverse index names at that moment, if any (`grpc_server.go:35-54`). Every forwarded call goes through it
again, so a response's `key` may be another on each node. `since` is history: the nodes that found the
present cell, one after the other. A crash fails every call that runs on, or waits on, the node.

`HashRing`. The slice `hashes` is always the sorted domain of `owners`, so a ring is the
function alone; `RemoveNode`'s mutant that forgets the slice shows the difference.
Hashes are constants of a run, so collisions are instances like any other.

## 4. Runs

| Run | Instance | Shows |
|---|---|---|
| `solo` | 2 trips, 2 drivers (symmetric), 2 rounds, 1 answer in flight | the records of trip, offer, driver, reverse index and recovery index agree with the loop at every command, while two trips claim each other's drivers; refinement of `TripLifecycle` |
| `shared` | request + retry + a sweep on another node, slow Redis, the driver expires, 1 fault | `DriverAccounted` and `WaiterAwaits` with three loops on one trip |
| `live` | 2 requests, 1 driver listed twice, 2 rounds | each request is answered, each OFFERED driver is moved on |
| `recovery` | 1 request that is cancelled or whose node crashes, the sweeps of another node, 3 candidates for 2 rounds | `TypeOK`; a trip that has been in `trips:offered` ends |
| `timing` | window 3 s, delays 1 and 2 s, ceiling 3 s, grace 3 s, ticker 2 s, lag up to 1 s, 2 failed loops, 1 sweep ended early | `RecordOutlivesRound`, `RecoveredInTime`, `TripEnds` |
| `driver_store` | 3 cells (distance 0, 1, out of reach), 2 drivers, 1 search, 1 `SetState` in progress | `IndexedOnce`, `SearchFindsSteady` |
| `routing` | 3 nodes, 2 replicas each, 7 positions, with and without collisions, 1 crash, stop or suspicion, 1 call of either kind over 2 cells | `RingFollowsView`, `OnlyItsCellsMove`, `NeverBack`, `RequestEnds` |
| `surge` | 1 trip, 1 driver with 2 pings, window and TTL 3 s, writer every second with a lag of 1 s, 1 fault | `CountsLastEvents`, `EndedTripForgotten`, `SurgeIsRecent`, `PressureIsPriced` |
| `hub` | 2 clients, 3 events, 1 failed read | `FeedIsContiguous`, `ClosedWhenRemoved`, `GoneClientLeaves`, `FeedGoesOn` |
| `claim_*` | the smallest instance that shows it | see [section 7](#7-where-the-code-and-its-documents-part) |

Why the bounds are enough. Two of everything that competes is the least that exhibits
the races: two trips for one driver, two loops for one trip, two drivers in turn for one
trip. `MaxRounds = 2` gives a round after a round, which is what late answers, leftover
records and the reverse index need. `MaxSeen = 2` lets a search list a driver twice,
as a driver who moves is; with `MaxSeen = 3` there are more candidates than rounds. `MaxReplies = 1` keeps one answer in flight at a time, which
still may be of any round and arrive in any other. `MaxFaults = 1` puts one cancellation
or crash at any command; the proofs have no such bound. In `driver_store` ring 1 is the
last ring, so that both reasons to stop are met, and the third cell lets drivers leave.
In `routing` the seven positions hold six replicas and one
cell past them all, which wraps around; one set of hashes alternates the nodes' replicas,
the other makes a node collide with each of the two others. `MaxChurn` counts crashes, stops and
false suspicions, not joins. The proofs cover what larger instances would.

`timing` scales `DefaultConfig` (window 15 s, delays 1, 2, 4, 8 s under a ceiling of 10 s, grace 10 s, two publishes of
a second) down and keeps its relations: the delays double, the ceiling would come into force after the last round
only and is never slept, the window is longer than every delay, and window, longest delay and lag together are the
record's TTL to the second (3 + 2 + 1 = 6, as 15 + 8 + 2 = 25): the second of lag
stands for the two publishes. So the run contains the loops whose record is gone at the end
of the last delay, and the sweeps that then start a second loop. There is one candidate more than rounds; a tick may come
while a sweep is busy with other trips or with this one; `MaxStops = 2` fails the request's loop and the one that recovers it.
In `surge` window and TTL are equal and longer than the writer's period;
the bounds of `SurgeIsRecent`, `PressureIsPriced` and `RecoveredInTime` are reached and fail when they are
one second shorter. One cell is enough because cells meet in the writer's lag only, and
`MaxLag` is there without the other cells. The thresholds between no pressure and the
highest (3.0) are never reached with one trip; `Multiplier` chooses among all of them. A crash loses the
surge process's memory. One of the gateway would lose its connections with it, and start from
`Init` with events that nobody will see: it is left out.

Each property that holds for one loop per trip only (`MatchAgreesWithOffer`,
`PendingHasRound`, `PointerHasRound`, `EnRouteHasTrip`, `IndexFollowsTrips`,
`LifecycleSpec`) is checked with one run per trip. With a retry they fail, as
`claim_MatchedIsTerminal` shows; so does `IndexedTripEnds`, since one of two loops may take
the trip out of the index the other has just put it into. `recovery` therefore has a single
request. Two sweeps that resume one trip are in `shared` as a retry and a sweep are: what counts there is
two loops with one trip.

Deadlock checking is off where the system may come to rest: all requests answered.
`driver_store`, `timing` and `surge` keep it on: drivers can always ping, and time goes on.

## 5. Fairness

`Dispatch` asks weak fairness of each run's `Step` (a goroutine is scheduled, a Redis
command returns, the offer window's timer fires), of `SweepList` (the 10 s ticker) and of the expiry
of offers and reverse indexes (their TTLs). Nothing is asked of riders, drivers, pings,
answers, faults or the delivery of answers. `Step` of a run in `await` includes its timer,
so a loop does not rely on an answer; an expiry is guarded by the loop that keeps the
record alive (window + 10 s covers a round, and its settling).

`OfferTiming` asks the same of its loops' `Step`, of the sweep's steps and of `Tick`, and nothing of
answers, failures or early ends. Under `Tick`'s guard nobody is overslept, so weak fairness of
each is the scheduling of goroutines.

`GatewayHub` asks weak fairness of the consumer and strong fairness of each connection's handler: `Register`
and `Unregister` are enabled between broadcasts only, and Go's mutex, which hands itself to a waiter that has
starved for a millisecond, lets them in. A read of a dead connection fails, by TCP or by `Close`. Nothing is asked
of browsers or of the topic. `GoneClientLeaves` and `FeedGoesOn` are conditional: if from some point on no registered client
stalls. `SurgeAggregator` has safety properties only, time being part of them.

`Routing`'s `FairSpec` asks weak fairness of a call's `Handler` only (`Resolve`, `Route`, `Forward`). No gossip need
ever arrive: a request ends even if rings never agree. `RequestEnds` has a condition: the cell of the call changes only
finitely often. A `Dispatch` call meets it by itself, an offer response unless its driver's offer moves for ever.

## 6. What is proved

Every safety invariant that a passing run checks, and every action property and refinement, is
stated by a theorem here. All theorems hold for every value of the constants that meets the
assumptions the modules name and the hypotheses the theorem names.

| Property | Theorem | Hypotheses |
|---|---|---|
| `Dispatch.TypeOK`, `DriverAccounted`, `WaiterAwaits` | `TypeCorrect`, `DriversAccountedFor`, `WaitersAwait` | |
| `LifecycleSpec` | `ImplementsLifecycle` | `OneRunPerTrip` |
| `MatchAgreesWithOffer` | `MatchesAgree` | `OneRunPerTrip`, `~SlowRedis` |
| `PendingHasRound` | `PendingOffersHaveRounds` | `OneRunPerTrip`, `NoFaults` |
| `PointerHasRound` | `PointersHaveRounds` | `OneRunPerTrip`, `NoFaults`, `~SlowRedis` |
| `IndexFollowsTrips`, `EnRouteHasTrip` | `IndexFollows`, `EnRouteDriversHaveTrips` | `OneRunPerTrip`, `NoFaults` |
| `DriverStore.TypeOK`, `IndexedOnce`, `SearchFindsSteady` | `TypeCorrect`, `LiveDriversIndexedOnce`, `SearchesFindSteady` | |
| `OfferTiming.TypeOK`, `RecoveredInTime` | `TypeCorrect`, `Recovered` | |
| `RecordOutlivesRound` | `RecordKept` | `LagWithinGrace` |
| `Routing.TypeOK`, `RingFollowsView`, `OnlyItsCellsMove`, `NeverBack` | `TypeCorrect`, `RingsFollowViews`, `CellsMoveWithMembers`, `NeverForwardedBack` | |
| `SurgeAggregator.TypeOK`, `CountsLastEvents`, `EndedTripForgotten`, `SurgeIsRecent` | `TypeCorrect`, `CountsCorrect`, `EndedForgotten`, `SurgeRecent` | |
| `PressureIsPriced` | `PressurePriced` | `Refreshed` |
| `GatewayHub.TypeOK`, `FeedIsContiguous`, `ClosedWhenRemoved` | `TypeCorrect`, `FeedsAreContiguous`, `ClosedOnce` | |

*Dispatch, any number of runs.* `TypeOK` is not inductive: what a store call
writes is its `goal`, and the driver it concerns is `cur`. `TypeInv` adds that the goal
fits the call (`GoalFits`), that a call about a driver has one (`CurFits`) and that a round
is begun below the cap only (`RoundFits`). `DriversAccountedFor` and `WaitersAwait` are
proved from `TypeInv`: whatever number of loops share trips and drivers, whatever fails
or expires.

*Dispatch, one run per trip.* `OneRunPerTrip` is what the code provides as long as
no retry and no sweep meets a running loop; several trips still compete for the drivers, and drivers expire
and ping as they like. A frame lemma, `NextForOne`, reduces a step of the system to what it
does to one trip and its run: a step of the run, the expiry of its offer, a fault, or nothing. Under it stand

- `ReadIsFresh`: what `transitionTo` validated still holds when it writes. That is the step of the refinement.
- `StageFits`: where the run is tells where its trip is, and `Untouched`: a trip without a run was never created.
- `OfferFits`: from `CreateOffer` on the record is that of `cur`, PENDING until the answer is written and ACCEPTED
  from then to the match (`Accepted`), hence `MatchFits`.
- `PendingFits`: the other way round, an open record is the run's round.
- For the reverse index, which trips share, that the trip a driver's pointer names is in its round with it (`InWindow`).
  A second trip that claims the driver overwrites the pointer, and either one's `DEL` removes it, but neither leaves it naming a
  round that is over.
- `IndexFits` and `Recording`: between the two commands of a transition, and between the driver's update and the trip's,
  the run is at the second. `EnRouteHasTrip` needs that nothing moves a trip away from MATCHED, and nothing
  but a match moves a driver to EN_ROUTE.

The hypotheses are needed. In the instance of `solo` with one driver TLC finds `MatchAgreesWithOffer` and `PointerHasRound` violated with
`SlowRedis` (the record expires under the loop, and `HSET` brings a part of it back), and `PendingHasRound`, `PointerHasRound`,
`IndexFollowsTrips` and `EnRouteHasTrip` violated with one fault: a run that is cancelled leaves the records of its round.

*DriverStore.* `LiveDriversIndexedOnce`: a driver that has not lapsed is indexed under
exactly its hash's cell. `DriversInCell` removes a member it found without a hash in an
earlier command, so the invariant has to say that what a search is about to remove has
lapsed (`StaleLapsed`), that the members it read had been located (`IdsLocated`), and
that drivers seen or about to be written had been located (`LocatedWhenSeen`, `PendingSeen`).
`SearchesFindSteady` builds on it: a steady driver is still where it was (`StaysSteady`), hence in its cell's set by the
first theorem; it is in `found` under its cell if that cell is covered and under no other
(`FoundFits`), and a search that is done has covered the disk of its last ring (`RingFits`).

*OfferTiming.* `RecordKept` assumes `LagWithinGrace`: what a loop spends on commands and publishes between two
offers, 2 s when the broker answers, is less than the grace of 10 s. Nothing is assumed of the delays. The inductive
invariant is an account of the record's seconds: while a loop runs that has written a record, `ttl` is at least what its timer
and its remaining lag will use up (`KeepInv`), where the delay it sleeps is `Backoffs` at its round. Another loop's `CreateOffer`
may take its place at any time, but never shortens what the record has left. A record that is gone has been outlasted by the lag,
which the hypothesis excludes while the round is open or being settled, or by the lag and the delay together.
`Recovered` needs no such
assumption. It bounds `orphan + ttl` and the time to the next visit together: an idle sweep is at most a
period away, a busy one at most `MaxOthers`, and a sweep that has passed the trip while the record was there comes
back after at most one gap.

*Routing.* `RingsFollowViews`: `AddNode` and `RemoveNode` keep "the ring is the ring of
the listed members", collisions included (`AddFollows`, `RemoveFollows`). With `OneOwner` it gives `EqualViewsRouteAlike`:
without collisions, nodes that list the same members agree on the owner of every cell. `NeverForwardedBack`:
a running node's own replicas are always on its own ring (`OwnKept`), so when its lookup names
another node, that node has a replica which comes before all of its own going round from the cell
(`LookupIsCloser`). Being closer in this sense is irreflexive and transitive and does not
depend on any ring, so it does not matter how they change on the way. But it depends on the cell: every hop goes to a
node closer to it than all nodes that have found it since another was found (`Approach`, over `since`), hence to a new one among them.
For a `Dispatch` call these are all the nodes it has been to (`OneCell`). With finitely many nodes the chain of calls for one
cell is finite; that last step is left to `RequestEnds`, which TLC checks. `FirstIsLeast` rests on the well-foundedness of `<`.
`CellsMoveWithMembers` treats `AddNode` and `RemoveNode` as one: of two rings one extends the other by positions of one
node (`Grown`), and the lookups of the two differ only where the larger one's answer is that node (`GrownLookup`, from
`LookupIsSoonest`). It also needs that a node which is down lists nobody (`DownListsNone`), so that no view is replaced as a whole.

*SurgeAggregator.* `CountsCorrect`: an entry and the last event read about its key leave the window together
(`AgreeInv`), also when one of them was pruned, and a cell is held as long as one of its entries is
there. `EndedForgotten` and `SurgeRecent` share the invariant `AgeInv`: an age that is counted, or will be when
its event is read, is not below that of the trip's end, and not below that of the last offer in the cell (`Fresh`).
It speaks of all events of a trip between their stamp and their read (`Pending`), in flight or in the topic, so
neither the order nor the loss of events matters, since an event keeps its own timestamp; and it needs
that a trip which has ended is not offered again (`EndedInv`). `RecentInv` then gives each second of a multiplier's way
its owner: the writer's lag while it is on its way, the seconds lived once it is a price. Type correctness
needs `OfferedHasCell` (a trip ends in a cell) and that the largest of a nonempty set of
steps is one of them (`LargestIn`).
`PressurePriced` assumes `Refreshed`: prices live longer than a period of the writer and its lag (10 minutes against
5 seconds in the code). Its invariant measures, for each cell, the seconds since the ticker fired for the last pass that is done with
it (`Since`): a cell that has been under pressure for longer has a price above the baseline whose remaining life makes up for
those seconds (`PricedInv`). What a pass has in hand for such a cell is a surge, too (`QuotedInv`), because the
counts at the pass's stale `now` bracket the real ones: no fewer trips, no more drivers (`PressedQuote`).

*GatewayHub.* The invariant adds to the three properties that `handled` follows the topic and the event in hand comes after it (`Events`),
that the mutex is held for the event broadcast last (`Mutex`, `LastIsHeld`), that only connections between `Register` and `Unregister` are in
the hub (`Registered`), and, event by event, that a feed is `handled` from `joined` on and misses just the last event while the
connection is in `todo` (`Fits`). That `handled` has no more events than the topic follows from its being increasing (`FewHandled`).

Only model-checked: the seven liveness properties (`RequestAnswered`, `DriverMovesOn`, `IndexedTripEnds`, `TripEnds`,
`RequestEnds`, `GoneClientLeaves`, `FeedGoesOn`), which are beyond the prover, and the three claims of the next section.

## 7. Where the code and its documents part

Each of these has a run in which TLC finds the behaviour.

- `claim_MatchedDriverAccepted`. "matched trips are always genuinely matched to the driver
  who accepted them" (`docs/BENCHMARKS.md:120-121`). An answer is delivered by trip; one that was
  looked up in a round and delivered in the next counts for the next round's driver.
- `claim_MatchedIsTerminal`. "MATCHED is terminal" (`internal/store/trip_test.go:106`). A request
  and its retry both read REQUESTED and both run the loop; one writes UNFULFILLED over the other's match.
- `claim_ExactlyOneCell`. "a driver is never indexed under two cells" (`driver.go:69-72`). A
  driver that lapsed and returns from elsewhere is, since the hash that named its old cell is gone.

The same models show the following, which no run states on its own:

- The reconciler finds OFFERED trips of crashed nodes (`reconcile.go:14-16`), except those whose node
  crashed between the `HSET` and the `SADD` of `transitionTo`: they are in no index.
- Losing an analytics event "must never fail or stall the dispatch loop" (`dispatcher.go:230-232`), but a
  publish is a synchronous write with the writer's default batch timeout of a second
  (`publisher.go:43-48`), and there are two between one `CreateOffer` and the next.
- The reconciler resumes trips "because the node running their reoffer loop crashed, or ownership of
  their cell changed hands" (`reconcile.go:14-16`); a record means that "some node is actively driving it" (62), but
  none does not mean that no node is. With `DefaultConfig` the record of a fourth round has 25 s. When its driver lets the
  window of 15 s pass and both publishes take their second, the backoff of 8 s ends as the record does, and a sweep at
  that moment starts a second loop on the trip, whose offers go to other drivers. `RecordOutlivesRound` allows this after
  delays of at least grace minus lag only, and `timing` contains it. So does the time between the write of OFFERED and the first `CreateOffer`, as
  long as that takes, where a trip has no record either. A broker that is slower, or down, widens the gap.
- A driver's answer is routed by the trip its reverse index names on each node it reaches (`grpc_server.go:36`). If the driver's
  offer moves to a trip of another cell between two hops, the answer may be forwarded back to a node that waits for it already;
  two nodes are enough for A-B-A. `NeverBack` therefore speaks of the nodes that found the same cell.
- "disco reads a multiplier to quote a trip" (`surge/aggregator.go:3-4`): `GetMultiplier` has no caller
  outside tests. REQUESTED is never published, although `events.go:29` says every transition is.
- A trip that another node's sweep ends before its loop has written OFFERED counts as demand until the window has
  passed, as does one whose end was lost. A driver that moved is counted in its old cell as well for as long.
- A surged price stays for the rest of its TTL when the cell is pruned, or the process dies, before the
  writer's next tick. `store/surge.go:14-17` means it to.
- One client that keeps its connection open and stops reading blocks `Broadcast` in `WriteMessage` with the
  mutex held: the feed of all clients stops, and none can join or leave.
- Two trips can claim one driver: `SetState` reads AVAILABLE for both before either writes.
  Hence an `EnRouteHasTrip` that speaks of *some* trip.
- A matched driver whom another trip's loop released stays AVAILABLE. `dispatcher.go:157-158`
  calls that "briefly stale until the driver's next update", but a ping keeps the state
  it finds (`driver.go:98-104`).
- A driver that lapsed and pings again between a search's `EXISTS` and its `SREM` (`driver.go:285`) is in no cell until
  its next ping.
- Two loops of one trip on one node share the hub's entry: the second `open` hides the first,
  and either `close` removes the other's.
- `Respond` reports an answer delivered that the loop, whose timer has just fired, does not read.
- A driver claimed by two trips has one reverse index; either loop deletes it.
- Answers are routed to the ring's owner of the cell, while any node's sweep may run the loop.
- A candidate that expired since the search ends the dispatch with an error (`dispatcher.go:119-126`)
  instead of the next candidate.
- An `HSET` after an offer's expiry leaves a record without driver and TTL (`offer.go:130`),
  which every later visit of the reconciler fails to parse: it never resumes that trip, and
  the failed visit ends each sweep.
- A driver whose run ends with an error between claim and release stays OFFERED
  (`dispatcher.go:185`) for as long as it goes on pinging.
- With a collision of replica hashes two rings with the same members can differ, since the first
  to be added keeps the position and is not replaced by the other when it leaves.
- A node is in its peers' rings before its gRPC server listens and, on a graceful stop, after it
  has stopped accepting; requests forwarded to it fail meanwhile.

## 8. What is left out, and why

- Data that no step depends on: fares, coordinates, ETA and score arithmetic, rider IDs, wording,
  metrics, `offer.events` (nobody reads it).
- Time as a quantity in `Dispatch`, `DriverStore` and `Routing`: a TTL or a timer is an action that its guard enables.
- In `OfferTiming` a search takes no time of its own (a sweep's search is part of `others` or of the lag) and the
  driver's own TTL is a claim that may fail.
- In `SurgeAggregator` clocks agree (publishers and the aggregator use their own `time.Now`), a trip is dispatched
  once, and Kafka delivers at most once; a rebalance that delivers an event again is not there. Invalid cells and malformed events are `Lose`.
- The idempotency key's 24 h TTL: after it a retry makes a second trip.
- The value of `available_since`; a driver's score only. Its HSETNX is a step of `DriverStore`, where it can bring
  back an expired hash; `Dispatch` takes such a hash for none, as `SetState` does.
- A pipeline is one step where no other command can make a difference between its parts;
  `Handle`'s final `GetTrip` is folded into `Finish`.
- memberlist, gRPC and Redis are external. Redis commands are atomic and durable; memberlist may
  tell a node of changes late, in any order, and wrongly.
- Handlers' own work in `Routing`: a request that reaches its owner is `handled`.
- Decoding in the HTTP front ends, H3, metrics, the load generator and the
  generated gRPC code.

## 9. Plan

Done, in this order: `StateMachines`, `TripLifecycle`, `Dispatch` and its proofs, `DriverStore` and
its proofs, `HashRing`, `Routing` and their proofs, `OfferTiming` and its proofs, `SurgeAggregator` and its
proofs, `GatewayHub` and its proofs.

Next, by importance:

1. The idempotency key's expiry, as an abstract map from keys to trips that `CreateTrip`
   implements while the key lives.
2. What a crash followed by one sweep at a time keeps of the properties of one run per trip: `OneRunPerTrip` now
   excludes runs of a trip that follow one another as well as runs that overlap.
3. An abstract router (a request goes through distinct nodes until one handles it) that `Routing`
   implements, and an abstract map of drivers to cells for `DriverStore`.
