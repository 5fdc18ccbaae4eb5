--------------------------- MODULE SurgeAggregator ---------------------------
(***************************************************************************)
(* The surge price of a cell, from the events of trips and drivers to      *)
(* Redis: the publishers (internal/events, internal/offers/dispatcher.go,  *)
(* internal/store/driver.go), the consumers, the ticker and the writer of  *)
(* cmd/surge, the rolling counts of internal/surge and the multiplier that *)
(* internal/store/surge.go keeps.                                          *)
(*                                                                         *)
(* Timestamps are ages in seconds.  Events of one key are read in the      *)
(* order they were written; two publishers of a key may write late, and    *)
(* any event may be lost.                                                  *)
(***************************************************************************)
EXTENDS Integers, Sequences, FiniteSets, FiniteSetsExt

CONSTANTS
    Trips, Drivers, Cells,
    Window,         \* DefaultWindow
    SurgeTTL,       \* store.SurgeTTL
    WriteEvery,     \* the period of writeMultipliersLoop
    MaxLag,         \* bound: seconds from the writer's now to its last SET
    MaxPings,       \* bound: pings of a driver
    MaxFaults       \* bound: lost events, failed SETs, crashes

ASSUME SurgeAssumption ==
    /\ Window \in Nat \ {0} /\ SurgeTTL \in Nat \ {0} /\ WriteEvery \in Nat \ {0}
    /\ MaxLag \in 0 .. WriteEvery /\ MaxPings \in Nat /\ MaxFaults \in Nat
    /\ IsFiniteSet(Cells) /\ IsFiniteSet(Trips) /\ IsFiniteSet(Drivers)
    /\ Trips \cap Drivers = {}

VARIABLES
    trip, pings,            \* each trip's cell and state; the pings of each driver
    inFlight, topic,        \* events being published; the topics, by key
    held, seen,             \* Aggregator: its cells, and the age of their entries
    writing, now, todo, quote,  \* the writer: its `now` as an age, the cells left
    phase, due,             \* its ticker
    price,                  \* cell:<cell>:surge
    last, offeredAge, endedAge, pressing,    \* history
    faults

envVars    == <<trip, pings, inFlight, topic>>
aggVars    == <<held, seen>>
writerVars == <<writing, now, todo, quote, phase, due>>
histVars   == <<last, offeredAge, endedAge, pressing>>
vars == <<envVars, aggVars, writerVars, price, histVars, faults>>

Keys == Trips \cup Drivers

\* No entry or no event; the age from which a difference no longer matters.
None == -1
Stale == Window + MaxLag + 1
Forgotten == Window + MaxLag + SurgeTTL

Older(age, cap) == IF age = None \/ age = cap THEN age ELSE age + 1

-----------------------------------------------------------------------------
(* The multiplier, in hundredths.                                          *)

Baseline == 100

\* DefaultMultiplierConfig: the ratio of a step as a fraction.
Steps ==
    {[num |-> 0, den |-> 1, mult |-> 100], [num |-> 3, den |-> 2, mult |-> 120],
     [num |-> 3, den |-> 1, mult |-> 175], [num |-> 5, den |-> 1, mult |-> 250],
     [num |-> 8, den |-> 1, mult |-> 300]}

Reached(open, available) ==
    {s \in Steps : s.num = 0 \/ (open > 0 /\ open * s.den >= s.num * available)}

\* Mutant: a cell without supply has a ratio of zero.
MultiplierNoSupply(open, available) ==
    IF available = 0 THEN Baseline ELSE Max({s.mult : s \in Reached(open, available)})

\* Ratio and Multiplier: no demand is no pressure, demand without supply all of it.
Multiplier(open, available) == Max({s.mult : s \in Reached(open, available)})

-----------------------------------------------------------------------------
(* Aggregator.                                                             *)

Within(age, asOf) == age # None /\ age - asOf <= Window

\* Mutant: what the map holds is counted, and left to Prune.
CountHeld(entries, keys, asOf) == Cardinality({k \in keys : entries[k] # None})

CountWithin(entries, keys, asOf) == Cardinality({k \in keys : Within(entries[k], asOf)})

\* Aggregator.Multiplier for a `now` that is asOf seconds old.
MultiplierOf(c, asOf) ==
    IF c \notin held THEN Baseline
    ELSE Multiplier(CountWithin(seen[c], Trips, asOf), CountWithin(seen[c], Drivers, asOf))

Counted == {"OFFERED", "AVAILABLE"}

\* Mutant: an entry is stamped when its event is read.
RecordOnArrival(k, e) ==
    /\ held' = held \cup {e.cell}
    /\ seen' = [seen EXCEPT ![e.cell][k] = IF e.state \in Counted THEN 0 ELSE None]

\* RecordTrip and RecordDriver, with the timestamp of the event.
Record(k, e) ==
    /\ held' = held \cup {e.cell}
    /\ seen' = [seen EXCEPT ![e.cell][k] = IF e.state \in Counted THEN e.age ELSE None]

\* Mutant: an entry that is exactly a window old is evicted.
PruneAtWindow ==
    /\ seen' = [c \in Cells |-> [k \in Keys |-> IF seen[c][k] < Window THEN seen[c][k] ELSE None]]
    /\ held' = {c \in held : \E k \in Keys : seen'[c][k] # None}
    /\ UNCHANGED <<envVars, writerVars, price, histVars, faults>>

Prune ==
    /\ seen' = [c \in Cells |-> [k \in Keys |-> IF Within(seen[c][k], 0) THEN seen[c][k] ELSE None]]
    /\ held' = {c \in held : \E k \in Keys : seen'[c][k] # None}
    /\ UNCHANGED <<envVars, writerVars, price, histVars, faults>>

-----------------------------------------------------------------------------

\* What the last events read since the start of the process say.
LastCounted(c, keys, asOf) == {k \in keys : Within(last[c][k], asOf)}

\* Demand of at least one and a half times the supply, at any `now` of the writer.
Pressed(c) ==
    LET open == Cardinality(LastCounted(c, Trips, 0)) IN
    open > 0 /\ 2 * open >= 3 * Cardinality(LastCounted(c, Drivers, MaxLag))

NoEntries == [c \in Cells |-> [k \in Keys |-> None]]

\* How long a cell has been under pressure without a break.
Overdue == WriteEvery + MaxLag + 1
PressingFrom(age) == pressing' = [c \in Cells |-> IF Pressed(c)' THEN age[c] ELSE 0]

Init ==
    /\ trip = [t \in Trips |-> [state |-> "REQUESTED", cell |-> None]]
    /\ pings = [d \in Drivers |-> 0]
    /\ inFlight = [t \in Trips |-> {}] /\ topic = [k \in Keys |-> <<>>]
    /\ held = {} /\ seen = NoEntries
    /\ writing = FALSE /\ now = 0 /\ todo = {} /\ quote = {}
    /\ phase \in 1 .. WriteEvery /\ due = FALSE
    /\ price = [c \in Cells |-> [mult |-> Baseline, left |-> 0]]
    /\ last = NoEntries
    /\ offeredAge = [c \in Cells |-> None] /\ endedAge = [t \in Trips |-> None]
    /\ pressing = [c \in Cells |-> 0]
    /\ faults = 0

-----------------------------------------------------------------------------
(* The publishers.  An event is stamped before it is written.              *)

Event(state, c) == [state |-> state, cell |-> c, age |-> 0]

Publish(t, e) == inFlight' = [inFlight EXCEPT ![t] = @ \cup {e}]

\* Run marks the trip OFFERED and announces it.
OfferTrip(t, c) ==
    /\ trip[t].state = "REQUESTED"
    /\ trip' = [trip EXCEPT ![t] = [state |-> "OFFERED", cell |-> c]]
    /\ Publish(t, Event("OFFERED", c))
    /\ offeredAge' = [offeredAge EXCEPT ![c] = 0]
    /\ UNCHANGED <<pings, topic, aggVars, writerVars, price, last, endedAge, pressing, faults>>

\* MATCHED or UNFULFILLED, by this loop or by that of another node's sweep,
\* which does not wait for the first event to be written.
EndTrip(t) ==
    /\ trip[t].state = "OFFERED"
    /\ trip' = [trip EXCEPT ![t].state = "ENDED"]
    /\ Publish(t, Event("ENDED", trip[t].cell))
    /\ endedAge' = [endedAge EXCEPT ![t] = 0]
    /\ UNCHANGED <<pings, topic, aggVars, writerVars, price, last, offeredAge, pressing, faults>>

Written(t, e) ==
    /\ e \in inFlight[t]
    /\ inFlight' = [inFlight EXCEPT ![t] = @ \ {e}]
    /\ topic' = [topic EXCEPT ![t] = Append(@, e)]
    /\ UNCHANGED <<trip, pings, aggVars, writerVars, price, histVars, faults>>

\* A publishing error is ignored.
NotWritten(t, e) ==
    /\ e \in inFlight[t] /\ faults < MaxFaults
    /\ faults' = faults + 1
    /\ inFlight' = [inFlight EXCEPT ![t] = @ \ {e}]
    /\ UNCHANGED <<trip, pings, topic, aggVars, writerVars, price, histVars>>

\* UpdateLocation, in the cell and the state the driver is in now.  A driver
\* has its answer, and with it its event, before it sends the next ping.
Ping(d, c, state) ==
    /\ pings[d] < MaxPings
    /\ pings' = [pings EXCEPT ![d] = @ + 1]
    /\ topic' = [topic EXCEPT ![d] = Append(@, Event(state, c))]
    /\ UNCHANGED <<trip, inFlight, aggVars, writerVars, price, histVars, faults>>

-----------------------------------------------------------------------------
(* The process: two consumers, the pruning goroutine and the writer.       *)

Consume(k) ==
    /\ topic[k] # <<>>
    /\ LET e == Head(topic[k]) IN
       /\ Record(k, e)
       /\ last' = [last EXCEPT ![e.cell][k] = IF e.state \in Counted THEN e.age ELSE None]
    /\ topic' = [topic EXCEPT ![k] = Tail(@)]
    /\ PressingFrom(pressing)
    /\ UNCHANGED <<trip, pings, inFlight, writerVars, price, offeredAge, endedAge, faults>>

\* ReadMessage has committed the offset when it fails.
Lose(k) ==
    /\ topic[k] # <<>> /\ faults < MaxFaults
    /\ faults' = faults + 1
    /\ topic' = [topic EXCEPT ![k] = Tail(@)]
    /\ UNCHANGED <<trip, pings, inFlight, aggVars, writerVars, price, histVars>>

StartWrite ==
    /\ ~writing /\ due
    /\ writing' = TRUE /\ due' = FALSE /\ now' = 0 /\ todo' = held
    /\ UNCHANGED <<envVars, aggVars, quote, phase, price, histVars, faults>>

Quote(c) ==
    /\ writing /\ quote = {} /\ c \in todo
    /\ todo' = todo \ {c}
    /\ quote' = {[cell |-> c, mult |-> MultiplierOf(c, now)]}
    /\ UNCHANGED <<envVars, aggVars, writing, now, phase, due, price, histVars, faults>>

\* SET with the given expiry.  A key that holds 1.0 reads like one that is not there.
SetFor(q, seconds) ==
    /\ price' = [price EXCEPT ![q.cell] =
                    [mult |-> q.mult, left |-> IF q.mult = Baseline THEN 0 ELSE seconds]]
    /\ quote' = {}
    /\ UNCHANGED <<envVars, aggVars, writing, now, todo, phase, due, histVars, faults>>

\* Mutant: a refreshed key gets its time on top of what it had left.
SetMultiplierAdds(q) == SetFor(q, SurgeTTL + price[q.cell].left)

SetMultiplier(q) == SetFor(q, SurgeTTL)

\* The error is logged, and the next cell's turn comes.
SetFails(q) ==
    /\ faults < MaxFaults
    /\ faults' = faults + 1
    /\ quote' = {}
    /\ pressing' = [pressing EXCEPT ![q.cell] = 0]
    /\ UNCHANGED <<envVars, aggVars, writing, now, todo, phase, due, price, last, offeredAge, endedAge>>

EndWrite ==
    /\ writing /\ quote = {} /\ todo = {}
    /\ writing' = FALSE /\ now' = 0
    /\ UNCHANGED <<envVars, aggVars, todo, quote, phase, due, price, histVars, faults>>

\* The counts are in memory only; the prices stay.
Crash ==
    /\ faults < MaxFaults
    /\ faults' = faults + 1
    /\ held' = {} /\ seen' = NoEntries
    /\ writing' = FALSE /\ now' = 0 /\ todo' = {} /\ quote' = {}
    /\ phase' = WriteEvery /\ due' = FALSE
    /\ last' = NoEntries
    /\ pressing' = [c \in Cells |-> 0]
    /\ UNCHANGED <<envVars, price, offeredAge, endedAge>>

-----------------------------------------------------------------------------

\* The timestamp of an event that removes an entry is not looked at.
Aged(e) == IF e.state \in Counted THEN [e EXCEPT !.age = Older(@, Stale)] ELSE e

\* A second passes.  The writer takes its tick and is done in MaxLag.
Tick ==
    /\ ~(due /\ ~writing) /\ (writing => now < MaxLag)
    /\ inFlight' = [t \in Trips |-> {Aged(e) : e \in inFlight[t]}]
    /\ topic' = [k \in Keys |-> [i \in DOMAIN topic[k] |-> Aged(topic[k][i])]]
    /\ seen' = [c \in Cells |-> [k \in Keys |-> Older(seen[c][k], Stale)]]
    /\ now' = IF writing THEN now + 1 ELSE 0
    /\ phase' = IF phase = 1 THEN WriteEvery ELSE phase - 1
    /\ due' = (due \/ phase = 1)
    /\ price' = [c \in Cells |-> IF price[c].left > 1
                                 THEN [mult |-> price[c].mult, left |-> price[c].left - 1]
                                 ELSE [mult |-> Baseline, left |-> 0]]
    /\ last' = [c \in Cells |-> [k \in Keys |-> Older(last[c][k], Stale)]]
    /\ offeredAge' = [c \in Cells |-> Older(offeredAge[c], Forgotten)]
    /\ endedAge' = [t \in Trips |-> Older(endedAge[t], Window + 1)]
    /\ PressingFrom([c \in Cells |-> IF Pressed(c) THEN Older(pressing[c], Overdue) ELSE 0])
    /\ UNCHANGED <<trip, pings, held, writing, todo, quote, faults>>

Next ==
    \/ \E t \in Trips :
        \/ (\E c \in Cells : OfferTrip(t, c)) \/ EndTrip(t)
        \/ \E e \in inFlight[t] : Written(t, e) \/ NotWritten(t, e)
    \/ \E d \in Drivers, c \in Cells, s \in {"AVAILABLE", "BUSY"} : Ping(d, c, s)
    \/ \E k \in Keys : Consume(k) \/ Lose(k)
    \/ Prune
    \/ StartWrite \/ (\E c \in Cells : Quote(c)) \/ EndWrite
    \/ \E q \in quote : SetMultiplier(q) \/ SetFails(q)
    \/ Crash
    \/ Tick

Spec == Init /\ [][Next]_vars

-----------------------------------------------------------------------------

Ages == {None} \cup 0 .. Stale
Events == [state : Counted \cup {"ENDED", "BUSY"}, cell : Cells, age : 0 .. Stale]

Multipliers == {s.mult : s \in Steps}

EnvType ==
    /\ trip \in [Trips -> [state : {"REQUESTED", "OFFERED", "ENDED"}, cell : Cells \cup {None}]]
    /\ pings \in [Drivers -> 0 .. MaxPings]
    /\ inFlight \in [Trips -> SUBSET Events] /\ topic \in [Keys -> Seq(Events)]

WriterType ==
    /\ writing \in BOOLEAN /\ now \in 0 .. MaxLag /\ todo \subseteq Cells
    /\ quote \subseteq [cell : Cells, mult : Multipliers]
    /\ phase \in 1 .. WriteEvery /\ due \in BOOLEAN

HistType ==
    /\ last \in [Cells -> [Keys -> Ages]]
    /\ offeredAge \in [Cells -> {None} \cup 0 .. Forgotten]
    /\ endedAge \in [Trips -> {None} \cup 0 .. Window + 1]
    /\ pressing \in [Cells -> 0 .. Overdue]

TypeOK ==
    /\ EnvType /\ WriterType /\ HistType
    /\ held \subseteq Cells /\ seen \in [Cells -> [Keys -> Ages]]
    /\ price \in [Cells -> [mult : Multipliers, left : 0 .. SurgeTTL]]
    /\ faults \in 0 .. MaxFaults

\* The counts are those of the last events read about each trip and driver,
\* however often the maps are pruned: an entry goes from the maps and from the
\* count at the same age, and a cell only with its last entry.  (RecordTrip,
\* RecordDriver, countWithinWindow, Prune.)
CountsLastEvents ==
    \A c \in Cells, k \in Keys :
        k \in LastCounted(c, Keys, 0) <=> c \in held /\ Within(seen[c][k], 0)

\* A trip that ended a window ago is not demand, even if the event of its end
\* was lost or was written before that of its offer.  (RecordTrip's at.)
EndedTripForgotten ==
    \A t \in Trips : endedAge[t] > Window => \A c \in Cells : ~Within(seen[c][t], 0)

\* A price above the baseline goes back to a trip that was offered in the cell
\* within the window and the life of a price, even if the process that wrote it
\* has died or has dropped the cell before writing the baseline.  (SurgeTTL,
\* Prune, writeMultipliersLoop's now.)
SurgeIsRecent ==
    \A c \in Cells : price[c].mult # Baseline =>
        offeredAge[c] \in 0 .. (Window + MaxLag + SurgeTTL) - 1

\* A cell that stays under pressure has a surged price when the next tick's
\* prices are written, and keeps it.  (Ratio, Multiplier, writeMultipliersLoop.)
PressureIsPriced ==
    \A c \in Cells : pressing[c] >= Overdue => price[c].mult # Baseline
=============================================================================
