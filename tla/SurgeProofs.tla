---------------------------- MODULE SurgeProofs ----------------------------
(***************************************************************************)
(* The operators of SurgeAggregator and its type invariant, for any trips, *)
(* drivers, cells, window, TTL, lag and number of faults.                  *)
(***************************************************************************)
EXTENDS SurgeAggregator, SequenceTheorems, FiniteSetTheorems, TLAPS

USE SurgeAssumption

LEMMA Bounds ==
    /\ Stale \in Nat /\ Forgotten \in Nat /\ Overdue \in Nat
    /\ Window < Stale /\ MaxLag < Stale /\ Stale <= Forgotten
    /\ None = -1 /\ MaxLag \in Nat
  BY DEF Stale, Forgotten, Overdue, None

-----------------------------------------------------------------------------
(* The operators.                                                          *)

\* A greater age, up to the cap; no age stays none.
LEMMA OlderAge ==
  ASSUME NEW cap \in Nat, NEW age \in {None} \cup 0 .. cap
  PROVE  /\ Older(age, cap) \in {None} \cup 0 .. cap
         /\ age = None => Older(age, cap) = None
         /\ age # None => Older(age, cap) = IF age = cap THEN cap ELSE age + 1
  BY DEF Older, None

LEMMA EventsIn ==
    /\ \A s \in Counted \cup {"ENDED", "BUSY"}, c \in Cells : Event(s, c) \in Events
    /\ \A e \in Events : Aged(e) \in Events
  <1>1. ASSUME NEW s \in Counted \cup {"ENDED", "BUSY"}, NEW c \in Cells
        PROVE  Event(s, c) \in Events
    BY Bounds DEF Event, Events
  <1>2. ASSUME NEW e \in Events PROVE Aged(e) \in Events
    <2>1. Older(e.age, Stale) \in 0 .. Stale
      BY Bounds DEF Events, Older, None
    <2> QED BY <2>1 DEF Aged, Events
  <1> QED BY <1>1, <1>2

\* What Aged does to an event.
LEMMA AgedEvent ==
  ASSUME NEW e \in Events
  PROVE  /\ Aged(e).state = e.state /\ Aged(e).cell = e.cell
         /\ e.state \in Counted => Aged(e).age = IF e.age = Stale THEN Stale ELSE e.age + 1
  <1>1. e.age \in 0 .. Stale
    BY DEF Events
  <1>2. Older(e.age, Stale) = IF e.age = Stale THEN Stale ELSE e.age + 1
    BY <1>1, Bounds DEF Older, None
  <1> QED BY <1>2 DEF Aged, Events

LEMMA Mults == Multipliers = {100, 120, 175, 250, 300}
  BY DEF Multipliers, Steps

LEMMA LargestIn ==
  ASSUME NEW S \in SUBSET {100, 120, 175, 250, 300}, S # {}
  PROVE  Max(S) \in S /\ \A y \in S : Max(S) >= y
  <1>1. \E x \in S : \A y \in S : x >= y
    <2>1. CASE 300 \in S
      BY <2>1
    <2>2. CASE 300 \notin S /\ 250 \in S
      BY <2>2
    <2>3. CASE 300 \notin S /\ 250 \notin S /\ 175 \in S
      BY <2>3
    <2>4. CASE 300 \notin S /\ 250 \notin S /\ 175 \notin S /\ 120 \in S
      BY <2>4
    <2>5. CASE 300 \notin S /\ 250 \notin S /\ 175 \notin S /\ 120 \notin S
      <3>1. \A y \in S : y = 100
        BY <2>5
      <3>2. PICK x \in S : TRUE
        OBVIOUS
      <3> QED BY <3>1, <3>2
    <2> QED BY <2>1, <2>2, <2>3, <2>4, <2>5
  <1> QED BY <1>1 DEF Max

\* A multiplier is one of the steps'; without demand it is the baseline.
LEMMA MultiplierIn ==
  ASSUME NEW open \in Nat, NEW available \in Nat
  PROVE  /\ Multiplier(open, available) \in Multipliers
         /\ open = 0 => Multiplier(open, available) = Baseline
  <1> DEFINE S == {s.mult : s \in Reached(open, available)}
  <1>1. 100 \in S
    <2>1. [num |-> 0, den |-> 1, mult |-> 100] \in Reached(open, available)
      BY DEF Reached, Steps
    <2> QED BY <2>1
  <1>2. S \subseteq Multipliers
    BY DEF Reached, Multipliers
  <1>3. Max(S) \in S
    <2> HIDE DEF S
    <2> QED BY <1>1, <1>2, LargestIn, Mults
  <1>4. ASSUME open = 0 PROVE S = {100}
    BY <1>1, <1>4 DEF Reached, Steps
  <1> HIDE DEF S
  <1>5. Multiplier(open, available) = Max(S)
    BY DEF Multiplier, S
  <1> QED BY <1>2, <1>3, <1>4, <1>5 DEF Baseline

LEMMA KeysFinite == IsFiniteSet(Trips) /\ IsFiniteSet(Drivers)
  OBVIOUS

LEMMA CountIn ==
  ASSUME NEW entries, NEW keys, IsFiniteSet(keys), NEW asOf
  PROVE  /\ CountWithin(entries, keys, asOf) \in Nat
         /\ CountWithin(entries, keys, asOf) # 0 => \E k \in keys : Within(entries[k], asOf)
  <1> DEFINE S == {k \in keys : Within(entries[k], asOf)}
  <1>1. IsFiniteSet(S)
    BY FS_Subset
  <1>2. Cardinality(S) \in Nat /\ (Cardinality(S) = 0 <=> S = {})
    BY <1>1, FS_CardinalityType, FS_EmptySet
  <1> QED BY <1>2 DEF CountWithin

\* Aggregator.Multiplier: above the baseline only for a trip in the window.
LEMMA MultiplierOfIn ==
  ASSUME NEW c \in Cells, NEW asOf
  PROVE  /\ MultiplierOf(c, asOf) \in Multipliers
         /\ MultiplierOf(c, asOf) # Baseline => \E t \in Trips : Within(seen[c][t], asOf)
  <1>1. CASE c \notin held
    BY <1>1, Mults DEF MultiplierOf, Baseline
  <1>2. CASE c \in held
    <2>1. CountWithin(seen[c], Trips, asOf) \in Nat /\ CountWithin(seen[c], Drivers, asOf) \in Nat
      BY CountIn, KeysFinite
    <2>2. CountWithin(seen[c], Trips, asOf) # 0 => \E t \in Trips : Within(seen[c][t], asOf)
      BY CountIn, KeysFinite
    <2> QED BY <1>2, <2>1, <2>2, MultiplierIn DEF MultiplierOf
  <1> QED BY <1>1, <1>2

-----------------------------------------------------------------------------
(* Type correctness.                                                       *)

\* A trip ends in the cell it was offered in.
OfferedHasCell == \A t \in Trips : trip[t].state = "OFFERED" => trip[t].cell \in Cells

TypeInv == TypeOK /\ OfferedHasCell

LEMMA NoEntriesType == NoEntries \in [Cells -> [Keys -> Ages]]
  BY DEF NoEntries, Ages

LEMMA TypeInit == Init => TypeInv
  <1> SUFFICES ASSUME Init PROVE TypeInv
    OBVIOUS
  <1> USE DEF Init
  <1>1. EnvType
    <2>1. topic \in [Keys -> Seq(Events)]
      BY EmptySeq
    <2> QED BY <2>1 DEF EnvType
  <1>2. WriterType
    <2>1. writing \in BOOLEAN /\ due \in BOOLEAN
      OBVIOUS
    <2>2. now \in 0 .. MaxLag /\ phase \in 1 .. WriteEvery
      BY Bounds
    <2> QED BY <2>1, <2>2 DEF WriterType
  <1>3. HistType
    BY Bounds, NoEntriesType DEF HistType
  <1>4. price \in [Cells -> [mult : Multipliers, left : 0 .. SurgeTTL]]
    BY Mults DEF Baseline
  <1>5. held \subseteq Cells /\ faults \in 0 .. MaxFaults /\ seen \in [Cells -> [Keys -> Ages]]
    BY NoEntriesType
  <1> QED BY <1>1, <1>2, <1>3, <1>4, <1>5 DEF TypeInv, TypeOK, OfferedHasCell

\* Stamping and reading an event keeps the maps' type.
LEMMA RecordType ==
  ASSUME TypeOK, NEW k \in Keys, NEW e \in Events, Record(k, e)
  PROVE  held' \subseteq Cells /\ seen' \in [Cells -> [Keys -> Ages]]
  <1>1. e.cell \in Cells /\ (IF e.state \in Counted THEN e.age ELSE None) \in Ages
    BY DEF Events, Ages
  <1>2. held' \subseteq Cells
    BY <1>1 DEF Record, TypeOK
  <1>3. seen' \in [Cells -> [Keys -> Ages]]
    BY <1>1 DEF Record, TypeOK
  <1> QED BY <1>2, <1>3

LEMMA LastType ==
  ASSUME TypeOK, NEW k \in Keys, NEW e \in Events
  PROVE  [last EXCEPT ![e.cell][k] = IF e.state \in Counted THEN e.age ELSE None]
            \in [Cells -> [Keys -> Ages]]
  <1>1. e.cell \in Cells /\ (IF e.state \in Counted THEN e.age ELSE None) \in Ages
    BY DEF Events, Ages
  <1> QED BY <1>1 DEF TypeOK, HistType

LEMMA PressingType ==
  ASSUME NEW age \in [Cells -> 0 .. Overdue], PressingFrom(age)
  PROVE  pressing' \in [Cells -> 0 .. Overdue]
  BY Bounds DEF PressingFrom

LEMMA TopicAppend ==
  ASSUME TypeOK, NEW k \in Keys, NEW e \in Events, topic' = [topic EXCEPT ![k] = Append(@, e)]
  PROVE  topic' \in [Keys -> Seq(Events)]
  <1>1. Append(topic[k], e) \in Seq(Events)
    BY AppendProperties DEF TypeOK, EnvType
  <1> QED BY <1>1 DEF TypeOK, EnvType

LEMMA TopicTail ==
  ASSUME TypeOK, NEW k \in Keys, topic[k] # <<>>
  PROVE  /\ Head(topic[k]) \in Events
         /\ [topic EXCEPT ![k] = Tail(@)] \in [Keys -> Seq(Events)]
  <1>1. Head(topic[k]) \in Events /\ Tail(topic[k]) \in Seq(Events)
    BY HeadTailProperties DEF TypeOK, EnvType
  <1> QED BY <1>1 DEF TypeOK, EnvType

LEMMA TopicAged ==
  ASSUME TypeOK
  PROVE  [k \in Keys |-> [i \in DOMAIN topic[k] |-> Aged(topic[k][i])]] \in [Keys -> Seq(Events)]
  <1> SUFFICES ASSUME NEW k \in Keys
               PROVE  [i \in DOMAIN topic[k] |-> Aged(topic[k][i])] \in Seq(Events)
    OBVIOUS
  <1>1. /\ Len(topic[k]) \in Nat /\ DOMAIN topic[k] = 1 .. Len(topic[k])
        /\ topic[k] \in [1 .. Len(topic[k]) -> Events]
    BY LenProperties DEF TypeOK, EnvType
  <1>2. [i \in DOMAIN topic[k] |-> Aged(topic[k][i])] \in [1 .. Len(topic[k]) -> Events]
    BY <1>1, EventsIn
  <1> QED BY <1>1, <1>2, SeqDef

\* Every action keeps the type invariant.
LEMMA TypeNext ==
  ASSUME TypeInv, [Next]_vars
  PROVE  TypeInv'
  <1> USE DEF TypeInv
  <1>1. ASSUME NEW t \in Trips, NEW c \in Cells, OfferTrip(t, c) PROVE TypeInv'
    <2>1. Event("OFFERED", c) \in Events
      BY EventsIn DEF Counted
    <2>2. EnvType'
      <3>1. inFlight' \in [Trips -> SUBSET Events]
        BY <1>1, <2>1 DEF OfferTrip, Publish, TypeOK, EnvType
      <3> QED BY <1>1, <3>1 DEF OfferTrip, TypeOK, EnvType
    <2>3. offeredAge' \in [Cells -> {None} \cup 0 .. Forgotten]
      BY <1>1, Bounds DEF OfferTrip, TypeOK, HistType
    <2>4. OfferedHasCell'
      BY <1>1 DEF OfferTrip, OfferedHasCell, TypeOK, EnvType
    <2> QED BY <1>1, <2>2, <2>3, <2>4 DEF OfferTrip, TypeOK, WriterType, HistType, aggVars, writerVars
  <1>2. ASSUME NEW t \in Trips, EndTrip(t) PROVE TypeInv'
    <2>1. Event("ENDED", trip[t].cell) \in Events
      BY <1>2, EventsIn DEF EndTrip, OfferedHasCell
    <2>2. EnvType'
      <3>1. inFlight' \in [Trips -> SUBSET Events]
        BY <1>2, <2>1 DEF EndTrip, Publish, TypeOK, EnvType
      <3> QED BY <1>2, <3>1 DEF EndTrip, TypeOK, EnvType
    <2>3. endedAge' \in [Trips -> {None} \cup 0 .. Window + 1]
      BY <1>2 DEF EndTrip, TypeOK, HistType
    <2>4. OfferedHasCell'
      BY <1>2 DEF EndTrip, OfferedHasCell, TypeOK, EnvType
    <2> QED BY <1>2, <2>2, <2>3, <2>4 DEF EndTrip, TypeOK, WriterType, HistType, aggVars, writerVars
  <1>3. ASSUME NEW t \in Trips, NEW e \in inFlight[t], Written(t, e) PROVE TypeInv'
    <2>1. e \in Events /\ t \in Keys
      BY <1>3 DEF TypeOK, EnvType, Keys
    <2>2. topic' \in [Keys -> Seq(Events)]
      BY <1>3, <2>1, TopicAppend DEF Written
    <2>3. inFlight' \in [Trips -> SUBSET Events]
      BY <1>3 DEF Written, TypeOK, EnvType
    <2> QED BY <1>3, <2>2, <2>3
            DEF Written, TypeOK, EnvType, WriterType, HistType, OfferedHasCell, aggVars, writerVars, histVars
  <1>4. ASSUME NEW t \in Trips, NEW e \in inFlight[t], NotWritten(t, e) PROVE TypeInv'
    <2>1. inFlight' \in [Trips -> SUBSET Events]
      BY <1>4 DEF NotWritten, TypeOK, EnvType
    <2>2. faults' \in 0 .. MaxFaults
      BY <1>4 DEF NotWritten, TypeOK
    <2> QED BY <1>4, <2>1, <2>2
            DEF NotWritten, TypeOK, EnvType, WriterType, HistType, OfferedHasCell, aggVars, writerVars, histVars
  <1>5. ASSUME NEW d \in Drivers, NEW c \in Cells, NEW s \in {"AVAILABLE", "BUSY"}, Ping(d, c, s) PROVE TypeInv'
    <2>1. Event(s, c) \in Events /\ d \in Keys
      BY EventsIn DEF Counted, Keys
    <2>2. topic' \in [Keys -> Seq(Events)]
      BY <1>5, <2>1, TopicAppend DEF Ping
    <2>3. pings' \in [Drivers -> 0 .. MaxPings]
      BY <1>5 DEF Ping, TypeOK, EnvType
    <2> QED BY <1>5, <2>2, <2>3
            DEF Ping, TypeOK, EnvType, WriterType, HistType, OfferedHasCell, aggVars, writerVars, histVars
  <1>6. ASSUME NEW k \in Keys, Consume(k) PROVE TypeInv'
    <2> DEFINE e == Head(topic[k])
    <2>1. e \in Events /\ topic' \in [Keys -> Seq(Events)]
      BY <1>6, TopicTail DEF Consume
    <2>2. held' \subseteq Cells /\ seen' \in [Cells -> [Keys -> Ages]]
      BY <1>6, <2>1, RecordType DEF Consume
    <2>3. last' \in [Cells -> [Keys -> Ages]]
      BY <1>6, <2>1, LastType DEF Consume
    <2>4. pressing' \in [Cells -> 0 .. Overdue]
      BY <1>6, PressingType DEF Consume, TypeOK, HistType
    <2> QED BY <1>6, <2>1, <2>2, <2>3, <2>4
            DEF Consume, TypeOK, EnvType, WriterType, HistType, OfferedHasCell, writerVars
  <1>7. ASSUME NEW k \in Keys, Lose(k) PROVE TypeInv'
    <2>1. topic' \in [Keys -> Seq(Events)]
      BY <1>7, TopicTail DEF Lose
    <2>2. faults' \in 0 .. MaxFaults
      BY <1>7 DEF Lose, TypeOK
    <2> QED BY <1>7, <2>1, <2>2
            DEF Lose, TypeOK, EnvType, WriterType, HistType, OfferedHasCell, aggVars, writerVars, histVars
  <1>8. CASE Prune
    <2>1. seen' \in [Cells -> [Keys -> Ages]]
      BY <1>8 DEF Prune, TypeOK, Ages
    <2> QED BY <1>8, <2>1
            DEF Prune, TypeOK, EnvType, WriterType, HistType, OfferedHasCell, envVars, writerVars, histVars
  <1>9. CASE StartWrite
    <2>1. WriterType'
      <3>1. now' \in 0 .. MaxLag /\ phase' \in 1 .. WriteEvery
        BY <1>9, Bounds DEF StartWrite, TypeOK, WriterType
      <3>2. writing' \in BOOLEAN /\ due' \in BOOLEAN
        BY <1>9 DEF StartWrite
      <3> QED BY <1>9, <3>1, <3>2 DEF StartWrite, TypeOK, WriterType
    <2> QED BY <1>9, <2>1 DEF StartWrite, TypeOK, EnvType, HistType, OfferedHasCell, envVars, aggVars, histVars
  <1>10. ASSUME NEW c \in Cells, Quote(c) PROVE TypeInv'
    <2>1. quote' \subseteq [cell : Cells, mult : Multipliers]
      BY <1>10, MultiplierOfIn DEF Quote
    <2> QED BY <1>10, <2>1
            DEF Quote, TypeOK, EnvType, WriterType, HistType, OfferedHasCell, envVars, aggVars, histVars
  <1>11. CASE EndWrite
    <2>1. WriterType'
      <3>1. now' \in 0 .. MaxLag /\ phase' \in 1 .. WriteEvery
        BY <1>11, Bounds DEF EndWrite, TypeOK, WriterType
      <3>2. writing' \in BOOLEAN /\ due' \in BOOLEAN
        BY <1>11 DEF EndWrite, TypeOK, WriterType
      <3> QED BY <1>11, <3>1, <3>2 DEF EndWrite, TypeOK, WriterType
    <2> QED BY <1>11, <2>1 DEF EndWrite, TypeOK, EnvType, HistType, OfferedHasCell, envVars, aggVars, histVars
  <1>12. ASSUME NEW q \in quote, SetMultiplier(q) PROVE TypeInv'
    <2>1. q.cell \in Cells /\ q.mult \in Multipliers
      BY DEF TypeOK, WriterType
    <2>2. price' \in [Cells -> [mult : Multipliers, left : 0 .. SurgeTTL]]
      BY <1>12, <2>1 DEF SetMultiplier, SetFor, TypeOK
    <2>3. WriterType'
      BY <1>12 DEF SetMultiplier, SetFor, TypeOK, WriterType
    <2> QED BY <1>12, <2>2, <2>3
            DEF SetMultiplier, SetFor, TypeOK, EnvType, HistType, OfferedHasCell, envVars, aggVars, histVars
  <1>13. ASSUME NEW q \in quote, SetFails(q) PROVE TypeInv'
    <2>1. WriterType'
      BY <1>13 DEF SetFails, TypeOK, WriterType
    <2>2. faults' \in 0 .. MaxFaults
      BY <1>13 DEF SetFails, TypeOK
    <2>3. pressing' \in [Cells -> 0 .. Overdue]
      <3>1. 0 \in 0 .. Overdue
        BY Bounds
      <3> QED BY <1>13, <3>1 DEF SetFails, TypeOK, HistType
    <2> QED BY <1>13, <2>1, <2>2, <2>3 DEF SetFails, TypeOK, EnvType, HistType, OfferedHasCell, envVars, aggVars
  <1>14. CASE Crash
    <2>1. WriterType'
      <3>1. now' \in 0 .. MaxLag /\ phase' \in 1 .. WriteEvery
        BY <1>14, Bounds DEF Crash
      <3>2. writing' \in BOOLEAN /\ due' \in BOOLEAN
        BY <1>14 DEF Crash
      <3> QED BY <1>14, <3>1, <3>2 DEF Crash, WriterType
    <2>2. HistType'
      BY <1>14, Bounds, NoEntriesType DEF Crash, TypeOK, HistType
    <2>3. held' \subseteq Cells /\ seen' \in [Cells -> [Keys -> Ages]] /\ faults' \in 0 .. MaxFaults
      BY <1>14, NoEntriesType DEF Crash, TypeOK
    <2> QED BY <1>14, <2>1, <2>2, <2>3 DEF Crash, TypeOK, EnvType, OfferedHasCell, envVars
  <1>15. CASE Tick
    <2>1. EnvType'
      <3>1. topic' \in [Keys -> Seq(Events)]
        BY <1>15, TopicAged DEF Tick
      <3>2. inFlight' \in [Trips -> SUBSET Events]
        BY <1>15, EventsIn DEF Tick, TypeOK, EnvType
      <3> QED BY <1>15, <3>1, <3>2 DEF Tick, TypeOK, EnvType
    <2>2. WriterType'
      <3>1. now' \in 0 .. MaxLag
        BY <1>15, Bounds DEF Tick, TypeOK, WriterType
      <3>2. phase' \in 1 .. WriteEvery
        BY <1>15 DEF Tick, TypeOK, WriterType
      <3>3. due' \in BOOLEAN
        BY <1>15 DEF Tick
      <3> QED BY <1>15, <3>1, <3>2, <3>3 DEF Tick, TypeOK, WriterType
    <2>3. \A f \in [Cells -> [Keys -> Ages]] :
             [c \in Cells |-> [k \in Keys |-> Older(f[c][k], Stale)]] \in [Cells -> [Keys -> Ages]]
      <3> SUFFICES ASSUME NEW age \in Ages PROVE Older(age, Stale) \in Ages
        OBVIOUS
      <3> QED BY Bounds, OlderAge DEF Ages
    <2>4. HistType'
      <3>1. last' \in [Cells -> [Keys -> Ages]]
        BY <1>15, <2>3 DEF Tick, TypeOK, HistType
      <3>2. offeredAge' \in [Cells -> {None} \cup 0 .. Forgotten]
        BY <1>15, Bounds, OlderAge DEF Tick, TypeOK, HistType
      <3>3. endedAge' \in [Trips -> {None} \cup 0 .. Window + 1]
        <4>1. \A t \in Trips : Older(endedAge[t], Window + 1) \in {None} \cup 0 .. Window + 1
          BY OlderAge DEF TypeOK, HistType
        <4> QED BY <1>15, <4>1 DEF Tick
      <3>4. pressing' \in [Cells -> 0 .. Overdue]
        <4> DEFINE f == [c \in Cells |-> IF Pressed(c) THEN Older(pressing[c], Overdue) ELSE 0]
        <4>1. f \in [Cells -> 0 .. Overdue]
          BY Bounds, OlderAge DEF TypeOK, HistType
        <4> HIDE DEF f
        <4>2. PressingFrom(f)
          BY <1>15 DEF Tick, f
        <4> QED BY <4>1, <4>2, PressingType
      <3> QED BY <3>1, <3>2, <3>3, <3>4 DEF HistType
    <2>5. seen' \in [Cells -> [Keys -> Ages]]
      BY <1>15, <2>3 DEF Tick, TypeOK
    <2>6. price' \in [Cells -> [mult : Multipliers, left : 0 .. SurgeTTL]]
      BY <1>15, Mults DEF Tick, TypeOK, Baseline
    <2> QED BY <1>15, <2>1, <2>2, <2>4, <2>5, <2>6 DEF Tick, TypeOK, OfferedHasCell
  <1>16. CASE UNCHANGED vars
    BY <1>16 DEF vars, envVars, aggVars, writerVars, histVars, TypeOK, EnvType, WriterType, HistType, OfferedHasCell
  <1> QED BY <1>1, <1>2, <1>3, <1>4, <1>5, <1>6, <1>7, <1>8, <1>9, <1>10, <1>11, <1>12, <1>13, <1>14, <1>15, <1>16
          DEF Next

\* Every price is one of the steps', with no more than SurgeTTL to live, and no
\* age passes its cap.
THEOREM TypeCorrect == Spec => []TypeOK
  <1>1. TypeInv => TypeOK
    BY DEF TypeInv
  <1> QED BY <1>1, TypeInit, TypeNext, PTL DEF Spec
=============================================================================
