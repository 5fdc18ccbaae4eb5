-------------------------- MODULE SurgeSafetyProofs --------------------------
(***************************************************************************)
(* For any trips, drivers, cells, window, TTL, lag and number of faults:   *)
(* the counts are those of the last events read, a trip that ended is      *)
(* forgotten, a surged price goes back to a recent offer, and a cell that  *)
(* stays under pressure has one.                                           *)
(***************************************************************************)
EXTENDS SurgeProofs

USE SurgeAssumption

\* The events of a trip that are still to be read.
Pending(t) == inFlight[t] \cup {topic[t][i] : i \in DOMAIN topic[t]}

-----------------------------------------------------------------------------
(* What the actions do to the events still to be read.                     *)

LEMMA AppendRange ==
  ASSUME NEW S, NEW s \in Seq(S), NEW e \in S, NEW i \in DOMAIN Append(s, e)
  PROVE  Append(s, e)[i] = e \/ (i \in DOMAIN s /\ Append(s, e)[i] = s[i])
  <1>1. /\ Len(Append(s, e)) = Len(s) + 1
        /\ \A j \in 1 .. Len(s) : Append(s, e)[j] = s[j]
        /\ Append(s, e)[Len(s) + 1] = e
        /\ Append(s, e) \in Seq(S)
    BY AppendProperties
  <1>2. Len(s) \in Nat /\ DOMAIN s = 1 .. Len(s)
    BY LenProperties
  <1>3. i \in 1 .. Len(s) + 1
    BY <1>1, LenProperties
  <1> QED BY <1>1, <1>2, <1>3

LEMMA TailRange ==
  ASSUME NEW S, NEW s \in Seq(S), s # <<>>, NEW i \in DOMAIN Tail(s)
  PROVE  i + 1 \in DOMAIN s /\ Tail(s)[i] = s[i + 1]
  <1>1. Tail(s) \in Seq(S) /\ Len(Tail(s)) = Len(s) - 1 /\ \A j \in 1 .. Len(Tail(s)) : Tail(s)[j] = s[j + 1]
    BY HeadTailProperties
  <1>2. Len(s) \in Nat /\ DOMAIN s = 1 .. Len(s) /\ DOMAIN Tail(s) = 1 .. Len(Tail(s))
    BY <1>1, LenProperties
  <1> QED BY <1>1, <1>2

LEMMA PendingEvents == ASSUME TypeOK, NEW t \in Trips PROVE Pending(t) \subseteq Events
  <1>1. topic[t] \in Seq(Events) /\ inFlight[t] \subseteq Events
    BY DEF TypeOK, EnvType, Keys
  <1>2. \A i \in DOMAIN topic[t] : topic[t][i] \in Events
    BY <1>1, LenProperties, ElementOfSeq
  <1> QED BY <1>1, <1>2 DEF Pending

\* Publishing adds an event.
LEMMA PendingPublish ==
  ASSUME TypeOK, NEW u \in Trips, NEW e, Publish(u, e), UNCHANGED topic, NEW t \in Trips
  PROVE  Pending(t)' \subseteq Pending(t) \cup (IF t = u THEN {e} ELSE {})
  BY DEF Publish, Pending, TypeOK, EnvType

\* Writing an event moves it; a ping is no trip's event.
LEMMA PendingWritten ==
  ASSUME TypeOK, NEW u \in Trips, NEW e \in inFlight[u], Written(u, e), NEW t \in Trips
  PROVE  Pending(t)' \subseteq Pending(t)
  <1>1. topic[u] \in Seq(Events) /\ e \in Events
    BY DEF TypeOK, EnvType, Keys
  <1>2. CASE t = u
    <2>1. topic'[u] = Append(topic[u], e) /\ inFlight'[u] = inFlight[u] \ {e}
      BY DEF Written, TypeOK, EnvType, Keys
    <2>2. \A i \in DOMAIN topic'[u] : topic'[u][i] \in Pending(u)
      BY <1>1, <2>1, AppendRange DEF Pending
    <2> QED BY <1>2, <2>1, <2>2 DEF Pending
  <1>3. CASE t # u
    BY <1>3 DEF Written, Pending, TypeOK, EnvType, Keys
  <1> QED BY <1>2, <1>3

LEMMA PendingPing ==
  ASSUME TypeOK, NEW d \in Drivers, NEW c \in Cells, NEW s, Ping(d, c, s), NEW t \in Trips
  PROVE  Pending(t)' = Pending(t)
  <1>1. t # d
    OBVIOUS
  <1> QED BY <1>1 DEF Ping, Pending, TypeOK, EnvType, Keys

\* Reading takes the first one.
LEMMA PendingTail ==
  ASSUME TypeOK, NEW k \in Keys, topic[k] # <<>>, topic' = [topic EXCEPT ![k] = Tail(@)],
         UNCHANGED inFlight, NEW t \in Trips
  PROVE  /\ Pending(t)' \subseteq Pending(t)
         /\ t = k => Head(topic[k]) \in Pending(t)
  <1>1. topic[k] \in Seq(Events)
    BY DEF TypeOK, EnvType
  <1>2. CASE t = k
    <2>1. topic'[k] = Tail(topic[k])
      BY DEF TypeOK, EnvType
    <2>2. \A i \in DOMAIN topic'[k] : topic'[k][i] \in Pending(k)
      BY <1>1, <1>2, <2>1, TailRange DEF Pending
    <2>3. 1 \in DOMAIN topic[k] /\ Head(topic[k]) = topic[k][1]
      <3>1. Len(topic[k]) \in Nat /\ DOMAIN topic[k] = 1 .. Len(topic[k]) /\ Len(topic[k]) # 0
        BY <1>1, LenProperties, EmptySeq
      <3> QED BY <1>1, <3>1, HeadTailProperties
    <2> QED BY <1>2, <2>2, <2>3 DEF Pending
  <1>3. CASE t # k
    BY <1>3 DEF Pending, TypeOK, EnvType, Keys
  <1> QED BY <1>2, <1>3

\* A second ages them all.
LEMMA PendingTick ==
  ASSUME TypeOK, Tick, NEW t \in Trips, NEW e \in Pending(t)'
  PROVE  \E f \in Pending(t) : e = Aged(f)
  <1>1. t \in Keys
    BY DEF Keys
  <1>2. inFlight'[t] = {Aged(f) : f \in inFlight[t]}
    BY DEF Tick
  <1>3. topic'[t] = [i \in DOMAIN topic[t] |-> Aged(topic[t][i])]
    BY <1>1 DEF Tick
  <1> QED BY <1>2, <1>3 DEF Pending

-----------------------------------------------------------------------------
(* The counts and the last events.                                         *)

\* The entry and the last event leave the window together.
Agree(a, b) == (Within(a, 0) <=> Within(b, 0)) /\ (Within(a, 0) => a = b)

AgreeInv ==
    \A c \in Cells, k \in Keys :
        Agree(last[c][k], seen[c][k]) /\ (seen[c][k] # None => c \in held)

LEMMA AgreeOlder ==
  ASSUME NEW a \in Ages, NEW b \in Ages, Agree(a, b)
  PROVE  Agree(Older(a, Stale), Older(b, Stale))
  <1>1. ASSUME NEW x \in Ages, ~Within(x, 0) PROVE ~Within(Older(x, Stale), 0)
    BY <1>1, Bounds DEF Within, Older, Ages
  <1>2. CASE Within(a, 0)
    BY <1>2 DEF Agree
  <1>3. CASE ~Within(a, 0)
    BY <1>1, <1>3 DEF Agree
  <1> QED BY <1>2, <1>3

LEMMA AgreeInit == Init => AgreeInv
  BY DEF Init, AgreeInv, Agree, NoEntries, Keys

LEMMA AgreeNext ==
  ASSUME TypeOK, AgreeInv, [Next]_vars
  PROVE  AgreeInv'
  <1> USE DEF AgreeInv
  <1>1. ASSUME NEW k \in Keys, Consume(k) PROVE AgreeInv'
    <2> DEFINE e == Head(topic[k])
               new == IF e.state \in Counted THEN e.age ELSE None
    <2>1. e \in Events /\ e.cell \in Cells
      <3>1. e \in Events
        BY <1>1, TopicTail DEF Consume
      <3> QED BY <3>1 DEF Events
    <2>2. /\ held' = held \cup {e.cell}
          /\ seen' = [seen EXCEPT ![e.cell][k] = new]
          /\ last' = [last EXCEPT ![e.cell][k] = new]
      BY <1>1 DEF Consume, Record
    <2>3. seen \in [Cells -> [Keys -> Ages]] /\ last \in [Cells -> [Keys -> Ages]]
      BY DEF TypeOK, HistType
    <2> HIDE DEF e, new
    <2> SUFFICES ASSUME NEW c \in Cells, NEW j \in Keys
                 PROVE  Agree(last'[c][j], seen'[c][j]) /\ (seen'[c][j] # None => c \in held')
      BY DEF Agree
    <2>4. CASE c = e.cell /\ j = k
      BY <2>1, <2>2, <2>3, <2>4 DEF Agree
    <2>5. CASE ~(c = e.cell /\ j = k)
      BY <2>1, <2>2, <2>3, <2>5
    <2> QED BY <2>4, <2>5
  <1>2. CASE Prune
    <2> SUFFICES ASSUME NEW c \in Cells, NEW j \in Keys
                 PROVE  Agree(last'[c][j], seen'[c][j]) /\ (seen'[c][j] # None => c \in held')
      BY DEF Agree
    <2>1. seen'[c][j] = IF Within(seen[c][j], 0) THEN seen[c][j] ELSE None
      BY <1>2 DEF Prune
    <2>2. last' = last /\ held' = {x \in held : \E k \in Keys : seen'[x][k] # None}
      BY <1>2 DEF Prune, histVars
    <2>3. ~Within(None, 0)
      BY DEF Within
    <2>4. Agree(last[c][j], seen[c][j]) /\ (seen[c][j] # None => c \in held)
      OBVIOUS
    <2> QED BY <2>1, <2>2, <2>3, <2>4 DEF Agree
  <1>3. CASE Crash
    BY <1>3 DEF Crash, Agree, NoEntries
  <1>4. CASE Tick
    <2> SUFFICES ASSUME NEW c \in Cells, NEW j \in Keys
                 PROVE  Agree(last'[c][j], seen'[c][j]) /\ (seen'[c][j] # None => c \in held')
      BY DEF Agree
    <2>1. /\ seen'[c][j] = Older(seen[c][j], Stale) /\ last'[c][j] = Older(last[c][j], Stale)
          /\ held' = held
      BY <1>4 DEF Tick
    <2>2. seen[c][j] \in Ages /\ last[c][j] \in Ages
      BY DEF TypeOK, HistType
    <2>3. seen'[c][j] # None => seen[c][j] # None
      BY <2>1, <2>2, OlderAge, Bounds DEF Ages
    <2> QED BY <2>1, <2>2, <2>3, AgreeOlder
  <1>5. CASE UNCHANGED <<held, seen, last>>
    BY <1>5 DEF Agree
  <1> QED
    <2>1. CASE UNCHANGED vars
      BY <1>5, <2>1 DEF vars, aggVars, histVars
    <2>2. CASE Next
      BY <1>1, <1>2, <1>3, <1>4, <1>5, <2>2
         DEF Next, OfferTrip, EndTrip, Written, NotWritten, Ping, Lose, StartWrite, Quote, EndWrite,
             SetMultiplier, SetFor, SetFails, aggVars, histVars
    <2> QED BY <2>1, <2>2

\* The rolling counts of the aggregator are those of the last events it read.
THEOREM CountsCorrect == Spec => []CountsLastEvents
  <1>1. Init => AgreeInv
    BY AgreeInit
  <1>2. TypeOK /\ AgreeInv /\ [Next]_vars => AgreeInv'
    BY AgreeNext
  <1>3. AgreeInv => CountsLastEvents
    BY DEF AgreeInv, Agree, CountsLastEvents, LastCounted, Within
  <1> QED BY TypeCorrect, <1>1, <1>2, <1>3, PTL DEF Spec

-----------------------------------------------------------------------------
(* The age of what is counted.                                             *)

\* What an age of demand of trip t in cell c tells: the trip has not ended
\* before it, and an offer in the cell is as recent.
Fresh(t, c, age) ==
    /\ endedAge[t] # None => endedAge[t] <= age
    /\ age < Stale => offeredAge[c] \in 0 .. age

EndedInv == \A t \in Trips : endedAge[t] # None => trip[t].state = "ENDED"
PendingInv == \A t \in Trips : \A e \in Pending(t) : e.state \in Counted => Fresh(t, e.cell, e.age)
SeenInv == \A t \in Trips, c \in Cells : seen[c][t] # None => Fresh(t, c, seen[c][t])

AgeInv == EndedInv /\ PendingInv /\ SeenInv

LEMMA AgeInit == Init => AgeInv
  <1> SUFFICES ASSUME Init PROVE AgeInv
    OBVIOUS
  <1>1. EndedInv
    BY DEF Init, EndedInv
  <1>2. SeenInv
    BY DEF Init, SeenInv, NoEntries, Keys
  <1>3. ASSUME NEW t \in Trips PROVE Pending(t) = {}
    <2>1. inFlight[t] = {} /\ topic[t] = <<>>
      BY DEF Init, Keys
    <2>2. DOMAIN <<>> = {}
      OBVIOUS
    <2> QED BY <2>1, <2>2 DEF Pending
  <1> QED BY <1>1, <1>2, <1>3 DEF AgeInv, PendingInv

\* No step but a tick makes an age greater, or a new age other than zero.
LEMMA FreshSteps ==
  ASSUME TypeOK, NEW t \in Trips, NEW c \in Cells, NEW age \in 0 .. Stale, Fresh(t, c, age),
         endedAge'[t] \in {endedAge[t], 0}, offeredAge'[c] \in {offeredAge[c], 0}
  PROVE  Fresh(t, c, age)'
  BY Bounds DEF Fresh, TypeOK, HistType

LEMMA FreshTick ==
  ASSUME TypeOK, Tick, NEW t \in Trips, NEW c \in Cells, NEW age \in 0 .. Stale, Fresh(t, c, age)
  PROVE  /\ endedAge'[t] # None => endedAge'[t] <= Older(age, Stale)
         /\ Older(age, Stale) < Stale => offeredAge'[c] \in 0 .. Older(age, Stale)
  <1>1. endedAge'[t] = Older(endedAge[t], Window + 1) /\ offeredAge'[c] = Older(offeredAge[c], Forgotten)
    BY DEF Tick
  <1>2. endedAge[t] \in {None} \cup 0 .. Window + 1 /\ offeredAge[c] \in {None} \cup 0 .. Forgotten
    BY DEF TypeOK, HistType
  <1>3. Window + 1 <= Stale /\ Window \in Nat
    BY DEF Stale
  <1>4. Older(age, Stale) = IF age = Stale THEN age ELSE age + 1
    BY Bounds DEF Older
  <1>5. endedAge'[t] # None => endedAge'[t] <= Older(age, Stale)
    BY <1>1, <1>2, <1>3, <1>4, Bounds DEF Fresh, Older
  <1>6. Older(age, Stale) < Stale => offeredAge'[c] \in 0 .. Older(age, Stale)
    BY <1>1, <1>2, <1>4, Bounds DEF Fresh, Older
  <1> QED BY <1>5, <1>6

\* What an event of a trip tells once it is counted.
LEMMA PendingFresh ==
  ASSUME TypeOK, PendingInv, NEW t \in Trips, NEW e \in Pending(t), e.state \in Counted
  PROVE  e.cell \in Cells /\ e.age \in 0 .. Stale /\ Fresh(t, e.cell, e.age)
  <1>1. e \in Events
    BY PendingEvents
  <1> QED BY <1>1 DEF Events, PendingInv

LEMMA SeenFresh ==
  ASSUME TypeOK, SeenInv, NEW t \in Trips, NEW c \in Cells, seen[c][t] # None
  PROVE  seen[c][t] \in 0 .. Stale /\ Fresh(t, c, seen[c][t])
  BY DEF TypeOK, SeenInv, Keys, Ages

\* A step that adds no event of a trip, stamps nothing and makes no age greater.
LEMMA AgeKept ==
  ASSUME TypeOK, AgeInv,
         \A t \in Trips : Pending(t)' \subseteq Pending(t),
         \A t \in Trips, c \in Cells : seen'[c][t] \in {seen[c][t], None},
         UNCHANGED <<trip, endedAge, offeredAge>>
  PROVE  AgeInv'
  <1> USE DEF AgeInv
  <1>1. EndedInv'
    BY DEF EndedInv
  <1>2. PendingInv'
    <2> SUFFICES ASSUME NEW t \in Trips, NEW e \in Pending(t)', e.state \in Counted
                 PROVE  Fresh(t, e.cell, e.age)'
      BY DEF PendingInv
    <2>1. e.cell \in Cells /\ e.age \in 0 .. Stale /\ Fresh(t, e.cell, e.age)
      BY PendingFresh
    <2> QED BY <2>1, FreshSteps
  <1>3. SeenInv'
    <2> SUFFICES ASSUME NEW t \in Trips, NEW c \in Cells, seen'[c][t] # None
                 PROVE  Fresh(t, c, seen[c][t])'
      BY DEF SeenInv
    <2>1. seen'[c][t] = seen[c][t]
      OBVIOUS
    <2>2. seen[c][t] \in 0 .. Stale /\ Fresh(t, c, seen[c][t])
      BY <2>1, SeenFresh
    <2> QED BY <2>1, <2>2 DEF Fresh
  <1> QED BY <1>1, <1>2, <1>3

LEMMA AgeNext ==
  ASSUME TypeOK, AgeInv, [Next]_vars
  PROVE  AgeInv'
  <1> USE DEF AgeInv
  <1>1. ASSUME NEW u \in Trips, NEW a \in Cells, OfferTrip(u, a) PROVE AgeInv'
    <2> DEFINE new == Event("OFFERED", a)
    <2>1. trip[u].state = "REQUESTED" /\ endedAge' = endedAge /\ seen' = seen
      BY <1>1 DEF OfferTrip, aggVars
    <2>2. \A c \in Cells : offeredAge'[c] = IF c = a THEN 0 ELSE offeredAge[c]
      BY <1>1 DEF OfferTrip, TypeOK, HistType
    <2>3. endedAge[u] = None
      BY <2>1 DEF EndedInv
    <2>4. EndedInv'
      BY <1>1, <2>1, <2>3 DEF OfferTrip, EndedInv, TypeOK, EnvType
    <2>5. SeenInv'
      <3> SUFFICES ASSUME NEW t \in Trips, NEW c \in Cells, seen[c][t] # None
                   PROVE  Fresh(t, c, seen[c][t])'
        BY <2>1 DEF SeenInv, Fresh
      <3>1. seen[c][t] \in 0 .. Stale /\ Fresh(t, c, seen[c][t])
        BY SeenFresh
      <3> QED BY <2>1, <2>2, <3>1 DEF Fresh
    <2>6. PendingInv'
      <3> SUFFICES ASSUME NEW t \in Trips, NEW e \in Pending(t)', e.state \in Counted
                   PROVE  Fresh(t, e.cell, e.age)'
        BY DEF PendingInv
      <3>1. e \in Pending(t) \/ (t = u /\ e = new)
        BY <1>1, PendingPublish DEF OfferTrip
      <3>2. CASE e \in Pending(t)
        <4>1. e.cell \in Cells /\ e.age \in 0 .. Stale /\ Fresh(t, e.cell, e.age)
          BY <3>2, PendingFresh
        <4> QED BY <2>1, <2>2, <4>1, FreshSteps
      <3>3. CASE t = u /\ e = new
        <4>1. e.cell = a /\ e.age = 0
          BY <3>3 DEF Event
        <4> QED BY <2>1, <2>2, <2>3, <3>3, <4>1 DEF Fresh
      <3> QED BY <3>1, <3>2, <3>3
    <2> QED BY <2>4, <2>5, <2>6
  <1>2. ASSUME NEW u \in Trips, EndTrip(u) PROVE AgeInv'
    <2> DEFINE new == Event("ENDED", trip[u].cell)
    <2>1. offeredAge' = offeredAge /\ seen' = seen
      BY <1>2 DEF EndTrip, aggVars
    <2>2. \A t \in Trips : endedAge'[t] = IF t = u THEN 0 ELSE endedAge[t]
      BY <1>2 DEF EndTrip, TypeOK, HistType
    <2>3. EndedInv'
      BY <1>2, <2>2 DEF EndTrip, EndedInv, TypeOK, EnvType
    <2>4. SeenInv'
      <3> SUFFICES ASSUME NEW t \in Trips, NEW c \in Cells, seen[c][t] # None
                   PROVE  Fresh(t, c, seen[c][t])'
        BY <2>1 DEF SeenInv, Fresh
      <3>1. seen[c][t] \in 0 .. Stale /\ Fresh(t, c, seen[c][t])
        BY SeenFresh
      <3> QED BY <2>1, <2>2, <3>1 DEF Fresh
    <2>5. PendingInv'
      <3> SUFFICES ASSUME NEW t \in Trips, NEW e \in Pending(t)', e.state \in Counted
                   PROVE  Fresh(t, e.cell, e.age)'
        BY DEF PendingInv
      <3>1. e \in Pending(t) \/ (t = u /\ e = new)
        BY <1>2, PendingPublish DEF EndTrip
      <3>2. e \in Pending(t)
        BY <3>1 DEF Event, Counted
      <3>3. e.cell \in Cells /\ e.age \in 0 .. Stale /\ Fresh(t, e.cell, e.age)
        BY <3>2, PendingFresh
      <3> QED BY <2>1, <2>2, <3>3, FreshSteps
    <2> QED BY <2>3, <2>4, <2>5
  <1>3. ASSUME NEW u \in Trips, NEW e \in inFlight[u], Written(u, e) PROVE AgeInv'
    <2>1. \A t \in Trips : Pending(t)' \subseteq Pending(t)
      BY <1>3, PendingWritten
    <2> QED BY <1>3, <2>1, AgeKept DEF Written, aggVars, histVars
  <1>4. ASSUME NEW u \in Trips, NEW e \in inFlight[u], NotWritten(u, e) PROVE AgeInv'
    <2>1. \A t \in Trips : Pending(t)' \subseteq Pending(t)
      BY <1>4 DEF NotWritten, Pending, TypeOK, EnvType
    <2> QED BY <1>4, <2>1, AgeKept DEF NotWritten, aggVars, histVars
  <1>5. ASSUME NEW d \in Drivers, NEW c \in Cells, NEW s \in {"AVAILABLE", "BUSY"}, Ping(d, c, s) PROVE AgeInv'
    <2>1. \A t \in Trips : Pending(t)' \subseteq Pending(t)
      BY <1>5, PendingPing
    <2> QED BY <1>5, <2>1, AgeKept DEF Ping, aggVars, histVars
  <1>6. ASSUME NEW k \in Keys, Consume(k) PROVE AgeInv'
    <2> DEFINE e == Head(topic[k])
               new == IF e.state \in Counted THEN e.age ELSE None
    <2>1. e \in Events /\ e.cell \in Cells
      <3>1. e \in Events
        BY <1>6, TopicTail DEF Consume
      <3> QED BY <3>1 DEF Events
    <2>2. seen' = [seen EXCEPT ![e.cell][k] = new]
      BY <1>6 DEF Consume, Record
    <2>3. /\ \A t \in Trips : Pending(t)' \subseteq Pending(t)
          /\ k \in Trips => e \in Pending(k)
      BY <1>6, PendingTail DEF Consume
    <2>4. UNCHANGED <<trip, endedAge, offeredAge>>
      BY <1>6 DEF Consume
    <2> HIDE DEF e
    <2>5. EndedInv'
      BY <2>4 DEF EndedInv
    <2>6. PendingInv'
      <3> SUFFICES ASSUME NEW t \in Trips, NEW f \in Pending(t)', f.state \in Counted
                   PROVE  Fresh(t, f.cell, f.age)'
        BY DEF PendingInv
      <3>1. f.cell \in Cells /\ f.age \in 0 .. Stale /\ Fresh(t, f.cell, f.age)
        BY <2>3, PendingFresh
      <3> QED BY <2>4, <3>1, FreshSteps
    <2>7. SeenInv'
      <3> SUFFICES ASSUME NEW t \in Trips, NEW c \in Cells, seen'[c][t] # None
                   PROVE  Fresh(t, c, seen'[c][t])
        BY <2>4 DEF SeenInv, Fresh
      <3>1. CASE c = e.cell /\ t = k
        <4>1. seen'[c][t] = new
          BY <2>1, <2>2, <3>1 DEF TypeOK
        <4>2. e.state \in Counted
          BY <4>1
        <4> QED BY <2>3, <3>1, <4>1, <4>2, PendingFresh
      <3>2. CASE ~(c = e.cell /\ t = k)
        <4>1. seen'[c][t] = seen[c][t]
          BY <2>1, <2>2, <3>2 DEF TypeOK, Keys
        <4> QED BY <4>1, SeenFresh
      <3> QED BY <3>1, <3>2
    <2> QED BY <2>5, <2>6, <2>7
  <1>7. ASSUME NEW k \in Keys, Lose(k) PROVE AgeInv'
    <2>1. \A t \in Trips : Pending(t)' \subseteq Pending(t)
      BY <1>7, PendingTail DEF Lose
    <2> QED BY <1>7, <2>1, AgeKept DEF Lose, aggVars, histVars
  <1>8. CASE Prune
    <2>1. \A t \in Trips : Pending(t)' \subseteq Pending(t)
      BY <1>8 DEF Prune, envVars, Pending
    <2>2. \A t \in Trips, c \in Cells : seen'[c][t] \in {seen[c][t], None}
      BY <1>8 DEF Prune, Keys
    <2> QED BY <1>8, <2>1, <2>2, AgeKept DEF Prune, envVars, histVars
  <1>9. CASE Crash
    <2>1. \A t \in Trips : Pending(t)' \subseteq Pending(t)
      BY <1>9 DEF Crash, envVars, Pending
    <2>2. \A t \in Trips, c \in Cells : seen'[c][t] = None
      BY <1>9 DEF Crash, NoEntries, Keys
    <2> QED BY <1>9, <2>1, <2>2, AgeKept DEF Crash, envVars
  <1>10. CASE Tick
    <2>1. EndedInv'
      <3> SUFFICES ASSUME NEW t \in Trips, endedAge'[t] # None PROVE trip'[t].state = "ENDED"
        BY DEF EndedInv
      <3>1. endedAge'[t] = Older(endedAge[t], Window + 1) /\ trip' = trip
        BY <1>10 DEF Tick
      <3>2. endedAge[t] # None
        BY <3>1 DEF Older
      <3> QED BY <3>1, <3>2 DEF EndedInv
    <2>2. PendingInv'
      <3> SUFFICES ASSUME NEW t \in Trips, NEW e \in Pending(t)', e.state \in Counted
                   PROVE  Fresh(t, e.cell, e.age)'
        BY DEF PendingInv
      <3>1. PICK f \in Pending(t) : e = Aged(f)
        BY <1>10, PendingTick
      <3>2. f \in Events
        BY PendingEvents
      <3>3. e.cell = f.cell /\ e.state = f.state
        BY <3>1, <3>2, AgedEvent
      <3>4. f.cell \in Cells /\ f.age \in 0 .. Stale /\ Fresh(t, f.cell, f.age)
        BY <3>3, PendingFresh
      <3>5. e.age = Older(f.age, Stale)
        BY <3>1, <3>2, <3>3, <3>4, AgedEvent, Bounds DEF Older
      <3> QED BY <1>10, <3>3, <3>4, <3>5, FreshTick DEF Fresh
    <2>3. SeenInv'
      <3> SUFFICES ASSUME NEW t \in Trips, NEW c \in Cells, seen'[c][t] # None
                   PROVE  Fresh(t, c, seen[c][t])'
        BY DEF SeenInv
      <3>1. seen'[c][t] = Older(seen[c][t], Stale)
        BY <1>10 DEF Tick, Keys
      <3>2. seen[c][t] # None
        BY <3>1 DEF Older
      <3>3. seen[c][t] \in 0 .. Stale /\ Fresh(t, c, seen[c][t])
        BY <3>2, SeenFresh
      <3> QED BY <1>10, <3>1, <3>3, FreshTick DEF Fresh
    <2> QED BY <2>1, <2>2, <2>3
  <1>11. CASE UNCHANGED <<envVars, aggVars, offeredAge, endedAge>>
    <2>1. \A t \in Trips : Pending(t)' \subseteq Pending(t)
      BY <1>11 DEF envVars, Pending
    <2> QED BY <1>11, <2>1, AgeKept DEF envVars, aggVars
  <1> QED
    <2>1. CASE UNCHANGED vars
      BY <1>11, <2>1 DEF vars, histVars
    <2>2. CASE Next
      BY <1>1, <1>2, <1>3, <1>4, <1>5, <1>6, <1>7, <1>8, <1>9, <1>10, <1>11, <2>2
         DEF Next, StartWrite, Quote, EndWrite, SetMultiplier, SetFor, SetFails, histVars
    <2> QED BY <2>1, <2>2

\* Demand of a trip that ended leaves the counts within a window, whichever of
\* its events were lost or came in the wrong order.
THEOREM EndedForgotten == Spec => []EndedTripForgotten
  <1>1. TypeOK /\ AgeInv => EndedTripForgotten
    BY Bounds DEF TypeOK, HistType, AgeInv, SeenInv, Fresh, EndedTripForgotten, Within, Keys, Ages
  <1>2. TypeOK /\ AgeInv /\ [Next]_vars => AgeInv'
    BY AgeNext
  <1> QED BY TypeCorrect, AgeInit, <1>1, <1>2, PTL DEF Spec

-----------------------------------------------------------------------------
(* The writer and the prices.                                              *)

\* A multiplier above the baseline is on its way only in a pass of the writer,
\* and goes back to an offer in the window before that pass.
QuoteInv ==
    \A q \in quote : q.mult # Baseline =>
        writing /\ offeredAge[q.cell] \in 0 .. Window + now

\* The seconds a price has lived come on top.
PriceInv ==
    \A c \in Cells : price[c].mult # Baseline =>
        price[c].left >= 1 /\ offeredAge[c] \in 0 .. Forgotten - price[c].left

RecentInv == QuoteInv /\ PriceInv

LEMMA RecentInit == Init => RecentInv
  BY DEF Init, RecentInv, QuoteInv, PriceInv

\* An offer in the cell only makes its age smaller.
LEMMA OfferedRecent ==
  ASSUME TypeOK, RecentInv, UNCHANGED <<quote, price, writing, now>>,
         \A c \in Cells : offeredAge'[c] \in {offeredAge[c], 0}
  PROVE  RecentInv'
  <1>1. QuoteInv'
    <2> SUFFICES ASSUME NEW q \in quote, q.mult # Baseline
                 PROVE  writing /\ offeredAge'[q.cell] \in 0 .. Window + now
      BY DEF QuoteInv
    <2>1. q.cell \in Cells /\ now \in Nat
      BY Bounds DEF TypeOK, WriterType
    <2> QED BY <2>1 DEF RecentInv, QuoteInv
  <1>2. PriceInv'
    <2> SUFFICES ASSUME NEW c \in Cells, price[c].mult # Baseline
                 PROVE  price[c].left >= 1 /\ offeredAge'[c] \in 0 .. Forgotten - price[c].left
      BY DEF PriceInv
    <2>1. price[c].left \in 0 .. SurgeTTL /\ SurgeTTL <= Forgotten
      BY Bounds DEF TypeOK, Forgotten
    <2> QED BY <2>1, Bounds DEF RecentInv, PriceInv
  <1> QED BY <1>1, <1>2 DEF RecentInv

LEMMA RecentNext ==
  ASSUME TypeOK, AgeInv, RecentInv, [Next]_vars
  PROVE  RecentInv'
  <1>1. ASSUME NEW t \in Trips, NEW c \in Cells, OfferTrip(t, c) PROVE RecentInv'
    <2>1. \A d \in Cells : offeredAge'[d] \in {offeredAge[d], 0}
      BY <1>1 DEF OfferTrip, TypeOK, HistType
    <2> QED BY <1>1, <2>1, OfferedRecent DEF OfferTrip, writerVars
  <1>2. CASE StartWrite
    <2>1. ~writing /\ quote' = quote /\ price' = price /\ offeredAge' = offeredAge
      BY <1>2 DEF StartWrite, histVars
    <2> QED BY <2>1 DEF RecentInv, QuoteInv, PriceInv
  <1>3. ASSUME NEW c \in Cells, Quote(c) PROVE RecentInv'
    <2>1. PriceInv'
      BY <1>3 DEF Quote, RecentInv, PriceInv, histVars
    <2>2. QuoteInv'
      <3> DEFINE m == MultiplierOf(c, now)
      <3>1. /\ quote' = {[cell |-> c, mult |-> m]} /\ writing /\ writing' = writing
            /\ now' = now /\ offeredAge' = offeredAge
        BY <1>3 DEF Quote, histVars
      <3>2. ASSUME m # Baseline PROVE offeredAge[c] \in 0 .. Window + now
        <4>1. PICK t \in Trips : Within(seen[c][t], now)
          BY <3>2, MultiplierOfIn
        <4>2. seen[c][t] \in 0 .. Stale /\ Fresh(t, c, seen[c][t])
          BY <4>1, SeenFresh DEF Within, AgeInv
        <4>3. seen[c][t] <= Window + now /\ now \in 0 .. MaxLag
          BY <4>1, <4>2 DEF Within, TypeOK, WriterType
        <4> QED BY <4>2, <4>3, Bounds DEF Fresh, Stale, TypeOK, HistType
      <3> HIDE DEF m
      <3> QED BY <3>1, <3>2 DEF QuoteInv
    <2> QED BY <2>1, <2>2 DEF RecentInv
  <1>4. CASE EndWrite
    BY <1>4 DEF EndWrite, RecentInv, QuoteInv, PriceInv, histVars
  <1>5. ASSUME NEW q \in quote, SetMultiplier(q) PROVE RecentInv'
    <2>1. q.cell \in Cells /\ q.mult \in Multipliers /\ now \in 0 .. MaxLag
      BY DEF TypeOK, WriterType
    <2>2. QuoteInv'
      BY <1>5 DEF SetMultiplier, SetFor, QuoteInv
    <2>3. PriceInv'
      <3> SUFFICES ASSUME NEW c \in Cells, price'[c].mult # Baseline
                   PROVE  price'[c].left >= 1 /\ offeredAge[c] \in 0 .. Forgotten - price'[c].left
        BY <1>5 DEF PriceInv, SetMultiplier, SetFor, histVars
      <3>1. CASE c = q.cell
        <4>1. price'[c] = [mult |-> q.mult, left |-> IF q.mult = Baseline THEN 0 ELSE SurgeTTL]
          BY <1>5, <2>1, <3>1 DEF SetMultiplier, SetFor, TypeOK
        <4>2. q.mult # Baseline /\ price'[c].left = SurgeTTL
          BY <4>1
        <4>3. offeredAge[c] \in 0 .. Window + now
          BY <3>1, <4>2 DEF RecentInv, QuoteInv
        <4> QED BY <2>1, <4>2, <4>3, Bounds DEF Forgotten
      <3>2. CASE c # q.cell
        <4>1. price'[c] = price[c]
          BY <1>5, <2>1, <3>2 DEF SetMultiplier, SetFor, TypeOK
        <4> QED BY <4>1 DEF RecentInv, PriceInv
      <3> QED BY <3>1, <3>2
    <2> QED BY <2>2, <2>3 DEF RecentInv
  <1>6. ASSUME NEW q \in quote, SetFails(q) PROVE RecentInv'
    BY <1>6 DEF SetFails, RecentInv, QuoteInv, PriceInv
  <1>7. CASE Crash
    BY <1>7 DEF Crash, RecentInv, QuoteInv, PriceInv
  <1>8. CASE Tick
    <2>1. \A c \in Cells : offeredAge'[c] = Older(offeredAge[c], Forgotten)
      BY <1>8 DEF Tick
    <2>2. QuoteInv'
      <3> SUFFICES ASSUME NEW q \in quote, q.mult # Baseline
                   PROVE  writing' /\ offeredAge'[q.cell] \in 0 .. Window + now'
        BY <1>8 DEF QuoteInv, Tick
      <3>1. writing /\ offeredAge[q.cell] \in 0 .. Window + now /\ q.cell \in Cells /\ now \in Nat
        BY Bounds DEF RecentInv, QuoteInv, TypeOK, WriterType
      <3>2. writing' = writing /\ now' = now + 1
        BY <1>8, <3>1 DEF Tick
      <3> QED BY <2>1, <3>1, <3>2, Bounds DEF Older
    <2>3. PriceInv'
      <3> SUFFICES ASSUME NEW c \in Cells, price'[c].mult # Baseline
                   PROVE  price'[c].left >= 1 /\ offeredAge'[c] \in 0 .. Forgotten - price'[c].left
        BY DEF PriceInv
      <3>1. price'[c] = IF price[c].left > 1 THEN [mult |-> price[c].mult, left |-> price[c].left - 1]
                                             ELSE [mult |-> Baseline, left |-> 0]
        BY <1>8 DEF Tick
      <3>2. price[c].left > 1 /\ price'[c].mult = price[c].mult /\ price'[c].left = price[c].left - 1
        <4>1. CASE price[c].left > 1
          BY <3>1, <4>1
        <4>2. CASE ~(price[c].left > 1)
          BY <3>1, <4>2
        <4> QED BY <4>1, <4>2
      <3>3. price[c].left \in 0 .. SurgeTTL /\ offeredAge[c] \in 0 .. Forgotten - price[c].left
        BY <3>2 DEF RecentInv, PriceInv, TypeOK
      <3> QED BY <2>1, <3>2, <3>3, Bounds DEF Older
    <2> QED BY <2>2, <2>3 DEF RecentInv
  <1>9. CASE UNCHANGED <<writing, now, quote, price, offeredAge>>
    BY <1>9 DEF RecentInv, QuoteInv, PriceInv
  <1> QED
    <2>1. CASE UNCHANGED vars
      BY <1>9, <2>1 DEF vars, writerVars, histVars
    <2>2. CASE Next
      BY <1>1, <1>2, <1>3, <1>4, <1>5, <1>6, <1>7, <1>8, <1>9, <2>2
         DEF Next, EndTrip, Written, NotWritten, Ping, Consume, Lose, Prune, writerVars, histVars
    <2> QED BY <2>1, <2>2

\* A surged price is never older than the window, the writer's lag and its own
\* time to live, whatever crashed or failed since.
THEOREM SurgeRecent == Spec => []SurgeIsRecent
  <1>1. TypeOK /\ RecentInv => SurgeIsRecent
    <2> SUFFICES ASSUME TypeOK, RecentInv, NEW c \in Cells, price[c].mult # Baseline
                 PROVE  offeredAge[c] \in 0 .. (Window + MaxLag + SurgeTTL) - 1
      BY DEF SurgeIsRecent
    <2>1. price[c].left >= 1 /\ price[c].left \in 0 .. SurgeTTL
          /\ offeredAge[c] \in 0 .. Forgotten - price[c].left
      BY DEF RecentInv, PriceInv, TypeOK
    <2> QED BY <2>1 DEF Forgotten
  <1>2. TypeOK /\ AgeInv /\ [Next]_vars => AgeInv'
    BY AgeNext
  <1>3. TypeOK /\ AgeInv /\ RecentInv /\ [Next]_vars => RecentInv'
    BY RecentNext
  <1> QED BY TypeCorrect, AgeInit, RecentInit, <1>1, <1>2, <1>3, PTL DEF Spec

-----------------------------------------------------------------------------
(* A cell under pressure has its price: the ticker, the passes of the      *)
(* writer and the pressure are told apart by how long ago the ticker fired *)
(* for the pass that last wrote the cell.                                  *)

\* The pruned maps hold nothing but last events.
SeenIsLast == \A c \in Cells, k \in Keys : seen[c][k] # None => seen[c][k] = last[c][k]

\* A pass starts in the second the ticker fires and is over by the next.
TimerInv ==
    /\ due => phase = WriteEvery
    /\ writing => now = IF due THEN WriteEvery ELSE WriteEvery - phase

PressedInv == \A c \in Cells : pressing[c] > 0 => Pressed(c)

\* A cell that the pass under way has not written yet.
Undone(c) == c \in todo \/ \E q \in quote : q.cell = c

\* Seconds since the ticker fired for the last pass that is done with a cell.
Since(c) ==
    IF writing THEN IF Undone(c) THEN WriteEvery + now ELSE now
    ELSE IF due THEN WriteEvery ELSE WriteEvery - phase

\* A pass has one cell's price in hand at a time, and what is about to be
\* written for a cell that was under pressure when the pass began is a surge.
QuotedInv ==
    /\ \A q, r \in quote : q = r
    /\ quote # {} => writing
    /\ \A q \in quote : pressing[q.cell] > now => q.mult # Baseline

\* What was written for a cell that was under pressure then is still there.
PricedInv ==
    \A c \in Cells : pressing[c] > Since(c) =>
        price[c].mult # Baseline /\ price[c].left + Since(c) >= SurgeTTL

PressureInv == SeenIsLast /\ TimerInv /\ PressedInv /\ QuotedInv /\ PricedInv

\* Ratio and Multiplier: a cell under pressure is quoted above the baseline at
\* any `now` of a pass.
LEMMA PressedQuote ==
  ASSUME TypeOK, AgreeInv, SeenIsLast, NEW c \in Cells, Pressed(c)
  PROVE  c \in held /\ MultiplierOf(c, now) # Baseline
  <1> DEFINE open0 == LastCounted(c, Trips, 0)
             cars0 == LastCounted(c, Drivers, MaxLag)
             open == {k \in Trips : Within(seen[c][k], now)}
             cars == {k \in Drivers : Within(seen[c][k], now)}
  <1>1. \A k \in Keys : seen[c][k] \in Ages /\ last[c][k] \in Ages
    BY DEF TypeOK, HistType
  <1>2. now \in 0 .. MaxLag
    BY DEF TypeOK, WriterType
  <1>3. open0 \subseteq open
    <2> SUFFICES ASSUME NEW k \in Trips, Within(last[c][k], 0) PROVE Within(seen[c][k], now)
      BY DEF LastCounted
    <2>1. k \in Keys
      BY DEF Keys
    <2>2. last[c][k] = seen[c][k] /\ Within(seen[c][k], 0)
      BY <2>1 DEF AgreeInv, Agree
    <2> QED BY <1>1, <1>2, <2>1, <2>2, Bounds DEF Within, Ages
  <1>4. cars \subseteq cars0
    <2> SUFFICES ASSUME NEW k \in Drivers, Within(seen[c][k], now) PROVE Within(last[c][k], MaxLag)
      BY DEF LastCounted
    <2>1. k \in Keys
      BY DEF Keys
    <2>2. last[c][k] = seen[c][k]
      BY <2>1 DEF SeenIsLast, Within
    <2> QED BY <1>1, <1>2, <2>1, <2>2, Bounds DEF Within, Ages
  <1>5. IsFiniteSet(open) /\ IsFiniteSet(cars0)
    <2>1. open \subseteq Trips /\ cars0 \subseteq Drivers
      BY DEF LastCounted
    <2> HIDE DEF open, cars0
    <2> QED BY <2>1, KeysFinite, FS_Subset
  <1>6. c \in held
    <2>1. open0 # {}
      <3>1. Cardinality({}) = 0
        BY FS_EmptySet
      <3> QED BY <3>1 DEF Pressed
    <2>2. PICK k \in Trips : Within(last[c][k], 0)
      BY <2>1 DEF LastCounted
    <2>3. k \in Keys /\ seen[c][k] # None
      BY <2>2 DEF Keys, AgreeInv, Agree, Within
    <2> QED BY <2>3 DEF AgreeInv
  <1>7. /\ Cardinality(open0) > 0
        /\ 2 * Cardinality(open0) >= 3 * Cardinality(cars0)
    BY DEF Pressed
  <1>8. MultiplierOf(c, now) = Multiplier(Cardinality(open), Cardinality(cars))
    BY <1>6 DEF MultiplierOf, CountWithin
  <1> HIDE DEF open0, cars0, open, cars
  <1>9. /\ Cardinality(open) \in Nat /\ Cardinality(cars) \in Nat
        /\ Cardinality(open0) \in Nat /\ Cardinality(cars0) \in Nat
        /\ Cardinality(open0) <= Cardinality(open) /\ Cardinality(cars) <= Cardinality(cars0)
    BY <1>3, <1>4, <1>5, FS_Subset, FS_CardinalityType
  <1> DEFINE n == Cardinality(open)
             m == Cardinality(cars)
             S == {s.mult : s \in Reached(n, m)}
  <1>10. n > 0 /\ 2 * n >= 3 * m /\ n \in Nat /\ m \in Nat
    BY <1>7, <1>9
  <1> HIDE DEF n, m
  <1>11. 120 \in S
    <2>1. [num |-> 3, den |-> 2, mult |-> 120] \in Reached(n, m)
      BY <1>10 DEF Reached, Steps
    <2> QED BY <2>1
  <1>12. S \subseteq Multipliers
    BY DEF Reached, Multipliers
  <1>13. Multiplier(n, m) = Max(S)
    BY DEF Multiplier
  <1> HIDE DEF S
  <1>14. Max(S) >= 120 /\ Max(S) \in S
    BY <1>11, <1>12, LargestIn, Mults
  <1>15. MultiplierOf(c, now) # Baseline
    BY <1>8, <1>12, <1>13, <1>14, Mults DEF Baseline, n, m
  <1> QED BY <1>6, <1>15

LEMMA SeenLastNext ==
  ASSUME TypeOK, SeenIsLast, [Next]_vars
  PROVE  SeenIsLast'
  <1> USE DEF SeenIsLast
  <1>1. ASSUME NEW k \in Keys, Consume(k) PROVE SeenIsLast'
    <2> DEFINE e == Head(topic[k])
               new == IF e.state \in Counted THEN e.age ELSE None
    <2>1. e \in Events /\ e.cell \in Cells
      <3>1. e \in Events
        BY <1>1, TopicTail DEF Consume
      <3> QED BY <3>1 DEF Events
    <2>2. seen' = [seen EXCEPT ![e.cell][k] = new] /\ last' = [last EXCEPT ![e.cell][k] = new]
      BY <1>1 DEF Consume, Record
    <2>3. seen \in [Cells -> [Keys -> Ages]] /\ last \in [Cells -> [Keys -> Ages]]
      BY DEF TypeOK, HistType
    <2> HIDE DEF e, new
    <2> SUFFICES ASSUME NEW c \in Cells, NEW j \in Keys, seen'[c][j] # None
                 PROVE  seen'[c][j] = last'[c][j]
      OBVIOUS
    <2>4. CASE c = e.cell /\ j = k
      BY <2>1, <2>2, <2>3, <2>4
    <2>5. CASE ~(c = e.cell /\ j = k)
      BY <2>1, <2>2, <2>3, <2>5
    <2> QED BY <2>4, <2>5
  <1>2. CASE Prune
    BY <1>2 DEF Prune, histVars
  <1>3. CASE Crash
    BY <1>3 DEF Crash, NoEntries
  <1>4. CASE Tick
    <2> SUFFICES ASSUME NEW c \in Cells, NEW j \in Keys, seen'[c][j] # None
                 PROVE  seen'[c][j] = last'[c][j]
      OBVIOUS
    <2>1. seen'[c][j] = Older(seen[c][j], Stale) /\ last'[c][j] = Older(last[c][j], Stale)
      BY <1>4 DEF Tick
    <2>2. seen[c][j] # None
      BY <2>1 DEF Older
    <2> QED BY <2>1, <2>2
  <1>5. CASE UNCHANGED <<seen, last>>
    BY <1>5
  <1> QED
    <2>1. CASE UNCHANGED vars
      BY <1>5, <2>1 DEF vars, aggVars, histVars
    <2>2. CASE Next
      BY <1>1, <1>2, <1>3, <1>4, <1>5, <2>2
         DEF Next, OfferTrip, EndTrip, Written, NotWritten, Ping, Lose, StartWrite, Quote, EndWrite,
             SetMultiplier, SetFor, SetFails, aggVars, histVars
    <2> QED BY <2>1, <2>2

LEMMA TimerNext ==
  ASSUME TypeOK, TimerInv, [Next]_vars
  PROVE  TimerInv'
  <1> USE DEF TimerInv
  <1>0. /\ phase \in 1 .. WriteEvery /\ now \in 0 .. MaxLag /\ MaxLag \in 0 .. WriteEvery
        /\ WriteEvery \in Nat
    BY DEF TypeOK, WriterType
  <1>1. CASE StartWrite
    BY <1>0, <1>1 DEF StartWrite
  <1>2. CASE EndWrite
    BY <1>2 DEF EndWrite
  <1>3. CASE Crash
    BY <1>3 DEF Crash
  <1>4. CASE Tick
    <2>1. /\ now' = IF writing THEN now + 1 ELSE 0
          /\ phase' = IF phase = 1 THEN WriteEvery ELSE phase - 1
          /\ due' = (due \/ phase = 1) /\ writing' = writing
          /\ ~(due /\ ~writing) /\ (writing => now < MaxLag)
      BY <1>4 DEF Tick
    <2>2. ~due
      BY <1>0, <2>1
    <2>3. due' <=> phase = 1
      BY <2>1, <2>2
    <2>4. phase' = IF due' THEN WriteEvery ELSE phase - 1
      BY <2>1, <2>3
    <2>5. ASSUME writing' PROVE now' = IF due' THEN WriteEvery ELSE WriteEvery - phase'
      <3>1. writing
        BY <2>1, <2>5
      <3>2. now = WriteEvery - phase /\ now < MaxLag /\ now' = now + 1
        BY <2>1, <2>2, <3>1
      <3>3. CASE phase = 1
        BY <1>0, <2>3, <3>2, <3>3
      <3>4. CASE phase # 1
        BY <1>0, <2>3, <2>4, <3>2, <3>4
      <3> QED BY <3>3, <3>4
    <2> QED BY <2>4, <2>5
  <1>5. CASE UNCHANGED <<writing, now, phase, due>>
    BY <1>5
  <1> QED
    <2>1. CASE UNCHANGED vars
      BY <1>5, <2>1 DEF vars, writerVars
    <2>2. CASE Next
      BY <1>1, <1>2, <1>3, <1>4, <1>5, <2>2
         DEF Next, OfferTrip, EndTrip, Written, NotWritten, Ping, Consume, Lose, Prune, Quote,
             SetMultiplier, SetFor, SetFails, writerVars
    <2> QED BY <2>1, <2>2

\* What a step does to the pressure of the cells.
LEMMA PressureSteps ==
  ASSUME TypeOK, PressedInv, [Next]_vars, NEW c \in Cells
  PROVE  /\ pressing'[c] > 0 => Pressed(c)'
         /\ pressing'[c] <= pressing[c] \/ (Tick /\ pressing'[c] <= pressing[c] + 1)
  <1> DEFINE Goal == /\ pressing'[c] > 0 => Pressed(c)'
                     /\ pressing'[c] <= pressing[c] \/ (Tick /\ pressing'[c] <= pressing[c] + 1)
  <1> SUFFICES Goal
    OBVIOUS
  <1>0. pressing \in [Cells -> 0 .. Overdue] /\ pressing[c] \in Nat /\ (pressing[c] > 0 => Pressed(c))
    BY Bounds DEF TypeOK, HistType, PressedInv
  <1>1. ASSUME NEW k \in Keys, Consume(k) PROVE Goal
    <2>1. pressing'[c] = IF Pressed(c)' THEN pressing[c] ELSE 0
      BY <1>1 DEF Consume, PressingFrom
    <2> QED BY <1>0, <2>1
  <1>2. CASE Tick
    <2>1. pressing'[c] = IF Pressed(c)' THEN (IF Pressed(c) THEN Older(pressing[c], Overdue) ELSE 0) ELSE 0
      BY <1>2 DEF Tick, PressingFrom
    <2>2. Older(pressing[c], Overdue) <= pressing[c] + 1
      BY <1>0 DEF Older
    <2>3. pressing'[c] <= pressing[c] + 1
      BY <1>0, <2>1, <2>2
    <2> QED BY <1>2, <2>1, <2>3
  <1>3. CASE Crash
    BY <1>0, <1>3 DEF Crash
  <1>4. CASE UNCHANGED last /\ pressing'[c] \in {0, pressing[c]}
    <2>1. Pressed(c)' <=> Pressed(c)
      BY <1>4 DEF Pressed, LastCounted
    <2> QED BY <1>0, <1>4, <2>1
  <1>5. ASSUME NEW q \in quote, SetFails(q) PROVE UNCHANGED last /\ pressing'[c] \in {0, pressing[c]}
    BY <1>0, <1>5 DEF SetFails
  <1>6. ASSUME UNCHANGED <<last, pressing>> PROVE Goal
    BY <1>4, <1>6
  <1> QED
    <2>1. CASE UNCHANGED vars
      BY <1>6, <2>1 DEF vars, histVars
    <2>2. CASE Next
      BY <1>1, <1>2, <1>3, <1>4, <1>5, <1>6, <2>2
         DEF Next, OfferTrip, EndTrip, Written, NotWritten, Ping, Lose, Prune, StartWrite, Quote,
             EndWrite, SetMultiplier, SetFor, histVars
    <2> QED BY <2>1, <2>2

\* The writer's steps are those that change its variables or the prices; the
\* others only ease the pressure.
Idle == UNCHANGED <<writing, now, todo, quote, phase, due, price>>

LEMMA WriterSteps ==
  ASSUME [Next]_vars
  PROVE  \/ Idle \/ StartWrite \/ (\E c \in Cells : Quote(c)) \/ EndWrite
         \/ (\E q \in quote : SetMultiplier(q) \/ SetFails(q)) \/ Crash \/ Tick
  BY DEF Idle, Next, OfferTrip, EndTrip, Written, NotWritten, Ping, Consume, Lose, Prune, vars, writerVars

LEMMA QuotedNext ==
  ASSUME TypeOK, TypeOK', AgreeInv, SeenIsLast, PressedInv, QuotedInv, [Next]_vars
  PROVE  QuotedInv'
  <1> USE DEF QuotedInv
  <1>0. /\ now \in Nat /\ \A q \in quote : q.cell \in Cells /\ pressing[q.cell] \in Nat
    BY Bounds DEF TypeOK, WriterType, HistType
  <1>a. \A c \in Cells : /\ pressing'[c] <= pressing[c] \/ (Tick /\ pressing'[c] <= pressing[c] + 1)
                         /\ pressing'[c] \in Nat /\ pressing[c] \in Nat
    <2>1. \A c \in Cells : pressing'[c] \in Nat /\ pressing[c] \in Nat
      BY Bounds DEF TypeOK, HistType
    <2> QED BY <2>1, PressureSteps
  <1>1. CASE quote' = {}
    BY <1>1
  <1>2. ASSUME NEW c \in Cells, Quote(c) PROVE QuotedInv'
    <2> DEFINE m == MultiplierOf(c, now)
    <2>1. quote' = {[cell |-> c, mult |-> m]} /\ now' = now /\ pressing' = pressing /\ writing'
      BY <1>2 DEF Quote, histVars
    <2>2. ASSUME pressing[c] > now PROVE m # Baseline
      <3>1. Pressed(c)
        BY <1>0, <1>a, <2>2 DEF PressedInv
      <3> QED BY <3>1, PressedQuote
    <2> HIDE DEF m
    <2> QED BY <2>1, <2>2
  <1>3. CASE Tick
    <2>1. CASE quote = {}
      BY <1>3, <2>1 DEF Tick
    <2>2. CASE quote # {}
      <3>1. now' = now + 1 /\ writing' /\ quote' = quote
        BY <1>3, <2>2 DEF Tick
      <3>2. ASSUME NEW q \in quote, pressing'[q.cell] > now' PROVE q.mult # Baseline
        BY <1>0, <1>a, <3>1, <3>2
      <3> QED BY <3>1, <3>2
    <2> QED BY <2>1, <2>2
  <1>4. CASE Idle
    <2>1. UNCHANGED <<quote, now, writing>>
      BY <1>4 DEF Idle
    <2>2. CASE Tick
      BY <1>3, <2>2
    <2>3. CASE ~Tick
      <3>1. ASSUME NEW q \in quote, pressing'[q.cell] > now PROVE q.mult # Baseline
        BY <1>0, <1>a, <2>3, <3>1
      <3> QED BY <2>1, <3>1
    <2> QED BY <2>2, <2>3
  <1>5. CASE StartWrite \/ EndWrite \/ Crash \/ \E q \in quote : SetMultiplier(q) \/ SetFails(q)
    <2>1. quote' = {}
      BY <1>5 DEF StartWrite, EndWrite, Crash, SetMultiplier, SetFor, SetFails
    <2> QED BY <1>1, <2>1
  <1> QED BY <1>2, <1>3, <1>4, <1>5, WriterSteps

\* The expiry (ten minutes) outlives the ticker's period (five seconds) and a
\* pass of the writer.
Refreshed == SurgeTTL > WriteEvery + MaxLag

\* A pass is never further behind than its ticker and its own length.
LEMMA SinceRange ==
  ASSUME TypeOK, NEW c \in Cells
  PROVE  Since(c) \in 0 .. WriteEvery + MaxLag
  <1>1. phase \in 1 .. WriteEvery /\ now \in 0 .. MaxLag
    BY DEF TypeOK, WriterType
  <1> QED BY <1>1, Bounds DEF Since

LEMMA PricedNext ==
  ASSUME Refreshed, TypeOK, TypeOK', AgreeInv, SeenIsLast, TimerInv, PressedInv, QuotedInv, PricedInv,
         [Next]_vars
  PROVE  PricedInv'
  <1> DEFINE Priced(c) == price[c].mult # Baseline /\ price[c].left + Since(c) >= SurgeTTL
  <1> SUFFICES ASSUME NEW c \in Cells, pressing'[c] > Since(c)' PROVE Priced(c)'
    BY DEF PricedInv
  <1>0. /\ pressing[c] \in 0 .. Overdue /\ pressing'[c] \in 0 .. Overdue
        /\ Since(c) \in 0 .. WriteEvery + MaxLag /\ Since(c)' \in 0 .. WriteEvery + MaxLag
        /\ now \in 0 .. MaxLag /\ phase \in 1 .. WriteEvery
        /\ price[c].left \in 0 .. SurgeTTL
    <2>1. pressing[c] \in 0 .. Overdue /\ pressing'[c] \in 0 .. Overdue
      BY DEF TypeOK, HistType
    <2>2. Since(c)' \in 0 .. WriteEvery + MaxLag
      <3>1. phase' \in 1 .. WriteEvery /\ now' \in 0 .. MaxLag
        BY DEF TypeOK, WriterType
      <3>2. Since(c)' \in {WriteEvery + now', now', WriteEvery, WriteEvery - phase'}
        BY DEF Since
      <3> QED BY <3>1, <3>2, Bounds
    <2>3. now \in 0 .. MaxLag /\ phase \in 1 .. WriteEvery /\ price[c].left \in 0 .. SurgeTTL
      BY DEF TypeOK, WriterType
    <2> QED BY <2>1, <2>2, <2>3, SinceRange
  <1>a. pressing[c] > Since(c) => Priced(c)
    BY DEF PricedInv
  <1>1. CASE Tick
    <2>1. /\ UNCHANGED <<writing, todo, quote>> /\ now' = IF writing THEN now + 1 ELSE 0
          /\ phase' = IF phase = 1 THEN WriteEvery ELSE phase - 1
          /\ due' = (due \/ phase = 1) /\ ~(due /\ ~writing)
      BY <1>1 DEF Tick
    <2>2. Undone(c)' <=> Undone(c)
      BY <2>1 DEF Undone
    <2>3. Since(c)' = Since(c) + 1
      <3>1. CASE writing
        <4>1. writing' /\ now' = now + 1
          BY <2>1, <3>1
        <4> QED BY <1>0, <2>2, <3>1, <4>1 DEF Since
      <3>2. CASE ~writing
        <4>1. ~writing' /\ ~due /\ (due' <=> phase = 1)
          BY <2>1, <3>2
        <4>2. CASE phase = 1
          BY <1>0, <3>2, <4>1, <4>2 DEF Since
        <4>3. CASE phase # 1
          BY <1>0, <2>1, <3>2, <4>1, <4>3 DEF Since
        <4> QED BY <4>2, <4>3
      <3> QED BY <3>1, <3>2
    <2>4. pressing[c] > Since(c)
      BY <1>0, <2>3, PressureSteps
    <2>5. price[c].mult # Baseline /\ price[c].left + Since(c) >= SurgeTTL
      BY <1>a, <2>4
    <2>6. Since(c) < WriteEvery + MaxLag
      BY <1>0, <2>3, Bounds
    <2>7. price[c].left > 1
      BY <1>0, <2>5, <2>6, Bounds DEF Refreshed
    <2>8. price'[c] = [mult |-> price[c].mult, left |-> price[c].left - 1]
      BY <1>1, <2>7 DEF Tick
    <2>9. price'[c].mult = price[c].mult /\ price'[c].left = price[c].left - 1
      BY <2>8
    <2> QED BY <1>0, <2>3, <2>5, <2>9
  <1>2. ASSUME ~Tick, Since(c)' = Since(c), price'[c] = price[c] PROVE Priced(c)'
    <2>1. pressing[c] > Since(c)
      BY <1>0, <1>2, PressureSteps
    <2> QED BY <1>a, <1>2, <2>1
  <1>3. CASE Idle
    <2>1. CASE Tick
      BY <1>1, <2>1
    <2>2. CASE ~Tick
      <3>1. Since(c)' = Since(c) /\ price'[c] = price[c]
        BY <1>3 DEF Idle, Since, Undone
      <3> QED BY <1>2, <2>2, <3>1
    <2> QED BY <2>1, <2>2
  <1>4. CASE StartWrite
    <2>1. ~writing /\ due /\ writing' /\ now' = 0 /\ todo' = held /\ price' = price /\ pressing' = pressing
      BY <1>4 DEF StartWrite, histVars
    <2>2. c \in held
      <3>1. pressing[c] > 0
        BY <1>0, <2>1
      <3> QED BY <3>1, PressedQuote DEF PressedInv
    <2>3. Since(c) = WriteEvery
      BY <2>1 DEF Since
    <2>4. Since(c)' = WriteEvery
      BY <2>1, <2>2, Bounds DEF Since, Undone
    <2> QED BY <1>a, <2>1, <2>3, <2>4
  <1>5. ASSUME NEW d \in Cells, Quote(d) PROVE Priced(c)'
    <2>1. /\ UNCHANGED <<writing, now, phase, due, price, pressing>> /\ quote = {} /\ d \in todo
          /\ todo' = todo \ {d} /\ quote' = {[cell |-> d, mult |-> MultiplierOf(d, now)]}
      BY <1>5 DEF Quote, histVars
    <2>2. (\E q \in quote' : q.cell = c) <=> c = d
      BY <2>1
    <2>3. Undone(c)' <=> Undone(c)
      BY <2>1, <2>2 DEF Undone
    <2>4. Since(c)' = Since(c)
      BY <2>1, <2>3 DEF Since
    <2> QED BY <1>a, <2>1, <2>4
  <1>6. CASE EndWrite
    <2>1. /\ writing /\ ~writing' /\ quote = {} /\ todo = {}
          /\ UNCHANGED <<phase, due, price, pressing>>
      BY <1>6 DEF EndWrite, histVars
    <2>2. ~Undone(c)
      BY <2>1 DEF Undone
    <2>3. Since(c) = now
      BY <2>1, <2>2 DEF Since
    <2>4. Since(c)' = now
      BY <2>1 DEF Since, TimerInv
    <2> QED BY <1>a, <2>1, <2>3, <2>4
  <1>7. ASSUME NEW q \in quote, SetMultiplier(q) \/ SetFails(q) PROVE Priced(c)'
    <2>1. /\ writing /\ quote = {q} /\ quote' = {} /\ q.cell \in Cells
          /\ UNCHANGED <<writing, now, todo, phase, due>>
      BY <1>7 DEF SetMultiplier, SetFor, SetFails, QuotedInv, TypeOK, WriterType
    <2>2. CASE c # q.cell
      <3>1. Undone(c)' <=> Undone(c)
        BY <2>1, <2>2 DEF Undone
      <3>2. Since(c)' = Since(c)
        BY <2>1, <3>1 DEF Since
      <3>3. price'[c] = price[c] /\ pressing'[c] = pressing[c]
        BY <1>7, <2>1, <2>2 DEF SetMultiplier, SetFor, SetFails, histVars, TypeOK, HistType
      <3> QED BY <1>a, <3>2, <3>3
    <2>3. CASE c = q.cell /\ SetMultiplier(q)
      <3>1. Since(c)' >= now
        BY <1>0, <2>1, Bounds DEF Since
      <3>2. pressing' = pressing
        BY <2>3 DEF SetMultiplier, SetFor, histVars
      <3>3. q.mult # Baseline
        BY <1>0, <2>3, <3>1, <3>2 DEF QuotedInv
      <3>4. price'[c] = [mult |-> q.mult, left |-> SurgeTTL]
        BY <2>3, <3>3 DEF SetMultiplier, SetFor, TypeOK
      <3>5. price'[c].mult = q.mult /\ price'[c].left = SurgeTTL
        BY <3>4
      <3> QED BY <1>0, <3>3, <3>5
    <2>4. CASE c = q.cell /\ SetFails(q)
      <3>1. pressing'[c] = 0
        BY <2>4 DEF SetFails, TypeOK, HistType
      <3> QED BY <1>0, <3>1
    <2> QED BY <1>7, <2>2, <2>3, <2>4
  <1>8. CASE Crash
    <2>1. pressing'[c] = 0
      BY <1>8 DEF Crash
    <2> QED BY <1>0, <2>1
  <1> QED BY <1>1, <1>3, <1>4, <1>5, <1>6, <1>7, <1>8, WriterSteps

LEMMA PressureInit == Init => PressureInv
  <1> SUFFICES ASSUME Init PROVE PressureInv
    OBVIOUS
  <1>1. SeenIsLast /\ TimerInv /\ QuotedInv
    BY DEF Init, SeenIsLast, TimerInv, QuotedInv
  <1>2. PressedInv
    BY DEF Init, PressedInv
  <1>3. PricedInv
    <2>1. \A c \in Cells : pressing[c] = 0
      BY DEF Init
    <2>2. ASSUME NEW c \in Cells PROVE Since(c) \in Nat
      <3>1. Since(c) = WriteEvery - phase /\ phase \in 1 .. WriteEvery
        BY DEF Init, Since
      <3> QED BY <3>1, Bounds
    <2> QED BY <2>1, <2>2 DEF PricedInv
  <1> QED BY <1>1, <1>2, <1>3 DEF PressureInv

\* A cell whose demand has outweighed its supply for a ticker's period and a
\* pass of the writer is surged and stays so until the pressure is off, if the
\* price outlives the time between two of its writes: a crash or a failed SET
\* only starts that time again.  (Ratio, Multiplier, Prune, writeMultipliersLoop's
\* ticker and its one `now` per pass, SurgeTTL.)
THEOREM PressurePriced == ASSUME Refreshed PROVE Spec => []PressureIsPriced
  <1>1. TypeOK /\ TypeOK' /\ AgreeInv /\ PressureInv /\ [Next]_vars => PressureInv'
    <2> SUFFICES ASSUME TypeOK, TypeOK', AgreeInv, PressureInv, [Next]_vars PROVE PressureInv'
      OBVIOUS
    <2>1. SeenIsLast /\ TimerInv /\ PressedInv /\ QuotedInv /\ PricedInv
      BY DEF PressureInv
    <2>2. PressedInv'
      BY <2>1, PressureSteps DEF PressedInv
    <2> QED BY <2>1, <2>2, SeenLastNext, TimerNext, QuotedNext, PricedNext DEF PressureInv
  <1>2. TypeOK /\ AgreeInv /\ [Next]_vars => AgreeInv'
    BY AgreeNext
  <1>3. TypeOK /\ PressureInv => PressureIsPriced
    <2> SUFFICES ASSUME TypeOK, PressureInv, NEW c \in Cells, pressing[c] >= Overdue
                 PROVE  price[c].mult # Baseline
      BY DEF PressureIsPriced
    <2>1. pressing[c] > Since(c)
      BY SinceRange, Bounds DEF Overdue, TypeOK, HistType
    <2> QED BY <2>1 DEF PressureInv, PricedInv
  <1> QED BY TypeCorrect, AgreeInit, PressureInit, <1>1, <1>2, <1>3, PTL DEF Spec
=============================================================================
