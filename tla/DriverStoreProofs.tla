-------------------------- MODULE DriverStoreProofs --------------------------
(***************************************************************************)
(* Proofs about DriverStore, for any drivers, cells, searches and SetState *)
(* calls: type correctness; a driver whose hash has never expired is       *)
(* indexed under exactly the cell its hash names; and a search finds every *)
(* driver that stays where it is exactly once.                             *)
(***************************************************************************)
EXTENDS DriverStore, TLAPS

USE CellsAssumption, NoneAssumption

\* A search between a cell's SMEMBERS and its HGETALLs knows which cell it reads.
KnowsCell == \A s \in Searches : spc[s] \in {"exists", "sweep", "read"} => here[s] \in Cells

TypeInv == TypeOK /\ KnowsCell

\* A driver that has not lapsed has a location as soon as it has a hash.
LocatedWhenSeen == \A d \in Drivers \ lapsed : Exists(d) => hash[d].cell # NoCell

\* A driver about to be written has a location, unless it has lapsed since.
PendingSeen ==
    \A w \in Writers : pending[w] # NoWrite /\ pending[w].driver \notin lapsed
                        => hash[pending[w].driver].cell # NoCell

\* A search holds no driver's ID that has not lapsed and has no location ...
IdsLocated == \A s \in Searches : \A d \in ids[s] \ lapsed : hash[d].cell # NoCell

\* ... so what it is about to sweep has lapsed.
StaleLapsed == \A s \in Searches : stale[s] \subseteq lapsed

IInv == TypeInv /\ IndexedOnce /\ LocatedWhenSeen /\ PendingSeen /\ IdsLocated /\ StaleLapsed

-----------------------------------------------------------------------------
(* Type correctness.                                                       *)

LEMMA TypeInit == Init => TypeInv
  BY DEF Init, TypeInv, TypeOK, KnowsCell, NoHash, NoWrite

\* What the drivers and their dispatchers do keeps the types.
LEMMA DriversType ==
  ASSUME TypeInv, NEW d \in Drivers,
         \/ Expire(d) \/ SetAvailableSince(d)
         \/ \E c \in Cells : UpdateLocation(d, c)
  PROVE  TypeInv'
  <1>1. CASE Expire(d)
    BY <1>1 DEF Expire, Unsettle, searchVars, NoHash, TypeInv, TypeOK, KnowsCell
  <1>2. ASSUME NEW c \in Cells, UpdateLocation(d, c) PROVE TypeInv'
    <2>1. hash' \in [Drivers -> [state : DriverStates \cup {"NONE", "BARE"}, cell : Cells \cup {NoCell}]]
      BY <1>2 DEF UpdateLocation, TypeInv, TypeOK, DriverStates
    <2>2. members' \in [Cells -> SUBSET Drivers]
      BY <1>2 DEF UpdateLocation, TypeInv, TypeOK
    <2>3. steady' \in [Searches -> SUBSET Drivers]
      BY <1>2 DEF UpdateLocation, Unsettle, TypeInv, TypeOK
    <2> QED BY <1>2, <2>1, <2>2, <2>3 DEF UpdateLocation, searchVars, TypeInv, TypeOK, KnowsCell
  <1>3. CASE SetAvailableSince(d)
    BY <1>3 DEF SetAvailableSince, BareHash, searchVars, TypeInv, TypeOK, KnowsCell
  <1> QED BY <1>1, <1>2, <1>3

LEMMA WritersType ==
  ASSUME TypeInv, NEW w \in Writers,
         \/ SetStateWrite(w)
         \/ \E d \in Drivers, to \in Targets : SetStateRead(w, d, to)
  PROVE  TypeInv'
  <1>1. CASE SetStateWrite(w)
    <2>1. pending[w].driver \in Drivers /\ pending[w].to \in Targets
      BY <1>1 DEF SetStateWrite, TypeInv, TypeOK
    <2>2. hash' \in [Drivers -> [state : DriverStates \cup {"NONE", "BARE"}, cell : Cells \cup {NoCell}]]
      BY <1>1, <2>1 DEF SetStateWrite, TypeInv, TypeOK, Targets, DriverStates
    <2> QED BY <1>1, <2>2 DEF SetStateWrite, Unsettle, searchVars, TypeInv, TypeOK, KnowsCell
  <1>2. CASE \E d \in Drivers, to \in Targets : SetStateRead(w, d, to)
    BY <1>2 DEF SetStateRead, searchVars, TypeInv, TypeOK, KnowsCell
  <1> QED BY <1>1, <1>2

LEMMA LeaveType ==
  ASSUME TypeInv, NEW s \in Searches, Leave(s)
  PROVE  TypeInv'
  BY DEF Leave, TypeInv, TypeOK, KnowsCell

LEMMA SearchType ==
  ASSUME TypeInv, NEW s \in Searches, Start(s) \/ Step(s)
  PROVE  TypeInv'
  <1>1. CASE Start(s)
    BY <1>1 DEF Start, TypeInv, TypeOK, KnowsCell
  <1>2. CASE \E c \in Cells : Members(s, c)
    BY <1>2 DEF Members, TypeInv, TypeOK, KnowsCell
  <1>3. CASE Probe(s)
    BY <1>3 DEF Probe, AfterCell, TypeInv, TypeOK, KnowsCell
  <1>4. CASE Sweep(s)
    <2>1. members' \in [Cells -> SUBSET Drivers]
      BY <1>4 DEF Sweep, TypeInv, TypeOK
    <2> QED BY <1>4, <2>1 DEF Sweep, AfterCell, TypeInv, TypeOK, KnowsCell
  <1>5. CASE Read(s)
    <2>1. CASE Leave(s)
      BY <2>1, LeaveType
    <2>2. CASE ~Leave(s)
      <3>1. here[s] \in Cells
        BY <1>5 DEF Read, TypeInv, KnowsCell
      <3>2. found' \in [Searches -> SUBSET (Cells \X Drivers)]
        BY <1>5, <2>2, <3>1 DEF Read, TypeInv, TypeOK
      <3> QED BY <1>5, <2>2, <3>2 DEF Read, TypeInv, TypeOK, KnowsCell
    <2> QED BY <2>1, <2>2
  <1>6. CASE RingDone(s)
    <2>1. k' \in [Searches -> 0 .. MaxK]
      BY <1>6 DEF RingDone, TypeInv, TypeOK
    <2> QED BY <1>6, <2>1 DEF RingDone, TypeInv, TypeOK, KnowsCell
  <1>7. CASE Return(s) \/ Abort(s)
    BY <1>7, LeaveType DEF Return, Abort
  <1> QED BY <1>1, <1>2, <1>3, <1>4, <1>5, <1>6, <1>7 DEF Step

LEMMA TypeNext == TypeInv /\ [Next]_vars => TypeInv'
  <1> SUFFICES ASSUME TypeInv, [Next]_vars PROVE TypeInv'
    OBVIOUS
  <1>1. CASE UNCHANGED vars
    BY <1>1 DEF vars, searchVars, TypeInv, TypeOK, KnowsCell
  <1>2. CASE Next
    BY <1>2, DriversType, WritersType, SearchType DEF Next
  <1> QED BY <1>1, <1>2

\* Every variable keeps its type, and a search never goes past ring MaxK.
\* (The loop of FindCandidates.)
THEOREM TypeCorrect == Spec => []TypeOK
  <1>1. TypeInv => TypeOK
    BY DEF TypeInv
  <1> QED BY <1>1, TypeInit, TypeNext, PTL DEF Spec

-----------------------------------------------------------------------------
(* IndexedOnce.  A search sweeps on evidence that may be old by the time   *)
(* it does.  What makes that harmless is that the evidence is a hash that  *)
(* was missing: a member of a cell set that has never lapsed has one.      *)

LEMMA IndexInit == Init => IInv
  <1> SUFFICES ASSUME Init PROVE IInv
    OBVIOUS
  <1>1. IndexedOnce
    BY DEF Init, IndexedOnce, IndexedUnder, NoHash
  <1> QED BY <1>1, TypeInit DEF Init, IInv, LocatedWhenSeen, PendingSeen, IdsLocated, StaleLapsed, Exists, NoHash

\* A step that leaves the records alone, adds to a search only members of a
\* set or fewer IDs, and to its stale ones only lapsed ones, keeps the rest.
LEMMA SearchOnly ==
  ASSUME IInv, TypeInv', UNCHANGED <<hash, members, lapsed, pending>>,
         \A s \in Searches : ids'[s] \subseteq ids[s] \/ \E c \in Cells : ids'[s] = members[c],
         \A s \in Searches : stale'[s] \subseteq lapsed
  PROVE  IInv'
  <1>1. IndexedOnce' /\ LocatedWhenSeen' /\ PendingSeen' /\ StaleLapsed'
    BY DEF IInv, IndexedOnce, IndexedUnder, LocatedWhenSeen, PendingSeen, StaleLapsed, Exists
  <1>2. IdsLocated'
    <2> SUFFICES ASSUME NEW s \in Searches, NEW d \in ids'[s] \ lapsed'
                 PROVE  hash'[d].cell # NoCell
      BY DEF IdsLocated
    <2>1. CASE ids'[s] \subseteq ids[s]
      BY <2>1 DEF IInv, IdsLocated
    <2>2. ASSUME NEW c \in Cells, ids'[s] = members[c] PROVE hash'[d].cell # NoCell
      <3>1. d \in Drivers \ lapsed
        BY <2>2 DEF IInv, TypeInv, TypeOK
      <3>2. c \in IndexedUnder(d)
        BY <2>2 DEF IndexedUnder
      <3> QED BY <3>1, <3>2 DEF IInv, IndexedOnce
    <2> QED BY <2>1, <2>2
  <1> QED BY <1>1, <1>2 DEF IInv

LEMMA UpdateLocationIndex ==
  ASSUME IInv, TypeInv', NEW d \in Drivers, NEW c \in Cells, UpdateLocation(d, c)
  PROVE  IInv'
  <1> USE DEF IInv, TypeInv, TypeOK
  <1>1. hash'[d].cell = c /\ \A e \in Drivers \ {d} : hash'[e] = hash[e]
    BY DEF UpdateLocation
  <1>2. UNCHANGED <<lapsed, pending, ids, stale>>
    BY DEF UpdateLocation, searchVars
  <1>3. IndexedOnce'
    <2> SUFFICES ASSUME NEW e \in Drivers \ lapsed
                 PROVE  IndexedUnder(e)' = IF hash'[e].cell = NoCell THEN {} ELSE {hash'[e].cell}
      BY <1>2 DEF IndexedOnce
    <2>1. IndexedUnder(e) = IF hash[e].cell = NoCell THEN {} ELSE {hash[e].cell}
      BY DEF IndexedOnce
    <2>2. CASE e # d
      <3>1. \A b \in Cells : e \in members'[b] <=> e \in members[b]
        BY <2>2 DEF UpdateLocation
      <3> QED BY <1>1, <2>1, <2>2, <3>1 DEF IndexedUnder
    <2>3. CASE e = d
      <3>1. \A b \in Cells : e \in members'[b] <=> b = c
        BY <2>1, <2>3 DEF UpdateLocation, IndexedUnder
      <3> QED BY <1>1, <2>3, <3>1 DEF IndexedUnder
    <2> QED BY <2>2, <2>3
  <1>4. LocatedWhenSeen' /\ PendingSeen'
    BY <1>1, <1>2 DEF LocatedWhenSeen, PendingSeen, Exists
  <1>5. IdsLocated'
    BY <1>1, <1>2 DEF IdsLocated
  <1> QED BY <1>2, <1>3, <1>4, <1>5 DEF StaleLapsed

LEMMA ExpireIndex ==
  ASSUME IInv, TypeInv', NEW d \in Drivers, Expire(d)
  PROVE  IInv'
  <1> USE DEF IInv, TypeInv, TypeOK
  <1>1. lapsed' = lapsed \cup {d} /\ \A e \in Drivers \ {d} : hash'[e] = hash[e]
    BY DEF Expire
  <1>2. UNCHANGED <<members, pending, ids, stale>>
    BY DEF Expire, searchVars
  <1>3. IndexedOnce'
    BY <1>1, <1>2 DEF IndexedOnce, IndexedUnder
  <1>4. LocatedWhenSeen' /\ PendingSeen' /\ IdsLocated' /\ StaleLapsed'
    BY <1>1, <1>2 DEF LocatedWhenSeen, PendingSeen, IdsLocated, StaleLapsed, Exists
  <1> QED BY <1>3, <1>4

\* A bare hash is of a driver that has lapsed, and names no cell either.
LEMMA SetAvailableSinceIndex ==
  ASSUME IInv, TypeInv', NEW d \in Drivers, SetAvailableSince(d)
  PROVE  IInv'
  <1> USE DEF IInv, TypeInv, TypeOK
  <1>1. UNCHANGED <<members, lapsed, pending, ids, stale>>
    BY DEF SetAvailableSince, searchVars
  <1>2. d \in lapsed /\ \A e \in Drivers \ {d} : hash'[e] = hash[e]
    BY DEF SetAvailableSince
  <1>3. IndexedOnce'
    BY <1>1, <1>2 DEF IndexedOnce, IndexedUnder
  <1>4. LocatedWhenSeen' /\ PendingSeen' /\ IdsLocated' /\ StaleLapsed'
    BY <1>1, <1>2 DEF LocatedWhenSeen, PendingSeen, IdsLocated, StaleLapsed, Exists
  <1> QED BY <1>3, <1>4

LEMMA SetStateWriteIndex ==
  ASSUME IInv, TypeInv', NEW w \in Writers, SetStateWrite(w)
  PROVE  IInv'
  <1> USE DEF IInv, TypeInv, TypeOK
  <1>1. UNCHANGED <<members, lapsed, ids, stale>>
    BY DEF SetStateWrite, searchVars
  <1>2. \A e \in Drivers : hash'[e].cell = hash[e].cell
    BY DEF SetStateWrite
  <1>3. IndexedOnce'
    BY <1>1, <1>2 DEF IndexedOnce, IndexedUnder
  <1>4. LocatedWhenSeen'
    <2> SUFFICES ASSUME NEW d \in Drivers \ lapsed, Exists(d)'
                 PROVE  hash'[d].cell # NoCell
      BY <1>1 DEF LocatedWhenSeen
    <2>1. CASE d = pending[w].driver
      BY <1>2, <2>1 DEF SetStateWrite, PendingSeen
    <2>2. CASE d # pending[w].driver
      BY <1>2, <2>2 DEF SetStateWrite, LocatedWhenSeen, Exists
    <2> QED BY <2>1, <2>2
  <1>5. PendingSeen'
    BY <1>1, <1>2 DEF SetStateWrite, PendingSeen
  <1> QED BY <1>1, <1>2, <1>3, <1>4, <1>5 DEF IdsLocated, StaleLapsed

LEMMA SetStateReadIndex ==
  ASSUME IInv, TypeInv', NEW w \in Writers, NEW d \in Drivers, NEW to \in Targets,
         SetStateRead(w, d, to)
  PROVE  IInv'
  <1>1. PendingSeen'
    BY DEF SetStateRead, PendingSeen, LocatedWhenSeen, IInv, TypeInv, TypeOK
  <1> QED BY <1>1 DEF SetStateRead, searchVars, IInv, IndexedOnce, IndexedUnder, LocatedWhenSeen,
                      IdsLocated, StaleLapsed, Exists

LEMMA SweepIndex ==
  ASSUME IInv, TypeInv', NEW s \in Searches, Sweep(s)
  PROVE  IInv'
  <1> USE DEF IInv, TypeInv, TypeOK
  <1>1. \A c \in Cells, d \in Drivers \ lapsed : d \in members'[c] <=> d \in members[c]
    BY DEF Sweep, StaleLapsed
  <1>2. IndexedOnce'
    BY <1>1 DEF Sweep, IndexedOnce, IndexedUnder
  <1> QED BY <1>2 DEF Sweep, LocatedWhenSeen, PendingSeen, IdsLocated, StaleLapsed, Exists

LEMMA ProbeIndex ==
  ASSUME IInv, TypeInv', NEW s \in Searches, Probe(s)
  PROVE  IInv'
  <1> USE DEF IInv, TypeInv, TypeOK
  <1>1. ids[s] \subseteq Drivers
    OBVIOUS
  <1>2. \A d \in ids[s] \ lapsed : Exists(d)
    BY <1>1 DEF IdsLocated, Exists, NoHash
  <1>3. stale'[s] \subseteq lapsed
    BY <1>2 DEF Probe
  <1>4. \A q \in Searches : stale'[q] \subseteq lapsed
    BY <1>3 DEF Probe, StaleLapsed
  <1>5. \A q \in Searches : ids'[q] \subseteq ids[q]
    BY DEF Probe
  <1> QED BY <1>4, <1>5, SearchOnly DEF Probe

LEMMA SearchIndex ==
  ASSUME IInv, TypeInv', NEW s \in Searches, Start(s) \/ Step(s)
  PROVE  IInv'
  <1>1. CASE Sweep(s)
    BY <1>1, SweepIndex
  <1>2. CASE Probe(s)
    BY <1>2, ProbeIndex
  <1>3. CASE \E c \in Cells : Members(s, c)
    <2>1. \A q \in Searches : ids'[q] \subseteq ids[q] \/ \E c \in Cells : ids'[q] = members[c]
      BY <1>3 DEF Members, IInv, TypeInv, TypeOK
    <2> QED BY <1>3, <2>1, SearchOnly DEF Members, IInv, StaleLapsed
  <1>4. CASE Leave(s)
    <2>1. \A q \in Searches : ids'[q] \subseteq ids[q] /\ stale'[q] \subseteq stale[q]
      BY <1>4 DEF Leave, IInv, TypeInv, TypeOK
    <2> QED BY <1>4, <2>1, SearchOnly DEF Leave, IInv, StaleLapsed
  <1>5. CASE Read(s) /\ ~Leave(s)
    <2>1. \A q \in Searches : ids'[q] \subseteq ids[q]
      BY <1>5 DEF Read, IInv, TypeInv, TypeOK
    <2> QED BY <1>5, <2>1, SearchOnly DEF Read, IInv, StaleLapsed
  <1>6. CASE Start(s) \/ RingDone(s)
    BY <1>6, SearchOnly DEF Start, RingDone, IInv, StaleLapsed
  <1> QED BY <1>1, <1>2, <1>3, <1>4, <1>5, <1>6 DEF Step, Return, Abort

LEMMA IndexNext == IInv /\ [Next]_vars => IInv'
  <1> SUFFICES ASSUME IInv, [Next]_vars PROVE IInv'
    OBVIOUS
  <1>1. TypeInv'
    BY TypeNext DEF IInv
  <1>2. CASE UNCHANGED vars
    BY <1>1, <1>2 DEF vars, searchVars, IInv, IndexedOnce, IndexedUnder, LocatedWhenSeen,
                      PendingSeen, IdsLocated, StaleLapsed, Exists
  <1>3. ASSUME NEW d \in Drivers, Expire(d) PROVE IInv'
    BY <1>1, <1>3, ExpireIndex
  <1>4. ASSUME NEW d \in Drivers, NEW c \in Cells, UpdateLocation(d, c) PROVE IInv'
    BY <1>1, <1>4, UpdateLocationIndex
  <1>5. ASSUME NEW w \in Writers, SetStateWrite(w) PROVE IInv'
    BY <1>1, <1>5, SetStateWriteIndex
  <1>6. ASSUME NEW w \in Writers, NEW d \in Drivers, NEW to \in Targets, SetStateRead(w, d, to)
        PROVE  IInv'
    BY <1>1, <1>6, SetStateReadIndex
  <1>7. ASSUME NEW s \in Searches, Start(s) \/ Step(s) PROVE IInv'
    BY <1>1, <1>7, SearchIndex
  <1>8. ASSUME NEW d \in Drivers, SetAvailableSince(d) PROVE IInv'
    BY <1>1, <1>8, SetAvailableSinceIndex
  <1> QED BY <1>2, <1>3, <1>4, <1>5, <1>6, <1>7, <1>8 DEF Next

\* A driver whose hash has never expired is indexed under the cell of its hash
\* and no other, whatever the searches sweep.  (moveDriverScript against
\* DriversInCell.)
THEOREM LiveDriversIndexedOnce == Spec => []IndexedOnce
  <1>1. IInv => IndexedOnce
    BY DEF IInv
  <1> QED BY <1>1, IndexInit, IndexNext, PTL DEF Spec

-----------------------------------------------------------------------------
(* SearchFindsSteady.  A search sees a steady driver exactly once because  *)
(* the driver is in one cell set all the time and the search reads no set  *)
(* twice: what it has found of it is settled by the cells it is done with. *)

Reading(s) == spc[s] \in {"exists", "sweep", "read"}

\* The cells whose drivers the search has read.
Covered(s) == scanned[s] \ (IF Reading(s) THEN {here[s]} ELSE {})

\* A steady driver is what it was when the search started.
StaysSteady(s) ==
    \A d \in steady[s] : d \notin lapsed /\ hash[d].state = "AVAILABLE" /\ hash[d].cell # NoCell

FoundFits(s) ==
    \A d \in steady[s] :
        /\ \A b \in Cells : <<b, d>> \in found[s] <=> b = hash[d].cell /\ b \in Covered(s)
        /\ Reading(s) => (d \in ids[s] <=> here[s] = hash[d].cell)

\* The search works its disk off, and ends when it may.
RingFits(s) ==
    /\ scanned[s] \subseteq Disk(k[s])
    /\ Reading(s) => here[s] \in scanned[s]
    /\ spc[s] = "done" => Disk(k[s]) \subseteq scanned[s] /\ (Enough(s) \/ k[s] = MaxK)
    /\ spc[s] = "idle" => scanned[s] = {} /\ found[s] = {} /\ steady[s] = {}

SearchFits(s) == StaysSteady(s) /\ FoundFits(s) /\ RingFits(s)

SteadyInv == \A s \in Searches : SearchFits(s)

LEMMA SteadyInit == Init => SteadyInv
  BY DEF Init, SteadyInv, SearchFits, StaysSteady, FoundFits, RingFits, Reading

\* A search whose locals an action leaves alone, if the drivers still steady
\* are where they were.
LEMMA SearchUnmoved ==
  ASSUME NEW s \in Searches, SearchFits(s),
         spc'[s] = spc[s], k'[s] = k[s], scanned'[s] = scanned[s], here'[s] = here[s],
         ids'[s] = ids[s], found'[s] = found[s], steady'[s] \subseteq steady[s],
         \A d \in steady'[s] : /\ d \notin lapsed' /\ hash'[d].state = "AVAILABLE"
                               /\ hash'[d].cell = hash[d].cell
  PROVE  SearchFits(s)'
  <1>1. StaysSteady(s)'
    BY DEF SearchFits, StaysSteady
  <1>2. FoundFits(s)'
    BY DEF SearchFits, FoundFits, Covered, Reading
  <1>3. RingFits(s)'
    BY DEF SearchFits, RingFits, Disk, Reading, Enough
  <1> QED BY <1>1, <1>2, <1>3 DEF SearchFits

\* Between two commands of the searches.
LEMMA DriversSteady ==
  ASSUME IInv, SteadyInv, UNCHANGED searchVars,
         \A s \in Searches : \A d \in steady'[s] :
             d \in steady[s] /\ d \notin lapsed' /\ hash'[d].state = "AVAILABLE" /\ hash'[d].cell = hash[d].cell
  PROVE  SteadyInv'
  <1> SUFFICES ASSUME NEW s \in Searches PROVE SearchFits(s)'
    BY DEF SteadyInv
  <1>1. SearchFits(s)
    BY DEF SteadyInv
  <1> QED BY <1>1, SearchUnmoved DEF searchVars

LEMMA UpdateLocationSteady ==
  ASSUME IInv, SteadyInv, NEW d \in Drivers, NEW c \in Cells, UpdateLocation(d, c)
  PROVE  SteadyInv'
  <1> SUFFICES ASSUME NEW s \in Searches, NEW e \in steady'[s]
               PROVE  /\ e \in steady[s] /\ e \notin lapsed' /\ hash'[e].state = "AVAILABLE"
                      /\ hash'[e].cell = hash[e].cell
    BY DriversSteady DEF UpdateLocation
  <1>1. e \in steady[s] /\ (e = d => c = hash[d].cell) /\ lapsed' = lapsed
    BY DEF UpdateLocation, Unsettle
  <1>2. e \in Drivers /\ e \notin lapsed /\ hash[e].state = "AVAILABLE"
    BY <1>1 DEF IInv, TypeInv, TypeOK, SteadyInv, SearchFits, StaysSteady
  <1>3. CASE e # d
    BY <1>1, <1>2, <1>3 DEF UpdateLocation, IInv, TypeInv, TypeOK
  <1>4. CASE e = d
    <2>1. hash'[d] = [state |-> "AVAILABLE", cell |-> c]
      BY <1>2, <1>4 DEF UpdateLocation, IInv, TypeInv, TypeOK, DriverStates
    <2> QED BY <1>1, <1>2, <1>4, <2>1
  <1> QED BY <1>3, <1>4

LEMMA SetStateWriteSteady ==
  ASSUME IInv, SteadyInv, NEW w \in Writers, SetStateWrite(w)
  PROVE  SteadyInv'
  <1> SUFFICES ASSUME NEW s \in Searches, NEW e \in steady'[s]
               PROVE  /\ e \in steady[s] /\ e \notin lapsed' /\ hash'[e].state = "AVAILABLE"
                      /\ hash'[e].cell = hash[e].cell
    BY DriversSteady DEF SetStateWrite
  <1>1. e \in steady[s] /\ (e = pending[w].driver => pending[w].to = "AVAILABLE") /\ lapsed' = lapsed
    BY DEF SetStateWrite, Unsettle
  <1>2. e \in Drivers /\ e \notin lapsed /\ hash[e].state = "AVAILABLE"
    BY <1>1 DEF IInv, TypeInv, TypeOK, SteadyInv, SearchFits, StaysSteady
  <1>3. CASE e # pending[w].driver
    BY <1>1, <1>2, <1>3 DEF SetStateWrite, IInv, TypeInv, TypeOK
  <1>4. CASE e = pending[w].driver
    <2>1. hash'[e] = [state |-> "AVAILABLE", cell |-> hash[e].cell]
      BY <1>1, <1>2, <1>4 DEF SetStateWrite, IInv, TypeInv, TypeOK
    <2> QED BY <1>1, <1>2, <2>1
  <1> QED BY <1>3, <1>4

LEMMA OthersSteady ==
  ASSUME IInv, SteadyInv,
         \/ \E d \in Drivers : Expire(d) \/ SetAvailableSince(d)
         \/ \E w \in Writers, d \in Drivers, to \in Targets : SetStateRead(w, d, to)
         \/ UNCHANGED vars
  PROVE  SteadyInv'
  <1>1. UNCHANGED searchVars
    BY DEF Expire, SetAvailableSince, SetStateRead, vars
  <1> SUFFICES ASSUME NEW s \in Searches, NEW e \in steady'[s]
               PROVE  /\ e \in steady[s] /\ e \notin lapsed' /\ hash'[e].state = "AVAILABLE"
                      /\ hash'[e].cell = hash[e].cell
    BY <1>1, DriversSteady
  <1>2. e \in steady[s]
    BY DEF Expire, Unsettle, SetAvailableSince, SetStateRead, vars
  <1>3. e \in Drivers /\ e \notin lapsed /\ hash[e].state = "AVAILABLE"
    BY <1>2 DEF IInv, TypeInv, TypeOK, SteadyInv, SearchFits, StaysSteady
  <1>4. CASE UNCHANGED <<hash, lapsed>>
    BY <1>2, <1>3, <1>4
  <1>5. ASSUME NEW d \in Drivers, Expire(d)
        PROVE  e \notin lapsed' /\ hash'[e] = hash[e]
    BY <1>3, <1>5 DEF Expire, Unsettle, IInv, TypeInv, TypeOK
  <1>6. ASSUME NEW d \in Drivers, SetAvailableSince(d)
        PROVE  e \notin lapsed' /\ hash'[e] = hash[e]
    BY <1>3, <1>6 DEF SetAvailableSince, IInv, TypeInv, TypeOK
  <1> QED BY <1>2, <1>3, <1>4, <1>5, <1>6 DEF SetStateRead, vars

\* A member of a cell set that is steady is one of its driver's cell.
LEMMA SteadyIndexed ==
  ASSUME IInv, SteadyInv, NEW s \in Searches, NEW d \in steady[s], NEW c \in Cells
  PROVE  /\ d \in Drivers /\ Exists(d) /\ ~Partial(d) /\ hash[d].cell \in Cells
         /\ d \in members[c] <=> c = hash[d].cell
  <1>1. d \in Drivers \ lapsed /\ hash[d].cell # NoCell
    BY DEF IInv, TypeInv, TypeOK, SteadyInv, SearchFits, StaysSteady
  <1>2. IndexedUnder(d) = {hash[d].cell}
    BY <1>1 DEF IInv, IndexedOnce
  <1> QED BY <1>1, <1>2 DEF IInv, TypeInv, TypeOK, Exists, NoHash, Partial, IndexedUnder

\* The other searches do not notice.
LEMMA OtherSearches ==
  ASSUME IInv, SteadyInv, NEW s \in Searches, Start(s) \/ Step(s), NEW q \in Searches, q # s
  PROVE  SearchFits(q)'
  <1>0. SearchFits(q)
    BY DEF SteadyInv
  <1>1. /\ spc'[q] = spc[q] /\ k'[q] = k[q] /\ scanned'[q] = scanned[q] /\ here'[q] = here[q]
        /\ ids'[q] = ids[q] /\ found'[q] = found[q] /\ steady'[q] = steady[q]
        /\ UNCHANGED <<hash, lapsed>>
    BY DEF IInv, TypeInv, TypeOK, Start, Step, Members, Probe, Sweep, Read, RingDone, Return, Abort, Leave
  <1> QED BY <1>0, <1>1, SearchUnmoved DEF SearchFits, StaysSteady

LEMMA StartSteady ==
  ASSUME IInv, SteadyInv, NEW s \in Searches, Start(s)
  PROVE  SearchFits(s)'
  <1>1. scanned[s] = {} /\ found[s] = {}
    BY DEF Start, SteadyInv, SearchFits, RingFits
  <1>2. /\ spc'[s] = "scan" /\ scanned'[s] = {} /\ found'[s] = {} /\ UNCHANGED <<hash, lapsed>>
        /\ steady'[s] = {d \in Drivers \ lapsed : hash[d].state = "AVAILABLE" /\ hash[d].cell # NoCell}
    BY <1>1 DEF Start, IInv, TypeInv, TypeOK
  <1> QED BY <1>2 DEF SearchFits, StaysSteady, FoundFits, RingFits, Covered, Reading

LEMMA LeaveSteady ==
  ASSUME IInv, NEW s \in Searches, Leave(s)
  PROVE  SearchFits(s)'
  <1>1. spc'[s] = "idle" /\ scanned'[s] = {} /\ found'[s] = {} /\ steady'[s] = {}
    BY DEF Leave, IInv, TypeInv, TypeOK
  <1> QED BY <1>1 DEF SearchFits, StaysSteady, FoundFits, RingFits, Covered, Reading

LEMMA MembersSteady ==
  ASSUME IInv, SteadyInv, NEW s \in Searches, NEW c \in Cells, Members(s, c)
  PROVE  SearchFits(s)'
  <1>0. SearchFits(s) /\ spc[s] = "scan" /\ c \in Disk(k[s]) /\ c \notin scanned[s]
    BY DEF SteadyInv, Members
  <1>1. /\ scanned'[s] = scanned[s] \cup {c} /\ here'[s] = c /\ ids'[s] = members[c]
        /\ spc'[s] = (IF members[c] = {} THEN "scan" ELSE "exists")
        /\ UNCHANGED <<hash, lapsed, k, found, steady>>
    BY DEF Members, IInv, TypeInv, TypeOK
  <1>2. StaysSteady(s)'
    BY <1>0, <1>1 DEF SearchFits, StaysSteady
  <1>3. RingFits(s)'
    BY <1>0, <1>1 DEF SearchFits, RingFits, Reading, Disk
  <1>4. FoundFits(s)'
    <2> SUFFICES ASSUME NEW d \in steady[s]
                 PROVE  /\ \A b \in Cells : <<b, d>> \in found[s] <=> b = hash[d].cell /\ b \in Covered(s)'
                        /\ Reading(s)' => (d \in members[c] <=> c = hash[d].cell)
      BY <1>1 DEF FoundFits
    <2>1. d \in members[c] <=> c = hash[d].cell
      BY SteadyIndexed
    <2>2. \A b \in Cells : <<b, d>> \in found[s] <=> b = hash[d].cell /\ b \in scanned[s]
      BY <1>0 DEF SearchFits, FoundFits, Covered, Reading
    <2>3. hash[d].cell \in Covered(s)' <=> hash[d].cell \in scanned[s]
      BY <1>0, <1>1, <2>1 DEF Covered, Reading
    <2> QED BY <2>1, <2>2, <2>3
  <1> QED BY <1>2, <1>3, <1>4 DEF SearchFits

LEMMA ProbeSteady ==
  ASSUME IInv, SteadyInv, NEW s \in Searches, Probe(s)
  PROVE  SearchFits(s)'
  <1> DEFINE live == {d \in ids[s] : Exists(d)}
  <1>0. SearchFits(s) /\ spc[s] = "exists" /\ Reading(s)
    BY DEF SteadyInv, Probe, Reading
  <1>1. /\ ids'[s] = live
        /\ spc'[s] = (IF live # ids[s] THEN "sweep" ELSE AfterCell(live))
        /\ UNCHANGED <<hash, lapsed, k, scanned, here, found, steady>>
    BY DEF Probe, IInv, TypeInv, TypeOK
  <1>2. spc'[s] \in {"sweep", "scan", "read"} /\ (spc'[s] = "scan" => ids[s] = {})
    BY <1>1 DEF AfterCell
  <1>3. StaysSteady(s)'
    BY <1>0, <1>1 DEF SearchFits, StaysSteady
  <1>4. RingFits(s)'
    BY <1>0, <1>1, <1>2 DEF SearchFits, RingFits, Reading, Disk
  <1>5. FoundFits(s)'
    <2> SUFFICES ASSUME NEW d \in steady[s]
                 PROVE  /\ \A b \in Cells : <<b, d>> \in found[s] <=> b = hash[d].cell /\ b \in Covered(s)'
                        /\ Reading(s)' => (d \in live <=> here[s] = hash[d].cell)
      BY <1>1 DEF FoundFits
    <2>1. d \in ids[s] <=> here[s] = hash[d].cell
      BY <1>0 DEF SearchFits, FoundFits
    <2>2. d \in live <=> d \in ids[s]
      <3>1. here[s] \in Cells
        BY <1>0 DEF IInv, TypeInv, KnowsCell, Reading
      <3> QED BY <3>1, SteadyIndexed
    <2>3. hash[d].cell \in Covered(s)' <=> hash[d].cell \in Covered(s)
      BY <1>0, <1>1, <1>2, <2>1 DEF Covered, Reading
    <2>4. \A b \in Cells : <<b, d>> \in found[s] <=> b = hash[d].cell /\ b \in Covered(s)
      BY <1>0 DEF SearchFits, FoundFits
    <2> QED BY <2>1, <2>2, <2>3, <2>4
  <1> QED BY <1>3, <1>4, <1>5 DEF SearchFits

LEMMA SweepSteady ==
  ASSUME IInv, SteadyInv, NEW s \in Searches, Sweep(s)
  PROVE  SearchFits(s)'
  <1>0. SearchFits(s) /\ Reading(s)
    BY DEF SteadyInv, Sweep, Reading
  <1>1. /\ spc'[s] = AfterCell(ids[s]) /\ UNCHANGED <<hash, lapsed, k, scanned, here, ids, found, steady>>
    BY DEF Sweep, IInv, TypeInv, TypeOK
  <1>2. spc'[s] \in {"scan", "read"} /\ (spc'[s] = "scan" => ids[s] = {})
    BY <1>1 DEF AfterCell
  <1>3. StaysSteady(s)'
    BY <1>0, <1>1 DEF SearchFits, StaysSteady
  <1>4. RingFits(s)'
    BY <1>0, <1>1, <1>2 DEF SearchFits, RingFits, Reading, Disk
  <1>5. FoundFits(s)'
    <2> SUFFICES ASSUME NEW d \in steady[s]
                 PROVE  /\ \A b \in Cells : <<b, d>> \in found[s] <=> b = hash[d].cell /\ b \in Covered(s)'
                        /\ d \in ids[s] <=> here[s] = hash[d].cell
      BY <1>1 DEF FoundFits
    <2>1. d \in ids[s] <=> here[s] = hash[d].cell
      BY <1>0 DEF SearchFits, FoundFits
    <2>2. hash[d].cell \in Covered(s)' <=> hash[d].cell \in Covered(s)
      BY <1>0, <1>1, <1>2, <2>1 DEF Covered, Reading
    <2>3. \A b \in Cells : <<b, d>> \in found[s] <=> b = hash[d].cell /\ b \in Covered(s)
      BY <1>0 DEF SearchFits, FoundFits
    <2> QED BY <2>1, <2>2, <2>3
  <1> QED BY <1>3, <1>4, <1>5 DEF SearchFits

LEMMA ReadSteady ==
  ASSUME IInv, SteadyInv, NEW s \in Searches, Read(s), ~Leave(s)
  PROVE  SearchFits(s)'
  <1>0. SearchFits(s) /\ Reading(s) /\ here[s] \in scanned[s]
    BY DEF SteadyInv, SearchFits, RingFits, Read, Reading
  <1>1. /\ found'[s] = found[s] \cup ({here[s]} \X {d \in ids[s] : hash[d].state = "AVAILABLE"})
        /\ spc'[s] = "scan" /\ UNCHANGED <<hash, lapsed, k, scanned, here, steady>>
    BY DEF Read, IInv, TypeInv, TypeOK
  <1>2. StaysSteady(s)'
    BY <1>0, <1>1 DEF SearchFits, StaysSteady
  <1>3. RingFits(s)'
    BY <1>0, <1>1 DEF SearchFits, RingFits, Reading, Disk
  <1>4. FoundFits(s)'
    <2> SUFFICES ASSUME NEW d \in steady[s], NEW b \in Cells
                 PROVE  <<b, d>> \in found'[s] <=> b = hash[d].cell /\ b \in scanned[s]
      BY <1>1 DEF FoundFits, Covered, Reading
    <2>1. d \in ids[s] <=> here[s] = hash[d].cell
      BY <1>0 DEF SearchFits, FoundFits
    <2>2. <<b, d>> \in found[s] <=> b = hash[d].cell /\ b \in scanned[s] /\ b # here[s]
      BY <1>0 DEF SearchFits, FoundFits, Covered
    <2>3. hash[d].state = "AVAILABLE"
      BY <1>0 DEF SearchFits, StaysSteady
    <2>4. <<b, d>> \in found'[s] <=> <<b, d>> \in found[s] \/ (b = here[s] /\ d \in ids[s])
      BY <1>1, <2>3
    <2> QED BY <1>0, <2>1, <2>2, <2>4
  <1> QED BY <1>2, <1>3, <1>4 DEF SearchFits

\* A ring more is a larger disk; the search ends on a disk it has worked off.
LEMMA RingDoneSteady ==
  ASSUME IInv, SteadyInv, NEW s \in Searches, RingDone(s)
  PROVE  SearchFits(s)'
  <1>0. SearchFits(s) /\ spc[s] = "scan" /\ Disk(k[s]) \subseteq scanned[s]
    BY DEF SteadyInv, RingDone
  <1>1. UNCHANGED <<hash, lapsed, scanned, here, ids, found, steady>> /\ spc'[s] \in {"scan", "done"}
    BY DEF RingDone, IInv, TypeInv, TypeOK
  <1>2. spc'[s] = "done" => k'[s] = k[s] /\ (Enough(s) \/ k[s] = MaxK)
    BY DEF RingDone, IInv, TypeInv, TypeOK
  <1>3. k[s] \in Nat /\ k'[s] \in Nat /\ k'[s] >= k[s]
    BY DEF RingDone, IInv, TypeInv, TypeOK
  <1>4. Disk(k[s]) \subseteq Disk(k'[s])
    BY <1>3 DEF Disk
  <1>5. StaysSteady(s)'
    BY <1>0, <1>1 DEF SearchFits, StaysSteady
  <1>6. RingFits(s)'
    <2>1. scanned'[s] \subseteq Disk(k[s])'
      BY <1>0, <1>1, <1>4 DEF SearchFits, RingFits, Disk
    <2>2. spc'[s] = "done" => Disk(k[s])' \subseteq scanned'[s] /\ (Enough(s)' \/ k'[s] = MaxK)
      BY <1>0, <1>1, <1>2 DEF Enough, Disk
    <2> QED BY <1>1, <2>1, <2>2 DEF RingFits, Reading
  <1>7. FoundFits(s)'
    BY <1>0, <1>1 DEF SearchFits, FoundFits, Covered, Reading
  <1> QED BY <1>5, <1>6, <1>7 DEF SearchFits

LEMMA SteadyNext == IInv /\ SteadyInv /\ [Next]_vars => SteadyInv'
  <1> SUFFICES ASSUME IInv, SteadyInv, [Next]_vars PROVE SteadyInv'
    OBVIOUS
  <1>1. ASSUME NEW s \in Searches, Start(s) \/ Step(s) PROVE SteadyInv'
    <2>1. CASE Leave(s)
      BY <1>1, <2>1, LeaveSteady, OtherSearches DEF SteadyInv
    <2>2. CASE ~Leave(s)
      <3>1. SearchFits(s)'
        BY <1>1, <2>2, StartSteady, MembersSteady, ProbeSteady, SweepSteady, ReadSteady, RingDoneSteady
           DEF Step, Return, Abort
      <3> QED BY <1>1, <3>1, OtherSearches DEF SteadyInv
    <2> QED BY <2>1, <2>2
  <1>2. ASSUME NEW d \in Drivers, NEW c \in Cells, UpdateLocation(d, c) PROVE SteadyInv'
    BY <1>2, UpdateLocationSteady
  <1>3. ASSUME NEW w \in Writers, SetStateWrite(w) PROVE SteadyInv'
    BY <1>3, SetStateWriteSteady
  <1> QED BY <1>1, <1>2, <1>3, OthersSteady DEF Next

\* A search finds every driver that stays AVAILABLE in one cell of its disk
\* exactly once, whatever other drivers, writers and searches do meanwhile, and
\* stops short of the last ring only with enough.  (FindCandidates.)
THEOREM SearchesFindSteady == Spec => []SearchFindsSteady
  <1>1. IInv /\ SteadyInv => SearchFindsSteady
    <2> SUFFICES ASSUME IInv, SteadyInv, NEW s \in Searches, spc[s] = "done"
                 PROVE  /\ \A d \in steady[s] :
                               {c \in Cells : <<c, d>> \in found[s]} =
                                   IF Dist[hash[d].cell] <= k[s] THEN {hash[d].cell} ELSE {}
                        /\ (Enough(s) \/ k[s] = MaxK)
      BY DEF SearchFindsSteady
    <2>1. SearchFits(s) /\ scanned[s] = Disk(k[s]) /\ ~Reading(s)
      BY DEF SteadyInv, SearchFits, RingFits, Reading
    <2>2. ASSUME NEW d \in steady[s]
          PROVE  {c \in Cells : <<c, d>> \in found[s]} =
                     IF Dist[hash[d].cell] <= k[s] THEN {hash[d].cell} ELSE {}
      <3>1. hash[d].cell \in Cells
        <4>1. d \in Drivers /\ hash[d].cell # NoCell
          BY <2>1 DEF IInv, TypeInv, TypeOK, SearchFits, StaysSteady
        <4> QED BY <4>1 DEF IInv, TypeInv, TypeOK
      <3>2. \A b \in Cells : <<b, d>> \in found[s] <=> b = hash[d].cell /\ Dist[b] <= k[s]
        BY <2>1 DEF SearchFits, FoundFits, Covered, Disk
      <3> QED BY <3>1, <3>2
    <2> QED BY <2>1, <2>2 DEF SearchFits, RingFits
  <1>2. Init => IInv /\ SteadyInv
    BY IndexInit, SteadyInit
  <1>3. IInv /\ SteadyInv /\ [Next]_vars => (IInv /\ SteadyInv)'
    BY IndexNext, SteadyNext
  <1> QED BY <1>1, <1>2, <1>3, PTL DEF Spec
=============================================================================
