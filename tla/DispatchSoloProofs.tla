-------------------------- MODULE DispatchSoloProofs --------------------------
(***************************************************************************)
(* Proofs about a trip that one run at most works on, however many other   *)
(* trips compete for its drivers: it lives the life TripLifecycle promises *)
(* and is matched as its offer says, whatever fails; and as long as no run *)
(* is cancelled and no node crashes, an open offer, the reverse index, the *)
(* recovery index and a driver on its way agree with the run of the trip.  *)
(***************************************************************************)
EXTENDS DispatchProofs

USE RunsAssumption, BoundsAssumption, SentinelAssumption


\* No retry and no sweep joins the request that created the trip.
OneRunPerTrip == \A r, q \in Runs : TripOf[r] = TripOf[q] => r = q

\* transitionTo writes without looking again.  What it read and validated is
\* still there when it writes: nobody else moves the trip in between.
ReadIsFresh ==
    \A r \in Runs : pc[r] = "tripWrite" => ValidTripTransition(tstate[TripOf[r]], goal[r])

LEMMA FreshInit == Init => ReadIsFresh
  BY DEF Init, ReadIsFresh

\* An action that writes no trip and takes no run into or through tripWrite.
LEMMA FreshUntouched ==
  ASSUME ReadIsFresh, UNCHANGED tstate,
         \A q \in Runs : pc'[q] = "tripWrite" => pc[q] = "tripWrite" /\ goal'[q] = goal[q]
  PROVE  ReadIsFresh'
  BY DEF ReadIsFresh

LEMMA EndRunsFresh ==
  ASSUME ReadIsFresh, UNCHANGED tstate, NEW R \in SUBSET Runs, EndRuns(R)
  PROVE  ReadIsFresh'
  <1>1. \A q \in Runs : pc'[q] = "tripWrite" => pc[q] = "tripWrite" /\ goal'[q] = goal[q]
    BY DEF EndRuns, Forget
  <1> QED BY <1>1, FreshUntouched

LEMMA FailFresh ==
  ASSUME ReadIsFresh, UNCHANGED tstate, NEW r \in Runs, Fail(r)
  PROVE  ReadIsFresh'
  <1>1. {r} \cup RestOfSweep(r) \in SUBSET Runs
    BY DEF RestOfSweep, Runs
  <1> QED BY <1>1, EndRunsFresh DEF Fail

LEMMA StepFresh ==
  ASSUME OneRunPerTrip, TypeInv, ReadIsFresh, NEW r \in Runs, Step(r)
  PROVE  ReadIsFresh'
  <1>1. CASE TransitionRead(r)
    <2>1. UNCHANGED tstate
      BY <1>1 DEF TransitionRead, tripVars
    <2>2. CASE Fail(r)
      BY <2>1, <2>2, FailFresh
    <2>3. CASE ~Fail(r)
      BY <1>1, <2>1, <2>3 DEF TransitionRead, Goto, ReadIsFresh, TypeInv, TypeOK
    <2> QED BY <2>2, <2>3
  <1>2. CASE TransitionWrite(r)
    <2>1. pc'[r] = "tripIndex" /\ \A q \in Runs : q # r => pc'[q] = pc[q] /\ goal'[q] = goal[q]
      BY <1>2 DEF TransitionWrite, Goto, TypeInv, TypeOK
    <2>2. \A t \in Trips : t # TripOf[r] => tstate'[t] = tstate[t]
      BY <1>2 DEF TransitionWrite, TypeInv, TypeOK
    <2>3. \A q \in Runs : q # r => TripOf[q] \in Trips /\ TripOf[q] # TripOf[r]
      BY DEF OneRunPerTrip
    <2> QED BY <2>1, <2>2, <2>3 DEF ReadIsFresh
  <1>3. CASE ~TransitionRead(r) /\ ~TransitionWrite(r)
    <2>1. UNCHANGED tstate
      BY <1>3 DEF Step, Fetch, Poll, SearchFails, Ranked, Scan, NextCandidate, SweepOffer, SweepTrip,
           Load, GiveUp, TransitionIndex, SetStateRead, SetStateWrite, CreateOffer, OpenWaiter,
           Receive, Timeout, CloseWaiter, SetOfferStateRead, SetOfferStateWrite, SetOfferStateClear,
           tripVars
    <2>2. CASE Fail(r)
      BY <2>1, <2>2, FailFresh
    <2>3. CASE ~Fail(r)
      <3>1. pc'[r] # "tripWrite" /\ \A q \in Runs : q # r => pc'[q] = pc[q] /\ goal'[q] = goal[q]
        BY <1>3, <2>3 DEF TypeInv, TypeOK, Step, Fetch, Poll, SearchFails, Ranked, Scan,
           NextCandidate, SweepOffer, SweepTrip, Load, GiveUp, TransitionIndex, SetStateRead,
           SetStateWrite, CreateOffer, OpenWaiter, Receive, Timeout, CloseWaiter, SetOfferStateRead,
           SetOfferStateWrite, SetOfferStateClear, Goto, Call, NextRound, Finish, Forget
      <3> QED BY <2>1, <3>1, FreshUntouched
    <2> QED BY <2>2, <2>3
  <1> QED BY <1>1, <1>2, <1>3

LEMMA RequestFresh ==
  ASSUME TypeInv, ReadIsFresh, NEW r \in Runs, Request(r)
  PROVE  ReadIsFresh'
  <1>1. \A q \in Runs : pc'[q] = "tripWrite" => pc[q] = "tripWrite" /\ goal'[q] = goal[q]
    BY DEF TypeInv, TypeOK, Request, Goto
  <1>2. \A q \in Runs : pc[q] = "tripWrite" => tstate[TripOf[q]] # "NONE"
    BY DEF ReadIsFresh, ValidTripTransition, TripTransitions
  <1>3. \A t \in Trips : tstate[t] # "NONE" => tstate'[t] = tstate[t]
    BY DEF TypeInv, TypeOK, Request
  <1> QED BY <1>1, <1>2, <1>3 DEF ReadIsFresh

LEMMA FreshNext ==
  ASSUME OneRunPerTrip, TypeInv, ReadIsFresh, [Next]_vars
  PROVE  ReadIsFresh'
  <1>1. CASE UNCHANGED vars
    BY <1>1 DEF ReadIsFresh, vars, tripVars
  <1>2. ASSUME NEW r \in Runs, Request(r) \/ Step(r) PROVE ReadIsFresh'
    BY <1>2, RequestFresh, StepFresh
  <1>3. ASSUME NEW r \in Runs, Cancel(r) PROVE ReadIsFresh'
    BY <1>3, FailFresh DEF Cancel, tripVars
  <1>4. ASSUME NEW n \in Nodes, SweepList(n) PROVE ReadIsFresh'
    BY <1>4 DEF SweepList, ReadIsFresh, tripVars
  <1>5. ASSUME NEW n \in Nodes, Crash(n) PROVE ReadIsFresh'
    BY <1>5, EndRunsFresh DEF Crash, tripVars
  <1>6. ASSUME NEW d \in Drivers, DriverStep(d) PROVE ReadIsFresh'
    BY <1>6 DEF DriverStep, Respond, ExpireDriver, Ping, ExpirePointer, ReadIsFresh, tripVars
  <1>7. ASSUME NEW m \in replies, LookUpOffer(m) \/ Deliver(m) PROVE ReadIsFresh'
    BY <1>7 DEF LookUpOffer, Deliver, ReadIsFresh, tripVars
  <1>8. ASSUME NEW t \in Trips, ExpireOffer(t) PROVE ReadIsFresh'
    BY <1>8 DEF ExpireOffer, ReadIsFresh, tripVars
  <1> QED BY <1>1, <1>2, <1>3, <1>4, <1>5, <1>6, <1>7, <1>8 DEF Next

-----------------------------------------------------------------------------
(* The step simulation: a trip is written by CreateTrip's script and by    *)
(* transitionTo's HSET only.                                               *)

LEMMA InitLifecycle == Init => Lifecycle!Init
  BY DEF Init, Lifecycle!Init

LEMMA RequestLifecycle ==
  ASSUME TypeInv, NEW r \in Runs, Request(r)
  PROVE  [Lifecycle!Next]_<<tstate, tdriver>>
  <1>1. CASE tstate[TripOf[r]] = "NONE"
    <2>1. Lifecycle!Create(TripOf[r])
      BY <1>1 DEF Request, Lifecycle!Create, Lifecycle!Move
    <2> QED BY <2>1 DEF Lifecycle!Next
  <1>2. CASE tstate[TripOf[r]] # "NONE"
    BY <1>2 DEF Request
  <1> QED BY <1>1, <1>2

LEMMA WriteLifecycle ==
  ASSUME TypeInv, ReadIsFresh, NEW r \in Runs, TransitionWrite(r)
  PROVE  Lifecycle!Next
  <1> DEFINE t == TripOf[r]
  <1>1. t \in Trips /\ ValidTripTransition(tstate[t], goal[r])
    BY DEF ReadIsFresh, TransitionWrite
  <1>2. tstate' = [tstate EXCEPT ![t] = goal[r]]
    BY DEF TransitionWrite
  <1>3. CASE goal[r] = "OFFERED"
    <2>1. Lifecycle!Offer(t)
      BY <1>1, <1>2, <1>3 DEF TransitionWrite, ValidTripTransition, TripTransitions,
                              Lifecycle!Offer, Lifecycle!Move
    <2> QED BY <1>1, <2>1 DEF Lifecycle!Next
  <1>4. CASE goal[r] = "MATCHED"
    <2>1. cur[r] \in Drivers
      BY <1>4 DEF TransitionWrite, TypeInv, RunOK, CurFits, TripCall
    <2>2. Lifecycle!Match(t, cur[r])
      BY <1>1, <1>2, <1>4 DEF TransitionWrite, ValidTripTransition, TripTransitions,
                              Lifecycle!Match, Lifecycle!Move
    <2> QED BY <1>1, <2>1, <2>2 DEF Lifecycle!Next
  <1>5. CASE goal[r] = "UNFULFILLED"
    <2>1. Lifecycle!GiveUp(t)
      BY <1>1, <1>2, <1>5 DEF TransitionWrite, ValidTripTransition, TripTransitions,
                              Lifecycle!GiveUp, Lifecycle!Move
    <2> QED BY <1>1, <2>1 DEF Lifecycle!Next
  <1> QED BY <1>1, <1>3, <1>4, <1>5 DEF ValidTripTransition, TripTransitions

LEMMA NextLifecycle ==
  ASSUME TypeInv, ReadIsFresh, [Next]_vars
  PROVE  [Lifecycle!Next]_<<tstate, tdriver>>
  <1>1. CASE UNCHANGED vars
    BY <1>1 DEF vars, tripVars
  <1>2. ASSUME NEW r \in Runs, Request(r) PROVE [Lifecycle!Next]_<<tstate, tdriver>>
    BY <1>2, RequestLifecycle
  <1>3. ASSUME NEW r \in Runs, Step(r) PROVE [Lifecycle!Next]_<<tstate, tdriver>>
    <2>1. CASE TransitionWrite(r)
      BY <2>1, WriteLifecycle
    <2>2. CASE ~TransitionWrite(r)
      <3>1. UNCHANGED <<tstate, tdriver>>
        BY <1>3, <2>2 DEF Step, Fetch, Poll, SearchFails, Ranked, Scan, NextCandidate, SweepOffer,
           SweepTrip, Load, GiveUp, TransitionRead, TransitionIndex, SetStateRead, SetStateWrite,
           CreateOffer, OpenWaiter, Receive, Timeout, CloseWaiter, SetOfferStateRead,
           SetOfferStateWrite, SetOfferStateClear, tripVars
      <3> QED BY <3>1
    <2> QED BY <2>1, <2>2
  <1>4. CASE UNCHANGED tripVars
    BY <1>4 DEF tripVars
  <1>5. ASSUME NEW r \in Runs, Cancel(r) PROVE UNCHANGED tripVars
    BY <1>5 DEF Cancel
  <1>6. ASSUME NEW n \in Nodes, SweepList(n) \/ Crash(n) PROVE UNCHANGED tripVars
    BY <1>6 DEF SweepList, Crash
  <1>7. ASSUME NEW d \in Drivers, DriverStep(d) PROVE UNCHANGED tripVars
    BY <1>7 DEF DriverStep, Respond, ExpireDriver, Ping, ExpirePointer
  <1>8. ASSUME NEW m \in replies, LookUpOffer(m) \/ Deliver(m) PROVE UNCHANGED tripVars
    BY <1>8 DEF LookUpOffer, Deliver
  <1>9. ASSUME NEW t \in Trips, ExpireOffer(t) PROVE UNCHANGED tripVars
    BY <1>9 DEF ExpireOffer
  <1> QED BY <1>1, <1>2, <1>3, <1>4, <1>5, <1>6, <1>7, <1>8, <1>9 DEF Next

\* A trip is created once, ends once, and is matched to one driver only, when
\* one run works on it: the read-then-write of transitionTo is then enough.
THEOREM ImplementsLifecycle ==
  ASSUME OneRunPerTrip
  PROVE  Spec => LifecycleSpec
  <1>1. TypeInv /\ ReadIsFresh /\ [Next]_vars => (TypeInv /\ ReadIsFresh)'
    BY TypeNext, FreshNext
  <1>2. TypeInv /\ ReadIsFresh /\ [Next]_vars => [Lifecycle!Next]_<<tstate, tdriver>>
    BY NextLifecycle
  <1>3. Init => TypeInv /\ ReadIsFresh /\ Lifecycle!Init
    BY TypeInit, FreshInit, InitLifecycle
  <1> QED BY <1>1, <1>2, <1>3, PTL DEF Spec, LifecycleSpec, Lifecycle!Spec

-----------------------------------------------------------------------------
(* The records of a trip and the run that works on it.  What a run may     *)
(* count on depends on where it is, so each part of the inductive          *)
(* invariant is a statement about one run.                                 *)

InLoop(r) ==
    \/ pc[r] \in {"loop"} \cup DriverCall \cup InRound
    \/ pc[r] \in {"tripRead", "tripWrite"} /\ goal[r] = "MATCHED"

\* Where the run is tells where its trip is.
StageFits(r) ==
    /\ InLoop(r) => tstate[TripOf[r]] = "OFFERED"
    /\ pc[r] = "tripIndex" => tstate[TripOf[r]] = goal[r]

\* The round is open and its record is there; from the driver's acceptance to
\* the match it is the record of that acceptance.
Opened(r)   == pc[r] \in {"open", "await", "close", "offerRead", "offerWrite"}
Accepted(r) ==
    \/ pc[r] = "offerClear" /\ goal[r] = "ACCEPTED"
    \/ pc[r] \in DriverCall /\ goal[r] = "EN_ROUTE"
    \/ pc[r] \in TripCall /\ goal[r] = "MATCHED"

OfferFits(r) ==
    /\ Opened(r) \/ Accepted(r) => rounds[r] > 0
    /\ Opened(r) => offer[TripOf[r]] = [driver |-> cur[r], state |-> "PENDING"]
    /\ Accepted(r) => offer[TripOf[r]] = [driver |-> cur[r], state |-> "ACCEPTED"]

\* A run whose trip is MATCHED has nothing left to do but the index.
MatchFits(r) ==
    LET t == TripOf[r] IN
    tstate[t] = "MATCHED" =>
        /\ \/ pc[r] \in Ended \cup {"fetch", "queued", "recheck"}
           \/ pc[r] = "tripIndex" /\ goal[r] = "MATCHED"
        /\ tdriver[t] \in Drivers
        /\ offer[t] \in {NoOffer, [driver |-> tdriver[t], state |-> "ACCEPTED"]}

\* A trip that no run works on does not exist.
Untouched(t) == tstate[t] = "NONE" /\ offer[t] = NoOffer /\ t \notin index

StageInv == \A r \in Runs : StageFits(r)
OfferInv == \A r \in Runs : OfferFits(r) /\ MatchFits(r)
IdleInv  == \A t \in Trips : Untouched(t) \/ \E r \in Runs : TripOf[r] = t

-----------------------------------------------------------------------------
(* What one step may touch.  With one run per trip, a trip's records are   *)
(* written by its own run only, and by the TTLs.                           *)

TripKept(t) ==
    /\ tstate'[t] = tstate[t] /\ tdriver'[t] = tdriver[t] /\ offer'[t] = offer[t]
    /\ t \in index' <=> t \in index

Kept(q) ==
    /\ pc'[q] = pc[q] /\ goal'[q] = goal[q] /\ cur'[q] = cur[q] /\ rounds'[q] = rounds[q]
    /\ TripKept(TripOf[q])

\* A run that an error has ended; it leaves the records as they are.
Stopped(q) == pc'[q] \in {"idle", "failed"} /\ goal'[q] = "NONE" /\ TripKept(TripOf[q])

\* A run listed by a sweep.
Queues(q) ==
    pc[q] = "idle" /\ pc'[q] = "queued" /\ goal'[q] = goal[q] /\ TripKept(TripOf[q])

LEMMA EndRunsKeeps ==
  ASSUME NEW R \in SUBSET Runs, EndRuns(R), NEW q \in Runs, TripKept(TripOf[q])
  PROVE  IF q \in R THEN Stopped(q) ELSE Kept(q)
  BY DEF EndRuns, Forget, Stopped, Kept

LEMMA FailKeeps ==
  ASSUME NEW r \in Runs, Fail(r), NEW q \in Runs, TripKept(TripOf[q])
  PROVE  \/ Kept(q)
         \/ Stopped(q) /\ (q = r \/ pc[q] = "queued")
  <1>1. {r} \cup RestOfSweep(r) \in SUBSET Runs
    BY DEF RestOfSweep, Runs
  <1>2. q \in {r} \cup RestOfSweep(r) => q = r \/ pc[q] = "queued"
    BY DEF RestOfSweep
  <1> QED BY <1>1, <1>2, EndRunsKeeps DEF Fail

LEMMA StepKeepsTrips ==
  ASSUME TypeInv, NEW r \in Runs, Step(r) \/ Request(r), NEW t \in Trips, t # TripOf[r]
  PROVE  TripKept(t)
  <1>1. CASE SetOfferStateWrite(r)
    BY <1>1 DEF TypeInv, TypeOK, SetOfferStateWrite, TripKept, tripVars
  <1>2. CASE ~SetOfferStateWrite(r)
    BY <1>2 DEF TypeInv, TypeOK, Request, Step, Fetch, Poll, SearchFails, Ranked, Scan,
       NextCandidate, SweepOffer, SweepTrip, Load, GiveUp, TransitionRead, TransitionWrite,
       TransitionIndex, SetStateRead, SetStateWrite, CreateOffer, OpenWaiter, Receive, Timeout,
       CloseWaiter, SetOfferStateRead, SetOfferStateClear, TripKept, tripVars, offerVars
  <1> QED BY <1>1, <1>2

LEMMA StepKeepsOthers ==
  ASSUME OneRunPerTrip, TypeInv, NEW r \in Runs, Step(r) \/ Request(r), NEW q \in Runs, q # r
  PROVE  Kept(q) \/ (Stopped(q) /\ pc[q] = "queued")
  <1>1. TripKept(TripOf[q])
    <2>1. TripOf[q] \in Trips /\ TripOf[q] # TripOf[r]
      BY DEF OneRunPerTrip
    <2> QED BY <2>1, StepKeepsTrips
  <1>2. CASE Fail(r)
    BY <1>1, <1>2, FailKeeps
  <1>3. CASE ~Fail(r)
    <2>1. pc'[q] = pc[q] /\ goal'[q] = goal[q] /\ cur'[q] = cur[q] /\ rounds'[q] = rounds[q]
      BY <1>3 DEF TypeInv, TypeOK, Request, Step, Fetch, Poll, SearchFails, Ranked, Scan,
         NextCandidate, SweepOffer, SweepTrip, Load, GiveUp, TransitionRead, TransitionWrite,
         TransitionIndex, SetStateRead, SetStateWrite, CreateOffer, OpenWaiter, Receive, Timeout,
         CloseWaiter, SetOfferStateRead, SetOfferStateWrite, SetOfferStateClear, Goto, Call,
         NextRound, Finish, Forget, loopVars
    <2> QED BY <1>1, <2>1 DEF Kept
  <1> QED BY <1>2, <1>3

\* Between two commands of the runs: only an offer's TTL writes to a trip.
LEMMA OutsideKeeps ==
  ASSUME TypeInv, NEW q \in Runs,
         \/ UNCHANGED vars
         \/ \E d \in Drivers : DriverStep(d)
         \/ \E m \in replies : LookUpOffer(m) \/ Deliver(m)
         \/ \E t \in Trips : t # TripOf[q] /\ ExpireOffer(t)
  PROVE  Kept(q)
  <1>1. CASE UNCHANGED <<tripVars, offer, pc, goal, loopVars>>
    BY <1>1 DEF Kept, TripKept, tripVars, loopVars
  <1>2. CASE \E t \in Trips : t # TripOf[q] /\ ExpireOffer(t)
    BY <1>2 DEF ExpireOffer, Kept, TripKept, tripVars, loopVars, TypeInv, TypeOK
  <1>3. CASE \E d \in Drivers : DriverStep(d)
    BY <1>1, <1>3 DEF DriverStep, Respond, ExpireDriver, Ping, ExpirePointer, offerVars
  <1>4. CASE \E m \in replies : LookUpOffer(m) \/ Deliver(m)
    BY <1>1, <1>4 DEF LookUpOffer, Deliver, offerVars
  <1>5. CASE UNCHANGED vars
    BY <1>1, <1>5 DEF vars, offerVars
  <1> QED BY <1>2, <1>3, <1>4, <1>5

\* SweepList puts idle runs in the queue.
LEMMA SweepListKeeps ==
  ASSUME TypeInv, NEW n \in Nodes, SweepList(n), NEW q \in Runs
  PROVE  Kept(q) \/ Queues(q)
  BY DEF Queues, SweepList, SweepsOf, Kept, TripKept, tripVars, offerVars, loopVars, Runs

Fault == (\E r \in Runs : Cancel(r)) \/ \E n \in Nodes : Crash(n)

\* What a step of the system is for run q: its own command, the TTL of its
\* trip's offer, its end, or nothing that it sees.
LEMMA NextForOne ==
  ASSUME OneRunPerTrip, TypeInv, [Next]_vars, NEW q \in Runs
  PROVE  \/ Request(q) \/ Step(q) \/ ExpireOffer(TripOf[q])
         \/ Stopped(q) /\ (Fault \/ pc[q] = "queued")
         \/ Queues(q) \/ Kept(q)
  <1> DEFINE Goal == \/ Request(q) \/ Step(q) \/ ExpireOffer(TripOf[q])
                     \/ Stopped(q) /\ (Fault \/ pc[q] = "queued")
                     \/ Queues(q) \/ Kept(q)
  <1> SUFFICES Goal
    OBVIOUS
  <1> HIDE DEF Goal
  <1>1. ASSUME NEW r \in Runs, Step(r) \/ Request(r) PROVE Goal
    BY <1>1, StepKeepsOthers DEF Goal
  <1>2. ASSUME NEW r \in Runs, Cancel(r) PROVE Goal
    <2>1. TripKept(TripOf[q])
      BY <1>2 DEF Cancel, TripKept, tripVars, offerVars
    <2> QED BY <1>2, <2>1, FailKeeps DEF Goal, Fault, Cancel
  <1>3. ASSUME NEW n \in Nodes, Crash(n) PROVE Goal
    <2>1. TripKept(TripOf[q])
      BY <1>3 DEF Crash, TripKept, tripVars, offerVars
    <2>2. Kept(q) \/ Stopped(q)
      BY <1>3, <2>1, EndRunsKeeps DEF Crash
    <2> QED BY <1>3, <2>2 DEF Goal, Fault
  <1>4. ASSUME NEW n \in Nodes, SweepList(n) PROVE Goal
    BY <1>4, SweepListKeeps DEF Goal
  <1>5. ASSUME NEW d \in Drivers, DriverStep(d) PROVE Goal
    BY <1>5, OutsideKeeps DEF Goal
  <1>6. ASSUME NEW m \in replies, LookUpOffer(m) \/ Deliver(m) PROVE Goal
    BY <1>6, OutsideKeeps DEF Goal
  <1>7. ASSUME NEW t \in Trips, ExpireOffer(t) PROVE Goal
    <2>1. CASE t = TripOf[q]
      BY <1>7, <2>1 DEF Goal
    <2>2. CASE t # TripOf[q]
      BY <1>7, <2>2, OutsideKeeps DEF Goal
    <2> QED BY <2>1, <2>2
  <1>8. CASE UNCHANGED vars
    BY <1>8, OutsideKeeps DEF Goal
  <1> QED BY <1>1, <1>2, <1>3, <1>4, <1>5, <1>6, <1>7, <1>8 DEF Next

-----------------------------------------------------------------------------
(* Where a run is tells where its trip is.                                 *)

LEMMA StepStage ==
  ASSUME TypeInv, NEW r \in Runs, StageFits(r), Step(r)
  PROVE  StageFits(r)'
  <1>0. TripOf[r] \in Trips
    OBVIOUS
  <1>1. CASE Fail(r)
    BY <1>1 DEF Fail, EndRuns, StageFits, InLoop, DriverCall, InRound, OfferCall
  <1>2. CASE TransitionWrite(r)
    BY <1>0, <1>2 DEF TypeInv, TypeOK, TransitionWrite, Goto, StageFits, InLoop, DriverCall, InRound, OfferCall
  <1>3. CASE ~Fail(r) /\ ~TransitionWrite(r)
    <2>1. UNCHANGED tstate
      BY <1>3 DEF Step, Fetch, Poll, SearchFails, Ranked, Scan, NextCandidate, SweepOffer, SweepTrip,
         Load, GiveUp, TransitionRead, TransitionIndex, SetStateRead, SetStateWrite, CreateOffer,
         OpenWaiter, Receive, Timeout, CloseWaiter, SetOfferStateRead, SetOfferStateWrite,
         SetOfferStateClear, tripVars
    <2>2. pc'[r] # "tripIndex"
      BY <1>3 DEF TypeInv, TypeOK, Step, Fetch, Poll, SearchFails, Ranked, Scan, NextCandidate,
         SweepOffer, SweepTrip, Load, GiveUp, TransitionRead, TransitionIndex, SetStateRead,
         SetStateWrite, CreateOffer, OpenWaiter, Receive, Timeout, CloseWaiter, SetOfferStateRead,
         SetOfferStateWrite, SetOfferStateClear, Goto, Call, NextRound, Finish
    <2>3. InLoop(r)' => InLoop(r) \/ tstate[TripOf[r]] = "OFFERED"
      BY <1>3 DEF TypeInv, TypeOK, RunOK, GoalFits, StageFits, InLoop, DriverCall, InRound, OfferCall,
         TripCall, Step, Fetch, Poll, SearchFails, Ranked, Scan, NextCandidate,
         SweepOffer, SweepTrip, Load, GiveUp, TransitionRead, TransitionIndex, SetStateRead,
         SetStateWrite, CreateOffer, OpenWaiter, Receive, Timeout, CloseWaiter, SetOfferStateRead,
         SetOfferStateWrite, SetOfferStateClear, Goto, Call, NextRound, Finish, TerminalTrip
    <2> QED BY <2>1, <2>2, <2>3 DEF StageFits
  <1> QED BY <1>1, <1>2, <1>3

LEMMA StageNext ==
  ASSUME OneRunPerTrip, TypeInv, StageInv, [Next]_vars
  PROVE  StageInv'
  <1> SUFFICES ASSUME NEW q \in Runs PROVE StageFits(q)'
    BY DEF StageInv
  <1>0. StageFits(q) /\ TripOf[q] \in Trips
    BY DEF StageInv
  <1>1. CASE Step(q)
    BY <1>0, <1>1, StepStage
  <1>2. CASE Request(q)
    BY <1>2 DEF TypeInv, TypeOK, Request, Goto, StageFits, InLoop, DriverCall, InRound, OfferCall
  <1>3. CASE ExpireOffer(TripOf[q])
    BY <1>0, <1>3 DEF ExpireOffer, StageFits, InLoop, tripVars
  <1>4. CASE Stopped(q) \/ Queues(q)
    BY <1>4 DEF Stopped, Queues, StageFits, InLoop, DriverCall, InRound, OfferCall
  <1>5. CASE Kept(q)
    BY <1>0, <1>5 DEF Kept, TripKept, StageFits, InLoop
  <1> QED BY <1>1, <1>2, <1>3, <1>4, <1>5, NextForOne

-----------------------------------------------------------------------------
(* The offer record and the run, while Redis answers within the record's   *)
(* margin: the round's own record is there until the round is over.        *)

\* HSET state leaves the record's driver as it is.
LEMMA WriteKeepsDriver ==
  ASSUME TypeInv, NEW r \in Runs, NEW d, NEW s, SetOfferStateWrite(r),
         offer[TripOf[r]] = [driver |-> d, state |-> s]
  PROVE  offer'[TripOf[r]] = [driver |-> d, state |-> goal[r]]
  <1>1. TripOf[r] \in Trips
    OBVIOUS
  <1>2. offer'[TripOf[r]] = [offer[TripOf[r]] EXCEPT !.state = goal[r]]
    BY <1>1 DEF SetOfferStateWrite, TypeInv, TypeOK
  <1>3. [[driver |-> d, state |-> s] EXCEPT !.state = goal[r]] = [driver |-> d, state |-> goal[r]]
    OBVIOUS
  <1> QED BY <1>2, <1>3

LEMMA StepOffer ==
  ASSUME TypeInv, NEW r \in Runs, OfferFits(r), Step(r)
  PROVE  OfferFits(r)'
  <1>0. TripOf[r] \in Trips
    OBVIOUS
  <1>1. CASE Fail(r)
    BY <1>1 DEF Fail, EndRuns, OfferFits, Opened, Accepted, DriverCall, TripCall
  <1>2. CASE SetOfferStateWrite(r)
    <2>1. /\ Opened(r) /\ goal[r] \in {"ACCEPTED", "DECLINED", "TIMED_OUT"}
          /\ UNCHANGED <<goal, cur, rounds>> /\ pc'[r] = "offerClear"
      BY <1>2 DEF TypeInv, TypeOK, RunOK, GoalFits, OfferCall, SetOfferStateWrite, Opened, Goto, loopVars
    <2>2. offer'[TripOf[r]] = [driver |-> cur[r], state |-> goal[r]]
      BY <1>2, <2>1, WriteKeepsDriver DEF OfferFits
    <2> QED BY <2>1, <2>2 DEF OfferFits, Opened, Accepted, DriverCall, TripCall
  <1>3. CASE CreateOffer(r)
    BY <1>0, <1>3 DEF TypeInv, TypeOK, CreateOffer, Goto, OfferFits, Opened, Accepted, DriverCall, TripCall
  <1>4. CASE ~Fail(r) /\ ~SetOfferStateWrite(r) /\ ~CreateOffer(r)
    <2>1. UNCHANGED offer
      BY <1>4 DEF Step, Fetch, Poll, SearchFails, Ranked, Scan, NextCandidate, SweepOffer, SweepTrip,
         Load, GiveUp, TransitionRead, TransitionWrite, TransitionIndex, SetStateRead, SetStateWrite,
         OpenWaiter, Receive, Timeout, CloseWaiter, SetOfferStateRead, SetOfferStateClear, offerVars
    <2>2. Opened(r)' \/ Accepted(r)' => rounds'[r] = rounds[r] /\ cur'[r] = cur[r]
      BY <1>4 DEF TypeInv, TypeOK, RunOK, GoalFits, OfferCall, Opened, Accepted, DriverCall, TripCall,
         Step, Fetch, Poll, SearchFails, Ranked, Scan, NextCandidate, SweepOffer, SweepTrip, Load,
         GiveUp, TransitionRead, TransitionWrite, TransitionIndex, SetStateRead, SetStateWrite,
         OpenWaiter, Receive, Timeout, CloseWaiter, SetOfferStateRead, SetOfferStateClear, Goto, Call,
         NextRound, Finish, Forget, loopVars
    <2>3. (Opened(r)' => Opened(r)) /\ (Accepted(r)' => Accepted(r))
      BY <1>4 DEF TypeInv, TypeOK, RunOK, GoalFits, OfferCall, Opened, Accepted, DriverCall, TripCall,
         Step, Fetch, Poll, SearchFails, Ranked, Scan, NextCandidate, SweepOffer, SweepTrip, Load,
         GiveUp, TransitionRead, TransitionWrite, TransitionIndex, SetStateRead, SetStateWrite,
         OpenWaiter, Receive, Timeout, CloseWaiter, SetOfferStateRead, SetOfferStateClear, Goto, Call,
         NextRound, Finish, OutcomeOf
    <2> QED BY <2>1, <2>2, <2>3 DEF OfferFits
  <1> QED BY <1>1, <1>2, <1>3, <1>4

\* The match is the last thing a run writes to its trip, with the acceptance
\* of its driver on record.
LEMMA StepMatch ==
  ASSUME TypeInv, ReadIsFresh, NEW r \in Runs, OfferFits(r), MatchFits(r), Step(r)
  PROVE  MatchFits(r)'
  <1>0. TripOf[r] \in Trips
    OBVIOUS
  <1>1. CASE TransitionWrite(r)
    <2>1. tstate'[TripOf[r]] = goal[r] /\ pc'[r] = "tripIndex" /\ UNCHANGED <<goal, offer>>
      BY <1>0, <1>1 DEF TypeInv, TypeOK, TransitionWrite, Goto, offerVars
    <2>2. CASE goal[r] = "MATCHED"
      <3>1. cur[r] \in Drivers
        BY <1>1, <2>2 DEF TransitionWrite, TypeInv, RunOK, CurFits, TripCall
      <3>2. tdriver'[TripOf[r]] = cur[r]
        BY <1>0, <1>1, <2>2 DEF TypeInv, TypeOK, TransitionWrite
      <3>3. offer[TripOf[r]] = [driver |-> cur[r], state |-> "ACCEPTED"]
        BY <1>1, <2>2 DEF TransitionWrite, OfferFits, Accepted, TripCall
      <3> QED BY <2>1, <2>2, <3>1, <3>2, <3>3 DEF MatchFits
    <2>3. CASE goal[r] # "MATCHED"
      BY <2>1, <2>3 DEF MatchFits
    <2> QED BY <2>2, <2>3
  <1>2. CASE ~TransitionWrite(r) /\ tstate[TripOf[r]] # "MATCHED"
    BY <1>2 DEF MatchFits, Step, Fetch, Poll, SearchFails, Ranked, Scan, NextCandidate, SweepOffer,
       SweepTrip, Load, GiveUp, TransitionRead, TransitionIndex, SetStateRead, SetStateWrite,
       CreateOffer, OpenWaiter, Receive, Timeout, CloseWaiter, SetOfferStateRead, SetOfferStateWrite,
       SetOfferStateClear, tripVars
  <1>3. CASE tstate[TripOf[r]] = "MATCHED"
    <2>1. /\ pc[r] \in {"fetch", "queued", "recheck"} \/ (pc[r] = "tripIndex" /\ goal[r] = "MATCHED")
          /\ tdriver[TripOf[r]] \in Drivers
          /\ offer[TripOf[r]] \in {NoOffer, [driver |-> tdriver[TripOf[r]], state |-> "ACCEPTED"]}
      BY <1>3 DEF MatchFits, Ended, Step, Fetch, Poll, SearchFails, Ranked, Scan, NextCandidate,
         SweepOffer, SweepTrip, Load, GiveUp, TransitionRead, TransitionWrite, TransitionIndex,
         SetStateRead, SetStateWrite, CreateOffer, OpenWaiter, Receive, Timeout, CloseWaiter,
         SetOfferStateRead, SetOfferStateWrite, SetOfferStateClear
    <2>2. Fetch(r) \/ SweepOffer(r) \/ SweepTrip(r) \/ TransitionIndex(r)
      BY <2>1 DEF Step, Poll, SearchFails, Ranked, Scan, NextCandidate, Load, GiveUp, TransitionRead,
         TransitionWrite, SetStateRead, SetStateWrite, CreateOffer, OpenWaiter, Receive, Timeout,
         CloseWaiter, SetOfferStateRead, SetOfferStateWrite, SetOfferStateClear
    <2>3. UNCHANGED <<tdriver, offer>>
      BY <2>2 DEF Fetch, SweepOffer, SweepTrip, TransitionIndex, tripVars, offerVars
    <2>4. pc'[r] \in Ended \cup {"fetch", "queued", "recheck"}
      <3>1. CASE Fail(r)
        BY <3>1 DEF Fail, EndRuns, Ended
      <3>2. CASE ~Fail(r)
        BY <1>3, <2>1, <2>2, <3>2 DEF TypeInv, TypeOK, Fetch, SweepOffer, SweepTrip, TransitionIndex, Goto, NextRound,
           Call, Finish, Ended, TerminalTrip
      <3> QED BY <3>1, <3>2
    <2> QED BY <2>1, <2>3, <2>4 DEF MatchFits
  <1> QED BY <1>1, <1>2, <1>3

LEMMA ExpireKeepsOffer ==
  ASSUME ~SlowRedis, TypeInv, NEW q \in Runs, OfferFits(q), MatchFits(q), ExpireOffer(TripOf[q])
  PROVE  OfferFits(q)' /\ MatchFits(q)'
  <1>0. TripOf[q] \in Trips
    OBVIOUS
  <1>1. ~RoundOpen(q)
    BY DEF ExpireOffer
  <1>2. ~Opened(q) /\ ~Accepted(q)
    BY <1>1 DEF RoundOpen, Opened, Accepted, DriverCall, TripCall
  <1>3. OfferFits(q)'
    BY <1>2 DEF ExpireOffer, OfferFits, Opened, Accepted
  <1>4. MatchFits(q)'
    BY <1>0 DEF TypeInv, TypeOK, ExpireOffer, MatchFits, tripVars
  <1> QED BY <1>3, <1>4

LEMMA OfferNext ==
  ASSUME OneRunPerTrip, ~SlowRedis, TypeInv, ReadIsFresh, OfferInv, [Next]_vars
  PROVE  OfferInv'
  <1> SUFFICES ASSUME NEW q \in Runs PROVE OfferFits(q)' /\ MatchFits(q)'
    BY DEF OfferInv
  <1>0. OfferFits(q) /\ MatchFits(q) /\ TripOf[q] \in Trips
    BY DEF OfferInv
  <1>1. CASE Step(q)
    BY <1>0, <1>1, StepOffer, StepMatch
  <1>2. CASE Request(q)
    BY <1>0, <1>2 DEF TypeInv, TypeOK, Request, Goto, OfferFits, MatchFits, Opened, Accepted, DriverCall,
       TripCall, offerVars
  <1>3. CASE ExpireOffer(TripOf[q])
    BY <1>0, <1>3, ExpireKeepsOffer
  <1>4. CASE Stopped(q) \/ Queues(q)
    BY <1>0, <1>4 DEF Stopped, Queues, TripKept, OfferFits, MatchFits, Opened, Accepted, DriverCall,
       TripCall, Ended
  <1>5. CASE Kept(q)
    BY <1>0, <1>5 DEF Kept, TripKept, OfferFits, MatchFits, Opened, Accepted
  <1> QED BY <1>1, <1>2, <1>3, <1>4, <1>5, NextForOne

\* A trip that no run works on is never created.
LEMMA IdleNext ==
  ASSUME TypeInv, IdleInv, [Next]_vars
  PROVE  IdleInv'
  <1> SUFFICES ASSUME NEW t \in Trips, \A r \in Runs : TripOf[r] # t PROVE Untouched(t)'
    BY DEF IdleInv
  <1>0. Untouched(t)
    BY DEF IdleInv
  <1>1. CASE TripKept(t)
    BY <1>0, <1>1 DEF TripKept, Untouched
  <1>2. ASSUME NEW r \in Runs, Step(r) \/ Request(r) PROVE TripKept(t)
    BY <1>2, StepKeepsTrips
  <1>3. ASSUME NEW r \in Runs, Cancel(r) PROVE TripKept(t)
    BY <1>3 DEF Cancel, TripKept, tripVars, offerVars
  <1>4. ASSUME NEW n \in Nodes, SweepList(n) \/ Crash(n) PROVE TripKept(t)
    BY <1>4 DEF SweepList, Crash, TripKept, tripVars, offerVars
  <1>5. ASSUME NEW d \in Drivers, DriverStep(d) PROVE TripKept(t)
    BY <1>5 DEF DriverStep, Respond, ExpireDriver, Ping, ExpirePointer, TripKept, tripVars, offerVars
  <1>6. ASSUME NEW m \in replies, LookUpOffer(m) \/ Deliver(m) PROVE TripKept(t)
    BY <1>6 DEF LookUpOffer, Deliver, TripKept, tripVars, offerVars
  <1>7. ASSUME NEW u \in Trips, ExpireOffer(u) PROVE TripKept(t)
    BY <1>0, <1>7 DEF TypeInv, TypeOK, ExpireOffer, Untouched, TripKept, tripVars
  <1>8. CASE UNCHANGED vars
    BY <1>1, <1>8 DEF vars, TripKept, tripVars, offerVars
  <1> QED BY <1>1, <1>2, <1>3, <1>4, <1>5, <1>6, <1>7, <1>8 DEF Next

LEMMA StoriesInit == Init => StageInv /\ OfferInv /\ IdleInv
  BY DEF Init, StageInv, OfferInv, IdleInv, StageFits, InLoop, OfferFits, MatchFits, Opened, Accepted,
         DriverCall, TripCall, InRound, OfferCall, Untouched

\* Cancellations, crashes and expired drivers notwithstanding, a MATCHED trip
\* names the driver whose acceptance its offer records, for as long as there is a record.
THEOREM MatchesAgree ==
  ASSUME OneRunPerTrip, ~SlowRedis
  PROVE  Spec => []MatchAgreesWithOffer
  <1> DEFINE Inv == TypeInv /\ ReadIsFresh /\ OfferInv /\ IdleInv
  <1>1. Init => Inv
    BY TypeInit, FreshInit, StoriesInit
  <1>2. Inv /\ [Next]_vars => Inv'
    BY TypeNext, FreshNext, OfferNext, IdleNext
  <1>3. Inv => MatchAgreesWithOffer
    BY DEF OfferInv, IdleInv, MatchFits, Untouched, MatchAgreesWithOffer
  <1> QED BY <1>1, <1>2, <1>3, PTL DEF Spec

-----------------------------------------------------------------------------
(* What needs that no run is cancelled and no node crashes: either would   *)
(* leave the open offer, the driver and the index as they are.             *)

NoFaults == MaxFaults = 0

LEMMA NoFaultStep ==
  ASSUME NoFaults, TypeInv
  PROVE  ~Fault
  BY DEF NoFaults, TypeInv, TypeOK, Fault, Cancel, Crash

\* An open offer has its round.
PendingFits(q) ==
  offer[TripOf[q]].state = "PENDING" => Opened(q) /\ cur[q] = offer[TripOf[q]].driver

PendingInv == \A q \in Runs : PendingFits(q)

LEMMA StepPending ==
  ASSUME TypeInv, NEW r \in Runs, PendingFits(r), Step(r)
  PROVE  PendingFits(r)'
  <1>0. TripOf[r] \in Trips
    OBVIOUS
  <1>1. CASE SetOfferStateWrite(r)
    <2>1. goal[r] \in {"ACCEPTED", "DECLINED", "TIMED_OUT"}
      BY <1>1 DEF TypeInv, RunOK, GoalFits, OfferCall, SetOfferStateWrite
    <2>2. offer'[TripOf[r]] = [driver |-> offer[TripOf[r]].driver, state |-> goal[r]]
      BY <1>1, WriteKeepsDriver DEF TypeInv, TypeOK
    <2> QED BY <2>1, <2>2 DEF PendingFits
  <1>2. CASE CreateOffer(r)
    BY <1>2 DEF TypeInv, TypeOK, CreateOffer, Goto, PendingFits, Opened
  <1>3. CASE ~SetOfferStateWrite(r) /\ ~CreateOffer(r)
    <2>1. UNCHANGED offer
      BY <1>3 DEF Step, Fetch, Poll, SearchFails, Ranked, Scan, NextCandidate, SweepOffer, SweepTrip,
         Load, GiveUp, TransitionRead, TransitionWrite, TransitionIndex, SetStateRead, SetStateWrite,
         OpenWaiter, Receive, Timeout, CloseWaiter, SetOfferStateRead, SetOfferStateClear, offerVars
    <2>2. ASSUME offer[TripOf[r]].state = "PENDING", Opened(r), cur[r] = offer[TripOf[r]].driver
          PROVE  Opened(r)' /\ cur'[r] = cur[r]
      <3>1. pc[r] = "offerRead" => goal[r] \in {"ACCEPTED", "DECLINED", "TIMED_OUT"}
        BY DEF TypeInv, RunOK, GoalFits, OfferCall
      <3>2. OpenWaiter(r) \/ Receive(r) \/ Timeout(r) \/ CloseWaiter(r) \/ SetOfferStateRead(r)
        BY <1>3, <2>2 DEF Opened, Step, Fetch, Poll, SearchFails, Ranked, Scan, NextCandidate,
           SweepOffer, SweepTrip, Load, GiveUp, TransitionRead, TransitionWrite, TransitionIndex,
           SetStateRead, SetStateWrite, SetOfferStateClear
      <3>3. CASE SetOfferStateRead(r)
        <4>1. pc[r] = "offerRead" /\ offer[TripOf[r]] # NoOffer
          BY <2>2, <3>3 DEF SetOfferStateRead, NoOffer
        <4>2. Goto(r, "offerWrite") /\ UNCHANGED loopVars
          BY <2>2, <3>1, <3>3, <4>1 DEF SetOfferStateRead, ValidOfferTransition, OfferTransitions
        <4> QED BY <4>2 DEF TypeInv, TypeOK, Goto, Opened, loopVars
      <3> QED BY <3>2, <3>3 DEF TypeInv, TypeOK, OpenWaiter, Receive, Timeout, CloseWaiter, Goto, Call,
                                Opened, loopVars
    <2> QED BY <2>1, <2>2 DEF PendingFits
  <1> QED BY <1>1, <1>2, <1>3

LEMMA PendingNext ==
  ASSUME OneRunPerTrip, NoFaults, TypeInv, PendingInv, [Next]_vars
  PROVE  PendingInv'
  <1> SUFFICES ASSUME NEW q \in Runs PROVE PendingFits(q)'
    BY DEF PendingInv
  <1>0. PendingFits(q) /\ TripOf[q] \in Trips
    BY DEF PendingInv
  <1>1. CASE Step(q)
    BY <1>0, <1>1, StepPending
  <1>2. CASE Request(q)
    BY <1>0, <1>2 DEF TypeInv, TypeOK, Request, Goto, PendingFits, Opened, offerVars
  <1>3. CASE ExpireOffer(TripOf[q])
    BY <1>0, <1>3 DEF TypeInv, TypeOK, ExpireOffer, NoOffer, PendingFits
  <1>4. CASE (Stopped(q) /\ pc[q] = "queued") \/ Queues(q)
    BY <1>0, <1>4 DEF Stopped, Queues, TripKept, PendingFits, Opened
  <1>5. CASE Kept(q)
    BY <1>0, <1>5 DEF Kept, TripKept, PendingFits, Opened
  <1> QED BY <1>1, <1>2, <1>3, <1>4, <1>5, NextForOne, NoFaultStep

\* Nobody can answer an offer that no loop waits for: an open offer is the
\* round its trip's run is playing with that driver, whatever expires early.
THEOREM PendingOffersHaveRounds ==
  ASSUME OneRunPerTrip, NoFaults
  PROVE  Spec => []PendingHasRound
  <1> DEFINE Inv == TypeInv /\ IdleInv /\ PendingInv
  <1>1. Init => Inv
    BY TypeInit, StoriesInit DEF Init, NoOffer, PendingInv, PendingFits
  <1>2. Inv /\ [Next]_vars => Inv'
    BY TypeNext, IdleNext, PendingNext
  <1>3. Inv => PendingHasRound
    <2> SUFFICES ASSUME Inv, NEW t \in Trips, offer[t].state = "PENDING"
                 PROVE  \E r \in Runs : /\ TripOf[r] = t /\ cur[r] = offer[t].driver
                                        /\ pc[r] \in {"open", "await", "close", "offerRead", "offerWrite"}
      BY DEF PendingHasRound
    <2>1. PICK r \in Runs : TripOf[r] = t
      BY DEF IdleInv, Untouched, NoOffer
    <2>2. Opened(r) /\ cur[r] = offer[t].driver
      BY <2>1 DEF PendingInv, PendingFits
    <2> QED BY <2>1, <2>2 DEF Opened
  <1> QED BY <1>1, <1>2, <1>3, PTL DEF Spec

\* The reverse index.  Of two trips that claimed the same driver, the one the
\* index points to is the one whose round it opened last.
InWindow(q) == Opened(q) \/ pc[q] = "offerClear"

LEMMA WindowStays ==
  ASSUME TypeInv, NEW r \in Runs, OfferFits(r), InWindow(r), Step(r), ~SetOfferStateClear(r)
  PROVE  InWindow(r)' /\ cur'[r] = cur[r]
  <1>1. Opened(r) => offer[TripOf[r]] = [driver |-> cur[r], state |-> "PENDING"]
    BY DEF OfferFits
  <1>2. pc[r] = "offerRead" => goal[r] \in {"ACCEPTED", "DECLINED", "TIMED_OUT"}
    BY DEF TypeInv, RunOK, GoalFits, OfferCall
  <1>3. \/ OpenWaiter(r) \/ Receive(r) \/ Timeout(r) \/ CloseWaiter(r)
        \/ SetOfferStateRead(r) \/ SetOfferStateWrite(r)
    BY DEF InWindow, Opened, Step, Fetch, Poll, SearchFails, Ranked, Scan, NextCandidate, SweepOffer,
       SweepTrip, Load, GiveUp, TransitionRead, TransitionWrite, TransitionIndex, SetStateRead,
       SetStateWrite, CreateOffer
  <1>4. CASE SetOfferStateRead(r)
    <2>1. offer[TripOf[r]] = [driver |-> cur[r], state |-> "PENDING"] /\ pc[r] = "offerRead"
      BY <1>1, <1>4 DEF SetOfferStateRead, Opened
    <2>2. Goto(r, "offerWrite") /\ UNCHANGED loopVars
      BY <1>2, <1>4, <2>1 DEF SetOfferStateRead, NoOffer, ValidOfferTransition, OfferTransitions
    <2> QED BY <2>2 DEF TypeInv, TypeOK, Goto, InWindow, Opened, loopVars
  <1>5. CASE ~SetOfferStateRead(r)
    BY <1>3, <1>5 DEF TypeInv, TypeOK, OpenWaiter, Receive, Timeout, CloseWaiter, SetOfferStateWrite,
       Goto, Call, InWindow, Opened, loopVars
  <1> QED BY <1>4, <1>5

\* Who writes to the index: CreateOffer's MULTI, the DEL that ends a round, a TTL.
LEMMA PointerWrites ==
  ASSUME TypeInv, [Next]_vars, NEW d \in Drivers, pointer'[d] # NoTrip
  PROVE  \/ pointer'[d] = pointer[d] /\ \A r \in Runs : SetOfferStateClear(r) => cur[r] # d
         \/ \E r \in Runs : CreateOffer(r) /\ cur[r] = d /\ pointer'[d] = TripOf[r]
  <1> DEFINE Old == pointer'[d] = pointer[d] /\ \A r \in Runs : SetOfferStateClear(r) => cur[r] # d
             New == \E r \in Runs : CreateOffer(r) /\ cur[r] = d /\ pointer'[d] = TripOf[r]
  <1> SUFFICES Old \/ New
    OBVIOUS
  <1>1. ASSUME NEW r \in Runs, SetOfferStateClear(r) PROVE cur[r] # d
    BY <1>1 DEF TypeInv, TypeOK, SetOfferStateClear
  <1>2. CASE pointer' = pointer
    BY <1>1, <1>2
  <1>3. ASSUME NEW r \in Runs, CreateOffer(r) PROVE Old \/ New
    BY <1>1, <1>3 DEF TypeInv, TypeOK, CreateOffer
  <1>4. ASSUME NEW r \in Runs, SetOfferStateClear(r) PROVE Old \/ New
    BY <1>1, <1>4 DEF TypeInv, TypeOK, SetOfferStateClear
  <1>5. ASSUME NEW e \in Drivers, ExpirePointer(e) PROVE Old \/ New
    BY <1>1, <1>5 DEF TypeInv, TypeOK, ExpirePointer
  <1>6. ASSUME NEW r \in Runs, Step(r), ~CreateOffer(r), ~SetOfferStateClear(r) PROVE pointer' = pointer
    BY <1>6 DEF Step, Fetch, Poll, SearchFails, Ranked, Scan, NextCandidate, SweepOffer, SweepTrip,
       Load, GiveUp, TransitionRead, TransitionWrite, TransitionIndex, SetStateRead, SetStateWrite,
       OpenWaiter, Receive, Timeout, CloseWaiter, SetOfferStateRead, SetOfferStateWrite, offerVars
  <1>7. ASSUME NEW r \in Runs, Request(r) \/ Cancel(r) PROVE pointer' = pointer
    BY <1>7 DEF Request, Cancel, offerVars
  <1>8. ASSUME NEW n \in Nodes, SweepList(n) \/ Crash(n) PROVE pointer' = pointer
    BY <1>8 DEF SweepList, Crash, offerVars
  <1>9. ASSUME NEW e \in Drivers, DriverStep(e), ~ExpirePointer(e) PROVE pointer' = pointer
    BY <1>9 DEF DriverStep, Respond, ExpireDriver, Ping, offerVars
  <1>10. ASSUME NEW m \in replies, LookUpOffer(m) \/ Deliver(m) PROVE pointer' = pointer
    BY <1>10 DEF LookUpOffer, Deliver, offerVars
  <1>11. ASSUME NEW t \in Trips, ExpireOffer(t) PROVE pointer' = pointer
    BY <1>11 DEF ExpireOffer
  <1>12. CASE UNCHANGED vars
    BY <1>2, <1>12 DEF vars, offerVars
  <1> HIDE DEF Old, New
  <1> QED BY <1>2, <1>3, <1>4, <1>5, <1>6, <1>7, <1>8, <1>9, <1>10, <1>11, <1>12 DEF Next

LEMMA PointerNext ==
  ASSUME OneRunPerTrip, NoFaults, TypeInv, OfferInv, PointerHasRound, [Next]_vars
  PROVE  PointerHasRound'
  <1> SUFFICES ASSUME NEW d \in Drivers, pointer'[d] # NoTrip
               PROVE  \E r \in Runs : TripOf[r] = pointer'[d] /\ cur'[r] = d /\ InWindow(r)'
    BY DEF PointerHasRound, InWindow, Opened
  <1>1. CASE \E r \in Runs : CreateOffer(r) /\ cur[r] = d /\ pointer'[d] = TripOf[r]
    BY <1>1 DEF TypeInv, TypeOK, CreateOffer, Goto, InWindow, Opened
  <1>2. CASE pointer'[d] = pointer[d] /\ \A r \in Runs : SetOfferStateClear(r) => cur[r] # d
    <2>1. PICK q \in Runs : TripOf[q] = pointer[d] /\ cur[q] = d /\ InWindow(q)
      BY <1>2 DEF PointerHasRound, InWindow, Opened
    <2>2. CASE Step(q)
      <3>1. OfferFits(q) /\ ~SetOfferStateClear(q)
        BY <1>2, <2>1 DEF OfferInv
      <3> QED BY <1>2, <2>1, <2>2, <3>1, WindowStays
    <2>3. CASE Kept(q)
      BY <1>2, <2>1, <2>3 DEF Kept, InWindow, Opened
    <2>4. CASE ExpireOffer(TripOf[q])
      BY <1>2, <2>1, <2>4 DEF ExpireOffer, InWindow, Opened, loopVars
    <2>5. ~Request(q) /\ pc[q] # "queued" /\ ~Queues(q)
      BY <2>1 DEF Request, Queues, InWindow, Opened
    <2> QED BY <2>2, <2>3, <2>4, <2>5, NextForOne, NoFaultStep
  <1> QED BY <1>1, <1>2, PointerWrites

\* A driver's poll never finds a round that is already resolved, also when two
\* trips have claimed the same driver.
THEOREM PointersHaveRounds ==
  ASSUME OneRunPerTrip, ~SlowRedis, NoFaults
  PROVE  Spec => []PointerHasRound
  <1> DEFINE Inv == TypeInv /\ ReadIsFresh /\ OfferInv /\ PointerHasRound
  <1>1. Init => Inv
    BY TypeInit, FreshInit, StoriesInit DEF Init, PointerHasRound
  <1>2. Inv /\ [Next]_vars => Inv'
    BY TypeNext, FreshNext, OfferNext, PointerNext
  <1> QED BY <1>1, <1>2, PTL DEF Spec

-----------------------------------------------------------------------------
(* The recovery index and the drivers sent on their way.                   *)

IndexFits(q) ==
    LET t == TripOf[q] IN (t \in index) # (tstate[t] = "OFFERED") => pc[q] = "tripIndex"

IndexInv == \A q \in Runs : IndexFits(q)

LEMMA StepIndex ==
  ASSUME TypeInv, NEW r \in Runs, StageFits(r), IndexFits(r), Step(r)
  PROVE  IndexFits(r)'
  <1>0. TripOf[r] \in Trips
    OBVIOUS
  <1>1. CASE TransitionWrite(r)
    BY <1>1 DEF TypeInv, TypeOK, TransitionWrite, Goto, IndexFits
  <1>2. CASE TransitionIndex(r)
    BY <1>2 DEF TypeInv, TypeOK, TransitionIndex, StageFits, IndexFits, TerminalTrip
  <1>3. CASE ~TransitionWrite(r) /\ ~TransitionIndex(r)
    <2>1. UNCHANGED <<tstate, index>> /\ pc[r] # "tripIndex"
      BY <1>3 DEF Step, Fetch, Poll, SearchFails, Ranked, Scan, NextCandidate, SweepOffer, SweepTrip,
         Load, GiveUp, TransitionRead, SetStateRead, SetStateWrite, CreateOffer, OpenWaiter, Receive,
         Timeout, CloseWaiter, SetOfferStateRead, SetOfferStateWrite, SetOfferStateClear, tripVars
    <2> QED BY <2>1 DEF IndexFits
  <1> QED BY <1>1, <1>2, <1>3

LEMMA IndexNext ==
  ASSUME OneRunPerTrip, NoFaults, TypeInv, StageInv, IndexInv, [Next]_vars
  PROVE  IndexInv'
  <1> SUFFICES ASSUME NEW q \in Runs PROVE IndexFits(q)'
    BY DEF IndexInv
  <1>0. StageFits(q) /\ IndexFits(q) /\ TripOf[q] \in Trips
    BY DEF IndexInv, StageInv
  <1>1. CASE Step(q)
    BY <1>0, <1>1, StepIndex
  <1>2. CASE Request(q)
    BY <1>0, <1>2 DEF TypeInv, TypeOK, Request, Goto, IndexFits
  <1>3. CASE ExpireOffer(TripOf[q])
    BY <1>0, <1>3 DEF ExpireOffer, IndexFits, tripVars
  <1>4. CASE (Stopped(q) /\ pc[q] = "queued") \/ Queues(q)
    BY <1>0, <1>4 DEF Stopped, Queues, TripKept, IndexFits
  <1>5. CASE Kept(q)
    BY <1>0, <1>5 DEF Kept, TripKept, IndexFits
  <1> QED BY <1>1, <1>2, <1>3, <1>4, <1>5, NextForOne, NoFaultStep

\* What a sweep lists is what is OFFERED, up to the one command by which
\* transitionTo is behind.
THEOREM IndexFollows ==
  ASSUME OneRunPerTrip, NoFaults
  PROVE  Spec => []IndexFollowsTrips
  <1> DEFINE Inv == TypeInv /\ StageInv /\ IndexInv /\ IdleInv
  <1>1. Init => Inv
    BY TypeInit, StoriesInit DEF Init, IndexInv, IndexFits
  <1>2. Inv /\ [Next]_vars => Inv'
    BY TypeNext, StageNext, IndexNext, IdleNext
  <1>3. Inv => IndexFollowsTrips
    BY DEF IdleInv, Untouched, IndexInv, IndexFits, StageInv, StageFits, IndexFollowsTrips
  <1> QED BY <1>1, <1>2, <1>3, PTL DEF Spec

\* A run that has its driver on the way and the match still to record.
Recording(q) == goal[q] = "MATCHED" /\ pc[q] \in {"tripRead", "tripWrite"}

LEMMA StepRecords ==
  ASSUME TypeInv, NEW r \in Runs, StageFits(r), Recording(r), Step(r)
  PROVE  \/ Recording(r)' /\ cur'[r] = cur[r]
         \/ tstate'[TripOf[r]] = "MATCHED" /\ tdriver'[TripOf[r]] = cur[r]
  <1>0. TripOf[r] \in Trips
    OBVIOUS
  <1>1. tstate[TripOf[r]] = "OFFERED"
    BY DEF Recording, StageFits, InLoop
  <1>2. TransitionRead(r) \/ TransitionWrite(r)
    BY DEF Recording, Step, Fetch, Poll, SearchFails, Ranked, Scan, NextCandidate, SweepOffer,
       SweepTrip, Load, GiveUp, TransitionIndex, SetStateRead, SetStateWrite, CreateOffer, OpenWaiter,
       Receive, Timeout, CloseWaiter, SetOfferStateRead, SetOfferStateWrite, SetOfferStateClear
  <1>3. CASE TransitionRead(r)
    BY <1>1, <1>3 DEF TypeInv, TypeOK, TransitionRead, ValidTripTransition, TripTransitions, Goto,
       Recording, loopVars
  <1>4. CASE TransitionWrite(r)
    BY <1>0, <1>4 DEF TypeInv, TypeOK, TransitionWrite, Recording
  <1> QED BY <1>2, <1>3, <1>4

\* The only write of EN_ROUTE is the one after an acceptance.
LEMMA EnRouteWrites ==
  ASSUME TypeInv, [Next]_vars, NEW d \in Drivers, dstate'[d] = "EN_ROUTE"
  PROVE  \/ dstate[d] = "EN_ROUTE"
         \/ \E r \in Runs : SetStateWrite(r) /\ goal[r] = "EN_ROUTE" /\ cur[r] = d
  <1>1. CASE UNCHANGED dstate
    BY <1>1
  <1>2. ASSUME NEW r \in Runs, Step(r) PROVE UNCHANGED dstate \/ SetStateWrite(r)
    BY <1>2 DEF Step, Fetch, Poll, SearchFails, Fail, EndRuns, Ranked, Scan, NextCandidate, SweepOffer,
       SweepTrip, Load, GiveUp, TransitionRead, TransitionWrite, TransitionIndex, SetStateRead,
       CreateOffer, OpenWaiter, Receive, Timeout, CloseWaiter, SetOfferStateRead, SetOfferStateWrite,
       SetOfferStateClear, driverVars
  <1>3. ASSUME NEW r \in Runs, SetStateWrite(r), dstate[d] # "EN_ROUTE"
        PROVE  goal[r] = "EN_ROUTE" /\ cur[r] = d
    BY <1>3 DEF TypeInv, TypeOK, SetStateWrite, PutDriver
  <1>4. ASSUME NEW r \in Runs, Request(r) \/ Cancel(r) PROVE UNCHANGED dstate
    BY <1>4 DEF Request, Cancel, Fail, EndRuns, driverVars
  <1>5. ASSUME NEW n \in Nodes, SweepList(n) \/ Crash(n) PROVE UNCHANGED dstate
    BY <1>5 DEF SweepList, Crash, EndRuns, driverVars
  <1>6. ASSUME NEW e \in Drivers, DriverStep(e) PROVE dstate[d] = "EN_ROUTE"
    BY <1>6 DEF TypeInv, TypeOK, DriverStep, Respond, ExpireDriver, Ping, ExpirePointer, driverVars
  <1>7. ASSUME NEW m \in replies, LookUpOffer(m) \/ Deliver(m) PROVE UNCHANGED dstate
    BY <1>7 DEF LookUpOffer, Deliver, driverVars
  <1>8. ASSUME NEW t \in Trips, ExpireOffer(t) PROVE UNCHANGED dstate
    BY <1>8 DEF ExpireOffer, driverVars
  <1>9. CASE UNCHANGED vars
    BY <1>9 DEF vars, driverVars
  <1> QED BY <1>1, <1>2, <1>3, <1>4, <1>5, <1>6, <1>7, <1>8, <1>9 DEF Next

LEMMA MatchStays ==
  ASSUME TypeInv, ReadIsFresh, [Next]_vars, NEW t \in Trips, tstate[t] = "MATCHED"
  PROVE  tstate'[t] = "MATCHED" /\ tdriver'[t] = tdriver[t]
  BY NextLifecycle DEF TypeInv, TypeOK, Lifecycle!Next, Lifecycle!Create, Lifecycle!Offer,
     Lifecycle!Match, Lifecycle!GiveUp, Lifecycle!Move

LEMMA EnRouteNext ==
  ASSUME OneRunPerTrip, NoFaults, TypeInv, ReadIsFresh, StageInv, EnRouteHasTrip, [Next]_vars
  PROVE  EnRouteHasTrip'
  <1> SUFFICES ASSUME NEW d \in Drivers, dstate'[d] = "EN_ROUTE"
               PROVE  \/ \E t \in Trips : tstate'[t] = "MATCHED" /\ tdriver'[t] = d
                      \/ \E r \in Runs : cur'[r] = d /\ Recording(r)'
    BY DEF EnRouteHasTrip, Recording
  <1>1. ASSUME NEW r \in Runs, SetStateWrite(r), goal[r] = "EN_ROUTE", cur[r] = d
        PROVE  cur'[r] = d /\ Recording(r)'
    BY <1>1 DEF TypeInv, TypeOK, SetStateWrite, Call, Recording, loopVars
  <1>2. CASE dstate[d] = "EN_ROUTE"
    <2>1. ASSUME NEW t \in Trips, tstate[t] = "MATCHED", tdriver[t] = d
          PROVE  tstate'[t] = "MATCHED" /\ tdriver'[t] = d
      BY <2>1, MatchStays
    <2>2. ASSUME NEW q \in Runs, cur[q] = d, Recording(q)
          PROVE  \/ cur'[q] = d /\ Recording(q)'
                 \/ tstate'[TripOf[q]] = "MATCHED" /\ tdriver'[TripOf[q]] = d
      <3>1. CASE Step(q)
        BY <2>2, <3>1, StepRecords DEF StageInv
      <3>2. CASE Kept(q)
        BY <2>2, <3>2 DEF Kept, Recording
      <3>3. CASE ExpireOffer(TripOf[q])
        BY <2>2, <3>3 DEF ExpireOffer, Recording, loopVars
      <3>4. ~Request(q) /\ pc[q] # "queued" /\ ~Queues(q)
        BY <2>2 DEF Request, Queues, Recording
      <3> QED BY <3>1, <3>2, <3>3, <3>4, NextForOne, NoFaultStep
    <2>3. \A q \in Runs : TripOf[q] \in Trips
      OBVIOUS
    <2> QED BY <1>2, <2>1, <2>2, <2>3 DEF EnRouteHasTrip, Recording
  <1> QED BY <1>1, <1>2, EnRouteWrites

\* No driver is sent on its way without a trip: the match that follows the
\* acceptance always finds its trip OFFERED.
THEOREM EnRouteDriversHaveTrips ==
  ASSUME OneRunPerTrip, NoFaults
  PROVE  Spec => []EnRouteHasTrip
  <1> DEFINE Inv == TypeInv /\ ReadIsFresh /\ StageInv /\ EnRouteHasTrip
  <1>1. Init => Inv
    BY TypeInit, FreshInit, StoriesInit DEF Init, EnRouteHasTrip
  <1>2. Inv /\ [Next]_vars => Inv'
    BY TypeNext, FreshNext, StageNext, EnRouteNext
  <1> QED BY <1>1, <1>2, PTL DEF Spec
=============================================================================
