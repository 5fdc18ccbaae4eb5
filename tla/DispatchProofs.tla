---------------------------- MODULE DispatchProofs ----------------------------
(***************************************************************************)
(* Proofs about Dispatch, for any number of trips, drivers, nodes and      *)
(* runs, any round cap and any number of faults: the types, and the two    *)
(* invariants that hold whatever runs work on a trip.  No OFFERED driver   *)
(* is forgotten by a loop that is still running, and the hub never names a *)
(* loop that has stopped waiting.                                          *)
(***************************************************************************)
EXTENDS Dispatch, TLAPS

-----------------------------------------------------------------------------
(* Type correctness.  TypeOK is not inductive: what a store call writes is *)
(* its argument, and the driver it concerns is the loop's current one.     *)

TripCall   == {"tripRead", "tripWrite", "tripIndex"}
DriverCall == {"driverRead", "driverWrite"}
OfferCall  == {"offerRead", "offerWrite", "offerClear"}
InRound    == {"create", "open", "await", "close"} \cup OfferCall

\* The argument of a store call is a state that call can be asked for.
GoalFits(r) ==
    /\ pc[r] \in TripCall => goal[r] \in {"OFFERED", "MATCHED", "UNFULFILLED"}
    /\ pc[r] \in DriverCall => goal[r] \in {"OFFERED", "EN_ROUTE", "AVAILABLE"}
    /\ pc[r] \in OfferCall => goal[r] \in {"ACCEPTED", "DECLINED", "TIMED_OUT"}

\* A run that calls about a driver has one.
CurFits(r) ==
    pc[r] \in DriverCall \cup InRound \/ (pc[r] \in TripCall /\ goal[r] = "MATCHED")
        => cur[r] \in Drivers

\* A round is only started below the cap.
RoundFits(r) ==
    (pc[r] \in DriverCall /\ goal[r] = "OFFERED") \/ pc[r] = "create" => rounds[r] < MaxRounds

RunOK(r) == GoalFits(r) /\ CurFits(r) /\ RoundFits(r)

TypeInv == TypeOK /\ \A r \in Runs : RunOK(r)

USE RunsAssumption, BoundsAssumption, SentinelAssumption

LEMMA TypeInit == Init => TypeInv
  BY DEF Init, TypeInv, TypeOK, RunOK, GoalFits, CurFits, RoundFits, TripCall, DriverCall,
         OfferCall, InRound, NoOffer, NoAnswer, PCs, Ended, DriverStates, NothingFound

\* Ending runs leaves every run well-formed.
LEMMA EndRunsType ==
  ASSUME TypeInv, NEW R \in SUBSET Runs, EndRuns(R),
         UNCHANGED <<tripVars, offerVars>>,
         waiters' \in [Nodes -> [Trips -> Runs \cup {NoRun}]],
         chan' \in [Runs -> Message \cup {NoAnswer}],
         replies' \in SUBSET [driver : Drivers, ans : Answers, node : Nodes, trip : Trips \cup {NoTrip}],
         faults' \in 0 .. MaxFaults
  PROVE  TypeInv'
  <1>1. TypeOK'
    BY DEF TypeInv, TypeOK, EndRuns, Forget, tripVars, offerVars, PCs, Ended, NothingFound
  <1>2. ASSUME NEW r \in Runs PROVE RunOK(r)'
    <2>1. CASE r \in R
      BY <2>1 DEF TypeInv, TypeOK, EndRuns, Forget, RunOK, GoalFits, CurFits, RoundFits,
                  TripCall, DriverCall, OfferCall, InRound
    <2>2. CASE r \notin R
      BY <2>2 DEF TypeInv, TypeOK, EndRuns, Forget, RunOK, GoalFits, CurFits, RoundFits
    <2> QED BY <2>1, <2>2
  <1> QED BY <1>1, <1>2 DEF TypeInv

\* TypeOK in two parts: what is shared, and the runs' locals.
OfferRecords == [driver : Drivers \cup {NoDriver}, state : OfferStates \cup {"NONE"}]

StoreTypes ==
    /\ tstate \in [Trips -> TripStates \cup {"NONE"}]
    /\ tdriver \in [Trips -> Drivers \cup {NoDriver}]
    /\ index \subseteq Trips
    /\ dstate \in [Drivers -> DriverStates \cup {"GONE"}]
    /\ located \subseteq Drivers /\ stranded \subseteq Drivers
    /\ offer \in [Trips -> OfferRecords]
    /\ pointer \in [Drivers -> Trips \cup {NoTrip}]
    /\ waiters \in [Nodes -> [Trips -> Runs \cup {NoRun}]]
    /\ chan \in [Runs -> Message \cup {NoAnswer}]
    /\ replies \subseteq [driver : Drivers, ans : Answers, node : Nodes, trip : Trips \cup {NoTrip}]
    /\ faults \in 0 .. MaxFaults

Goals == {"NONE"} \cup TripStates \cup DriverStates \cup OfferStates

RunTypes ==
    /\ pc \in [Runs -> PCs]
    /\ goal \in [Runs -> Goals]
    /\ cands \in [Runs -> [Drivers -> 0 .. MaxSeen]]
    /\ cur \in [Runs -> Drivers \cup {NoDriver}]
    /\ rounds \in [Runs -> 0 .. MaxRounds]
    /\ got \in [Runs -> Message \cup {NoAnswer}]

LEMMA TypeParts == TypeOK <=> StoreTypes /\ RunTypes
  BY DEF TypeOK, StoreTypes, RunTypes, Goals, OfferRecords

LEMMA TypePartsNext == TypeOK' <=> StoreTypes' /\ RunTypes'
  BY DEF TypeOK, StoreTypes, RunTypes, Goals, OfferRecords

LEMMA GotoTypes ==
  ASSUME RunTypes, NEW r \in Runs, NEW l \in PCs, Goto(r, l), UNCHANGED loopVars
  PROVE  RunTypes'
  BY DEF RunTypes, Goto, loopVars

LEMMA CallTypes ==
  ASSUME RunTypes, NEW r \in Runs, NEW l \in PCs, NEW to \in Goals, Call(r, l, to),
         UNCHANGED loopVars
  PROVE  RunTypes'
  BY DEF RunTypes, Call, loopVars

LEMMA NextRoundTypes ==
  ASSUME RunTypes, NEW r \in Runs, NextRound(r)
  PROVE  RunTypes'
  BY DEF RunTypes, NextRound, Call, PCs, Interruptible, Goals

LEMMA FinishTypes ==
  ASSUME RunTypes, NEW r \in Runs, Finish(r)
  PROVE  RunTypes'
  BY DEF RunTypes, Finish, Forget, PCs, Ended, Goals, NothingFound

LEMMA NextRoundOK ==
  ASSUME RunTypes, NEW r \in Runs, NextRound(r)
  PROVE  RunOK(r)'
  BY DEF RunTypes, NextRound, Call, RunOK, GoalFits, CurFits, RoundFits, TripCall, DriverCall,
         OfferCall, InRound

LEMMA FailType ==
  ASSUME TypeInv, NEW r \in Runs, Fail(r), UNCHANGED <<tripVars, offerVars, hubVars, replies>>,
         faults' \in 0 .. MaxFaults
  PROVE  TypeInv'
  <1>1. {r} \cup RestOfSweep(r) \in SUBSET Runs
    BY DEF RestOfSweep, Runs
  <1>2. EndRuns({r} \cup RestOfSweep(r))
    BY DEF Fail
  <1> QED
    BY <1>1, <1>2, EndRunsType DEF TypeInv, TypeOK, tripVars, offerVars, hubVars

\* A run that an action does not touch stays well-formed.
LEMMA OthersKeep ==
  ASSUME NEW q \in Runs, RunOK(q), pc'[q] = pc[q], goal'[q] = goal[q],
         cur'[q] = cur[q], rounds'[q] = rounds[q]
  PROVE  RunOK(q)'
  BY DEF RunOK, GoalFits, CurFits, RoundFits

LEMMA RequestType ==
  ASSUME TypeInv, NEW r \in Runs, Request(r)
  PROVE  TypeInv'
  <1>0. StoreTypes /\ RunTypes
    BY TypeParts DEF TypeInv
  <1>1. StoreTypes'
    BY <1>0 DEF TypeInv, StoreTypes, Request, driverVars, envVars, hubVars, offerVars, TripStates
  <1>2. RunTypes'
    BY <1>0, GotoTypes DEF Request, PCs, Interruptible, Ended
  <1>3. RunOK(r)'
    BY SMT DEF TypeInv, TypeOK, Request, Goto, driverVars, envVars, hubVars, loopVars,
           offerVars, RunOK, GoalFits, CurFits, RoundFits, TripCall, DriverCall, OfferCall,
           InRound
  <1>4. ASSUME NEW q \in Runs, q # r PROVE RunOK(q)'
    BY <1>4, OthersKeep DEF TypeInv, TypeOK, Request, Goto, driverVars, envVars, hubVars,
           loopVars, offerVars
  <1> QED BY <1>1, <1>2, <1>3, <1>4, TypePartsNext DEF TypeInv

LEMMA FetchType ==
  ASSUME TypeInv, NEW r \in Runs, Fetch(r)
  PROVE  TypeInv'
  <1>0. StoreTypes /\ RunTypes
    BY TypeParts DEF TypeInv
  <1>1. StoreTypes'
    BY <1>0 DEF TypeInv, StoreTypes, Fetch, driverVars, envVars, hubVars, offerVars, tripVars
  <1>2. RunTypes'
    BY <1>0, GotoTypes, FinishTypes DEF Fetch, PCs, Interruptible, Ended
  <1>3. RunOK(r)'
    BY SMT DEF TypeInv, TypeOK, Fetch, Goto, Finish, Forget, Ended, driverVars, envVars,
           hubVars, loopVars, offerVars, tripVars, RunOK, GoalFits, CurFits, RoundFits,
           TripCall, DriverCall, OfferCall, InRound
  <1>4. ASSUME NEW q \in Runs, q # r PROVE RunOK(q)'
    BY <1>4, OthersKeep DEF TypeInv, TypeOK, Fetch, Goto, Finish, Forget, Ended, driverVars,
           envVars, hubVars, loopVars, offerVars, tripVars
  <1> QED BY <1>1, <1>2, <1>3, <1>4, TypePartsNext DEF TypeInv

LEMMA PollType ==
  ASSUME TypeInv, NEW r \in Runs, Poll(r)
  PROVE  TypeInv'
  <1>0. StoreTypes /\ RunTypes
    BY TypeParts DEF TypeInv
  <1>1. StoreTypes'
    BY <1>0 DEF TypeInv, StoreTypes, Poll, driverVars, envVars, hubVars, offerVars, tripVars
  <1>2. RunTypes'
    BY <1>0, FinishTypes DEF Poll, PCs, Interruptible, Ended
  <1>3. RunOK(r)'
    BY SMT DEF TypeInv, TypeOK, Poll, Finish, Forget, Ended, driverVars, envVars, hubVars,
           offerVars, tripVars, RunOK, GoalFits, CurFits, RoundFits, TripCall, DriverCall,
           OfferCall, InRound
  <1>4. ASSUME NEW q \in Runs, q # r PROVE RunOK(q)'
    BY <1>4, OthersKeep DEF TypeInv, TypeOK, Poll, Finish, Forget, Ended, driverVars, envVars,
           hubVars, offerVars, tripVars
  <1> QED BY <1>1, <1>2, <1>3, <1>4, TypePartsNext DEF TypeInv

LEMMA ScanType ==
  ASSUME TypeInv, NEW r \in Runs, NEW d \in Drivers, Scan(r, d)
  PROVE  TypeInv'
  <1>0. StoreTypes /\ RunTypes
    BY TypeParts DEF TypeInv
  <1>1. StoreTypes'
    BY <1>0 DEF TypeInv, StoreTypes, Scan, driverVars, envVars, hubVars, offerVars, tripVars
  <1>2. RunTypes'
    BY <1>0 DEF TypeInv, RunTypes, Scan, driverVars, envVars, hubVars, offerVars, tripVars, PCs,
           Interruptible
  <1>3. RunOK(r)'
    BY SMT DEF TypeInv, TypeOK, Scan, driverVars, envVars, hubVars, offerVars, tripVars, RunOK,
           GoalFits, CurFits, RoundFits, TripCall, DriverCall, OfferCall, InRound
  <1>4. ASSUME NEW q \in Runs, q # r PROVE RunOK(q)'
    BY <1>4, OthersKeep DEF TypeInv, TypeOK, Scan, driverVars, envVars, hubVars, offerVars, tripVars
  <1> QED BY <1>1, <1>2, <1>3, <1>4, TypePartsNext DEF TypeInv

LEMMA SearchFailsType ==
  ASSUME TypeInv, NEW r \in Runs, SearchFails(r)
  PROVE  TypeInv'
  BY FailType DEF SearchFails, tripVars, offerVars, hubVars, envVars, TypeInv, TypeOK

LEMMA RankedType ==
  ASSUME TypeInv, NEW r \in Runs, Ranked(r)
  PROVE  TypeInv'
  <1>0. StoreTypes /\ RunTypes
    BY TypeParts DEF TypeInv
  <1>1. StoreTypes'
    BY <1>0 DEF TypeInv, StoreTypes, Ranked, driverVars, envVars, hubVars, offerVars, tripVars
  <1>2. RunTypes'
    BY <1>0, GotoTypes DEF Ranked, PCs, Interruptible, Ended
  <1>3. RunOK(r)'
    BY SMT DEF TypeInv, TypeOK, Ranked, Goto, driverVars, envVars, hubVars, loopVars, offerVars,
           tripVars, RunOK, GoalFits, CurFits, RoundFits, TripCall, DriverCall, OfferCall,
           InRound
  <1>4. ASSUME NEW q \in Runs, q # r PROVE RunOK(q)'
    BY <1>4, OthersKeep DEF TypeInv, TypeOK, Ranked, Goto, driverVars, envVars, hubVars,
           loopVars, offerVars, tripVars
  <1> QED BY <1>1, <1>2, <1>3, <1>4, TypePartsNext DEF TypeInv

LEMMA SweepOfferType ==
  ASSUME TypeInv, NEW r \in Runs, SweepOffer(r)
  PROVE  TypeInv'
  <1>1. CASE Fail(r)
    BY <1>1, FailType DEF SweepOffer, tripVars, offerVars, hubVars, envVars, TypeInv, TypeOK
  <1>2. CASE ~Fail(r)
    <2>0. StoreTypes /\ RunTypes
      BY TypeParts DEF TypeInv
    <2>1. StoreTypes'
      BY <1>2, <2>0 DEF TypeInv, StoreTypes, SweepOffer, driverVars, envVars, hubVars,
             offerVars, tripVars
    <2>2. RunTypes'
      BY <1>2, <2>0, GotoTypes, FinishTypes DEF SweepOffer, PCs, Interruptible, Ended
    <2>3. RunOK(r)'
      BY <1>2, SMT DEF TypeInv, TypeOK, SweepOffer, Goto, Finish, Forget, Ended, driverVars,
             envVars, hubVars, loopVars, offerVars, tripVars, RunOK, GoalFits, CurFits,
             RoundFits, TripCall, DriverCall, OfferCall, InRound
    <2>4. ASSUME NEW q \in Runs, q # r PROVE RunOK(q)'
      BY <1>2, <2>4, OthersKeep DEF TypeInv, TypeOK, SweepOffer, Goto, Finish, Forget, Ended,
             driverVars, envVars, hubVars, loopVars, offerVars, tripVars
    <2> QED BY <2>1, <2>2, <2>3, <2>4, TypePartsNext DEF TypeInv
  <1> QED BY <1>1, <1>2

LEMMA SweepTripType ==
  ASSUME TypeInv, NEW r \in Runs, SweepTrip(r)
  PROVE  TypeInv'
  <1>0. StoreTypes /\ RunTypes
    BY TypeParts DEF TypeInv
  <1>1. StoreTypes'
    BY <1>0 DEF TypeInv, StoreTypes, SweepTrip, driverVars, envVars, hubVars, offerVars, tripVars
  <1>2. RunTypes'
    BY <1>0, GotoTypes, FinishTypes DEF SweepTrip, PCs, Interruptible, Ended
  <1>3. RunOK(r)'
    BY SMT DEF TypeInv, TypeOK, SweepTrip, Goto, Finish, Forget, Ended, driverVars, envVars,
           hubVars, loopVars, offerVars, tripVars, RunOK, GoalFits, CurFits, RoundFits,
           TripCall, DriverCall, OfferCall, InRound
  <1>4. ASSUME NEW q \in Runs, q # r PROVE RunOK(q)'
    BY <1>4, OthersKeep DEF TypeInv, TypeOK, SweepTrip, Goto, Finish, Forget, Ended, driverVars,
           envVars, hubVars, loopVars, offerVars, tripVars
  <1> QED BY <1>1, <1>2, <1>3, <1>4, TypePartsNext DEF TypeInv

LEMMA LoadType ==
  ASSUME TypeInv, NEW r \in Runs, Load(r)
  PROVE  TypeInv'
  <1>1. CASE Fail(r)
    BY <1>1, FailType DEF Load, tripVars, offerVars, hubVars, envVars, TypeInv, TypeOK
  <1>2. CASE ~Fail(r)
    <2>0. StoreTypes /\ RunTypes
      BY TypeParts DEF TypeInv
    <2>1. StoreTypes'
      BY <1>2, <2>0 DEF TypeInv, StoreTypes, Load, driverVars, envVars, hubVars, offerVars, tripVars
    <2>2. RunTypes'
      BY <1>2, <2>0, GotoTypes, CallTypes DEF Load, PCs, Interruptible, Ended, Goals,
             TripStates, DriverStates, OfferStates
    <2>3. RunOK(r)'
      BY <1>2, SMT DEF TypeInv, TypeOK, Load, Goto, Call, driverVars, envVars, hubVars,
             loopVars, offerVars, tripVars, RunOK, GoalFits, CurFits, RoundFits, TripCall,
             DriverCall, OfferCall, InRound
    <2>4. ASSUME NEW q \in Runs, q # r PROVE RunOK(q)'
      BY <1>2, <2>4, OthersKeep DEF TypeInv, TypeOK, Load, Goto, Call, driverVars, envVars,
             hubVars, loopVars, offerVars, tripVars
    <2> QED BY <2>1, <2>2, <2>3, <2>4, TypePartsNext DEF TypeInv
  <1> QED BY <1>1, <1>2

LEMMA NextCandidateType ==
  ASSUME TypeInv, NEW r \in Runs, NEW d \in Drivers, NextCandidate(r, d)
  PROVE  TypeInv'
  <1>0. StoreTypes /\ RunTypes
    BY TypeParts DEF TypeInv
  <1>1. StoreTypes'
    BY <1>0 DEF TypeInv, StoreTypes, NextCandidate, driverVars, envVars, hubVars, offerVars, tripVars
  <1>2. RunTypes'
    BY <1>0 DEF TypeInv, RunTypes, NextCandidate, Call, driverVars, envVars, hubVars, offerVars,
           tripVars, PCs, Interruptible, Goals, TripStates, DriverStates, OfferStates
  <1>3. RunOK(r)'
    BY SMT DEF TypeInv, TypeOK, NextCandidate, Call, driverVars, envVars, hubVars, offerVars,
           tripVars, RunOK, GoalFits, CurFits, RoundFits, TripCall, DriverCall, OfferCall,
           InRound
  <1>4. ASSUME NEW q \in Runs, q # r PROVE RunOK(q)'
    BY <1>4, OthersKeep DEF TypeInv, TypeOK, NextCandidate, Call, driverVars, envVars, hubVars,
           offerVars, tripVars
  <1> QED BY <1>1, <1>2, <1>3, <1>4, TypePartsNext DEF TypeInv

LEMMA GiveUpType ==
  ASSUME TypeInv, NEW r \in Runs, GiveUp(r)
  PROVE  TypeInv'
  <1>0. StoreTypes /\ RunTypes
    BY TypeParts DEF TypeInv
  <1>1. StoreTypes'
    BY <1>0 DEF TypeInv, StoreTypes, GiveUp, driverVars, envVars, hubVars, offerVars, tripVars
  <1>2. RunTypes'
    BY <1>0, CallTypes DEF GiveUp, PCs, Interruptible, Ended, Goals, TripStates, DriverStates,
           OfferStates
  <1>3. RunOK(r)'
    BY SMT DEF TypeInv, TypeOK, GiveUp, Call, driverVars, envVars, hubVars, loopVars, offerVars,
           tripVars, RunOK, GoalFits, CurFits, RoundFits, TripCall, DriverCall, OfferCall,
           InRound
  <1>4. ASSUME NEW q \in Runs, q # r PROVE RunOK(q)'
    BY <1>4, OthersKeep DEF TypeInv, TypeOK, GiveUp, Call, driverVars, envVars, hubVars,
           loopVars, offerVars, tripVars
  <1> QED BY <1>1, <1>2, <1>3, <1>4, TypePartsNext DEF TypeInv

LEMMA TransitionReadType ==
  ASSUME TypeInv, NEW r \in Runs, TransitionRead(r)
  PROVE  TypeInv'
  <1>1. CASE Fail(r)
    BY <1>1, FailType DEF TransitionRead, tripVars, offerVars, hubVars, envVars, TypeInv, TypeOK
  <1>2. CASE ~Fail(r)
    <2>0. StoreTypes /\ RunTypes
      BY TypeParts DEF TypeInv
    <2>1. StoreTypes'
      BY <1>2, <2>0 DEF TypeInv, StoreTypes, TransitionRead, driverVars, envVars, hubVars,
             offerVars, tripVars
    <2>2. RunTypes'
      BY <1>2, <2>0, GotoTypes DEF TransitionRead, PCs, Interruptible, Ended
    <2>3. RunOK(r)'
      BY <1>2, SMT DEF TypeInv, TypeOK, TransitionRead, Goto, driverVars, envVars, hubVars,
             loopVars, offerVars, tripVars, RunOK, GoalFits, CurFits, RoundFits, TripCall,
             DriverCall, OfferCall, InRound
    <2>4. ASSUME NEW q \in Runs, q # r PROVE RunOK(q)'
      BY <1>2, <2>4, OthersKeep DEF TypeInv, TypeOK, TransitionRead, Goto, driverVars, envVars,
             hubVars, loopVars, offerVars, tripVars
    <2> QED BY <2>1, <2>2, <2>3, <2>4, TypePartsNext DEF TypeInv
  <1> QED BY <1>1, <1>2

LEMMA TransitionWriteType ==
  ASSUME TypeInv, NEW r \in Runs, TransitionWrite(r)
  PROVE  TypeInv'
  <1>0. StoreTypes /\ RunTypes
    BY TypeParts DEF TypeInv
  <1>1. StoreTypes'
    BY <1>0 DEF TypeInv, StoreTypes, TransitionWrite, driverVars, envVars, hubVars, offerVars,
           TripStates, GoalFits, CurFits, RunOK, TripCall, RunTypes
  <1>2. RunTypes'
    BY <1>0, GotoTypes DEF TransitionWrite, PCs, Interruptible, Ended
  <1>3. RunOK(r)'
    BY SMT DEF TypeInv, TypeOK, TransitionWrite, Goto, driverVars, envVars, hubVars, loopVars,
           offerVars, RunOK, GoalFits, CurFits, RoundFits, TripCall, DriverCall, OfferCall,
           InRound
  <1>4. ASSUME NEW q \in Runs, q # r PROVE RunOK(q)'
    BY <1>4, OthersKeep DEF TypeInv, TypeOK, TransitionWrite, Goto, driverVars, envVars,
           hubVars, loopVars, offerVars
  <1> QED BY <1>1, <1>2, <1>3, <1>4, TypePartsNext DEF TypeInv

LEMMA TransitionIndexType ==
  ASSUME TypeInv, NEW r \in Runs, TransitionIndex(r)
  PROVE  TypeInv'
  <1>0. StoreTypes /\ RunTypes
    BY TypeParts DEF TypeInv
  <1>1. StoreTypes'
    BY <1>0 DEF TypeInv, StoreTypes, TransitionIndex, driverVars, envVars, hubVars, offerVars
  <1>2. RunTypes'
    BY <1>0, NextRoundTypes, FinishTypes DEF TransitionIndex, PCs, Interruptible, Ended
  <1>3. RunOK(r)'
    BY SMT DEF TypeInv, TypeOK, TransitionIndex, NextRound, Call, Finish, Forget, Ended,
           driverVars, envVars, hubVars, offerVars, RunOK, GoalFits, CurFits, RoundFits,
           TripCall, DriverCall, OfferCall, InRound, TerminalTrip
  <1>4. ASSUME NEW q \in Runs, q # r PROVE RunOK(q)'
    BY <1>4, OthersKeep DEF TypeInv, TypeOK, TransitionIndex, NextRound, Call, Finish, Forget,
           Ended, driverVars, envVars, hubVars, offerVars
  <1> QED BY <1>1, <1>2, <1>3, <1>4, TypePartsNext DEF TypeInv

LEMMA SetStateReadType ==
  ASSUME TypeInv, NEW r \in Runs, SetStateRead(r)
  PROVE  TypeInv'
  <1>1. CASE Fail(r)
    BY <1>1, FailType DEF SetStateRead, tripVars, offerVars, hubVars, envVars, TypeInv, TypeOK
  <1>2. CASE ~Fail(r)
    <2>0. StoreTypes /\ RunTypes
      BY TypeParts DEF TypeInv
    <2>1. StoreTypes'
      BY <1>2, <2>0 DEF TypeInv, StoreTypes, SetStateRead, driverVars, envVars, hubVars,
             offerVars, tripVars
    <2>2. RunTypes'
      BY <1>2, <2>0, GotoTypes, CallTypes, NextRoundTypes DEF SetStateRead, PCs, Interruptible,
             Ended, Goals, TripStates, DriverStates, OfferStates
    <2>3. RunOK(r)'
      <3>1. CASE NextRound(r)
        BY <3>1, <2>0, NextRoundOK
      <3>0. pc[r] \in DriverCall /\ cur[r] \in Drivers /\ RunOK(r)
        BY DEF TypeInv, SetStateRead, RunOK, CurFits, DriverCall, InRound, OfferCall
      <3>2. CASE Goto(r, "driverWrite") /\ UNCHANGED loopVars
        BY <3>2, <2>0, <3>0 DEF TypeInv, SetStateRead, RunTypes, Goto, loopVars, RunOK,
               GoalFits, CurFits, RoundFits, TripCall, DriverCall, OfferCall, InRound
      <3>3. CASE Call(r, "tripRead", "MATCHED") /\ UNCHANGED loopVars
        BY <3>3, <2>0, <3>0 DEF RunTypes, Call, loopVars, RunOK, GoalFits, CurFits, RoundFits,
               TripCall, DriverCall, OfferCall, InRound
      <3> QED BY <1>2, <3>1, <3>2, <3>3 DEF SetStateRead
    <2>4. ASSUME NEW q \in Runs, q # r PROVE RunOK(q)'
      BY <1>2, <2>4, OthersKeep DEF TypeInv, TypeOK, SetStateRead, Goto, Call, NextRound,
             driverVars, envVars, hubVars, loopVars, offerVars, tripVars
    <2> QED BY <2>1, <2>2, <2>3, <2>4, TypePartsNext DEF TypeInv
  <1> QED BY <1>1, <1>2

LEMMA SetStateWriteType ==
  ASSUME TypeInv, NEW r \in Runs, SetStateWrite(r)
  PROVE  TypeInv'
  <1>0. StoreTypes /\ RunTypes
    BY TypeParts DEF TypeInv
  <1>1. StoreTypes'
    BY <1>0 DEF TypeInv, StoreTypes, SetStateWrite, PutDriver, envVars, hubVars, offerVars,
           tripVars, DriverStates, GoalFits, CurFits, RunOK, DriverCall, RunTypes
  <1>2. RunTypes'
    BY <1>0, GotoTypes, CallTypes, NextRoundTypes DEF SetStateWrite, PCs, Interruptible, Ended,
           Goals, TripStates, DriverStates, OfferStates
  <1>3. RunOK(r)'
    <2>1. CASE NextRound(r)
      BY <2>1, <1>0, NextRoundOK
    <2>0. pc[r] \in DriverCall /\ cur[r] \in Drivers /\ RunOK(r)
      BY DEF TypeInv, SetStateWrite, RunOK, CurFits, DriverCall, InRound, OfferCall
    <2>2. CASE goal[r] = "OFFERED" /\ Goto(r, "create") /\ UNCHANGED loopVars
      BY <2>2, <1>0, <2>0 DEF TypeInv, SetStateWrite, RunTypes, Goto, loopVars, RunOK, GoalFits,
             CurFits, RoundFits, TripCall, DriverCall, OfferCall, InRound
    <2>3. CASE Call(r, "tripRead", "MATCHED") /\ UNCHANGED loopVars
      BY <2>3, <1>0, <2>0 DEF RunTypes, Call, loopVars, RunOK, GoalFits, CurFits, RoundFits,
             TripCall, DriverCall, OfferCall, InRound
    <2> QED BY <2>1, <2>2, <2>3 DEF SetStateWrite
  <1>4. ASSUME NEW q \in Runs, q # r PROVE RunOK(q)'
    BY <1>4, OthersKeep DEF TypeInv, TypeOK, SetStateWrite, Goto, Call, NextRound, PutDriver,
           envVars, hubVars, loopVars, offerVars, tripVars
  <1> QED BY <1>1, <1>2, <1>3, <1>4, TypePartsNext DEF TypeInv

LEMMA CreateOfferType ==
  ASSUME TypeInv, NEW r \in Runs, CreateOffer(r)
  PROVE  TypeInv'
  <1>0. StoreTypes /\ RunTypes
    BY TypeParts DEF TypeInv
  <1>1. StoreTypes'
    BY <1>0 DEF TypeInv, StoreTypes, CreateOffer, driverVars, envVars, hubVars, tripVars,
           OfferRecords, OfferStates, RunOK, CurFits, InRound, RunTypes
  <1>2. RunTypes'
    BY <1>0 DEF TypeInv, RunTypes, CreateOffer, Goto, driverVars, envVars, hubVars, tripVars,
           PCs, Interruptible, RunOK, RoundFits, CurFits, InRound
  <1>3. RunOK(r)'
    BY SMT DEF TypeInv, TypeOK, CreateOffer, Goto, driverVars, envVars, hubVars, tripVars,
           RunOK, GoalFits, CurFits, RoundFits, TripCall, DriverCall, OfferCall, InRound
  <1>4. ASSUME NEW q \in Runs, q # r PROVE RunOK(q)'
    BY <1>4, OthersKeep DEF TypeInv, TypeOK, CreateOffer, Goto, driverVars, envVars, hubVars, tripVars
  <1> QED BY <1>1, <1>2, <1>3, <1>4, TypePartsNext DEF TypeInv

LEMMA OpenWaiterType ==
  ASSUME TypeInv, NEW r \in Runs, OpenWaiter(r)
  PROVE  TypeInv'
  <1>0. StoreTypes /\ RunTypes
    BY TypeParts DEF TypeInv
  <1>1. StoreTypes'
    BY <1>0 DEF TypeInv, StoreTypes, OpenWaiter, driverVars, envVars, offerVars, tripVars, Message
  <1>2. RunTypes'
    BY <1>0, GotoTypes DEF OpenWaiter, PCs, Interruptible, Ended
  <1>3. RunOK(r)'
    BY SMT DEF TypeInv, TypeOK, OpenWaiter, Goto, driverVars, envVars, loopVars, offerVars,
           tripVars, RunOK, GoalFits, CurFits, RoundFits, TripCall, DriverCall, OfferCall,
           InRound
  <1>4. ASSUME NEW q \in Runs, q # r PROVE RunOK(q)'
    BY <1>4, OthersKeep DEF TypeInv, TypeOK, OpenWaiter, Goto, driverVars, envVars, loopVars,
           offerVars, tripVars
  <1> QED BY <1>1, <1>2, <1>3, <1>4, TypePartsNext DEF TypeInv

LEMMA ReceiveType ==
  ASSUME TypeInv, NEW r \in Runs, Receive(r)
  PROVE  TypeInv'
  <1>0. StoreTypes /\ RunTypes
    BY TypeParts DEF TypeInv
  <1>1. StoreTypes'
    BY <1>0 DEF TypeInv, StoreTypes, Receive, driverVars, envVars, offerVars, tripVars, Message,
           RunTypes
  <1>2. RunTypes'
    BY <1>0 DEF TypeInv, RunTypes, Receive, Goto, driverVars, envVars, offerVars, tripVars, PCs,
           Interruptible, StoreTypes
  <1>3. RunOK(r)'
    BY SMT DEF TypeInv, TypeOK, Receive, Goto, driverVars, envVars, offerVars, tripVars, RunOK,
           GoalFits, CurFits, RoundFits, TripCall, DriverCall, OfferCall, InRound
  <1>4. ASSUME NEW q \in Runs, q # r PROVE RunOK(q)'
    BY <1>4, OthersKeep DEF TypeInv, TypeOK, Receive, Goto, driverVars, envVars, offerVars, tripVars
  <1> QED BY <1>1, <1>2, <1>3, <1>4, TypePartsNext DEF TypeInv

LEMMA TimeoutType ==
  ASSUME TypeInv, NEW r \in Runs, Timeout(r)
  PROVE  TypeInv'
  <1>0. StoreTypes /\ RunTypes
    BY TypeParts DEF TypeInv
  <1>1. StoreTypes'
    BY <1>0 DEF TypeInv, StoreTypes, Timeout, driverVars, envVars, hubVars, offerVars, tripVars
  <1>2. RunTypes'
    BY <1>0 DEF TypeInv, RunTypes, Timeout, Goto, driverVars, envVars, hubVars, offerVars,
           tripVars, PCs, Interruptible, StoreTypes
  <1>3. RunOK(r)'
    BY SMT DEF TypeInv, TypeOK, Timeout, Goto, driverVars, envVars, hubVars, offerVars,
           tripVars, RunOK, GoalFits, CurFits, RoundFits, TripCall, DriverCall, OfferCall,
           InRound
  <1>4. ASSUME NEW q \in Runs, q # r PROVE RunOK(q)'
    BY <1>4, OthersKeep DEF TypeInv, TypeOK, Timeout, Goto, driverVars, envVars, hubVars,
           offerVars, tripVars
  <1> QED BY <1>1, <1>2, <1>3, <1>4, TypePartsNext DEF TypeInv

LEMMA CloseWaiterType ==
  ASSUME TypeInv, NEW r \in Runs, CloseWaiter(r)
  PROVE  TypeInv'
  <1>0. StoreTypes /\ RunTypes
    BY TypeParts DEF TypeInv
  <1>1. StoreTypes'
    BY <1>0 DEF TypeInv, StoreTypes, CloseWaiter, driverVars, envVars, offerVars, tripVars, Message
  <1>2. RunTypes'
    BY <1>0, CallTypes DEF CloseWaiter, PCs, Interruptible, Ended, Goals, TripStates,
           DriverStates, OfferStates, OutcomeOf
  <1>3. RunOK(r)'
    BY SMT DEF TypeInv, TypeOK, CloseWaiter, Call, driverVars, envVars, loopVars, offerVars,
           tripVars, RunOK, GoalFits, CurFits, RoundFits, TripCall, DriverCall, OfferCall,
           InRound, OutcomeOf
  <1>4. ASSUME NEW q \in Runs, q # r PROVE RunOK(q)'
    BY <1>4, OthersKeep DEF TypeInv, TypeOK, CloseWaiter, Call, driverVars, envVars, loopVars,
           offerVars, tripVars
  <1> QED BY <1>1, <1>2, <1>3, <1>4, TypePartsNext DEF TypeInv

LEMMA SetOfferStateReadType ==
  ASSUME TypeInv, NEW r \in Runs, SetOfferStateRead(r)
  PROVE  TypeInv'
  <1>1. CASE Fail(r)
    BY <1>1, FailType DEF SetOfferStateRead, tripVars, offerVars, hubVars, envVars, TypeInv, TypeOK
  <1>2. CASE ~Fail(r)
    <2>0. StoreTypes /\ RunTypes
      BY TypeParts DEF TypeInv
    <2>1. StoreTypes'
      BY <1>2, <2>0 DEF TypeInv, StoreTypes, SetOfferStateRead, driverVars, envVars, hubVars,
             offerVars, tripVars
    <2>2. RunTypes'
      BY <1>2, <2>0, GotoTypes, CallTypes DEF SetOfferStateRead, PCs, Interruptible, Ended,
             Goals, TripStates, DriverStates, OfferStates
    <2>3. RunOK(r)'
      BY <1>2, SMT DEF TypeInv, TypeOK, SetOfferStateRead, Goto, Call, driverVars, envVars,
             hubVars, loopVars, offerVars, tripVars, RunOK, GoalFits, CurFits, RoundFits,
             TripCall, DriverCall, OfferCall, InRound
    <2>4. ASSUME NEW q \in Runs, q # r PROVE RunOK(q)'
      BY <1>2, <2>4, OthersKeep DEF TypeInv, TypeOK, SetOfferStateRead, Goto, Call, driverVars,
             envVars, hubVars, loopVars, offerVars, tripVars
    <2> QED BY <2>1, <2>2, <2>3, <2>4, TypePartsNext DEF TypeInv
  <1> QED BY <1>1, <1>2

LEMMA SetOfferStateWriteType ==
  ASSUME TypeInv, NEW r \in Runs, SetOfferStateWrite(r)
  PROVE  TypeInv'
  <1>0. StoreTypes /\ RunTypes
    BY TypeParts DEF TypeInv
  <1>1. StoreTypes'
    <2>1. goal[r] \in OfferStates
      BY DEF TypeInv, SetOfferStateWrite, RunOK, GoalFits, OfferCall, OfferStates
    <2>2. TripOf[r] \in Trips
      OBVIOUS
    <2>3. offer[TripOf[r]] \in OfferRecords
      BY <1>0, <2>2 DEF StoreTypes
    <2>4. [offer[TripOf[r]] EXCEPT !.state = goal[r]] \in OfferRecords
      BY <2>1, <2>3 DEF OfferRecords
    <2>5. offer' \in [Trips -> OfferRecords]
      BY <1>0, <2>2, <2>4 DEF StoreTypes, SetOfferStateWrite
    <2> QED
      BY <1>0, <2>5 DEF StoreTypes, SetOfferStateWrite, driverVars, envVars,
         hubVars, tripVars
  <1>2. RunTypes'
    BY <1>0, GotoTypes DEF SetOfferStateWrite, PCs, Interruptible, Ended
  <1>3. RunOK(r)'
    BY SMT DEF TypeInv, TypeOK, SetOfferStateWrite, Goto, driverVars, envVars, hubVars,
           loopVars, tripVars, RunOK, GoalFits, CurFits, RoundFits, TripCall, DriverCall,
           OfferCall, InRound
  <1>4. ASSUME NEW q \in Runs, q # r PROVE RunOK(q)'
    BY <1>4, OthersKeep DEF TypeInv, TypeOK, SetOfferStateWrite, Goto, driverVars, envVars,
           hubVars, loopVars, tripVars
  <1> QED BY <1>1, <1>2, <1>3, <1>4, TypePartsNext DEF TypeInv

LEMMA SetOfferStateClearType ==
  ASSUME TypeInv, NEW r \in Runs, SetOfferStateClear(r)
  PROVE  TypeInv'
  <1>0. StoreTypes /\ RunTypes
    BY TypeParts DEF TypeInv
  <1>1. StoreTypes'
    BY <1>0 DEF TypeInv, StoreTypes, SetOfferStateClear, driverVars, envVars, hubVars, tripVars,
           RunOK, CurFits, InRound, OfferCall, RunTypes
  <1>2. RunTypes'
    BY <1>0, CallTypes DEF SetOfferStateClear, PCs, Interruptible, Ended, Goals, TripStates,
           DriverStates, OfferStates
  <1>3. RunOK(r)'
    BY SMT DEF TypeInv, TypeOK, SetOfferStateClear, Call, driverVars, envVars, hubVars,
           loopVars, tripVars, RunOK, GoalFits, CurFits, RoundFits, TripCall, DriverCall,
           OfferCall, InRound
  <1>4. ASSUME NEW q \in Runs, q # r PROVE RunOK(q)'
    BY <1>4, OthersKeep DEF TypeInv, TypeOK, SetOfferStateClear, Call, driverVars, envVars,
           hubVars, loopVars, tripVars
  <1> QED BY <1>1, <1>2, <1>3, <1>4, TypePartsNext DEF TypeInv

LEMMA SweepListType ==
  ASSUME TypeInv, NEW n \in Nodes, SweepList(n)
  PROVE  TypeInv'
  <1>1. TypeOK'
    BY DEF TypeInv, TypeOK, SweepList, tripVars, driverVars, offerVars, hubVars, loopVars, envVars,
           PCs, Interruptible
  <1>2. ASSUME NEW r \in Runs PROVE RunOK(r)'
    BY DEF TypeInv, TypeOK, SweepList, loopVars, RunOK, GoalFits, CurFits, RoundFits, TripCall,
           DriverCall, OfferCall, InRound
  <1> QED BY <1>1, <1>2 DEF TypeInv

\* What happens outside the runs leaves their locals alone.
LEMMA OutsideType ==
  ASSUME TypeInv, StoreTypes', UNCHANGED <<pc, goal, loopVars>>
  PROVE  TypeInv'
  <1>1. RunTypes'
    BY TypeParts DEF TypeInv, RunTypes, loopVars
  <1>2. ASSUME NEW r \in Runs PROVE RunOK(r)'
    BY DEF TypeInv, loopVars, RunOK, GoalFits, CurFits, RoundFits
  <1> QED BY <1>1, <1>2, TypePartsNext DEF TypeInv

LEMMA RespondType ==
  ASSUME TypeInv, NEW d \in Drivers, NEW ans \in Answers, Respond(d, ans)
  PROVE  TypeInv'
  <1>1. Owner[pointer[d]] \in Nodes
    BY DEF TypeInv, TypeOK, Respond
  <1>2. StoreTypes'
    BY <1>1, TypeParts DEF TypeInv, StoreTypes, Respond, tripVars, driverVars, offerVars, hubVars
  <1> QED BY <1>2, OutsideType DEF Respond

LEMMA LookUpOfferType ==
  ASSUME TypeInv, NEW m \in replies, LookUpOffer(m)
  PROVE  TypeInv'
  <1>1. StoreTypes'
    BY TypeParts DEF TypeInv, StoreTypes, LookUpOffer, tripVars, driverVars, offerVars, hubVars
  <1> QED BY <1>1, OutsideType DEF LookUpOffer

LEMMA DeliverType ==
  ASSUME TypeInv, NEW m \in replies, Deliver(m)
  PROVE  TypeInv'
  <1>1. waiters[m.node][m.trip] # NoRun => waiters[m.node][m.trip] \in Runs
    BY DEF TypeInv, TypeOK, Deliver
  <1>2. [from |-> m.driver, ans |-> m.ans] \in Message
    BY DEF TypeInv, TypeOK, Message
  <1>3. StoreTypes'
    BY <1>1, <1>2, TypeParts DEF TypeInv, StoreTypes, Deliver, tripVars, driverVars, offerVars
  <1> QED BY <1>3, OutsideType DEF Deliver

LEMMA ExpireDriverType ==
  ASSUME TypeInv, NEW d \in Drivers, ExpireDriver(d)
  PROVE  TypeInv'
  <1>1. StoreTypes'
    BY TypeParts DEF TypeInv, StoreTypes, ExpireDriver, tripVars, offerVars, hubVars, envVars
  <1> QED BY <1>1, OutsideType DEF ExpireDriver

LEMMA PingType ==
  ASSUME TypeInv, NEW d \in Drivers, Ping(d)
  PROVE  TypeInv'
  <1>1. StoreTypes'
    BY TypeParts DEF TypeInv, StoreTypes, Ping, tripVars, offerVars, hubVars, envVars, DriverStates
  <1> QED BY <1>1, OutsideType DEF Ping

LEMMA ExpireOfferType ==
  ASSUME TypeInv, NEW t \in Trips, ExpireOffer(t)
  PROVE  TypeInv'
  <1>1. StoreTypes'
    BY TypeParts DEF TypeInv, StoreTypes, ExpireOffer, tripVars, driverVars, hubVars, envVars,
                     NoOffer, OfferRecords
  <1> QED BY <1>1, OutsideType DEF ExpireOffer

LEMMA ExpirePointerType ==
  ASSUME TypeInv, NEW d \in Drivers, ExpirePointer(d)
  PROVE  TypeInv'
  <1>1. StoreTypes'
    BY TypeParts DEF TypeInv, StoreTypes, ExpirePointer, tripVars, driverVars, hubVars, envVars
  <1> QED BY <1>1, OutsideType DEF ExpirePointer

LEMMA CancelType ==
  ASSUME TypeInv, NEW r \in Runs, Cancel(r)
  PROVE  TypeInv'
  <1>1. faults' \in 0 .. MaxFaults
    BY DEF TypeInv, TypeOK, Cancel
  <1> QED BY <1>1, FailType DEF Cancel

LEMMA CrashType ==
  ASSUME TypeInv, NEW n \in Nodes, Crash(n)
  PROVE  TypeInv'
  <1>1. waiters' \in [Nodes -> [Trips -> Runs \cup {NoRun}]]
    BY DEF TypeInv, TypeOK, Crash
  <1>2. chan' \in [Runs -> Message \cup {NoAnswer}]
    BY DEF TypeInv, TypeOK, Crash
  <1>3. /\ replies' \in SUBSET [driver : Drivers, ans : Answers, node : Nodes, trip : Trips \cup {NoTrip}]
        /\ faults' \in 0 .. MaxFaults
    BY DEF TypeInv, TypeOK, Crash
  <1> QED BY <1>1, <1>2, <1>3, EndRunsType DEF Crash

LEMMA TypeNext == TypeInv /\ [Next]_vars => TypeInv'
  <1> SUFFICES ASSUME TypeInv, [Next]_vars PROVE TypeInv'
    OBVIOUS
  <1>1. CASE UNCHANGED vars
    BY <1>1 DEF TypeInv, TypeOK, RunOK, GoalFits, CurFits, RoundFits, vars, tripVars, driverVars,
                offerVars, hubVars, loopVars, envVars
  <1>2. ASSUME NEW r \in Runs, Step(r) PROVE TypeInv'
    BY <1>2, FetchType, PollType, ScanType, SearchFailsType, RankedType, SweepOfferType,
       SweepTripType, LoadType, NextCandidateType, GiveUpType, TransitionReadType,
       TransitionWriteType, TransitionIndexType, SetStateReadType, SetStateWriteType,
       CreateOfferType, OpenWaiterType, ReceiveType, TimeoutType, CloseWaiterType,
       SetOfferStateReadType, SetOfferStateWriteType, SetOfferStateClearType DEF Step
  <1>3. ASSUME NEW r \in Runs, Request(r) \/ Cancel(r) PROVE TypeInv'
    BY <1>3, RequestType, CancelType
  <1>4. ASSUME NEW n \in Nodes, SweepList(n) \/ Crash(n) PROVE TypeInv'
    BY <1>4, SweepListType, CrashType
  <1>5. ASSUME NEW d \in Drivers, DriverStep(d) PROVE TypeInv'
    BY <1>5, RespondType, ExpireDriverType, PingType, ExpirePointerType DEF DriverStep
  <1>6. ASSUME NEW m \in replies, LookUpOffer(m) \/ Deliver(m) PROVE TypeInv'
    BY <1>6, LookUpOfferType, DeliverType
  <1>7. ASSUME NEW t \in Trips, ExpireOffer(t) PROVE TypeInv'
    BY <1>7, ExpireOfferType
  <1> QED BY <1>1, <1>2, <1>3, <1>4, <1>5, <1>6, <1>7 DEF Next

\* Every variable keeps its type: a trip, driver or offer record only ever
\* holds a state of its machine, and a run never opens more than MaxRounds offers.
THEOREM TypeCorrect == Spec => []TypeOK
  <1>1. Spec => []TypeInv
    BY TypeInit, TypeNext, PTL DEF Spec
  <1>2. TypeInv => TypeOK
    BY DEF TypeInv
  <1> QED BY <1>1, <1>2, PTL

-----------------------------------------------------------------------------
(* DriverAccounted.  It is inductive on the type invariant: a run stops    *)
(* holding a driver only by moving it out of OFFERED, by finding it out of *)
(* OFFERED, or by ending, which is what stranded records.                  *)

LEMMA AccountedInit == Init => DriverAccounted
  BY DEF Init, DriverAccounted

\* A run that an action does not touch goes on holding its driver.
LEMMA HoldersKeep ==
  ASSUME NEW q \in Runs, Holding(q), pc'[q] = pc[q], goal'[q] = goal[q], cur'[q] = cur[q]
  PROVE  Holding(q)' /\ cur'[q] = cur[q]
  BY DEF Holding

LEMMA EndRunsAccounted ==
  ASSUME TypeInv, DriverAccounted, NEW R \in SUBSET Runs, EndRuns(R)
  PROVE  DriverAccounted'
  <1> SUFFICES ASSUME NEW d \in Drivers, dstate[d] = "OFFERED", d \notin stranded'
               PROVE  \E r \in Runs : Holding(r)' /\ cur'[r] = d
    BY DEF DriverAccounted, EndRuns
  <1>1. PICK r \in Runs : Holding(r) /\ cur[r] = d
    BY DEF DriverAccounted, EndRuns
  <1>2. r \notin R
    BY <1>1 DEF EndRuns
  <1>3. pc'[r] = pc[r] /\ goal'[r] = goal[r] /\ cur'[r] = cur[r]
    BY <1>2 DEF EndRuns, Forget
  <1> QED BY <1>1, <1>3, HoldersKeep

LEMMA FailAccounted ==
  ASSUME TypeInv, DriverAccounted, NEW r \in Runs, Fail(r)
  PROVE  DriverAccounted'
  <1>1. {r} \cup RestOfSweep(r) \in SUBSET Runs
    BY DEF RestOfSweep, Runs
  <1> QED BY <1>1, EndRunsAccounted DEF Fail

\* A step that leaves the drivers alone keeps them accounted for, if every
\* run that held a driver still holds it or finds it out of OFFERED.
LEMMA DriversUntouched ==
  ASSUME DriverAccounted, UNCHANGED driverVars,
         \A q \in Runs : Holding(q) => \/ Holding(q)' /\ cur'[q] = cur[q]
                                       \/ dstate[cur[q]] # "OFFERED"
  PROVE  DriverAccounted'
  BY DEF DriverAccounted, driverVars

\* The steps of a run that neither end it nor write to a driver.
LEMMA StepAccounted ==
  ASSUME TypeInv, DriverAccounted, NEW r \in Runs, Step(r)
  PROVE  DriverAccounted'
  <1>1. CASE Fail(r)
    BY <1>1, FailAccounted
  <1>2. CASE SetStateWrite(r)
    <2>1. RunOK(r) /\ cur[r] \in Drivers /\ goal[r] \in {"OFFERED", "EN_ROUTE", "AVAILABLE"}
      BY <1>2 DEF TypeInv, SetStateWrite, RunOK, CurFits, GoalFits, DriverCall
    <2>2. /\ dstate' = [dstate EXCEPT ![cur[r]] = goal[r]]
          /\ stranded' = IF goal[r] = "OFFERED" THEN stranded ELSE stranded \ {cur[r]}
      BY <1>2 DEF SetStateWrite, PutDriver
    <2>3. goal[r] = "OFFERED" => Holding(r)' /\ cur'[r] = cur[r]
      BY <1>2, <2>1 DEF TypeInv, TypeOK, SetStateWrite, Goto, Holding, loopVars
    <2>4. ASSUME NEW q \in Runs, q # r, Holding(q) PROVE Holding(q)' /\ cur'[q] = cur[q]
      BY <1>2, <2>4, HoldersKeep DEF TypeInv, TypeOK, SetStateWrite, Goto, Call, NextRound, loopVars
    <2>5. Holding(r) => goal[r] # "OFFERED"
      BY <1>2 DEF SetStateWrite, Holding
    <2> SUFFICES ASSUME NEW d \in Drivers, dstate'[d] = "OFFERED", d \notin stranded'
                 PROVE  \E q \in Runs : Holding(q)' /\ cur'[q] = d
      BY DEF DriverAccounted
    <2>6. CASE d = cur[r]
      BY <2>1, <2>2, <2>3, <2>6 DEF TypeInv, TypeOK
    <2>7. CASE d # cur[r]
      <3>1. dstate[d] = "OFFERED" /\ d \notin stranded
        BY <2>1, <2>2, <2>7 DEF TypeInv, TypeOK
      <3>2. PICK q \in Runs : Holding(q) /\ cur[q] = d
        BY <3>1 DEF DriverAccounted
      <3> QED BY <2>4, <2>7, <3>2
    <2> QED BY <2>6, <2>7
  <1>3. CASE ~Fail(r) /\ ~SetStateWrite(r)
    <2>1. UNCHANGED driverVars
      BY <1>3 DEF Step, Fetch, Poll, SearchFails, Ranked, Scan, NextCandidate, SweepOffer, SweepTrip,
           Load, GiveUp, TransitionRead, TransitionWrite, TransitionIndex, SetStateRead, CreateOffer,
           OpenWaiter, Receive, Timeout, CloseWaiter, SetOfferStateRead, SetOfferStateWrite,
           SetOfferStateClear
    <2>2. ASSUME NEW q \in Runs, q # r, Holding(q) PROVE Holding(q)' /\ cur'[q] = cur[q]
      <3>1. pc'[q] = pc[q] /\ goal'[q] = goal[q] /\ cur'[q] = cur[q]
        BY <1>3, <2>2 DEF TypeInv, TypeOK, Step, Fetch, Poll, SearchFails, Ranked, Scan,
           NextCandidate, SweepOffer, SweepTrip, Load, GiveUp, TransitionRead, TransitionWrite,
           TransitionIndex, SetStateRead, CreateOffer, OpenWaiter, Receive, Timeout, CloseWaiter,
           SetOfferStateRead, SetOfferStateWrite, SetOfferStateClear, Goto, Call, NextRound, Finish,
           Forget, loopVars
      <3> QED BY <2>2, <3>1, HoldersKeep
    <2>3. Holding(r) => \/ Holding(r)' /\ cur'[r] = cur[r]
                        \/ dstate[cur[r]] # "OFFERED"
      BY <1>3 DEF TypeInv, TypeOK, RunOK, GoalFits, Holding, Step, Fetch, Poll, SearchFails, Ranked, Scan,
           NextCandidate, SweepOffer, SweepTrip, Load, GiveUp, TransitionRead, TransitionWrite,
           TransitionIndex, SetStateRead, CreateOffer, OpenWaiter, Receive, Timeout, CloseWaiter,
           SetOfferStateRead, SetOfferStateWrite, SetOfferStateClear, Goto, Call, NextRound, Finish,
           Forget, loopVars, ValidDriverTransition, DriverTransitions, OfferCall, DriverCall, OutcomeOf
    <2> QED BY <2>1, <2>2, <2>3, DriversUntouched
  <1> QED BY <1>1, <1>2, <1>3

\* What goes on outside the runs: no run stops holding a driver.
LEMMA OutsideAccounted ==
  ASSUME DriverAccounted, UNCHANGED <<driverVars, pc, goal, cur>>
  PROVE  DriverAccounted'
  BY DEF DriverAccounted, driverVars, Holding

LEMMA StartAccounted ==
  ASSUME TypeInv, DriverAccounted, NEW r \in Runs, Request(r)
  PROVE  DriverAccounted'
  <1>1. \A q \in Runs : Holding(q) => Holding(q)' /\ cur'[q] = cur[q]
    BY DEF TypeInv, TypeOK, Request, Goto, Holding, loopVars
  <1> QED BY <1>1, DriversUntouched DEF Request

LEMMA SweepListAccounted ==
  ASSUME TypeInv, DriverAccounted, NEW n \in Nodes, SweepList(n)
  PROVE  DriverAccounted'
  <1>1. \A q \in Runs : Holding(q) => Holding(q)' /\ cur'[q] = cur[q]
    BY DEF TypeInv, TypeOK, SweepList, SweepsOf, Holding, loopVars, Runs
  <1> QED BY <1>1, DriversUntouched DEF SweepList

\* A driver whose hash expires is not OFFERED; one that pings does not become so.
LEMMA LocationAccounted ==
  ASSUME TypeInv, DriverAccounted, NEW d \in Drivers, ExpireDriver(d) \/ Ping(d)
  PROVE  DriverAccounted'
  <1> SUFFICES ASSUME NEW e \in Drivers, dstate'[e] = "OFFERED", e \notin stranded'
               PROVE  \E q \in Runs : Holding(q)' /\ cur'[q] = e
    BY DEF DriverAccounted
  <1>1. dstate[e] = "OFFERED" /\ e \notin stranded
    BY DEF TypeInv, TypeOK, ExpireDriver, Ping
  <1>2. PICK q \in Runs : Holding(q) /\ cur[q] = e
    BY <1>1 DEF DriverAccounted
  <1>3. UNCHANGED <<pc, goal, cur>>
    BY DEF ExpireDriver, Ping, loopVars
  <1> QED BY <1>2, <1>3 DEF Holding

LEMMA CrashAccounted ==
  ASSUME TypeInv, DriverAccounted, NEW n \in Nodes, Crash(n)
  PROVE  DriverAccounted'
  BY EndRunsAccounted DEF Crash

LEMMA AccountedNext == TypeInv /\ DriverAccounted /\ [Next]_vars => DriverAccounted'
  <1> SUFFICES ASSUME TypeInv, DriverAccounted, [Next]_vars PROVE DriverAccounted'
    OBVIOUS
  <1>1. CASE UNCHANGED vars
    BY <1>1, OutsideAccounted DEF vars, loopVars
  <1>2. ASSUME NEW r \in Runs, Request(r) \/ Step(r) \/ Cancel(r) PROVE DriverAccounted'
    BY <1>2, StartAccounted, StepAccounted, FailAccounted DEF Cancel
  <1>3. ASSUME NEW n \in Nodes, SweepList(n) \/ Crash(n) PROVE DriverAccounted'
    BY <1>3, SweepListAccounted, CrashAccounted
  <1>4. ASSUME NEW d \in Drivers, DriverStep(d) PROVE DriverAccounted'
    <2>1. CASE ExpireDriver(d) \/ Ping(d)
      BY <2>1, LocationAccounted
    <2>2. CASE ExpirePointer(d) \/ \E ans \in Answers : Respond(d, ans)
      BY <2>2, OutsideAccounted DEF ExpirePointer, Respond, loopVars
    <2> QED BY <1>4, <2>1, <2>2 DEF DriverStep
  <1>5. ASSUME NEW m \in replies, LookUpOffer(m) \/ Deliver(m) PROVE DriverAccounted'
    BY <1>5, OutsideAccounted DEF LookUpOffer, Deliver, loopVars
  <1>6. ASSUME NEW t \in Trips, ExpireOffer(t) PROVE DriverAccounted'
    BY <1>6, OutsideAccounted DEF ExpireOffer, loopVars
  <1> QED BY <1>1, <1>2, <1>3, <1>4, <1>5, <1>6 DEF Next

\* Whatever runs, retries, sweeps, crashes and expiries there are, a driver
\* that is OFFERED is held by a loop or was left by one that failed.
THEOREM DriversAccountedFor == Spec => []DriverAccounted
  BY TypeInit, TypeNext, AccountedInit, AccountedNext, PTL DEF Spec

-----------------------------------------------------------------------------
(* WaiterAwaits, again inductive on the type invariant.  A run that ends   *)
(* with an error is at a store call or a sleep, so it has no waiter open;  *)
(* a node that crashes loses its hub; and the only key of the hub that can *)
(* name a run is that of its own trip, which its own close deletes.        *)

LEMMA WaitersInit == Init => WaiterAwaits
  BY DEF Init, WaiterAwaits

\* The hub is not written, and no waiting run moves.
LEMMA WaitersUntouched ==
  ASSUME WaiterAwaits, UNCHANGED waiters,
         \A q \in Runs : pc[q] \in {"await", "close"} => pc'[q] \in {"await", "close"}
  PROVE  WaiterAwaits'
  BY DEF WaiterAwaits

LEMMA FailKeepsWaiters ==
  ASSUME TypeInv, WaiterAwaits, NEW r \in Runs, pc[r] \notin {"await", "close"}, Fail(r),
         UNCHANGED waiters
  PROVE  WaiterAwaits'
  <1>1. \A q \in Runs : pc[q] \in {"await", "close"} => pc'[q] = pc[q]
    BY DEF Fail, EndRuns, RestOfSweep
  <1> QED BY <1>1, WaitersUntouched

LEMMA StepWaiters ==
  ASSUME TypeInv, WaiterAwaits, NEW r \in Runs, Step(r)
  PROVE  WaiterAwaits'
  <1>1. CASE OpenWaiter(r)
    BY <1>1 DEF TypeInv, TypeOK, WaiterAwaits, OpenWaiter, Goto
  <1>2. CASE CloseWaiter(r)
    BY <1>2 DEF TypeInv, TypeOK, WaiterAwaits, CloseWaiter, Call
  <1>3. CASE Receive(r) \/ Timeout(r)
    <2>1. \A q \in Runs : pc[q] \in {"await", "close"} => pc'[q] \in {"await", "close"}
      BY <1>3 DEF TypeInv, TypeOK, Receive, Timeout, Goto
    <2> QED BY <1>3, <2>1, WaitersUntouched DEF Receive, Timeout, hubVars
  <1>4. CASE ~(OpenWaiter(r) \/ CloseWaiter(r) \/ Receive(r) \/ Timeout(r))
    <2>1. UNCHANGED waiters /\ pc[r] \notin {"await", "close"}
      BY <1>4 DEF Step, Fetch, Poll, SearchFails, Ranked, Scan, NextCandidate, SweepOffer, SweepTrip,
           Load, GiveUp, TransitionRead, TransitionWrite, TransitionIndex, SetStateRead, SetStateWrite,
           CreateOffer, SetOfferStateRead, SetOfferStateWrite, SetOfferStateClear, hubVars
    <2>2. CASE Fail(r)
      BY <2>1, <2>2, FailKeepsWaiters
    <2>3. CASE ~Fail(r)
      <3>1. \A q \in Runs : q # r => pc'[q] = pc[q]
        BY <1>4, <2>3 DEF TypeInv, TypeOK, Step, Fetch, Poll, SearchFails, Ranked, Scan,
           NextCandidate, SweepOffer, SweepTrip, Load, GiveUp, TransitionRead, TransitionWrite,
           TransitionIndex, SetStateRead, SetStateWrite, CreateOffer, SetOfferStateRead,
           SetOfferStateWrite, SetOfferStateClear, Goto, Call, NextRound, Finish
      <3> QED BY <2>1, <3>1, WaitersUntouched
    <2> QED BY <2>2, <2>3
  <1> QED BY <1>1, <1>2, <1>3, <1>4

LEMMA CrashWaiters ==
  ASSUME TypeInv, WaiterAwaits, NEW n \in Nodes, Crash(n)
  PROVE  WaiterAwaits'
  <1> SUFFICES ASSUME NEW m \in Nodes, NEW t \in Trips, waiters'[m][t] # NoRun
               PROVE  LET r == waiters'[m][t] IN
                      /\ r \in Runs /\ pc'[r] \in {"await", "close"}
                      /\ TripOf[r] = t /\ NodeOf[r] = m
    BY DEF WaiterAwaits
  <1>1. m # n /\ waiters'[m][t] = waiters[m][t]
    BY DEF TypeInv, TypeOK, Crash
  <1>2. \A r \in Runs : NodeOf[r] = m => pc'[r] = pc[r]
    BY <1>1 DEF Crash, EndRuns
  <1> QED BY <1>1, <1>2 DEF WaiterAwaits

LEMMA WaitersNext == TypeInv /\ WaiterAwaits /\ [Next]_vars => WaiterAwaits'
  <1> SUFFICES ASSUME TypeInv, WaiterAwaits, [Next]_vars PROVE WaiterAwaits'
    OBVIOUS
  <1>1. CASE UNCHANGED vars
    BY <1>1, WaitersUntouched DEF vars, hubVars
  <1>2. ASSUME NEW r \in Runs, Step(r) PROVE WaiterAwaits'
    BY <1>2, StepWaiters
  <1>3. ASSUME NEW r \in Runs, Request(r) PROVE WaiterAwaits'
    <2>1. \A q \in Runs : pc[q] \in {"await", "close"} => pc'[q] = pc[q]
      BY <1>3 DEF TypeInv, TypeOK, Request, Goto
    <2> QED BY <1>3, <2>1, WaitersUntouched DEF Request, hubVars
  <1>4. ASSUME NEW r \in Runs, Cancel(r) PROVE WaiterAwaits'
    BY <1>4, FailKeepsWaiters DEF Cancel, Interruptible, hubVars
  <1>5. ASSUME NEW n \in Nodes, SweepList(n) PROVE WaiterAwaits'
    <2>1. \A q \in Runs : pc[q] \in {"await", "close"} => pc'[q] = pc[q]
      BY <1>5 DEF SweepList, SweepsOf
    <2> QED BY <1>5, <2>1, WaitersUntouched DEF SweepList, hubVars
  <1>6. ASSUME NEW n \in Nodes, Crash(n) PROVE WaiterAwaits'
    BY <1>6, CrashWaiters
  <1>7. ASSUME NEW d \in Drivers, DriverStep(d) PROVE WaiterAwaits'
    BY <1>7, WaitersUntouched DEF DriverStep, Respond, ExpireDriver, Ping, ExpirePointer, hubVars
  <1>8. ASSUME NEW m \in replies, LookUpOffer(m) \/ Deliver(m) PROVE WaiterAwaits'
    BY <1>8, WaitersUntouched DEF LookUpOffer, Deliver, hubVars
  <1>9. ASSUME NEW t \in Trips, ExpireOffer(t) PROVE WaiterAwaits'
    BY <1>9, WaitersUntouched DEF ExpireOffer, hubVars
  <1> QED BY <1>1, <1>2, <1>3, <1>4, <1>5, <1>6, <1>7, <1>8, <1>9 DEF Next

\* The hub never names a loop that has stopped waiting, also with several
\* loops of one trip on a node, and after cancellations and crashes.
THEOREM WaitersAwait == Spec => []WaiterAwaits
  BY TypeInit, TypeNext, WaitersInit, WaitersNext, PTL DEF Spec
=============================================================================
