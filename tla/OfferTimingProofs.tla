-------------------------- MODULE OfferTimingProofs --------------------------
(***************************************************************************)
(* Proofs about OfferTiming: for any window, backoffs, number of rounds    *)
(* and period of the sweep, a round ends before its record does when the   *)
(* grace is longer than the commands take, and a trip without a loop waits *)
(* no longer than the record and the sweeps take.                          *)
(***************************************************************************)
EXTENDS OfferTiming, TLAPS

\* The commands and publishes around an offer take less than offerRecordGrace:
\* 2 s, when the broker answers, against 10 s.
LagWithinGrace == MaxLag < Grace

USE ConfigAssumption

-----------------------------------------------------------------------------
(* Type correctness.                                                       *)

LEMMA ConstantsType ==
    RecordTTL \in Nat \ {0} /\ SweepGap \in Nat \ {0} /\ Overdue \in Nat
  <1>1. RecordTTL \in Nat \ {0}
    BY DEF RecordTTL
  <1>2. SweepGap \in Nat \ {0}
    BY DEF SweepGap, Greater
  <1>3. (1 + MaxAborts) * SweepGap \in Nat
    BY <1>2
  <1> QED BY <1>1, <1>2, <1>3 DEF Overdue

LEMMA StepsIn ==
    /\ {"idle", "claim", "create", "open", "await", "accept", "decline", "timeout",
        "match", "backoff", "finish"} \subseteq Steps
    /\ "request" \in Loops /\ "sweep" \in Loops
  BY DEF Steps, Busy, Waiting, Answers, Loops

\* A round is created below the cap only.
RoundFits == \A l \in Loops : pc[l] = "create" => rounds[l] < MaxRounds

TypeInv == TypeOK /\ RoundFits

LEMMA TypeInit == Init => TypeInv
  <1> SUFFICES ASSUME Init PROVE TypeInv
    OBVIOUS
  <1>1. left \in [Loops -> 0 .. MaxCandidates]
    BY DEF Init
  <1>2. pc \in [Loops -> Steps] /\ \A l \in Loops : pc[l] # "create"
    BY StepsIn DEF Init
  <1>3. LoopsType
    BY <1>1, <1>2 DEF Init, LoopsType
  <1>4. SweepType
    <2>1. phase \in 1 .. SweepEvery /\ others \in 0 .. MaxOthers
      BY DEF Init
    <2>2. due \in BOOLEAN /\ sweep \in {"idle", "before", "running", "after"}
      BY DEF Init
    <2> QED BY <2>1, <2>2 DEF SweepType
  <1>5. TypeOK
    <2>1. ttl \in 0 .. RecordTTL /\ orphan \in 0 .. Overdue
      BY ConstantsType DEF Init
    <2>2. offered \in BOOLEAN /\ by \in Loops
      BY StepsIn DEF Init
    <2>3. stops \in 0 .. MaxStops /\ aborts \in 0 .. MaxAborts
      BY DEF Init
    <2> QED BY <1>3, <1>4, <2>1, <2>2, <2>3 DEF TypeOK
  <1> QED BY <1>2, <1>5 DEF TypeInv, RoundFits

\* What moving one loop to a step does to the steps.
LEMMA GotoType ==
  ASSUME LoopsType, NEW l \in Loops, NEW s \in Steps, Goto(l, s)
  PROVE  /\ pc' \in [Loops -> Steps] /\ pc'[l] = s
         /\ \A k \in Loops : k # l => pc'[k] = pc[k]
  BY DEF LoopsType, Goto

LEMMA ReturnType ==
  ASSUME TypeInv, NEW l \in Loops, NEW e \in BOOLEAN, Return(l, e)
  PROVE  LoopsType' /\ SweepType' /\ RoundFits'
  <1>1. /\ pc' \in [Loops -> Steps] /\ pc'[l] = "idle"
        /\ \A k \in Loops : k # l => pc'[k] = pc[k]
    BY GotoType, StepsIn DEF Return, TypeInv, TypeOK
  <1>2. LoopsType'
    <2>1. left' \in [Loops -> 0 .. MaxCandidates] /\ rounds' \in [Loops -> 0 .. MaxRounds]
      BY DEF TypeInv, TypeOK, Return, LoopsType
    <2>2. backoff' \in [Loops -> Nat] /\ timer' \in [Loops -> Nat]
      BY DEF TypeInv, TypeOK, Return, LoopsType
    <2>3. lag' \in [Loops -> 0 .. MaxLag]
      BY DEF TypeInv, TypeOK, Return, LoopsType
    <2> QED BY <1>1, <2>1, <2>2, <2>3 DEF LoopsType
  <1>3. SweepType'
    <2>1. sweep' \in {"idle", "before", "running", "after"} /\ others' \in 0 .. MaxOthers
      BY DEF TypeInv, TypeOK, Return, SweepType
    <2> QED BY <2>1 DEF TypeInv, TypeOK, Return, SweepType
  <1>4. RoundFits'
    BY <1>1 DEF TypeInv, TypeOK, LoopsType, Return, RoundFits
  <1> QED BY <1>2, <1>3, <1>4

LEMMA TickType == ASSUME TypeInv, Tick PROVE TypeInv'
  <1> USE DEF TypeInv, TypeOK, LoopsType, SweepType
  <1>1. ttl' \in 0 .. RecordTTL
    <2>1. ttl' = Greater(ttl - 1, 0) /\ ttl \in 0 .. RecordTTL
      BY DEF Tick
    <2> QED BY <2>1, ConstantsType DEF Greater
  <1>2. LoopsType'
    <2>1. lag' \in [Loops -> 0 .. MaxLag]
      <3>1. \A l \in Loops : (IF pc[l] \in Busy THEN lag[l] + 1 ELSE lag[l]) \in 0 .. MaxLag
        BY DEF Tick
      <3> QED BY <3>1 DEF Tick
    <2>2. timer' \in [Loops -> Nat]
      <3>1. \A l \in Loops : (IF pc[l] \in Waiting THEN timer[l] - 1 ELSE timer[l]) \in Nat
        BY DEF Tick
      <3> QED BY <3>1 DEF Tick
    <2> QED BY <2>1, <2>2 DEF Tick
  <1>3. SweepType'
    <2>1. phase' \in 1 .. SweepEvery /\ due' \in BOOLEAN
      BY DEF Tick
    <2>2. others' \in 0 .. MaxOthers
      BY DEF Tick
    <2> QED BY <2>1, <2>2 DEF Tick
  <1>4. orphan' \in 0 .. Overdue
    <2>1. orphan' = Lesser(orphan + 1, Overdue) \/ orphan' = 0
      BY DEF Tick
    <2> QED BY <2>1, ConstantsType DEF Lesser
  <1>5. RoundFits'
    BY DEF RoundFits, Tick
  <1> QED BY <1>1, <1>2, <1>3, <1>4, <1>5 DEF Tick

LEMMA StepType == ASSUME TypeInv, NEW l \in Loops, Step(l) PROVE TypeInv'
  <1> USE DEF TypeInv, TypeOK, SweepType, recordVars, sweepVars, countVars
  <1>0. ASSUME NEW s \in Steps, Goto(l, s) \/ UNCHANGED pc
        PROVE  pc' \in [Loops -> Steps] /\ (s # "create" /\ rounds' = rounds => RoundFits')
    BY <1>0, GotoType DEF RoundFits, LoopsType
  <1>1. CASE Claim(l)
    <2>1. pc' \in [Loops -> Steps]
      BY <1>1, <1>0, StepsIn DEF Claim
    <2>2. left' \in [Loops -> 0 .. MaxCandidates]
      BY <1>1 DEF Claim, GoesOn, LoopsType
    <2>3. LoopsType'
      BY <1>1, <2>1, <2>2 DEF Claim, LoopsType
    <2>4. RoundFits'
      <3>1. CASE UNCHANGED pc
        BY <1>1, <3>1 DEF Claim, RoundFits
      <3>2. CASE Goto(l, "create")
        BY <1>1, <3>2, GotoType, StepsIn DEF Claim, RoundFits, GoesOn, LoopsType
      <3> QED BY <1>1, <3>1, <3>2 DEF Claim
    <2> QED BY <1>1, <2>3, <2>4 DEF Claim
  <1>2. CASE GiveUp(l)
    BY <1>2, <1>0, StepsIn DEF GiveUp, LoopsType
  <1>3. CASE CreateOffer(l)
    <2>1. /\ pc' \in [Loops -> Steps] /\ pc'[l] = "open"
          /\ \A k \in Loops : k # l => pc'[k] = pc[k]
      BY <1>3, GotoType, StepsIn DEF CreateOffer, CreateOfferFor
    <2>2. rounds' \in [Loops -> 0 .. MaxRounds]
      <3>1. rounds[l] + 1 \in 0 .. MaxRounds
        BY <1>3 DEF CreateOffer, CreateOfferFor, RoundFits, LoopsType
      <3> QED BY <1>3, <3>1 DEF CreateOffer, CreateOfferFor, LoopsType
    <2>3. LoopsType'
      BY <1>3, <2>1, <2>2 DEF CreateOffer, CreateOfferFor, LoopsType
    <2>4. RoundFits'
      BY <1>3, <2>1 DEF CreateOffer, CreateOfferFor, RoundFits, LoopsType
    <2> QED BY <1>3, <2>3, <2>4, ConstantsType DEF CreateOffer, CreateOfferFor
  <1>4. CASE StartWindow(l)
    BY <1>4, <1>0, StepsIn DEF StartWindow, LoopsType
  <1>5. CASE Await(l)
    <2>1. PICK s \in Answers \cup {"timeout"} : Goto(l, s)
      BY <1>5 DEF Await
    <2>2. s \in Steps /\ s # "create"
      BY DEF Steps, Busy, Answers
    <2>3. pc' \in [Loops -> Steps] /\ RoundFits'
      BY <1>5, <2>1, <2>2, <1>0 DEF Await
    <2> QED BY <1>5, <2>3 DEF Await, LoopsType
  <1>6. CASE SetOfferStateFails(l)
    BY <1>6, ReturnType DEF SetOfferStateFails
  <1>7. CASE Accept(l)
    BY <1>7, <1>0, StepsIn DEF Accept, LoopsType
  <1>8. CASE Release(l)
    <2>1. pc' \in [Loops -> Steps] /\ RoundFits'
      BY <1>8, <1>0, StepsIn DEF Release
    <2>2. backoff' \in [Loops -> Nat] /\ timer' \in [Loops -> Nat]
      <3>1. Lesser(2 * backoff[l], MaxBackoff) \in Nat
        BY DEF Lesser, LoopsType
      <3> QED BY <1>8, <3>1 DEF Release, LoopsType
    <2>3. LoopsType'
      BY <1>8, <2>1, <2>2 DEF Release, LoopsType
    <2> QED BY <1>8, <2>1, <2>3 DEF Release
  <1>9. CASE Wake(l)
    BY <1>9, <1>0, StepsIn DEF Wake, LoopsType
  <1>10. CASE Finish(l)
    <2>1. (~offered) \in BOOLEAN
      OBVIOUS
    <2>2. LoopsType' /\ SweepType' /\ RoundFits'
      BY <1>10, <2>1, ReturnType DEF Finish
    <2> QED BY <1>10, <2>2 DEF Finish
  <1> QED BY <1>1, <1>2, <1>3, <1>4, <1>5, <1>6, <1>7, <1>8, <1>9, <1>10 DEF Step

LEMMA TypeNext == TypeInv /\ [Next]_vars => TypeInv'
  <1> SUFFICES ASSUME TypeInv, [Next]_vars PROVE TypeInv'
    OBVIOUS
  <1> USE DEF TypeInv, TypeOK
  <1>1. ASSUME NEW l \in Loops, Step(l) PROVE TypeInv'
    BY <1>1, StepType
  <1>2. ASSUME NEW l \in Loops, Stop(l) PROVE TypeInv'
    <2>1. LoopsType' /\ SweepType' /\ RoundFits'
      BY <1>2, ReturnType DEF Stop
    <2> QED BY <1>2, <2>1 DEF Stop, recordVars
  <1>3. CASE StartSweep
    BY <1>3 DEF StartSweep, LoopsType, SweepType, RoundFits, recordVars, loopVars, countVars
  <1>4. CASE VisitSkips
    BY <1>4 DEF VisitSkips, LoopsType, SweepType, RoundFits, recordVars, loopVars, countVars
  <1>5. ASSUME NEW n \in 0 .. MaxCandidates, VisitResumes(n) PROVE TypeInv'
    <2>1. pc' \in [Loops -> Steps] /\ RoundFits' /\ left' \in [Loops -> 0 .. MaxCandidates]
      <3>1. CASE n = 0
        BY <1>5, <3>1 DEF VisitResumes, LoopsType, RoundFits
      <3>2. CASE n # 0
        <4>1. Goto("sweep", "claim")
          BY <1>5, <3>2 DEF VisitResumes
        <4>2. pc' \in [Loops -> Steps] /\ RoundFits'
          BY <1>5, <4>1, GotoType, StepsIn DEF RoundFits, VisitResumes
        <4> QED BY <1>5, <3>2, <4>2 DEF VisitResumes, LoopsType
      <3> QED BY <3>1, <3>2
    <2>2. LoopsType' /\ SweepType'
      BY <1>5, <2>1 DEF VisitResumes, LoopsType, SweepType
    <2>3. orphan' \in 0 .. Overdue
      BY <1>5, ConstantsType DEF VisitResumes
    <2>4. offered' \in BOOLEAN
      BY <1>5 DEF VisitResumes
    <2>5. UNCHANGED <<ttl, by, stops, aborts>>
      BY <1>5 DEF VisitResumes
    <2> QED BY <2>1, <2>2, <2>3, <2>4, <2>5
  <1>6. CASE AbortSweep
    BY <1>6 DEF AbortSweep, LoopsType, SweepType, RoundFits, recordVars, loopVars
  <1>7. CASE EndSweep
    BY <1>7 DEF EndSweep, LoopsType, SweepType, RoundFits, recordVars, loopVars, countVars
  <1>8. CASE Tick
    BY <1>8, TickType
  <1>9. CASE UNCHANGED vars
    BY <1>9 DEF LoopsType, SweepType, RoundFits, vars, loopVars, sweepVars, countVars
  <1> QED BY <1>1, <1>2, <1>3, <1>4, <1>5, <1>6, <1>7, <1>8, <1>9 DEF Next, Visit

\* Every variable of OfferTiming keeps its type: no loop opens more than
\* MaxRounds offers and none exceeds its share of time.
THEOREM TypeCorrect == Spec => []TypeOK
  <1>1. TypeInv => TypeOK
    BY DEF TypeInv
  <1> QED BY <1>1, TypeInit, TypeNext, PTL DEF Spec

-----------------------------------------------------------------------------
(* The record outlives the delays of its loop.                             *)

\* The sweep is waiting for a loop exactly when its loop runs.
SweepRuns == sweep = "running" <=> Running("sweep")

\* Where a loop's backoff stands: at the delay of the round it is in until
\* that round is lost, at the next one after.
InRound == {"open", "await", "accept", "decline", "timeout"}
BetweenRounds == {"idle", "claim", "create", "backoff"}
BackoffMatches(l) ==
    /\ pc[l] = "idle" => rounds[l] = 0
    /\ pc[l] \in InRound => rounds[l] > 0 /\ backoff[l] = Backoffs[rounds[l] - 1]
    /\ pc[l] \in BetweenRounds => backoff[l] = Backoffs[rounds[l]]

\* The delay a loop has slept since it wrote its last record, at most.
Slept(l) == IF rounds[l] \in 1 .. MaxRounds - 1 THEN Backoffs[rounds[l] - 1] ELSE 0

\* What the record has left, and the commands and the delay it has paid for.
Covered(l) == rounds[l] > 0 =>
    /\ pc[l] = "open" => ttl + lag[l] >= RecordTTL
    /\ pc[l] = "await" => ttl + lag[l] >= Grace + timer[l]
    /\ pc[l] \in {"accept", "decline", "timeout", "match"} => ttl + lag[l] >= Grace
    /\ pc[l] = "backoff" => ttl + lag[l] + Slept(l) >= Grace + timer[l]
    /\ pc[l] \in {"claim", "create", "finish"} => ttl + lag[l] + Slept(l) >= Grace

KeepInv == TypeInv /\ SweepRuns /\ \A l \in Loops : BackoffMatches(l) /\ Covered(l)

\* The values Covered adds up.
LEMMA Numbers ==
  ASSUME TypeInv, NEW l \in Loops
  PROVE  /\ ttl \in Nat /\ ttl <= RecordTTL /\ RecordTTL \in Nat /\ RecordTTL = OfferWindow + Grace
         /\ lag[l] \in Nat /\ lag[l] <= MaxLag /\ timer[l] \in Nat
         /\ rounds[l] \in 0 .. MaxRounds /\ backoff[l] \in Nat /\ Slept(l) \in Nat
  <1>1. Slept(l) \in Nat
    <2>1. \A k \in 0 .. MaxRounds : Backoffs[k] \in Nat
      BY BackoffsAssumption
    <2>2. rounds[l] \in 1 .. MaxRounds - 1 => rounds[l] - 1 \in 0 .. MaxRounds
      OBVIOUS
    <2> QED BY <2>1, <2>2 DEF Slept
  <1> QED BY <1>1, ConstantsType DEF TypeInv, TypeOK, LoopsType, RecordTTL

\* A loop that does not move is covered by a record that is not shortened.
LEMMA Frame ==
  ASSUME TypeInv, TypeInv', NEW k \in Loops, BackoffMatches(k), Covered(k),
         pc'[k] = pc[k], rounds'[k] = rounds[k], backoff'[k] = backoff[k],
         timer'[k] = timer[k], lag'[k] = lag[k], ttl' >= ttl
  PROVE  BackoffMatches(k)' /\ Covered(k)'
  <1>1. BackoffMatches(k)'
    BY DEF BackoffMatches
  <1>2. Slept(k)' = Slept(k)
    BY DEF Slept
  <1>3. ttl' \in Nat /\ timer'[k] \in Nat /\ lag'[k] \in Nat
    BY DEF TypeInv, TypeOK, LoopsType
  <1>4. Covered(k)'
    BY <1>2, <1>3, Numbers DEF Covered
  <1> QED BY <1>1, <1>4

LEMMA ReturnKeeps ==
  ASSUME KeepInv, TypeInv', NEW l \in Loops, NEW e \in BOOLEAN, Return(l, e), ttl' = ttl
  PROVE  SweepRuns' /\ \A k \in Loops : BackoffMatches(k)' /\ Covered(k)'
  <1>1. /\ pc' \in [Loops -> Steps] /\ pc'[l] = "idle"
        /\ \A k \in Loops : k # l => pc'[k] = pc[k]
    BY GotoType, StepsIn DEF Return, KeepInv, TypeInv, TypeOK
  <1>2. rounds'[l] = 0 /\ backoff'[l] = BaseBackoff
    BY DEF Return, KeepInv, TypeInv, TypeOK, LoopsType
  <1>3. BackoffMatches(l)' /\ Covered(l)'
    BY <1>1, <1>2, BackoffsAssumption DEF BackoffMatches, Covered, InRound, BetweenRounds
  <1>4. ASSUME NEW k \in Loops, k # l PROVE BackoffMatches(k)' /\ Covered(k)'
    <2>1. /\ rounds'[k] = rounds[k] /\ backoff'[k] = backoff[k]
          /\ timer'[k] = timer[k] /\ lag'[k] = lag[k]
      BY <1>4 DEF Return, KeepInv, TypeInv, TypeOK, LoopsType
    <2>2. ttl' >= ttl
      BY Numbers DEF KeepInv
    <2> QED BY <1>1, <1>4, <2>1, <2>2, Frame DEF KeepInv
  <1>5. SweepRuns'
    <2>1. CASE l = "request"
      BY <1>1, <2>1, StepsIn DEF Return, KeepInv, SweepRuns, Running
    <2>2. CASE l = "sweep"
      BY <1>1, <2>2 DEF Return, SweepRuns, Running
    <2> QED BY <2>1, <2>2 DEF Loops
  <1> QED BY <1>3, <1>4, <1>5

\* The loop that moves, step by step.
LEMMA StepCovered ==
  ASSUME KeepInv, TypeInv', NEW l \in Loops, Step(l)
  PROVE  BackoffMatches(l)' /\ Covered(l)'
  <1> USE DEF KeepInv, InRound, BetweenRounds, recordVars
  <1>0. BackoffMatches(l) /\ Covered(l)
    OBVIOUS
  <1>a. ASSUME NEW s \in Steps, Goto(l, s) PROVE pc'[l] = s
    BY <1>a, GotoType DEF TypeInv, TypeOK
  <1>b. rounds' = rounds => Slept(l)' = Slept(l)
    BY DEF Slept
  <1>1. CASE Claim(l)
    <2>1. pc'[l] \in {"claim", "create"}
      BY <1>1, <1>a, StepsIn DEF Claim
    <2> QED BY <1>0, <1>1, <1>b, <2>1, Numbers DEF Claim, BackoffMatches, Covered
  <1>2. CASE GiveUp(l)
    <2>1. pc'[l] = "finish"
      BY <1>2, <1>a, StepsIn DEF GiveUp
    <2> QED BY <1>0, <1>2, <1>b, <2>1, Numbers DEF GiveUp, BackoffMatches, Covered
  <1>3. CASE CreateOffer(l)
    <2>1. pc'[l] = "open" /\ rounds'[l] = rounds[l] + 1 /\ lag'[l] = 0 /\ ttl' = RecordTTL
      BY <1>3, <1>a, StepsIn DEF CreateOffer, CreateOfferFor, TypeInv, TypeOK, LoopsType
    <2>2. backoff'[l] = Backoffs[rounds'[l] - 1]
      BY <1>0, <1>3, <2>1, Numbers DEF CreateOffer, CreateOfferFor, BackoffMatches
    <2> QED BY <2>1, <2>2, Numbers DEF BackoffMatches, Covered
  <1>4. CASE StartWindow(l)
    <2>1. pc'[l] = "await" /\ timer'[l] = OfferWindow
      BY <1>4, <1>a, StepsIn DEF StartWindow, TypeInv, TypeOK, LoopsType
    <2> QED BY <1>0, <1>4, <1>b, <2>1, Numbers DEF StartWindow, BackoffMatches, Covered
  <1>5. CASE Await(l)
    <2>1. pc'[l] \in {"accept", "decline", "timeout"}
      BY <1>5, <1>a, StepsIn DEF Await, Answers
    <2> QED BY <1>0, <1>5, <2>1, Numbers DEF Await, BackoffMatches, Covered
  <1>6. CASE SetOfferStateFails(l)
    BY <1>6, ReturnKeeps DEF SetOfferStateFails
  <1>7. CASE Accept(l)
    <2>1. pc'[l] = "match"
      BY <1>7, <1>a, StepsIn DEF Accept
    <2> QED BY <1>0, <1>7, <1>b, <2>1, Numbers DEF Accept, BackoffMatches, Covered
  <1>8. CASE Release(l)
    <2>1. rounds[l] > 0 /\ backoff[l] = Backoffs[rounds[l] - 1] /\ ttl + lag[l] >= Grace
      BY <1>0, <1>8, Numbers DEF Release, BackoffMatches, Covered
    <2>2. CASE GoesOn(l)
      <3>1. pc'[l] = "backoff" /\ timer'[l] = backoff[l]
        BY <1>8, <1>a, <2>2, StepsIn DEF Release, TypeInv, TypeOK, LoopsType
      <3>2. backoff'[l] = Lesser(2 * backoff[l], MaxBackoff)
        BY <1>8, <2>2 DEF Release, TypeInv, TypeOK, LoopsType
      <3>3. Backoffs[rounds[l]] = Lesser(2 * Backoffs[rounds[l] - 1], MaxBackoff)
        <4>1. rounds[l] - 1 \in 0 .. MaxRounds - 1 /\ (rounds[l] - 1) + 1 = rounds[l]
          BY <2>1, Numbers
        <4>2. Backoffs[(rounds[l] - 1) + 1] = Lesser(2 * Backoffs[rounds[l] - 1], MaxBackoff)
          BY <4>1, BackoffsAssumption
        <4> QED BY <4>1, <4>2
      <3>4. BackoffMatches(l)'
        BY <1>8, <2>1, <3>1, <3>2, <3>3 DEF Release, BackoffMatches
      <3>5. Slept(l) = backoff[l]
        BY <2>1, <2>2, Numbers DEF GoesOn, Slept
      <3>6. Covered(l)'
        BY <1>8, <1>b, <2>1, <3>1, <3>5, Numbers DEF Release, Covered
      <3> QED BY <3>4, <3>6
    <2>3. CASE ~GoesOn(l)
      <3>1. pc'[l] = "finish"
        BY <1>8, <1>a, <2>3, StepsIn DEF Release
      <3> QED BY <1>8, <1>b, <2>1, <3>1, Numbers DEF Release, BackoffMatches, Covered
    <2> QED BY <2>2, <2>3
  <1>9. CASE Wake(l)
    <2>1. pc'[l] = "claim"
      BY <1>9, <1>a, StepsIn DEF Wake
    <2> QED BY <1>0, <1>9, <1>b, <2>1, Numbers DEF Wake, BackoffMatches, Covered
  <1>10. CASE Finish(l)
    <2>1. (~offered) \in BOOLEAN
      OBVIOUS
    <2> QED BY <1>10, <2>1, ReturnKeeps DEF Finish
  <1> QED BY <1>1, <1>2, <1>3, <1>4, <1>5, <1>6, <1>7, <1>8, <1>9, <1>10 DEF Step

LEMMA KeepInit == Init => KeepInv
  <1> SUFFICES ASSUME Init PROVE KeepInv
    OBVIOUS
  <1>1. TypeInv
    BY TypeInit
  <1>2. SweepRuns
    BY StepsIn DEF Init, SweepRuns, Running
  <1>3. ASSUME NEW l \in Loops PROVE BackoffMatches(l) /\ Covered(l)
    <2>1. rounds[l] = 0 /\ backoff[l] = BaseBackoff /\ pc[l] \in {"claim", "idle"}
      BY DEF Init
    <2> QED BY <2>1, BackoffsAssumption DEF BackoffMatches, Covered, InRound, BetweenRounds
  <1> QED BY <1>1, <1>2, <1>3 DEF KeepInv

\* A step of one loop leaves the other's variables and never shortens the record.
LEMMA StepFrame ==
  ASSUME TypeInv, NEW l \in Loops, NEW k \in Loops, k # l, Step(l)
  PROVE  /\ pc'[k] = pc[k] /\ rounds'[k] = rounds[k] /\ backoff'[k] = backoff[k]
         /\ timer'[k] = timer[k] /\ lag'[k] = lag[k] /\ ttl' >= ttl
  <1> USE DEF TypeInv, TypeOK, LoopsType, Goto, recordVars
  <1>0. ttl \in Nat /\ ttl <= RecordTTL
    BY Numbers
  <1>1. CASE Claim(l)
    BY <1>0, <1>1 DEF Claim
  <1>2. CASE GiveUp(l)
    BY <1>0, <1>2 DEF GiveUp
  <1>3. CASE CreateOffer(l)
    BY <1>0, <1>3 DEF CreateOffer, CreateOfferFor
  <1>4. CASE StartWindow(l)
    BY <1>0, <1>4 DEF StartWindow
  <1>5. CASE Await(l)
    BY <1>0, <1>5 DEF Await
  <1>6. CASE SetOfferStateFails(l)
    BY <1>0, <1>6 DEF SetOfferStateFails, Return
  <1>7. CASE Accept(l)
    BY <1>0, <1>7 DEF Accept
  <1>8. CASE Release(l)
    BY <1>0, <1>8 DEF Release
  <1>9. CASE Wake(l)
    BY <1>0, <1>9 DEF Wake
  <1>10. CASE Finish(l)
    BY <1>0, <1>10 DEF Finish, Return
  <1> QED BY <1>1, <1>2, <1>3, <1>4, <1>5, <1>6, <1>7, <1>8, <1>9, <1>10 DEF Step

LEMMA StepSweepRuns == ASSUME KeepInv, TypeInv', NEW l \in Loops, Step(l) PROVE SweepRuns'
  <1> USE DEF KeepInv, TypeInv, TypeOK, LoopsType, SweepRuns, Running, sweepVars
  <1>0. ASSUME NEW s \in Steps, pc[l] # "idle", s # "idle", Goto(l, s) \/ UNCHANGED pc, sweep' = sweep
        PROVE  SweepRuns'
    <2>1. CASE UNCHANGED pc
      BY <1>0, <2>1
    <2>2. CASE Goto(l, s)
      BY <1>0, <2>2, GotoType, StepsIn
    <2> QED BY <1>0, <2>1, <2>2
  <1>1. CASE Claim(l)
    BY <1>1, <1>0, StepsIn DEF Claim
  <1>2. CASE GiveUp(l)
    BY <1>2, <1>0, StepsIn DEF GiveUp
  <1>3. CASE CreateOffer(l)
    BY <1>3, <1>0, StepsIn DEF CreateOffer, CreateOfferFor
  <1>4. CASE StartWindow(l)
    BY <1>4, <1>0, StepsIn DEF StartWindow
  <1>5. CASE Await(l)
    <2>1. PICK s \in Answers \cup {"timeout"} : Goto(l, s)
      BY <1>5 DEF Await
    <2>2. s \in Steps /\ s # "idle"
      BY DEF Steps, Busy, Answers
    <2> QED BY <1>5, <1>0, <2>1, <2>2 DEF Await
  <1>6. CASE SetOfferStateFails(l)
    BY <1>6, ReturnKeeps DEF SetOfferStateFails, recordVars
  <1>7. CASE Accept(l)
    BY <1>7, <1>0, StepsIn DEF Accept
  <1>8. CASE Release(l)
    BY <1>8, <1>0, StepsIn DEF Release
  <1>9. CASE Wake(l)
    BY <1>9, <1>0, StepsIn DEF Wake
  <1>10. CASE Finish(l)
    <2>1. (~offered) \in BOOLEAN
      OBVIOUS
    <2> QED BY <1>10, <2>1, ReturnKeeps DEF Finish
  <1> QED BY <1>1, <1>2, <1>3, <1>4, <1>5, <1>6, <1>7, <1>8, <1>9, <1>10 DEF Step

\* A second that is spent on commands, or waited out, is paid for.
LEMMA SecondCovered ==
  ASSUME NEW l \in Loops, Covered(l), pc'[l] = pc[l], rounds'[l] = rounds[l],
         ttl \in Nat, lag[l] \in Nat, timer[l] \in Nat, Slept(l) \in Nat, RecordTTL \in Nat,
         ttl' \in Nat, lag'[l] \in Nat, Slept(l)' = Slept(l),
         \/ pc[l] \notin {"await", "backoff"} /\ ttl' + lag'[l] >= ttl + lag[l]
         \/ /\ pc[l] \in {"await", "backoff"} /\ timer'[l] = timer[l] - 1
            /\ ttl' + lag'[l] >= (ttl + lag[l]) - 1
  PROVE  Covered(l)'
  <1> SUFFICES ASSUME rounds[l] > 0
               PROVE  /\ pc[l] = "open" => ttl' + lag'[l] >= RecordTTL
                      /\ pc[l] = "await" => ttl' + lag'[l] >= Grace + timer'[l]
                      /\ pc[l] \in {"accept", "decline", "timeout"} => ttl' + lag'[l] >= Grace
                      /\ pc[l] = "backoff" => ttl' + lag'[l] + Slept(l) >= Grace + timer'[l]
                      /\ pc[l] \in {"claim", "create", "finish"} => ttl' + lag'[l] + Slept(l) >= Grace
    BY DEF Covered, RecordTTL
  <1>1. /\ pc[l] = "open" => ttl + lag[l] >= RecordTTL
        /\ pc[l] = "await" => ttl + lag[l] >= Grace + timer[l]
        /\ pc[l] \in {"accept", "decline", "timeout"} => ttl + lag[l] >= Grace
        /\ pc[l] = "backoff" => ttl + lag[l] + Slept(l) >= Grace + timer[l]
        /\ pc[l] \in {"claim", "create", "finish"} => ttl + lag[l] + Slept(l) >= Grace
    BY DEF Covered
  <1> QED BY <1>1

LEMMA TickKeeps ==
  ASSUME KeepInv, TypeInv', Tick
  PROVE  SweepRuns' /\ \A l \in Loops : BackoffMatches(l)' /\ Covered(l)'
  <1> USE DEF KeepInv
  <1>1. pc' = pc /\ rounds' = rounds /\ backoff' = backoff /\ sweep' = sweep
    BY DEF Tick
  <1>2. ttl' >= ttl - 1 /\ ttl' \in Nat
    <2>1. ttl' = Greater(ttl - 1, 0)
      BY DEF Tick
    <2> QED BY <2>1, Numbers, StepsIn DEF Greater
  <1>3. ASSUME NEW l \in Loops PROVE BackoffMatches(l)' /\ Covered(l)'
    <2>1. BackoffMatches(l)'
      BY <1>1 DEF BackoffMatches
    <2>2. Slept(l)' = Slept(l)
      BY <1>1 DEF Slept
    <2>3. lag'[l] = IF pc[l] \in Busy THEN lag[l] + 1 ELSE lag[l]
      BY DEF Tick
    <2>4. timer'[l] = IF pc[l] \in Waiting THEN timer[l] - 1 ELSE timer[l]
      BY DEF Tick
    <2>9. ttl \in Nat /\ lag[l] \in Nat /\ timer[l] \in Nat /\ Slept(l) \in Nat /\ RecordTTL \in Nat
      BY Numbers
    <2>5. CASE pc[l] \in Busy
      <3>1. lag'[l] = lag[l] + 1 /\ timer'[l] = timer[l]
        BY <2>3, <2>4, <2>5 DEF Busy, Waiting, Answers
      <3>2. Covered(l)
        OBVIOUS
      <3>3. /\ pc'[l] = pc[l] /\ rounds'[l] = rounds[l] /\ pc[l] \notin {"await", "backoff"}
            /\ ttl' + lag'[l] >= ttl + lag[l]
            /\ ttl' + lag'[l] + Slept(l)' >= ttl + lag[l] + Slept(l)
        BY <1>1, <1>2, <2>2, <2>5, <3>1, <2>9 DEF Busy, Answers
      <3>4. lag'[l] \in Nat /\ ttl' \in Nat
        BY <1>2, <2>9, <3>1
      <3> QED BY <2>1, <2>2, <2>9, <3>1, <3>2, <3>3, <3>4, SecondCovered
    <2>6. CASE pc[l] \in Waiting
      <3>1. lag'[l] = lag[l] /\ timer'[l] = timer[l] - 1
        BY <2>3, <2>4, <2>6 DEF Busy, Waiting, Answers
      <3>2. Covered(l)
        OBVIOUS
      <3>3. /\ pc'[l] = pc[l] /\ rounds'[l] = rounds[l] /\ pc[l] \in {"await", "backoff"}
            /\ ttl' + lag'[l] >= (ttl + lag[l]) - 1 /\ Grace \in Nat
        BY <1>1, <1>2, <2>6, <3>1, <2>9 DEF Waiting
      <3>4. lag'[l] \in Nat /\ ttl' \in Nat
        BY <1>2, <2>9, <3>1
      <3> QED BY <2>1, <2>2, <2>9, <3>1, <3>2, <3>3, <3>4, SecondCovered
    <2>7. CASE pc[l] = "idle"
      BY <1>1, <2>7 DEF BackoffMatches, Covered
    <2>8. pc[l] \in Steps
      BY DEF TypeInv, TypeOK, LoopsType
    <2> QED BY <2>1, <2>5, <2>6, <2>7, <2>8 DEF Steps
  <1>4. SweepRuns'
    BY <1>1 DEF SweepRuns, Running
  <1> QED BY <1>3, <1>4

LEMMA KeepNext == KeepInv /\ [Next]_vars => KeepInv'
  <1> SUFFICES ASSUME KeepInv, [Next]_vars PROVE SweepRuns' /\ \A k \in Loops : BackoffMatches(k)' /\ Covered(k)'
    BY TypeNext DEF KeepInv
  <1>0. TypeInv'
    BY TypeNext DEF KeepInv
  <1>a. ASSUME UNCHANGED <<pc, rounds, backoff, timer, lag, ttl>>
        PROVE  \A k \in Loops : BackoffMatches(k)' /\ Covered(k)'
    BY <1>0, <1>a, Frame, Numbers DEF KeepInv
  <1>b. ASSUME sweep # "running", sweep' # "running", UNCHANGED <<pc, rounds, backoff, timer, lag, ttl>>
        PROVE  SweepRuns' /\ \A k \in Loops : BackoffMatches(k)' /\ Covered(k)'
    BY <1>a, <1>b DEF KeepInv, SweepRuns, Running
  <1>1. ASSUME NEW l \in Loops, Step(l) PROVE SweepRuns' /\ \A k \in Loops : BackoffMatches(k)' /\ Covered(k)'
    <2>1. BackoffMatches(l)' /\ Covered(l)'
      BY <1>0, <1>1, StepCovered
    <2>2. ASSUME NEW k \in Loops, k # l PROVE BackoffMatches(k)' /\ Covered(k)'
      BY <1>0, <1>1, <2>2, StepFrame, Frame DEF KeepInv
    <2> QED BY <1>0, <1>1, <2>1, <2>2, StepSweepRuns
  <1>2. ASSUME NEW l \in Loops, Stop(l) PROVE SweepRuns' /\ \A k \in Loops : BackoffMatches(k)' /\ Covered(k)'
    <2>1. Return(l, TRUE) /\ ttl' = ttl
      BY <1>2 DEF Stop, recordVars
    <2>2. TRUE \in BOOLEAN
      OBVIOUS
    <2> QED BY <1>0, <2>1, <2>2, ReturnKeeps
  <1>3. CASE StartSweep
    <2>1. sweep = "idle" /\ sweep' \in {"before", "after"}
      BY <1>3 DEF StartSweep
    <2>2. UNCHANGED <<pc, rounds, backoff, timer, lag, ttl>>
      BY <1>3 DEF StartSweep, loopVars, recordVars
    <2> QED BY <1>b, <2>1, <2>2
  <1>4. CASE VisitSkips
    <2>1. sweep = "before" /\ sweep' = "after"
      BY <1>4 DEF VisitSkips
    <2>2. UNCHANGED <<pc, rounds, backoff, timer, lag, ttl>>
      BY <1>4 DEF VisitSkips, loopVars, recordVars
    <2> QED BY <1>b, <2>1, <2>2
  <1>5. ASSUME NEW n \in 0 .. MaxCandidates, VisitResumes(n)
        PROVE  SweepRuns' /\ \A k \in Loops : BackoffMatches(k)' /\ Covered(k)'
    <2>1. CASE n = 0
      <3>1. sweep = "before" /\ sweep' = "after" /\ UNCHANGED <<pc, rounds, backoff, timer, lag, ttl>>
        BY <1>5, <2>1 DEF VisitResumes
      <3> QED BY <1>b, <3>1
    <2>2. CASE n # 0
      <3>1. /\ pc'["sweep"] = "claim" /\ sweep' = "running"
            /\ \A k \in Loops : k # "sweep" => pc'[k] = pc[k]
        BY <1>5, <2>2, GotoType, StepsIn DEF VisitResumes, KeepInv, TypeInv, TypeOK
      <3>2. UNCHANGED <<rounds, backoff, timer, lag, ttl>>
        BY <1>5 DEF VisitResumes
      <3>3. pc["sweep"] = "idle"
        BY <1>5 DEF VisitResumes, KeepInv, SweepRuns, Running
      <3>4. BackoffMatches("sweep")' /\ Covered("sweep")'
        BY <3>1, <3>2, <3>3, StepsIn DEF KeepInv, BackoffMatches, Covered, InRound, BetweenRounds
      <3>5. ASSUME NEW k \in Loops, k # "sweep" PROVE BackoffMatches(k)' /\ Covered(k)'
        BY <1>0, <3>1, <3>2, <3>5, Frame, Numbers DEF KeepInv
      <3> QED BY <3>1, <3>4, <3>5 DEF SweepRuns, Running
    <2> QED BY <2>1, <2>2
  <1>6. CASE AbortSweep
    <2>1. sweep = "before" /\ sweep' = "idle"
      BY <1>6 DEF AbortSweep
    <2>2. UNCHANGED <<pc, rounds, backoff, timer, lag, ttl>>
      BY <1>6 DEF AbortSweep, loopVars, recordVars
    <2> QED BY <1>b, <2>1, <2>2
  <1>7. CASE EndSweep
    <2>1. sweep = "after" /\ sweep' = "idle"
      BY <1>7 DEF EndSweep
    <2>2. UNCHANGED <<pc, rounds, backoff, timer, lag, ttl>>
      BY <1>7 DEF EndSweep, loopVars, recordVars
    <2> QED BY <1>b, <2>1, <2>2
  <1>8. CASE Tick
    BY <1>0, <1>8, TickKeeps
  <1>9. CASE UNCHANGED vars
    BY <1>9, <1>a DEF vars, loopVars, sweepVars, KeepInv, SweepRuns, Running
  <1> QED BY <1>1, <1>2, <1>3, <1>4, <1>5, <1>6, <1>7, <1>8, <1>9 DEF Next, Visit

LEMMA CoveredOutlives == LagWithinGrace /\ KeepInv => RecordOutlivesRound
  <1> SUFFICES ASSUME LagWithinGrace, KeepInv, NEW l \in Loops, Running(l), rounds[l] > 0, ttl = 0
               PROVE  /\ pc[l] \in {"backoff", "claim", "create", "finish"}
                      /\ rounds[l] < MaxRounds
                      /\ Backoffs[rounds[l] - 1] + MaxLag >= Grace
    BY DEF RecordOutlivesRound
  <1>1. pc[l] \in Steps /\ pc[l] # "idle"
    BY DEF Running, KeepInv, TypeInv, TypeOK, LoopsType
  <1>2. Covered(l)
    BY DEF KeepInv
  <1>3. lag[l] < Grace /\ lag[l] < RecordTTL
    BY Numbers DEF KeepInv, LagWithinGrace
  <1>4. pc[l] \notin {"open", "await", "accept", "decline", "timeout", "match"}
    BY <1>2, <1>3, Numbers DEF KeepInv, Covered
  <1>5. pc[l] \in {"backoff", "claim", "create", "finish"}
    BY <1>1, <1>4 DEF Steps, Busy, Waiting, Answers
  <1>6. lag[l] + Slept(l) >= Grace
    BY <1>2, <1>5, Numbers DEF KeepInv, Covered
  <1>7. rounds[l] \in 1 .. MaxRounds - 1 /\ Slept(l) = Backoffs[rounds[l] - 1]
    BY <1>3, <1>6, Numbers DEF KeepInv, Slept
  <1>8. rounds[l] < MaxRounds /\ Backoffs[rounds[l] - 1] \in Nat
    BY <1>7, Numbers DEF KeepInv
  <1>9. Backoffs[rounds[l] - 1] + lag[l] >= Grace /\ lag[l] <= MaxLag /\ lag[l] \in Nat
    BY <1>6, <1>7, <1>8, Numbers DEF KeepInv
  <1>10. Backoffs[rounds[l] - 1] + MaxLag >= Grace
    BY <1>8, <1>9
  <1> QED BY <1>5, <1>8, <1>10

\* Whatever the delays are, an offer that is open or being settled has its
\* record, and a loop that has lost it is between two rounds, behind a delay
\* that the grace does not cover together with the commands (CreateOffer's TTL
\* and Run's backoff; with DefaultConfig and a lag of 2 s that is the fourth
\* delay, of 8 s, and no other).
THEOREM RecordKept == ASSUME LagWithinGrace PROVE Spec => []RecordOutlivesRound
  <1>1. KeepInv => RecordOutlivesRound
    BY CoveredOutlives
  <1> QED BY <1>1, KeepInit, KeepNext, PTL DEF Spec

-----------------------------------------------------------------------------
(* A trip without a loop is taken up again in time.                        *)

Alone == \A l \in Loops : ~Running(l)

\* Seconds to the next tick that the sweep can take.
ToTick == IF due THEN 0 ELSE phase

\* The longest time to the next visit of the trip, if no sweep ends early.
ToVisit == IF sweep = "before" THEN others
           ELSE (IF sweep = "idle" THEN ToTick ELSE Greater(others, ToTick)) + MaxOthers

\* The seconds a trip may be alone in all, when a sweeps have ended early.
AloneBound(a) == RecordTTL + (1 + a) * SweepGap

\* What a trip that is alone has waited, and has yet to wait at most: first
\* for its record, then for its visit.
Waits ==
    /\ ~Alone => orphan = 0
    /\ offered /\ Alone /\ ttl > 0 => orphan + ttl <= RecordTTL
    /\ offered /\ Alone /\ ttl = 0 => orphan + ToVisit < AloneBound(aborts)

RecoverInv == KeepInv /\ Waits

LEMMA AloneBoundGrows ==
  ASSUME NEW a \in Nat
  PROVE  /\ AloneBound(a) \in Nat /\ AloneBound(a) >= RecordTTL + SweepGap
         /\ AloneBound(a + 1) = AloneBound(a) + SweepGap
  <1>1. SweepGap \in Nat /\ RecordTTL \in Nat
    BY ConstantsType
  <1>2. a * SweepGap \in Nat
    BY <1>1
  <1>3. (1 + a) * SweepGap = SweepGap + a * SweepGap
    BY <1>1
  <1>4. (1 + (a + 1)) * SweepGap = SweepGap + (SweepGap + a * SweepGap)
    BY <1>1
  <1> QED BY <1>1, <1>2, <1>3, <1>4 DEF AloneBound

LEMMA ToVisitType ==
  TypeInv /\ SweepRuns /\ Alone =>
    /\ sweep \in {"idle", "before", "after"}
    /\ ToTick \in 0 .. SweepEvery /\ ToVisit \in Nat /\ ToVisit <= SweepGap
  <1> SUFFICES ASSUME TypeInv, SweepRuns, Alone
               PROVE  /\ sweep \in {"idle", "before", "after"}
                      /\ ToTick \in 0 .. SweepEvery /\ ToVisit \in Nat /\ ToVisit <= SweepGap
    OBVIOUS
  <1>1. sweep \in {"idle", "before", "after"}
    BY StepsIn DEF Alone, SweepRuns, TypeInv, TypeOK, SweepType
  <1>2. ToTick \in 0 .. SweepEvery
    BY DEF ToTick, TypeInv, TypeOK, SweepType
  <1>3. others \in 0 .. MaxOthers
    BY DEF TypeInv, TypeOK, SweepType
  <1>4. ToVisit \in Nat /\ ToVisit <= SweepGap
    BY <1>1, <1>2, <1>3 DEF ToVisit, SweepGap, Greater
  <1> QED BY <1>1, <1>2, <1>4

\* A trip that is alone from now on is within its time.
LEMMA Fresh == TypeInv /\ SweepRuns /\ orphan = 0 => Waits
  <1> SUFFICES ASSUME TypeInv, SweepRuns, orphan = 0 PROVE Waits
    OBVIOUS
  <1>1. aborts \in Nat /\ ttl \in Nat /\ ttl <= RecordTTL
    BY StepsIn, Numbers DEF TypeInv, TypeOK
  <1>2. Alone => ToVisit < AloneBound(aborts)
    BY <1>1, AloneBoundGrows, ToVisitType, ConstantsType
  <1>3. Alone => ToVisit \in Nat
    BY ToVisitType
  <1> QED BY <1>1, <1>2, <1>3 DEF Waits

LEMMA WaitsInit == Init => RecoverInv
  <1> SUFFICES ASSUME Init PROVE RecoverInv
    OBVIOUS
  <1>1. KeepInv /\ orphan = 0
    BY KeepInit DEF Init
  <1> QED BY <1>1, Fresh DEF KeepInv, RecoverInv

\* A second alone, on the record or on the way to the visit.
LEMMA TickWaits ==
  ASSUME RecoverInv, KeepInv', Tick
  PROVE  Waits'
  <1> USE DEF RecoverInv, KeepInv
  <1>1. /\ pc' = pc /\ offered' = offered /\ sweep' = sweep /\ aborts' = aborts
        /\ Alone' = Alone
    BY DEF Tick, Alone, Running
  <1>2. CASE ~(offered /\ Alone)
    <2>1. orphan' = 0
      BY <1>2 DEF Tick, Alone
    <2>2. (TypeInv /\ SweepRuns /\ orphan = 0 => Waits)'
      BY Fresh, PTL
    <2> QED BY <2>1, <2>2
  <1>3. CASE offered /\ Alone
    <2>1. orphan' \in Nat /\ orphan' <= orphan + 1 /\ orphan \in Nat
      <3>1. orphan' = Lesser(orphan + 1, Overdue)
        BY <1>3 DEF Tick, Alone
      <3> QED BY <3>1, ConstantsType DEF Lesser, TypeInv, TypeOK
    <2>2. ttl \in Nat /\ ttl' = Greater(ttl - 1, 0) /\ RecordTTL \in Nat
      BY ConstantsType DEF Tick, TypeInv, TypeOK
    <2>3. sweep \in {"idle", "before", "after"} /\ ToTick \in 0 .. SweepEvery /\ ToVisit \in Nat
      BY <1>3, ToVisitType
    <2>4. ToTick' \in Nat /\ ToTick' < SweepEvery /\ ToTick' = Greater(ToTick - 1, 0)
      <3>1. phase \in 1 .. SweepEvery /\ due \in BOOLEAN
        BY DEF TypeInv, TypeOK, SweepType
      <3>2. phase' = (IF phase = 1 THEN SweepEvery ELSE phase - 1) /\ (due' <=> due \/ phase = 1)
        BY DEF Tick
      <3>3. CASE due \/ phase = 1
        BY <3>1, <3>2, <3>3 DEF ToTick, Greater
      <3>4. CASE ~due /\ phase # 1
        BY <3>1, <3>2, <3>4 DEF ToTick, Greater
      <3> QED BY <3>3, <3>4
    <2>5. others \in 0 .. MaxOthers
      BY DEF TypeInv, TypeOK, SweepType
    <2>6. ToVisit' < SweepGap /\ ToVisit' = ToVisit - 1
      <3>1. CASE sweep = "idle"
        <4>1. ToTick > 0
          BY <3>1 DEF Tick, ToTick, TypeInv, TypeOK, SweepType
        <4> QED BY <1>1, <2>3, <2>4, <3>1, <4>1 DEF ToVisit, SweepGap, Greater
      <3>2. CASE sweep = "before"
        <4>1. others > 0 /\ others' = others - 1
          BY <2>5, <3>2 DEF Tick
        <4> QED BY <1>1, <2>5, <3>2, <4>1 DEF ToVisit, SweepGap, Greater
      <3>3. CASE sweep = "after"
        <4>1. others > 0 /\ others' = others - 1
          BY <2>5, <3>3 DEF Tick
        <4>2. ToVisit = Greater(others, ToTick) + MaxOthers
          BY <3>3 DEF ToVisit
        <4>3. ToVisit' = Greater(others', ToTick') + MaxOthers
          BY <1>1, <3>3 DEF ToVisit
        <4>4. Greater(others', ToTick') = Greater(others, ToTick) - 1
          BY <2>3, <2>4, <2>5, <4>1 DEF Greater
        <4>5. Greater(others, ToTick) <= Greater(SweepEvery, MaxOthers) /\ Greater(others, ToTick) \in Nat
          BY <2>3, <2>5 DEF Greater
        <4>6. Greater(SweepEvery, MaxOthers) \in Nat
          BY DEF Greater
        <4> QED BY <4>2, <4>3, <4>4, <4>5, <4>6 DEF SweepGap
      <3> QED BY <2>3, <3>1, <3>2, <3>3
    <2>7. aborts \in Nat /\ AloneBound(aborts) \in Nat /\ AloneBound(aborts) >= RecordTTL + SweepGap
      BY AloneBoundGrows DEF TypeInv, TypeOK
    <2>8. SweepGap \in Nat
      BY ConstantsType
    <2>9. CASE ttl > 0
      <3>1. orphan + ttl <= RecordTTL
        BY <1>3, <2>9 DEF Waits
      <3>2. ttl' = ttl - 1
        BY <2>2, <2>9 DEF Greater
      <3>3. ttl' > 0 => orphan' + ttl' <= RecordTTL
        BY <2>1, <2>2, <3>1, <3>2
      <3>4. ttl' = 0 => orphan' + ToVisit' < AloneBound(aborts')
        BY <1>1, <2>1, <2>2, <2>3, <2>6, <2>7, <2>8, <3>1, <3>2
      <3> QED BY <1>1, <1>3, <3>3, <3>4 DEF Waits
    <2>10. CASE ttl = 0
      <3>1. orphan + ToVisit < AloneBound(aborts)
        BY <1>3, <2>10 DEF Waits
      <3>2. ttl' = 0
        BY <2>2, <2>10 DEF Greater
      <3>3. orphan' + ToVisit' < AloneBound(aborts')
        BY <1>1, <2>1, <2>3, <2>6, <2>7, <3>1
      <3> QED BY <1>1, <1>3, <3>2, <3>3 DEF Waits
    <2> QED BY <2>2, <2>9, <2>10
  <1> QED BY <1>2, <1>3

\* A step of a loop: it runs until it ends, and ends with a trip alone from now on.
LEMMA StepOrphan == ASSUME NEW l \in Loops, Step(l) PROVE Running(l) /\ orphan' = orphan
  BY DEF Step, Claim, GiveUp, CreateOffer, CreateOfferFor, StartWindow, Await, SetOfferStateFails,
         Accept, Release, Wake, Finish, Running, countVars, Answers

LEMMA WaitsNext == RecoverInv /\ [Next]_vars => RecoverInv'
  <1> SUFFICES ASSUME RecoverInv, [Next]_vars PROVE Waits'
    BY KeepNext DEF RecoverInv
  <1>0. KeepInv /\ KeepInv' /\ Waits
    BY KeepNext DEF RecoverInv
  <1>a. orphan' = 0 => Waits'
    <2>1. (TypeInv /\ SweepRuns /\ orphan = 0 => Waits)'
      BY Fresh, PTL
    <2> QED BY <1>0, <2>1 DEF KeepInv
  <1>b. sweep = "before" /\ offered /\ Alone /\ ttl = 0 => ToVisit \in Nat
    BY <1>0, ToVisitType DEF KeepInv
  <1>1. ASSUME NEW l \in Loops, Step(l) PROVE Waits'
    <2>1. orphan' = 0
      BY <1>0, <1>1, StepOrphan DEF Waits, Alone
    <2> QED BY <1>a, <2>1
  <1>2. ASSUME NEW l \in Loops, Stop(l) PROVE Waits'
    <2>1. orphan' = 0
      BY <1>0, <1>2 DEF Stop, Waits, Alone
    <2> QED BY <1>a, <2>1
  <1>3. CASE StartSweep
    <2>1. UNCHANGED <<pc, orphan, aborts, offered, ttl>> /\ Alone' = Alone
      BY <1>3 DEF StartSweep, loopVars, recordVars, countVars, Alone, Running
    <2>2. offered => ToVisit' \in Nat /\ ToVisit \in Nat /\ ToVisit' <= ToVisit
      <3>1. ToVisit = MaxOthers
        BY <1>3 DEF StartSweep, ToVisit, ToTick
      <3>2. offered => ToVisit' = others' /\ others' \in 0 .. MaxOthers
        BY <1>3 DEF StartSweep, ToVisit
      <3> QED BY <3>1, <3>2
    <2>3. orphan \in Nat /\ AloneBound(aborts) \in Nat
      BY <1>0, AloneBoundGrows DEF KeepInv, TypeInv, TypeOK
    <2> QED BY <1>0, <2>1, <2>2, <2>3 DEF Waits
  <1>4. CASE VisitSkips
    <2>1. UNCHANGED <<pc, orphan, aborts, offered, ttl>> /\ Alone' = Alone
      BY <1>4 DEF VisitSkips, loopVars, recordVars, countVars, Alone, Running
    <2>2. ttl > 0 \/ ~offered
      BY <1>4 DEF VisitSkips
    <2>3. ttl \in Nat
      BY <1>0, StepsIn, Numbers DEF KeepInv
    <2> QED BY <1>0, <2>1, <2>2, <2>3 DEF Waits
  <1>5. ASSUME NEW n \in 0 .. MaxCandidates, VisitResumes(n) PROVE Waits'
    BY <1>a, <1>5 DEF VisitResumes
  <1>6. CASE AbortSweep
    <2>1. UNCHANGED <<pc, orphan, offered, ttl>> /\ Alone' = Alone /\ aborts' = aborts + 1
      BY <1>6 DEF AbortSweep, loopVars, recordVars, Alone, Running
    <2>2. aborts \in Nat /\ orphan \in Nat
      BY <1>0 DEF KeepInv, TypeInv, TypeOK
    <2>3. /\ AloneBound(aborts') = AloneBound(aborts) + SweepGap
          /\ AloneBound(aborts) \in Nat /\ SweepGap \in Nat
      BY <2>1, <2>2, AloneBoundGrows, ConstantsType
    <2>4. Alone => ToVisit \in Nat /\ ToVisit' \in Nat /\ ToVisit' <= SweepGap
      <3>1. (TypeInv /\ SweepRuns /\ Alone => ToVisit \in Nat /\ ToVisit <= SweepGap)'
        BY ToVisitType, PTL
      <3> QED BY <1>0, <2>1, <3>1, ToVisitType DEF KeepInv
    <2> QED BY <1>0, <2>1, <2>2, <2>3, <2>4 DEF Waits
  <1>7. CASE EndSweep
    <2>1. UNCHANGED <<pc, orphan, aborts, offered, ttl>> /\ Alone' = Alone
      BY <1>7 DEF EndSweep, loopVars, recordVars, countVars, Alone, Running
    <2>2. Alone => ToVisit' = ToVisit
      <3>1. sweep = "after" /\ others = 0 /\ sweep' = "idle" /\ ToTick' = ToTick
        BY <1>7 DEF EndSweep, ToTick
      <3>2. Alone => ToTick \in Nat
        BY <1>0, ToVisitType DEF KeepInv
      <3> QED BY <3>1, <3>2 DEF ToVisit, Greater
    <2> QED BY <1>0, <2>1, <2>2 DEF Waits
  <1>8. CASE Tick
    BY <1>0, <1>8, TickWaits DEF RecoverInv
  <1>9. CASE UNCHANGED vars
    BY <1>0, <1>9 DEF vars, loopVars, sweepVars, countVars, Waits, Alone, Running, ToVisit, ToTick
  <1> QED BY <1>1, <1>2, <1>3, <1>4, <1>5, <1>6, <1>7, <1>8, <1>9 DEF Next, Visit

LEMMA WaitsRecover == RecoverInv => RecoveredInTime
  <1> SUFFICES ASSUME RecoverInv, offered PROVE orphan < AloneBound(aborts)
    BY DEF RecoveredInTime, AloneBound
  <1>1. orphan \in Nat /\ ttl \in Nat /\ aborts \in Nat
    BY StepsIn, Numbers DEF RecoverInv, KeepInv, TypeInv, TypeOK
  <1>2. /\ AloneBound(aborts) \in Nat /\ AloneBound(aborts) >= RecordTTL + SweepGap
        /\ RecordTTL \in Nat \ {0} /\ SweepGap \in Nat \ {0}
    BY <1>1, AloneBoundGrows, ConstantsType
  <1>3. CASE ~Alone
    BY <1>2, <1>3 DEF RecoverInv, Waits
  <1>4. CASE Alone /\ ttl > 0
    BY <1>1, <1>2, <1>4 DEF RecoverInv, Waits
  <1>5. CASE Alone /\ ttl = 0
    <2>1. ToVisit \in Nat
      BY <1>5, ToVisitType DEF RecoverInv, KeepInv
    <2> QED BY <1>1, <1>2, <1>5, <2>1 DEF RecoverInv, Waits
  <1> QED BY <1>1, <1>3, <1>4, <1>5

\* A trip that lost its loop is taken up again when its record has expired
\* and a sweep has come to it, at the latest one more round of sweeps later
\* for each that another trip ended early, whatever the grace
\* (resumeIfStuck's GetOffer, runReconciler's ticker, Sweep's return).
THEOREM Recovered == Spec => []RecoveredInTime
  <1> QED BY WaitsInit, WaitsNext, WaitsRecover, PTL DEF Spec
=============================================================================
