----------------------------- MODULE OfferTiming -----------------------------
(***************************************************************************)
(* The time of a dispatch, in seconds: the offer window, the backoffs, the *)
(* TTL of the offer record (internal/offers/dispatcher.go) and the ticker  *)
(* of the reconciler (cmd/disco/main.go).  One trip that is OFFERED and    *)
(* indexed is driven by the loop of its request and by the loop of another *)
(* node's sweep, whenever that finds no record.                            *)
(*                                                                         *)
(* Commands, searches and event publishing take time too: MaxLag bounds    *)
(* what a loop spends on them between two CreateOffers.  Two publishes are *)
(* among them, and the writer holds each for a second to fill its batch.   *)
(* Dispatch has the same steps without time; there ExpireOffer's guard     *)
(* assumes what RecordOutlivesRound says here.                             *)
(***************************************************************************)
EXTENDS Integers

CONSTANTS
    OfferWindow, MaxRounds, BaseBackoff, MaxBackoff,    \* offers.Config
    Grace,          \* offerRecordGrace
    SweepEvery,     \* the period of runReconciler's ticker
    MaxLag,         \* bound: seconds a loop spends on commands between two offers
    MaxCandidates,  \* bound: how many candidates a search returns
    MaxOthers,      \* bound: seconds one sweep spends on the trips it lists besides this one
    MaxStops,       \* bound: loops that are cancelled or crash
    MaxAborts,      \* bound: sweeps that end early because of another trip
    Backoffs        \* the delays in turn: BaseBackoff, doubled up to MaxBackoff

Lesser(a, b) == IF a < b THEN a ELSE b
Greater(a, b) == IF a > b THEN a ELSE b

ASSUME ConfigAssumption ==
    /\ OfferWindow \in Nat \ {0} /\ MaxRounds \in Nat \ {0} /\ Grace \in Nat
    /\ BaseBackoff \in Nat /\ MaxBackoff \in Nat /\ SweepEvery \in Nat \ {0}
    /\ MaxLag \in Nat /\ MaxCandidates \in Nat /\ MaxOthers \in Nat
    /\ MaxStops \in Nat /\ MaxAborts \in Nat
ASSUME BackoffsAssumption ==
    /\ Backoffs \in [0 .. MaxRounds -> Nat]
    /\ Backoffs[0] = BaseBackoff
    /\ \A k \in 0 .. MaxRounds - 1 : Backoffs[k + 1] = Lesser(2 * Backoffs[k], MaxBackoff)

VARIABLES
    offered,        \* the trip is OFFERED, and listed in trips:offered
    ttl, by,        \* seconds offer:<trip> has left (0: no record); the loop that wrote it
    pc, left, rounds, backoff,      \* the loops: step, candidates left, Run's locals
    timer,          \* seconds until a loop's time.After fires
    lag,            \* seconds it spent on commands since its last CreateOffer
    phase, due,     \* seconds to the ticker's next tick; a tick is in its channel
    sweep, others,  \* where the sweep stands; its seconds ahead on other trips
    orphan,         \* history: seconds the trip has been OFFERED without a loop
    stops, aborts

loopVars  == <<pc, left, rounds, backoff, timer, lag>>
sweepVars == <<phase, due, sweep, others>>
countVars == <<orphan, stops, aborts>>
vars == <<offered, ttl, by, loopVars, sweepVars, countVars>>

Loops == {"request", "sweep"}

\* The TTL CreateOffer gives the record.
RecordTTL == OfferWindow + Grace

\* The longest time between two visits of a listed trip.
SweepGap == Greater(SweepEvery, MaxOthers) + MaxOthers

\* Bound: beyond this the history variable orphan is not counted on.
Overdue == RecordTTL + (1 + MaxAborts) * SweepGap

\* Where a loop executes commands, and where it waits on a timer.
Answers == {"accept", "decline"}
Busy == {"claim", "create", "open", "timeout", "match", "finish"} \cup Answers
Waiting == {"await", "backoff"}
Steps == Busy \cup Waiting \cup {"idle"}

Running(l) == pc[l] # "idle"

\* The request's loop has just written OFFERED and the index.
Init ==
    /\ offered = TRUE /\ ttl = 0 /\ by = "request"
    /\ pc = [l \in Loops |-> IF l = "request" THEN "claim" ELSE "idle"]
    /\ left \in {[l \in Loops |-> IF l = "request" THEN n ELSE 0] : n \in 1 .. MaxCandidates}
    /\ rounds = [l \in Loops |-> 0]
    /\ backoff = [l \in Loops |-> BaseBackoff]
    /\ timer = [l \in Loops |-> 0]
    /\ lag = [l \in Loops |-> 0]
    /\ phase \in 1 .. SweepEvery /\ due = FALSE
    /\ sweep = "idle" /\ others = 0
    /\ orphan = 0 /\ stops = 0 /\ aborts = 0

-----------------------------------------------------------------------------
(* Dispatcher.Run.                                                         *)

recordVars == <<offered, ttl, by>>

Goto(l, s) == pc' = [pc EXCEPT ![l] = s]

\* Run returns, to a sweep that goes on to its next trip unless there was an error.
Return(l, error) ==
    /\ Goto(l, "idle")
    /\ left' = [left EXCEPT ![l] = 0]
    /\ rounds' = [rounds EXCEPT ![l] = 0]
    /\ backoff' = [backoff EXCEPT ![l] = BaseBackoff]
    /\ timer' = [timer EXCEPT ![l] = 0]
    /\ lag' = [lag EXCEPT ![l] = 0]
    /\ IF l = "request" THEN UNCHANGED <<sweep, others>>
       ELSE IF error THEN sweep' = "idle" /\ others' = 0
       ELSE sweep' = "after" /\ UNCHANGED others
    /\ UNCHANGED <<phase, due>>

\* The loop's condition, and that of the backoff before its next turn.
GoesOn(l) == left[l] > 0 /\ rounds[l] < MaxRounds

\* SetState(OFFERED) of the next candidate; one that is taken costs neither a
\* round nor a backoff.
Claim(l) ==
    /\ pc[l] = "claim" /\ GoesOn(l)
    /\ left' = [left EXCEPT ![l] = @ - 1]
    /\ Goto(l, "create") \/ UNCHANGED pc
    /\ UNCHANGED <<recordVars, rounds, backoff, timer, lag, sweepVars, countVars>>

GiveUp(l) ==
    /\ pc[l] = "claim" /\ ~GoesOn(l)
    /\ Goto(l, "finish")
    /\ UNCHANGED <<recordVars, left, rounds, backoff, timer, lag, sweepVars, countVars>>

\* CreateOffer with the given TTL.
CreateOfferFor(l, seconds) ==
    /\ pc[l] = "create"
    /\ ttl' = seconds /\ by' = l
    /\ rounds' = [rounds EXCEPT ![l] = @ + 1]
    /\ lag' = [lag EXCEPT ![l] = 0]
    /\ Goto(l, "open")
    /\ UNCHANGED <<offered, left, backoff, timer, sweepVars, countVars>>

\* Mutants: the record lives as long as the dispatch may, or as long as the window.
CreateOfferLong(l) == CreateOfferFor(l, MaxRounds * RecordTTL)
CreateOfferNoGrace(l) == CreateOfferFor(l, OfferWindow)

CreateOffer(l) == CreateOfferFor(l, RecordTTL)

\* The offer has been published; awaitResponse starts its timer.
StartWindow(l) ==
    /\ pc[l] = "open"
    /\ timer' = [timer EXCEPT ![l] = OfferWindow]
    /\ Goto(l, "await")
    /\ UNCHANGED <<recordVars, left, rounds, backoff, lag, sweepVars, countVars>>

\* The select of awaitResponse: an answer, at any time, or the timer.
Await(l) ==
    /\ pc[l] = "await"
    /\ \/ \E ans \in Answers : Goto(l, ans)
       \/ timer[l] = 0 /\ Goto(l, "timeout")
    /\ timer' = [timer EXCEPT ![l] = 0]
    /\ UNCHANGED <<recordVars, left, rounds, backoff, lag, sweepVars, countVars>>

\* SetOfferState fails on a record that is gone, unless the offer timed out,
\* and on the record of another driver's offer.
SetOfferStateFails(l) ==
    /\ pc[l] \in Answers \cup {"timeout"}
    /\ IF ttl = 0 THEN pc[l] # "timeout" ELSE by # l
    /\ Return(l, TRUE)
    /\ UNCHANGED <<recordVars, countVars>>

Accept(l) ==
    /\ pc[l] = "accept" /\ ttl > 0 /\ by = l
    /\ Goto(l, "match")
    /\ UNCHANGED <<recordVars, left, rounds, backoff, timer, lag, sweepVars, countVars>>

\* SetOfferState, SetState(AVAILABLE), and the backoff if there is another turn.
Release(l) ==
    /\ \/ pc[l] = "decline" /\ ttl > 0 /\ by = l
       \/ pc[l] = "timeout" /\ (ttl = 0 \/ by = l)
    /\ IF GoesOn(l)
       THEN /\ Goto(l, "backoff")
            /\ timer' = [timer EXCEPT ![l] = backoff[l]]
            /\ backoff' = [backoff EXCEPT ![l] = Lesser(2 * @, MaxBackoff)]
       ELSE Goto(l, "finish") /\ UNCHANGED <<timer, backoff>>
    /\ UNCHANGED <<recordVars, left, rounds, lag, sweepVars, countVars>>

Wake(l) ==
    /\ pc[l] = "backoff" /\ timer[l] = 0
    /\ Goto(l, "claim")
    /\ UNCHANGED <<recordVars, left, rounds, backoff, timer, lag, sweepVars, countVars>>

\* MarkMatched or MarkUnfulfilled; an error when the trip has already ended.
Finish(l) ==
    /\ pc[l] \in {"match", "finish"}
    /\ offered' = FALSE
    /\ Return(l, ~offered)
    /\ UNCHANGED <<ttl, by, countVars>>

\* The caller goes away, Redis fails, the node crashes.
Stop(l) ==
    /\ Running(l) /\ stops < MaxStops
    /\ stops' = stops + 1
    /\ Return(l, TRUE)
    /\ UNCHANGED <<recordVars, orphan, aborts>>

-----------------------------------------------------------------------------
(* runReconciler, Sweep and resumeIfStuck.  A sweep visits the trips it    *)
(* listed one after the other, and drives one it resumes to its end.       *)

\* A tick is received: the trip is listed if its index entry is there.
StartSweep ==
    /\ sweep = "idle" /\ due
    /\ due' = FALSE
    /\ others' \in 0 .. MaxOthers
    /\ sweep' = IF offered THEN "before" ELSE "after"
    /\ UNCHANGED <<recordVars, loopVars, phase, countVars>>

\* Nothing to do: a record exists, or the trip has ended since it was listed.
VisitSkips ==
    /\ sweep = "before" /\ (ttl > 0 \/ ~offered)
    /\ sweep' = "after"
    /\ UNCHANGED <<recordVars, loopVars, phase, due, others, countVars>>

\* Mutant: a stuck trip is left as it is when no driver is found for it.
VisitResumesOrWaits(n) ==
    /\ sweep = "before" /\ ttl = 0 /\ offered
    /\ IF n = 0
       THEN sweep' = "after" /\ UNCHANGED <<pc, left>>
       ELSE /\ Goto("sweep", "claim")
            /\ left' = [left EXCEPT !["sweep"] = n]
            /\ sweep' = "running"
    /\ orphan' = 0
    /\ UNCHANGED <<recordVars, rounds, backoff, timer, lag, phase, due, others, stops, aborts>>

\* Stuck: Run is called with the candidates found, and gives up without any.
VisitResumes(n) ==
    /\ sweep = "before" /\ ttl = 0 /\ offered
    /\ IF n = 0
       THEN offered' = FALSE /\ sweep' = "after" /\ UNCHANGED <<pc, left>>
       ELSE /\ Goto("sweep", "claim")
            /\ left' = [left EXCEPT !["sweep"] = n]
            /\ sweep' = "running"
            /\ UNCHANGED offered
    /\ orphan' = 0
    /\ UNCHANGED <<ttl, by, rounds, backoff, timer, lag, phase, due, others, stops, aborts>>

\* The visit of a trip listed before this one returns an error.
AbortSweep ==
    /\ sweep = "before" /\ aborts < MaxAborts
    /\ sweep' = "idle" /\ others' = 0
    /\ aborts' = aborts + 1
    /\ UNCHANGED <<recordVars, loopVars, phase, due, orphan, stops>>

EndSweep ==
    /\ sweep = "after" /\ others = 0
    /\ sweep' = "idle"
    /\ UNCHANGED <<recordVars, loopVars, phase, due, others, countVars>>

-----------------------------------------------------------------------------

\* Mutant: the period is slept after each sweep, instead of being a ticker's.
TickAfterSweep ==
    /\ \A l \in Loops : /\ pc[l] \in Busy => lag[l] < MaxLag
                        /\ pc[l] \in Waiting => timer[l] > 0
    /\ ~(sweep = "idle" /\ due) /\ ~(sweep \in {"before", "after"} /\ others = 0)
    /\ ttl' = Greater(ttl - 1, 0)
    /\ lag' = [l \in Loops |-> IF pc[l] \in Busy THEN lag[l] + 1 ELSE lag[l]]
    /\ timer' = [l \in Loops |-> IF pc[l] \in Waiting THEN timer[l] - 1 ELSE timer[l]]
    /\ phase' = IF phase = 1 \/ sweep # "idle" THEN SweepEvery ELSE phase - 1
    /\ due' = (phase = 1 /\ sweep = "idle")
    /\ others' = IF sweep \in {"before", "after"} THEN others - 1 ELSE others
    /\ orphan' = IF offered /\ ~\E l \in Loops : Running(l) THEN Lesser(orphan + 1, Overdue) ELSE 0
    /\ UNCHANGED <<offered, by, pc, left, rounds, backoff, sweep, stops, aborts>>

\* A second passes.  Nobody oversleeps, and commands take MaxLag at most.
Tick ==
    /\ \A l \in Loops : /\ pc[l] \in Busy => lag[l] < MaxLag
                        /\ pc[l] \in Waiting => timer[l] > 0
    /\ ~(sweep = "idle" /\ due) /\ ~(sweep \in {"before", "after"} /\ others = 0)
    /\ ttl' = Greater(ttl - 1, 0)
    /\ lag' = [l \in Loops |-> IF pc[l] \in Busy THEN lag[l] + 1 ELSE lag[l]]
    /\ timer' = [l \in Loops |-> IF pc[l] \in Waiting THEN timer[l] - 1 ELSE timer[l]]
    /\ phase' = IF phase = 1 THEN SweepEvery ELSE phase - 1
    /\ due' = (due \/ phase = 1)
    /\ others' = IF sweep \in {"before", "after"} THEN others - 1 ELSE others
    /\ orphan' = IF offered /\ ~\E l \in Loops : Running(l) THEN Lesser(orphan + 1, Overdue) ELSE 0
    /\ UNCHANGED <<offered, by, pc, left, rounds, backoff, sweep, stops, aborts>>

Step(l) ==
    \/ Claim(l) \/ GiveUp(l) \/ CreateOffer(l) \/ StartWindow(l) \/ Await(l)
    \/ SetOfferStateFails(l) \/ Accept(l) \/ Release(l) \/ Wake(l) \/ Finish(l)

Visit == VisitSkips \/ \E n \in 0 .. MaxCandidates : VisitResumes(n)

Next ==
    \/ \E l \in Loops : Step(l) \/ Stop(l)
    \/ StartSweep \/ Visit \/ AbortSweep \/ EndSweep
    \/ Tick

Spec == Init /\ [][Next]_vars

\* Goroutines are scheduled, the ticker ticks and time passes.
Fairness ==
    /\ \A l \in Loops : WF_vars(Step(l))
    /\ WF_vars(StartSweep) /\ WF_vars(Visit) /\ WF_vars(EndSweep) /\ WF_vars(Tick)

FairSpec == Spec /\ Fairness

-----------------------------------------------------------------------------

LoopsType ==
    /\ pc \in [Loops -> Steps]
    /\ left \in [Loops -> 0 .. MaxCandidates]
    /\ rounds \in [Loops -> 0 .. MaxRounds]
    /\ backoff \in [Loops -> Nat] /\ timer \in [Loops -> Nat] /\ lag \in [Loops -> 0 .. MaxLag]

SweepType ==
    /\ phase \in 1 .. SweepEvery /\ due \in BOOLEAN
    /\ sweep \in {"idle", "before", "running", "after"} /\ others \in 0 .. MaxOthers

TypeOK ==
    /\ offered \in BOOLEAN /\ ttl \in 0 .. RecordTTL /\ by \in Loops
    /\ LoopsType /\ SweepType
    /\ orphan \in 0 .. Overdue /\ stops \in 0 .. MaxStops /\ aborts \in 0 .. MaxAborts

\* A round never outlives its record: from CreateOffer until the answer has
\* been settled, a match included, the trip has one.  A loop that lives can
\* only be without it between two rounds, after a delay that the grace does
\* not cover on top of the commands; there a sweep takes the trip for stuck.
\* (CreateOffer's TTL, offerRecordGrace, the backoff at the end of Run's loop.)
RecordOutlivesRound ==
    \A l \in Loops : Running(l) /\ rounds[l] > 0 /\ ttl = 0 =>
        /\ pc[l] \in {"backoff", "claim", "create", "finish"}
        /\ rounds[l] < MaxRounds
        /\ Backoffs[rounds[l] - 1] + MaxLag >= Grace

\* A trip that lost its loop is taken up again when its last record has
\* expired and a sweep has come to it; each sweep that another trip ends
\* early costs one more round of them.  (resumeIfStuck's GetOffer, the ticker,
\* and Sweep's return on the first error.)
RecoveredInTime == offered => orphan < RecordTTL + (1 + aborts) * SweepGap

\* The trip ends, whatever loops fail: the code sets no timer that nobody
\* waits for.  (Run, runReconciler.)
TripEnds == offered ~> ~offered
=============================================================================
