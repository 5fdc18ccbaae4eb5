---------------------------- MODULE TripLifecycle ----------------------------
(***************************************************************************)
(* What a trip promises its rider, whatever runs behind it: it is          *)
(* requested once, may be put on offer, and ends exactly once, either      *)
(* matched to one driver or unfulfilled.  An ended trip never changes.     *)
(* "NONE" is a trip whose hash does not exist yet.                         *)
(***************************************************************************)
CONSTANTS Trips, Drivers, NoDriver

VARIABLES state, driver

Init == /\ state = [t \in Trips |-> "NONE"]
        /\ driver = [t \in Trips |-> NoDriver]

Move(t, from, to) == state[t] \in from /\ state' = [state EXCEPT ![t] = to]

Create(t) == Move(t, {"NONE"}, "REQUESTED") /\ UNCHANGED driver

Offer(t) == Move(t, {"REQUESTED"}, "OFFERED") /\ UNCHANGED driver

Match(t, d) == /\ Move(t, {"OFFERED"}, "MATCHED")
               /\ driver' = [driver EXCEPT ![t] = d]

GiveUp(t) == Move(t, {"REQUESTED", "OFFERED"}, "UNFULFILLED") /\ UNCHANGED driver

Next == \E t \in Trips : \/ Create(t) \/ Offer(t) \/ GiveUp(t)
                         \/ \E d \in Drivers : Match(t, d)

Spec == Init /\ [][Next]_<<state, driver>>
=============================================================================
