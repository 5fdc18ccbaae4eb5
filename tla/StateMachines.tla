---------------------------- MODULE StateMachines ----------------------------
(***************************************************************************)
(* internal/statemachine: the three transition tables of the dispatch      *)
(* system and their Validate functions.  A Go map that has no entry for a  *)
(* pair answers false, so a table is the set of the pairs it maps to true. *)
(***************************************************************************)

DriverStates == {"OFFLINE", "AVAILABLE", "OFFERED", "EN_ROUTE", "ON_TRIP"}

DriverTransitions ==
    { <<"OFFLINE", "AVAILABLE">>,
      <<"AVAILABLE", "OFFERED">>,  <<"AVAILABLE", "OFFLINE">>,
      <<"OFFERED", "EN_ROUTE">>,   <<"OFFERED", "AVAILABLE">>,
      <<"EN_ROUTE", "ON_TRIP">>,   <<"EN_ROUTE", "AVAILABLE">>,
      <<"ON_TRIP", "AVAILABLE">> }

ValidDriverTransition(from, to) == <<from, to>> \in DriverTransitions

TripStates == {"REQUESTED", "OFFERED", "MATCHED", "UNFULFILLED"}

TripTransitions ==
    { <<"REQUESTED", "OFFERED">>, <<"REQUESTED", "UNFULFILLED">>,
      <<"OFFERED", "MATCHED">>,   <<"OFFERED", "UNFULFILLED">> }

ValidTripTransition(from, to) == <<from, to>> \in TripTransitions

TerminalTrip == {"MATCHED", "UNFULFILLED"}

OfferStates == {"PENDING", "ACCEPTED", "DECLINED", "TIMED_OUT"}

OfferTransitions ==
    { <<"PENDING", "ACCEPTED">>, <<"PENDING", "DECLINED">>, <<"PENDING", "TIMED_OUT">> }

ValidOfferTransition(from, to) == <<from, to>> \in OfferTransitions
=============================================================================
