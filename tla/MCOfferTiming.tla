---------------------------- MODULE MCOfferTiming ----------------------------
(***************************************************************************)
(* A scaled instance of OfferTiming.                                       *)
(***************************************************************************)
EXTENDS OfferTiming

\* 1, 2 and then the ceiling of 3, which is no longer slept after the last round.
ScaledBackoffs == [k \in 0 .. MaxRounds |-> Lesser(k + 1, MaxBackoff)]
=============================================================================
