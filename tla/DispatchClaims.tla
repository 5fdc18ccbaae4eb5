---------------------------- MODULE DispatchClaims ----------------------------
(***************************************************************************)
(* What comments, documents and tests of the repository say of dispatch    *)
(* and the code does not do: every property below has a run that finds the *)
(* behaviour which breaks it.                                              *)
(***************************************************************************)
EXTENDS Dispatch

\* docs/BENCHMARKS.md:120-121: "matched trips are always genuinely matched to the
\* driver who accepted them".  The hub is keyed by trip only, so an answer
\* looked up in one round is delivered to the next round's driver.
MatchedDriverAccepted ==
    \A r \in Runs : goal[r] = "MATCHED" => got[r] = [from |-> cur[r], ans |-> "Accepted"]

\* internal/store/trip_test.go:106: "MATCHED is terminal."  Two loops on one
\* trip overwrite each other's outcome.
MatchedIsTerminal ==
    [][\A t \in Trips : tstate[t] = "MATCHED" => tstate'[t] = "MATCHED"]_vars
=============================================================================
