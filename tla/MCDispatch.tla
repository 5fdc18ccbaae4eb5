----------------------------- MODULE MCDispatch -----------------------------
(***************************************************************************)
(* Small instances of Dispatch.                                            *)
(***************************************************************************)
EXTENDS DispatchClaims, TLC

CONSTANTS t1, t2, n1, n2, r1, r2, s1, s2

\* Two riders, one request each, on one node.
SoloTripOf == (r1 :> t1) @@ (r2 :> t2)
SoloNodeOf == (r1 :> n1) @@ (r2 :> n1)
SoloOwner  == (t1 :> n1) @@ (t2 :> n1)

\* One trip: a request, its retry, and the sweep of another node.
SharedTripOf == [r \in Runs |-> t1]
SharedNodeOf == [r \in Runs |-> IF r = s1 THEN n2 ELSE n1]
SharedOwner  == t1 :> n1

DriverSymmetry == Permutations(Drivers)
=============================================================================
