---------------------------- MODULE MCDriverStore ----------------------------
(***************************************************************************)
(* Small instances of DriverStore.                                         *)
(***************************************************************************)
EXTENDS DriverStore, TLC

CONSTANTS near, far, out

\* The origin's cell, one of the ring around it, and one no search reaches.
NearFarDist == [c \in Cells |-> CASE c = near -> 0 [] c = far -> 1 [] c = out -> 2]

Symmetric == Permutations(Drivers)
=============================================================================
