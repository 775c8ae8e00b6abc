---------------------------- MODULE MCParkingOrder ----------------------------
(* TLC instances of ParkingOrder.                                           *)
EXTENDS ParkingOrder

\* Sleepers are interchangeable, and movers are.
Symmetry == Permutations(Sleepers) \cup Permutations(Movers)
=============================================================================
