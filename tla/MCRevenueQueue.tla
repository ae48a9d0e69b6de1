--------------------------- MODULE MCRevenueQueue ---------------------------
(* Symmetry of the runs of RevenueQueue that check no liveness property. *)
EXTENDS RevenueQueue, TLC

Interchangeable == Permutations(Request) \cup Permutations(Slot)
=============================================================================
