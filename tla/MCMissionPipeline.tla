------------------------- MODULE MCMissionPipeline -------------------------
(* Invocations are interchangeable. *)
EXTENDS MissionPipeline, TLC

Interchangeable == Permutations(Worker)
=============================================================================
