---------------------------- MODULE MissionChain ----------------------------
(***************************************************************************)
(* The chain of a durable mission as its two writers intend it:            *)
(* STAGE_ORDER (active-missions.ts) is walked one stage at a time, each    *)
(* work stage left with its artifact verified while the mission stood      *)
(* there, the last step taken by the owner, and nothing follows COMPLETED. *)
(***************************************************************************)
EXTENDS Naturals

CONSTANT Work  \* the number of stages that require an artifact

VARIABLES stage, proven, approved

Init == stage = 1 /\ proven = {} /\ approved = FALSE

\* An artifact of the stage is verified, for the first time or again.
Verify ==
    /\ stage <= Work
    /\ proven' = proven \cup {stage}
    /\ UNCHANGED <<stage, approved>>

Advance ==
    /\ stage <= Work /\ stage \in proven
    /\ stage' = stage + 1
    /\ UNCHANGED <<proven, approved>>

\* OWNER_APPROVAL -> COMPLETED
Approve ==
    /\ stage = Work + 1
    /\ stage' = stage + 1
    /\ approved' = TRUE
    /\ UNCHANGED proven

Next == Verify \/ Advance \/ Approve

Spec == Init /\ [][Next]_<<stage, proven, approved>>
=============================================================================
