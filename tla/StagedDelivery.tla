--------------------------- MODULE StagedDelivery ---------------------------
(***************************************************************************)
(* What a mission of the pipeline promises, whoever runs it and whatever   *)
(* is lost on the way: stages deliver in their order, the last one of a    *)
(* gated mission with the owner's consent, and the report comes after it.  *)
(***************************************************************************)
EXTENDS Naturals

CONSTANTS Last,    \* the stage of the CEO
          Gated    \* does it need the owner's consent?

VARIABLES consent, delivered, reported

Init == consent = FALSE /\ delivered = {} /\ reported = FALSE

\* The owner approves, or the operator waives the approval.  It is never withdrawn.
Consent ==
    /\ consent' = TRUE
    /\ UNCHANGED <<delivered, reported>>

\* The agents of stage s deliver, for the first time or again.
Deliver(s) ==
    /\ \A t \in 1 .. s - 1 : t \in delivered
    /\ Gated /\ s = Last => consent
    /\ delivered' = delivered \cup {s}
    /\ UNCHANGED <<consent, reported>>

Report ==
    /\ Last \in delivered
    /\ reported' = TRUE
    /\ UNCHANGED <<consent, delivered>>

Next == Consent \/ (\E s \in 1 .. Last : Deliver(s)) \/ Report

Spec == Init /\ [][Next]_<<consent, delivered, reported>>
=============================================================================
