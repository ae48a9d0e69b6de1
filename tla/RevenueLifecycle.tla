-------------------------- MODULE RevenueLifecycle --------------------------
(***************************************************************************)
(* The life of a revenue action as revenue-execution-guard.ts states it    *)
(* (TRANSITIONS, canTransition): what may follow what, and three states    *)
(* that nothing follows.                                                   *)
(***************************************************************************)
CONSTANT Slot

VARIABLE status

Transitions == [pending |-> {"approved", "cancelled"}, approved |-> {"executing", "cancelled"},
                executing |-> {"done", "failed"}, done |-> {}, failed |-> {}, cancelled |-> {}]

Init == status = [s \in Slot |-> "absent"]

Prepare(s) ==
    /\ status[s] = "absent"
    /\ status' = [status EXCEPT ![s] = "pending"]

Move(s, next) ==
    /\ status[s] # "absent"
    /\ next \in Transitions[status[s]]
    /\ status' = [status EXCEPT ![s] = next]

Next == \E s \in Slot : Prepare(s) \/ \E next \in UNION {Transitions[x] : x \in DOMAIN Transitions} : Move(s, next)

Spec == Init /\ [][Next]_status
=============================================================================
