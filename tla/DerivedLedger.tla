---------------------------- MODULE DerivedLedger ----------------------------
(***************************************************************************)
(* What docs and tests ask of the income ledger that is derived from a     *)
(* processor's payments: a row is never ahead of the payment it is about,  *)
(* it is written at most once per reference, and it stays.                 *)
(***************************************************************************)
EXTENDS Naturals

CONSTANTS PI, Row    \* Row: records with fields ref, pi, notes and amount

VARIABLES recorded, rows

Key(r) == <<r.ref, r.pi, r.notes>>

Init == recorded = {} /\ rows = {}

\* The processor's transaction becomes known.
Record(p) ==
    /\ p \notin recorded
    /\ recorded' = recorded \cup {p}
    /\ UNCHANGED rows

\* A row is derived from a recorded transaction, once per key.
Derive(r) ==
    /\ r.pi \in recorded
    /\ \A s \in rows : Key(s) # Key(r)
    /\ rows' = rows \cup {r}
    /\ UNCHANGED recorded

Next == (\E p \in PI : Record(p)) \/ (\E r \in Row : Derive(r))

Spec == Init /\ [][Next]_<<recorded, rows>>
=============================================================================
