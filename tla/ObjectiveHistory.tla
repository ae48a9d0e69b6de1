-------------------------- MODULE ObjectiveHistory --------------------------
(***************************************************************************)
(* What a conversation promises of its research objectives, whoever writes *)
(* them at the same time: one is active, it gains tickers and never loses  *)
(* one, the next one supersedes it, and a superseded one is history.       *)
(***************************************************************************)
EXTENDS Naturals

CONSTANTS Author,   \* who may establish an objective, each at most one
          Ticker    \* what objectives can be about

VARIABLES status, tickers

Init ==
    /\ status = [p \in Author |-> "none"]
    /\ tickers = [p \in Author |-> {}]

\* A new objective supersedes the active one in the same step.
Establish(p) ==
    /\ status[p] = "none"
    /\ status' = [q \in Author |-> IF q = p THEN "active"
                                   ELSE IF status[q] = "active" THEN "superseded"
                                   ELSE status[q]]
    /\ \E named \in SUBSET Ticker : named # {} /\ tickers' = [tickers EXCEPT ![p] = named]

\* Only the active objective goes on.
Extend(q) ==
    /\ status[q] = "active"
    /\ \E named \in SUBSET Ticker : tickers' = [tickers EXCEPT ![q] = @ \cup named]
    /\ UNCHANGED status

Next == \E p \in Author : Establish(p) \/ Extend(p)

Spec == Init /\ [][Next]_<<status, tickers>>
=============================================================================
