---------------------------- MODULE RevenueQueue ----------------------------
(***************************************************************************)
(* The queue of revenue actions (table PendingManageAction) and the two    *)
(* routes that work on it:                                                 *)
(*   - /api/revenue-approval (revenue-approval.ts): every operation is one *)
(*     database transaction; prepare holds an advisory lock;               *)
(*   - /api/revenue-execution (revenue-execution.ts): every operation is a *)
(*     sequence of independent calls, and execute calls a provider.        *)
(* An operation of the second route is a request with a program counter;   *)
(* requests interleave between calls, may fail at any call, and may die.   *)
(***************************************************************************)
EXTENDS Naturals, FiniteSets

CONSTANTS
    Slot,             \* rows the table can hold (a bound)
    Key,              \* action names: revenue.<action>:<idempotency key>
    Outreach, Checkout,  \* keys whose action has an enabled executor
    Request,          \* requests of the operator in progress at the same time
    NoRequest, NoSlot, NoKey,
    OperatorExecutes, \* does the operator claim and complete actions himself?
    MaxFailures,      \* bound: database errors and deaths of requests
    Cap               \* bound: external effects are counted up to Cap

ASSUME KeyAssumption == Outreach \subseteq Key /\ Checkout \subseteq Key /\ NoKey \notin Key
ASSUME BoundAssumption == MaxFailures \in Nat /\ Cap \in Nat \ {0}
ASSUME OperatorAssumption == OperatorExecutes \in BOOLEAN
ASSUME NoneAssumption == NoRequest \notin Request /\ NoSlot \notin Slot

VARIABLES
    status, key, door,  \* the rows: status, action name, and who prepared them
    audit,              \* AuditLog entries, as <<row, event>>
    sent,               \* external effects performed for a row
    lock,               \* advisory lock of an idempotency key
    pc, slot, want,     \* of each request: its next call, its row, the key it prepares
    failures

rows == <<status, key, door>>
vars == <<status, key, door, audit, sent, lock, pc, slot, want, failures>>

Status == {"absent", "pending", "approved", "executing", "done", "failed", "cancelled"}
AuditEvent == {"prepared", "approved", "claimed", "started", "completed", "done", "failed",
               "cancelled"}
Label == {"idle", "find", "create", "auditPrepared", "lockedFind", "lockedCreate",
          "auditApproved", "claim", "auditStarted", "call", "recordDone", "auditDone",
          "recordFailed", "auditFailed"}

TypeOK ==
    /\ status \in [Slot -> Status]
    /\ key \in [Slot -> Key \cup {NoKey}]
    /\ door \in [Slot -> {"none", "execution", "approval"}]
    /\ audit \subseteq Slot \X AuditEvent
    /\ sent \in [Slot -> 0 .. Cap]
    /\ lock \in [Key -> Request \cup {NoRequest}]
    /\ pc \in [Request -> Label]
    /\ slot \in [Request -> Slot \cup {NoSlot}]
    /\ want \in [Request -> Key \cup {NoKey}]
    /\ failures \in 0 .. MaxFailures

Init ==
    /\ status = [s \in Slot |-> "absent"]
    /\ key = [s \in Slot |-> NoKey]
    /\ door = [s \in Slot |-> "none"]
    /\ audit = {}
    /\ sent = [s \in Slot |-> 0]
    /\ lock = [k \in Key |-> NoRequest]
    /\ pc = [r \in Request |-> "idle"]
    /\ slot = [r \in Request |-> NoSlot]
    /\ want = [r \in Request |-> NoKey]
    /\ failures = 0

-----------------------------------------------------------------------------
(* Helpers *)

Exists(k) == \E s \in Slot : status[s] # "absent" /\ key[s] = k

Goto(r, label) == pc' = [pc EXCEPT ![r] = label]

\* The request answers, throws or dies.
End(r) ==
    /\ pc' = [pc EXCEPT ![r] = "idle"]
    /\ slot' = [slot EXCEPT ![r] = NoSlot]
    /\ want' = [want EXCEPT ![r] = NoKey]

\* A transaction commits or rolls back: its advisory lock is gone.
Unlock(r) == lock' = [k \in Key |-> IF lock[k] = r THEN NoRequest ELSE lock[k]]

Log(s, event) == audit' = audit \cup {<<s, event>>}

\* updateMany ... where status = from: the conditional transition
Swap(s, from, to) == status[s] = from /\ status' = [status EXCEPT ![s] = to]

\* Insert a row for key k; the new row is pending.
Insert(s, k, by) ==
    /\ status[s] = "absent"
    /\ status' = [status EXCEPT ![s] = "pending"]
    /\ key' = [key EXCEPT ![s] = k]
    /\ door' = [door EXCEPT ![s] = by]

\* getRevenueExecutor finds an executor that is enabled
Executable(k) == k \in Outreach \cup Checkout

-----------------------------------------------------------------------------
(* revenue-execution.ts: prepare and approve *)

\* a request to prepare; its key is trimmed and not empty
Prepare(r, k) ==
    /\ pc[r] = "idle"
    /\ want' = [want EXCEPT ![r] = k]
    /\ Goto(r, "find")
    /\ UNCHANGED <<rows, audit, sent, lock, slot, failures>>

\* findFirst, under no lock
FindExisting(r) ==
    /\ pc[r] = "find"
    /\ IF Exists(want[r]) THEN End(r)
       ELSE Goto(r, "create") /\ UNCHANGED <<slot, want>>
    /\ UNCHANGED <<rows, audit, sent, lock, failures>>

Create(r) ==
    /\ pc[r] = "create"
    /\ \E s \in Slot : Insert(s, want[r], "execution") /\ slot' = [slot EXCEPT ![r] = s]
    /\ Goto(r, "auditPrepared")
    /\ UNCHANGED <<audit, sent, lock, want, failures>>

\* mutant: a failed action may be approved again
ApproveRetry(r, s) ==
    /\ pc[r] = "idle"
    /\ Swap(s, "pending", "approved") \/ Swap(s, "failed", "approved")
    /\ slot' = [slot EXCEPT ![r] = s]
    /\ Goto(r, "auditApproved")
    /\ UNCHANGED <<key, door, audit, sent, lock, want, failures>>

\* The conditional transition and its audit entry are two calls.
Approve(r, s) ==
    /\ pc[r] = "idle"
    /\ Swap(s, "pending", "approved")
    /\ slot' = [slot EXCEPT ![r] = s]
    /\ Goto(r, "auditApproved")
    /\ UNCHANGED <<key, door, audit, sent, lock, want, failures>>

\* The last call of an operation is an audit entry.
AuditAndEnd(r) ==
    /\ \/ pc[r] = "auditPrepared" /\ Log(slot[r], "prepared")
       \/ pc[r] = "auditApproved" /\ Log(slot[r], "approved")
       \/ pc[r] = "auditDone" /\ Log(slot[r], "done")
       \/ pc[r] = "auditFailed" /\ Log(slot[r], "failed")
    /\ End(r)
    /\ UNCHANGED <<rows, sent, lock, failures>>

-----------------------------------------------------------------------------
(* revenue-execution.ts: execute *)

\* The row is read and found approved, and an executor is enabled.
Execute(r, s) ==
    /\ pc[r] = "idle"
    /\ status[s] = "approved"
    /\ Executable(key[s])
    /\ slot' = [slot EXCEPT ![r] = s]
    /\ Goto(r, "claim")
    /\ UNCHANGED <<rows, audit, sent, lock, want, failures>>

\* mutant: the claim updates the row by its id alone
ClaimById(r) ==
    /\ pc[r] = "claim"
    /\ status' = [status EXCEPT ![slot[r]] = "executing"]
    /\ Goto(r, "auditStarted")
    /\ UNCHANGED <<slot, want, key, door, audit, sent, lock, failures>>

\* The conditional claim; a loser throws.
Claim(r) ==
    /\ pc[r] = "claim"
    /\ IF status[slot[r]] = "approved"
       THEN /\ status' = [status EXCEPT ![slot[r]] = "executing"]
            /\ Goto(r, "auditStarted")
            /\ UNCHANGED <<slot, want>>
       ELSE End(r) /\ UNCHANGED status
    /\ UNCHANGED <<key, door, audit, sent, lock, failures>>

AuditStarted(r) ==
    /\ pc[r] = "auditStarted"
    /\ Log(slot[r], "started")
    /\ Goto(r, "call")
    /\ UNCHANGED <<rows, sent, lock, slot, want, failures>>

\* mutant: an error of the provider is not caught
CallExecutorUncaught(r) ==
    /\ pc[r] = "call"
    /\ \E effect \in BOOLEAN :
          /\ sent' = [sent EXCEPT ![slot[r]] = IF effect /\ @ < Cap THEN @ + 1 ELSE @]
          /\ IF effect THEN Goto(r, "recordDone") /\ UNCHANGED <<slot, want>> ELSE End(r)
    /\ UNCHANGED <<rows, audit, lock, failures>>

\* executor.execute: it returns after the effect, or throws without it, or throws although
\* the provider performed it (a lost reply).  A checkout prepared by the other route has no
\* userId in its attributes and is refused before any call to Stripe.
CallExecutor(r) ==
    LET s == slot[r]
        Refused == key[s] \in Checkout /\ door[s] = "approval"
    IN  /\ pc[r] = "call"
        /\ \E effect, returned \in BOOLEAN :
              /\ returned => effect
              /\ effect => ~Refused
              /\ sent' = [sent EXCEPT ![s] = IF effect /\ @ < Cap THEN @ + 1 ELSE @]
              /\ Goto(r, IF returned THEN "recordDone" ELSE "recordFailed")
        /\ UNCHANGED <<rows, audit, lock, slot, want, failures>>

\* The row is updated by its id, whatever its status has become.
RecordDone(r) ==
    /\ pc[r] = "recordDone"
    /\ status' = [status EXCEPT ![slot[r]] = "done"]
    /\ Goto(r, "auditDone")
    /\ UNCHANGED <<key, door, audit, sent, lock, slot, want, failures>>

\* mutant: a status the lifecycle does not know
RecordFailedAsError(r) ==
    /\ pc[r] = "recordFailed"
    /\ status' = [status EXCEPT ![slot[r]] = "error"]
    /\ Goto(r, "auditFailed")
    /\ UNCHANGED <<key, door, audit, sent, lock, slot, want, failures>>

\* the catch of execute, which also updates by id
RecordFailed(r) ==
    /\ pc[r] = "recordFailed"
    /\ status' = [status EXCEPT ![slot[r]] = "failed"]
    /\ Goto(r, "auditFailed")
    /\ UNCHANGED <<key, door, audit, sent, lock, slot, want, failures>>

-----------------------------------------------------------------------------
(* revenue-approval.ts: one transaction per operation *)

\* mutant: prepare takes no lock
PrepareUnlocked(r, k) ==
    /\ pc[r] = "idle"
    /\ want' = [want EXCEPT ![r] = k]
    /\ Goto(r, "lockedFind")
    /\ UNCHANGED <<rows, audit, sent, lock, slot, failures>>

\* prepare waits for the advisory lock of the idempotency key
PrepareLocked(r, k) ==
    /\ pc[r] = "idle"
    /\ lock[k] = NoRequest
    /\ lock' = [lock EXCEPT ![k] = r]
    /\ want' = [want EXCEPT ![r] = k]
    /\ Goto(r, "lockedFind")
    /\ UNCHANGED <<rows, audit, sent, slot, failures>>

FindLocked(r) ==
    /\ pc[r] = "lockedFind"
    /\ IF Exists(want[r]) THEN End(r) /\ Unlock(r)
       ELSE Goto(r, "lockedCreate") /\ UNCHANGED <<slot, want, lock>>
    /\ UNCHANGED <<rows, audit, sent, failures>>

\* the row and its audit entry become visible at the commit, which releases the lock
CreateLocked(r) ==
    /\ pc[r] = "lockedCreate"
    /\ \E s \in Slot : Insert(s, want[r], "approval") /\ Log(s, "prepared")
    /\ End(r)
    /\ Unlock(r)
    /\ UNCHANGED <<sent, failures>>

\* mutant: the approval leaves no audit entry
ApproveSilently(s) ==
    /\ Swap(s, "pending", "approved")
    /\ UNCHANGED <<key, door, audit, sent, lock, pc, slot, want, failures>>

\* pending -> approved and its audit entry, together
ApproveAtomically(s) ==
    /\ Swap(s, "pending", "approved")
    /\ Log(s, "approved")
    /\ UNCHANGED <<key, door, sent, lock, pc, slot, want, failures>>

\* approved -> executing, by hand
ClaimByOperator(s) ==
    /\ OperatorExecutes
    /\ Swap(s, "approved", "executing")
    /\ Log(s, "claimed")
    /\ UNCHANGED <<key, door, sent, lock, pc, slot, want, failures>>

\* Any executing action can be completed here, also one a request is executing.
CompleteByOperator(s) ==
    /\ OperatorExecutes
    /\ Swap(s, "executing", "done")
    /\ Log(s, "completed")
    /\ UNCHANGED <<key, door, sent, lock, pc, slot, want, failures>>

\* mutant: an executing action can be cancelled too
CancelExecuting(s) ==
    /\ \E from \in {"pending", "approved", "executing"} : Swap(s, from, "cancelled")
    /\ Log(s, "cancelled")
    /\ UNCHANGED <<key, door, sent, lock, pc, slot, want, failures>>

\* pending or approved -> cancelled
Cancel(s) ==
    /\ Swap(s, "pending", "cancelled") \/ Swap(s, "approved", "cancelled")
    /\ Log(s, "cancelled")
    /\ UNCHANGED <<key, door, sent, lock, pc, slot, want, failures>>

-----------------------------------------------------------------------------
(* Failures *)

\* The request dies or a call outside any try fails; an open transaction rolls back.
Fail(r) ==
    /\ pc[r] # "idle"
    /\ failures < MaxFailures
    /\ failures' = failures + 1
    /\ End(r)
    /\ Unlock(r)
    /\ UNCHANGED <<rows, audit, sent>>

\* A database error after the provider returned lands in the catch of execute.
CatchFailure(r) ==
    /\ pc[r] \in {"recordDone", "auditDone"}
    /\ failures < MaxFailures
    /\ failures' = failures + 1
    /\ Goto(r, "recordFailed")
    /\ UNCHANGED <<rows, audit, sent, lock, slot, want>>

Step(r) ==
    \/ FindExisting(r) \/ Create(r) \/ AuditAndEnd(r)
    \/ Claim(r) \/ AuditStarted(r) \/ CallExecutor(r) \/ RecordDone(r) \/ RecordFailed(r)
    \/ FindLocked(r) \/ CreateLocked(r)

Next ==
    \/ \E r \in Request : \/ \E k \in Key : Prepare(r, k) \/ PrepareLocked(r, k)
                          \/ \E s \in Slot : Approve(r, s) \/ Execute(r, s)
                          \/ Step(r) \/ Fail(r) \/ CatchFailure(r)
    \/ \E s \in Slot : \/ ApproveAtomically(s) \/ ClaimByOperator(s)
                       \/ CompleteByOperator(s) \/ Cancel(s)

Spec == Init /\ [][Next]_vars

\* A request that is not interrupted goes on to its end.
FairSpec == Spec /\ \A r \in Request : WF_vars(Step(r))

-----------------------------------------------------------------------------
(* Safety *)

\* The calls of execute after a successful claim
Owning == {"auditStarted", "call", "recordDone", "auditDone", "recordFailed", "auditFailed"}

\* Two requests never execute the same action (the conditional claim of execute, line 60).
ClaimExclusive ==
    \A q, r \in Request :
        (pc[q] \in Owning /\ pc[r] \in Owning /\ slot[q] = slot[r]) => q = r

\* A provider is asked at most once for an action, whatever is retried, dies or races.
OneEffectPerAction == \A s \in Slot : sent[s] <= 1

\* An external effect belongs to an action that was approved and claimed, never to a
\* pending, approved or cancelled one, and its start is on record before it happens.
EffectAfterApproval ==
    \A s \in Slot : sent[s] > 0 =>
        status[s] \in {"executing", "done", "failed"} /\ <<s, "started">> \in audit

\* Rows prepared under the advisory lock are never duplicates of each other.
LockedPrepareOnce ==
    \A s, t \in Slot :
        (door[s] = "approval" /\ door[t] = "approval" /\ key[s] = key[t]) => s = t

\* An action beyond approval has its approval in the audit log, or is about to.
ApprovalAudited ==
    \A s \in Slot : status[s] \in {"approved", "executing", "done", "failed"} =>
        \/ <<s, "approved">> \in audit
        \/ \E r \in Request : pc[r] = "auditApproved" /\ slot[r] = s

(* Liveness, under FairSpec *)

\* A claimed action settles.
ClaimedEventuallySettles ==
    \A s \in Slot : status[s] = "executing" ~> status[s] \in {"done", "failed"}

-----------------------------------------------------------------------------
(* The lifecycle the guard module promises *)

Lifecycle == INSTANCE RevenueLifecycle
ImplementsLifecycle == Lifecycle!Spec
=============================================================================
