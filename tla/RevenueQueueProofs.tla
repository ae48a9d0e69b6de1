-------------------------- MODULE RevenueQueueProofs --------------------------
(***************************************************************************)
(* Proofs about the queue of revenue actions, for any number of rows, keys *)
(* and requests, and any number of failures unless a theorem says          *)
(* otherwise.                                                              *)
(***************************************************************************)
EXTENDS RevenueQueue, TLAPS

-----------------------------------------------------------------------------
(* The inductive invariant *)

\* Calls a request makes on a row it holds, and calls of the two prepares
RowLabel == {"auditPrepared", "auditApproved", "claim"} \cup Owning
WantLabel == {"find", "create", "lockedFind", "lockedCreate"}
Beyond == {"executing", "done", "failed"}

\* A request that works on a row works on one that exists; its key is a key.
RequestOK ==
    \A r \in Request :
        /\ pc[r] \in RowLabel => slot[r] \in Slot /\ status[slot[r]] # "absent"
        /\ pc[r] \in WantLabel => want[r] \in Key

\* A row whose execution a request owns has been claimed, and nothing un-claims it.
OwnedOK == \A r \in Request : pc[r] \in Owning => status[slot[r]] \in Beyond

\* Until the provider is called, there is no effect; the start is on record by then.
NotYetOK ==
    \A r \in Request :
        /\ pc[r] \in {"auditStarted", "call"} => sent[slot[r]] = 0
        /\ pc[r] = "call" => <<slot[r], "started">> \in audit

\* Rows have a door only when they exist.
DoorOK == \A s \in Slot : door[s] # "none" => status[s] # "absent"

\* Between its find and its insert, a locked prepare owns its key, and no row under the
\* lock has that key.
LockOK ==
    \A r \in Request :
        /\ pc[r] \in {"lockedFind", "lockedCreate"} => lock[want[r]] = r
        /\ pc[r] = "lockedCreate" =>
                \A s \in Slot : ~(door[s] = "approval" /\ key[s] = want[r])

EffectOK == OneEffectPerAction /\ EffectAfterApproval /\ NotYetOK
LocksOK == DoorOK /\ LockOK /\ LockedPrepareOnce

IInv == /\ TypeOK /\ RequestOK /\ OwnedOK /\ ClaimExclusive
        /\ EffectOK /\ LocksOK

USE KeyAssumption, BoundAssumption, OperatorAssumption, NoneAssumption

-----------------------------------------------------------------------------
(* Type correctness *)

\* The queue starts well typed.
LEMMA TypeInit == Init => TypeOK
  BY DEF Init, TypeOK, Status, Label

\* Ending a request leaves the three variables of the requests well typed.
LEMMA EndType ==
    ASSUME TypeOK, NEW r \in Request, End(r)
    PROVE  /\ pc' \in [Request -> Label]
           /\ slot' \in [Request -> Slot \cup {NoSlot}]
           /\ want' \in [Request -> Key \cup {NoKey}]
  BY DEF TypeOK, End, Label

\* So does giving up the locks of a request for the locks.
LEMMA UnlockType ==
    ASSUME TypeOK, NEW r \in Request, Unlock(r)
    PROVE  lock' \in [Key -> Request \cup {NoRequest}]
  BY DEF TypeOK, Unlock

\* Every step of the queue preserves its type.
LEMMA TypeStep == TypeOK /\ RequestOK /\ [Next]_vars => TypeOK'
  <1> SUFFICES ASSUME TypeOK, RequestOK, [Next]_vars PROVE TypeOK'
    OBVIOUS
  <1> USE DEF rows
  <1>1. ASSUME NEW r \in Request, NEW k \in Key, Prepare(r, k) PROVE TypeOK'
    BY <1>1 DEF Prepare, TypeOK, Goto, Label
  <1>2. ASSUME NEW r \in Request, NEW k \in Key, PrepareLocked(r, k) PROVE TypeOK'
    BY <1>2 DEF PrepareLocked, TypeOK, Goto, Label
  <1>3. ASSUME NEW r \in Request, NEW s \in Slot, Approve(r, s) PROVE TypeOK'
    BY <1>3 DEF Approve, Swap, TypeOK, Goto, Label, Status
  <1>4. ASSUME NEW r \in Request, NEW s \in Slot, Execute(r, s) PROVE TypeOK'
    BY <1>4 DEF Execute, TypeOK, Goto, Label
  <1>5. ASSUME NEW r \in Request, FindExisting(r) PROVE TypeOK'
    BY <1>5, EndType DEF FindExisting, TypeOK, Goto, Label
  <1>6. ASSUME NEW r \in Request, Create(r) PROVE TypeOK'
    <2>1. want[r] \in Key
      BY <1>6 DEF Create, RequestOK, WantLabel
    <2> QED BY <1>6, <2>1 DEF Create, Insert, TypeOK, Goto, Label, Status
  <1>7. ASSUME NEW r \in Request, AuditAndEnd(r) PROVE TypeOK'
    <2>1. slot[r] \in Slot
      BY <1>7 DEF AuditAndEnd, RequestOK, RowLabel, Owning
    <2>2. audit' \subseteq Slot \X AuditEvent
      BY <1>7, <2>1 DEF AuditAndEnd, Log, TypeOK, AuditEvent
    <2> QED BY <1>7, <2>2, EndType DEF AuditAndEnd, TypeOK
  <1>8. ASSUME NEW r \in Request, Claim(r) PROVE TypeOK'
    BY <1>8, EndType DEF Claim, TypeOK, Goto, Label, Status
  <1>9. ASSUME NEW r \in Request, AuditStarted(r) PROVE TypeOK'
    <2>1. slot[r] \in Slot
      BY <1>9 DEF AuditStarted, RequestOK, RowLabel, Owning
    <2>2. audit' \subseteq Slot \X AuditEvent
      BY <1>9, <2>1 DEF AuditStarted, Log, TypeOK, AuditEvent
    <2> QED BY <1>9, <2>2 DEF AuditStarted, TypeOK, Goto, Label
  <1>10. ASSUME NEW r \in Request, CallExecutor(r) PROVE TypeOK'
    <2>1. slot[r] \in Slot
      BY <1>10 DEF CallExecutor, RequestOK, RowLabel, Owning
    <2>2. PICK effect, returned \in BOOLEAN :
            /\ sent' = [sent EXCEPT ![slot[r]] =
                            IF effect /\ @ < Cap THEN @ + 1 ELSE @]
            /\ Goto(r, IF returned THEN "recordDone" ELSE "recordFailed")
      BY <1>10 DEF CallExecutor
    <2>3. sent' \in [Slot -> 0 .. Cap]
      BY <2>1, <2>2 DEF TypeOK
    <2> QED BY <1>10, <2>2, <2>3 DEF CallExecutor, TypeOK, Goto, Label
  <1>11. ASSUME NEW r \in Request, RecordDone(r) PROVE TypeOK'
    BY <1>11 DEF RecordDone, TypeOK, Goto, Label, Status
  <1>12. ASSUME NEW r \in Request, RecordFailed(r) PROVE TypeOK'
    BY <1>12 DEF RecordFailed, TypeOK, Goto, Label, Status
  <1>13. ASSUME NEW r \in Request, FindLocked(r) PROVE TypeOK'
    BY <1>13, EndType, UnlockType DEF FindLocked, TypeOK, Goto, Label
  <1>14. ASSUME NEW r \in Request, CreateLocked(r) PROVE TypeOK'
    <2>1. want[r] \in Key
      BY <1>14 DEF CreateLocked, RequestOK, WantLabel
    <2>2. PICK s \in Slot : Insert(s, want[r], "approval") /\ Log(s, "prepared")
      BY <1>14 DEF CreateLocked
    <2>3. audit' \subseteq Slot \X AuditEvent
      BY <2>2 DEF Log, TypeOK, AuditEvent
    <2>4. /\ status' \in [Slot -> Status] /\ key' \in [Slot -> Key \cup {NoKey}]
          /\ door' \in [Slot -> {"none", "execution", "approval"}]
      BY <2>1, <2>2 DEF Insert, TypeOK, Status
    <2> QED BY <1>14, <2>3, <2>4, EndType, UnlockType DEF CreateLocked, TypeOK
  <1>15. ASSUME NEW s \in Slot, ApproveAtomically(s) PROVE TypeOK'
    BY <1>15 DEF ApproveAtomically, Swap, Log, TypeOK, Status, AuditEvent
  <1>16. ASSUME NEW s \in Slot, ClaimByOperator(s) PROVE TypeOK'
    BY <1>16 DEF ClaimByOperator, Swap, Log, TypeOK, Status, AuditEvent
  <1>17. ASSUME NEW s \in Slot, CompleteByOperator(s) PROVE TypeOK'
    BY <1>17 DEF CompleteByOperator, Swap, Log, TypeOK, Status, AuditEvent
  <1>18. ASSUME NEW s \in Slot, Cancel(s) PROVE TypeOK'
    BY <1>18 DEF Cancel, Swap, Log, TypeOK, Status, AuditEvent
  <1>19. ASSUME NEW r \in Request, Fail(r) PROVE TypeOK'
    BY <1>19, EndType, UnlockType DEF Fail, TypeOK
  <1>20. ASSUME NEW r \in Request, CatchFailure(r) PROVE TypeOK'
    BY <1>20 DEF CatchFailure, TypeOK, Goto, Label
  <1>21. CASE UNCHANGED vars
    BY <1>21 DEF vars, TypeOK
  <1> QED
    BY <1>1, <1>2, <1>3, <1>4, <1>5, <1>6, <1>7, <1>8, <1>9, <1>10, <1>11, <1>12, <1>13,
       <1>14, <1>15, <1>16, <1>17, <1>18, <1>19, <1>20, <1>21 DEF Next, Step

-----------------------------------------------------------------------------
(* The parts of the invariant, each preserved by every step *)

\* A request keeps a row that exists, and its key.
LEMMA RequestStep ==
    ASSUME TypeOK, RequestOK, [Next]_vars
    PROVE  RequestOK'
  <1> USE DEF rows
  <1>1. ASSUME NEW r \in Request, NEW k \in Key, Prepare(r, k) PROVE RequestOK'
    BY <1>1 DEF Prepare, Goto, TypeOK, RequestOK, RowLabel, WantLabel, Owning
  <1>2. ASSUME NEW r \in Request, NEW k \in Key, PrepareLocked(r, k) PROVE RequestOK'
    BY <1>2 DEF PrepareLocked, Goto, TypeOK, RequestOK, RowLabel, WantLabel, Owning
  <1>3. ASSUME NEW r \in Request, NEW s \in Slot, Approve(r, s) PROVE RequestOK'
    BY <1>3 DEF Approve, Swap, Goto, TypeOK, RequestOK, RowLabel, WantLabel, Owning
  <1>4. ASSUME NEW r \in Request, NEW s \in Slot, Execute(r, s) PROVE RequestOK'
    BY <1>4 DEF Execute, Goto, TypeOK, RequestOK, RowLabel, WantLabel, Owning
  <1>5. ASSUME NEW r \in Request, FindExisting(r) PROVE RequestOK'
    BY <1>5 DEF FindExisting, End, Goto, TypeOK, RequestOK, RowLabel, WantLabel, Owning
  <1>6. ASSUME NEW r \in Request, Create(r) PROVE RequestOK'
    BY <1>6 DEF Create, Insert, Goto, TypeOK, RequestOK, RowLabel, WantLabel, Owning
  <1>7. ASSUME NEW r \in Request, AuditAndEnd(r) PROVE RequestOK'
    BY <1>7 DEF AuditAndEnd, End, Log, TypeOK, RequestOK, RowLabel, WantLabel, Owning
  <1>8. ASSUME NEW r \in Request, Claim(r) PROVE RequestOK'
    BY <1>8 DEF Claim, End, Goto, TypeOK, RequestOK, RowLabel, WantLabel, Owning
  <1>9. ASSUME NEW r \in Request, AuditStarted(r) PROVE RequestOK'
    BY <1>9 DEF AuditStarted, Log, Goto, TypeOK, RequestOK, RowLabel, WantLabel, Owning
  <1>10. ASSUME NEW r \in Request, CallExecutor(r) PROVE RequestOK'
    BY <1>10 DEF CallExecutor, Goto, TypeOK, RequestOK, RowLabel, WantLabel, Owning
  <1>11. ASSUME NEW r \in Request, RecordDone(r) PROVE RequestOK'
    BY <1>11 DEF RecordDone, Goto, TypeOK, RequestOK, RowLabel, WantLabel, Owning
  <1>12. ASSUME NEW r \in Request, RecordFailed(r) PROVE RequestOK'
    BY <1>12 DEF RecordFailed, Goto, TypeOK, RequestOK, RowLabel, WantLabel, Owning
  <1>13. ASSUME NEW r \in Request, FindLocked(r) PROVE RequestOK'
    BY <1>13 DEF FindLocked, End, Unlock, Goto, TypeOK, RequestOK, RowLabel, WantLabel, Owning
  <1>14. ASSUME NEW r \in Request, CreateLocked(r) PROVE RequestOK'
    BY <1>14 DEF CreateLocked, Insert, Log, End, Unlock, TypeOK, RequestOK, RowLabel,
        WantLabel, Owning
  <1>15. ASSUME NEW s \in Slot, ApproveAtomically(s) PROVE RequestOK'
    BY <1>15 DEF ApproveAtomically, Swap, Log, TypeOK, RequestOK, RowLabel, WantLabel, Owning
  <1>16. ASSUME NEW s \in Slot, ClaimByOperator(s) PROVE RequestOK'
    BY <1>16 DEF ClaimByOperator, Swap, Log, TypeOK, RequestOK, RowLabel, WantLabel, Owning
  <1>17. ASSUME NEW s \in Slot, CompleteByOperator(s) PROVE RequestOK'
    BY <1>17 DEF CompleteByOperator, Swap, Log, TypeOK, RequestOK, RowLabel, WantLabel, Owning
  <1>18. ASSUME NEW s \in Slot, Cancel(s) PROVE RequestOK'
    BY <1>18 DEF Cancel, Swap, Log, TypeOK, RequestOK, RowLabel, WantLabel, Owning
  <1>19. ASSUME NEW r \in Request, Fail(r) PROVE RequestOK'
    BY <1>19 DEF Fail, End, Unlock, TypeOK, RequestOK, RowLabel, WantLabel, Owning
  <1>20. ASSUME NEW r \in Request, CatchFailure(r) PROVE RequestOK'
    BY <1>20 DEF CatchFailure, Goto, TypeOK, RequestOK, RowLabel, WantLabel, Owning
  <1>21. CASE UNCHANGED vars
    BY <1>21 DEF vars, TypeOK, RequestOK, RowLabel, WantLabel, Owning
  <1> QED
    BY <1>1, <1>2, <1>3, <1>4, <1>5, <1>6, <1>7, <1>8, <1>9, <1>10, <1>11, <1>12, <1>13,
       <1>14, <1>15, <1>16, <1>17, <1>18, <1>19, <1>20, <1>21 DEF Next, Step

\* A claimed row stays claimed while its request goes on.
LEMMA OwnedStep ==
    ASSUME TypeOK, RequestOK, OwnedOK, [Next]_vars
    PROVE  OwnedOK'
  <1> USE DEF rows
  <1>1. ASSUME NEW r \in Request, NEW k \in Key, Prepare(r, k) PROVE OwnedOK'
    BY <1>1 DEF Prepare, Goto, TypeOK, RequestOK, OwnedOK, RowLabel, Owning, Beyond
  <1>2. ASSUME NEW r \in Request, NEW k \in Key, PrepareLocked(r, k) PROVE OwnedOK'
    BY <1>2 DEF PrepareLocked, Goto, TypeOK, RequestOK, OwnedOK, RowLabel, Owning, Beyond
  <1>3. ASSUME NEW r \in Request, NEW s \in Slot, Approve(r, s) PROVE OwnedOK'
    BY <1>3 DEF Approve, Swap, Goto, TypeOK, RequestOK, OwnedOK, RowLabel, Owning, Beyond
  <1>4. ASSUME NEW r \in Request, NEW s \in Slot, Execute(r, s) PROVE OwnedOK'
    BY <1>4 DEF Execute, Goto, TypeOK, RequestOK, OwnedOK, RowLabel, Owning, Beyond
  <1>5. ASSUME NEW r \in Request, FindExisting(r) PROVE OwnedOK'
    BY <1>5 DEF FindExisting, End, Goto, TypeOK, RequestOK, OwnedOK, RowLabel, Owning, Beyond
  <1>6. ASSUME NEW r \in Request, Create(r) PROVE OwnedOK'
    BY <1>6 DEF Create, Insert, Goto, TypeOK, RequestOK, OwnedOK, RowLabel, Owning, Beyond
  <1>7. ASSUME NEW r \in Request, AuditAndEnd(r) PROVE OwnedOK'
    BY <1>7 DEF AuditAndEnd, End, Log, TypeOK, RequestOK, OwnedOK, RowLabel, Owning, Beyond
  <1>8. ASSUME NEW r \in Request, Claim(r) PROVE OwnedOK'
    BY <1>8 DEF Claim, End, Goto, TypeOK, RequestOK, OwnedOK, RowLabel, Owning, Beyond
  <1>9. ASSUME NEW r \in Request, AuditStarted(r) PROVE OwnedOK'
    BY <1>9 DEF AuditStarted, Log, Goto, TypeOK, RequestOK, OwnedOK, RowLabel, Owning, Beyond
  <1>10. ASSUME NEW r \in Request, CallExecutor(r) PROVE OwnedOK'
    BY <1>10 DEF CallExecutor, Goto, TypeOK, RequestOK, OwnedOK, RowLabel, Owning, Beyond
  <1>11. ASSUME NEW r \in Request, RecordDone(r) PROVE OwnedOK'
    BY <1>11 DEF RecordDone, Goto, TypeOK, RequestOK, OwnedOK, RowLabel, Owning, Beyond
  <1>12. ASSUME NEW r \in Request, RecordFailed(r) PROVE OwnedOK'
    BY <1>12 DEF RecordFailed, Goto, TypeOK, RequestOK, OwnedOK, RowLabel, Owning, Beyond
  <1>13. ASSUME NEW r \in Request, FindLocked(r) PROVE OwnedOK'
    BY <1>13 DEF FindLocked, End, Unlock, Goto, TypeOK, RequestOK, OwnedOK, RowLabel, Owning,
        Beyond
  <1>14. ASSUME NEW r \in Request, CreateLocked(r) PROVE OwnedOK'
    BY <1>14 DEF CreateLocked, Insert, Log, End, Unlock, TypeOK, RequestOK, OwnedOK,
        RowLabel, Owning, Beyond
  <1>15. ASSUME NEW s \in Slot, ApproveAtomically(s) PROVE OwnedOK'
    BY <1>15 DEF ApproveAtomically, Swap, Log, TypeOK, RequestOK, OwnedOK, RowLabel, Owning,
        Beyond
  <1>16. ASSUME NEW s \in Slot, ClaimByOperator(s) PROVE OwnedOK'
    BY <1>16 DEF ClaimByOperator, Swap, Log, TypeOK, RequestOK, OwnedOK, RowLabel, Owning,
        Beyond
  <1>17. ASSUME NEW s \in Slot, CompleteByOperator(s) PROVE OwnedOK'
    BY <1>17 DEF CompleteByOperator, Swap, Log, TypeOK, RequestOK, OwnedOK, RowLabel, Owning,
        Beyond
  <1>18. ASSUME NEW s \in Slot, Cancel(s) PROVE OwnedOK'
    BY <1>18 DEF Cancel, Swap, Log, TypeOK, RequestOK, OwnedOK, RowLabel, Owning, Beyond
  <1>19. ASSUME NEW r \in Request, Fail(r) PROVE OwnedOK'
    BY <1>19 DEF Fail, End, Unlock, TypeOK, RequestOK, OwnedOK, RowLabel, Owning, Beyond
  <1>20. ASSUME NEW r \in Request, CatchFailure(r) PROVE OwnedOK'
    BY <1>20 DEF CatchFailure, Goto, TypeOK, RequestOK, OwnedOK, RowLabel, Owning, Beyond
  <1>21. CASE UNCHANGED vars
    BY <1>21 DEF vars, TypeOK, RequestOK, OwnedOK, RowLabel, Owning, Beyond
  <1> QED
    BY <1>1, <1>2, <1>3, <1>4, <1>5, <1>6, <1>7, <1>8, <1>9, <1>10, <1>11, <1>12, <1>13,
       <1>14, <1>15, <1>16, <1>17, <1>18, <1>19, <1>20, <1>21 DEF Next, Step

\* A claim succeeds only for a row nobody owns.
LEMMA ClaimStep ==
    ASSUME TypeOK, RequestOK, OwnedOK, ClaimExclusive, [Next]_vars
    PROVE  ClaimExclusive'
  <1> USE DEF rows
  <1>1. ASSUME NEW r \in Request, NEW k \in Key, Prepare(r, k) PROVE ClaimExclusive'
    BY <1>1 DEF Prepare, Goto, TypeOK, RequestOK, RowLabel, OwnedOK, ClaimExclusive, Owning,
        Beyond
  <1>2. ASSUME NEW r \in Request, NEW k \in Key, PrepareLocked(r, k) PROVE ClaimExclusive'
    BY <1>2 DEF PrepareLocked, Goto, TypeOK, RequestOK, RowLabel, OwnedOK, ClaimExclusive,
        Owning, Beyond
  <1>3. ASSUME NEW r \in Request, NEW s \in Slot, Approve(r, s) PROVE ClaimExclusive'
    BY <1>3 DEF Approve, Swap, Goto, TypeOK, RequestOK, RowLabel, OwnedOK, ClaimExclusive,
        Owning, Beyond
  <1>4. ASSUME NEW r \in Request, NEW s \in Slot, Execute(r, s) PROVE ClaimExclusive'
    BY <1>4 DEF Execute, Goto, TypeOK, RequestOK, RowLabel, OwnedOK, ClaimExclusive, Owning,
        Beyond
  <1>5. ASSUME NEW r \in Request, FindExisting(r) PROVE ClaimExclusive'
    BY <1>5 DEF FindExisting, End, Goto, TypeOK, RequestOK, RowLabel, OwnedOK,
        ClaimExclusive, Owning, Beyond
  <1>6. ASSUME NEW r \in Request, Create(r) PROVE ClaimExclusive'
    BY <1>6 DEF Create, Insert, Goto, TypeOK, RequestOK, RowLabel, OwnedOK, ClaimExclusive,
        Owning, Beyond
  <1>7. ASSUME NEW r \in Request, AuditAndEnd(r) PROVE ClaimExclusive'
    BY <1>7 DEF AuditAndEnd, End, Log, TypeOK, RequestOK, RowLabel, OwnedOK, ClaimExclusive,
        Owning, Beyond
  <1>8. ASSUME NEW r \in Request, Claim(r) PROVE ClaimExclusive'
    BY <1>8 DEF Claim, End, Goto, TypeOK, RequestOK, RowLabel, OwnedOK, ClaimExclusive,
        Owning, Beyond
  <1>9. ASSUME NEW r \in Request, AuditStarted(r) PROVE ClaimExclusive'
    BY <1>9 DEF AuditStarted, Log, Goto, TypeOK, RequestOK, RowLabel, OwnedOK,
        ClaimExclusive, Owning, Beyond
  <1>10. ASSUME NEW r \in Request, CallExecutor(r) PROVE ClaimExclusive'
    BY <1>10 DEF CallExecutor, Goto, TypeOK, RequestOK, RowLabel, OwnedOK, ClaimExclusive,
        Owning, Beyond
  <1>11. ASSUME NEW r \in Request, RecordDone(r) PROVE ClaimExclusive'
    BY <1>11 DEF RecordDone, Goto, TypeOK, RequestOK, RowLabel, OwnedOK, ClaimExclusive,
        Owning, Beyond
  <1>12. ASSUME NEW r \in Request, RecordFailed(r) PROVE ClaimExclusive'
    BY <1>12 DEF RecordFailed, Goto, TypeOK, RequestOK, RowLabel, OwnedOK, ClaimExclusive,
        Owning, Beyond
  <1>13. ASSUME NEW r \in Request, FindLocked(r) PROVE ClaimExclusive'
    BY <1>13 DEF FindLocked, End, Unlock, Goto, TypeOK, RequestOK, RowLabel, OwnedOK,
        ClaimExclusive, Owning, Beyond
  <1>14. ASSUME NEW r \in Request, CreateLocked(r) PROVE ClaimExclusive'
    BY <1>14 DEF CreateLocked, Insert, Log, End, Unlock, TypeOK, RequestOK, RowLabel,
        OwnedOK, ClaimExclusive, Owning, Beyond
  <1>15. ASSUME NEW s \in Slot, ApproveAtomically(s) PROVE ClaimExclusive'
    BY <1>15 DEF ApproveAtomically, Swap, Log, TypeOK, RequestOK, RowLabel, OwnedOK,
        ClaimExclusive, Owning, Beyond
  <1>16. ASSUME NEW s \in Slot, ClaimByOperator(s) PROVE ClaimExclusive'
    BY <1>16 DEF ClaimByOperator, Swap, Log, TypeOK, RequestOK, RowLabel, OwnedOK,
        ClaimExclusive, Owning, Beyond
  <1>17. ASSUME NEW s \in Slot, CompleteByOperator(s) PROVE ClaimExclusive'
    BY <1>17 DEF CompleteByOperator, Swap, Log, TypeOK, RequestOK, RowLabel, OwnedOK,
        ClaimExclusive, Owning, Beyond
  <1>18. ASSUME NEW s \in Slot, Cancel(s) PROVE ClaimExclusive'
    BY <1>18 DEF Cancel, Swap, Log, TypeOK, RequestOK, RowLabel, OwnedOK, ClaimExclusive,
        Owning, Beyond
  <1>19. ASSUME NEW r \in Request, Fail(r) PROVE ClaimExclusive'
    BY <1>19 DEF Fail, End, Unlock, TypeOK, RequestOK, RowLabel, OwnedOK, ClaimExclusive,
        Owning, Beyond
  <1>20. ASSUME NEW r \in Request, CatchFailure(r) PROVE ClaimExclusive'
    BY <1>20 DEF CatchFailure, Goto, TypeOK, RequestOK, RowLabel, OwnedOK, ClaimExclusive,
        Owning, Beyond
  <1>21. CASE UNCHANGED vars
    BY <1>21 DEF vars, TypeOK, RequestOK, RowLabel, OwnedOK, ClaimExclusive, Owning, Beyond
  <1> QED
    BY <1>1, <1>2, <1>3, <1>4, <1>5, <1>6, <1>7, <1>8, <1>9, <1>10, <1>11, <1>12, <1>13,
       <1>14, <1>15, <1>16, <1>17, <1>18, <1>19, <1>20, <1>21 DEF Next, Step

\* The provider is asked at most once, after the claim and the record of the start.
LEMMA EffectStep ==
    ASSUME TypeOK, RequestOK, OwnedOK, ClaimExclusive, EffectOK, [Next]_vars
    PROVE  EffectOK'
  <1> USE DEF rows
  <1>1. ASSUME NEW r \in Request, NEW k \in Key, Prepare(r, k) PROVE EffectOK'
    BY <1>1 DEF Prepare, Goto, TypeOK, RequestOK, RowLabel, OwnedOK, Beyond,
       ClaimExclusive, Owning, EffectOK, OneEffectPerAction, EffectAfterApproval, NotYetOK
  <1>2. ASSUME NEW r \in Request, NEW k \in Key, PrepareLocked(r, k) PROVE EffectOK'
    BY <1>2 DEF PrepareLocked, Goto, TypeOK, RequestOK, RowLabel, OwnedOK, Beyond,
       ClaimExclusive, Owning, EffectOK, OneEffectPerAction, EffectAfterApproval, NotYetOK
  <1>3. ASSUME NEW r \in Request, NEW s \in Slot, Approve(r, s) PROVE EffectOK'
    BY <1>3 DEF Approve, Swap, Goto, TypeOK, RequestOK, RowLabel, OwnedOK, Beyond,
       ClaimExclusive, Owning, EffectOK, OneEffectPerAction, EffectAfterApproval, NotYetOK
  <1>4. ASSUME NEW r \in Request, NEW s \in Slot, Execute(r, s) PROVE EffectOK'
    BY <1>4 DEF Execute, Goto, TypeOK, RequestOK, RowLabel, OwnedOK, Beyond,
       ClaimExclusive, Owning, EffectOK, OneEffectPerAction, EffectAfterApproval, NotYetOK
  <1>5. ASSUME NEW r \in Request, FindExisting(r) PROVE EffectOK'
    BY <1>5 DEF FindExisting, End, Goto, TypeOK, RequestOK, RowLabel, OwnedOK, Beyond,
       ClaimExclusive, Owning, EffectOK, OneEffectPerAction, EffectAfterApproval, NotYetOK
  <1>6. ASSUME NEW r \in Request, Create(r) PROVE EffectOK'
    BY <1>6 DEF Create, Insert, Goto, TypeOK, RequestOK, RowLabel, OwnedOK, Beyond,
       ClaimExclusive, Owning, EffectOK, OneEffectPerAction, EffectAfterApproval, NotYetOK
  <1>7. ASSUME NEW r \in Request, AuditAndEnd(r) PROVE EffectOK'
    BY <1>7 DEF AuditAndEnd, End, Log, TypeOK, RequestOK, RowLabel, OwnedOK, Beyond,
       ClaimExclusive, Owning, EffectOK, OneEffectPerAction, EffectAfterApproval, NotYetOK
  <1>8. ASSUME NEW r \in Request, Claim(r) PROVE EffectOK'
    BY <1>8 DEF Claim, End, Goto, TypeOK, RequestOK, RowLabel, OwnedOK, Beyond,
       ClaimExclusive, Owning, EffectOK, OneEffectPerAction, EffectAfterApproval, NotYetOK
  <1>9. ASSUME NEW r \in Request, AuditStarted(r) PROVE EffectOK'
    BY <1>9 DEF AuditStarted, Log, Goto, TypeOK, RequestOK, RowLabel, OwnedOK, Beyond,
       ClaimExclusive, Owning, EffectOK, OneEffectPerAction, EffectAfterApproval, NotYetOK
  <1>10. ASSUME NEW r \in Request, CallExecutor(r) PROVE EffectOK'
    <2>1. /\ pc[r] = "call" /\ slot[r] \in Slot /\ sent[slot[r]] = 0
          /\ status[slot[r]] \in Beyond /\ <<slot[r], "started">> \in audit
      BY <1>10 DEF CallExecutor, RequestOK, RowLabel, Owning, OwnedOK, EffectOK, NotYetOK
    <2>2. PICK effect, returned \in BOOLEAN :
            /\ sent' = [sent EXCEPT ![slot[r]] =
                            IF effect /\ @ < Cap THEN @ + 1 ELSE @]
            /\ Goto(r, IF returned THEN "recordDone" ELSE "recordFailed")
      BY <1>10 DEF CallExecutor
    <2>3. UNCHANGED <<status, audit, slot>>
      BY <1>10 DEF CallExecutor
    <2>4. /\ sent'[slot[r]] \in {0, 1}
          /\ \A s \in Slot : s # slot[r] => sent'[s] = sent[s]
      BY <2>1, <2>2 DEF TypeOK
    <2>5. \A q \in Request : q # r => pc'[q] = pc[q]
      BY <2>2 DEF Goto, TypeOK
    <2>6. pc'[r] \in {"recordDone", "recordFailed"}
      BY <2>2 DEF Goto, TypeOK
    <2>7. OneEffectPerAction' /\ EffectAfterApproval'
      BY <2>1, <2>3, <2>4 DEF EffectOK, OneEffectPerAction, EffectAfterApproval, Beyond
    <2>8. NotYetOK'
      <3> SUFFICES ASSUME NEW q \in Request, pc'[q] \in {"auditStarted", "call"}
                   PROVE  /\ sent'[slot[q]] = 0
                          /\ pc'[q] = "call" => <<slot[q], "started">> \in audit
        BY <2>3 DEF NotYetOK
      <3>1. q # r /\ pc[q] = pc'[q]
        BY <2>5, <2>6
      <3>2. slot[q] \in Slot /\ slot[q] # slot[r]
        BY <2>1, <3>1 DEF RequestOK, RowLabel, Owning, ClaimExclusive
      <3> QED BY <2>4, <3>1, <3>2 DEF EffectOK, NotYetOK
    <2> QED BY <2>7, <2>8 DEF EffectOK
  <1>11. ASSUME NEW r \in Request, RecordDone(r) PROVE EffectOK'
    BY <1>11 DEF RecordDone, Goto, TypeOK, RequestOK, RowLabel, OwnedOK, Beyond,
       ClaimExclusive, Owning, EffectOK, OneEffectPerAction, EffectAfterApproval, NotYetOK
  <1>12. ASSUME NEW r \in Request, RecordFailed(r) PROVE EffectOK'
    BY <1>12 DEF RecordFailed, Goto, TypeOK, RequestOK, RowLabel, OwnedOK, Beyond,
       ClaimExclusive, Owning, EffectOK, OneEffectPerAction, EffectAfterApproval, NotYetOK
  <1>13. ASSUME NEW r \in Request, FindLocked(r) PROVE EffectOK'
    BY <1>13 DEF FindLocked, Exists, End, Unlock, Goto, TypeOK, RequestOK, RowLabel, OwnedOK,
        Beyond,
       ClaimExclusive, Owning, EffectOK, OneEffectPerAction, EffectAfterApproval, NotYetOK
  <1>14. ASSUME NEW r \in Request, CreateLocked(r) PROVE EffectOK'
    BY <1>14 DEF CreateLocked, Insert, Log, End, Unlock, TypeOK, RequestOK, RowLabel,
        OwnedOK, Beyond,
       ClaimExclusive, Owning, EffectOK, OneEffectPerAction, EffectAfterApproval, NotYetOK
  <1>15. ASSUME NEW s \in Slot, ApproveAtomically(s) PROVE EffectOK'
    BY <1>15 DEF ApproveAtomically, Swap, Log, TypeOK, RequestOK, RowLabel, OwnedOK, Beyond,
       ClaimExclusive, Owning, EffectOK, OneEffectPerAction, EffectAfterApproval, NotYetOK
  <1>16. ASSUME NEW s \in Slot, ClaimByOperator(s) PROVE EffectOK'
    BY <1>16 DEF ClaimByOperator, Swap, Log, TypeOK, RequestOK, RowLabel, OwnedOK, Beyond,
       ClaimExclusive, Owning, EffectOK, OneEffectPerAction, EffectAfterApproval, NotYetOK
  <1>17. ASSUME NEW s \in Slot, CompleteByOperator(s) PROVE EffectOK'
    BY <1>17 DEF CompleteByOperator, Swap, Log, TypeOK, RequestOK, RowLabel, OwnedOK, Beyond,
       ClaimExclusive, Owning, EffectOK, OneEffectPerAction, EffectAfterApproval, NotYetOK
  <1>18. ASSUME NEW s \in Slot, Cancel(s) PROVE EffectOK'
    BY <1>18 DEF Cancel, Swap, Log, TypeOK, RequestOK, RowLabel, OwnedOK, Beyond,
       ClaimExclusive, Owning, EffectOK, OneEffectPerAction, EffectAfterApproval, NotYetOK
  <1>19. ASSUME NEW r \in Request, Fail(r) PROVE EffectOK'
    BY <1>19 DEF Fail, End, Unlock, TypeOK, RequestOK, RowLabel, OwnedOK, Beyond,
       ClaimExclusive, Owning, EffectOK, OneEffectPerAction, EffectAfterApproval, NotYetOK
  <1>20. ASSUME NEW r \in Request, CatchFailure(r) PROVE EffectOK'
    BY <1>20 DEF CatchFailure, Goto, TypeOK, RequestOK, RowLabel, OwnedOK, Beyond,
       ClaimExclusive, Owning, EffectOK, OneEffectPerAction, EffectAfterApproval, NotYetOK
  <1>21. CASE UNCHANGED vars
    BY <1>21 DEF vars, TypeOK, RequestOK, RowLabel, OwnedOK, Beyond,
       ClaimExclusive, Owning, EffectOK, OneEffectPerAction, EffectAfterApproval, NotYetOK
  <1> QED
    BY <1>1, <1>2, <1>3, <1>4, <1>5, <1>6, <1>7, <1>8, <1>9, <1>10, <1>11, <1>12, <1>13,
       <1>14, <1>15, <1>16, <1>17, <1>18, <1>19, <1>20, <1>21 DEF Next, Step

\* The lock of a key keeps two prepares of the approval route apart.
LEMMA LockStep ==
    ASSUME TypeOK, RequestOK, LocksOK, [Next]_vars
    PROVE  LocksOK'
  <1> USE DEF rows
  <1>1. ASSUME NEW r \in Request, NEW k \in Key, Prepare(r, k) PROVE LocksOK'
    BY <1>1 DEF Prepare, Goto, TypeOK, RequestOK, WantLabel, LocksOK,
       DoorOK, LockOK, LockedPrepareOnce
  <1>2. ASSUME NEW r \in Request, NEW k \in Key, PrepareLocked(r, k) PROVE LocksOK'
    BY <1>2 DEF PrepareLocked, Goto, TypeOK, RequestOK, WantLabel, LocksOK,
       DoorOK, LockOK, LockedPrepareOnce
  <1>3. ASSUME NEW r \in Request, NEW s \in Slot, Approve(r, s) PROVE LocksOK'
    BY <1>3 DEF Approve, Swap, Goto, TypeOK, RequestOK, WantLabel, LocksOK,
       DoorOK, LockOK, LockedPrepareOnce
  <1>4. ASSUME NEW r \in Request, NEW s \in Slot, Execute(r, s) PROVE LocksOK'
    BY <1>4 DEF Execute, Goto, TypeOK, RequestOK, WantLabel, LocksOK,
       DoorOK, LockOK, LockedPrepareOnce
  <1>5. ASSUME NEW r \in Request, FindExisting(r) PROVE LocksOK'
    BY <1>5 DEF FindExisting, End, Goto, TypeOK, RequestOK, WantLabel, LocksOK,
       DoorOK, LockOK, LockedPrepareOnce
  <1>6. ASSUME NEW r \in Request, Create(r) PROVE LocksOK'
    BY <1>6 DEF Create, Insert, Goto, TypeOK, RequestOK, WantLabel, LocksOK,
       DoorOK, LockOK, LockedPrepareOnce
  <1>7. ASSUME NEW r \in Request, AuditAndEnd(r) PROVE LocksOK'
    BY <1>7 DEF AuditAndEnd, End, Log, TypeOK, RequestOK, WantLabel, LocksOK,
       DoorOK, LockOK, LockedPrepareOnce
  <1>8. ASSUME NEW r \in Request, Claim(r) PROVE LocksOK'
    BY <1>8 DEF Claim, End, Goto, TypeOK, RequestOK, WantLabel, LocksOK,
       DoorOK, LockOK, LockedPrepareOnce
  <1>9. ASSUME NEW r \in Request, AuditStarted(r) PROVE LocksOK'
    BY <1>9 DEF AuditStarted, Log, Goto, TypeOK, RequestOK, WantLabel, LocksOK,
       DoorOK, LockOK, LockedPrepareOnce
  <1>10. ASSUME NEW r \in Request, CallExecutor(r) PROVE LocksOK'
    BY <1>10 DEF CallExecutor, Goto, TypeOK, RequestOK, WantLabel, LocksOK,
       DoorOK, LockOK, LockedPrepareOnce
  <1>11. ASSUME NEW r \in Request, RecordDone(r) PROVE LocksOK'
    BY <1>11 DEF RecordDone, Goto, TypeOK, RequestOK, WantLabel, LocksOK,
       DoorOK, LockOK, LockedPrepareOnce
  <1>12. ASSUME NEW r \in Request, RecordFailed(r) PROVE LocksOK'
    BY <1>12 DEF RecordFailed, Goto, TypeOK, RequestOK, WantLabel, LocksOK,
       DoorOK, LockOK, LockedPrepareOnce
  <1>13. ASSUME NEW r \in Request, FindLocked(r) PROVE LocksOK'
    BY <1>13 DEF FindLocked, Exists, End, Unlock, Goto, TypeOK, RequestOK, WantLabel, LocksOK,
       DoorOK, LockOK, LockedPrepareOnce
  <1>14. ASSUME NEW r \in Request, CreateLocked(r) PROVE LocksOK'
    BY <1>14 DEF CreateLocked, Insert, Log, End, Unlock, TypeOK, RequestOK, WantLabel, LocksOK,
       DoorOK, LockOK, LockedPrepareOnce
  <1>15. ASSUME NEW s \in Slot, ApproveAtomically(s) PROVE LocksOK'
    BY <1>15 DEF ApproveAtomically, Swap, Log, TypeOK, RequestOK, WantLabel, LocksOK,
       DoorOK, LockOK, LockedPrepareOnce
  <1>16. ASSUME NEW s \in Slot, ClaimByOperator(s) PROVE LocksOK'
    BY <1>16 DEF ClaimByOperator, Swap, Log, TypeOK, RequestOK, WantLabel, LocksOK,
       DoorOK, LockOK, LockedPrepareOnce
  <1>17. ASSUME NEW s \in Slot, CompleteByOperator(s) PROVE LocksOK'
    BY <1>17 DEF CompleteByOperator, Swap, Log, TypeOK, RequestOK, WantLabel, LocksOK,
       DoorOK, LockOK, LockedPrepareOnce
  <1>18. ASSUME NEW s \in Slot, Cancel(s) PROVE LocksOK'
    BY <1>18 DEF Cancel, Swap, Log, TypeOK, RequestOK, WantLabel, LocksOK,
       DoorOK, LockOK, LockedPrepareOnce
  <1>19. ASSUME NEW r \in Request, Fail(r) PROVE LocksOK'
    BY <1>19 DEF Fail, End, Unlock, TypeOK, RequestOK, WantLabel, LocksOK,
       DoorOK, LockOK, LockedPrepareOnce
  <1>20. ASSUME NEW r \in Request, CatchFailure(r) PROVE LocksOK'
    BY <1>20 DEF CatchFailure, Goto, TypeOK, RequestOK, WantLabel, LocksOK,
       DoorOK, LockOK, LockedPrepareOnce
  <1>21. CASE UNCHANGED vars
    BY <1>21 DEF vars, TypeOK, RequestOK, WantLabel, LocksOK,
       DoorOK, LockOK, LockedPrepareOnce
  <1> QED
    BY <1>1, <1>2, <1>3, <1>4, <1>5, <1>6, <1>7, <1>8, <1>9, <1>10, <1>11, <1>12, <1>13,
       <1>14, <1>15, <1>16, <1>17, <1>18, <1>19, <1>20, <1>21 DEF Next, Step

-----------------------------------------------------------------------------
(* The safety theorems *)

\* An empty queue satisfies the invariant.
LEMMA InvInit == Init => IInv
  <1> SUFFICES ASSUME Init PROVE IInv
    OBVIOUS
  <1>1. TypeOK
    BY TypeInit
  <1>2. RequestOK /\ OwnedOK /\ ClaimExclusive
    BY DEF Init, RequestOK, RowLabel, WantLabel, Owning, OwnedOK, ClaimExclusive
  <1>3. EffectOK
    BY DEF Init, EffectOK, OneEffectPerAction, EffectAfterApproval, NotYetOK
  <1>4. LocksOK
    BY DEF Init, LocksOK, DoorOK, LockOK, LockedPrepareOnce
  <1> QED BY <1>1, <1>2, <1>3, <1>4 DEF IInv

\* Every step preserves it.
LEMMA InvStep == IInv /\ [Next]_vars => IInv'
  BY TypeStep, RequestStep, OwnedStep, ClaimStep, EffectStep, LockStep DEF IInv

\* So it holds in every state of the queue.
LEMMA Invariance == Spec => []IInv
  BY InvInit, InvStep, PTL DEF Spec

\* Every variable keeps its type.
THEOREM TypeCorrect == Spec => []TypeOK
  BY Invariance, PTL DEF IInv

\* However many requests race, retry or die, one of them at most executes an action
\* (the conditional claim of executeApprovedRevenueExecution).
THEOREM ClaimIsExclusive == Spec => []ClaimExclusive
  BY Invariance, PTL DEF IInv

\* A provider is asked at most once for an action, and never for one that was not approved
\* and claimed, with the start on record: nothing retries an action implicitly.
THEOREM EffectsAreApproved == Spec => [](OneEffectPerAction /\ EffectAfterApproval)
  <1>1. IInv => OneEffectPerAction /\ EffectAfterApproval
    BY DEF IInv, EffectOK
  <1> QED BY Invariance, <1>1, PTL

\* The second half on its own: whatever the executor did to the outside, its action had been
\* approved first.
THEOREM EffectsAfterApproval == Spec => []EffectAfterApproval
  <1>1. OneEffectPerAction /\ EffectAfterApproval => EffectAfterApproval
    OBVIOUS
  <1> QED BY EffectsAreApproved, <1>1, PTL

\* The advisory lock of prepareRevenueApproval keeps its rows unique by key.
THEOREM LockedPrepareIsOnce == Spec => []LockedPrepareOnce
  <1>1. IInv => LockedPrepareOnce
    BY DEF IInv, LocksOK
  <1> QED BY Invariance, <1>1, PTL

-----------------------------------------------------------------------------
(* What holds of a row whatever fails *)

\* A row once inserted keeps its action and its door, only an approved row is claimed, a
\* claimed one is never offered for approval or claim again, and a cancelled one stays
\* cancelled: the writes of execute by id alone (revenue-execution.ts:72 and 77) reach only
\* rows that were claimed, also after a lost reply, an error in the catch or a row the
\* operator has completed meanwhile.
NeverUnclaimed ==
    [][\A s \in Slot :
          /\ status[s] # "absent" =>
                key'[s] = key[s] /\ door'[s] = door[s] /\ status'[s] # "absent"
          /\ status[s] \in Beyond => status'[s] \in Beyond
          /\ status'[s] \in Beyond => status[s] \in Beyond \cup {"approved"}
          /\ status[s] = "cancelled" => status'[s] = "cancelled"]_vars

\* One step of the queue obeys that.
LEMMA NeverUnclaimedStep ==
    ASSUME TypeOK, RequestOK, OwnedOK, [Next]_vars, NEW s \in Slot
    PROVE  /\ status[s] # "absent" =>
                key'[s] = key[s] /\ door'[s] = door[s] /\ status'[s] # "absent"
           /\ status[s] \in Beyond => status'[s] \in Beyond
           /\ status'[s] \in Beyond => status[s] \in Beyond \cup {"approved"}
           /\ status[s] = "cancelled" => status'[s] = "cancelled"
  <1> USE DEF rows, Beyond
  <1>1. ASSUME UNCHANGED rows
        PROVE  status'[s] = status[s] /\ key'[s] = key[s] /\ door'[s] = door[s]
    BY <1>1
  <1>2. ASSUME NEW t \in Slot, NEW k, NEW by, Insert(t, k, by)
        PROVE  /\ t # s => status'[s] = status[s] /\ key'[s] = key[s] /\ door'[s] = door[s]
               /\ t = s => status[s] = "absent" /\ status'[s] = "pending"
    BY <1>2 DEF Insert, TypeOK
  <1>3. ASSUME NEW t \in Slot, NEW to \in Status, UNCHANGED <<key, door>>,
               status' = [status EXCEPT ![t] = to]
        PROVE  /\ key'[s] = key[s] /\ door'[s] = door[s]
               /\ t # s => status'[s] = status[s]
               /\ t = s => status'[s] = to
    BY <1>3 DEF TypeOK
  <1>4. ASSUME NEW r \in Request, Create(r) \/ CreateLocked(r)
        PROVE  \E t \in Slot, by \in {"execution", "approval"} : Insert(t, want[r], by)
    BY <1>4 DEF Create, CreateLocked
  <1>5. ASSUME NEW r \in Request, RecordDone(r) \/ RecordFailed(r)
        PROVE  /\ UNCHANGED <<key, door>> /\ slot[r] \in Slot /\ status[slot[r]] \in Beyond
               /\ \E to \in {"done", "failed"} : status' = [status EXCEPT ![slot[r]] = to]
    BY <1>5 DEF RecordDone, RecordFailed, RequestOK, OwnedOK, RowLabel, Owning
  <1>6. ASSUME NEW r \in Request, Claim(r)
        PROVE  \/ UNCHANGED rows
               \/ /\ UNCHANGED <<key, door>> /\ slot[r] \in Slot
                  /\ status[slot[r]] = "approved"
                  /\ status' = [status EXCEPT ![slot[r]] = "executing"]
    BY <1>6 DEF Claim, RequestOK, RowLabel
  <1>7. ASSUME NEW t \in Slot,
               \/ \E r \in Request : Approve(r, t)
               \/ ApproveAtomically(t)
               \/ ClaimByOperator(t)
               \/ CompleteByOperator(t)
               \/ Cancel(t)
        PROVE  /\ UNCHANGED <<key, door>>
               /\ \/ Swap(t, "pending", "approved")
                  \/ Swap(t, "approved", "executing")
                  \/ Swap(t, "executing", "done")
                  \/ Swap(t, "pending", "cancelled")
                  \/ Swap(t, "approved", "cancelled")
    BY <1>7 DEF Approve, ApproveAtomically, ClaimByOperator, CompleteByOperator, Cancel
  <1>8. \/ UNCHANGED rows
        \/ \E r \in Request : \/ Create(r) \/ CreateLocked(r)
                             \/ RecordDone(r) \/ RecordFailed(r) \/ Claim(r)
        \/ \E t \in Slot : \/ \E r \in Request : Approve(r, t)
                          \/ ApproveAtomically(t) \/ ClaimByOperator(t)
                          \/ CompleteByOperator(t) \/ Cancel(t)
    BY DEF Next, Step, vars, Prepare, PrepareLocked, Execute, FindExisting, AuditAndEnd,
           AuditStarted, CallExecutor, FindLocked, Fail, CatchFailure
  <1>9. CASE UNCHANGED rows
    BY <1>1, <1>9
  <1>10. ASSUME NEW r \in Request, Create(r) \/ CreateLocked(r)
         PROVE  /\ status[s] # "absent" => UNCHANGED <<status[s], key[s], door[s]>>
                /\ status[s] = "absent" => status'[s] \in {"absent", "pending"}
    BY <1>2, <1>4, <1>10
  <1>11. ASSUME NEW r \in Request, RecordDone(r) \/ RecordFailed(r)
         PROVE  /\ UNCHANGED <<key[s], door[s]>>
                /\ \/ status'[s] = status[s]
                   \/ status[s] \in Beyond /\ status'[s] \in Beyond
    BY <1>3, <1>5, <1>11 DEF Status
  <1>12. ASSUME NEW r \in Request, Claim(r)
         PROVE  /\ UNCHANGED <<key[s], door[s]>>
                /\ \/ status'[s] = status[s]
                   \/ status[s] = "approved" /\ status'[s] = "executing"
    BY <1>3, <1>6, <1>12 DEF Status
  <1>13. ASSUME NEW t \in Slot,
                \/ \E r \in Request : Approve(r, t)
                \/ ApproveAtomically(t) \/ ClaimByOperator(t)
                \/ CompleteByOperator(t) \/ Cancel(t)
         PROVE  /\ UNCHANGED <<key[s], door[s]>>
                /\ \/ status'[s] = status[s]
                   \/ status[s] = "pending" /\ status'[s] = "approved"
                   \/ status[s] = "approved" /\ status'[s] = "executing"
                   \/ status[s] = "executing" /\ status'[s] = "done"
                   \/ status[s] \in {"pending", "approved"} /\ status'[s] = "cancelled"
    BY <1>3, <1>7, <1>13 DEF Swap, Status
  <1> QED BY <1>1, <1>8, <1>10, <1>11, <1>12, <1>13

\* No failure, race or operator takes a row back before its claim, or out of cancelled.
THEOREM RowsNeverUnclaimed == Spec => NeverUnclaimed
  <1>1. IInv /\ [Next]_vars =>
            [\A s \in Slot :
                /\ status[s] # "absent" =>
                      key'[s] = key[s] /\ door'[s] = door[s] /\ status'[s] # "absent"
                /\ status[s] \in Beyond => status'[s] \in Beyond
                /\ status'[s] \in Beyond => status[s] \in Beyond \cup {"approved"}
                /\ status[s] = "cancelled" => status'[s] = "cancelled"]_vars
    BY NeverUnclaimedStep DEF IInv
  <1> QED BY Invariance, <1>1, PTL DEF Spec, NeverUnclaimed

-----------------------------------------------------------------------------
(* The lifecycle, outside the two windows of execute: requests may die at any call,
   database errors may land in its catch before the outcome is recorded, and the operator
   may claim and complete actions himself. *)

\* No error strikes between recording an action done and its audit entry, and nobody
\* completes by hand what a request is executing.  Either would move a settled action again:
\* done -> failed in the catch (revenue-execution.ts:77), or done -> done and done -> failed
\* by the request's own write.
OutcomesApart ==
    /\ \A r \in Request : pc[r] = "auditDone" => ~CatchFailure(r)
    /\ \A s \in Slot : (\E r \in Request : pc[r] \in Owning /\ slot[r] = s)
                            => ~CompleteByOperator(s)

\* Until it records the outcome, the request that executes an action finds it executing.
ExecutingOK ==
    \A r \in Request :
        pc[r] \in {"auditStarted", "call", "recordDone", "recordFailed"}
            => status[slot[r]] = "executing"

\* Nobody else moves a row that is being executed.
LEMMA ExecutingStep ==
    ASSUME TypeOK, RequestOK, ClaimExclusive, ExecutingOK, [Next]_vars, [OutcomesApart]_vars
    PROVE  ExecutingOK'
  <1> USE DEF rows
  <1>1. ASSUME NEW r \in Request, NEW k \in Key, Prepare(r, k) PROVE ExecutingOK'
    BY <1>1 DEF Prepare, Goto, TypeOK, RequestOK, RowLabel,
       ClaimExclusive, Owning, ExecutingOK
  <1>2. ASSUME NEW r \in Request, NEW k \in Key, PrepareLocked(r, k) PROVE ExecutingOK'
    BY <1>2 DEF PrepareLocked, Goto, TypeOK, RequestOK, RowLabel,
       ClaimExclusive, Owning, ExecutingOK
  <1>3. ASSUME NEW r \in Request, NEW s \in Slot, Approve(r, s) PROVE ExecutingOK'
    BY <1>3 DEF Approve, Swap, Goto, TypeOK, RequestOK, RowLabel,
       ClaimExclusive, Owning, ExecutingOK
  <1>4. ASSUME NEW r \in Request, NEW s \in Slot, Execute(r, s) PROVE ExecutingOK'
    BY <1>4 DEF Execute, Goto, TypeOK, RequestOK, RowLabel,
       ClaimExclusive, Owning, ExecutingOK
  <1>5. ASSUME NEW r \in Request, FindExisting(r) PROVE ExecutingOK'
    BY <1>5 DEF FindExisting, End, Goto, TypeOK, RequestOK, RowLabel,
       ClaimExclusive, Owning, ExecutingOK
  <1>6. ASSUME NEW r \in Request, Create(r) PROVE ExecutingOK'
    BY <1>6 DEF Create, Insert, Goto, TypeOK, RequestOK, RowLabel,
       ClaimExclusive, Owning, ExecutingOK
  <1>7. ASSUME NEW r \in Request, AuditAndEnd(r) PROVE ExecutingOK'
    BY <1>7 DEF AuditAndEnd, End, Log, TypeOK, RequestOK, RowLabel,
       ClaimExclusive, Owning, ExecutingOK
  <1>8. ASSUME NEW r \in Request, Claim(r) PROVE ExecutingOK'
    BY <1>8 DEF Claim, End, Goto, TypeOK, RequestOK, RowLabel,
       ClaimExclusive, Owning, ExecutingOK
  <1>9. ASSUME NEW r \in Request, AuditStarted(r) PROVE ExecutingOK'
    BY <1>9 DEF AuditStarted, Log, Goto, TypeOK, RequestOK, RowLabel,
       ClaimExclusive, Owning, ExecutingOK
  <1>10. ASSUME NEW r \in Request, CallExecutor(r) PROVE ExecutingOK'
    BY <1>10 DEF CallExecutor, Goto, TypeOK, RequestOK, RowLabel,
       ClaimExclusive, Owning, ExecutingOK
  <1>11. ASSUME NEW r \in Request, RecordDone(r) PROVE ExecutingOK'
    BY <1>11 DEF RecordDone, Goto, TypeOK, RequestOK, RowLabel,
       ClaimExclusive, Owning, ExecutingOK
  <1>12. ASSUME NEW r \in Request, RecordFailed(r) PROVE ExecutingOK'
    BY <1>12 DEF RecordFailed, Goto, TypeOK, RequestOK, RowLabel,
       ClaimExclusive, Owning, ExecutingOK
  <1>13. ASSUME NEW r \in Request, FindLocked(r) PROVE ExecutingOK'
    BY <1>13 DEF FindLocked, Exists, End, Unlock, Goto, TypeOK, RequestOK, RowLabel,
       ClaimExclusive, Owning, ExecutingOK
  <1>14. ASSUME NEW r \in Request, CreateLocked(r) PROVE ExecutingOK'
    BY <1>14 DEF CreateLocked, Insert, Log, End, Unlock, TypeOK, RequestOK, RowLabel,
       ClaimExclusive, Owning, ExecutingOK
  <1>15. ASSUME NEW s \in Slot, ApproveAtomically(s) PROVE ExecutingOK'
    BY <1>15 DEF ApproveAtomically, Swap, Log, TypeOK, RequestOK, RowLabel,
       ClaimExclusive, Owning, ExecutingOK
  <1>16. ASSUME NEW s \in Slot, ClaimByOperator(s) PROVE ExecutingOK'
    BY <1>16 DEF ClaimByOperator, Swap, Log, TypeOK, RequestOK, RowLabel,
       ClaimExclusive, Owning, ExecutingOK
  <1>17. ASSUME NEW s \in Slot, CompleteByOperator(s) PROVE ExecutingOK'
    BY <1>17 DEF OutcomesApart, vars, CompleteByOperator, Swap, Log, TypeOK, RequestOK, RowLabel,
       ClaimExclusive, Owning, ExecutingOK
  <1>18. ASSUME NEW s \in Slot, Cancel(s) PROVE ExecutingOK'
    BY <1>18 DEF Cancel, Swap, Log, TypeOK, RequestOK, RowLabel,
       ClaimExclusive, Owning, ExecutingOK
  <1>19. ASSUME NEW r \in Request, Fail(r) PROVE ExecutingOK'
    BY <1>19 DEF Fail, End, Unlock, TypeOK, RequestOK, RowLabel,
       ClaimExclusive, Owning, ExecutingOK
  <1>20. ASSUME NEW r \in Request, CatchFailure(r) PROVE ExecutingOK'
    BY <1>20 DEF OutcomesApart, vars, CatchFailure, Goto, TypeOK, RequestOK, RowLabel,
       ClaimExclusive, Owning, ExecutingOK
  <1>21. CASE UNCHANGED vars
    BY <1>21 DEF vars, TypeOK, RequestOK, RowLabel,
       ClaimExclusive, Owning, ExecutingOK
  <1> QED
    BY <1>1, <1>2, <1>3, <1>4, <1>5, <1>6, <1>7, <1>8, <1>9, <1>10, <1>11, <1>12, <1>13,
       <1>14, <1>15, <1>16, <1>17, <1>18, <1>19, <1>20, <1>21 DEF Next, Step

\* A conditional update along an arrow of TRANSITIONS is a step of the lifecycle.
LEMMA MoveIsLifecycle ==
    ASSUME NEW s \in Slot, NEW next,
           \/ status[s] = "pending" /\ next \in {"approved", "cancelled"}
           \/ status[s] = "approved" /\ next \in {"executing", "cancelled"}
           \/ status[s] = "executing" /\ next \in {"done", "failed"},
           status' = [status EXCEPT ![s] = next]
    PROVE  Lifecycle!Next
  <1> DEFINE T == Lifecycle!Transitions
  <1>1. /\ T.pending = {"approved", "cancelled"} /\ T.approved = {"executing", "cancelled"}
        /\ T.executing = {"done", "failed"}
        /\ {"pending", "approved", "executing"} \subseteq DOMAIN T
    BY DEF Lifecycle!Transitions
  <1>2. status[s] \in DOMAIN T /\ next \in T[status[s]] /\ status[s] # "absent"
    BY <1>1
  <1>3. next \in UNION {T[x] : x \in DOMAIN T}
    BY <1>2
  <1>4. Lifecycle!Move(s, next)
    BY <1>2 DEF Lifecycle!Move
  <1> QED BY <1>3, <1>4 DEF Lifecycle!Next

\* An insert is the first step of a row's life.
LEMMA InsertIsLifecycle ==
    ASSUME NEW s \in Slot, NEW k, NEW by, Insert(s, k, by)
    PROVE  Lifecycle!Next
  BY DEF Insert, Lifecycle!Next, Lifecycle!Prepare

\* Every step moves at most one row, along an arrow of TRANSITIONS.
LEMMA LifecycleStep ==
    ASSUME TypeOK, RequestOK, ExecutingOK, [Next]_vars, [OutcomesApart]_vars
    PROVE  [Lifecycle!Next]_status
  <1> USE DEF rows
  <1>1. ASSUME NEW r \in Request, NEW k \in Key, Prepare(r, k) \/ PrepareLocked(r, k)
        PROVE UNCHANGED status
    BY <1>1 DEF Prepare, PrepareLocked
  <1>2. ASSUME NEW r \in Request, NEW s \in Slot, Approve(r, s) PROVE Lifecycle!Next
    <2>1. status[s] = "pending" /\ status' = [status EXCEPT ![s] = "approved"]
      BY <1>2 DEF Approve, Swap
    <2> QED BY <2>1, MoveIsLifecycle
  <1>3. ASSUME NEW r \in Request, NEW s \in Slot, Execute(r, s) PROVE UNCHANGED status
    BY <1>3 DEF Execute
  <1>4. ASSUME NEW r \in Request, FindExisting(r) \/ AuditAndEnd(r) \/ AuditStarted(r)
                                  \/ CallExecutor(r) \/ FindLocked(r)
        PROVE UNCHANGED status
    BY <1>4 DEF FindExisting, AuditAndEnd, AuditStarted, CallExecutor, FindLocked
  <1>5. ASSUME NEW r \in Request, Create(r) \/ CreateLocked(r) PROVE Lifecycle!Next
    BY <1>5, InsertIsLifecycle DEF Create, CreateLocked
  <1>6. ASSUME NEW r \in Request, Claim(r) PROVE [Lifecycle!Next]_status
    <2>1. slot[r] \in Slot
      BY <1>6 DEF Claim, RequestOK, RowLabel
    <2>2. CASE status[slot[r]] = "approved"
      <3>1. status' = [status EXCEPT ![slot[r]] = "executing"]
        BY <1>6, <2>2 DEF Claim
      <3> QED BY <2>1, <2>2, <3>1, MoveIsLifecycle
    <2>3. CASE status[slot[r]] # "approved"
      BY <1>6, <2>3 DEF Claim
    <2> QED BY <2>2, <2>3
  <1>7. ASSUME NEW r \in Request, RecordDone(r) \/ RecordFailed(r) PROVE Lifecycle!Next
    <2>1. slot[r] \in Slot /\ status[slot[r]] = "executing"
      BY <1>7 DEF RecordDone, RecordFailed, RequestOK, RowLabel, Owning, ExecutingOK
    <2>2. PICK next \in {"done", "failed"} : status' = [status EXCEPT ![slot[r]] = next]
      BY <1>7 DEF RecordDone, RecordFailed
    <2> QED BY <2>1, <2>2, MoveIsLifecycle
  <1>8. ASSUME NEW s \in Slot, ApproveAtomically(s) PROVE Lifecycle!Next
    <2>1. status[s] = "pending" /\ status' = [status EXCEPT ![s] = "approved"]
      BY <1>8 DEF ApproveAtomically, Swap
    <2> QED BY <2>1, MoveIsLifecycle
  <1>9. ASSUME NEW s \in Slot, ClaimByOperator(s) \/ CompleteByOperator(s)
        PROVE Lifecycle!Next
    <2>1. CASE ClaimByOperator(s)
      <3>1. status[s] = "approved" /\ status' = [status EXCEPT ![s] = "executing"]
        BY <2>1 DEF ClaimByOperator, Swap
      <3> QED BY <3>1, MoveIsLifecycle
    <2>2. CASE CompleteByOperator(s)
      <3>1. status[s] = "executing" /\ status' = [status EXCEPT ![s] = "done"]
        BY <2>2 DEF CompleteByOperator, Swap
      <3> QED BY <3>1, MoveIsLifecycle
    <2> QED BY <1>9, <2>1, <2>2
  <1>10. ASSUME NEW s \in Slot, Cancel(s) PROVE Lifecycle!Next
    <2>1. /\ status[s] = "pending" \/ status[s] = "approved"
          /\ status' = [status EXCEPT ![s] = "cancelled"]
      BY <1>10 DEF Cancel, Swap
    <2> QED BY <2>1, MoveIsLifecycle
  <1>11. ASSUME NEW r \in Request, Fail(r) \/ CatchFailure(r) PROVE UNCHANGED status
    BY <1>11 DEF Fail, CatchFailure
  <1>12. CASE UNCHANGED vars
    BY <1>12 DEF vars
  <1> QED
    BY <1>1, <1>2, <1>3, <1>4, <1>5, <1>6, <1>7, <1>8, <1>9, <1>10, <1>11, <1>12
       DEF Next, Step

\* Outside those windows the queue implements the lifecycle of revenue-execution-guard.ts.
THEOREM LifecycleRefinement == Spec /\ [][OutcomesApart]_vars => ImplementsLifecycle
  <1>1. Init => Lifecycle!Init /\ ExecutingOK
    BY DEF Init, Lifecycle!Init, ExecutingOK
  <1>2. IInv /\ ExecutingOK /\ [Next]_vars /\ [OutcomesApart]_vars => ExecutingOK'
    BY ExecutingStep DEF IInv
  <1>3. IInv /\ ExecutingOK /\ [Next]_vars /\ [OutcomesApart]_vars => [Lifecycle!Next]_status
    BY LifecycleStep DEF IInv
  <1> QED
    BY Invariance, <1>1, <1>2, <1>3, PTL DEF Spec, ImplementsLifecycle, Lifecycle!Spec

\* Without failures and without an operator who settles actions himself, neither window
\* opens, so the lifecycle holds outright.
THEOREM QuietLifecycle ==
    ASSUME MaxFailures = 0, ~OperatorExecutes
    PROVE  Spec => ImplementsLifecycle
  <1>1. IInv /\ [Next]_vars => [OutcomesApart]_vars
    BY DEF IInv, TypeOK, OutcomesApart, CatchFailure, CompleteByOperator
  <1> QED BY Invariance, LifecycleRefinement, <1>1, PTL DEF Spec

-----------------------------------------------------------------------------
(* The audit log *)

\* No request dies between approving an action and its audit entry, which
\* approveRevenueExecution makes two calls (revenue-execution.ts:36 and 47).
ApprovalsLogged == \A r \in Request : pc[r] = "auditApproved" => ~Fail(r)

\* An approval is followed by its audit entry.
LEMMA AuditedStep ==
    ASSUME TypeOK, RequestOK, OwnedOK, ApprovalAudited, [Next]_vars, [ApprovalsLogged]_vars
    PROVE  ApprovalAudited'
  <1> USE DEF rows
  <1>1. ASSUME NEW r \in Request, NEW k \in Key, Prepare(r, k) PROVE ApprovalAudited'
    BY <1>1 DEF Prepare, Goto, TypeOK, RequestOK, RowLabel,
       Owning, OwnedOK, Beyond, ApprovalAudited
  <1>2. ASSUME NEW r \in Request, NEW k \in Key, PrepareLocked(r, k) PROVE ApprovalAudited'
    BY <1>2 DEF PrepareLocked, Goto, TypeOK, RequestOK, RowLabel,
       Owning, OwnedOK, Beyond, ApprovalAudited
  <1>3. ASSUME NEW r \in Request, NEW s \in Slot, Approve(r, s) PROVE ApprovalAudited'
    BY <1>3 DEF Approve, Swap, Goto, TypeOK, RequestOK, RowLabel,
       Owning, OwnedOK, Beyond, ApprovalAudited
  <1>4. ASSUME NEW r \in Request, NEW s \in Slot, Execute(r, s) PROVE ApprovalAudited'
    BY <1>4 DEF Execute, Goto, TypeOK, RequestOK, RowLabel,
       Owning, OwnedOK, Beyond, ApprovalAudited
  <1>5. ASSUME NEW r \in Request, FindExisting(r) PROVE ApprovalAudited'
    BY <1>5 DEF FindExisting, End, Goto, TypeOK, RequestOK, RowLabel,
       Owning, OwnedOK, Beyond, ApprovalAudited
  <1>6. ASSUME NEW r \in Request, Create(r) PROVE ApprovalAudited'
    BY <1>6 DEF Create, Insert, Goto, TypeOK, RequestOK, RowLabel,
       Owning, OwnedOK, Beyond, ApprovalAudited
  <1>7. ASSUME NEW r \in Request, AuditAndEnd(r) PROVE ApprovalAudited'
    BY <1>7 DEF AuditAndEnd, End, Log, TypeOK, RequestOK, RowLabel,
       Owning, OwnedOK, Beyond, ApprovalAudited
  <1>8. ASSUME NEW r \in Request, Claim(r) PROVE ApprovalAudited'
    BY <1>8 DEF Claim, End, Goto, TypeOK, RequestOK, RowLabel,
       Owning, OwnedOK, Beyond, ApprovalAudited
  <1>9. ASSUME NEW r \in Request, AuditStarted(r) PROVE ApprovalAudited'
    BY <1>9 DEF AuditStarted, Log, Goto, TypeOK, RequestOK, RowLabel,
       Owning, OwnedOK, Beyond, ApprovalAudited
  <1>10. ASSUME NEW r \in Request, CallExecutor(r) PROVE ApprovalAudited'
    BY <1>10 DEF CallExecutor, Goto, TypeOK, RequestOK, RowLabel,
       Owning, OwnedOK, Beyond, ApprovalAudited
  <1>11. ASSUME NEW r \in Request, RecordDone(r) PROVE ApprovalAudited'
    BY <1>11 DEF RecordDone, Goto, TypeOK, RequestOK, RowLabel,
       Owning, OwnedOK, Beyond, ApprovalAudited
  <1>12. ASSUME NEW r \in Request, RecordFailed(r) PROVE ApprovalAudited'
    BY <1>12 DEF RecordFailed, Goto, TypeOK, RequestOK, RowLabel,
       Owning, OwnedOK, Beyond, ApprovalAudited
  <1>13. ASSUME NEW r \in Request, FindLocked(r) PROVE ApprovalAudited'
    BY <1>13 DEF FindLocked, Exists, End, Unlock, Goto, TypeOK, RequestOK, RowLabel,
       Owning, OwnedOK, Beyond, ApprovalAudited
  <1>14. ASSUME NEW r \in Request, CreateLocked(r) PROVE ApprovalAudited'
    BY <1>14 DEF CreateLocked, Insert, Log, End, Unlock, TypeOK, RequestOK, RowLabel,
       Owning, OwnedOK, Beyond, ApprovalAudited
  <1>15. ASSUME NEW s \in Slot, ApproveAtomically(s) PROVE ApprovalAudited'
    BY <1>15 DEF ApproveAtomically, Swap, Log, TypeOK, RequestOK, RowLabel,
       Owning, OwnedOK, Beyond, ApprovalAudited
  <1>16. ASSUME NEW s \in Slot, ClaimByOperator(s) PROVE ApprovalAudited'
    BY <1>16 DEF ClaimByOperator, Swap, Log, TypeOK, RequestOK, RowLabel,
       Owning, OwnedOK, Beyond, ApprovalAudited
  <1>17. ASSUME NEW s \in Slot, CompleteByOperator(s) PROVE ApprovalAudited'
    BY <1>17 DEF CompleteByOperator, Swap, Log, TypeOK, RequestOK, RowLabel,
       Owning, OwnedOK, Beyond, ApprovalAudited
  <1>18. ASSUME NEW s \in Slot, Cancel(s) PROVE ApprovalAudited'
    BY <1>18 DEF Cancel, Swap, Log, TypeOK, RequestOK, RowLabel,
       Owning, OwnedOK, Beyond, ApprovalAudited
  <1>19. ASSUME NEW r \in Request, Fail(r) PROVE ApprovalAudited'
    <2>1. pc[r] # "auditApproved" /\ UNCHANGED <<status, audit>>
      BY <1>19 DEF ApprovalsLogged, vars, Fail, End, TypeOK
    <2>2. \A q \in Request : q # r => pc'[q] = pc[q] /\ slot'[q] = slot[q]
      BY <1>19 DEF Fail, End, TypeOK
    <2> QED BY <2>1, <2>2 DEF ApprovalAudited
  <1>20. ASSUME NEW r \in Request, CatchFailure(r) PROVE ApprovalAudited'
    BY <1>20 DEF CatchFailure, Goto, TypeOK, RequestOK, RowLabel,
       Owning, OwnedOK, Beyond, ApprovalAudited
  <1>21. CASE UNCHANGED vars
    BY <1>21 DEF vars, TypeOK, RequestOK, RowLabel,
       Owning, OwnedOK, Beyond, ApprovalAudited
  <1> QED
    BY <1>1, <1>2, <1>3, <1>4, <1>5, <1>6, <1>7, <1>8, <1>9, <1>10, <1>11, <1>12, <1>13,
       <1>14, <1>15, <1>16, <1>17, <1>18, <1>19, <1>20, <1>21 DEF Next, Step

\* Unless a request dies in that window, every action beyond approval has its approval in
\* the audit log, or the request that approved it is about to write it; whatever else fails.
THEOREM ApprovalIsAudited == Spec /\ [][ApprovalsLogged]_vars => []ApprovalAudited
  <1>1. Init => ApprovalAudited
    BY DEF Init, ApprovalAudited
  <1>2. IInv /\ ApprovalAudited /\ [Next]_vars /\ [ApprovalsLogged]_vars => ApprovalAudited'
    BY AuditedStep DEF IInv
  <1> QED BY Invariance, <1>1, <1>2, PTL DEF Spec

\* So it is when no call fails.
THEOREM QuietApprovalIsAudited ==
    ASSUME MaxFailures = 0
    PROVE  Spec => []ApprovalAudited
  <1>1. IInv /\ [Next]_vars => [ApprovalsLogged]_vars
    BY DEF IInv, TypeOK, ApprovalsLogged, Fail
  <1> QED BY Invariance, ApprovalIsAudited, <1>1, PTL DEF Spec
=============================================================================
