------------------------- MODULE StripeWebhookProofs -------------------------
(***************************************************************************)
(* Proofs about the Stripe webhook, for any set of events, any number of   *)
(* concurrent requests and any number of failures.                         *)
(***************************************************************************)
EXTENDS StripeWebhook, FiniteSetTheorems, TLAPS

USE EventAssumption, BoundAssumption, InOrderAssumption, NoneAssumption

-----------------------------------------------------------------------------
(* What a request is working on while it is at each of its calls. *)

SaleLabel == {"customer", "find", "write", "verify", "outcome", "ledger", "token",
              "mail", "completed", "pending"}
RefundLabel == {"findRefunded", "verifyRefund", "refundOutcome", "markRefunded", "refundLedger"}
\* Calls made only once the transaction is known to exist
RecordedLabel == {"verify", "outcome", "ledger", "token", "mail", "completed", "pending",
                  "verifyRefund", "refundOutcome", "markRefunded", "refundLedger"}
\* Calls made only after the income entry
BookedLabel == {"token", "mail", "completed", "pending"}

JobOK ==
    \A h \in Handler :
        /\ pc[h] \in SaleLabel => /\ job[h] \in Event /\ job[h].kind \in SaleKind
                                   /\ job[h].owner # NoOwner
        /\ pc[h] \in RefundLabel => job[h] \in Event /\ job[h].kind = "refund"

RecordedOK ==
    \A h \in Handler :
        /\ pc[h] \in RecordedLabel => Present(job[h].pi)
        /\ (pc[h] = "write" /\ copy[h] # Absent) => Present(job[h].pi)

BookedOK == \A h \in Handler : pc[h] \in BookedLabel => Booked(job[h])

\* A payment that is not recorded has no other data either.
TableOK == \A p \in PI : ~Present(p) => tx[p] = Absent

LedgerBacked == \A r \in ledger : Present(r.pi)

IInv == /\ TypeOK /\ JobOK /\ TableOK /\ RecordedOK
        /\ BookedOK /\ LedgerBacked /\ AnsweredSaleIsBooked

-----------------------------------------------------------------------------
(* An event is a record of its type. *)
LEMMA EventFields ==
    ASSUME NEW e \in Event
    PROVE  /\ e.kind \in Kind /\ e.pi \in PI /\ e.owner \in Owner \cup {NoOwner}
           /\ e.venture \in Venture \cup {NoVenture} /\ e.email \in Email \cup {NoEmail}
           /\ e.product \in BOOLEAN /\ e.paid \in BOOLEAN /\ e.amount \in Nat \ {0}
  BY DEF Event_, EventAssumption

\* The row of an unknown payment is a row of the table's type.
LEMMA AbsentRow == Absent \in TxRow
  BY DEF Absent, TxRow

\* Ending a request leaves the three variables of the handlers well typed.
LEMMA ReleaseType ==
    ASSUME TypeOK, NEW h \in Handler, Release(h)
    PROVE  /\ pc' \in [Handler -> Label]
           /\ job' \in [Handler -> Event \cup {NoEvent}]
           /\ copy' \in [Handler -> TxRow]
  BY AbsentRow DEF TypeOK, Release, Label

\* The rows a sale writes are rows of the table.
LEMMA RowType ==
    ASSUME TypeOK, NEW e \in Event, NEW seen \in TxRow
    PROVE  NewRow(e) \in TxRow /\ UpdatedRow(e, seen) \in TxRow
  <1>1. NewRow(e) \in TxRow
    BY EventFields DEF NewRow, TxRow
  <1>2. tx[e.pi] \in TxRow
    BY EventFields DEF TypeOK
  <1>3. UpdatedRow(e, seen) \in TxRow
    <2> DEFINE customer == IF seen.customer # NoEmail \/ e.email = NoEmail
                           THEN tx[e.pi].customer ELSE e.email
               venture == IF seen.venture # NoVenture \/ e.venture = NoVenture
                          THEN tx[e.pi].venture ELSE e.venture
    <2>1. customer \in Email \cup {NoEmail} /\ venture \in Venture \cup {NoVenture}
      BY <1>2, EventFields DEF TxRow
    <2>2. /\ NextState(seen.status) \in {"absent", "succeeded", "refunded"}
          /\ seen.fulfilment \in {"none", "pending_retry", "completed"}
      BY DEF TxRow, NextState
    <2>3. UpdatedRow(e, seen) = [tx[e.pi] EXCEPT !.status = NextState(seen.status),
                !.fulfilment = seen.fulfilment, !.customer = customer, !.venture = venture]
      BY DEF UpdatedRow
    <2> HIDE DEF customer, venture
    <2> QED BY <1>2, <2>1, <2>2, <2>3 DEF TxRow
  <1> QED BY <1>1, <1>3

\* So are the rows of the updates that set one field.
LEMMA FieldType ==
    ASSUME NEW row \in TxRow
    PROVE  /\ [row EXCEPT !.status = "refunded"] \in TxRow
           /\ \A mark \in {"completed", "pending_retry"} : [row EXCEPT !.fulfilment = mark] \in TxRow
  BY DEF TxRow

\* Deriving an entry for an event keeps the ledger a set of derivable rows.
LEMMA EntryType ==
    ASSUME TypeOK, NEW e \in Event
    PROVE  WithEntry(e) \subseteq LedgerRow
  BY DEF TypeOK, WithEntry, LedgerRow

-----------------------------------------------------------------------------
(* Type correctness *)

\* The webhook starts well typed.
LEMMA TypeInit == Init => TypeOK
  BY AbsentRow DEF Init, TypeOK, Label

\* Every step preserves the types, given what each request works on.
LEMMA TypeStep == TypeOK /\ JobOK /\ [Next]_vars => TypeOK'
  <1> SUFFICES ASSUME TypeOK, JobOK, [Next]_vars PROVE TypeOK'
    OBVIOUS
  <1> USE DEF data
  <1>1. ASSUME NEW h \in Handler, NEW e \in Event, Receive(h, e) PROVE TypeOK'
    BY <1>1, EventFields DEF Receive, TypeOK, Goto, Label
  <1>2. ASSUME NEW h \in Handler, ResolveCustomer(h) PROVE TypeOK'
    <2>1. job[h] \in Event /\ job[h].owner \in Owner
      BY <1>2, EventFields DEF JobOK, ResolveCustomer, SaleLabel
    <2>2. customers' \subseteq Owner \X Email
      <3>1. CASE job[h].email = NoEmail
        BY <3>1, <1>2 DEF ResolveCustomer, TypeOK
      <3>2. CASE job[h].email # NoEmail
        BY <3>2, <1>2, <2>1, EventFields DEF ResolveCustomer, TypeOK
      <3> QED BY <3>1, <3>2
    <2> QED BY <1>2, <2>2 DEF ResolveCustomer, TypeOK, Goto, Label
  <1>3. ASSUME NEW h \in Handler, FindTransaction(h) PROVE TypeOK'
    <2>1. job[h] \in Event
      BY <1>3 DEF JobOK, FindTransaction, SaleLabel
    <2> QED BY <1>3, <2>1, ReleaseType, EventFields DEF FindTransaction, TypeOK, Goto, Throw,
                Label
  <1>4. ASSUME NEW h \in Handler, WriteTransaction(h) PROVE TypeOK'
    <2> DEFINE row == IF copy[h] = Absent THEN NewRow(job[h]) ELSE UpdatedRow(job[h], copy[h])
    <2>1. job[h] \in Event
      BY <1>4 DEF JobOK, WriteTransaction, SaleLabel
    <2>2. row \in TxRow
      BY <2>1, RowType DEF TypeOK
    <2>3. UNCHANGED <<ledger, outcomes, customers, tokens, mails, failures, repairs>>
      BY <1>4 DEF WriteTransaction
    <2>4. CASE copy[h] = Absent /\ Present(job[h].pi)
      <3>1. Throw(h) /\ UNCHANGED tx
        BY <1>4, <2>4 DEF WriteTransaction
      <3>2. UNCHANGED answered
        BY <3>1 DEF Throw
      <3>3. Release(h)
        BY <3>1 DEF Throw
      <3> QED BY <2>3, <3>1, <3>2, <3>3, ReleaseType DEF TypeOK
    <2>5. CASE ~(copy[h] = Absent /\ Present(job[h].pi))
      <3> DEFINE next == IF job[h].venture # NoVenture /\ row.status = "succeeded"
                         THEN "verify" ELSE "ledger"
      <3>1. /\ tx' = [tx EXCEPT ![job[h].pi] = row]
            /\ copy' = [copy EXCEPT ![h] = row]
            /\ pc' = [pc EXCEPT ![h] = next]
            /\ UNCHANGED <<job, answered>>
        BY <1>4, <2>5 DEF WriteTransaction, Goto
      <3>2. next \in Label
        BY DEF Label
      <3> HIDE DEF row, next
      <3> QED BY <2>2, <2>3, <3>1, <3>2 DEF TypeOK
    <2> QED BY <2>4, <2>5
  <1>5. ASSUME NEW h \in Handler, VerifyTransaction(h) PROVE TypeOK'
    BY <1>5, ReleaseType DEF VerifyTransaction, TypeOK, Goto, Throw, Label
  <1>6. ASSUME NEW h \in Handler, RecordOutcome(h) PROVE TypeOK'
    <2>1. job[h] \in Event
      BY <1>6 DEF JobOK, RecordOutcome, SaleLabel
    <2>2. outcomes' \subseteq Outcome
      BY <1>6, <2>1, EventFields DEF RecordOutcome, TypeOK, Outcome
    <2> QED BY <1>6, <2>2 DEF RecordOutcome, TypeOK, Goto, Label
  <1>7. ASSUME NEW h \in Handler, EnsureSaleEntry(h) PROVE TypeOK'
    <2>1. job[h] \in Event
      BY <1>7 DEF JobOK, EnsureSaleEntry, SaleLabel
    <2>2. ledger' \subseteq LedgerRow
      BY <1>7, <2>1, EntryType DEF EnsureSaleEntry
    <2>3. CASE Answer(h, "processed")
      BY <1>7, <2>1, <2>2, <2>3, ReleaseType DEF EnsureSaleEntry, TypeOK, Answer
    <2>4. CASE Goto(h, "token") /\ UNCHANGED <<job, copy, answered>>
      BY <1>7, <2>2, <2>4 DEF EnsureSaleEntry, TypeOK, Goto, Label
    <2> QED BY <1>7, <2>3, <2>4 DEF EnsureSaleEntry
  <1>8. ASSUME NEW h \in Handler, IssueToken(h) PROVE TypeOK'
    BY <1>8 DEF IssueToken, TypeOK, Goto, Label, Bump
  <1>9. ASSUME NEW h \in Handler, SendFulfillmentEmail(h) PROVE TypeOK'
    <2>1. mails' \in [PI -> 0 .. Cap]
      <3>1. \/ mails' = [mails EXCEPT ![job[h].pi] = Bump(mails[job[h].pi])]
            \/ mails' = [mails EXCEPT ![job[h].pi] = mails[job[h].pi]]
        BY <1>9 DEF SendFulfillmentEmail
      <3> QED BY <3>1 DEF TypeOK, Bump
    <2> QED BY <1>9, <2>1 DEF SendFulfillmentEmail, TypeOK, Goto, Label
  <1>10. ASSUME NEW h \in Handler, PersistFulfillment(h) PROVE TypeOK'
    <2>1. job[h] \in Event
      BY <1>10 DEF JobOK, PersistFulfillment, SaleLabel
    <2>2. tx' \in [PI -> TxRow]
      <3>1. PICK mark \in {"completed", "pending_retry"} :
                tx' = [tx EXCEPT ![job[h].pi] = [tx[job[h].pi] EXCEPT !.fulfilment = mark]]
        BY <1>10 DEF PersistFulfillment
      <3>2. tx[job[h].pi] \in TxRow
        BY <2>1, EventFields DEF TypeOK
      <3> QED BY <3>1, <3>2, FieldType DEF TypeOK
    <2> QED BY <1>10, <2>1, <2>2, ReleaseType DEF PersistFulfillment, TypeOK, Answer
  <1>11. ASSUME NEW h \in Handler, FindRefunded(h) PROVE TypeOK'
    <2>1. job[h] \in Event /\ job[h].pi \in PI
      BY <1>11, EventFields DEF JobOK, FindRefunded, RefundLabel
    <2>2. CASE Present(job[h].pi)
      BY <1>11, <2>1, <2>2 DEF FindRefunded, TypeOK, Goto, Label
    <2>3. CASE ~Present(job[h].pi)
      BY <1>11, <2>1, <2>3, ReleaseType DEF FindRefunded, TypeOK, Answer
    <2> QED BY <2>2, <2>3
  <1>12. ASSUME NEW h \in Handler, VerifyRefund(h) PROVE TypeOK'
    BY <1>12, ReleaseType DEF VerifyRefund, TypeOK, Goto, Throw, Label
  <1>13. ASSUME NEW h \in Handler, RecordRefundOutcome(h) PROVE TypeOK'
    <2>1. job[h] \in Event
      BY <1>13 DEF JobOK, RecordRefundOutcome, RefundLabel
    <2>2. outcomes' \subseteq Outcome
      BY <1>13, <2>1, EventFields DEF RecordRefundOutcome, TypeOK, Outcome
    <2> QED BY <1>13, <2>2 DEF RecordRefundOutcome, TypeOK, Goto, Label
  <1>14. ASSUME NEW h \in Handler, MarkRefunded(h) PROVE TypeOK'
    <2>1. job[h] \in Event
      BY <1>14 DEF JobOK, MarkRefunded, RefundLabel
    <2>2. tx' \in [PI -> TxRow]
      <3>1. tx' = [tx EXCEPT ![job[h].pi] = [tx[job[h].pi] EXCEPT !.status = "refunded"]]
        BY <1>14 DEF MarkRefunded
      <3>2. tx[job[h].pi] \in TxRow
        BY <2>1, EventFields DEF TypeOK
      <3> QED BY <3>1, <3>2, FieldType DEF TypeOK
    <2> QED BY <1>14, <2>2 DEF MarkRefunded, TypeOK, Goto, Label
  <1>15. ASSUME NEW h \in Handler, EnsureRefundEntry(h) PROVE TypeOK'
    <2>1. job[h] \in Event
      BY <1>15 DEF JobOK, EnsureRefundEntry, RefundLabel
    <2>2. ledger' \subseteq LedgerRow
      BY <1>15, <2>1, EntryType DEF EnsureRefundEntry
    <2> QED BY <1>15, <2>1, <2>2, ReleaseType DEF EnsureRefundEntry, TypeOK, Answer
  <1>16. ASSUME NEW h \in Handler, Fail(h) PROVE TypeOK'
    BY <1>16, ReleaseType DEF Fail, TypeOK, Throw
  <1>17. ASSUME NEW h \in Handler, FailPersist(h) PROVE TypeOK'
    BY <1>17 DEF FailPersist, TypeOK, Goto, Label
  <1>18. CASE RepairIncome
    BY <1>18 DEF RepairIncome, TypeOK
  <1>19. CASE UNCHANGED vars
    BY <1>19 DEF vars, TypeOK
  <1> QED
    BY <1>1, <1>2, <1>3, <1>4, <1>5, <1>6, <1>7, <1>8, <1>9, <1>10, <1>11, <1>12, <1>13,
       <1>14, <1>15, <1>16, <1>17, <1>18, <1>19 DEF Next, Step

-----------------------------------------------------------------------------
(* The inductive invariant, one lemma per conjunct *)

\* Every action either ends a request or moves it along its own path.
LEMMA JobStep == TypeOK /\ JobOK /\ [Next]_vars => JobOK'
  <1> SUFFICES ASSUME TypeOK, JobOK, [Next]_vars PROVE JobOK'
    OBVIOUS
  <1> USE DEF JobOK, TypeOK, Goto, Throw, Answer, Release, SaleLabel, RefundLabel, SaleKind
  <1>1. ASSUME NEW h \in Handler, NEW e \in Event, Receive(h, e) PROVE JobOK'
    BY <1>1, EventFields DEF Receive, Ignored, Kind
  <1>2. ASSUME NEW h \in Handler, ResolveCustomer(h) PROVE JobOK'
    BY <1>2 DEF ResolveCustomer
  <1>3. ASSUME NEW h \in Handler, FindTransaction(h) PROVE JobOK'
    BY <1>3 DEF FindTransaction
  <1>4. ASSUME NEW h \in Handler, WriteTransaction(h) PROVE JobOK'
    BY <1>4 DEF WriteTransaction
  <1>5. ASSUME NEW h \in Handler, VerifyTransaction(h) PROVE JobOK'
    BY <1>5 DEF VerifyTransaction
  <1>6. ASSUME NEW h \in Handler, RecordOutcome(h) PROVE JobOK'
    BY <1>6 DEF RecordOutcome
  <1>7. ASSUME NEW h \in Handler, EnsureSaleEntry(h) PROVE JobOK'
    BY <1>7 DEF EnsureSaleEntry
  <1>8. ASSUME NEW h \in Handler, IssueToken(h) PROVE JobOK'
    BY <1>8 DEF IssueToken
  <1>9. ASSUME NEW h \in Handler, SendFulfillmentEmail(h) PROVE JobOK'
    BY <1>9 DEF SendFulfillmentEmail
  <1>10. ASSUME NEW h \in Handler, PersistFulfillment(h) PROVE JobOK'
    BY <1>10 DEF PersistFulfillment
  <1>11. ASSUME NEW h \in Handler, FindRefunded(h) PROVE JobOK'
    BY <1>11 DEF FindRefunded
  <1>12. ASSUME NEW h \in Handler, VerifyRefund(h) PROVE JobOK'
    BY <1>12 DEF VerifyRefund
  <1>13. ASSUME NEW h \in Handler, RecordRefundOutcome(h) PROVE JobOK'
    BY <1>13 DEF RecordRefundOutcome
  <1>14. ASSUME NEW h \in Handler, MarkRefunded(h) PROVE JobOK'
    BY <1>14 DEF MarkRefunded
  <1>15. ASSUME NEW h \in Handler, EnsureRefundEntry(h) PROVE JobOK'
    BY <1>15 DEF EnsureRefundEntry
  <1>16. ASSUME NEW h \in Handler, Fail(h) PROVE JobOK'
    BY <1>16 DEF Fail
  <1>17. ASSUME NEW h \in Handler, FailPersist(h) PROVE JobOK'
    BY <1>17 DEF FailPersist
  <1>18. CASE RepairIncome
    BY <1>18 DEF RepairIncome
  <1>19. CASE UNCHANGED vars
    BY <1>19 DEF vars
  <1> QED
    BY <1>1, <1>2, <1>3, <1>4, <1>5, <1>6, <1>7, <1>8, <1>9, <1>10, <1>11, <1>12, <1>13,
        <1>14, <1>15, <1>16, <1>17, <1>18, <1>19 DEF Next, Step

\* Whatever a step does to the table, it leaves one payment recorded: no row disappears.
LEMMA TableStep ==
    ASSUME TypeOK, JobOK, RecordedOK, [Next]_vars
    PROVE  tx' = tx \/ \E p \in PI, row \in TxRow :
                          row.status # "absent" /\ tx' = [tx EXCEPT ![p] = row]
  <1> DEFINE Goal == tx' = tx \/ \E p \in PI, row \in TxRow :
                          row.status # "absent" /\ tx' = [tx EXCEPT ![p] = row]
  <1>1. ASSUME NEW h \in Handler, WriteTransaction(h) PROVE Goal
    <2> DEFINE row == IF copy[h] = Absent THEN NewRow(job[h]) ELSE UpdatedRow(job[h], copy[h])
    <2>1. job[h] \in Event /\ job[h].pi \in PI
      BY <1>1, EventFields DEF JobOK, WriteTransaction, SaleLabel
    <2>2. row \in TxRow
      BY <2>1, RowType DEF TypeOK
    <2>3. row.status # "absent"
      <3>1. NewRow(job[h]).status = "succeeded"
        BY DEF NewRow
      <3>2. UpdatedRow(job[h], copy[h]).status = NextState(copy[h].status)
        BY <2>1 DEF UpdatedRow, TypeOK, TxRow
      <3> QED BY <3>1, <3>2 DEF NextState
    <2>4. tx' = tx \/ tx' = [tx EXCEPT ![job[h].pi] = row]
      BY <1>1 DEF WriteTransaction
    <2> QED BY <2>1, <2>2, <2>3, <2>4
  <1>2. ASSUME NEW h \in Handler, PersistFulfillment(h) PROVE Goal
    <2>1. job[h] \in Event /\ job[h].pi \in PI /\ Present(job[h].pi)
      BY <1>2, EventFields DEF JobOK, RecordedOK, PersistFulfillment, SaleLabel, RecordedLabel
    <2>2. PICK mark \in {"completed", "pending_retry"} :
              tx' = [tx EXCEPT ![job[h].pi] = [tx[job[h].pi] EXCEPT !.fulfilment = mark]]
      BY <1>2 DEF PersistFulfillment
    <2>3. tx[job[h].pi] \in TxRow
      BY <2>1 DEF TypeOK
    <2>4. [tx[job[h].pi] EXCEPT !.fulfilment = mark].status # "absent"
      BY <2>1, <2>3 DEF Present, TxRow
    <2> QED BY <2>1, <2>2, <2>3, <2>4, FieldType
  <1>3. ASSUME NEW h \in Handler, MarkRefunded(h) PROVE Goal
    <2>1. job[h] \in Event /\ job[h].pi \in PI
      BY <1>3, EventFields DEF JobOK, MarkRefunded, RefundLabel
    <2>2. tx' = [tx EXCEPT ![job[h].pi] = [tx[job[h].pi] EXCEPT !.status = "refunded"]]
      BY <1>3 DEF MarkRefunded
    <2>3. tx[job[h].pi] \in TxRow
      BY <2>1 DEF TypeOK
    <2>4. [tx[job[h].pi] EXCEPT !.status = "refunded"].status # "absent"
      BY <2>3 DEF TxRow
    <2> QED BY <2>1, <2>2, <2>3, <2>4, FieldType
  <1>4. ASSUME NEW h \in Handler,
               \/ \E e \in Event : Receive(h, e)
               \/ ResolveCustomer(h) \/ FindTransaction(h) \/ VerifyTransaction(h)
               \/ RecordOutcome(h) \/ EnsureSaleEntry(h) \/ IssueToken(h)
               \/ SendFulfillmentEmail(h) \/ FindRefunded(h) \/ VerifyRefund(h)
               \/ RecordRefundOutcome(h) \/ EnsureRefundEntry(h) \/ Fail(h) \/ FailPersist(h)
        PROVE  tx' = tx
    BY <1>4 DEF Receive, ResolveCustomer, FindTransaction, VerifyTransaction, RecordOutcome,
        EnsureSaleEntry, IssueToken, SendFulfillmentEmail, FindRefunded, VerifyRefund,
        RecordRefundOutcome, EnsureRefundEntry, Fail, FailPersist, data
  <1>5. RepairIncome \/ UNCHANGED vars => tx' = tx
    BY DEF RepairIncome, vars
  <1> QED BY <1>1, <1>2, <1>3, <1>4, <1>5 DEF Next, Step

\* No payment is forgotten.
LEMMA PresentStable ==
    ASSUME TypeOK, JobOK, RecordedOK, [Next]_vars, NEW p \in PI, Present(p)
    PROVE  tx'[p].status # "absent"
  BY TableStep DEF Present, TypeOK

\* Once a sale is booked it stays booked: the repair tool deletes refunds only.
LEMMA BookedStable ==
    ASSUME [Next]_vars, NEW e \in Event, e.kind \in SaleKind, Booked(e)
    PROVE  Booked(e)'
  <1>1. PICK r \in ledger : SameReference(r, EntryOf(e))
    BY DEF Booked
  <1>2. r.ref = "sale"
    BY <1>1 DEF SameReference, EntryOf, SaleKind
  <1>3. ASSUME NEW h \in Handler, Step(h) PROVE r \in ledger'
    BY <1>1, <1>3 DEF Step, ResolveCustomer, FindTransaction, WriteTransaction,
        VerifyTransaction, RecordOutcome, EnsureSaleEntry, IssueToken, SendFulfillmentEmail,
        PersistFulfillment, FindRefunded, VerifyRefund, RecordRefundOutcome, MarkRefunded,
        EnsureRefundEntry, WithEntry, data
  <1>4. ASSUME NEW h \in Handler, (\E f \in Event : Receive(h, f)) \/ Fail(h) \/ FailPersist(h)
        PROVE  r \in ledger'
    BY <1>1, <1>4 DEF Receive, Fail, FailPersist, data
  <1>5. RepairIncome \/ UNCHANGED vars => r \in ledger'
    BY <1>1, <1>2 DEF RepairIncome, vars
  <1>6. r \in ledger'
    BY <1>3, <1>4, <1>5 DEF Next
  <1> QED BY <1>1, <1>6 DEF Booked

\* Deriving the entry of an event books it.
LEMMA WithEntryBooks ==
    ASSUME NEW e \in Event, ledger' = WithEntry(e)
    PROVE  Booked(e)'
  <1>1. CASE Booked(e)
    BY <1>1 DEF Booked, WithEntry
  <1>2. CASE ~Booked(e)
    BY <1>2 DEF Booked, WithEntry, SameReference
  <1> QED BY <1>1, <1>2

\* Rows appear whole.
LEMMA TableOKStep == TypeOK /\ JobOK /\ TableOK /\ RecordedOK /\ [Next]_vars => TableOK'
  BY TableStep DEF TableOK, Present, TypeOK

\* The write of a sale records its payment or throws.
LEMMA WriteRecords ==
    ASSUME TypeOK, JobOK, NEW h \in Handler, WriteTransaction(h), pc'[h] # "idle"
    PROVE  tx'[job[h].pi].status # "absent" /\ job' = job
  <1>1. job[h] \in Event /\ job[h].pi \in PI
    BY EventFields DEF JobOK, WriteTransaction, SaleLabel
  <1>2. ~Throw(h)
    BY DEF Throw, Release, TypeOK
  <1> DEFINE row == IF copy[h] = Absent THEN NewRow(job[h]) ELSE UpdatedRow(job[h], copy[h])
  <1>3. tx' = [tx EXCEPT ![job[h].pi] = row] /\ job' = job
    BY <1>2 DEF WriteTransaction
  <1>4. row.status # "absent"
    <2>1. NewRow(job[h]).status = "succeeded"
      BY DEF NewRow
    <2>2. UpdatedRow(job[h], copy[h]).status = NextState(copy[h].status)
      BY <1>1 DEF UpdatedRow, TypeOK, TxRow
    <2> QED BY <2>1, <2>2 DEF NextState
  <1>5. tx'[job[h].pi] = row
    BY <1>1, <1>3 DEF TypeOK
  <1> QED BY <1>3, <1>4, <1>5

\* The payment a request found or wrote stays recorded while the request goes on.
LEMMA RecordedStep == TypeOK /\ JobOK /\ TableOK /\ RecordedOK /\ [Next]_vars => RecordedOK'
  <1> SUFFICES ASSUME TypeOK, JobOK, TableOK, RecordedOK, [Next]_vars, NEW g \in Handler
               PROVE  /\ pc'[g] \in RecordedLabel => tx'[job'[g].pi].status # "absent"
                      /\ (pc'[g] = "write" /\ copy'[g] # Absent) => tx'[job'[g].pi].status # "absent"
    BY DEF RecordedOK, Present
  <1> DEFINE Goal == /\ pc'[g] \in RecordedLabel => tx'[job'[g].pi].status # "absent"
                     /\ (pc'[g] = "write" /\ copy'[g] # Absent) => tx'[job'[g].pi].status # "absent"
  \* A request that does not move keeps what it had, whoever moves.
  <1>1. ASSUME pc'[g] = pc[g], job'[g] = job[g], copy'[g] = copy[g] PROVE Goal
    <2>1. CASE pc[g] \in RecordedLabel \/ (pc[g] = "write" /\ copy[g] # Absent)
      <3>1. job[g] \in Event /\ job[g].pi \in PI
        BY <2>1, EventFields DEF JobOK, RecordedLabel, SaleLabel, RefundLabel
      <3>2. Present(job[g].pi)
        BY <2>1 DEF RecordedOK
      <3> QED BY <1>1, <3>1, <3>2, PresentStable
    <2> QED BY <1>1, <2>1
  <1>2. ASSUME NEW h \in Handler, h # g,
               Step(h) \/ (\E e \in Event : Receive(h, e)) \/ Fail(h) \/ FailPersist(h)
        PROVE  pc'[g] = pc[g] /\ job'[g] = job[g] /\ copy'[g] = copy[g]
    BY <1>2 DEF TypeOK, Step, ResolveCustomer, FindTransaction, WriteTransaction,
        VerifyTransaction, RecordOutcome, EnsureSaleEntry, IssueToken, SendFulfillmentEmail,
        PersistFulfillment, FindRefunded, VerifyRefund, RecordRefundOutcome, MarkRefunded,
        EnsureRefundEntry, Receive, Fail, FailPersist, Goto, Answer, Throw, Release
  <1>3. ASSUME pc'[g] \notin RecordedLabel \cup {"write"} PROVE Goal
    BY <1>3
  <1>4. ASSUME NEW e \in Event, Receive(g, e) PROVE Goal
    <2>1. pc'[g] \in {"idle", "customer", "findRefunded"}
      BY <1>4 DEF Receive, Goto, TypeOK
    <2> QED BY <1>3, <2>1 DEF RecordedLabel
  <1>5. CASE ResolveCustomer(g)
    BY <1>3, <1>5 DEF ResolveCustomer, Goto, TypeOK, RecordedLabel
  <1>6. CASE FindTransaction(g)
    <2>1. job[g] \in Event /\ job[g].pi \in PI
      BY <1>6, EventFields DEF JobOK, FindTransaction, SaleLabel
    <2>2. CASE Throw(g)
      BY <1>3, <2>2 DEF Throw, Release, TypeOK, RecordedLabel
    <2>3. CASE /\ copy' = [copy EXCEPT ![g] = tx[job[g].pi]]
               /\ Goto(g, "write") /\ UNCHANGED <<job, answered>>
      BY <1>6, <2>1, <2>3 DEF FindTransaction, Goto, TypeOK, RecordedLabel, TableOK, Present,
          data
    <2> QED BY <1>6, <2>2, <2>3 DEF FindTransaction
  <1>7. CASE WriteTransaction(g)
    BY <1>7, WriteRecords DEF RecordedLabel, Present
  <1>8. CASE \/ VerifyTransaction(g) \/ RecordOutcome(g) \/ EnsureSaleEntry(g) \/ IssueToken(g)
             \/ SendFulfillmentEmail(g) \/ FailPersist(g)
             \/ VerifyRefund(g) \/ RecordRefundOutcome(g) \/ MarkRefunded(g)
    <2>1. pc[g] \in RecordedLabel /\ (pc'[g] = "idle" \/ (job'[g] = job[g] /\ pc'[g] # "write"))
      BY <1>8 DEF VerifyTransaction, RecordOutcome, EnsureSaleEntry, IssueToken,
          SendFulfillmentEmail, FailPersist, VerifyRefund, RecordRefundOutcome, MarkRefunded,
          Goto, Answer, Throw, Release, TypeOK, RecordedLabel
    <2>2. job[g] \in Event /\ job[g].pi \in PI
      BY <2>1, EventFields DEF JobOK, RecordedLabel, SaleLabel, RefundLabel
    <2>3. tx'[job[g].pi].status # "absent"
      BY <2>1, <2>2, PresentStable DEF RecordedOK
    <2> QED BY <2>1, <2>3, <1>3 DEF RecordedLabel, Present
  <1>9. CASE PersistFulfillment(g) \/ EnsureRefundEntry(g) \/ Fail(g)
    <2>1. pc'[g] = "idle"
      BY <1>9 DEF PersistFulfillment, EnsureRefundEntry, Fail, Answer, Throw, Release, TypeOK
    <2> QED BY <1>3, <2>1 DEF RecordedLabel
  <1>10. CASE FindRefunded(g)
    <2>1. job[g] \in Event /\ job[g].pi \in PI
      BY <1>10, EventFields DEF JobOK, FindRefunded, RefundLabel
    <2>2. CASE Present(job[g].pi)
      <3>1. job'[g] = job[g] /\ pc'[g] # "write"
        BY <1>10, <2>2 DEF FindRefunded, Goto, TypeOK
      <3> QED BY <2>1, <2>2, <3>1, PresentStable DEF Present
    <2>3. CASE ~Present(job[g].pi)
      BY <1>3, <1>10, <2>3 DEF FindRefunded, Answer, Release, TypeOK, RecordedLabel
    <2> QED BY <2>2, <2>3
  <1>11. CASE RepairIncome \/ UNCHANGED vars
    BY <1>1, <1>11 DEF RepairIncome, vars
  <1> QED
    BY <1>1, <1>2, <1>4, <1>5, <1>6, <1>7, <1>8, <1>9, <1>10, <1>11 DEF Next, Step

\* An entry is booked for as long as the request that booked it goes on.
LEMMA BookedStep == TypeOK /\ JobOK /\ BookedOK /\ [Next]_vars => BookedOK'
  <1> SUFFICES ASSUME TypeOK, JobOK, BookedOK, [Next]_vars, NEW g \in Handler,
                      pc'[g] \in BookedLabel
               PROVE  \E r \in ledger' : SameReference(r, EntryOf(job'[g]))
    BY DEF BookedOK, Booked
  <1>1. CASE EnsureSaleEntry(g)
    <2>1. job[g] \in Event /\ job' = job
      BY <1>1 DEF EnsureSaleEntry, JobOK, SaleLabel, Answer, Release, TypeOK, BookedLabel
    <2> QED BY <1>1, <2>1, WithEntryBooks DEF EnsureSaleEntry, Booked
  <1>2. CASE ~EnsureSaleEntry(g)
    <2>1. pc[g] \in BookedLabel /\ job'[g] = job[g]
      <3>1. ASSUME NEW h \in Handler, h # g,
                   Step(h) \/ (\E e \in Event : Receive(h, e)) \/ Fail(h) \/ FailPersist(h)
            PROVE  pc'[g] = pc[g] /\ job'[g] = job[g]
        BY <3>1 DEF TypeOK, Step, ResolveCustomer, FindTransaction, WriteTransaction,
            VerifyTransaction, RecordOutcome, EnsureSaleEntry, IssueToken, SendFulfillmentEmail,
            PersistFulfillment, FindRefunded, VerifyRefund, RecordRefundOutcome, MarkRefunded,
            EnsureRefundEntry, Receive, Fail, FailPersist, Goto, Answer, Throw, Release
      <3>2. ASSUME Step(g) PROVE pc[g] \in BookedLabel /\ job'[g] = job[g]
        BY <1>2, <3>2 DEF TypeOK, Step, ResolveCustomer, FindTransaction, WriteTransaction,
            VerifyTransaction, RecordOutcome, IssueToken, SendFulfillmentEmail,
            PersistFulfillment, FindRefunded, VerifyRefund, RecordRefundOutcome, MarkRefunded,
            EnsureRefundEntry, Goto, Answer, Throw, Release, BookedLabel
      <3>3. ASSUME (\E e \in Event : Receive(g, e)) \/ Fail(g) \/ FailPersist(g)
            PROVE  pc[g] \in BookedLabel /\ job'[g] = job[g]
        BY <3>3 DEF TypeOK, Receive, Fail, FailPersist, Goto, Throw, Release, BookedLabel
      <3>4. RepairIncome \/ UNCHANGED vars => pc' = pc /\ job' = job
        BY DEF RepairIncome, vars
      <3> QED BY <3>1, <3>2, <3>3, <3>4 DEF Next
    <2>2. job[g] \in Event /\ job[g].kind \in SaleKind
      BY <2>1 DEF JobOK, BookedLabel, SaleLabel
    <2>3. Booked(job[g])
      BY <2>1 DEF BookedOK
    <2> QED BY <2>1, <2>2, <2>3, BookedStable DEF Booked
  <1> QED BY <1>1, <1>2

\* No entry is ahead of its payment.
LEMMA LedgerBackedStep ==
    TypeOK /\ JobOK /\ RecordedOK /\ LedgerBacked /\ [Next]_vars => LedgerBacked'
  <1> SUFFICES ASSUME TypeOK, JobOK, RecordedOK, LedgerBacked, [Next]_vars, NEW r \in ledger'
               PROVE  tx'[r.pi].status # "absent"
    BY DEF LedgerBacked, Present
  <1>1. r \in ledger \/ \E h \in Handler :
            (EnsureSaleEntry(h) \/ EnsureRefundEntry(h)) /\ r = EntryOf(job[h])
    BY DEF Next, Step, Receive, ResolveCustomer, FindTransaction, WriteTransaction,
        VerifyTransaction, RecordOutcome, EnsureSaleEntry, IssueToken, SendFulfillmentEmail,
        PersistFulfillment, FindRefunded, VerifyRefund, RecordRefundOutcome, MarkRefunded,
        EnsureRefundEntry, Fail, FailPersist, RepairIncome, WithEntry, data, vars
  <1>2. CASE r \in ledger
    <2>1. r.pi \in PI
      BY <1>2, EventFields DEF TypeOK, LedgerRow, EntryOf
    <2> QED BY <1>2, <2>1, PresentStable DEF LedgerBacked
  <1>3. ASSUME NEW h \in Handler, EnsureSaleEntry(h) \/ EnsureRefundEntry(h), r = EntryOf(job[h])
        PROVE  tx'[r.pi].status # "absent"
    <2>1. job[h] \in Event /\ Present(job[h].pi)
      BY <1>3 DEF JobOK, RecordedOK, EnsureSaleEntry, EnsureRefundEntry, SaleLabel, RefundLabel,
          RecordedLabel
    <2>2. r.pi = job[h].pi /\ r.pi \in PI
      BY <1>3, <2>1, EventFields DEF EntryOf
    <2> QED BY <2>1, <2>2, PresentStable
  <1> QED BY <1>1, <1>2, <1>3

\* A sale is answered only after its entry, and nothing takes either back.
LEMMA AnsweredStep ==
    TypeOK /\ JobOK /\ RecordedOK /\ BookedOK /\ AnsweredSaleIsBooked /\ [Next]_vars
        => AnsweredSaleIsBooked'
  <1> SUFFICES ASSUME TypeOK, JobOK, RecordedOK, BookedOK, AnsweredSaleIsBooked, [Next]_vars,
                      NEW e \in Event, answered'[e] = "processed", e.kind \in SaleKind
               PROVE  tx'[e.pi].status # "absent" /\ Booked(e)'
    BY DEF AnsweredSaleIsBooked, Present
  <1>0. e.pi \in PI
    BY EventFields
  <1>1. \/ answered[e] = "processed"
        \/ \E h \in Handler : EnsureSaleEntry(h) /\ job[h] = e
        \/ \E h \in Handler : PersistFulfillment(h) /\ job[h] = e
    <2>1. ASSUME NEW h \in Handler, Step(h), answered[e] # "processed"
          PROVE  (EnsureSaleEntry(h) \/ PersistFulfillment(h)) /\ job[h] = e
      <3>1. ~EnsureRefundEntry(h)
        BY <2>1 DEF EnsureRefundEntry, Answer, TypeOK, JobOK, RefundLabel, SaleKind
      <3>2. EnsureSaleEntry(h) => job[h] = e
        BY <2>1 DEF EnsureSaleEntry, Answer, TypeOK
      <3>3. PersistFulfillment(h) => job[h] = e
        BY <2>1 DEF PersistFulfillment, Answer, TypeOK
      <3>4. ~FindRefunded(h)
        BY <2>1 DEF FindRefunded, Answer, TypeOK
      <3> QED
        BY <2>1, <3>1, <3>2, <3>3, <3>4 DEF Step, ResolveCustomer, FindTransaction,
            WriteTransaction, VerifyTransaction, RecordOutcome, IssueToken,
            SendFulfillmentEmail, VerifyRefund, RecordRefundOutcome, MarkRefunded, Throw
    <2>2. ASSUME NEW h \in Handler, (\E f \in Event : Receive(h, f)) \/ Fail(h) \/ FailPersist(h)
          PROVE  answered[e] = "processed"
      BY <2>2 DEF Receive, Fail, FailPersist, Throw, TypeOK
    <2>3. RepairIncome \/ UNCHANGED vars => answered' = answered
      BY DEF RepairIncome, vars
    <2> QED BY <2>1, <2>2, <2>3 DEF Next
  <1>2. CASE answered[e] = "processed"
    <2>1. Present(e.pi) /\ Booked(e)
      BY <1>2 DEF AnsweredSaleIsBooked
    <2> QED BY <1>0, <2>1, PresentStable, BookedStable
  <1>3. ASSUME NEW h \in Handler, EnsureSaleEntry(h), job[h] = e
        PROVE  tx'[e.pi].status # "absent" /\ Booked(e)'
    <2>1. Present(e.pi)
      BY <1>3 DEF RecordedOK, EnsureSaleEntry, RecordedLabel
    <2>2. ledger' = WithEntry(e)
      BY <1>3 DEF EnsureSaleEntry
    <2> QED BY <1>0, <2>1, <2>2, PresentStable, WithEntryBooks
  <1>4. ASSUME NEW h \in Handler, PersistFulfillment(h), job[h] = e
        PROVE  tx'[e.pi].status # "absent" /\ Booked(e)'
    <2>1. Present(e.pi) /\ Booked(e)
      BY <1>4 DEF RecordedOK, BookedOK, PersistFulfillment, RecordedLabel, BookedLabel
    <2> QED BY <1>0, <2>1, PresentStable, BookedStable
  <1> QED BY <1>1, <1>2, <1>3, <1>4

-----------------------------------------------------------------------------
(* The theorems *)

\* The initial state satisfies the inductive invariant.
LEMMA InvInit == Init => IInv
  BY TypeInit DEF Init, IInv, JobOK, TableOK, RecordedOK, BookedOK, LedgerBacked,
      AnsweredSaleIsBooked, SaleLabel, RefundLabel, RecordedLabel, BookedLabel

\* Every step preserves it.
LEMMA InvStep == IInv /\ [Next]_vars => IInv'
  BY TypeStep, JobStep, TableOKStep, RecordedStep, BookedStep, LedgerBackedStep, AnsweredStep
     DEF IInv

\* So it holds in every reachable state.
LEMMA Invariance == Spec => []IInv
  <1> QED BY InvInit, InvStep, PTL DEF Spec

\* Every reachable state of the webhook is well typed.
THEOREM TypeCorrect == Spec => []TypeOK
  <1>1. IInv => TypeOK
    BY DEF IInv
  <1> QED BY <1>1, Invariance, PTL

\* For every set of events, any concurrency and any number of crashes: a sale event that
\* Stripe will not send again has its Transaction and its income entry.
THEOREM AnsweredSales == Spec => []AnsweredSaleIsBooked
  <1>1. IInv => AnsweredSaleIsBooked
    BY DEF IInv
  <1> QED BY <1>1, Invariance, PTL

-----------------------------------------------------------------------------
(* Refinement of DerivedLedger *)

\* The ledger only changes by deriving one entry, for a payment that is recorded, or by the
\* repair tool, and the table is left alone meanwhile.
LEMMA LedgerStep ==
    ASSUME IInv, [Next]_vars
    PROVE  \/ ledger' = ledger
           \/ tx' = tx /\ \E e \in Event : Present(e.pi) /\ ledger' = WithEntry(e)
           \/ tx' = tx /\ RepairIncome
  <1> USE DEF IInv
  <1>1. ASSUME NEW h \in Handler, EnsureSaleEntry(h)
        PROVE  tx' = tx /\ \E e \in Event : Present(e.pi) /\ ledger' = WithEntry(e)
    BY <1>1 DEF EnsureSaleEntry, JobOK, RecordedOK, SaleLabel, RecordedLabel
  <1>2. ASSUME NEW h \in Handler, EnsureRefundEntry(h)
        PROVE  tx' = tx /\ \E e \in Event : Present(e.pi) /\ ledger' = WithEntry(e)
    BY <1>2 DEF EnsureRefundEntry, JobOK, RecordedOK, RefundLabel, RecordedLabel
  <1>3. ASSUME NEW h \in Handler, Step(h), ~EnsureSaleEntry(h), ~EnsureRefundEntry(h)
        PROVE  ledger' = ledger
    BY <1>3 DEF Step, ResolveCustomer, FindTransaction, WriteTransaction, VerifyTransaction,
        RecordOutcome, IssueToken, SendFulfillmentEmail, PersistFulfillment, FindRefunded,
        VerifyRefund, RecordRefundOutcome, MarkRefunded, data
  <1>4. ASSUME NEW h \in Handler, (\E e \in Event : Receive(h, e)) \/ Fail(h) \/ FailPersist(h)
        PROVE  ledger' = ledger
    BY <1>4 DEF Receive, Fail, FailPersist, data
  <1>5. RepairIncome => tx' = tx
    BY DEF RepairIncome
  <1>6. UNCHANGED vars => ledger' = ledger
    BY DEF vars
  <1> QED BY <1>1, <1>2, <1>3, <1>4, <1>5, <1>6 DEF Next

\* With the repair tool switched off it does not run.
LEMMA Unrepaired == IInv /\ MaxRepairs = 0 => ~RepairIncome
  BY DEF IInv, TypeOK, RepairIncome

\* Every step of the webhook is a step of DerivedLedger or leaves it alone.
LEMMA BooksStep ==
    ASSUME IInv, [Next]_vars, MaxRepairs = 0
    PROVE  [Books!Next]_<<{p \in PI : Present(p)}, ledger>>
  <1> DEFINE recorded == {p \in PI : Present(p)}
             Goal == [Books!Next]_<<recorded, ledger>>
  <1>1. CASE ledger' = ledger
    <2>1. CASE tx' = tx
      BY <1>1, <2>1 DEF Present
    <2>2. ASSUME NEW p \in PI, NEW row \in TxRow, row.status # "absent",
                 tx' = [tx EXCEPT ![p] = row]
          PROVE  Goal
      <3>1. recorded' = recorded \cup {p}
        BY <2>2 DEF Present, IInv, TypeOK
      <3>2. CASE p \in recorded
        BY <1>1, <3>1, <3>2
      <3>3. CASE p \notin recorded
        BY <1>1, <3>1, <3>3 DEF Books!Next, Books!Record
      <3> QED BY <3>2, <3>3
    <2> QED BY <2>1, <2>2, TableStep DEF IInv
  <1>2. ASSUME tx' = tx, NEW e \in Event, Present(e.pi), ledger' = WithEntry(e)
        PROVE  Goal
    <2>1. recorded' = recorded
      BY <1>2 DEF Present
    <2>2. CASE Booked(e)
      BY <1>2, <2>1, <2>2 DEF WithEntry
    <2>3. CASE ~Booked(e)
      <3>1. EntryOf(e).pi = e.pi /\ e.pi \in PI /\ EntryOf(e) \in LedgerRow
        BY EventFields DEF EntryOf, LedgerRow
      <3>2. \A r \in ledger : Books!Key(r) # Books!Key(EntryOf(e))
        BY <2>3 DEF Booked, SameReference, Books!Key
      <3>3. Books!Derive(EntryOf(e))
        BY <1>2, <2>1, <2>3, <3>1, <3>2 DEF Books!Derive, WithEntry
      <3> QED BY <3>1, <3>3 DEF Books!Next
    <2> QED BY <2>2, <2>3
  <1> QED BY <1>1, <1>2, LedgerStep, Unrepaired

\* As long as nobody deletes entries, the webhook keeps the promise of DerivedLedger: an
\* entry is written once per reference, after its payment, and stays.
THEOREM BooksRefinement == MaxRepairs = 0 => (Spec => ImplementsDerivedLedger)
  <1> SUFFICES ASSUME MaxRepairs = 0 PROVE Spec => ImplementsDerivedLedger
    OBVIOUS
  <1>1. Init => Books!Init
    BY DEF Init, Books!Init, Present, Absent
  <1>2. IInv /\ [Next]_vars => [Books!Next]_<<{p \in PI : Present(p)}, ledger>>
    BY BooksStep
  <1> QED BY <1>1, <1>2, Invariance, PTL DEF Spec, ImplementsDerivedLedger, Books!Spec

\* The entries of sales are only ever added to, the repair tool's run included.
LEMMA SalesBooksStep ==
    ASSUME IInv, [Next]_vars
    PROVE  [SalesBooks!Next]_<<{p \in PI : Present(p)}, {r \in ledger : r.ref = "sale"}>>
  <1> DEFINE recorded == {p \in PI : Present(p)}
             sales == {r \in ledger : r.ref = "sale"}
             Goal == [SalesBooks!Next]_<<recorded, sales>>
  <1>1. CASE ledger' = ledger
    <2>1. CASE tx' = tx
      BY <1>1, <2>1 DEF Present
    <2>2. ASSUME NEW p \in PI, NEW row \in TxRow, row.status # "absent",
                 tx' = [tx EXCEPT ![p] = row]
          PROVE  Goal
      <3>1. recorded' = recorded \cup {p}
        BY <2>2 DEF Present, IInv, TypeOK
      <3>2. CASE p \in recorded
        BY <1>1, <3>1, <3>2
      <3>3. CASE p \notin recorded
        BY <1>1, <3>1, <3>3 DEF SalesBooks!Next, SalesBooks!Record
      <3> QED BY <3>2, <3>3
    <2> QED BY <2>1, <2>2, TableStep DEF IInv
  <1>2. ASSUME tx' = tx, NEW e \in Event, Present(e.pi), ledger' = WithEntry(e)
        PROVE  Goal
    <2>1. recorded' = recorded
      BY <1>2 DEF Present
    <2>2. CASE Booked(e) \/ EntryOf(e).ref # "sale"
      <3>1. sales' = sales
        BY <1>2, <2>2 DEF WithEntry
      <3> QED BY <2>1, <3>1
    <2>3. CASE ~Booked(e) /\ EntryOf(e).ref = "sale"
      <3>1. EntryOf(e).pi = e.pi /\ e.pi \in PI /\ EntryOf(e) \in LedgerRow
        BY EventFields DEF EntryOf, LedgerRow
      <3>2. \A r \in sales : SalesBooks!Key(r) # SalesBooks!Key(EntryOf(e))
        BY <2>3 DEF Booked, SameReference, SalesBooks!Key
      <3>3. sales' = sales \cup {EntryOf(e)}
        BY <1>2, <2>3 DEF WithEntry
      <3>4. SalesBooks!Derive(EntryOf(e))
        BY <1>2, <2>1, <3>1, <3>2, <3>3 DEF SalesBooks!Derive
      <3> QED BY <3>1, <3>4 DEF SalesBooks!Next
    <2> QED BY <2>2, <2>3
  <1>3. CASE tx' = tx /\ RepairIncome
    <2>1. sales' = sales /\ recorded' = recorded
      BY <1>3 DEF RepairIncome, Present
    <2> QED BY <2>1
  <1> QED BY <1>1, <1>2, <1>3, LedgerStep

\* For any number of runs of the repair tool: what is booked of sales is written once per
\* reference, after its payment, and stays.
THEOREM SalesBooksRefinement == Spec => ImplementsSalesLedger
  <1>1. Init => SalesBooks!Init
    BY DEF Init, SalesBooks!Init, Present, Absent
  <1>2. IInv /\ [Next]_vars
            => [SalesBooks!Next]_<<{p \in PI : Present(p)}, {r \in ledger : r.ref = "sale"}>>
    BY SalesBooksStep
  <1> QED BY <1>1, <1>2, Invariance, PTL DEF Spec, ImplementsSalesLedger, SalesBooks!Spec

-----------------------------------------------------------------------------
(* Refunds *)

\* Without the repair tool no entry is taken back.
LEMMA EntriesKept ==
    ASSUME IInv, [Next]_vars, MaxRepairs = 0
    PROVE  ledger \subseteq ledger'
  BY LedgerStep, Unrepaired DEF WithEntry

\* A refund is answered as processed by the step that derives its entry, and no other.
LEMMA RefundStep ==
    ASSUME IInv, AnsweredRefundIsBooked, [Next]_vars, MaxRepairs = 0
    PROVE  AnsweredRefundIsBooked'
  <1> USE DEF IInv
  <1> SUFFICES ASSUME NEW e \in Event, answered'[e] = "processed", e.kind = "refund"
               PROVE  Booked(e)'
    BY DEF AnsweredRefundIsBooked
  <1>1. CASE answered[e] = "processed"
    <2>1. Booked(e)
      BY <1>1 DEF AnsweredRefundIsBooked
    <2> QED BY <2>1, EntriesKept DEF Booked
  <1>2. ASSUME NEW h \in Handler, Step(h), answered[e] # "processed"
        PROVE  EnsureRefundEntry(h) /\ job[h] = e
    <2>1. ~EnsureSaleEntry(h)
      BY <1>2 DEF EnsureSaleEntry, Answer, TypeOK, JobOK, SaleLabel, SaleKind
    <2>2. ~PersistFulfillment(h)
      BY <1>2 DEF PersistFulfillment, Answer, TypeOK, JobOK, SaleLabel, SaleKind
    <2>3. ~FindRefunded(h)
      BY <1>2 DEF FindRefunded, Answer, TypeOK
    <2>4. EnsureRefundEntry(h) => job[h] = e
      BY <1>2 DEF EnsureRefundEntry, Answer, TypeOK
    <2> QED
      BY <1>2, <2>1, <2>2, <2>3, <2>4 DEF Step, ResolveCustomer, FindTransaction,
          WriteTransaction, VerifyTransaction, RecordOutcome, IssueToken,
          SendFulfillmentEmail, VerifyRefund, RecordRefundOutcome, MarkRefunded, Throw
  <1>3. ASSUME NEW h \in Handler, (\E f \in Event : Receive(h, f)) \/ Fail(h) \/ FailPersist(h)
        PROVE  answered[e] = "processed"
    BY <1>3 DEF Receive, Fail, FailPersist, Throw, TypeOK
  <1>4. RepairIncome \/ UNCHANGED vars => answered' = answered
    BY DEF RepairIncome, vars
  <1>5. ASSUME NEW h \in Handler, EnsureRefundEntry(h), job[h] = e PROVE Booked(e)'
    BY <1>5, WithEntryBooks DEF EnsureRefundEntry
  <1> QED BY <1>1, <1>2, <1>3, <1>4, <1>5 DEF Next

\* For every set of events, any concurrency and any number of crashes: a refund that Stripe
\* will not send again has its negative entry, as long as nobody deletes entries.
THEOREM AnsweredRefunds == MaxRepairs = 0 => (Spec => []AnsweredRefundIsBooked)
  <1> SUFFICES ASSUME MaxRepairs = 0 PROVE Spec => []AnsweredRefundIsBooked
    OBVIOUS
  <1>1. Init => AnsweredRefundIsBooked
    BY DEF Init, AnsweredRefundIsBooked
  <1>2. IInv /\ AnsweredRefundIsBooked /\ [Next]_vars => AnsweredRefundIsBooked'
    BY RefundStep
  <1> QED BY <1>1, <1>2, Invariance, PTL DEF Spec

-----------------------------------------------------------------------------
(* Evidence.  Its invariant says where a request that is about to record an outcome got
   its confidence from, and that no later write of another request takes it away. *)

\* The customer of a payment exists under the payment's owner.
CustomersOK ==
    \A p \in PI : tx[p].customer # NoEmail => <<tx[p].owner, tx[p].customer>> \in customers

\* A sale past its first call has resolved its customer.
ResolvedOK ==
    \A h \in Handler : (pc[h] \in SaleLabel \ {"customer"} /\ job[h].email # NoEmail)
        => <<job[h].owner, job[h].email>> \in customers

\* A sale that goes on to update a row was compatible with it, and owners do not change.
CompatibleOK ==
    \A h \in Handler : (pc[h] = "write" /\ copy[h] # Absent) => tx[job[h].pi].owner = job[h].owner

\* Only the payments of a venture come to the verification of an outcome.
ScopedOK ==
    \A h \in Handler : /\ pc[h] = "verify" => job[h].venture # NoVenture
                       /\ pc[h] = "verifyRefund" => copy[h].venture # NoVenture

\* What the verification of an outcome saw still stands when the outcome is recorded.
VerifiedOK ==
    \A h \in Handler : pc[h] \in {"outcome", "refundOutcome"}
        => tx[job[h].pi].venture # NoVenture /\ job[h].amount <= tx[job[h].pi].amount

EvidenceInv == /\ CustomersOK /\ ResolvedOK /\ CompatibleOK
               /\ ScopedOK /\ VerifiedOK /\ EvidenceIsScoped

\* How one row may change: it appears, or keeps its owner and its amount, is given a venture
\* or a customer only by a sale of this payment that names one, and never loses either.
RowStep(p) ==
    \/ tx'[p] = tx[p]
    \/ \E e \in Event :
           /\ e.kind \in SaleKind /\ e.pi = p
           /\ e.email # NoEmail => <<e.owner, e.email>> \in customers
           /\ \/ ~Present(p) /\ tx'[p] = NewRow(e)
              \/ /\ Present(p)
                 /\ tx'[p].status # "absent" /\ tx'[p].owner = tx[p].owner
                 /\ tx'[p].amount = tx[p].amount /\ tx[p].owner = e.owner
                 /\ tx'[p].venture = tx[p].venture \/ (tx'[p].venture = e.venture /\ e.venture # NoVenture)
                 /\ tx'[p].customer = tx[p].customer \/ (tx'[p].customer = e.email /\ e.email # NoEmail)
    \/ /\ Present(p) /\ tx'[p].status # "absent"
       /\ tx'[p].owner = tx[p].owner /\ tx'[p].amount = tx[p].amount
       /\ tx'[p].venture = tx[p].venture /\ tx'[p].customer = tx[p].customer

\* Every step changes every row in one of these ways.
LEMMA RowSteps ==
    ASSUME IInv, EvidenceInv, [Next]_vars, NEW p \in PI
    PROVE  RowStep(p)
  <1> USE DEF IInv, EvidenceInv
  <1>1. ASSUME NEW h \in Handler, WriteTransaction(h) PROVE RowStep(p)
    <2> DEFINE e == job[h]
               seen == copy[h]
               row == IF seen = Absent THEN NewRow(e) ELSE UpdatedRow(e, seen)
    <2>1. /\ e \in Event /\ e.pi \in PI /\ e.kind \in SaleKind
          /\ (e.email # NoEmail => <<e.owner, e.email>> \in customers)
          /\ seen \in TxRow /\ tx[e.pi] \in TxRow
      BY <1>1, EventFields DEF JobOK, ResolvedOK, WriteTransaction, SaleLabel, TypeOK
    <2>2. CASE tx' = [tx EXCEPT ![e.pi] = row] /\ ~(seen = Absent /\ Present(e.pi))
      <3>1. CASE p # e.pi
        BY <2>2, <3>1 DEF RowStep, TypeOK
      <3>2. CASE p = e.pi /\ seen = Absent
        <4>1. tx'[p] = NewRow(e) /\ ~Present(p)
          BY <2>1, <2>2, <3>2 DEF TypeOK
        <4> QED BY <2>1, <3>2, <4>1 DEF RowStep
      <3>3. CASE p = e.pi /\ seen # Absent
        <4>1. Present(p) /\ tx[p].owner = e.owner
          BY <1>1, <3>3 DEF RecordedOK, CompatibleOK, WriteTransaction
        <4>2. tx'[p] = UpdatedRow(e, seen)
          BY <2>1, <2>2, <3>3 DEF TypeOK
        <4>3. /\ tx'[p].owner = tx[p].owner /\ tx'[p].amount = tx[p].amount
              /\ tx'[p].status = NextState(seen.status)
              /\ (tx'[p].venture = tx[p].venture
                    \/ (tx'[p].venture = e.venture /\ e.venture # NoVenture))
              /\ (tx'[p].customer = tx[p].customer
                    \/ (tx'[p].customer = e.email /\ e.email # NoEmail))
          BY <2>1, <3>3, <4>2 DEF UpdatedRow, TxRow
        <4> QED BY <2>1, <3>3, <4>1, <4>3 DEF RowStep, NextState
      <3> QED BY <3>1, <3>2, <3>3
    <2>3. CASE tx' = tx
      BY <2>3 DEF RowStep
    <2> QED BY <1>1, <2>2, <2>3 DEF WriteTransaction
  <1>2. ASSUME NEW h \in Handler, PersistFulfillment(h) \/ MarkRefunded(h) PROVE RowStep(p)
    <2>1. job[h] \in Event /\ job[h].pi \in PI /\ Present(job[h].pi)
      BY <1>2, EventFields DEF JobOK, RecordedOK, PersistFulfillment, MarkRefunded, SaleLabel,
          RefundLabel, RecordedLabel
    <2>2. \/ \E mark \in {"completed", "pending_retry"} :
                 tx' = [tx EXCEPT ![job[h].pi] = [tx[job[h].pi] EXCEPT !.fulfilment = mark]]
          \/ tx' = [tx EXCEPT ![job[h].pi] = [tx[job[h].pi] EXCEPT !.status = "refunded"]]
      BY <1>2 DEF PersistFulfillment, MarkRefunded
    <2>3. tx[job[h].pi] \in TxRow
      BY <2>1 DEF TypeOK
    <2>4. CASE p # job[h].pi
      BY <2>2, <2>4 DEF RowStep, TypeOK
    <2>5. CASE p = job[h].pi
      <3>1. \/ \E mark \in {"completed", "pending_retry"} : tx'[p] = [tx[p] EXCEPT !.fulfilment = mark]
            \/ tx'[p] = [tx[p] EXCEPT !.status = "refunded"]
        BY <2>2, <2>5 DEF TypeOK
      <3>2. /\ tx'[p].owner = tx[p].owner /\ tx'[p].amount = tx[p].amount
            /\ tx'[p].venture = tx[p].venture /\ tx'[p].customer = tx[p].customer
            /\ tx'[p].status \in {tx[p].status, "refunded"}
        BY <2>3, <2>5, <3>1 DEF TxRow
      <3> QED BY <2>1, <2>5, <3>2 DEF RowStep, Present
    <2> QED BY <2>4, <2>5
  <1>3. ASSUME NEW h \in Handler, Step(h), ~WriteTransaction(h), ~PersistFulfillment(h),
               ~MarkRefunded(h)
        PROVE  tx' = tx
    BY <1>3 DEF Step, ResolveCustomer, FindTransaction, VerifyTransaction, RecordOutcome,
        EnsureSaleEntry, IssueToken, SendFulfillmentEmail, FindRefunded, VerifyRefund,
        RecordRefundOutcome, EnsureRefundEntry, data
  <1>4. ASSUME NEW h \in Handler, (\E e \in Event : Receive(h, e)) \/ Fail(h) \/ FailPersist(h)
        PROVE  tx' = tx
    BY <1>4 DEF Receive, Fail, FailPersist, data
  <1>5. RepairIncome \/ UNCHANGED vars => tx' = tx
    BY DEF RepairIncome, vars
  <1> QED BY <1>1, <1>2, <1>3, <1>4, <1>5 DEF Next, RowStep

\* Customers only grow.
LEMMA CustomersGrow == [Next]_vars => customers \subseteq customers'
  BY DEF Next, Step, Receive, ResolveCustomer, FindTransaction, WriteTransaction,
      VerifyTransaction, RecordOutcome, EnsureSaleEntry, IssueToken, SendFulfillmentEmail,
      PersistFulfillment, FindRefunded, VerifyRefund, RecordRefundOutcome, MarkRefunded,
      EnsureRefundEntry, Fail, FailPersist, RepairIncome, data, vars

\* What a row says of its payment is fixed once it is there.
LEMMA RowKept ==
    ASSUME IInv, EvidenceInv, [Next]_vars, NEW p \in PI, Present(p)
    PROVE  /\ tx'[p].owner = tx[p].owner /\ tx'[p].amount = tx[p].amount
           /\ tx[p].venture # NoVenture => tx'[p].venture # NoVenture
  BY RowSteps DEF RowStep

\* A payment gets no customer that is not on file.
LEMMA CustomersStep ==
    ASSUME IInv, EvidenceInv, [Next]_vars
    PROVE  CustomersOK'
  <1> SUFFICES ASSUME NEW p \in PI, tx'[p].customer # NoEmail
               PROVE  <<tx'[p].owner, tx'[p].customer>> \in customers
    BY CustomersGrow DEF CustomersOK
  <1>1. \A e \in Event : NewRow(e).owner = e.owner /\ NewRow(e).customer = e.email
    BY DEF NewRow
  <1>2. CASE tx'[p].customer = tx[p].customer /\ tx'[p].owner = tx[p].owner
    BY <1>2 DEF EvidenceInv, CustomersOK
  <1>3. ASSUME NEW e \in Event, e.email # NoEmail => <<e.owner, e.email>> \in customers,
               tx'[p].owner = e.owner, tx'[p].customer = e.email
        PROVE  <<tx'[p].owner, tx'[p].customer>> \in customers
    BY <1>3
  <1>4. \/ tx'[p].customer = tx[p].customer /\ tx'[p].owner = tx[p].owner
        \/ \E e \in Event : /\ (e.email # NoEmail => <<e.owner, e.email>> \in customers)
                             /\ tx'[p].owner = e.owner /\ tx'[p].customer = e.email
    BY <1>1, RowSteps DEF RowStep
  <1> QED BY <1>2, <1>3, <1>4

\* A request that another one's step does not touch keeps its place, its event and its copy.
LEMMA OthersRest ==
    ASSUME TypeOK, NEW g \in Handler, NEW h \in Handler, h # g,
           Step(h) \/ (\E e \in Event : Receive(h, e)) \/ Fail(h) \/ FailPersist(h)
    PROVE  pc'[g] = pc[g] /\ job'[g] = job[g] /\ copy'[g] = copy[g]
  BY DEF TypeOK, Step, ResolveCustomer, FindTransaction, WriteTransaction,
      VerifyTransaction, RecordOutcome, EnsureSaleEntry, IssueToken, SendFulfillmentEmail,
      PersistFulfillment, FindRefunded, VerifyRefund, RecordRefundOutcome, MarkRefunded,
      EnsureRefundEntry, Receive, Fail, FailPersist, Goto, Answer, Throw, Release

\* So a step either leaves request g alone or is its own.
LEMMA OwnStep ==
    ASSUME TypeOK, [Next]_vars, NEW g \in Handler
    PROVE  \/ pc'[g] = pc[g] /\ job'[g] = job[g] /\ copy'[g] = copy[g]
           \/ Step(g) \/ (\E e \in Event : Receive(g, e)) \/ Fail(g) \/ FailPersist(g)
  <1>1. RepairIncome \/ UNCHANGED vars => pc' = pc /\ job' = job /\ copy' = copy
    BY DEF RepairIncome, vars
  <1> QED BY <1>1, OthersRest DEF Next

\* The first call of a sale resolves its customer; the event stays the same from there on.
LEMMA ResolvedStep ==
    ASSUME IInv, EvidenceInv, [Next]_vars
    PROVE  ResolvedOK'
  <1> USE DEF IInv, EvidenceInv
  <1> SUFFICES ASSUME NEW g \in Handler, pc'[g] \in SaleLabel \ {"customer"},
                      job'[g].email # NoEmail
               PROVE  <<job'[g].owner, job'[g].email>> \in customers'
    BY DEF ResolvedOK
  <1>1. CASE pc[g] \in SaleLabel \ {"customer"} /\ job'[g] = job[g]
    BY <1>1, CustomersGrow DEF ResolvedOK
  <1>2. CASE ResolveCustomer(g)
    BY <1>2 DEF ResolveCustomer
  <1>3. CASE Step(g) /\ ~ResolveCustomer(g)
    <2>1. pc[g] \in SaleLabel \ {"customer"} /\ job'[g] = job[g]
      BY <1>3 DEF Step, FindTransaction, WriteTransaction, VerifyTransaction, RecordOutcome,
          EnsureSaleEntry, IssueToken, SendFulfillmentEmail, PersistFulfillment, FindRefunded,
          VerifyRefund, RecordRefundOutcome, MarkRefunded, EnsureRefundEntry, Goto, Answer,
          Throw, Release, TypeOK, SaleLabel
    <2> QED BY <1>1, <2>1
  <1>4. CASE (\E e \in Event : Receive(g, e)) \/ Fail(g)
    <2>1. pc'[g] \in {"idle", "customer", "findRefunded"}
      BY <1>4 DEF Receive, Fail, Throw, Release, Goto, TypeOK
    <2> QED BY <2>1 DEF SaleLabel
  <1>5. CASE FailPersist(g)
    BY <1>1, <1>5 DEF FailPersist, SaleLabel
  <1>6. CASE pc'[g] = pc[g] /\ job'[g] = job[g] /\ copy'[g] = copy[g]
    BY <1>1, <1>6
  <1> QED BY <1>2, <1>3, <1>4, <1>5, <1>6, OwnStep

\* A row found is compatible, and its owner does not change before it is written.
LEMMA CompatibleStep ==
    ASSUME IInv, EvidenceInv, [Next]_vars
    PROVE  CompatibleOK'
  <1> USE DEF IInv, EvidenceInv
  <1> SUFFICES ASSUME NEW g \in Handler, pc'[g] = "write", copy'[g] # Absent
               PROVE  tx'[job'[g].pi].owner = job'[g].owner
    BY DEF CompatibleOK
  <1>1. CASE pc'[g] = pc[g] /\ job'[g] = job[g] /\ copy'[g] = copy[g]
    <2>1. job[g] \in Event /\ job[g].pi \in PI /\ Present(job[g].pi)
      BY <1>1, EventFields DEF JobOK, RecordedOK, SaleLabel
    <2> QED BY <1>1, <2>1, RowKept DEF CompatibleOK
  <1>2. CASE FindTransaction(g)
    <2>1. job[g] \in Event /\ job[g].pi \in PI
      BY <1>2, EventFields DEF JobOK, FindTransaction, SaleLabel
    <2>2. ~Throw(g)
      BY DEF Throw, Release, TypeOK
    <2>3. /\ copy'[g] = tx[job[g].pi] /\ job' = job /\ tx' = tx
          /\ Present(job[g].pi) => tx[job[g].pi].owner = job[g].owner
      BY <1>2, <2>2 DEF FindTransaction, TypeOK, data
    <2> QED BY <2>1, <2>3 DEF TableOK
  <1>3. CASE \/ Step(g) /\ ~FindTransaction(g)
             \/ (\E e \in Event : Receive(g, e)) \/ Fail(g) \/ FailPersist(g)
    <2>1. pc'[g] # "write"
      BY <1>3 DEF Step, ResolveCustomer, WriteTransaction, VerifyTransaction, RecordOutcome,
          EnsureSaleEntry, IssueToken, SendFulfillmentEmail, PersistFulfillment, FindRefunded,
          VerifyRefund, RecordRefundOutcome, MarkRefunded, EnsureRefundEntry, Receive, Fail,
          FailPersist, Goto, Answer, Throw, Release, TypeOK
    <2> QED BY <2>1
  <1> QED BY <1>1, <1>2, <1>3, OwnStep

\* What was verified stays so until the outcome is recorded.
LEMMA VerifiedStep ==
    ASSUME IInv, EvidenceInv, [Next]_vars
    PROVE  VerifiedOK'
  <1> USE DEF IInv, EvidenceInv
  <1> SUFFICES ASSUME NEW g \in Handler, pc'[g] \in {"outcome", "refundOutcome"}
               PROVE  tx'[job'[g].pi].venture # NoVenture /\ job'[g].amount <= tx'[job'[g].pi].amount
    BY DEF VerifiedOK
  <1>1. CASE pc'[g] = pc[g] /\ job'[g] = job[g] /\ copy'[g] = copy[g]
    <2>1. job[g] \in Event /\ job[g].pi \in PI /\ Present(job[g].pi)
      BY <1>1, EventFields DEF JobOK, RecordedOK, SaleLabel, RefundLabel, RecordedLabel
    <2> QED BY <1>1, <2>1, RowKept DEF VerifiedOK
  <1>2. CASE VerifyTransaction(g)
    <2>1. job[g] \in Event /\ job[g].pi \in PI /\ tx' = tx /\ job'[g] = job[g]
      BY <1>2, EventFields DEF JobOK, VerifyTransaction, SaleLabel, Throw, Release, TypeOK, data
    <2>2. Verified(job[g].pi, job[g].venture) /\ tx[job[g].pi].amount = job[g].amount
      BY <1>2 DEF VerifyTransaction, Throw, Release, TypeOK
    <2>3. job[g].amount <= tx[job[g].pi].amount /\ job[g].venture # NoVenture
      BY <1>2, <2>1, <2>2, EventFields DEF ScopedOK, VerifyTransaction
    <2> QED BY <2>1, <2>2, <2>3 DEF Verified
  <1>3. CASE VerifyRefund(g)
    <2>1. tx' = tx /\ job'[g] = job[g] /\ copy[g].venture # NoVenture
      BY <1>3 DEF ScopedOK, VerifyRefund, Throw, Release, TypeOK, data
    <2>2. Verified(job[g].pi, copy[g].venture) /\ job[g].amount <= tx[job[g].pi].amount
      BY <1>3 DEF VerifyRefund, Throw, Release, TypeOK
    <2> QED BY <2>1, <2>2 DEF Verified
  <1>4. CASE \/ Step(g) /\ ~VerifyTransaction(g) /\ ~VerifyRefund(g)
             \/ (\E e \in Event : Receive(g, e)) \/ Fail(g) \/ FailPersist(g)
    <2>1. pc'[g] \notin {"outcome", "refundOutcome"}
      BY <1>4 DEF Step, ResolveCustomer, FindTransaction, WriteTransaction, RecordOutcome,
          EnsureSaleEntry, IssueToken, SendFulfillmentEmail, PersistFulfillment, FindRefunded,
          RecordRefundOutcome, MarkRefunded, EnsureRefundEntry, Receive, Fail,
          FailPersist, Goto, Answer, Throw, Release, TypeOK
    <2> QED BY <2>1
  <1> QED BY <1>1, <1>2, <1>3, <1>4, OwnStep

\* The venture that a request verifies against is one.
LEMMA ScopedStep ==
    ASSUME IInv, EvidenceInv, [Next]_vars
    PROVE  ScopedOK'
  <1> USE DEF IInv, EvidenceInv
  <1> SUFFICES ASSUME NEW g \in Handler
               PROVE  /\ pc'[g] = "verify" => job'[g].venture # NoVenture
                      /\ pc'[g] = "verifyRefund" => copy'[g].venture # NoVenture
    BY DEF ScopedOK
  <1>1. CASE pc'[g] = pc[g] /\ job'[g] = job[g] /\ copy'[g] = copy[g]
    BY <1>1 DEF ScopedOK
  <1>2. CASE WriteTransaction(g)
    BY <1>2 DEF WriteTransaction, Goto, Throw, Release, TypeOK
  <1>3. CASE FindRefunded(g)
    BY <1>3 DEF FindRefunded, Goto, Answer, Release, TypeOK
  <1>4. CASE \/ Step(g) /\ ~WriteTransaction(g) /\ ~FindRefunded(g)
             \/ (\E e \in Event : Receive(g, e)) \/ Fail(g) \/ FailPersist(g)
    <2>1. pc'[g] \notin {"verify", "verifyRefund"}
      BY <1>4 DEF Step, ResolveCustomer, FindTransaction, VerifyTransaction, RecordOutcome,
          EnsureSaleEntry, IssueToken, SendFulfillmentEmail, PersistFulfillment,
          VerifyRefund, RecordRefundOutcome, MarkRefunded, EnsureRefundEntry, Receive, Fail,
          FailPersist, Goto, Answer, Throw, Release, TypeOK
    <2> QED BY <2>1
  <1> QED BY <1>1, <1>2, <1>3, <1>4, OwnStep

\* Evidence is recorded on what was verified, and the row under it keeps its amount and
\* its venture.
LEMMA EvidenceStep ==
    ASSUME IInv, EvidenceInv, [Next]_vars
    PROVE  EvidenceIsScoped'
  <1> USE DEF IInv, EvidenceInv
  <1> SUFFICES ASSUME NEW o \in outcomes'
               PROVE  /\ tx'[o.pi].venture # NoVenture
                      /\ o.amount <= tx'[o.pi].amount
                      /\ (tx'[o.pi].customer # NoEmail
                            => <<tx'[o.pi].owner, tx'[o.pi].customer>> \in customers')
    BY DEF EvidenceIsScoped
  <1>1. \/ o \in outcomes
        \/ \E h \in Handler : /\ pc[h] \in {"outcome", "refundOutcome"} /\ tx' = tx
                              /\ o.pi = job[h].pi /\ o.amount = job[h].amount
    <2>1. ASSUME NEW h \in Handler, RecordOutcome(h) \/ RecordRefundOutcome(h), o \notin outcomes
          PROVE  /\ pc[h] \in {"outcome", "refundOutcome"} /\ tx' = tx
                 /\ o.pi = job[h].pi /\ o.amount = job[h].amount
      BY <2>1 DEF RecordOutcome, RecordRefundOutcome
    <2>2. ASSUME NEW h \in Handler, Step(h), ~RecordOutcome(h), ~RecordRefundOutcome(h)
          PROVE  outcomes' = outcomes
      BY <2>2 DEF Step, ResolveCustomer, FindTransaction, WriteTransaction, VerifyTransaction,
          EnsureSaleEntry, IssueToken, SendFulfillmentEmail, PersistFulfillment, FindRefunded,
          VerifyRefund, MarkRefunded, EnsureRefundEntry, data
    <2>3. ASSUME NEW h \in Handler, (\E e \in Event : Receive(h, e)) \/ Fail(h) \/ FailPersist(h)
          PROVE  outcomes' = outcomes
      BY <2>3 DEF Receive, Fail, FailPersist, data
    <2>4. RepairIncome \/ UNCHANGED vars => outcomes' = outcomes
      BY DEF RepairIncome, vars
    <2> QED BY <2>1, <2>2, <2>3, <2>4 DEF Next
  <1>2. o.pi \in PI
    <2>1. outcomes' \subseteq Outcome
      BY TypeStep DEF TypeOK
    <2> QED BY <2>1 DEF Outcome
  <1>3. tx'[o.pi].venture # NoVenture /\ o.amount <= tx'[o.pi].amount
    <2>1. CASE o \in outcomes
      <3>1. tx[o.pi].venture # NoVenture /\ o.amount <= tx[o.pi].amount
        BY <2>1 DEF EvidenceIsScoped
      <3>2. Present(o.pi)
        BY <1>2, <3>1 DEF TableOK, Absent
      <3> QED BY <1>2, <3>1, <3>2, RowKept
    <2>2. CASE o \notin outcomes
      BY <1>1, <2>2 DEF VerifiedOK
    <2> QED BY <2>1, <2>2
  <1>4. CustomersOK'
    BY CustomersStep
  <1> QED BY <1>2, <1>3, <1>4 DEF CustomersOK

\* The invariant of this section holds throughout.
LEMMA EvidenceInvariance == Spec => [](IInv /\ EvidenceInv)
  <1>1. Init => EvidenceInv
    BY DEF Init, EvidenceInv, CustomersOK, ResolvedOK, CompatibleOK, ScopedOK, VerifiedOK,
        EvidenceIsScoped, Absent, SaleLabel
  <1>2. IInv /\ EvidenceInv /\ [Next]_vars => EvidenceInv'
    BY CustomersStep, ResolvedStep, CompatibleStep, ScopedStep, VerifiedStep, EvidenceStep
       DEF EvidenceInv
  <1> QED BY <1>1, <1>2, Invariance, PTL DEF Spec

\* For every set of events, any concurrency and any number of crashes: recorded evidence
\* stands on a payment of a venture that moved at least that much, and whose customer is
\* on file under the same owner.
THEOREM EvidenceScoped == Spec => []EvidenceIsScoped
  <1>1. EvidenceInv => EvidenceIsScoped
    BY DEF EvidenceInv
  <1> QED BY <1>1, EvidenceInvariance, PTL

-----------------------------------------------------------------------------
(* Identity.  An update fills in a venture or a customer where its copy of the row had
   none, and the row may have one by then: nothing drifts if the sales of one payment that
   name a venture, or an address, name the same. *)

PartiesAgree ==
    \A e, f \in Event : (e.pi = f.pi /\ e.kind \in SaleKind /\ f.kind \in SaleKind) =>
        /\ (e.venture # NoVenture /\ f.venture # NoVenture) => e.venture = f.venture
        /\ (e.email # NoEmail /\ f.email # NoEmail) => e.email = f.email

\* What a row names was named by a sale of its payment.
NamedOK ==
    \A p \in PI :
        /\ tx[p].venture # NoVenture =>
              \E e \in Event : e.kind \in SaleKind /\ e.pi = p /\ e.venture = tx[p].venture
        /\ tx[p].customer # NoEmail =>
              \E e \in Event : e.kind \in SaleKind /\ e.pi = p /\ e.email = tx[p].customer

\* Names come from sales.
LEMMA NamedStep ==
    ASSUME IInv, EvidenceInv, NamedOK, [Next]_vars
    PROVE  NamedOK'
  <1> SUFFICES ASSUME NEW p \in PI
               PROVE  /\ tx'[p].venture # NoVenture =>
                            \E e \in Event : e.kind \in SaleKind /\ e.pi = p /\ e.venture = tx'[p].venture
                      /\ tx'[p].customer # NoEmail =>
                            \E e \in Event : e.kind \in SaleKind /\ e.pi = p /\ e.email = tx'[p].customer
    BY DEF NamedOK
  <1>1. \A e \in Event : NewRow(e).venture = e.venture /\ NewRow(e).customer = e.email
    BY DEF NewRow
  <1>2. \/ tx'[p].venture = tx[p].venture
        \/ \E e \in Event : e.kind \in SaleKind /\ e.pi = p /\ e.venture = tx'[p].venture
    <2>1. RowStep(p)
      BY RowSteps
    <2> QED BY <1>1, <2>1 DEF RowStep
  <1>3. \/ tx'[p].customer = tx[p].customer
        \/ \E e \in Event : e.kind \in SaleKind /\ e.pi = p /\ e.email = tx'[p].customer
    <2>1. RowStep(p)
      BY RowSteps
    <2> QED BY <1>1, <2>1 DEF RowStep
  <1> QED BY <1>2, <1>3 DEF NamedOK

\* One step keeps what every row says.
LEMMA IdentityStep ==
    ASSUME PartiesAgree, IInv, EvidenceInv, NamedOK, [Next]_vars, NEW p \in PI, Present(p)
    PROVE  /\ tx'[p].status # "absent"
           /\ tx'[p].owner = tx[p].owner /\ tx'[p].amount = tx[p].amount
           /\ (tx[p].venture # NoVenture => tx'[p].venture = tx[p].venture)
           /\ (tx[p].customer # NoEmail => tx'[p].customer = tx[p].customer)
  <1>1. tx'[p].status # "absent"
    BY PresentStable DEF IInv
  <1>2. tx'[p].owner = tx[p].owner /\ tx'[p].amount = tx[p].amount
    BY RowKept
  <1>3. /\ \/ tx'[p].venture = tx[p].venture
           \/ \E e \in Event : /\ e.kind \in SaleKind /\ e.pi = p
                               /\ tx'[p].venture = e.venture /\ e.venture # NoVenture
        /\ \/ tx'[p].customer = tx[p].customer
           \/ \E e \in Event : /\ e.kind \in SaleKind /\ e.pi = p
                               /\ tx'[p].customer = e.email /\ e.email # NoEmail
    BY RowSteps DEF RowStep
  <1>4. tx[p].venture # NoVenture => tx'[p].venture = tx[p].venture
    BY <1>3 DEF NamedOK, PartiesAgree
  <1>5. tx[p].customer # NoEmail => tx'[p].customer = tx[p].customer
    BY <1>3 DEF NamedOK, PartiesAgree
  <1> QED BY <1>1, <1>2, <1>4, <1>5

\* For every set of events whose sales agree on the parties, any concurrency and any number
\* of crashes: what a Transaction says of its payment never drifts, however stale the copy
\* a handler updates it from.
THEOREM IdentityKept == PartiesAgree => (Spec => TransactionIdentityStable)
  <1> SUFFICES ASSUME PartiesAgree PROVE Spec => TransactionIdentityStable
    OBVIOUS
  <1> DEFINE Kept == \A p \in PI : Present(p) =>
                /\ tx'[p].status # "absent"
                /\ tx'[p].owner = tx[p].owner /\ tx'[p].amount = tx[p].amount
                /\ (tx[p].venture # NoVenture => tx'[p].venture = tx[p].venture)
                /\ (tx[p].customer # NoEmail => tx'[p].customer = tx[p].customer)
  <1>1. IInv /\ EvidenceInv /\ NamedOK /\ [Next]_vars => [Kept]_vars
    BY IdentityStep
  <1>2. Init => NamedOK
    BY DEF Init, NamedOK, Absent
  <1>3. IInv /\ EvidenceInv /\ NamedOK /\ [Next]_vars => NamedOK'
    BY NamedStep
  <1> QED BY <1>1, <1>2, <1>3, EvidenceInvariance, PTL DEF Spec, TransactionIdentityStable

\* Whose payment it is and how much it moved are fixed by its first sale, and a venture or a
\* customer once filled in is never taken out again (which ones, only PartiesAgree decides).
PaymentFactsFixed ==
    [][\A p \in PI : Present(p) =>
        /\ tx'[p].status # "absent"
        /\ tx'[p].owner = tx[p].owner /\ tx'[p].amount = tx[p].amount
        /\ tx[p].venture # NoVenture => tx'[p].venture # NoVenture
        /\ tx[p].customer # NoEmail => tx'[p].customer # NoEmail]_vars

\* For every set of events, also of sales that disagree: the facts of a payment are fixed.
THEOREM PaymentFactsAlwaysFixed == Spec => PaymentFactsFixed
  <1>1. ASSUME IInv, EvidenceInv, [Next]_vars, NEW p \in PI, Present(p)
        PROVE  /\ tx'[p].status # "absent"
               /\ tx'[p].owner = tx[p].owner /\ tx'[p].amount = tx[p].amount
               /\ tx[p].venture # NoVenture => tx'[p].venture # NoVenture
               /\ tx[p].customer # NoEmail => tx'[p].customer # NoEmail
    <2>1. tx'[p].status # "absent"
      BY <1>1, PresentStable DEF IInv
    <2>2. tx[p].customer # NoEmail => tx'[p].customer # NoEmail
      BY <1>1, RowSteps DEF RowStep
    <2> QED BY <1>1, <2>1, <2>2, RowKept
  <1>2. IInv /\ EvidenceInv /\ [Next]_vars
            => [\A p \in PI : Present(p) =>
                    /\ tx'[p].status # "absent"
                    /\ tx'[p].owner = tx[p].owner /\ tx'[p].amount = tx[p].amount
                    /\ tx[p].venture # NoVenture => tx'[p].venture # NoVenture
                    /\ tx[p].customer # NoEmail => tx'[p].customer # NoEmail]_vars
    BY <1>1
  <1> QED BY <1>2, EvidenceInvariance, PTL DEF Spec, PaymentFactsFixed

-----------------------------------------------------------------------------
(* One booking per payment, when no two events of a payment announce its sale: the
   application's own checkout puts its owner on the session only. *)

OneNotice ==
    \A e, f \in Event :
        (/\ e.pi = f.pi /\ e.kind \in SaleKind /\ f.kind \in SaleKind
         /\ e.owner # NoOwner /\ f.owner # NoOwner) => e.kind = f.kind

\* The ledger holds entries of sales with an owner, and one per reference.
KeyedOK ==
    /\ \A r \in ledger : r.ref = "sale" =>
           \E e \in Event : e.kind \in SaleKind /\ e.owner # NoOwner /\ r = EntryOf(e)
    /\ \A r, s \in ledger : SameReference(r, s) => r = s

\* Deriving an entry keeps the ledger so.
LEMMA KeyedStep ==
    ASSUME IInv, KeyedOK, [Next]_vars
    PROVE  KeyedOK'
  <1> USE DEF IInv
  <1>1. ASSUME NEW e \in Event, ledger' = WithEntry(e),
               e.kind \in SaleKind => e.owner # NoOwner
        PROVE  KeyedOK'
    <2>1. EntryOf(e).ref = "sale" => e.kind \in SaleKind
      BY EventFields DEF EntryOf, Kind, SaleKind
    <2>2. \A r \in ledger' : r \in ledger \/ (r = EntryOf(e) /\ ~Booked(e))
      BY <1>1 DEF WithEntry
    <2>3. \A r \in ledger : ~Booked(e) => ~SameReference(r, EntryOf(e))
      BY DEF Booked
    <2> QED BY <1>1, <2>1, <2>2, <2>3 DEF KeyedOK, SameReference
  <1>2. ASSUME ledger' \subseteq ledger PROVE KeyedOK'
    BY <1>2 DEF KeyedOK, SameReference
  <1>3. ASSUME NEW h \in Handler, EnsureSaleEntry(h) PROVE KeyedOK'
    BY <1>1, <1>3 DEF EnsureSaleEntry, JobOK, SaleLabel
  <1>4. ASSUME NEW h \in Handler, EnsureRefundEntry(h) PROVE KeyedOK'
    BY <1>1, <1>4 DEF EnsureRefundEntry, JobOK, RefundLabel, SaleKind
  <1>5. ASSUME NEW h \in Handler, Step(h), ~EnsureSaleEntry(h), ~EnsureRefundEntry(h)
        PROVE  ledger' = ledger
    BY <1>5 DEF Step, ResolveCustomer, FindTransaction, WriteTransaction, VerifyTransaction,
        RecordOutcome, IssueToken, SendFulfillmentEmail, PersistFulfillment, FindRefunded,
        VerifyRefund, RecordRefundOutcome, MarkRefunded, data
  <1>6. ASSUME NEW h \in Handler, (\E e \in Event : Receive(h, e)) \/ Fail(h) \/ FailPersist(h)
        PROVE  ledger' = ledger
    BY <1>6 DEF Receive, Fail, FailPersist, data
  <1>7. RepairIncome \/ UNCHANGED vars => ledger' \subseteq ledger
    BY DEF RepairIncome, vars
  <1> QED BY <1>2, <1>3, <1>4, <1>5, <1>6, <1>7 DEF Next

\* Two entries of one payment would have one reference.
LEMMA KeyedMeansOnce == OneNotice /\ KeyedOK => SaleBookedOnce
  <1> SUFFICES ASSUME OneNotice, KeyedOK, NEW p \in PI
               PROVE  Cardinality({r \in ledger : r.ref = "sale" /\ r.pi = p}) <= 1
    BY DEF SaleBookedOnce
  <1> DEFINE S == {r \in ledger : r.ref = "sale" /\ r.pi = p}
  <1>1. \A r, s \in S : r = s
    <2> SUFFICES ASSUME NEW r \in S, NEW s \in S PROVE r = s
      OBVIOUS
    <2>1. PICK e \in Event : e.kind \in SaleKind /\ e.owner # NoOwner /\ r = EntryOf(e)
      BY DEF KeyedOK
    <2>2. PICK f \in Event : f.kind \in SaleKind /\ f.owner # NoOwner /\ s = EntryOf(f)
      BY DEF KeyedOK
    <2>3. e.pi = f.pi
      BY <2>1, <2>2 DEF EntryOf
    <2>4. e.kind = f.kind
      BY <2>1, <2>2, <2>3 DEF OneNotice
    <2> QED BY <2>1, <2>2, <2>4 DEF KeyedOK, EntryOf, SameReference
  <1>2. S = {} \/ \E r : S = {r}
    BY <1>1
  <1> HIDE DEF S
  <1>3. Cardinality(S) = 0 \/ Cardinality(S) = 1
    BY <1>2, FS_EmptySet, FS_Singleton, Zenon
  <1>4. Cardinality(S) <= 1
    BY <1>3
  <1> QED BY <1>4 DEF S

\* For any concurrency and any number of crashes: a payment whose sale only one kind of event
\* announces is booked as income at most once.
THEOREM BookedOnce == OneNotice => (Spec => []SaleBookedOnce)
  <1> SUFFICES ASSUME OneNotice PROVE Spec => []SaleBookedOnce
    OBVIOUS
  <1>1. Init => KeyedOK
    BY DEF Init, KeyedOK
  <1>2. IInv /\ KeyedOK /\ [Next]_vars => KeyedOK'
    BY KeyedStep
  <1>3. KeyedOK => SaleBookedOnce
    BY KeyedMeansOnce
  <1> QED BY <1>1, <1>2, <1>3, Invariance, PTL DEF Spec

-----------------------------------------------------------------------------
(* What undoes a refund is a sale that read the row before the refund and writes it after;
   what serves a purchase twice is a fulfilment recorded behind the back of a request that
   has read the row.  Without these two, requests may overlap in every other way. *)

\* No refund is marked while a sale of its payment is between its read and its write.
RefundsApart ==
    \A g, h \in Handler : (pc[g] = "write" /\ MarkRefunded(h)) => job[g].pi # job[h].pi

\* The calls of a sale between its read and its answer
CopyLabel == {"write", "verify", "outcome", "ledger", "token", "mail", "completed", "pending"}

\* No fulfilment is recorded while another request acts on its copy of the row.
MarksApart ==
    \A g, h \in Handler :
        (g # h /\ pc[g] \in CopyLabel /\ PersistFulfillment(h)) => job[g].pi # job[h].pi

\* One request at a time, as in the run StripeSerial
Serial == \A g, h \in Handler : g = h

\* Then neither of the two can happen.
LEMMA SerialApart == Serial => RefundsApart /\ MarksApart
  BY DEF Serial, RefundsApart, MarksApart, MarkRefunded

\* A sale about to write knows whether its payment is refunded, and a refund about to be
\* booked is marked.
RefundOK ==
    \A g \in Handler :
        /\ pc[g] = "write" => (copy[g].status = "refunded" <=> tx[job[g].pi].status = "refunded")
        /\ pc[g] = "refundLedger" => tx[job[g].pi].status = "refunded"

\* What a request holds of the fulfilment is what the row says, and it serves only a
\* purchase that is not marked.
MarkOK ==
    \A g \in Handler :
        /\ pc[g] \in CopyLabel => copy[g].fulfilment = tx[job[g].pi].fulfilment
        /\ pc[g] \in BookedLabel => tx[job[g].pi].fulfilment # "completed"

\* The steps that write no row
LEMMA RowUntouched ==
    ASSUME [Next]_vars,
           \A h \in Handler : ~WriteTransaction(h) /\ ~PersistFulfillment(h) /\ ~MarkRefunded(h)
    PROVE  tx' = tx
  <1>1. ASSUME NEW h \in Handler, Step(h) PROVE tx' = tx
    BY <1>1 DEF Step, ResolveCustomer, FindTransaction, VerifyTransaction, RecordOutcome,
        EnsureSaleEntry, IssueToken, SendFulfillmentEmail, FindRefunded, VerifyRefund,
        RecordRefundOutcome, EnsureRefundEntry, data
  <1>2. ASSUME NEW h \in Handler, (\E e \in Event : Receive(h, e)) \/ Fail(h) \/ FailPersist(h)
        PROVE  tx' = tx
    BY <1>2 DEF Receive, Fail, FailPersist, data
  <1>3. RepairIncome \/ UNCHANGED vars => tx' = tx
    BY DEF RepairIncome, vars
  <1> QED BY <1>1, <1>2, <1>3 DEF Next

\* What a write leaves of the row: the fields it takes from the copy.
LEMMA WriteFields ==
    ASSUME IInv, NEW h \in Handler, WriteTransaction(h), NEW p \in PI
    PROVE  \/ tx'[p] = tx[p]
           \/ /\ p = job[h].pi /\ tx[p] = Absent
              /\ tx'[p].status = "succeeded" /\ tx'[p].fulfilment = "none"
           \/ /\ p = job[h].pi
              /\ tx'[p].status = NextState(copy[h].status)
              /\ tx'[p].fulfilment = copy[h].fulfilment
  <1> USE DEF IInv
  <1>1. job[h] \in Event /\ job[h].pi \in PI /\ tx[job[h].pi] \in TxRow
    BY EventFields DEF JobOK, WriteTransaction, SaleLabel, TypeOK
  <1>2. CASE tx' = tx
    BY <1>2
  <1>3. CASE copy[h] = Absent /\ ~Present(job[h].pi)
             /\ tx' = [tx EXCEPT ![job[h].pi] = NewRow(job[h])]
    <2>1. tx[job[h].pi] = Absent
      BY <1>1, <1>3 DEF TableOK
    <2>2. NewRow(job[h]).status = "succeeded" /\ NewRow(job[h]).fulfilment = "none"
      BY DEF NewRow
    <2> QED BY <1>1, <1>3, <2>1, <2>2 DEF TypeOK
  <1>4. CASE tx' = [tx EXCEPT ![job[h].pi] = UpdatedRow(job[h], copy[h])]
    <2>1. /\ UpdatedRow(job[h], copy[h]).status = NextState(copy[h].status)
          /\ UpdatedRow(job[h], copy[h]).fulfilment = copy[h].fulfilment
      BY <1>1 DEF UpdatedRow, TxRow
    <2> QED BY <1>1, <1>4, <2>1 DEF TypeOK
  <1> QED BY <1>2, <1>3, <1>4 DEF WriteTransaction

\* The other two writers each set one field.
LEMMA OtherWrites ==
    ASSUME IInv, NEW h \in Handler, NEW p \in PI
    PROVE  /\ MarkRefunded(h) =>
                /\ tx'[p].fulfilment = tx[p].fulfilment
                /\ tx'[p].status = IF p = job[h].pi THEN "refunded" ELSE tx[p].status
           /\ PersistFulfillment(h) =>
                /\ tx'[p].status = tx[p].status
                /\ p # job[h].pi => tx'[p].fulfilment = tx[p].fulfilment
  <1> USE DEF IInv
  <1>1. tx[p] \in TxRow
    BY DEF TypeOK
  <1>2. ASSUME MarkRefunded(h)
        PROVE  /\ tx'[p].fulfilment = tx[p].fulfilment
               /\ tx'[p].status = IF p = job[h].pi THEN "refunded" ELSE tx[p].status
    <2>1. tx' = [tx EXCEPT ![job[h].pi] = [tx[job[h].pi] EXCEPT !.status = "refunded"]]
      BY <1>2 DEF MarkRefunded
    <2>2. tx'[p] = IF p = job[h].pi THEN [tx[p] EXCEPT !.status = "refunded"] ELSE tx[p]
      BY <2>1 DEF TypeOK
    <2> QED BY <1>1, <2>2 DEF TxRow
  <1>3. ASSUME PersistFulfillment(h)
        PROVE  /\ tx'[p].status = tx[p].status
               /\ p # job[h].pi => tx'[p].fulfilment = tx[p].fulfilment
    <2>1. PICK mark \in {"completed", "pending_retry"} :
              tx' = [tx EXCEPT ![job[h].pi] = [tx[job[h].pi] EXCEPT !.fulfilment = mark]]
      BY <1>3 DEF PersistFulfillment
    <2>2. tx'[p] = IF p = job[h].pi THEN [tx[p] EXCEPT !.fulfilment = mark] ELSE tx[p]
      BY <2>1 DEF TypeOK
    <2> QED BY <1>1, <2>2 DEF TxRow
  <1> QED BY <1>2, <1>3

\* Nothing but the mark makes a payment refunded, and nothing takes that back.
LEMMA StatusStep ==
    ASSUME IInv, RefundOK, [Next]_vars, NEW p \in PI
    PROVE  /\ tx[p].status = "refunded" => tx'[p].status = "refunded"
           /\ tx'[p].status = "refunded" =>
                \/ tx[p].status = "refunded"
                \/ \E h \in Handler : MarkRefunded(h) /\ job[h].pi = p
  <1>1. ASSUME NEW h \in Handler, WriteTransaction(h)
        PROVE  tx'[p].status = "refunded" <=> tx[p].status = "refunded"
    <2>1. p = job[h].pi => (copy[h].status = "refunded" <=> tx[p].status = "refunded")
      BY <1>1 DEF RefundOK, WriteTransaction
    <2> QED BY <1>1, <2>1, WriteFields DEF NextState, Absent
  <1>2. ASSUME NEW h \in Handler, MarkRefunded(h) \/ PersistFulfillment(h)
        PROVE  /\ tx[p].status = "refunded" => tx'[p].status = "refunded"
               /\ tx'[p].status = "refunded" =>
                    tx[p].status = "refunded" \/ (MarkRefunded(h) /\ job[h].pi = p)
    BY <1>2, OtherWrites
  <1> QED BY <1>1, <1>2, RowUntouched

\* So what the requests know of refunds stays right.
LEMMA RefundOKStep ==
    ASSUME IInv, RefundOK, [Next]_vars, RefundsApart
    PROVE  RefundOK'
  <1> SUFFICES ASSUME NEW g \in Handler
               PROVE  /\ pc'[g] = "write" =>
                            (copy'[g].status = "refunded" <=> tx'[job'[g].pi].status = "refunded")
                      /\ pc'[g] = "refundLedger" => tx'[job'[g].pi].status = "refunded"
    BY DEF RefundOK
  <1> USE DEF IInv
  <1>1. CASE pc'[g] = pc[g] /\ job'[g] = job[g] /\ copy'[g] = copy[g]
    <2> SUFFICES ASSUME pc[g] \in {"write", "refundLedger"}
                 PROVE  /\ pc'[g] = "write" =>
                            (copy'[g].status = "refunded" <=> tx'[job'[g].pi].status = "refunded")
                        /\ pc'[g] = "refundLedger" => tx'[job'[g].pi].status = "refunded"
      BY <1>1
    <2>1. job[g].pi \in PI
      BY EventFields DEF JobOK, SaleLabel, RefundLabel
    <2>2. \A h \in Handler : pc[g] = "write" /\ MarkRefunded(h) => job[h].pi # job[g].pi
      BY DEF RefundsApart
    <2> QED BY <1>1, <2>1, <2>2, StatusStep DEF RefundOK
  <1>2. CASE FindTransaction(g)
    <2>1. \/ pc'[g] = "idle"
          \/ pc'[g] = "write" /\ copy'[g] = tx[job[g].pi] /\ job' = job /\ tx' = tx
      BY <1>2 DEF FindTransaction, Goto, Throw, Release, TypeOK, data
    <2> QED BY <2>1
  <1>3. CASE MarkRefunded(g)
    <2>1. job[g].pi \in PI
      BY <1>3, EventFields DEF JobOK, MarkRefunded, RefundLabel
    <2>2. pc'[g] = "refundLedger" /\ job' = job
      BY <1>3 DEF MarkRefunded, Goto, TypeOK
    <2> QED BY <1>3, <2>1, <2>2, OtherWrites
  <1>4. CASE \/ ResolveCustomer(g) \/ WriteTransaction(g) \/ VerifyTransaction(g)
             \/ RecordOutcome(g) \/ EnsureSaleEntry(g) \/ IssueToken(g)
             \/ SendFulfillmentEmail(g) \/ PersistFulfillment(g) \/ FindRefunded(g)
             \/ VerifyRefund(g) \/ RecordRefundOutcome(g) \/ EnsureRefundEntry(g)
             \/ (\E e \in Event : Receive(g, e)) \/ Fail(g) \/ FailPersist(g)
    <2>1. (\/ ResolveCustomer(g) \/ WriteTransaction(g) \/ VerifyTransaction(g)
           \/ RecordOutcome(g) \/ EnsureSaleEntry(g) \/ IssueToken(g) \/ SendFulfillmentEmail(g))
          => pc'[g] \notin {"write", "refundLedger"}
      BY DEF ResolveCustomer, WriteTransaction, VerifyTransaction, RecordOutcome,
          EnsureSaleEntry, IssueToken, SendFulfillmentEmail, Goto, Answer, Throw, Release, TypeOK
    <2>2. (\/ PersistFulfillment(g) \/ FindRefunded(g) \/ VerifyRefund(g)
           \/ RecordRefundOutcome(g) \/ EnsureRefundEntry(g))
          => pc'[g] \notin {"write", "refundLedger"}
      BY DEF PersistFulfillment, FindRefunded, VerifyRefund, RecordRefundOutcome,
          EnsureRefundEntry, Goto, Answer, Throw, Release, TypeOK
    <2>3. (\E e \in Event : Receive(g, e)) \/ Fail(g) \/ FailPersist(g)
          => pc'[g] \notin {"write", "refundLedger"}
      BY DEF Receive, Fail, FailPersist, Goto, Throw, Release, TypeOK
    <2> QED BY <1>4, <2>1, <2>2, <2>3
  <1> QED BY <1>1, <1>2, <1>3, <1>4, OwnStep DEF Step

\* Nothing but a fulfilment changes the mark.
LEMMA FulfilmentStep ==
    ASSUME IInv, MarkOK, [Next]_vars, NEW p \in PI
    PROVE  \/ tx'[p].fulfilment = tx[p].fulfilment
           \/ \E h \in Handler : PersistFulfillment(h) /\ job[h].pi = p
  <1>1. ASSUME NEW h \in Handler, WriteTransaction(h)
        PROVE  tx'[p].fulfilment = tx[p].fulfilment
    <2>1. p = job[h].pi => copy[h].fulfilment = tx[p].fulfilment
      BY <1>1 DEF MarkOK, CopyLabel, WriteTransaction
    <2> QED BY <1>1, <2>1, WriteFields DEF Absent
  <1>2. ASSUME NEW h \in Handler, MarkRefunded(h) \/ PersistFulfillment(h)
        PROVE  \/ tx'[p].fulfilment = tx[p].fulfilment
               \/ PersistFulfillment(h) /\ job[h].pi = p
    BY <1>2, OtherWrites
  <1> QED BY <1>1, <1>2, RowUntouched

\* So what the requests know of fulfilments stays right.
LEMMA MarkOKStep ==
    ASSUME IInv, MarkOK, [Next]_vars, MarksApart
    PROVE  MarkOK'
  <1> SUFFICES ASSUME NEW g \in Handler
               PROVE  /\ pc'[g] \in CopyLabel =>
                            copy'[g].fulfilment = tx'[job'[g].pi].fulfilment
                      /\ pc'[g] \in BookedLabel => tx'[job'[g].pi].fulfilment # "completed"
    BY DEF MarkOK
  <1> USE DEF IInv, CopyLabel, BookedLabel
  <1>1. CASE pc'[g] = pc[g] /\ job'[g] = job[g] /\ copy'[g] = copy[g]
    <2> SUFFICES ASSUME pc[g] \in CopyLabel
                 PROVE  tx'[job[g].pi].fulfilment = tx[job[g].pi].fulfilment
      BY <1>1 DEF MarkOK
    <2>1. job[g].pi \in PI
      BY EventFields DEF JobOK, SaleLabel
    <2>2. ~PersistFulfillment(g)
      BY <1>1 DEF PersistFulfillment, Answer, Release, TypeOK
    <2>3. \A h \in Handler : PersistFulfillment(h) => job[h].pi # job[g].pi
      BY <2>2 DEF MarksApart
    <2> QED BY <2>1, <2>3, FulfilmentStep
  <1>2. CASE FindTransaction(g)
    <2>1. \/ pc'[g] = "idle"
          \/ pc'[g] = "write" /\ copy'[g] = tx[job[g].pi] /\ job' = job /\ tx' = tx
      BY <1>2 DEF FindTransaction, Goto, Throw, Release, TypeOK, data
    <2> QED BY <2>1
  <1>3. CASE WriteTransaction(g)
    <2> DEFINE row == IF copy[g] = Absent THEN NewRow(job[g]) ELSE UpdatedRow(job[g], copy[g])
               next == IF job[g].venture # NoVenture /\ row.status = "succeeded"
                       THEN "verify" ELSE "ledger"
    <2>1. job[g] \in Event /\ job[g].pi \in PI
      BY <1>3, EventFields DEF JobOK, WriteTransaction, SaleLabel
    <2>2. CASE Throw(g)
      BY <2>2 DEF Throw, Release, TypeOK
    <2>3. CASE /\ tx' = [tx EXCEPT ![job[g].pi] = row] /\ copy' = [copy EXCEPT ![g] = row]
               /\ Goto(g, next) /\ UNCHANGED <<job, answered>>
      <3>1. pc'[g] = next /\ job' = job
        BY <2>3 DEF Goto, TypeOK
      <3>2. copy'[g] = row /\ tx'[job[g].pi] = row
        BY <2>1, <2>3 DEF TypeOK
      <3>3. pc'[g] \in {"verify", "ledger"}
        BY <3>1
      <3> HIDE DEF row, next
      <3> QED BY <3>1, <3>2, <3>3
    <2> QED BY <1>3, <2>2, <2>3 DEF WriteTransaction
  <1>4. CASE EnsureSaleEntry(g)
    <2>1. copy[g].fulfilment = tx[job[g].pi].fulfilment /\ tx' = tx
      BY <1>4 DEF EnsureSaleEntry, MarkOK
    <2>2. CASE Answer(g, "processed")
      BY <2>2 DEF Answer, Release, TypeOK
    <2>3. CASE Goto(g, "token") /\ UNCHANGED <<job, copy, answered>> /\ Fulfillable(job[g], copy[g])
      BY <2>1, <2>3 DEF Goto, TypeOK, Fulfillable
    <2> QED BY <1>4, <2>2, <2>3 DEF EnsureSaleEntry
  <1>5. CASE \/ VerifyTransaction(g) \/ RecordOutcome(g) \/ IssueToken(g)
             \/ SendFulfillmentEmail(g) \/ FailPersist(g)
    <2>1. tx' = tx
      BY <1>5 DEF VerifyTransaction, RecordOutcome, IssueToken, SendFulfillmentEmail,
          FailPersist, data
    <2>2. \/ pc'[g] = "idle"
          \/ /\ job'[g] = job[g] /\ copy'[g] = copy[g] /\ pc[g] \in CopyLabel
             /\ (pc'[g] \in BookedLabel => pc[g] \in BookedLabel)
      BY <1>5 DEF VerifyTransaction, RecordOutcome, IssueToken, SendFulfillmentEmail,
          FailPersist, Goto, Throw, Release, TypeOK
    <2> QED BY <2>1, <2>2 DEF MarkOK
  <1>6. CASE \/ ResolveCustomer(g) \/ PersistFulfillment(g) \/ FindRefunded(g)
             \/ VerifyRefund(g) \/ RecordRefundOutcome(g) \/ MarkRefunded(g)
             \/ EnsureRefundEntry(g) \/ (\E e \in Event : Receive(g, e)) \/ Fail(g)
    <2>1. pc'[g] \notin CopyLabel
      BY <1>6 DEF ResolveCustomer, PersistFulfillment, FindRefunded, VerifyRefund,
          RecordRefundOutcome, MarkRefunded, EnsureRefundEntry, Receive, Fail, Goto, Answer,
          Throw, Release, TypeOK
    <2> QED BY <2>1
  <1> QED BY <1>1, <1>2, <1>3, <1>4, <1>5, <1>6, OwnStep DEF Step

\* What is marked fulfilled stays so, and a token or a mail is for what is not.
LEMMA ServedStep ==
    ASSUME IInv, MarkOK, [Next]_vars, NEW p \in PI, tx[p].fulfilment = "completed"
    PROVE  /\ tx'[p].fulfilment = "completed"
           /\ tokens'[p] = tokens[p] /\ mails'[p] = mails[p]
  <1> USE DEF IInv
  <1>1. \A h \in Handler : pc[h] \in BookedLabel => job[h].pi # p
    BY DEF MarkOK
  <1>2. tx'[p].fulfilment = "completed"
    BY <1>1, FulfilmentStep DEF PersistFulfillment, BookedLabel
  <1>3. ASSUME NEW h \in Handler, IssueToken(h) \/ SendFulfillmentEmail(h)
        PROVE  tokens'[p] = tokens[p] /\ mails'[p] = mails[p]
    <2>1. p # job[h].pi
      BY <1>1, <1>3 DEF BookedLabel, IssueToken, SendFulfillmentEmail
    <2> QED BY <1>3, <2>1 DEF IssueToken, SendFulfillmentEmail, TypeOK
  <1>4. ASSUME NEW h \in Handler, Step(h), ~IssueToken(h), ~SendFulfillmentEmail(h)
        PROVE  tokens' = tokens /\ mails' = mails
    BY <1>4 DEF Step, ResolveCustomer, FindTransaction, WriteTransaction, VerifyTransaction,
        RecordOutcome, EnsureSaleEntry, PersistFulfillment, FindRefunded, VerifyRefund,
        RecordRefundOutcome, MarkRefunded, EnsureRefundEntry, data
  <1>5. ASSUME NEW h \in Handler, (\E e \in Event : Receive(h, e)) \/ Fail(h) \/ FailPersist(h)
        PROVE  tokens' = tokens /\ mails' = mails
    BY <1>5 DEF Receive, Fail, FailPersist, data
  <1>6. RepairIncome \/ UNCHANGED vars => tokens' = tokens /\ mails' = mails
    BY DEF RepairIncome, vars
  <1> QED BY <1>2, <1>3, <1>4, <1>5, <1>6 DEF Next

\* A negative entry is derived when the payment is refunded already.
LEMMA RefundEntryStep ==
    ASSUME IInv, RefundOK, RefundEntryMeansRefunded, [Next]_vars
    PROVE  RefundEntryMeansRefunded'
  <1> USE DEF IInv
  <1> SUFFICES ASSUME NEW r \in ledger', r.ref = "refund"
               PROVE  tx'[r.pi].status = "refunded"
    BY DEF RefundEntryMeansRefunded
  <1>1. r \in ledger \/ \E h \in Handler :
            (EnsureSaleEntry(h) \/ EnsureRefundEntry(h)) /\ r = EntryOf(job[h])
    BY DEF Next, Step, Receive, ResolveCustomer, FindTransaction, WriteTransaction,
        VerifyTransaction, RecordOutcome, EnsureSaleEntry, IssueToken, SendFulfillmentEmail,
        PersistFulfillment, FindRefunded, VerifyRefund, RecordRefundOutcome, MarkRefunded,
        EnsureRefundEntry, Fail, FailPersist, RepairIncome, WithEntry, data, vars
  <1>2. CASE r \in ledger
    <2>1. r.pi \in PI
      BY <1>2, EventFields DEF TypeOK, LedgerRow, EntryOf
    <2>2. tx[r.pi].status = "refunded"
      BY <1>2 DEF RefundEntryMeansRefunded
    <2> QED BY <2>1, <2>2, StatusStep
  <1>3. ASSUME NEW h \in Handler, EnsureRefundEntry(h), r = EntryOf(job[h])
        PROVE  tx'[r.pi].status = "refunded"
    BY <1>3 DEF EnsureRefundEntry, EntryOf, RefundOK
  <1>4. ASSUME NEW h \in Handler, EnsureSaleEntry(h), r = EntryOf(job[h])
        PROVE  FALSE
    BY <1>4 DEF EnsureSaleEntry, EntryOf, JobOK, SaleLabel, SaleKind
  <1> QED BY <1>1, <1>2, <1>3, <1>4

\* The invariant of behaviours whose refunds keep out of that window
LEMMA RefundInvariance == Spec /\ [][RefundsApart]_vars => [](IInv /\ RefundOK)
  <1>1. Init => RefundOK
    BY DEF Init, RefundOK
  <1>2. IInv /\ RefundOK /\ [Next]_vars /\ [RefundsApart]_vars => RefundOK'
    <2>1. UNCHANGED vars /\ RefundOK => RefundOK'
      BY DEF RefundOK, vars
    <2> QED BY <2>1, RefundOKStep
  <1> QED BY <1>1, <1>2, Invariance, PTL DEF Spec

\* The only thing that undoes a refund is a mark between a sale's read and its write: without
\* it, for any events, deaths, redeliveries and overlaps, no success event does.
THEOREM RefundFinalOutsideWindow == Spec /\ [][RefundsApart]_vars => RefundIsFinal
  <1>1. IInv /\ RefundOK /\ [Next]_vars
            => [\A p \in PI : tx[p].status = "refunded" => tx'[p].status = "refunded"]_vars
    BY StatusStep
  <1> QED BY <1>1, RefundInvariance, PTL DEF Spec, RefundIsFinal

\* Nor is there then a negative entry of a payment that is not refunded.
THEOREM RefundEntriesBacked == Spec /\ [][RefundsApart]_vars => []RefundEntryMeansRefunded
  <1>1. Init => RefundEntryMeansRefunded
    BY DEF Init, RefundEntryMeansRefunded
  <1>2. IInv /\ RefundOK /\ RefundEntryMeansRefunded /\ [Next]_vars => RefundEntryMeansRefunded'
    BY RefundEntryStep
  <1> QED BY <1>1, <1>2, RefundInvariance, PTL DEF Spec

\* If no fulfilment is recorded behind the back of another request of its payment, whatever
\* else overlaps: what is marked fulfilled stays so, and nothing more is issued or mailed.
THEOREM FulfilledOnceOutsideWindow == Spec /\ [][MarksApart]_vars => FulfilledOnce
  <1>1. Init => MarkOK
    BY DEF Init, MarkOK, CopyLabel, BookedLabel
  <1>2. IInv /\ MarkOK /\ [Next]_vars /\ [MarksApart]_vars => MarkOK'
    <2>1. UNCHANGED vars /\ MarkOK => MarkOK'
      BY DEF MarkOK, vars
    <2> QED BY <2>1, MarkOKStep
  <1>3. IInv /\ MarkOK /\ [Next]_vars
            => [\A p \in PI : tx[p].fulfilment = "completed" =>
                    /\ tx'[p].fulfilment = "completed"
                    /\ tokens'[p] = tokens[p] /\ mails'[p] = mails[p]]_vars
    BY ServedStep
  <1> QED BY <1>1, <1>2, <1>3, Invariance, PTL DEF Spec, FulfilledOnce

\* In particular, when requests do not overlap at all, the three of them hold.
THEOREM SerialRefundsAndFulfilments ==
    Serial => (Spec => RefundIsFinal /\ FulfilledOnce /\ []RefundEntryMeansRefunded)
  <1> SUFFICES ASSUME Serial
               PROVE  Spec => RefundIsFinal /\ FulfilledOnce /\ []RefundEntryMeansRefunded
    OBVIOUS
  <1>1. [Next]_vars => [RefundsApart]_vars /\ [MarksApart]_vars
    BY SerialApart
  <1>2. Spec => [][RefundsApart]_vars /\ [][MarksApart]_vars
    BY <1>1, PTL DEF Spec
  <1> QED BY <1>2, RefundFinalOutsideWindow, RefundEntriesBacked, FulfilledOnceOutsideWindow, PTL

=============================================================================
