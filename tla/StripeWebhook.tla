---------------------------- MODULE StripeWebhook ----------------------------
(***************************************************************************)
(* The Stripe webhook (src/app/api/webhooks/stripe/route.ts) and what it   *)
(* calls to derive business truth from a payment: the Transaction row, the *)
(* income ledger, the verified business outcomes and the fulfilment of the *)
(* purchase.                                                               *)
(*                                                                         *)
(* One request handler is a sequence of independent database calls, so     *)
(* every call is an action of its own and handlers interleave between      *)
(* them.  Stripe delivers at least once, in no order, and delivers again   *)
(* what was not answered with a 2xx; a request may throw (answered 500) or *)
(* die between any two calls.                                              *)
(***************************************************************************)
EXTENDS Naturals, FiniteSets

CONSTANTS
    Event,        \* the events Stripe has to deliver (records, see below)
    PI,           \* payment intents: Transaction.providerTxId
    Owner,        \* users of the application
    Venture,      \* canonical venture ids
    Email,        \* customers' addresses
    NoOwner, NoVenture, NoEmail, NoEvent,
    Handler,      \* requests that can be in progress at the same time
    InOrder,      \* does a refund arrive only after a sale of the payment was answered?
    MaxFailures,  \* bound: how many requests die or meet a database error
    MaxRepairs,   \* bound: how often the integrity tool runs in fix mode
    Cap           \* bound: tokens and mails are counted up to Cap

Kind == {"checkout", "intent", "refund"}
SaleKind == {"checkout", "intent"}
Event_ == [kind : Kind, pi : PI, owner : Owner \cup {NoOwner},
           venture : Venture \cup {NoVenture}, email : Email \cup {NoEmail},
           product : BOOLEAN, paid : BOOLEAN, amount : Nat \ {0}]

ASSUME EventAssumption == Event \subseteq Event_ /\ NoEvent \notin Event
ASSUME BoundAssumption == MaxFailures \in Nat /\ MaxRepairs \in Nat /\ Cap \in Nat \ {0}
ASSUME InOrderAssumption == InOrder \in BOOLEAN
ASSUME NoneAssumption == NoOwner \notin Owner /\ NoVenture \notin Venture /\ NoEmail \notin Email

VARIABLES
    tx,         \* Transaction table, by providerTxId
    ledger,     \* IncomeEntry rows derived from Stripe events
    outcomes,   \* verified business outcomes (Memory rows, by key)
    customers,  \* Customer rows, by owner and address
    tokens,     \* download tokens issued, by payment intent
    mails,      \* fulfilment mails a provider accepted, by payment intent
    pc, job, copy,  \* of each handler: its next call, its event, its copy of the row
    answered,   \* what Stripe knows of each event
    failures, repairs

data == <<tx, ledger, outcomes, customers, tokens, mails>>
vars == <<tx, ledger, outcomes, customers, tokens, mails,
          pc, job, copy, answered, failures, repairs>>

TxRow == [status : {"absent", "succeeded", "refunded"}, owner : Owner \cup {NoOwner},
          amount : Nat, venture : Venture \cup {NoVenture},
          customer : Email \cup {NoEmail},
          fulfilment : {"none", "pending_retry", "completed"}]
Absent == [status |-> "absent", owner |-> NoOwner, amount |-> 0, venture |-> NoVenture,
           customer |-> NoEmail, fulfilment |-> "none"]

Label == {"idle", "customer", "find", "write", "verify", "outcome", "ledger", "token",
          "mail", "completed", "pending",
          "findRefunded", "verifyRefund", "refundOutcome", "markRefunded", "refundLedger"}

\* The income entry an event stands for: stripeIncomeReference is its source (ref and pi),
\* and the notes differ by the kind of event.  A refund's amount is stored negated.  nth
\* numbers the rows of one reference: the code creates only the first.
EntryOf(e) == [ref |-> IF e.kind = "refund" THEN "refund" ELSE "sale",
               pi |-> e.pi, notes |-> e.kind, amount |-> e.amount, nth |-> 1]
LedgerRow == {EntryOf(e) : e \in Event}
Outcome == [type : {"TRANSACTION", "REFUND"}, pi : PI, amount : Nat]

TypeOK ==
    /\ tx \in [PI -> TxRow]
    /\ ledger \subseteq LedgerRow
    /\ outcomes \subseteq Outcome
    /\ customers \subseteq Owner \X Email
    /\ tokens \in [PI -> 0 .. Cap]
    /\ mails \in [PI -> 0 .. Cap]
    /\ pc \in [Handler -> Label]
    /\ job \in [Handler -> Event \cup {NoEvent}]
    /\ copy \in [Handler -> TxRow]
    /\ answered \in [Event -> {"no", "skipped", "processed"}]
    /\ failures \in 0 .. MaxFailures
    /\ repairs \in 0 .. MaxRepairs

Init ==
    /\ tx = [p \in PI |-> Absent]
    /\ ledger = {}
    /\ outcomes = {}
    /\ customers = {}
    /\ tokens = [p \in PI |-> 0]
    /\ mails = [p \in PI |-> 0]
    /\ pc = [h \in Handler |-> "idle"]
    /\ job = [h \in Handler |-> NoEvent]
    /\ copy = [h \in Handler |-> Absent]
    /\ answered = [e \in Event |-> "no"]
    /\ failures = 0
    /\ repairs = 0

-----------------------------------------------------------------------------
(* Helpers *)

Present(p) == tx[p].status # "absent"
Bump(n) == IF n < Cap THEN n + 1 ELSE n

Goto(h, label) == pc' = [pc EXCEPT ![h] = label]

\* The request is over and its memory is gone.
Release(h) ==
    /\ pc' = [pc EXCEPT ![h] = "idle"]
    /\ job' = [job EXCEPT ![h] = NoEvent]
    /\ copy' = [copy EXCEPT ![h] = Absent]

\* return NextResponse.json(...) with a 2xx
Answer(h, how) == Release(h) /\ answered' = [answered EXCEPT ![job[h]] = how]

\* mutant: an error is acknowledged
ThrowAcknowledged(h) == Answer(h, "skipped")

\* The catch of POST: answered 500, so Stripe will deliver the event again.
Throw(h) == Release(h) /\ UNCHANGED answered

\* mutant: the incoming status wins
NextStateIncoming(existing) == "succeeded"

\* nextStripeTransactionState for an incoming 'succeeded'
NextState(existing) == IF existing = "refunded" THEN "refunded" ELSE "succeeded"

\* ensureIncomeEntry: find by source and notes, else create, under one lock.
SameReference(r, s) == r.ref = s.ref /\ r.pi = s.pi /\ r.notes = s.notes
Booked(e) == \E r \in ledger : SameReference(r, EntryOf(e))
\* mutant: create without looking first
WithEntryUnchecked(e) ==
    ledger \cup {[EntryOf(e) EXCEPT
                    !.nth = 1 + Cardinality({r \in ledger : SameReference(r, EntryOf(e))})]}

WithEntry(e) == IF Booked(e) THEN ledger ELSE ledger \cup {EntryOf(e)}

\* assertRealSucceededTransaction for a venture, on the row as it is now
Verified(p, venture) ==
    /\ tx[p].venture = venture
    /\ tx[p].customer # NoEmail => <<tx[p].owner, tx[p].customer>> \in customers
    /\ tx[p].status = "succeeded"

\* mutant: the fulfilment mark is not looked at
FulfillableAgain(e, row) ==
    e.kind = "checkout" /\ row.status = "succeeded" /\ e.email # NoEmail /\ e.product

\* The condition of route.ts under which a checkout is fulfilled
Fulfillable(e, row) ==
    /\ e.kind = "checkout"
    /\ row.status = "succeeded"
    /\ e.email # NoEmail
    /\ e.product
    /\ row.fulfilment # "completed"

-----------------------------------------------------------------------------
(* A sale: checkout.session.completed or payment_intent.succeeded *)

\* mutant: an intent without an owner goes on
IgnoredUnpaidOnly(e) == e.kind = "checkout" /\ ~e.paid

\* Events the handler answers with a 2xx without looking at the database
Ignored(e) ==
    \/ e.kind = "checkout" /\ ~e.paid
    \/ e.kind = "intent" /\ e.owner = NoOwner

\* With InOrder, the network keeps the order of a sale and its refund.
Arrivable(e) ==
    (InOrder /\ e.kind = "refund")
        => \E s \in Event : s.pi = e.pi /\ s.kind # "refund" /\ answered[s] = "processed"

\* A delivery.  A paid checkout without an owner is answered 422: nothing changes.
Receive(h, e) ==
    /\ pc[h] = "idle"
    /\ Arrivable(e)
    /\ IF Ignored(e)
       THEN /\ answered' = [answered EXCEPT ![e] = "skipped"]
            /\ UNCHANGED <<pc, job>>
       ELSE /\ e.kind = "checkout" => e.owner # NoOwner
            /\ job' = [job EXCEPT ![h] = e]
            /\ Goto(h, IF e.kind = "refund" THEN "findRefunded" ELSE "customer")
            /\ UNCHANGED answered
    /\ UNCHANGED <<data, copy, failures, repairs>>

\* resolveStripeCustomer: one Customer row per owner and address
ResolveCustomer(h) ==
    /\ pc[h] = "customer"
    /\ customers' = IF job[h].email = NoEmail THEN customers
                    ELSE customers \cup {<<job[h].owner, job[h].email>>}
    /\ Goto(h, "find")
    /\ UNCHANGED <<tx, ledger, outcomes, tokens, mails, job, copy, answered, failures, repairs>>

\* mutant: a known payment is answered at once as a duplicate
FindTransactionOnce(h) ==
    LET e == job[h]
    IN  /\ pc[h] = "find"
        /\ IF Present(e.pi)
           THEN Answer(h, "processed")
           ELSE Goto(h, "write") /\ UNCHANGED <<job, copy, answered>>
        /\ UNCHANGED <<data, failures, repairs>>

\* findUnique and assertStripeReplayCompatible.  The caller passes the row's own
\* customer and venture back to the assertion, so only owner and amount can differ.
FindTransaction(h) ==
    LET e == job[h]
        Compatible == tx[e.pi].owner = e.owner /\ tx[e.pi].amount = e.amount
    IN  /\ pc[h] = "find"
        /\ IF Present(e.pi) /\ ~Compatible
           THEN Throw(h)
           ELSE /\ copy' = [copy EXCEPT ![h] = tx[e.pi]]
                /\ Goto(h, "write")
                /\ UNCHANGED <<job, answered>>
        /\ UNCHANGED <<data, failures, repairs>>

\* The row a handler that found nothing creates
NewRow(e) == [status |-> "succeeded", owner |-> e.owner, amount |-> e.amount,
              venture |-> e.venture, customer |-> e.email, fulfilment |-> "none"]

\* mutant: the event's venture and customer always win
UpdatedRowOverwrites(e, seen) ==
    [tx[e.pi] EXCEPT !.status = NextState(seen.status), !.fulfilment = seen.fulfilment,
                     !.customer = e.email, !.venture = e.venture]

\* mutant: the whole row is saved as it was seen, with the event's venture filled in
UpdatedRowAsSeen(e, seen) ==
    [seen EXCEPT !.status = NextState(@), !.venture = IF @ = NoVenture THEN e.venture ELSE @]

\* The row after the update of a handler that found `seen` earlier: the status and the
\* payload (with its fulfilment mark) come from `seen`, not from the row as it is now.
UpdatedRow(e, seen) ==
    [tx[e.pi] EXCEPT
        !.status = NextState(seen.status),
        !.fulfilment = seen.fulfilment,
        !.customer = IF seen.customer # NoEmail \/ e.email = NoEmail THEN @ ELSE e.email,
        !.venture = IF seen.venture # NoVenture \/ e.venture = NoVenture THEN @ ELSE e.venture]

\* create (refused by the unique key when another handler was first) or update
WriteTransaction(h) ==
    LET e == job[h]
        seen == copy[h]
        row == IF seen = Absent THEN NewRow(e) ELSE UpdatedRow(e, seen)
    IN  /\ pc[h] = "write"
        /\ IF seen = Absent /\ Present(e.pi)
           THEN Throw(h) /\ UNCHANGED tx
           ELSE /\ tx' = [tx EXCEPT ![e.pi] = row]
                /\ copy' = [copy EXCEPT ![h] = row]
                /\ Goto(h, IF e.venture # NoVenture /\ row.status = "succeeded"
                           THEN "verify" ELSE "ledger")
                /\ UNCHANGED <<job, answered>>
        /\ UNCHANGED <<ledger, outcomes, customers, tokens, mails, failures, repairs>>

\* recordVerifiedTransactionOutcome reads the row again before it trusts it
VerifyTransaction(h) ==
    LET e == job[h]
    IN  /\ pc[h] = "verify"
        /\ IF Verified(e.pi, e.venture) /\ tx[e.pi].amount = e.amount
           THEN Goto(h, "outcome") /\ UNCHANGED <<job, copy, answered>>
           ELSE Throw(h)
        /\ UNCHANGED <<data, failures, repairs>>

\* the upsert of the TRANSACTION outcome
RecordOutcome(h) ==
    /\ pc[h] = "outcome"
    /\ outcomes' = outcomes \cup
            {[type |-> "TRANSACTION", pi |-> job[h].pi, amount |-> job[h].amount]}
    /\ Goto(h, "ledger")
    /\ UNCHANGED <<tx, ledger, customers, tokens, mails, job, copy, answered, failures, repairs>>

\* ensureIncomeEntry for the sale; then a checkout goes on to its fulfilment
EnsureSaleEntry(h) ==
    LET e == job[h]
    IN  /\ pc[h] = "ledger"
        /\ ledger' = WithEntry(e)
        /\ IF Fulfillable(e, copy[h])
           THEN Goto(h, "token") /\ UNCHANGED <<job, copy, answered>>
           ELSE Answer(h, "processed")
        /\ UNCHANGED <<tx, outcomes, customers, tokens, mails, failures, repairs>>

\* generateDownloadUrl: a new random token on every call.  It throws for a product that is
\* not in the catalogue, without storage in production, or when the upsert fails.
IssueToken(h) ==
    LET p == job[h].pi
    IN  /\ pc[h] = "token"
        /\ \/ tokens' = [tokens EXCEPT ![p] = Bump(@)] /\ Goto(h, "mail")
           \/ UNCHANGED tokens /\ Goto(h, "pending")
        /\ UNCHANGED <<tx, ledger, outcomes, customers, mails, job, copy, answered, failures, repairs>>

\* sendEmail reports a failure in its result and never throws; sendFulfillmentEmail drops
\* the result, so emailSent is true either way.
SendFulfillmentEmail(h) ==
    LET p == job[h].pi
    IN  /\ pc[h] = "mail"
        /\ \E accepted \in BOOLEAN :
              mails' = [mails EXCEPT ![p] = IF accepted THEN Bump(@) ELSE @]
        /\ Goto(h, "completed")
        /\ UNCHANGED <<tx, ledger, outcomes, customers, tokens, job, copy, answered, failures, repairs>>

\* persistFulfillmentState; the answer is a 2xx whatever became of the fulfilment
PersistFulfillment(h) ==
    LET mark == IF pc[h] = "completed" THEN "completed" ELSE "pending_retry"
    IN  /\ pc[h] \in {"completed", "pending"}
        /\ tx' = [tx EXCEPT ![job[h].pi].fulfilment = mark]
        /\ Answer(h, "processed")
        /\ UNCHANGED <<ledger, outcomes, customers, tokens, mails, failures, repairs>>

-----------------------------------------------------------------------------
(* charge.refunded *)

\* mutant: a payment already refunded is answered at once as a duplicate
FindRefundedOnce(h) ==
    LET p == job[h].pi
    IN  /\ pc[h] = "findRefunded"
        /\ IF Present(p) /\ tx[p].status # "refunded"
           THEN /\ copy' = [copy EXCEPT ![h] = tx[p]]
                /\ Goto(h, IF tx[p].venture # NoVenture THEN "verifyRefund" ELSE "markRefunded")
                /\ UNCHANGED <<job, answered>>
           ELSE Answer(h, IF Present(p) THEN "processed" ELSE "skipped")
        /\ UNCHANGED <<data, failures, repairs>>

\* findUnique: an unknown payment is answered as skipped
FindRefunded(h) ==
    LET p == job[h].pi
    IN  /\ pc[h] = "findRefunded"
        /\ IF Present(p)
           THEN /\ copy' = [copy EXCEPT ![h] = tx[p]]
                /\ Goto(h, IF tx[p].venture # NoVenture THEN "verifyRefund" ELSE "markRefunded")
                /\ UNCHANGED <<job, answered>>
           ELSE Answer(h, "skipped")
        /\ UNCHANGED <<data, failures, repairs>>

\* recordVerifiedRefundOutcome insists on a transaction that is still 'succeeded'
VerifyRefund(h) ==
    LET e == job[h]
    IN  /\ pc[h] = "verifyRefund"
        /\ IF Verified(e.pi, copy[h].venture) /\ e.amount <= tx[e.pi].amount
           THEN Goto(h, "refundOutcome") /\ UNCHANGED <<job, copy, answered>>
           ELSE Throw(h)
        /\ UNCHANGED <<data, failures, repairs>>

\* mutant: the entry is written before the status
RecordRefundOutcomeUnmarked(h) ==
    /\ pc[h] = "refundOutcome"
    /\ outcomes' = outcomes \cup
            {[type |-> "REFUND", pi |-> job[h].pi, amount |-> job[h].amount]}
    /\ Goto(h, "refundLedger")
    /\ UNCHANGED <<tx, ledger, customers, tokens, mails, job, copy, answered, failures, repairs>>

\* the upsert of the REFUND outcome
RecordRefundOutcome(h) ==
    /\ pc[h] = "refundOutcome"
    /\ outcomes' = outcomes \cup
            {[type |-> "REFUND", pi |-> job[h].pi, amount |-> job[h].amount]}
    /\ Goto(h, "markRefunded")
    /\ UNCHANGED <<tx, ledger, customers, tokens, mails, job, copy, answered, failures, repairs>>

MarkRefunded(h) ==
    /\ pc[h] = "markRefunded"
    /\ tx' = [tx EXCEPT ![job[h].pi].status = "refunded"]
    /\ Goto(h, "refundLedger")
    /\ UNCHANGED <<ledger, outcomes, customers, tokens, mails, job, copy, answered, failures, repairs>>

\* ensureIncomeEntry with the negative amount; its notes name the payment intent only
EnsureRefundEntry(h) ==
    /\ pc[h] = "refundLedger"
    /\ ledger' = WithEntry(job[h])
    /\ Answer(h, "processed")
    /\ UNCHANGED <<tx, outcomes, customers, tokens, mails, failures, repairs>>

-----------------------------------------------------------------------------
(* The environment *)

\* The process dies or a database call fails: no 2xx, and nothing is undone.
Fail(h) ==
    /\ pc[h] # "idle"
    /\ failures < MaxFailures
    /\ failures' = failures + 1
    /\ Throw(h)
    /\ UNCHANGED <<data, repairs>>

\* The write of 'completed' fails inside the try: the catch records 'pending_retry'.
FailPersist(h) ==
    /\ pc[h] = "completed"
    /\ failures < MaxFailures
    /\ failures' = failures + 1
    /\ Goto(h, "pending")
    /\ UNCHANGED <<data, job, copy, answered, repairs>>

\* The database integrity tool in fix mode deletes every entry whose amount is not positive.
RepairIncome ==
    /\ repairs < MaxRepairs
    /\ repairs' = repairs + 1
    /\ ledger' = {r \in ledger : r.ref # "refund"}
    /\ UNCHANGED <<tx, outcomes, customers, tokens, mails, pc, job, copy, answered, failures>>

Step(h) ==
    \/ ResolveCustomer(h) \/ FindTransaction(h) \/ WriteTransaction(h)
    \/ VerifyTransaction(h) \/ RecordOutcome(h) \/ EnsureSaleEntry(h)
    \/ IssueToken(h) \/ SendFulfillmentEmail(h) \/ PersistFulfillment(h)
    \/ FindRefunded(h) \/ VerifyRefund(h) \/ RecordRefundOutcome(h)
    \/ MarkRefunded(h) \/ EnsureRefundEntry(h)

Next ==
    \/ \E h \in Handler : \/ \E e \in Event : Receive(h, e)
                          \/ Step(h)
                          \/ Fail(h)
                          \/ FailPersist(h)
    \/ RepairIncome

Spec == Init /\ [][Next]_vars

\* A request that does not die goes on, and Stripe keeps delivering what was not answered.
Redeliver(e) == answered[e] = "no" /\ \E h \in Handler : Receive(h, e)
Fairness ==
    /\ \A h \in Handler : WF_vars(Step(h))
    /\ \A e \in Event : SF_vars(Redeliver(e))
FairSpec == Spec /\ Fairness

-----------------------------------------------------------------------------
(* Safety *)

\* A sale event that got its 2xx, and so will never be sent again, is booked: its
\* Transaction exists and so does the income entry of its own kind (route.ts 83-119,
\* 138-158).  A crash, a lost race or a rejected replay must leave it unanswered.
AnsweredSaleIsBooked ==
    \A e \in Event : (answered[e] = "processed" /\ e.kind \in SaleKind)
        => Present(e.pi) /\ Booked(e)

\* The same for a refund: answered as processed, it has its negative entry (route.ts
\* 161-171), as long as nothing outside the webhook deletes entries.
AnsweredRefundIsBooked ==
    \A e \in Event : (answered[e] = "processed" /\ e.kind = "refund") => Booked(e)

\* Business evidence stands on a Transaction of a venture, never on more money than it
\* moved, and the customer it names exists under the same owner
\* (assertRealSucceededTransaction, recordVerifiedRefundOutcome).
EvidenceIsScoped ==
    \A o \in outcomes :
        /\ tx[o.pi].venture # NoVenture
        /\ o.amount <= tx[o.pi].amount
        /\ tx[o.pi].customer # NoEmail => <<tx[o.pi].owner, tx[o.pi].customer>> \in customers

\* The ledger and the payment agree on a refund: a negative entry belongs to a
\* Transaction whose status says refunded.
RefundEntryMeansRefunded ==
    \A r \in ledger : r.ref = "refund" => tx[r.pi].status = "refunded"

\* One payment is booked as income once, however often and by whichever event Stripe
\* reports it.
SaleBookedOnce ==
    \A p \in PI : Cardinality({r \in ledger : r.ref = "sale" /\ r.pi = p}) <= 1

\* What a Transaction says of the payment never drifts: owner and amount are fixed, a
\* venture or a customer is filled in once and then kept, and no row disappears.
TransactionIdentityStable ==
    [][\A p \in PI : Present(p) =>
        /\ tx'[p].status # "absent"
        /\ tx'[p].owner = tx[p].owner /\ tx'[p].amount = tx[p].amount
        /\ tx[p].venture # NoVenture => tx'[p].venture = tx[p].venture
        /\ tx[p].customer # NoEmail => tx'[p].customer = tx[p].customer]_vars

\* A late or replayed success never undoes a refund (stripe-webhook-integrity.ts 38-41).
RefundIsFinal ==
    [][\A p \in PI : tx[p].status = "refunded" => tx'[p].status = "refunded"]_vars

\* A purchase marked fulfilled stays so, and no further download token is issued and no
\* further mail sent for it (route.ts 107, revenue-integrity.ts 15-18).
FulfilledOnce ==
    [][\A p \in PI : tx[p].fulfilment = "completed" =>
        /\ tx'[p].fulfilment = "completed"
        /\ tokens'[p] = tokens[p] /\ mails'[p] = mails[p]]_vars

(* Liveness, under FairSpec *)

\* Every paid sale event that names its owner is booked in the end.
SaleEventuallyBooked ==
    \A e \in Event : (e.kind \in SaleKind /\ e.paid /\ e.owner # NoOwner)
        => <>Booked(e)

\* A Transaction marked refunded gets its negative entry in the end, whatever fails
\* between the two writes.
RefundedEventuallyBooked ==
    \A p \in PI : tx[p].status = "refunded" ~> \E r \in ledger : r.ref = "refund" /\ r.pi = p

-----------------------------------------------------------------------------
(* The promise to the books: DerivedLedger, with a row recorded when its Transaction
   exists.  Deleting entries is outside that promise. *)

Books == INSTANCE DerivedLedger WITH
            recorded <- {p \in PI : Present(p)}, rows <- ledger, Row <- LedgerRow
ImplementsDerivedLedger == Books!Spec

\* The same promise about the entries of sales alone, which nobody deletes: the repair tool
\* takes only entries whose amount is not positive (self-repair.ts 276-283).
SalesBooks == INSTANCE DerivedLedger WITH
                 recorded <- {p \in PI : Present(p)},
                 rows <- {r \in ledger : r.ref = "sale"}, Row <- LedgerRow
ImplementsSalesLedger == SalesBooks!Spec
=============================================================================
