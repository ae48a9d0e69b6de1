--------------------------- MODULE MCStripeWebhook ---------------------------
(* Sets of Stripe events for the runs of StripeWebhook: one payment of 2 units. *)
EXTENDS StripeWebhook

CONSTANTS pi1, u1, v1, m1

Sale(kind, owner, venture) ==
    [kind |-> kind, pi |-> pi1, owner |-> owner, venture |-> venture, email |-> m1,
     product |-> TRUE, paid |-> TRUE, amount |-> 2]
Refund(amount) ==
    [kind |-> "refund", pi |-> pi1, owner |-> NoOwner, venture |-> NoVenture,
     email |-> NoEmail, product |-> FALSE, paid |-> TRUE, amount |-> amount]

\* The application's own checkout puts its metadata on the session only, so the
\* payment_intent.succeeded of the same payment names no owner.
OwnCheckout == {Sale("checkout", u1, v1), Sale("intent", NoOwner, NoVenture), Refund(2)}

\* An unscoped payment: no venture in the metadata.
Unscoped == {Sale("checkout", u1, NoVenture), Refund(2)}

\* Both success events carry the owner, and the venture comes with one of them only.
BothSales == {Sale("checkout", u1, v1), Sale("intent", u1, NoVenture), Refund(2)}

\* A venture's payment and its refund.
Scoped == {Sale("checkout", u1, v1), Refund(2)}
=============================================================================
