SPECIFICATION Spec
CONSTANTS
  pi1 = pi1
  u1 = u1
  v1 = v1
  m1 = m1
  Event <- OwnCheckout
  PI = {pi1}
  Owner = {u1}
  Venture = {v1}
  Email = {m1}
  NoOwner = NoOwner
  NoVenture = NoVenture
  NoEmail = NoEmail
  NoEvent = NoEvent
  Handler = {h1}
  InOrder = FALSE
  MaxFailures = 2
  MaxRepairs = 1
  Cap = 2
INVARIANTS
  TypeOK
  RefundEntryMeansRefunded
  SaleBookedOnce
PROPERTIES
  RefundIsFinal
  FulfilledOnce
