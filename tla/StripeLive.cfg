SPECIFICATION FairSpec
CONSTANTS
  pi1 = pi1
  u1 = u1
  v1 = v1
  m1 = m1
  Event <- Unscoped
  PI = {pi1}
  Owner = {u1}
  Venture = {v1}
  Email = {m1}
  NoOwner = NoOwner
  NoVenture = NoVenture
  NoEmail = NoEmail
  NoEvent = NoEvent
  Handler = {h1, h2}
  InOrder = TRUE
  MaxFailures = 1
  MaxRepairs = 0
  Cap = 1
PROPERTIES SaleEventuallyBooked RefundedEventuallyBooked
