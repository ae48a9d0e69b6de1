SPECIFICATION FairSpec
CONSTANTS
  Slot = {s1, s2}
  Key = {k1}
  Outreach = {}
  Checkout = {k1}
  Request = {r1, r2}
  NoRequest = NoRequest
  NoSlot = NoSlot
  NoKey = NoKey
  OperatorExecutes = FALSE
  MaxFailures = 0
  Cap = 2
INVARIANT
  ApprovalAudited
PROPERTIES
  ImplementsLifecycle
  ClaimedEventuallySettles
