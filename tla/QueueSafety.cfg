SPECIFICATION Spec
CONSTANTS
  Slot = {s1, s2}
  Key = {k1}
  Outreach = {k1}
  Checkout = {}
  Request = {r1, r2}
  NoRequest = NoRequest
  NoSlot = NoSlot
  NoKey = NoKey
  OperatorExecutes = TRUE
  MaxFailures = 2
  Cap = 2
SYMMETRY Interchangeable
INVARIANTS
  TypeOK
  ClaimExclusive
  OneEffectPerAction
  EffectAfterApproval
  LockedPrepareOnce
