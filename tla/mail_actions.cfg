CONSTANTS
  c1 = c1
  c2 = c2
  a1 = a1
  a2 = a2
  Conversations = {c1, c2}
  Accounts = {a1, a2}
  AccountOf <- MCAccountOf
  Size = 2
  MaxGestures = 2
SPECIFICATION FairSpec
CHECK_DEADLOCK FALSE
INVARIANTS
  MarksHaveReason
  
PROPERTIES
  KeepsUndoContract
  OfferEnds
