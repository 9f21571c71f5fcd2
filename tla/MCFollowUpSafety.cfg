SPECIFICATION Spec
CONSTANTS
  Steps = 2
  Dispatch = {d1, d2, d3}
  Grant = {g1, g2}
  NoGrant = NoGrant
  MaxRevision = 4
  MaxReplans = 1
SYMMETRY Symmetry
CHECK_DEADLOCK FALSE
INVARIANTS
  OneLiveDispatch ActiveGrantIsCurrent GrantWithinBounds ReplyHalts
  
PROPERTIES
  KeepsPromise
