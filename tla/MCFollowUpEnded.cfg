SPECIFICATION Spec
CONSTANTS
  Steps = 2
  Dispatch = {d1}
  Grant = {g1}
  NoGrant = NoGrant
  MaxRevision = 4
  MaxReplans = 0
CHECK_DEADLOCK FALSE
PROPERTIES
  EndedStaysEnded
