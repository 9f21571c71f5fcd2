SPECIFICATION Spec
SYMMETRY Symmetry
CONSTANTS
  Clerk = {r1, r2}
  Document = {d1}
  AskedState = {"available"}
  MaxShares = 1
  GuaranteeDays = 1
  LastDay = 2
  MaxPending = 1
  Flow = {r1, r2}
  Sync = {r1, r2}
  CalendarId = {k1}
  MaxVersion = 1
  MaxRevision = 6
  MaxPolicy = 2
  MaxWrites = 3
  Server = {r1, r2}
  Profile = {r1, r2}
  MaxPerRun = 1
  MaxAiTasks = 1
  MaxRuns = 2
  MaxPlans = 2
  MaxEvidence = 1
  MaxEdits = 1
INVARIANTS
  
  JoinedWasConfirmed
  MirrorCatchesUp
  UnattendedWithinGrant
  RefreshContinues
  
PROPERTIES
  RedactedIsFinal
  EditsSurvive
  DisconnectIsFinal
CHECK_DEADLOCK FALSE
