SPECIFICATION Spec
CONSTANTS
  aiJob = aiJob
  parseJob = parseJob
  scanJob = scanJob
  sweepJob = sweepJob
  followJob = followJob
  mailJob = mailJob
  policyJob = policyJob
  Job = {aiJob, parseJob, sweepJob, followJob, mailJob, policyJob}
  Kind <- KindOf
  Priority <- PriorityOf
  ParseOf <- ParseRow
  NeedsBackground = {sweepJob}
  Worker = {w1, w2}
  Managed = {}
  Standalone = {w1}
  MaxAttempts = 2
  Lease = 1
  BackoffBase = 1
  BackoffCap = 1
  AiLimit = 1
  Window = 1
  MaxRows = 1
  MaxRequeues = 1
  MaxCrashes = 0
INVARIANTS
  LockDiscipline CompletedMeansApplied AttemptsBounded
  StopHaltsWorkers FlaggedIsBlocked
PROPERTIES
  ResultsNeverRegress
