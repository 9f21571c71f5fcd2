SPECIFICATION FairSpec
CONSTANTS
  aiJob = aiJob
  parseJob = parseJob
  scanJob = scanJob
  sweepJob = sweepJob
  followJob = followJob
  mailJob = mailJob
  policyJob = policyJob
  Job = {parseJob, mailJob}
  Kind <- KindOf
  Priority <- PriorityOf
  ParseOf <- ParseRow
  NeedsBackground = {}
  Worker = {w1}
  Managed = {}
  Standalone = {w1}
  MaxAttempts = 2
  Lease = 1
  BackoffBase = 1
  BackoffCap = 1
  AiLimit = 1
  Window = 1
  MaxRows = 1
  MaxRequeues = 0
  MaxCrashes = 1
PROPERTIES LostWorkerSurfaces
