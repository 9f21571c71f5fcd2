SPECIFICATION FairSpec
CONSTANTS
  aiJob = aiJob
  parseJob = parseJob
  scanJob = scanJob
  sweepJob = sweepJob
  followJob = followJob
  mailJob = mailJob
  policyJob = policyJob
  Job = {scanJob, parseJob, sweepJob}
  Kind <- KindOf
  Priority <- PriorityOf
  ParseOf <- ParseRow
  NeedsBackground = {sweepJob}
  Worker = {w1}
  Managed = {w1}
  Standalone = {}
  MaxAttempts = 2
  Lease = 1
  BackoffBase = 1
  BackoffCap = 1
  AiLimit = 1
  Window = 1
  MaxRows = 2
  MaxRequeues = 0
  MaxCrashes = 1
PROPERTIES LostWorkerSurfaces
