SPECIFICATION Spec
CONSTANTS
  Invoice = {i1}
  Clerk = {c1}
  Event = {e1, e2}
  Total = 2
  NoInvoice = NoInvoice
  NoReceipt = NoReceipt
  MaxPending = 1
  MaxRevision = 1
  MaxPromises = 2
  MaxSequences = 1
SYMMETRY EventSymmetry
INVARIANTS
  EventsCountOnce
  PaidMeansSettled
  PromisesAreAccountable
  OpenPromiseIsTimed
  
