SPECIFICATION Spec
CONSTANTS
  Invoice = {i1}
  Clerk = {c1}
  Event = {e1}
  Total = 1
  NoInvoice = NoInvoice
  NoReceipt = NoReceipt
  MaxPending = 2
  MaxRevision = 0
  MaxPromises = 0
  MaxSequences = 0
PROPERTY ApprovalsFollowTable
