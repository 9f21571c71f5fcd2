--------------------------- MODULE MCInvoiceLedger ---------------------------
(* Small instances of InvoiceLedger.                                       *)
EXTENDS InvoiceLedger, TLC

ClerkSymmetry == Permutations(Clerk)
EventSymmetry == Permutations(Event)
==============================================================================
