--------------------------- MODULE MCInvoicePayments ---------------------------
(* Instances of InvoicePayments for TLC.                                    *)
EXTENDS InvoicePayments, TLC

CONSTANTS w1, w2, l1

MCTotal == [i \in Invoices |-> 1 + i]
MCLineAmount == [l \in Lines |-> 2]
MCDueOrder == [k \in Invoices |-> k]
MCReversed == [k \in Invoices |-> NInvoices + 1 - k]
WorkerSymmetry == Permutations({w1, w2})

================================================================================
