-------------------------- MODULE MCInvoiceReceipts --------------------------
(***************************************************************************)
(* A small instance of InvoiceReceipts: three users post any batches of    *)
(* two customer invoices and a vendor bill.                                *)
(***************************************************************************)
EXTENDS InvoiceReceipts

CONSTANTS invoice1, invoice2, bill1, post1, post2, post3
=============================================================================
