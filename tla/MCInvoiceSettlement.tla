------------------------- MODULE MCInvoiceSettlement -------------------------
(* An invoice over 2 with a payment link over the whole. *)
EXTENDS InvoiceSettlement

CONSTANTS payLink, s1, s2

MCAmountOf == [t \in Txns |-> 2]
=============================================================================
