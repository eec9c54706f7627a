--------------------------- MODULE MCCustomerLedger ---------------------------
(* One customer and another: invoices, payments repeated by two callers, refunds. *)
EXTENDS CustomerLedger

CONSTANTS asha, ravi, s1, s2, s3, issued, paid, refunded

Entry(c, delta, ref) == [customer |-> c, delta |-> delta, ref |-> ref]

\* Asha has an invoice of old and the payment of a part of it; Ravi is new.
MCOpening == {[at |-> 1, entry |-> Entry(asha, 9, NoRef), running |-> 9],
              [at |-> 2, entry |-> Entry(asha, -2, NoRef), running |-> 7]}

\* A capture on a draft invoice posts the debit and the credit in one
\* transaction; the webhook and the reconciler may both run it.
MCJobs == {<<Entry(asha, 4, issued), Entry(asha, -3, paid)>>,
           <<Entry(asha, -3, paid)>>,
           <<Entry(asha, 1, refunded)>>,
           <<Entry(ravi, 2, issued)>>}
=============================================================================
