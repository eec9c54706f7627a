---------------------------- MODULE InvoiceAccount ----------------------------
(***************************************************************************)
(* What the settlement of an invoice promises to the accounts: documents   *)
(* and ledger change together, one whole document at a time.  A payment is *)
(* booked once, after the debit of its invoice; a refund is within what    *)
(* its payment has left, and is taken back once, if it fails.  Documents   *)
(* and entries are never deleted or changed otherwise.  Requests, locks,   *)
(* webhooks, the provider and failures are not seen.                       *)
(***************************************************************************)
EXTENDS Integers, FiniteSetsExt

CONSTANTS Txns, Total, Ticks

VARIABLES payments, refunds, ledger

accountVars == <<payments, refunds, ledger>>

\* A reference stands on one entry.
Entered(entries, ref, delta) ==
    IF \E e \in entries : e.ref = ref THEN entries
    ELSE entries \cup {[ref |-> ref, delta |-> delta]}

Debited(entries) == Entered(entries, <<"issued">>, Total)
HasDebit == \E e \in ledger : e.ref = <<"issued">>

GivenBack(id) == MapThenSumSet(LAMBDA r : r.amount,
                               {r \in refunds : r.payment = id /\ r.status # "FAILED"})

Init == payments = {} /\ refunds = {} /\ ledger \in {{}, Debited({})}

Issue == ledger' = Debited(ledger) /\ UNCHANGED <<payments, refunds>>

Cancel == /\ HasDebit
          /\ ledger' = Entered(ledger, <<"cancel">>, -Total)
          /\ UNCHANGED <<payments, refunds>>

\* Cash is entered under the time it was recorded, a link under its own name.
Pay(p) ==
    /\ \A q \in payments : q.id # p.id
    /\ payments' = payments \cup {p}
    /\ \E key \in IF p.id \in Txns THEN {p.id} ELSE Ticks, entries \in {ledger, Debited(ledger)} :
          ledger' = Entered(entries, <<"payment", key>>, -p.amount)
    /\ HasDebit'
    /\ UNCHANGED refunds

Refund(r) ==
    /\ HasDebit
    /\ \A q \in refunds : q.id # r.id
    /\ \E p \in payments : p.id = r.payment /\ r.amount + GivenBack(p.id) <= p.amount
    /\ r.status = "PROCESSING"
    /\ refunds' = refunds \cup {r}
    /\ ledger' = Entered(ledger, <<"refund", r.id>>, r.amount)
    /\ UNCHANGED payments

\* The provider's answer closes a refund that is under way.
Answer(r, status) ==
    /\ r.status = "PROCESSING"
    /\ refunds' = (refunds \ {r}) \cup {[r EXCEPT !.status = status]}
    /\ ledger' = IF status = "FAILED" THEN Entered(ledger, <<"reversed", r.id>>, -r.amount)
                 ELSE ledger
    /\ UNCHANGED payments

Next == \/ Issue \/ Cancel
        \/ \E p \in payments' : Pay(p)
        \/ \E r \in refunds' : Refund(r)
        \/ \E r \in refunds, status \in {"COMPLETED", "FAILED"} : Answer(r, status)

Spec == Init /\ [][Next]_accountVars
=============================================================================
