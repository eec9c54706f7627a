-------------------------- MODULE InvoiceSettlement --------------------------
(***************************************************************************)
(* PaymentsService and InvoicesService: how the money of one invoice is    *)
(* collected through payment links, webhooks, the reconciler, cash and     *)
(* refunds, while staff send, cancel and age the invoice.                  *)
(*                                                                         *)
(* Transactions run at READ COMMITTED.  The invoice is read without a lock *)
(* and written later from what was read; writes and the commit are one     *)
(* action.  Only issuing a draft locks the invoice row and goes on         *)
(* reading, and only refunds lock a payment row, so those locks are state. *)
(***************************************************************************)
EXTENDS Integers, FiniteSetsExt

CONSTANTS Txns, AmountOf,   \* payment links, and the amount of each
          Total,            \* totalMinor of the invoice
          OpeningStatuses,  \* what the invoice may be at first: DRAFT, SENT
          CashAmounts, RefundAmounts,
          CreditNotes,      \* what callers of refund ask for: BOOLEAN, or a part
          Ticks,            \* what Date.now() may return
          Sessions, NoSession, NoTxn, NoInvoice,
          MaxCash, MaxRefunds, MaxFailures   \* bounds

ASSUME SettlementAssumption ==
    /\ Total \in Nat \ {0}
    /\ AmountOf \in [Txns -> Nat \ {0}]
    /\ CashAmounts \subseteq Nat \ {0} /\ RefundAmounts \subseteq Nat \ {0}
    /\ OpeningStatuses \subseteq {"DRAFT", "SENT"}
    /\ CreditNotes \subseteq BOOLEAN
    /\ NoSession \notin Sessions /\ NoTxn \notin Txns
    \* Date.now() and the ids given here to cash and refunds are numbers; the id of
    \* a transaction is a uuid.
    /\ Ticks \subseteq Nat /\ Txns \cap Nat = {}

VARIABLES invoice,   \* the invoices row
          issuing,   \* the session that has issued it and not committed yet
          payments,  \* payments rows
          refunding, \* the FOR UPDATE lock of each payment row
          refunds,   \* refunds rows; those with a credit note hold it
          ledger,    \* customer_ledger_entries of the invoice
          txn,       \* payment_transactions
          gateway,   \* what the provider knows of each link
          succeeded, \* PaymentSucceeded events published for each transaction
          session,   \* what each process is doing
          failures   \* crashes and database failures so far

books == <<invoice, payments, refunds, ledger>>
vars == <<books, issuing, refunding, txn, gateway, succeeded, session, failures>>

InvoiceStatuses == {"DRAFT", "SENT", "PARTIALLY_PAID", "PAID", "OVERDUE",
                    "CANCELLED", "REFUNDED"}
TerminalStatuses == {"CANCELLED", "REFUNDED"}

\* "NONE": not asked for; "ASKED": the provider is making the link.  Nothing
\* makes a CREATED or AUTHORIZED transaction.
TxnStatuses == {"NONE", "ASKED", "PENDING", "CAPTURED", "FAILED", "CANCELLED",
                "REFUNDED"}
OpenStatuses == {"PENDING"}

Least(m, n) == IF m <= n THEN m ELSE n
AtLeastZero(n) == IF n < 0 THEN 0 ELSE n

Idle == [op |-> "none", step |-> "idle", txn |-> NoTxn, amount |-> 0,
         seen |-> NoInvoice, payment |-> NoTxn, credit |-> FALSE]

Booked(t) == \E p \in payments : p.id = t

\* ledger.post inside the caller's transaction: a reference on record is skipped.
Posted(entries, ref, delta) ==
    IF \E e \in entries : e.ref = ref THEN entries
    ELSE entries \cup {[ref |-> ref, delta |-> delta]}

Issued(entries) == Posted(entries, <<"issued">>, Total)

Unsettled(status) == [status |-> status, paid |-> 0, refunded |-> 0, due |-> Total]

Init ==
    /\ \E status \in OpeningStatuses :
          /\ invoice = Unsettled(status)
          /\ ledger = IF status = "DRAFT" THEN {} ELSE Issued({})
    /\ issuing = NoSession
    /\ payments = {} /\ refunds = {}
    /\ refunding = {}
    /\ txn = [t \in Txns |-> [status |-> "NONE", paymentRef |-> FALSE]]
    /\ gateway = [t \in Txns |-> [link |-> "open", declined |-> FALSE]]
    /\ succeeded = [t \in Txns |-> 0]
    /\ session = [s \in Sessions |-> Idle]
    /\ failures = 0

-----------------------------------------------------------------------------
(* Sessions *)

At(s, step) == session[s].step = step
Goto(s, step) == session' = [session EXCEPT ![s].step = step]

\* Nothing stays locked by a transaction that has ended.
Unlock(s) ==
    /\ issuing' = IF issuing = s THEN NoSession ELSE issuing
    /\ refunding' = {l \in refunding : l.session # s}

Stop(s) == session' = [session EXCEPT ![s] = Idle] /\ Unlock(s)

\* The transaction ends; a settling call goes on to step.
EndTransaction(s, step) ==
    IF session[s].op = "settle"
    THEN /\ session' = [session EXCEPT ![s].step = step, ![s].seen = NoInvoice]
         /\ Unlock(s)
    ELSE Stop(s)

RowIsFree(s) == issuing \in {s, NoSession}

-----------------------------------------------------------------------------
(* The provider and the customer *)

AskForLink(t) ==
    /\ txn[t].status = "NONE"
    /\ invoice.due > 0 /\ AmountOf[t] <= invoice.due
    /\ txn' = [txn EXCEPT ![t].status = "ASKED"]
    /\ UNCHANGED <<books, issuing, refunding, gateway, succeeded, session, failures>>

\* Mutant of LinkCreated: the row gets the schema's default status.
CreatedByDefault(t) ==
    /\ txn[t].status = "ASKED"
    /\ txn' = [txn EXCEPT ![t].status = "CREATED"]
    /\ UNCHANGED <<books, issuing, refunding, gateway, succeeded, session, failures>>

LinkCreated(t) ==
    /\ txn[t].status = "ASKED"
    /\ txn' = [txn EXCEPT ![t].status = "PENDING"]
    /\ UNCHANGED <<books, issuing, refunding, gateway, succeeded, session, failures>>

Provider(t, state) ==
    /\ gateway' = [gateway EXCEPT ![t] = state]
    /\ UNCHANGED <<books, issuing, refunding, txn, succeeded, session, failures>>

\* An attempt is declined: the link stays open.  The customer pays, or the link
\* is closed unpaid, or a payment is refunded from the provider's dashboard.
Declined(t) == /\ txn[t].status # "NONE" /\ gateway[t].link = "open"
               /\ Provider(t, [gateway[t] EXCEPT !.declined = TRUE])
Paid(t) == /\ txn[t].status # "NONE" /\ gateway[t].link = "open"
           /\ Provider(t, [gateway[t] EXCEPT !.link = "paid"])
Closed(t) == /\ txn[t].status # "NONE" /\ gateway[t].link = "open"
             /\ \E how \in {"expired", "cancelled"} :
                    Provider(t, [gateway[t] EXCEPT !.link = how])
RefundedThere(t) == /\ gateway[t].link = "paid"
                    /\ Provider(t, [gateway[t] EXCEPT !.link = "refunded"])

Collected(t) == gateway[t].link \in {"paid", "refunded"}

-----------------------------------------------------------------------------
(* Webhooks and reconciliation: which transaction to settle *)

Take(s, op, step, t) ==
    /\ At(s, "idle")
    /\ session' = [session EXCEPT ![s] =
           [Idle EXCEPT !.op = op, !.step = step, !.txn = t, !.amount = AmountOf[t]]]
    /\ UNCHANGED <<books, issuing, refunding, txn, gateway, succeeded, failures>>

Known(t) == txn[t].status \notin {"NONE", "ASKED"}

\* Deliveries may be lost, repeated and late.
CapturedWebhook(s, t) == Known(t) /\ Collected(t) /\ Take(s, "settle", "claim", t)
FailedWebhook(s, t) == Known(t) /\ gateway[t].declined /\ Take(s, "fail", "FAILED", t)

\* The refund event is matched by the paymentRef a capture has stored; the
\* status is overwritten whatever it is.
RefundedWebhook(t) ==
    /\ Known(t) /\ txn[t].paymentRef /\ gateway[t].link = "refunded"
    /\ txn' = [txn EXCEPT ![t].status = "REFUNDED"]
    /\ UNCHANGED <<books, issuing, refunding, gateway, succeeded, session, failures>>

\* Phase 1 lists open transactions, then asks the provider about each.
Reconcile(s, t) == txn[t].status \in OpenStatuses /\ Take(s, "settle", "ask", t)

\* Asked about a link nobody has paid or closed, it says pending, or unknown.
ProviderTruth(s) ==
    LET link == gateway[session[s].txn].link IN
    /\ At(s, "ask")
    /\ CASE link \in {"paid", "refunded"} -> Goto(s, "claim")
         [] link = "expired"   -> Goto(s, "FAILED")
         [] link = "cancelled" -> Goto(s, "CANCELLED")
         [] link = "open"      -> session' = [session EXCEPT ![s] = Idle]
    /\ UNCHANGED <<books, issuing, refunding, txn, gateway, succeeded, failures>>

\* Mutant of Heal: it lists what the claim has released.
HealsReleased(s, t) ==
    /\ txn[t].status = "PENDING" /\ txn[t].paymentRef
    /\ ~Booked(t)
    /\ Take(s, "heal", "read", t)

\* Phase 2 lists transactions captured longer ago than the stale threshold (15
\* minutes) without a Payment row.  A settling call lasts seconds, so the one
\* that captured it has ended.
Heal(s, t) ==
    /\ txn[t].status = "CAPTURED"
    /\ ~Booked(t)
    /\ \A q \in Sessions : session[q].op = "settle" /\ session[q].txn = t
                            => session[q].step \in {"ask", "claim"}
    /\ Take(s, "heal", "read", t)

\* markTerminal, guarded by the status.
MarkTerminal(s) ==
    LET t == session[s].txn IN
    /\ session[s].step \in {"FAILED", "CANCELLED"}
    /\ txn' = IF txn[t].status \in OpenStatuses
              THEN [txn EXCEPT ![t].status = session[s].step] ELSE txn
    /\ Stop(s)
    /\ UNCHANGED <<books, gateway, succeeded, failures>>

\* Mutant of Claim: the update is not guarded by the status.
ClaimAnyStatus(s) ==
    /\ At(s, "claim")
    /\ txn' = [txn EXCEPT ![session[s].txn] = [status |-> "CAPTURED", paymentRef |-> TRUE]]
    /\ Goto(s, "read")
    /\ UNCHANGED <<books, issuing, refunding, gateway, succeeded, failures>>

\* settleCaptured: whoever wins the guarded update applies the payment.
Claim(s) ==
    LET t == session[s].txn IN
    /\ At(s, "claim")
    /\ IF txn[t].status \in OpenStatuses
       THEN /\ txn' = [txn EXCEPT ![t] = [status |-> "CAPTURED", paymentRef |-> TRUE]]
            /\ Goto(s, "read")
            /\ UNCHANGED <<issuing, refunding>>
       ELSE Stop(s) /\ UNCHANGED txn
    /\ UNCHANGED <<books, gateway, succeeded, failures>>

-----------------------------------------------------------------------------
(* InvoicesService.applyPayment *)

\* An operator records cash, or a technician collects it on site.
TakeCash(s, op, n) ==
    /\ At(s, "idle")
    /\ Cardinality({p \in payments : p.id \notin Txns}) < MaxCash
    /\ op = "onsite" => n <= invoice.due
    /\ session' = [session EXCEPT ![s] =
           [Idle EXCEPT !.op = op, !.step = "read", !.amount = n]]
    /\ UNCHANGED <<books, issuing, refunding, txn, gateway, succeeded, failures>>

\* Mutant of ReadInvoice: a draft is settled without being issued.
ReadsAnyStatus(s) ==
    /\ At(s, "read")
    /\ invoice.status \notin TerminalStatuses
    /\ session' = [session EXCEPT ![s].seen = invoice, ![s].step = "apply"]
    /\ UNCHANGED <<books, issuing, refunding, txn, gateway, succeeded, failures>>

ReadInvoice(s) ==
    /\ At(s, "read")
    /\ invoice.status \notin TerminalStatuses
    /\ invoice.status = "DRAFT" => session[s].op # "manual"
    /\ session' = [session EXCEPT ![s].seen = invoice,
           ![s].step = IF invoice.status = "DRAFT" THEN "issue" ELSE "apply"]
    /\ UNCHANGED <<books, issuing, refunding, txn, gateway, succeeded, failures>>

\* The Conflict of a closed invoice, or of cash on a draft.  A settling call goes
\* on to publish its event as if the payment had been applied.
Refused(s) ==
    /\ At(s, "read")
    /\ \/ invoice.status \in TerminalStatuses
       \/ invoice.status = "DRAFT" /\ session[s].op = "manual"
    /\ EndTransaction(s, "publish")
    /\ UNCHANGED <<books, txn, gateway, succeeded, failures>>

\* issueInTx: the row is updated, hence locked, and the transaction goes on.
IssueDraft(s) ==
    /\ At(s, "issue")
    /\ issuing = NoSession
    /\ issuing' = s
    /\ Goto(s, "apply")
    /\ UNCHANGED <<books, refunding, txn, gateway, succeeded, failures>>

\* The dup check finds the Payment row: only the issuing, if any, is kept.
SkipDuplicate(s) ==
    /\ At(s, "apply")
    /\ Booked(session[s].txn)
    /\ invoice' = IF issuing = s THEN [invoice EXCEPT !.status = "SENT"] ELSE invoice
    /\ ledger' = IF issuing = s THEN Issued(ledger) ELSE ledger
    /\ EndTransaction(s, "publish")
    /\ UNCHANGED <<payments, refunds, txn, gateway, succeeded, failures>>

ApplyAmount(s) == Least(session[s].amount, session[s].seen.due)

\* P2002 on Payment.transactionId when the row came after the dup check, or the
\* Conflict of an invoice with nothing due: rolled back, not retried.
NotApplied(s) ==
    /\ At(s, "apply")
    /\ Booked(session[s].txn) \/ ApplyAmount(s) <= 0
    /\ EndTransaction(s, "publish")
    /\ UNCHANGED <<books, txn, gateway, succeeded, failures>>

CashId == 1 + Cardinality({p \in payments : p.id \notin Txns})

WithPayment(seen, n) ==
    LET newPaid == seen.paid + n
        newDue == AtLeastZero(Total - newPaid)
    IN  [invoice EXCEPT !.paid = newPaid, !.due = newDue,
                        !.status = IF newDue = 0 THEN "PAID" ELSE "PARTIALLY_PAID"]

\* The Payment row, the invoice computed from what was read, and the credit.
WriteBooks(s, tick) ==
    LET n == ApplyAmount(s)
        t == session[s].txn
        id == IF t = NoTxn THEN CashId ELSE t
    IN  /\ invoice' = WithPayment(session[s].seen, n)
        /\ payments' = payments \cup {[id |-> id, amount |-> n]}
        /\ ledger' = Posted(IF issuing = s THEN Issued(ledger) ELSE ledger,
                            <<"payment", IF t = NoTxn THEN tick ELSE t>>, -n)

ApplyPayment(s, tick) ==
    /\ At(s, "apply")
    /\ ~Booked(session[s].txn)
    /\ ApplyAmount(s) > 0
    /\ RowIsFree(s)
    /\ WriteBooks(s, tick)
    /\ EndTransaction(s, "publish")
    /\ UNCHANGED <<refunds, txn, gateway, succeeded, failures>>

Publish(s) ==
    /\ At(s, "publish")
    /\ succeeded' = [succeeded EXCEPT ![session[s].txn] = @ + 1]
    /\ Stop(s)
    /\ UNCHANGED <<books, txn, gateway, failures>>

-----------------------------------------------------------------------------
(* Failures *)

\* A statement of applyPayment fails, and its transaction is rolled back.
StatementFails(s) ==
    /\ session[s].step \in {"read", "issue", "apply"}
    /\ failures < MaxFailures
    /\ failures' = failures + 1
    /\ EndTransaction(s, "release")
    /\ UNCHANGED <<books, txn, gateway, succeeded>>

\* The commit takes place, and the connection is lost before the answer.
CommitUnanswered(s, tick) ==
    /\ At(s, "apply")
    /\ ~Booked(session[s].txn) /\ ApplyAmount(s) > 0 /\ RowIsFree(s)
    /\ failures < MaxFailures
    /\ failures' = failures + 1
    /\ WriteBooks(s, tick)
    /\ EndTransaction(s, "release")
    /\ UNCHANGED <<refunds, txn, gateway, succeeded>>

\* Mutant of Release: not guarded by "no Payment row yet".
ReleaseAnyway(s) ==
    LET t == session[s].txn IN
    /\ At(s, "release")
    /\ txn' = IF txn[t].status = "CAPTURED"
              THEN [txn EXCEPT ![t].status = "PENDING"] ELSE txn
    /\ Stop(s)
    /\ UNCHANGED <<books, gateway, succeeded, failures>>

\* The claim is released, unless the payment did land.
Release(s) ==
    LET t == session[s].txn IN
    /\ At(s, "release")
    /\ txn' = IF txn[t].status = "CAPTURED" /\ ~Booked(t)
              THEN [txn EXCEPT ![t].status = "PENDING"] ELSE txn
    /\ Stop(s)
    /\ UNCHANGED <<books, gateway, succeeded, failures>>

\* The process dies: its transaction is rolled back, nobody releases its claim.
Crash(s) ==
    /\ ~At(s, "idle")
    /\ failures < MaxFailures
    /\ failures' = failures + 1
    /\ Stop(s)
    /\ UNCHANGED <<books, txn, gateway, succeeded>>

-----------------------------------------------------------------------------
(* Staff and the overdue sweep *)

MayStart(op) ==
    CASE op = "send"    -> invoice.status = "DRAFT"
      [] op = "cancel"  -> invoice.status \notin TerminalStatuses /\ invoice.paid <= 0
      [] op = "overdue" -> invoice.status \in {"SENT", "PARTIALLY_PAID"} /\ invoice.due > 0

\* The guard is checked on a read; the update that follows is unconditional.
StartStaff(s, op) ==
    /\ At(s, "idle")
    /\ MayStart(op)
    /\ session' = [session EXCEPT ![s] =
           [Idle EXCEPT !.op = op, !.step = "staff",
                        !.seen = IF op = "cancel" THEN invoice ELSE NoInvoice]]
    /\ UNCHANGED <<books, issuing, refunding, txn, gateway, succeeded, failures>>

FinishStaff(s) ==
    LET op == session[s].op IN
    /\ At(s, "staff")
    /\ RowIsFree(s)
    /\ invoice' = CASE op = "send"    -> [invoice EXCEPT !.status = "SENT"]
                    [] op = "cancel"  -> [invoice EXCEPT !.status = "CANCELLED", !.due = 0]
                    [] op = "overdue" -> [invoice EXCEPT !.status = "OVERDUE"]
    /\ ledger' = CASE op = "send" -> Issued(ledger)
                   [] op = "cancel" /\ session[s].seen.status # "DRAFT" ->
                        Posted(ledger, <<"cancel">>, -Total)
                   [] OTHER -> ledger
    /\ Stop(s)
    /\ UNCHANGED <<payments, refunds, txn, gateway, succeeded, failures>>

-----------------------------------------------------------------------------
(* Refunds *)

Counted(rows) == MapThenSumSet(LAMBDA r : r.amount,
                               {r \in rows : r.status # "FAILED"})
Credited(rows) == Counted({r \in rows : r.credit})
RefundsOf(p) == {r \in refunds : r.payment = p}

\* refundedBalance: refunds give money back, credit notes lower the value.
Balance(inv, refunded, credited) ==
    LET netPaid == AtLeastZero(inv.paid - refunded)
        due == AtLeastZero(Total - credited - netPaid)
    IN  [due |-> due,
         status |-> IF due = 0 THEN (IF netPaid = 0 THEN "REFUNDED" ELSE "PAID")
                    ELSE IF netPaid > 0 THEN "PARTIALLY_PAID"
                    ELSE IF inv.status = "OVERDUE" THEN "OVERDUE" ELSE "SENT"]

WithRefunds(inv, refunded, rows) ==
    LET b == Balance(inv, refunded, Credited(rows))
    IN  [invoice EXCEPT !.refunded = refunded, !.due = b.due, !.status = b.status]

\* Mutant of LockPayment: the payment row is not locked.
CapWithoutLock(s) ==
    LET r == session[s] IN
    /\ At(s, "cap")
    /\ IF \E p \in payments : /\ p.id = r.payment
                              /\ r.amount <= p.amount - Counted(RefundsOf(p.id))
       THEN Goto(s, "refund") /\ UNCHANGED <<issuing, refunding>>
       ELSE Stop(s)
    /\ UNCHANGED <<books, txn, gateway, succeeded, failures>>

\* refund(): op "gateway" when refundPayment will send it to the provider.
StartRefund(s, op, p, n, credit) ==
    /\ At(s, "idle")
    /\ Cardinality(refunds) < MaxRefunds
    /\ op = "gateway" => p.id \in Txns
    /\ session' = [session EXCEPT ![s] =
           [Idle EXCEPT !.op = op, !.step = "cap", !.amount = n, !.seen = invoice,
                        !.payment = p.id, !.credit = credit]]
    /\ UNCHANGED <<books, issuing, refunding, txn, gateway, succeeded, failures>>

\* SELECT ... FOR UPDATE on the payment, then the cap.
LockPayment(s) ==
    LET r == session[s] IN
    /\ At(s, "cap")
    /\ \A l \in refunding : l.payment # r.payment
    /\ IF \E p \in payments : /\ p.id = r.payment
                              /\ r.amount <= p.amount - Counted(RefundsOf(p.id))
       THEN /\ refunding' = refunding \cup {[payment |-> r.payment, session |-> s]}
            /\ Goto(s, "refund")
            /\ UNCHANGED issuing
       ELSE Stop(s)
    /\ UNCHANGED <<books, txn, gateway, succeeded, failures>>

RefundId == 1 + Cardinality(refunds)

\* The credit note, the refund, the invoice computed from what was read, and the
\* debit.  A refund for the gateway is remembered by its id from here on.
WriteRefund(s) ==
    LET r == session[s]
        row == [id |-> RefundId, payment |-> r.payment, amount |-> r.amount,
                credit |-> r.credit, status |-> "PROCESSING"]
    IN  /\ At(s, "refund")
        /\ RowIsFree(s)
        /\ refunds' = refunds \cup {row}
        /\ invoice' = WithRefunds(r.seen, r.seen.refunded + r.amount, refunds \cup {row})
        /\ ledger' = Posted(ledger, <<"refund", row.id>>, r.amount)
        /\ IF r.op = "gateway"
           THEN session' = [session EXCEPT ![s].step = "provider", ![s].payment = row.id,
                                           ![s].seen = NoInvoice]
           ELSE session' = [session EXCEPT ![s] = Idle]
        /\ Unlock(s)
        /\ UNCHANGED <<payments, txn, gateway, succeeded, failures>>

\* The provider takes the refund: completed at once, or under way.
RefundTaken(s) ==
    /\ At(s, "provider")
    /\ \E status \in {"COMPLETED", "PROCESSING"} :
          refunds' = {IF r.id = session[s].payment THEN [r EXCEPT !.status = status] ELSE r :
                      r \in refunds}
    /\ Stop(s)
    /\ UNCHANGED <<invoice, payments, ledger, txn, gateway, succeeded, failures>>

\* It refuses: reverseFailedRefund reads the refund and the invoice, then writes.
RefundRefused(s) ==
    /\ At(s, "provider")
    /\ session' = [session EXCEPT ![s].step = "reverse", ![s].seen = invoice]
    /\ UNCHANGED <<books, issuing, refunding, txn, gateway, succeeded, failures>>

\* Mutant of ReverseRefund: the ledger is left as it was.
ReverseKeepsDebit(s) ==
    /\ At(s, "reverse") /\ RowIsFree(s)
    /\ refunds' = {IF r.id = session[s].payment THEN [r EXCEPT !.status = "FAILED"] ELSE r :
                   r \in refunds}
    /\ invoice' = WithRefunds(session[s].seen,
                              AtLeastZero(session[s].seen.refunded - session[s].amount),
                              refunds')
    /\ Stop(s)
    /\ UNCHANGED <<payments, ledger, txn, gateway, succeeded, failures>>

ReverseRefund(s) ==
    LET id == session[s].payment
        n == session[s].amount
        rows == {IF r.id = id THEN [r EXCEPT !.status = "FAILED"] ELSE r : r \in refunds}
    IN  /\ At(s, "reverse")
        /\ RowIsFree(s)
        /\ refunds' = rows
        /\ invoice' = WithRefunds(session[s].seen,
                                  AtLeastZero(session[s].seen.refunded - n), rows)
        /\ ledger' = Posted(ledger, <<"reversed", id>>, -n)
        /\ Stop(s)
        /\ UNCHANGED <<payments, txn, gateway, succeeded, failures>>

-----------------------------------------------------------------------------

Advance(s) ==
    \/ ProviderTruth(s) \/ MarkTerminal(s) \/ Claim(s)
    \/ ReadInvoice(s) \/ Refused(s) \/ IssueDraft(s) \/ SkipDuplicate(s) \/ NotApplied(s)
    \/ \E tick \in Ticks : ApplyPayment(s, tick)
    \/ Publish(s) \/ Release(s)
    \/ FinishStaff(s)
    \/ LockPayment(s) \/ WriteRefund(s) \/ RefundTaken(s) \/ RefundRefused(s)
    \/ ReverseRefund(s)

Next ==
    \/ \E t \in Txns :
          \/ AskForLink(t) \/ LinkCreated(t)
          \/ Declined(t) \/ Paid(t) \/ Closed(t) \/ RefundedThere(t)
          \/ RefundedWebhook(t)
          \/ \E s \in Sessions : \/ CapturedWebhook(s, t) \/ FailedWebhook(s, t)
                                 \/ Reconcile(s, t) \/ Heal(s, t)
    \/ \E s \in Sessions :
          \/ Advance(s)
          \/ StatementFails(s) \/ Crash(s)
          \/ \E tick \in Ticks : CommitUnanswered(s, tick)
          \/ \E n \in CashAmounts, op \in {"manual", "onsite"} : TakeCash(s, op, n)
          \/ \E op \in {"send", "cancel", "overdue"} : StartStaff(s, op)
          \/ \E p \in payments, n \in RefundAmounts :
                \E op \in {"refund", "gateway"}, credit \in CreditNotes :
                    StartRefund(s, op, p, n, credit)

\* Processes go on, row locks are queued for, and the reconciler keeps coming
\* round to every transaction it lists.
Fairness ==
    /\ \A s \in Sessions : SF_vars(Advance(s))
    /\ \A t \in Txns : /\ SF_vars(\E s \in Sessions : Reconcile(s, t))
                       /\ SF_vars(\E s \in Sessions : Heal(s, t))

Spec == Init /\ [][Next]_vars
FairSpec == Spec /\ Fairness
-----------------------------------------------------------------------------
(* Properties *)

Invoices == [status: InvoiceStatuses, paid: Nat, refunded: Nat, due: Nat]

\* Every variable keeps its shape.
TypeOK ==
    /\ invoice \in Invoices
    /\ issuing \in Sessions \cup {NoSession}
    /\ \A p \in payments : p.amount \in Nat \ {0}
    /\ \A l \in refunding : l.session \in Sessions
    /\ \A r \in refunds : r.amount \in Nat \ {0}
    /\ \A t \in Txns : txn[t].status \in TxnStatuses
    /\ succeeded \in [Txns -> Nat]
    /\ \A s \in Sessions : At(s, "apply") => session[s].seen \in Invoices

\* settleCaptured: "never un-capture a txn whose invoice payment did land".  A
\* link whose Payment row is committed stays captured, or refunded: no release,
\* late payment.failed, or reconciler opens or fails it again, also when the
\* answer to the commit was lost.
BookedStaysCaptured ==
    \A t \in Txns : Booked(t) => txn[t].status \in {"CAPTURED", "REFUNDED"}

\* "Exactly one of webhook, reconcile on A, reconcile on B wins; the losers skip
\* side effects": PaymentSucceeded is published once at most for a link.
SucceededOnce == \A t \in Txns : succeeded[t] <= 1

\* The customer ledger says what the documents say: one credit, of the same
\* amount, for each Payment row of a link and none without, one debit for each
\* refund, and it is taken back when and only when the refund has failed.
LedgerAgreesWithDocuments ==
    /\ \A t \in Txns : \A n \in 1..Total :
          [id |-> t, amount |-> n] \in payments
              <=> [ref |-> <<"payment", t>>, delta |-> -n] \in ledger
    /\ \A r \in refunds :
          /\ [ref |-> <<"refund", r.id>>, delta |-> r.amount] \in ledger
          /\ r.status = "FAILED"
                 <=> [ref |-> <<"reversed", r.id>>, delta |-> -r.amount] \in ledger

\* applyPayment issues a draft first "so the ledger gets its DEBIT before the
\* payment CREDIT", whoever else sends, cancels or settles the draft meanwhile.
DebitBeforeCredit ==
    (\E e \in ledger : e.ref[1] # "issued") => \E e \in ledger : e.ref = <<"issued">>

\* Refunds are serialised on their payment, "so concurrent requests can't both
\* pass the cap": what is given back is never more than was paid.
RefundsWithinPayment == \A p \in payments : Counted(RefundsOf(p.id)) <= p.amount

\* Seen from payments, refunds and ledger, whatever overlaps, fails, dies or comes
\* twice, the settlement does one whole document at a time: none is half written,
\* changed later or lost.  (applyPayment, issueInTx, refund, reverseFailedRefund)
Account == INSTANCE InvoiceAccount
ImplementsAccount == Account!Spec

\* Reconciliation heals the crash window: a link that was paid, and that is not
\* closed on our side, ends up booked, unless the invoice takes no more money
\* (closed or nothing due, for staff to review).
CapturedIsBooked ==
    \A t \in Txns :
        gateway[t].link = "paid" /\ txn[t].status \in {"PENDING", "CAPTURED"}
        ~> \/ Booked(t)
           \/ txn[t].status \in {"FAILED", "CANCELLED", "REFUNDED"}
           \/ invoice.status \in TerminalStatuses \/ invoice.due = 0

\* The invoice's paid amount is the sum of its Payment rows.
PaidMatchesPayments ==
    invoice.paid = MapThenSumSet(LAMBDA p : p.amount, payments)
=============================================================================
