----------------------- MODULE InvoiceSettlementProofs -----------------------
(***************************************************************************)
(* What InvoiceSettlement guarantees for every set of links, sessions and  *)
(* amounts, and however many payments, refunds and failures there are; and *)
(* that the settlement implements InvoiceAccount.                          *)
(***************************************************************************)
EXTENDS InvoiceSettlement, FiniteSetTheorems, TLAPS

\* What a session may be doing, and how far it may have come.
Ops == {"none", "settle", "fail", "heal", "manual", "onsite", "send", "cancel",
        "overdue", "refund", "gateway"}
Steps == {"idle", "ask", "claim", "FAILED", "CANCELLED", "read", "issue", "apply",
          "publish", "release", "staff", "cap", "refund", "provider", "reverse"}
\* Payments have the id of their link, or a number; refunds have numbers.
Ids == Txns \cup Nat

\* The shapes of a session and of the rows.
Works == [op: Ops, step: Steps, txn: Txns \cup {NoTxn}, amount: Nat,
          seen: Invoices \cup {NoInvoice}, payment: Ids \cup {NoTxn}, credit: BOOLEAN]
PaymentRows == [id: Ids, amount: Nat \ {0}]
RefundRows == [id: Nat, payment: Ids, amount: Nat \ {0}, credit: BOOLEAN,
               status: {"PROCESSING", "COMPLETED", "FAILED"}]

\* Every variable has its shape, the columns included.
Shape ==
    /\ invoice \in Invoices
    /\ issuing \in Sessions \cup {NoSession}
    /\ payments \in SUBSET PaymentRows /\ IsFiniteSet(payments)
    /\ refunding \in SUBSET [payment: Ids, session: Sessions]
    /\ refunds \in SUBSET RefundRows /\ IsFiniteSet(refunds)
    /\ txn \in [Txns -> [status: TxnStatuses, paymentRef: BOOLEAN]]
    /\ gateway \in [Txns -> [link: {"open", "paid", "expired", "cancelled", "refunded"},
                             declined: BOOLEAN]]
    /\ succeeded \in [Txns -> Nat]
    /\ session \in [Sessions -> Works]

\* The steps of applyPayment, of a call that has claimed, and of a refund.
Paying == {"read", "issue", "apply"}
Claiming == Paying \cup {"publish", "release"}
Refunding == {"cap", "refund", "provider", "reverse"}

\* What a session holds at each step.
Progress(s) ==
    LET r == session[s] IN
    /\ r.step \in {"ask", "claim", "FAILED", "CANCELLED", "publish", "release"} => r.txn \in Txns
    /\ r.step \in Claiming => r.op \in {"settle", "heal"} <=> r.txn \in Txns
    /\ r.step \in Paying => r.op \in {"settle", "heal", "manual", "onsite"}
    /\ r.step \in {"ask", "claim", "publish", "release"} => r.op = "settle"
    /\ r.step \in {"issue", "apply", "cap", "refund", "reverse"} => r.seen \in Invoices
    /\ r.step = "staff" => /\ r.op \in {"send", "cancel", "overdue"}
                           /\ r.op = "cancel" => r.seen \in Invoices
    /\ r.step \in Refunding => r.amount \in Nat \ {0}
    /\ r.step \in {"cap", "refund"} => \E p \in payments : p.id = r.payment

\* The transaction of t is neither open nor given up.
Kept(t) == txn[t].status \in {"CAPTURED", "REFUNDED"}

\* s is at work on the captured payment of t.
Holds(s, t) == session[s].step \in Claiming /\ session[s].txn = t

\* A captured payment is in one pair of hands, and announced by them.
Claims ==
    \A t \in Txns :
        /\ Booked(t) => Kept(t)
        /\ \A s \in Sessions : Holds(s, t) => Kept(t)
        /\ \A s, q \in Sessions :
              Holds(s, t) /\ Holds(q, t) /\ session[s].op = "settle" => q = s
        /\ succeeded[t] <= 1
        /\ succeeded[t] = 1 =>
              Kept(t) /\ \A s \in Sessions : Holds(s, t) => session[s].op # "settle"

\* The debit of the invoice is on record.
HasIssued == \E e \in ledger : e.ref = <<"issued">>

\* Who is sure to find the invoice's debit in the ledger.
Debits ==
    /\ payments # {} => HasIssued
    /\ invoice.status \notin {"DRAFT", "CANCELLED"} => HasIssued
    /\ (\E e \in ledger : e.ref[1] # "issued") => HasIssued
    /\ \A s \in Sessions : LET r == session[s] IN
          /\ r.step = "apply" /\ issuing # s => HasIssued
          /\ r.step = "staff" /\ r.op = "overdue" => HasIssued
          /\ r.step = "staff" /\ r.op = "cancel" /\ r.seen.status # "DRAFT" => HasIssued
          /\ r.step \in Refunding => HasIssued

\* Ids are given once.
Identities ==
    /\ \A p, q \in payments : p.id = q.id => p = q
    /\ \A p \in payments : p.id \notin Txns =>
          p.id \in 1..Cardinality({c \in payments : c.id \notin Txns})
    /\ \A r, q \in refunds : r.id = q.id => r = q
    /\ \A r \in refunds : r.id \in 1..Cardinality(refunds)
    /\ \A r \in refunds : \E p \in payments : p.id = r.payment

\* The steps that follow the commit of a refund.
Completing == {"provider", "reverse"}

\* The refund a session is about to complete or to reverse is its own.
Pending ==
    \A s \in Sessions : session[s].step \in Completing =>
        /\ \E r \in refunds : /\ r.id = session[s].payment
                              /\ r.amount = session[s].amount
                              /\ r.status = "PROCESSING"
        /\ \A q \in Sessions : /\ session[q].step \in Completing
                               /\ session[q].payment = session[s].payment
                               => q = s

\* A credit for each payment through a link, and for nothing else.
Receipts ==
    /\ \A e \in ledger : e.ref[1] = "payment" /\ e.ref[2] \in Txns =>
          \E p \in payments : p.id = e.ref[2] /\ e.delta = -p.amount
    /\ \A p \in payments : p.id \in Txns =>
          [ref |-> <<"payment", p.id>>, delta |-> -p.amount] \in ledger

\* A debit for each refund, taken back for each that has failed.
Givebacks ==
    /\ \A e \in ledger : e.ref[1] = "refund" => e.ref[2] \in 1..Cardinality(refunds)
    /\ \A r \in refunds : [ref |-> <<"refund", r.id>>, delta |-> r.amount] \in ledger
    /\ \A e \in ledger : e.ref[1] = "reversed" =>
          \E r \in refunds : r.id = e.ref[2] /\ r.status = "FAILED"
    /\ \A r \in refunds : r.status = "FAILED" =>
          [ref |-> <<"reversed", r.id>>, delta |-> -r.amount] \in ledger

\* What has been given back of a payment.
Given(p) == Counted(RefundsOf(p))

\* The cap holds while the lock is held.
Caps ==
    /\ \A p \in payments : Given(p.id) <= p.amount
    /\ \A l, m \in refunding : l.payment = m.payment => l = m
    /\ \A s \in Sessions : session[s].step = "refund" =>
          /\ [payment |-> session[s].payment, session |-> s] \in refunding
          /\ \A p \in payments : p.id = session[s].payment =>
                session[s].amount + Given(p.id) <= p.amount

\* The inductive invariant.
IInv == Shape /\ (\A s \in Sessions : Progress(s)) /\ Claims /\ Debits /\ Identities
        /\ Pending /\ Receipts /\ Givebacks /\ Caps

-----------------------------------------------------------------------------
(* Sums of amounts *)

\* The sum of a set of rows is the number of coins in it, a row of amount n being
\* n coins: cardinalities have the laws a recursive sum is to be shown to have.
Amounts(S) == MapThenSumSet(LAMBDA r : r.amount, S)
Coins(S) == UNION {{x} \X (1..x.amount) : x \in S}
Weighted(S) == \A x \in S : x.amount \in Nat
IsTotal(f, S) ==
   f = [s \in SUBSET S |-> IF s = {} THEN 0
                           ELSE LET x == CHOOSE x \in s : TRUE IN x.amount + f[s \ {x}]]

\* The sum is the value of a recursive function on the subsets of S.
LEMMA Unfold == ASSUME NEW S PROVE Amounts(S) = (CHOOSE f : IsTotal(f, S))[S]
BY DEF Amounts, MapThenSumSet, MapThenFoldSet, IsTotal

\* There are n numbers from 1 to n.
LEMMA CountTo ==
    ASSUME NEW n \in Nat
    PROVE  IsFiniteSet(1..n) /\ Cardinality(1..n) = n
<1>1. IsFiniteSet(1..n) /\ Cardinality(1..n) = IF 1 > n THEN 0 ELSE n - 1 + 1
  BY FS_Interval
<1> QED BY <1>1

\* Finitely many amounts are finitely many coins.
LEMMA CoinsFinite ==
    ASSUME NEW S, IsFiniteSet(S), Weighted(S)
    PROVE  IsFiniteSet(Coins(S)) /\ Cardinality(Coins(S)) \in Nat
<1> DEFINE purse == [x \in S |-> {x} \X (1..x.amount)]
           purses == {{x} \X (1..x.amount) : x \in S}
<1>1. purse \in Surjection(S, purses)
  BY DEF Surjection
<1>2. IsFiniteSet(purses)
  <2> HIDE DEF purse, purses
  <2> QED BY <1>1, FS_Surjection
<1>3. ASSUME NEW p \in purses PROVE IsFiniteSet(p)
  <2>1. PICK x \in S : p = {x} \X (1..x.amount)
    OBVIOUS
  <2>2. IsFiniteSet({x}) /\ IsFiniteSet(1..x.amount)
    <3>1. x.amount \in Nat
      BY DEF Weighted
    <3> QED BY <3>1, FS_Singleton, CountTo
  <2> DEFINE range == 1..x.amount
  <2> HIDE DEF range
  <2>3. IsFiniteSet({x} \X range)
    BY <2>2, FS_Product DEF range
  <2> QED BY <2>1, <2>3 DEF range
<1>4. IsFiniteSet(UNION purses)
  <2> HIDE DEF purses
  <2> QED BY <1>2, <1>3, FS_UNION
<1> QED BY <1>4, FS_CardinalityType DEF Coins

\* Each row has coins of its own.
LEMMA CoinsWithout ==
    ASSUME NEW S, IsFiniteSet(S), Weighted(S), NEW x \in S
    PROVE  Cardinality(Coins(S)) = x.amount + Cardinality(Coins(S \ {x}))
<1> DEFINE range == 1..x.amount
           own == {x} \X range
           rest == Coins(S \ {x})
<1>0. x.amount \in Nat
  BY DEF Weighted
<1>1. Coins(S) = own \cup rest /\ own \cap rest = {}
  BY DEF Coins
<1>2. IsFiniteSet(S \ {x}) /\ Weighted(S \ {x})
  BY FS_RemoveElement DEF Weighted
<1>3. IsFiniteSet(rest) /\ Cardinality(rest) \in Nat
  BY <1>2, CoinsFinite
<1>4. /\ IsFiniteSet({x}) /\ Cardinality({x}) = 1
      /\ IsFiniteSet(range) /\ Cardinality(range) = x.amount
  BY <1>0, FS_Singleton, CountTo
<1> HIDE DEF range
<1>5. IsFiniteSet(own) /\ Cardinality(own) = 1 * x.amount
  <2>1. IsFiniteSet({x} \X range)
        /\ Cardinality({x} \X range) = Cardinality({x}) * Cardinality(range)
    BY <1>4, FS_Product
  <2> QED BY <2>1, <1>4
<1> HIDE DEF own, rest
<1>6. Cardinality(own \cup rest) = Cardinality(own) + Cardinality(rest) - Cardinality(own \cap rest)
  BY <1>3, <1>5, FS_Union
<1>7. Cardinality(own \cap rest) = 0
  BY <1>1, FS_EmptySet
<1>8. Cardinality(own \cup rest) = x.amount + Cardinality(rest)
  BY <1>0, <1>3, <1>5, <1>6, <1>7
<1> QED BY <1>1, <1>8 DEF rest

\* A least subset on which sum and number of coins differ cannot exist.
LEMMA AmountsAreCoins ==
    ASSUME NEW S, IsFiniteSet(S), Weighted(S)
    PROVE  Amounts(S) = Cardinality(Coins(S))
<1> DEFINE g == [s \in SUBSET S |-> Cardinality(Coins(s))]
           f == CHOOSE f : IsTotal(f, S)
           bad == {s \in SUBSET S : f[s] # g[s]}
<1>1. \A s \in SUBSET S : IsFiniteSet(s) /\ Weighted(s)
  BY FS_Subset DEF Weighted
<1>2. g[{}] = 0
  BY FS_EmptySet DEF Coins
<1>3. ASSUME NEW s \in SUBSET S, s # {}
      PROVE  LET x == CHOOSE x \in s : TRUE IN x \in s /\ g[s] = x.amount + g[s \ {x}]
  <2> DEFINE x == CHOOSE x \in s : TRUE
  <2>1. x \in s
    BY <1>3
  <2> HIDE DEF x
  <2>2. Cardinality(Coins(s)) = x.amount + Cardinality(Coins(s \ {x}))
    BY <2>1, <1>1, CoinsWithout
  <2>3. g[s] = x.amount + g[s \ {x}]
    BY <2>2
  <2> QED BY <2>1, <2>3 DEF x
<1>4. IsTotal(g, S)
  <2> DEFINE h == [s \in SUBSET S |-> IF s = {} THEN 0
                           ELSE LET x == CHOOSE x \in s : TRUE IN x.amount + g[s \ {x}]]
  <2>1. ASSUME NEW s \in SUBSET S PROVE g[s] = h[s]
    <3>1. CASE s = {}
       BY <3>1, <1>2
    <3>2. CASE s # {}
       <4> HIDE DEF g
       <4> QED BY <3>2, <1>3
    <3> QED BY <3>1, <3>2
  <2>2. g = h
    BY <2>1
  <2> HIDE DEF g
  <2> QED BY <2>2 DEF IsTotal
<1>5. IsTotal(f, S)
  <2> HIDE DEF g
  <2> QED BY <1>4
<1>6. /\ f[{}] = 0
      /\ \A s \in SUBSET S : s # {} =>
            LET x == CHOOSE x \in s : TRUE IN f[s] = x.amount + f[s \ {x}]
  <2> HIDE DEF f
  <2> QED BY <1>5 DEF IsTotal
<1>7. bad = {}
  <2> SUFFICES ASSUME bad # {} PROVE FALSE
    OBVIOUS
  <2>1. IsWellFoundedOn(StrictSubsetOrdering(S), FiniteSubsetsOf(S))
    BY FS_StrictSubsetOrderingWellFounded
  <2>2. bad \subseteq FiniteSubsetsOf(S)
    BY <1>1 DEF FiniteSubsetsOf
  <2> HIDE DEF bad
  <2>3. PICK s \in bad : \A t \in bad : <<t, s>> \notin StrictSubsetOrdering(S)
    BY <2>1, <2>2, WFMin
  <2> USE DEF bad
  <2> HIDE DEF f, g
  <2>4. s \in SUBSET S /\ f[s] # g[s]
    OBVIOUS
  <2>5. s # {}
    BY <2>4, <1>2, <1>6
  <2> DEFINE x == CHOOSE x \in s : TRUE
  <2>6. x \in s /\ g[s] = x.amount + g[s \ {x}] /\ f[s] = x.amount + f[s \ {x}]
    BY <2>4, <2>5, <1>3, <1>6
  <2> HIDE DEF x
  <2>7. s \ {x} \in SUBSET S /\ s \ {x} # s
    BY <2>4, <2>6
  <2>8. <<s \ {x}, s>> \in StrictSubsetOrdering(S)
    BY <2>4, <2>7 DEF StrictSubsetOrdering
  <2>9. s \ {x} \notin bad
    BY <2>3, <2>8
  <2> QED BY <2>4, <2>6, <2>7, <2>9
<1>8. f[S] = g[S]
  <2> HIDE DEF f, g
  <2> QED BY <1>7
<1> QED BY <1>8, Unfold

-----------------------------------------------------------------------------
(* Sessions *)

\* The session record of nobody is a session record.
LEMMA IdleType == Idle \in Works /\ Idle.step = "idle" /\ Idle.txn = NoTxn
BY DEF Idle, Works, Ops, Steps

\* Only the session of s moves.
OnlyMoves(s) == /\ session' \in [Sessions -> Works]
                /\ \A q \in Sessions \ {s} : session'[q] = session[q]

\* s goes to a step, and knows what it knew.
Keeps(s) == /\ session'[s].op = session[s].op
            /\ session'[s].txn = session[s].txn
            /\ session'[s].amount = session[s].amount
            /\ session'[s].payment = session[s].payment

\* A session that turns into a record is the only one that moves.
LEMMA Turned ==
    ASSUME Shape, NEW s \in Sessions, NEW r \in Works, session' = [session EXCEPT ![s] = r]
    PROVE  OnlyMoves(s) /\ session'[s] = r
BY DEF Shape, OnlyMoves

\* Stop ends the session's work.
LEMMA Stopped ==
    ASSUME Shape, NEW s \in Sessions, Stop(s)
    PROVE  OnlyMoves(s) /\ session'[s] = Idle
BY IdleType, Turned DEF Stop

\* A session that goes to a step.
LEMMA Gone ==
    ASSUME Shape, NEW s \in Sessions, NEW step \in Steps, Goto(s, step)
    PROVE  /\ OnlyMoves(s) /\ Keeps(s)
           /\ session'[s].step = step /\ session'[s].seen = session[s].seen
<1> DEFINE r == [session[s] EXCEPT !.step = step]
<1>1. session[s] \in Works
  BY DEF Shape
<1>2. /\ r \in Works /\ r.step = step
      /\ r.op = session[s].op /\ r.txn = session[s].txn /\ r.amount = session[s].amount
      /\ r.payment = session[s].payment /\ r.seen = session[s].seen
  BY <1>1 DEF Works
<1>3. session' = [session EXCEPT ![s] = r]
  BY DEF Goto
<1> HIDE DEF r
<1> QED BY <1>2, <1>3, Turned DEF Keeps

\* A session that goes to a step with another reading of the invoice.
LEMMA GoneWith ==
    ASSUME Shape, NEW s \in Sessions, NEW step \in Steps, NEW seen \in Invoices \cup {NoInvoice},
           session' = [session EXCEPT ![s].step = step, ![s].seen = seen]
    PROVE  /\ OnlyMoves(s) /\ Keeps(s)
           /\ session'[s].step = step /\ session'[s].seen = seen
<1> DEFINE r == [session[s] EXCEPT !.step = step, !.seen = seen]
<1>1. session[s] \in Works
  BY DEF Shape
<1>2. /\ r \in Works /\ r.step = step
      /\ r.op = session[s].op /\ r.txn = session[s].txn /\ r.amount = session[s].amount
      /\ r.payment = session[s].payment /\ r.seen = seen
  BY <1>1 DEF Works
<1>3. session' = [session EXCEPT ![s] = r]
  BY <1>1 DEF Shape
<1> HIDE DEF r
<1> QED BY <1>2, <1>3, Turned DEF Keeps

\* A transaction that ends: a settling call goes on, any other session stops.
LEMMA Ended ==
    ASSUME Shape, NEW s \in Sessions, NEW step \in {"publish", "release"},
           EndTransaction(s, step)
    PROVE  /\ OnlyMoves(s) /\ Unlock(s)
           /\ \/ session[s].op # "settle" /\ session'[s] = Idle
              \/ session[s].op = "settle" /\ Keeps(s) /\ session'[s].step = step
<1>1. CASE session[s].op = "settle"
  <2>1. session' = [session EXCEPT ![s].step = step, ![s].seen = NoInvoice] /\ Unlock(s)
    BY <1>1 DEF EndTransaction
  <2>2. step \in Steps
    BY DEF Steps
  <2> QED BY <1>1, <2>1, <2>2, GoneWith
<1>2. CASE session[s].op # "settle"
  <2>1. Stop(s)
    BY <1>2 DEF EndTransaction
  <2> QED BY <1>2, <2>1, Stopped DEF Stop
<1> QED BY <1>1, <1>2

\* Unlocking takes away the session's locks and no other.
LEMMA Unlocked ==
    ASSUME Shape, NEW s \in Sessions, Unlock(s)
    PROVE  /\ issuing' \in Sessions \cup {NoSession}
           /\ issuing' \in {issuing, NoSession} /\ issuing' # s
           /\ \A q \in Sessions \ {s} : issuing = q => issuing' = q
           /\ refunding' \in SUBSET refunding
           /\ \A l \in refunding : l.session # s => l \in refunding'
BY SettlementAssumption DEF Shape, Unlock

\* A webhook or the reconciler takes up a transaction.
LEMMA Taken ==
    ASSUME Shape, NEW s \in Sessions, NEW op \in Ops, NEW step \in Steps, NEW t \in Txns,
           Take(s, op, step, t)
    PROVE  /\ OnlyMoves(s) /\ session[s].step = "idle"
           /\ session'[s].op = op /\ session'[s].step = step /\ session'[s].txn = t
           /\ UNCHANGED <<books, issuing, refunding, txn, gateway, succeeded>>
<1> DEFINE r == [Idle EXCEPT !.op = op, !.step = step, !.txn = t, !.amount = AmountOf[t]]
<1>1. AmountOf[t] \in Nat
  BY SettlementAssumption
<1>2. r \in Works /\ r.op = op /\ r.step = step /\ r.txn = t
  BY <1>1, IdleType DEF Works, Idle, Ids
<1>3. session' = [session EXCEPT ![s] = r]
  BY DEF Take
<1> HIDE DEF r
<1>4. OnlyMoves(s) /\ session'[s] = r
  BY <1>2, <1>3, Turned
<1> QED BY <1>2, <1>4 DEF Take, At

\* Cash is recorded.
LEMMA CashTaken ==
    ASSUME Shape, NEW s \in Sessions, NEW op \in {"manual", "onsite"}, NEW n \in CashAmounts,
           TakeCash(s, op, n)
    PROVE  /\ OnlyMoves(s) /\ session[s].step = "idle"
           /\ session'[s].op = op /\ session'[s].step = "read" /\ session'[s].txn = NoTxn
           /\ UNCHANGED <<books, issuing, refunding, txn, gateway, succeeded>>
<1> DEFINE r == [Idle EXCEPT !.op = op, !.step = "read", !.amount = n]
<1>1. n \in Nat
  BY SettlementAssumption
<1>2. r \in Works /\ r.op = op /\ r.step = "read" /\ r.txn = NoTxn
  BY <1>1, IdleType DEF Works, Idle, Ids, Ops, Steps
<1>3. session' = [session EXCEPT ![s] = r]
  BY DEF TakeCash
<1> HIDE DEF r
<1>4. OnlyMoves(s) /\ session'[s] = r
  BY <1>2, <1>3, Turned
<1> QED BY <1>2, <1>4 DEF TakeCash, At

\* Staff, or the sweep, have checked the invoice.
LEMMA StaffStarted ==
    ASSUME Shape, NEW s \in Sessions, NEW op \in {"send", "cancel", "overdue"},
           StartStaff(s, op)
    PROVE  /\ OnlyMoves(s) /\ session[s].step = "idle"
           /\ session'[s].op = op /\ session'[s].step = "staff" /\ session'[s].txn = NoTxn
           /\ op = "cancel" => session'[s].seen = invoice
           /\ op = "overdue" => invoice.status \in {"SENT", "PARTIALLY_PAID"}
           /\ op = "cancel" => invoice.status \notin TerminalStatuses
           /\ UNCHANGED <<books, issuing, refunding, txn, gateway, succeeded>>
<1> DEFINE r == [Idle EXCEPT !.op = op, !.step = "staff",
                             !.seen = IF op = "cancel" THEN invoice ELSE NoInvoice]
<1>1. invoice \in Invoices
  BY DEF Shape
<1>2. /\ r \in Works /\ r.op = op /\ r.step = "staff" /\ r.txn = NoTxn
      /\ op = "cancel" => r.seen = invoice
  BY <1>1, IdleType DEF Works, Idle, Ids, Ops, Steps
<1>3. session' = [session EXCEPT ![s] = r]
  BY DEF StartStaff
<1> HIDE DEF r
<1>4. OnlyMoves(s) /\ session'[s] = r
  BY <1>2, <1>3, Turned
<1>5. /\ op = "overdue" => invoice.status \in {"SENT", "PARTIALLY_PAID"}
      /\ op = "cancel" => invoice.status \notin TerminalStatuses
  BY DEF StartStaff, MayStart
<1> QED BY <1>2, <1>4, <1>5 DEF StartStaff, At

\* A refund is asked for.
LEMMA RefundStarted ==
    ASSUME Shape, NEW s \in Sessions, NEW op \in {"refund", "gateway"}, NEW p \in payments,
           NEW n \in RefundAmounts, NEW credit \in CreditNotes, StartRefund(s, op, p, n, credit)
    PROVE  /\ OnlyMoves(s) /\ session[s].step = "idle"
           /\ session'[s].op = op /\ session'[s].step = "cap" /\ session'[s].txn = NoTxn
           /\ session'[s].amount = n /\ n \in Nat \ {0}
           /\ session'[s].payment = p.id /\ session'[s].seen = invoice
           /\ UNCHANGED <<books, issuing, refunding, txn, gateway, succeeded>>
<1> DEFINE r == [Idle EXCEPT !.op = op, !.step = "cap", !.amount = n, !.seen = invoice,
                             !.payment = p.id, !.credit = credit]
<1>1. /\ n \in Nat \ {0} /\ credit \in BOOLEAN
      /\ invoice \in Invoices /\ p.id \in Ids
  BY SettlementAssumption DEF Shape, PaymentRows
<1>2. /\ r \in Works /\ r.op = op /\ r.step = "cap" /\ r.txn = NoTxn /\ r.amount = n
      /\ r.payment = p.id /\ r.seen = invoice
  BY <1>1, IdleType DEF Works, Idle, Ops, Steps
<1>3. session' = [session EXCEPT ![s] = r]
  BY DEF StartRefund
<1> HIDE DEF r
<1>4. OnlyMoves(s) /\ session'[s] = r
  BY <1>2, <1>3, Turned
<1> QED BY <1>1, <1>2, <1>4 DEF StartRefund, At

\* What the provider answers sends the session on.
LEMMA TruthTold ==
    ASSUME Shape, NEW s \in Sessions, ProviderTruth(s), Progress(s)
    PROVE  /\ OnlyMoves(s) /\ session[s].step = "ask"
           /\ \/ session'[s] = Idle
              \/ Keeps(s) /\ session'[s].step \in {"claim", "FAILED", "CANCELLED"}
           /\ UNCHANGED <<books, issuing, refunding, txn, gateway, succeeded>>
<1> DEFINE link == gateway[session[s].txn].link
<1>1. session[s].step = "ask" /\ session[s].txn \in Txns
  BY DEF ProviderTruth, At, Progress
<1>2. link \in {"open", "paid", "expired", "cancelled", "refunded"}
  BY <1>1 DEF Shape
<1>3. \/ \E step \in {"claim", "FAILED", "CANCELLED"} : Goto(s, step)
      \/ session' = [session EXCEPT ![s] = Idle]
  BY <1>2 DEF ProviderTruth
<1> HIDE DEF link
<1>4. UNCHANGED <<books, issuing, refunding, txn, gateway, succeeded>>
  BY DEF ProviderTruth
<1>5. CASE session' = [session EXCEPT ![s] = Idle]
  BY <1>1, <1>4, <1>5, IdleType, Turned
<1>6. ASSUME NEW step \in {"claim", "FAILED", "CANCELLED"}, Goto(s, step)
      PROVE  OnlyMoves(s) /\ Keeps(s) /\ session'[s].step = step
  <2>1. step \in Steps
    BY DEF Steps
  <2> QED BY <1>6, <2>1, Gone
<1> QED BY <1>1, <1>3, <1>4, <1>5, <1>6

\* The invoice is read.
LEMMA InvoiceRead ==
    ASSUME Shape, NEW s \in Sessions, ReadInvoice(s)
    PROVE  /\ OnlyMoves(s) /\ Keeps(s) /\ session[s].step = "read"
           /\ session'[s].step \in {"issue", "apply"} /\ session'[s].seen = invoice
           /\ session'[s].step = "apply" => invoice.status \notin {"DRAFT"} \cup TerminalStatuses
           /\ UNCHANGED <<books, issuing, refunding, txn, gateway, succeeded>>
<1> DEFINE step == IF invoice.status = "DRAFT" THEN "issue" ELSE "apply"
<1>1. step \in Steps /\ invoice \in Invoices
  BY DEF Steps, Shape
<1>2. session' = [session EXCEPT ![s].step = step, ![s].seen = invoice]
  <2>1. session' = [session EXCEPT ![s].seen = invoice, ![s].step = step]
    BY DEF ReadInvoice
  <2>2. session[s] \in Works
    BY DEF Shape
  <2> QED BY <2>1, <2>2 DEF Shape, Works
<1>3. session'[s].step = step /\ session'[s].seen = invoice /\ OnlyMoves(s) /\ Keeps(s)
  <2> HIDE DEF step
  <2> QED BY <1>1, <1>2, GoneWith
<1> QED BY <1>3 DEF ReadInvoice, At

\* The draft is issued in the transaction that settles it.
LEMMA DraftIssued ==
    ASSUME Shape, NEW s \in Sessions, IssueDraft(s)
    PROVE  /\ OnlyMoves(s) /\ Keeps(s) /\ session[s].step = "issue"
           /\ session'[s].step = "apply" /\ session'[s].seen = session[s].seen
           /\ issuing = NoSession /\ issuing' = s
           /\ UNCHANGED <<books, refunding, txn, gateway, succeeded>>
<1>1. "apply" \in Steps
  BY DEF Steps
<1>2. Goto(s, "apply")
  BY DEF IssueDraft
<1> QED BY <1>1, <1>2, Gone DEF IssueDraft, At

\* A transaction that is rolled back: refused, a duplicate, or a failure.
LEMMA RolledBack ==
    ASSUME Shape, NEW s \in Sessions, Refused(s) \/ NotApplied(s) \/ StatementFails(s) \/ Crash(s)
    PROVE  /\ OnlyMoves(s) /\ Unlock(s) /\ session[s].step # "idle"
           /\ \/ session'[s] = Idle
              \/ /\ session[s].op = "settle" /\ session[s].step \in Paying
                 /\ Keeps(s) /\ session'[s].step \in {"publish", "release"}
           /\ UNCHANGED <<books, txn, gateway, succeeded>>
<1>1. CASE Crash(s)
  BY <1>1, Stopped DEF Crash, Stop, At
<1>2. ASSUME NEW step \in {"publish", "release"}, EndTransaction(s, step),
             session[s].step \in Paying,
             UNCHANGED <<books, txn, gateway, succeeded>>
      PROVE  /\ OnlyMoves(s) /\ Unlock(s) /\ session[s].step # "idle"
             /\ \/ session'[s] = Idle
                \/ /\ session[s].op = "settle" /\ session[s].step \in Paying
                   /\ Keeps(s) /\ session'[s].step \in {"publish", "release"}
             /\ UNCHANGED <<books, txn, gateway, succeeded>>
  BY <1>2, Ended DEF Paying
<1>3. CASE Refused(s)
  BY <1>2, <1>3 DEF Refused, At, Paying
<1>4. CASE NotApplied(s)
  BY <1>2, <1>4 DEF NotApplied, At, Paying
<1>5. CASE StatementFails(s)
  BY <1>2, <1>5 DEF StatementFails, Paying
<1> QED BY <1>1, <1>3, <1>4, <1>5

\* The rows of payment_transactions, and the provider's view of a link.
TxnRows == [status: TxnStatuses, paymentRef: BOOLEAN]
GatewayRows == [link: {"open", "paid", "expired", "cancelled", "refunded"}, declined: BOOLEAN]

\* A step on a link alone, of the customer, the provider or its webhook.
LinkStep(t) ==
    \/ AskForLink(t) \/ LinkCreated(t)
    \/ Declined(t) \/ Paid(t) \/ Closed(t) \/ RefundedThere(t)
    \/ RefundedWebhook(t)

\* No step on a link takes a captured payment back.
LEMMA LinkMoved ==
    ASSUME Shape, NEW t \in Txns, LinkStep(t)
    PROVE  /\ UNCHANGED <<books, issuing, refunding, succeeded, session>>
           /\ txn' \in [Txns -> TxnRows] /\ gateway' \in [Txns -> GatewayRows]
           /\ \A u \in Txns : Kept(u) => Kept(u)'
<1>0. txn \in [Txns -> TxnRows] /\ gateway \in [Txns -> GatewayRows]
  BY DEF Shape, TxnRows, GatewayRows
<1> DEFINE to(status) == [txn[t] EXCEPT !.status = status]
<1>1. \A status \in TxnStatuses : to(status) \in TxnRows /\ to(status).status = status
  BY <1>0 DEF TxnRows
<1>2. CASE AskForLink(t) \/ LinkCreated(t) \/ RefundedWebhook(t)
  <2>1. /\ UNCHANGED <<books, issuing, refunding, gateway, succeeded, session>>
        /\ \E status \in {"ASKED", "PENDING", "REFUNDED"} :
              /\ txn' = [txn EXCEPT ![t] = to(status)]
              /\ status = "REFUNDED" \/ ~Kept(t)
    BY <1>2, <1>0 DEF AskForLink, LinkCreated, RefundedWebhook, Kept
  <2>2. PICK status \in {"ASKED", "PENDING", "REFUNDED"} :
              /\ txn' = [txn EXCEPT ![t] = to(status)]
              /\ status = "REFUNDED" \/ ~Kept(t)
    BY <2>1
  <2>3. to(status) \in TxnRows /\ to(status).status = status
    BY <1>1 DEF TxnStatuses
  <2> HIDE DEF to
  <2>4. txn' \in [Txns -> TxnRows]
    BY <1>0, <2>2, <2>3
  <2>5. \A u \in Txns : Kept(u) => Kept(u)'
    BY <1>0, <2>2, <2>3 DEF Kept
  <2> QED BY <1>0, <2>1, <2>4, <2>5
<1>3. CASE Declined(t) \/ Paid(t) \/ Closed(t) \/ RefundedThere(t)
  <2>1. PICK row \in GatewayRows : Provider(t, row)
    BY <1>3, <1>0 DEF Declined, Paid, Closed, RefundedThere, GatewayRows
  <2> QED BY <2>1, <1>0 DEF Provider, Kept
<1> QED BY <1>2, <1>3 DEF LinkStep

\* A transaction is marked, unless it is no longer open.
LEMMA Marked ==
    ASSUME Shape, NEW s \in Sessions, MarkTerminal(s), Progress(s)
    PROVE  /\ OnlyMoves(s) /\ Unlock(s) /\ session'[s] = Idle
           /\ UNCHANGED <<books, gateway, succeeded>>
           /\ txn' \in [Txns -> TxnRows]
           /\ \A u \in Txns : Kept(u) => Kept(u)'
<1> DEFINE t == session[s].txn
           row == [txn[t] EXCEPT !.status = session[s].step]
<1>1. t \in Txns /\ session[s].step \in {"FAILED", "CANCELLED"}
  BY DEF MarkTerminal, Progress
<1>2. txn \in [Txns -> TxnRows]
  BY DEF Shape, TxnRows
<1>3. row \in TxnRows
  BY <1>1, <1>2 DEF TxnRows, TxnStatuses
<1>4. \/ txn' = txn
      \/ txn[t].status = "PENDING" /\ txn' = [txn EXCEPT ![t] = row]
  <2>1. txn' = IF txn[t].status \in OpenStatuses
               THEN [txn EXCEPT ![t].status = session[s].step] ELSE txn
    BY DEF MarkTerminal
  <2>2. [txn EXCEPT ![t].status = session[s].step] = [txn EXCEPT ![t] = row]
    BY <1>1, <1>2
  <2> HIDE DEF row
  <2> QED BY <2>1, <2>2 DEF OpenStatuses
<1> HIDE DEF row
<1>5. txn' \in [Txns -> TxnRows] /\ \A u \in Txns : Kept(u) => Kept(u)'
  BY <1>1, <1>2, <1>3, <1>4 DEF Kept
<1>6. Stop(s) /\ UNCHANGED <<books, gateway, succeeded>>
  BY DEF MarkTerminal
<1> QED BY <1>5, <1>6, Stopped DEF Stop

\* The claim is won by one session, or the session stops.
LEMMA Claimed ==
    ASSUME Shape, NEW s \in Sessions, Claim(s), Progress(s), NEW t, session[s].txn = t
    PROVE  /\ OnlyMoves(s) /\ session[s].step = "claim" /\ t \in Txns
           /\ UNCHANGED <<books, gateway, succeeded>>
           /\ txn' \in [Txns -> TxnRows]
           /\ \/ /\ session'[s] = Idle /\ Unlock(s) /\ UNCHANGED txn
              \/ /\ Keeps(s) /\ session'[s].step = "read"
                 /\ UNCHANGED <<issuing, refunding>>
                 /\ ~Kept(t) /\ Kept(t)'
                 /\ \A u \in Txns \ {t} : txn'[u] = txn[u]
<1> DEFINE row == [status |-> "CAPTURED", paymentRef |-> TRUE]
<1>1. t \in Txns /\ session[s].step = "claim" /\ txn \in [Txns -> TxnRows]
  BY DEF Claim, At, Progress, Shape, TxnRows
<1>2. row \in TxnRows /\ row.status = "CAPTURED" /\ "read" \in Steps
  BY DEF TxnRows, TxnStatuses, Steps
<1>3. UNCHANGED <<books, gateway, succeeded>>
  BY DEF Claim
<1>4. CASE txn[t].status \in OpenStatuses
  <2>1. txn' = [txn EXCEPT ![t] = row] /\ Goto(s, "read") /\ UNCHANGED <<issuing, refunding>>
    BY <1>4 DEF Claim
  <2> HIDE DEF row
  <2>2. /\ txn' \in [Txns -> TxnRows] /\ txn'[t].status = "CAPTURED"
        /\ \A u \in Txns \ {t} : txn'[u] = txn[u]
    BY <2>1, <1>1, <1>2
  <2>3. OnlyMoves(s) /\ Keeps(s) /\ session'[s].step = "read"
    BY <2>1, <1>2, Gone
  <2> QED BY <1>1, <1>3, <1>4, <2>1, <2>2, <2>3 DEF Kept, OpenStatuses
<1>5. CASE txn[t].status \notin OpenStatuses
  <2>1. Stop(s) /\ UNCHANGED txn
    BY <1>5 DEF Claim
  <2> QED BY <2>1, <1>1, <1>3, Stopped DEF Stop
<1> QED BY <1>4, <1>5

\* The claim is released, unless the payment did land.
LEMMA Released ==
    ASSUME Shape, NEW s \in Sessions, Release(s), Progress(s), NEW t, session[s].txn = t
    PROVE  /\ OnlyMoves(s) /\ Unlock(s) /\ session[s].step = "release" /\ session'[s] = Idle
           /\ t \in Txns /\ session[s].op = "settle"
           /\ UNCHANGED <<books, gateway, succeeded>>
           /\ txn' \in [Txns -> TxnRows]
           /\ Booked(t) => txn' = txn
           /\ \A u \in Txns \ {t} : txn'[u] = txn[u]
<1> DEFINE row == [txn[t] EXCEPT !.status = "PENDING"]
<1>1. /\ t \in Txns /\ session[s].step = "release" /\ session[s].op = "settle"
      /\ txn \in [Txns -> TxnRows]
  BY DEF Release, At, Progress, Shape, TxnRows
<1>2. row \in TxnRows
  BY <1>1 DEF TxnRows, TxnStatuses
<1>3. \/ txn' = txn
      \/ ~Booked(t) /\ txn' = [txn EXCEPT ![t] = row]
  <2>1. txn' = IF txn[t].status = "CAPTURED" /\ ~Booked(t)
               THEN [txn EXCEPT ![t].status = "PENDING"] ELSE txn
    BY DEF Release
  <2>2. [txn EXCEPT ![t].status = "PENDING"] = [txn EXCEPT ![t] = row]
    BY <1>1
  <2> HIDE DEF row
  <2> QED BY <2>1, <2>2
<1> HIDE DEF row
<1>4. /\ txn' \in [Txns -> TxnRows]
      /\ Booked(t) => txn' = txn
      /\ \A u \in Txns \ {t} : txn'[u] = txn[u]
  BY <1>1, <1>2, <1>3
<1>5. Stop(s) /\ UNCHANGED <<books, gateway, succeeded>>
  BY DEF Release
<1> QED BY <1>1, <1>4, <1>5, Stopped DEF Stop

\* The event is published.
LEMMA Published ==
    ASSUME Shape, NEW s \in Sessions, Publish(s), Progress(s), NEW t, session[s].txn = t
    PROVE  /\ OnlyMoves(s) /\ Unlock(s) /\ session[s].step = "publish" /\ session'[s] = Idle
           /\ t \in Txns /\ session[s].op = "settle"
           /\ UNCHANGED <<books, txn, gateway>>
           /\ succeeded' \in [Txns -> Nat]
           /\ succeeded'[t] = succeeded[t] + 1
           /\ \A u \in Txns \ {t} : succeeded'[u] = succeeded[u]
<1>1. /\ t \in Txns /\ session[s].step = "publish" /\ session[s].op = "settle"
      /\ succeeded \in [Txns -> Nat]
  BY DEF Publish, At, Progress, Shape
<1>2. succeeded' = [succeeded EXCEPT ![t] = succeeded[t] + 1]
  BY DEF Publish
<1>3. succeeded[t] + 1 \in Nat
  BY <1>1
<1>4. /\ succeeded' \in [Txns -> Nat] /\ succeeded'[t] = succeeded[t] + 1
      /\ \A u \in Txns \ {t} : succeeded'[u] = succeeded[u]
  BY <1>1, <1>2, <1>3
<1>5. Stop(s) /\ UNCHANGED <<books, txn, gateway>>
  BY DEF Publish
<1> QED BY <1>1, <1>4, <1>5, Stopped DEF Stop

-----------------------------------------------------------------------------
(* The books *)

\* Posting adds the entry, unless its reference is on record.
LEMMA PostedIs ==
    ASSUME NEW entries, NEW ref, NEW delta
    PROVE  /\ entries \subseteq Posted(entries, ref, delta)
           /\ \A e \in Posted(entries, ref, delta) \ entries : e = [ref |-> ref, delta |-> delta]
           /\ \E e \in Posted(entries, ref, delta) : e.ref = ref
           /\ (\A e \in entries : e.ref # ref) =>
                 [ref |-> ref, delta |-> delta] \in Posted(entries, ref, delta)
BY DEF Posted

\* Issuing adds the debit of the invoice.
LEMMA IssuedIs ==
    ASSUME NEW entries
    PROVE  /\ entries \subseteq Issued(entries)
           /\ \A e \in Issued(entries) \ entries : e.ref[1] = "issued"
           /\ \E e \in Issued(entries) : e.ref = <<"issued">>
<1> DEFINE ref == <<"issued">>
           debit == [ref |-> ref, delta |-> Total]
<1>1. debit.ref = ref /\ ref[1] = "issued"
  OBVIOUS
<1>2. Issued(entries) = Posted(entries, ref, Total)
  BY DEF Issued
<1> HIDE DEF ref
<1>3. /\ entries \subseteq Posted(entries, ref, Total)
      /\ \A e \in Posted(entries, ref, Total) \ entries : e = debit
      /\ \E e \in Posted(entries, ref, Total) : e.ref = ref
  BY PostedIs
<1> HIDE DEF debit
<1> QED BY <1>1, <1>2, <1>3 DEF ref

\* The ledger only grows, and only by entries of these kinds.
Grows(kinds) == ledger \subseteq ledger' /\ \A e \in ledger' \ ledger : e.ref[1] \in kinds

\* What an amount subtracted and cut off at zero is.
LEMMA AtLeastZeroType == ASSUME NEW n \in Int PROVE AtLeastZero(n) \in Nat
BY DEF AtLeastZero

\* The id of the next cash payment, and of the next refund.
LEMMA NextIds ==
    ASSUME Shape
    PROVE  CashId \in Nat \ {0} /\ RefundId \in Nat \ {0}
<1>1. IsFiniteSet({p \in payments : p.id \notin Txns}) /\ IsFiniteSet(refunds)
  BY FS_Subset DEF Shape
<1>2. /\ Cardinality({p \in payments : p.id \notin Txns}) \in Nat
      /\ Cardinality(refunds) \in Nat
  BY <1>1, FS_CardinalityType
<1> QED BY <1>2 DEF CashId, RefundId

\* A payment that lands: its row, its credit and the invoice.
LEMMA Landed ==
    ASSUME Shape, NEW s \in Sessions, Progress(s), NEW tick \in Ticks,
           ApplyPayment(s, tick) \/ CommitUnanswered(s, tick)
    PROVE  /\ session[s].step = "apply"
           /\ OnlyMoves(s) /\ Unlock(s)
           /\ \/ session'[s] = Idle
              \/ /\ session[s].op = "settle"
                 /\ Keeps(s) /\ session'[s].step \in {"publish", "release"}
           /\ UNCHANGED <<refunds, txn, gateway, succeeded>>
           /\ invoice' \in Invoices /\ invoice'.status \in {"PAID", "PARTIALLY_PAID"}
           /\ issuing = s => HasIssued'
           /\ ~Booked(session[s].txn)
           /\ \E n \in Nat \ {0}, id, key \in Ids :
                 /\ session[s].txn \in Txns => id = session[s].txn /\ key = session[s].txn
                 /\ session[s].txn \notin Txns => id = CashId /\ id \in Nat /\ key \in Nat
                 /\ payments' = payments \cup {[id |-> id, amount |-> n]}
                 /\ ledger \subseteq ledger'
                 /\ \A e \in ledger' \ ledger :
                       e.ref[1] = "issued" \/ e = [ref |-> <<"payment", key>>, delta |-> -n]
                 /\ (\A e \in ledger : e.ref # <<"payment", key>>) =>
                       [ref |-> <<"payment", key>>, delta |-> -n] \in ledger'
<1> DEFINE n == ApplyAmount(s)
           t == session[s].txn
           id == IF t = NoTxn THEN CashId ELSE t
           key == IF t = NoTxn THEN tick ELSE t
           before == IF issuing = s THEN Issued(ledger) ELSE ledger
<1>1. /\ session[s].step = "apply" /\ ~Booked(t) /\ n > 0 /\ WriteBooks(s, tick)
      /\ UNCHANGED <<refunds, txn, gateway, succeeded>>
      /\ \E step \in {"publish", "release"} : EndTransaction(s, step)
  BY DEF ApplyPayment, CommitUnanswered, At
<1>2. session[s] \in Works /\ session[s].seen \in Invoices
  BY <1>1 DEF Shape, Progress
<1>3. n \in Nat \ {0}
  <2>1. n = Least(session[s].amount, session[s].seen.due)
    BY DEF ApplyAmount
  <2>2. session[s].amount \in Nat /\ session[s].seen.due \in Nat
    BY <1>2 DEF Works, Invoices
  <2> QED BY <1>1, <2>1, <2>2 DEF Least
<1>4. /\ t \in Txns \cup {NoTxn} /\ NoTxn \notin Txns /\ tick \in Nat /\ CashId \in Nat
  BY <1>2, NextIds, SettlementAssumption DEF Works
<1>5. /\ id \in Ids /\ key \in Ids
      /\ t \in Txns => id = t /\ key = t
      /\ t \notin Txns => id = CashId /\ id \in Nat /\ key \in Nat
  BY <1>4 DEF Ids
<1>6. invoice' \in Invoices /\ invoice'.status \in {"PAID", "PARTIALLY_PAID"}
  <2> DEFINE newPaid == session[s].seen.paid + n
             newDue == AtLeastZero(Total - newPaid)
  <2>1. newPaid \in Nat /\ newDue \in Nat
    <3>1. newPaid \in Nat
      BY <1>2, <1>3 DEF Invoices
    <3>2. Total - newPaid \in Int
      BY <3>1, SettlementAssumption
    <3> QED BY <3>1, <3>2, AtLeastZeroType
  <2>2. invoice' = [invoice EXCEPT !.paid = newPaid, !.due = newDue,
                        !.status = IF newDue = 0 THEN "PAID" ELSE "PARTIALLY_PAID"]
    BY <1>1 DEF WriteBooks, WithPayment
  <2>3. invoice \in Invoices
    BY DEF Shape
  <2> HIDE DEF newPaid, newDue
  <2> QED BY <2>1, <2>2, <2>3 DEF Invoices, InvoiceStatuses
<1>7. /\ payments' = payments \cup {[id |-> id, amount |-> n]}
      /\ ledger' = Posted(before, <<"payment", key>>, -n)
  BY <1>1 DEF WriteBooks
<1>8. /\ ledger \subseteq before
      /\ \A e \in before \ ledger : e.ref[1] = "issued"
      /\ issuing = s => \E e \in before : e.ref = <<"issued">>
  BY IssuedIs
<1> HIDE DEF n, id, key, before
<1>9. /\ before \subseteq ledger'
      /\ \A e \in ledger' \ before : e = [ref |-> <<"payment", key>>, delta |-> -n]
      /\ (\A e \in before : e.ref # <<"payment", key>>) =>
            [ref |-> <<"payment", key>>, delta |-> -n] \in ledger'
  BY <1>7, PostedIs
<1>10. \A e \in before \ ledger : e.ref # <<"payment", key>>
  BY <1>8
<1>11. /\ ledger \subseteq ledger'
       /\ \A e \in ledger' \ ledger :
             e.ref[1] = "issued" \/ e = [ref |-> <<"payment", key>>, delta |-> -n]
       /\ (\A e \in ledger : e.ref # <<"payment", key>>) =>
             [ref |-> <<"payment", key>>, delta |-> -n] \in ledger'
  BY <1>8, <1>9, <1>10
<1>12. issuing = s => HasIssued'
  BY <1>8, <1>9 DEF HasIssued
<1>13. /\ OnlyMoves(s) /\ Unlock(s)
       /\ \/ session'[s] = Idle
          \/ /\ session[s].op = "settle"
             /\ Keeps(s) /\ session'[s].step \in {"publish", "release"}
  BY <1>1, Ended
<1> QED BY <1>1, <1>3, <1>5, <1>6, <1>7, <1>11, <1>12, <1>13

\* A duplicate keeps the issuing it found the draft in, and nothing else.
LEMMA Skipped ==
    ASSUME Shape, NEW s \in Sessions, SkipDuplicate(s)
    PROVE  /\ session[s].step = "apply"
           /\ OnlyMoves(s) /\ Unlock(s)
           /\ \/ session'[s] = Idle
              \/ /\ session[s].op = "settle" /\ Keeps(s) /\ session'[s].step = "publish"
           /\ UNCHANGED <<payments, refunds, txn, gateway, succeeded>>
           /\ Grows({"issued"}) /\ invoice' \in Invoices
           /\ issuing = s => HasIssued'
           /\ issuing # s => invoice' = invoice
<1>1. /\ session[s].step = "apply" /\ EndTransaction(s, "publish")
      /\ UNCHANGED <<payments, refunds, txn, gateway, succeeded>>
      /\ invoice' = IF issuing = s THEN [invoice EXCEPT !.status = "SENT"] ELSE invoice
      /\ ledger' = IF issuing = s THEN Issued(ledger) ELSE ledger
  BY DEF SkipDuplicate, At
<1>2. invoice' \in Invoices
  <2>1. invoice \in Invoices
    BY DEF Shape
  <2>2. [invoice EXCEPT !.status = "SENT"] \in Invoices
    BY <2>1 DEF Invoices, InvoiceStatuses
  <2> QED BY <1>1, <2>1, <2>2
<1>3. Grows({"issued"})
  BY <1>1, IssuedIs DEF Grows
<1>4. issuing = s => HasIssued'
  BY <1>1, IssuedIs DEF HasIssued
<1>5. issuing # s => invoice' = invoice
  BY <1>1
<1> QED BY <1>1, <1>2, <1>3, <1>4, <1>5, Ended

\* Staff's update, whatever the invoice has become since it was checked.
LEMMA StaffFinished ==
    ASSUME Shape, NEW s \in Sessions, FinishStaff(s), Progress(s)
    PROVE  /\ session[s].step = "staff" /\ OnlyMoves(s) /\ Unlock(s) /\ session'[s] = Idle
           /\ UNCHANGED <<payments, refunds, txn, gateway, succeeded>>
           /\ invoice' \in Invoices
           /\ \/ session[s].op = "send" /\ Grows({"issued"}) /\ HasIssued'
              \/ /\ session[s].op = "cancel" /\ invoice'.status = "CANCELLED"
                 /\ Grows({"cancel"})
                 /\ session[s].seen.status = "DRAFT" => ledger' = ledger
              \/ session[s].op = "overdue" /\ invoice'.status = "OVERDUE" /\ ledger' = ledger
<1>1. /\ session[s].step = "staff" /\ session[s].op \in {"send", "cancel", "overdue"}
      /\ Stop(s) /\ UNCHANGED <<payments, refunds, txn, gateway, succeeded>>
  BY DEF FinishStaff, At, Progress
<1>2. OnlyMoves(s) /\ Unlock(s) /\ session'[s] = Idle
  BY <1>1, Stopped DEF Stop
<1>3. invoice \in Invoices
  BY DEF Shape
<1>4. CASE session[s].op = "send"
  <2>1. invoice' = [invoice EXCEPT !.status = "SENT"] /\ ledger' = Issued(ledger)
    BY <1>4 DEF FinishStaff
  <2>2. invoice' \in Invoices
    BY <2>1, <1>3 DEF Invoices, InvoiceStatuses
  <2>3. Grows({"issued"}) /\ HasIssued'
    BY <2>1, IssuedIs DEF Grows, HasIssued
  <2> QED BY <1>1, <1>2, <1>4, <2>2, <2>3
<1>5. CASE session[s].op = "cancel"
  <2>1. /\ invoice' = [invoice EXCEPT !.status = "CANCELLED", !.due = 0]
        /\ \/ session[s].seen.status = "DRAFT" /\ ledger' = ledger
           \/ /\ session[s].seen.status # "DRAFT"
              /\ ledger' = Posted(ledger, <<"cancel">>, -Total)
    BY <1>5 DEF FinishStaff
  <2>2. invoice' \in Invoices /\ invoice'.status = "CANCELLED"
    BY <2>1, <1>3 DEF Invoices, InvoiceStatuses
  <2>3. Grows({"cancel"})
    <3> DEFINE ref == <<"cancel">>
               credit == [ref |-> ref, delta |-> -Total]
    <3>1. credit.ref[1] = "cancel"
      OBVIOUS
    <3>2. ledger' = ledger \/ ledger' = Posted(ledger, ref, -Total)
      BY <2>1
    <3> HIDE DEF ref
    <3>3. ledger \subseteq ledger' /\ \A e \in ledger' \ ledger : e = credit
      BY <3>2, PostedIs
    <3> HIDE DEF credit
    <3> QED BY <3>1, <3>3 DEF Grows
  <2> QED BY <1>1, <1>2, <1>5, <2>1, <2>2, <2>3
<1>6. CASE session[s].op = "overdue"
  <2>1. invoice' = [invoice EXCEPT !.status = "OVERDUE"] /\ ledger' = ledger
    BY <1>6 DEF FinishStaff
  <2>2. invoice' \in Invoices /\ invoice'.status = "OVERDUE"
    BY <2>1, <1>3 DEF Invoices, InvoiceStatuses
  <2> QED BY <1>1, <1>2, <1>6, <2>1, <2>2
<1> QED BY <1>1, <1>4, <1>5, <1>6

-----------------------------------------------------------------------------
(* Sums of refunds *)

\* A sum of amounts is a number, and nothing sums up to 0.
LEMMA AmountsType ==
    ASSUME NEW S, IsFiniteSet(S), Weighted(S)
    PROVE  Amounts(S) \in Nat
BY AmountsAreCoins, CoinsFinite

\* One more row adds its amount.
LEMMA AmountsAdd ==
    ASSUME NEW S, IsFiniteSet(S), Weighted(S), NEW x, x \notin S, x.amount \in Nat
    PROVE  Amounts(S \cup {x}) = Amounts(S) + x.amount
<1> DEFINE T == S \cup {x}
<1>1. IsFiniteSet(T) /\ Weighted(T) /\ x \in T /\ T \ {x} = S
  BY FS_AddElement DEF Weighted
<1> HIDE DEF T
<1>2. Cardinality(Coins(T)) = x.amount + Cardinality(Coins(S))
  <2>1. Cardinality(Coins(T)) = x.amount + Cardinality(Coins(T \ {x}))
    BY <1>1, CoinsWithout
  <2> QED BY <1>1, <2>1
<1>3. Amounts(T) = Cardinality(Coins(T)) /\ Amounts(S) = Cardinality(Coins(S))
  BY <1>1, AmountsAreCoins
<1>4. Cardinality(Coins(S)) \in Nat
  BY CoinsFinite
<1>5. Amounts(T) = Amounts(S) + x.amount
  BY <1>2, <1>3, <1>4
<1> QED BY <1>5 DEF T

\* What counts of a set of refunds is the sum over those that have not failed.
LEMMA CountedType ==
    ASSUME NEW rows \in SUBSET RefundRows, IsFiniteSet(rows)
    PROVE  Counted(rows) \in Nat /\ Credited(rows) \in Nat
<1>1. ASSUME NEW some \in SUBSET rows PROVE Counted(some) \in Nat
  <2> DEFINE live == {r \in some : r.status # "FAILED"}
  <2>1. IsFiniteSet(live) /\ Weighted(live)
    <3>1. live \in SUBSET rows
      OBVIOUS
    <3>2. Weighted(live)
      BY DEF Weighted, RefundRows
    <3> QED BY <3>1, <3>2, FS_Subset
  <2>2. Counted(some) = Amounts(live)
    BY DEF Counted, Amounts
  <2> QED BY <2>1, <2>2, AmountsType
<1>2. {r \in rows : r.credit} \in SUBSET rows
  OBVIOUS
<1> QED BY <1>1, <1>2 DEF Credited

\* A new refund counts, unless it has failed.
LEMMA CountedAdd ==
    ASSUME NEW rows \in SUBSET RefundRows, IsFiniteSet(rows),
           NEW x \in RefundRows, x \notin rows
    PROVE  Counted(rows \cup {x}) =
              Counted(rows) + (IF x.status = "FAILED" THEN 0 ELSE x.amount)
<1> DEFINE live(some) == {r \in some : r.status # "FAILED"}
<1>1. IsFiniteSet(live(rows)) /\ Weighted(live(rows)) /\ x.amount \in Nat
  <2>1. live(rows) \in SUBSET rows
    OBVIOUS
  <2>2. Weighted(live(rows)) /\ x.amount \in Nat
    BY DEF Weighted, RefundRows
  <2> QED BY <2>1, <2>2, FS_Subset
<1>2. Counted(rows) = Amounts(live(rows)) /\ Counted(rows \cup {x}) = Amounts(live(rows \cup {x}))
  BY DEF Counted, Amounts
<1>3. Amounts(live(rows)) \in Nat
  BY <1>1, AmountsType
<1>4. CASE x.status = "FAILED"
  <2>1. live(rows \cup {x}) = live(rows)
    BY <1>4
  <2> HIDE DEF live
  <2>2. Counted(rows \cup {x}) = Amounts(live(rows)) /\ Amounts(live(rows)) + 0 = Amounts(live(rows))
    BY <1>2, <1>3, <2>1
  <2> QED BY <1>2, <1>4, <2>2
<1>5. CASE x.status # "FAILED"
  <2>1. live(rows \cup {x}) = live(rows) \cup {x} /\ x \notin live(rows)
    BY <1>5
  <2> HIDE DEF live
  <2>2. Amounts(live(rows) \cup {x}) = Amounts(live(rows)) + x.amount
    BY <1>1, <2>1, AmountsAdd
  <2> QED BY <1>2, <1>5, <2>1, <2>2
<1> QED BY <1>4, <1>5

\* A refund under way that becomes another status, of the same amount.
LEMMA CountedChange ==
    ASSUME NEW rows \in SUBSET RefundRows, IsFiniteSet(rows),
           NEW x \in rows, x.status = "PROCESSING",
           NEW y \in RefundRows, y \notin rows \ {x}, y.amount = x.amount
    PROVE  Counted((rows \ {x}) \cup {y}) =
              Counted(rows) - (IF y.status = "FAILED" THEN x.amount ELSE 0)
<1> DEFINE rest == rows \ {x}
<1>1. /\ rest \in SUBSET RefundRows /\ IsFiniteSet(rest) /\ x \in RefundRows
      /\ x \notin rest /\ y \notin rest /\ rows = rest \cup {x}
  BY FS_RemoveElement
<1>2. x.amount \in Nat
  BY <1>1 DEF RefundRows
<1> HIDE DEF rest
<1>3. Counted(rest) \in Nat
  BY <1>1, CountedType
<1>4. Counted(rows) = Counted(rest) + x.amount
  BY <1>1, CountedAdd
<1>5. Counted(rest \cup {y}) = Counted(rest) + (IF y.status = "FAILED" THEN 0 ELSE y.amount)
  BY <1>1, CountedAdd
<1>6. Counted(rest \cup {y}) = Counted(rows) - (IF y.status = "FAILED" THEN x.amount ELSE 0)
  BY <1>2, <1>3, <1>4, <1>5
<1> QED BY <1>6 DEF rest

-----------------------------------------------------------------------------
(* Steps of a refund *)

\* The invoice a refund leaves behind is never a draft, nor cancelled.
LEMMA RefundedInvoice ==
    ASSUME Shape, NEW inv \in Invoices, NEW refunded \in Nat,
           NEW rows \in SUBSET RefundRows, IsFiniteSet(rows),
           invoice' = WithRefunds(inv, refunded, rows)
    PROVE  invoice' \in Invoices /\ invoice'.status \notin {"DRAFT", "CANCELLED"}
<1> DEFINE credited == Credited(rows)
           b == Balance(inv, refunded, credited)
           netPaid == AtLeastZero(inv.paid - refunded)
<1>1. credited \in Nat
  BY CountedType
<1>2. netPaid \in Nat
  <2>1. inv.paid - refunded \in Int
    BY DEF Invoices
  <2> QED BY <2>1, AtLeastZeroType
<1>3. AtLeastZero(Total - credited - netPaid) \in Nat
  <2> HIDE DEF credited, netPaid
  <2>1. Total - credited - netPaid \in Int
    BY <1>1, <1>2, SettlementAssumption
  <2> QED BY <2>1, AtLeastZeroType
<1>4. /\ b.due \in Nat
      /\ b.status \in {"REFUNDED", "PAID", "PARTIALLY_PAID", "OVERDUE", "SENT"}
  BY <1>3 DEF Balance
<1>5. invoice' = [invoice EXCEPT !.refunded = refunded, !.due = b.due, !.status = b.status]
  BY DEF WithRefunds
<1>6. invoice \in Invoices
  BY DEF Shape
<1> HIDE DEF b
<1> QED BY <1>4, <1>5, <1>6 DEF Invoices, InvoiceStatuses

\* The payment is locked and the refund is within the cap, or the session stops.
LEMMA Locked ==
    ASSUME Shape, NEW s \in Sessions, LockPayment(s)
    PROVE  /\ OnlyMoves(s) /\ session[s].step = "cap"
           /\ UNCHANGED <<books, txn, gateway, succeeded>>
           /\ \/ session'[s] = Idle /\ Unlock(s)
              \/ /\ Keeps(s) /\ session'[s].step = "refund" /\ session'[s].seen = session[s].seen
                 /\ UNCHANGED issuing
                 /\ refunding' = refunding \cup {[payment |-> session[s].payment, session |-> s]}
                 /\ \A l \in refunding : l.payment # session[s].payment
                 /\ \E p \in payments :
                       /\ p.id = session[s].payment
                       /\ session[s].amount <= p.amount - Counted(RefundsOf(p.id))
<1>1. session[s].step = "cap" /\ UNCHANGED <<books, txn, gateway, succeeded>> /\ "refund" \in Steps
  BY DEF LockPayment, At, Steps
<1>2. CASE \E p \in payments : /\ p.id = session[s].payment
                               /\ session[s].amount <= p.amount - Counted(RefundsOf(p.id))
  <2>1. /\ refunding' = refunding \cup {[payment |-> session[s].payment, session |-> s]}
        /\ \A l \in refunding : l.payment # session[s].payment
        /\ Goto(s, "refund") /\ UNCHANGED issuing
    BY <1>2 DEF LockPayment
  <2> QED BY <1>1, <1>2, <2>1, Gone
<1>3. CASE ~ \E p \in payments : /\ p.id = session[s].payment
                                 /\ session[s].amount <= p.amount - Counted(RefundsOf(p.id))
  <2>1. Stop(s)
    BY <1>3 DEF LockPayment
  <2> QED BY <1>1, <2>1, Stopped DEF Stop
<1> QED BY <1>2, <1>3

\* The refund is written: its row, its debit and the invoice.
LEMMA RefundWritten ==
    ASSUME Shape, NEW s \in Sessions, Progress(s), WriteRefund(s), NEW id, id = RefundId
    PROVE  /\ session[s].step = "refund" /\ OnlyMoves(s) /\ Unlock(s)
           /\ \/ session'[s] = Idle
              \/ /\ session'[s].step = "provider" /\ session'[s].op = "gateway"
                 /\ session'[s].payment = id
                 /\ session'[s].amount = session[s].amount
                 /\ session'[s].txn = session[s].txn
           /\ UNCHANGED <<payments, txn, gateway, succeeded>>
           /\ invoice' \in Invoices /\ invoice'.status \notin {"DRAFT", "CANCELLED"}
           /\ ledger' = Posted(ledger, <<"refund", id>>, session[s].amount)
           /\ \E row \in RefundRows :
                 /\ row.id = id /\ row.payment = session[s].payment
                 /\ row.amount = session[s].amount /\ row.status = "PROCESSING"
                 /\ refunds' = refunds \cup {row}
<1> DEFINE r == session[s]
           row == [id |-> id, payment |-> r.payment, amount |-> r.amount,
                   credit |-> r.credit, status |-> "PROCESSING"]
           rows == refunds \cup {row}
           next == [session[s] EXCEPT !.step = "provider", !.payment = id, !.seen = NoInvoice]
<1>1. /\ r.step = "refund" /\ refunds' = rows /\ Unlock(s)
      /\ invoice' = WithRefunds(r.seen, r.seen.refunded + r.amount, rows)
      /\ ledger' = Posted(ledger, <<"refund", id>>, r.amount)
      /\ UNCHANGED <<payments, txn, gateway, succeeded>>
  BY DEF WriteRefund, At
<1>2. /\ r \in Works /\ r.seen \in Invoices /\ r.amount \in Nat \ {0} /\ r.payment \in Ids
      /\ r.credit \in BOOLEAN /\ id \in Nat
  BY <1>1, NextIds DEF Shape, Works, Progress, Refunding, PaymentRows
<1>3. row \in RefundRows
  BY <1>2 DEF RefundRows
<1>4. rows \in SUBSET RefundRows /\ IsFiniteSet(rows) /\ r.seen.refunded + r.amount \in Nat
  <2>1. refunds \in SUBSET RefundRows /\ IsFiniteSet(refunds)
    BY DEF Shape
  <2>2. r.seen.refunded + r.amount \in Nat
    BY <1>2 DEF Invoices
  <2> HIDE DEF row
  <2> QED BY <1>3, <2>1, <2>2, FS_AddElement
<1>5. invoice' \in Invoices /\ invoice'.status \notin {"DRAFT", "CANCELLED"}
  <2> HIDE DEF rows
  <2> QED BY <1>1, <1>2, <1>4, RefundedInvoice
<1>6. /\ next \in Works /\ next.step = "provider" /\ next.op = r.op /\ next.payment = id
      /\ next.amount = r.amount /\ next.txn = r.txn
  BY <1>2 DEF Works, Steps, Ids
<1>7. \/ r.op = "gateway" /\ session' = [session EXCEPT ![s] = next]
      \/ session' = [session EXCEPT ![s] = Idle]
  <2>1. IF r.op = "gateway"
        THEN session' = [session EXCEPT ![s].step = "provider", ![s].payment = id,
                                        ![s].seen = NoInvoice]
        ELSE session' = [session EXCEPT ![s] = Idle]
    BY DEF WriteRefund
  <2>2. [session EXCEPT ![s].step = "provider", ![s].payment = id, ![s].seen = NoInvoice]
        = [session EXCEPT ![s] = next]
    BY <1>2 DEF Shape, Works
  <2> HIDE DEF next
  <2> QED BY <2>1, <2>2
<1> HIDE DEF next
<1>8. /\ OnlyMoves(s)
      /\ session'[s] = Idle \/ (r.op = "gateway" /\ session'[s] = next)
  BY <1>6, <1>7, IdleType, Turned
<1> QED BY <1>1, <1>3, <1>5, <1>6, <1>8

\* The refunds, with another status of one.
Restated(id, status) ==
    {IF r.id = id THEN [r EXCEPT !.status = status] ELSE r : r \in refunds}

\* Restating a refund replaces its row and no other.
LEMMA RestatedRow ==
    ASSUME Shape, Identities, NEW x \in refunds, NEW status
    PROVE  Restated(x.id, status) = (refunds \ {x}) \cup {[x EXCEPT !.status = status]}
<1> DEFINE y == [x EXCEPT !.status = status]
<1>1. \A r \in refunds : r # x =>
          (IF r.id = x.id THEN [r EXCEPT !.status = status] ELSE r) = r
  BY DEF Identities
<1>2. (IF x.id = x.id THEN [x EXCEPT !.status = status] ELSE x) = y
  OBVIOUS
<1> HIDE DEF y
<1> QED BY <1>1, <1>2 DEF Restated, y

\* What it is of is left as it was.
LEMMA RestatedIs ==
    ASSUME Shape, Identities, NEW x \in refunds,
           NEW status \in {"PROCESSING", "COMPLETED", "FAILED"}
    PROVE  \E y \in RefundRows :
              /\ y.id = x.id /\ y.payment = x.payment /\ y.amount = x.amount
              /\ y.status = status
              /\ y \notin refunds \ {x}
              /\ Restated(x.id, status) = (refunds \ {x}) \cup {y}
<1> DEFINE y == [x EXCEPT !.status = status]
<1>1. x \in RefundRows
  BY DEF Shape
<1>2. /\ y \in RefundRows /\ y.id = x.id /\ y.payment = x.payment /\ y.amount = x.amount
      /\ y.status = status
  BY <1>1 DEF RefundRows
<1>3. \A r \in refunds : r.id = x.id <=> r = x
  BY DEF Identities
<1>4. Restated(x.id, status) = (refunds \ {x}) \cup {y}
  BY RestatedRow
<1>5. y \notin refunds \ {x}
  BY <1>2, <1>3
<1> HIDE DEF y
<1> QED BY <1>2, <1>4, <1>5

\* The provider has taken the refund.
LEMMA TakenByProvider ==
    ASSUME Shape, NEW s \in Sessions, RefundTaken(s)
    PROVE  /\ session[s].step = "provider" /\ OnlyMoves(s) /\ Unlock(s) /\ session'[s] = Idle
           /\ UNCHANGED <<invoice, payments, ledger, txn, gateway, succeeded>>
           /\ \E status \in {"COMPLETED", "PROCESSING"} :
                 refunds' = Restated(session[s].payment, status)
<1>1. Stop(s)
  BY DEF RefundTaken
<1> QED BY <1>1, Stopped DEF RefundTaken, Restated, At, Stop

\* The provider has refused it: the invoice is read to reverse it.
LEMMA RefusedByProvider ==
    ASSUME Shape, NEW s \in Sessions, RefundRefused(s)
    PROVE  /\ session[s].step = "provider" /\ OnlyMoves(s) /\ Keeps(s)
           /\ session'[s].step = "reverse" /\ session'[s].seen = invoice
           /\ UNCHANGED <<books, issuing, refunding, txn, gateway, succeeded>>
<1>1. "reverse" \in Steps /\ invoice \in Invoices
  BY DEF Shape, Steps
<1>2. session' = [session EXCEPT ![s].step = "reverse", ![s].seen = invoice]
  BY DEF RefundRefused
<1> QED BY <1>1, <1>2, GoneWith DEF RefundRefused, At

\* The refund is reversed.
LEMMA Reversed ==
    ASSUME Shape, Identities, NEW s \in Sessions, Progress(s), ReverseRefund(s),
           NEW x \in refunds, x.id = session[s].payment
    PROVE  /\ session[s].step = "reverse" /\ OnlyMoves(s) /\ Unlock(s) /\ session'[s] = Idle
           /\ UNCHANGED <<payments, txn, gateway, succeeded>>
           /\ invoice' \in Invoices /\ invoice'.status \notin {"DRAFT", "CANCELLED"}
           /\ ledger' = Posted(ledger, <<"reversed", x.id>>, -session[s].amount)
           /\ refunds' = Restated(x.id, "FAILED")
<1> DEFINE rows == Restated(x.id, "FAILED")
           refunded == AtLeastZero(session[s].seen.refunded - session[s].amount)
<1>1. /\ session[s].step = "reverse" /\ Stop(s)
      /\ UNCHANGED <<payments, txn, gateway, succeeded>>
      /\ refunds' = rows
      /\ invoice' = WithRefunds(session[s].seen, refunded, rows)
      /\ ledger' = Posted(ledger, <<"reversed", x.id>>, -session[s].amount)
  BY DEF ReverseRefund, At, Restated
<1>2. session[s].seen \in Invoices /\ session[s].amount \in Nat
  BY <1>1 DEF Progress, Refunding
<1>3. refunded \in Nat
  <2>1. session[s].seen.refunded - session[s].amount \in Int
    BY <1>2 DEF Invoices
  <2> QED BY <2>1, AtLeastZeroType
<1>4. rows \in SUBSET RefundRows /\ IsFiniteSet(rows)
  <2>1. PICK y \in RefundRows : rows = (refunds \ {x}) \cup {y}
    BY RestatedIs
  <2>2. refunds \ {x} \in SUBSET RefundRows /\ IsFiniteSet(refunds \ {x})
    BY FS_RemoveElement DEF Shape
  <2> HIDE DEF rows
  <2> QED BY <2>1, <2>2, FS_AddElement
<1> HIDE DEF rows, refunded
<1>5. invoice' \in Invoices /\ invoice'.status \notin {"DRAFT", "CANCELLED"}
  BY <1>1, <1>2, <1>3, <1>4, RefundedInvoice
<1>6. OnlyMoves(s) /\ Unlock(s) /\ session'[s] = Idle
  BY <1>1, Stopped DEF Stop
<1> QED BY <1>1, <1>5, <1>6 DEF rows

-----------------------------------------------------------------------------
(* The steps of the system *)

\* A webhook or the reconciler takes up a transaction; healing is apart.
TakesUp(s) == \E t \in Txns : CapturedWebhook(s, t) \/ FailedWebhook(s, t) \/ Reconcile(s, t)
\* The other kinds of steps, by what starts or ends with them.
Heals(s) == \E t \in Txns : Heal(s, t)
StartsCash(s) == \E n \in CashAmounts, op \in {"manual", "onsite"} : TakeCash(s, op, n)
StartsStaff(s) == \E op \in {"send", "cancel", "overdue"} : StartStaff(s, op)
StartsRefund(s) ==
    \E p \in payments, n \in RefundAmounts :
        \E op \in {"refund", "gateway"}, credit \in CreditNotes : StartRefund(s, op, p, n, credit)
RollsBack(s) == Refused(s) \/ NotApplied(s) \/ StatementFails(s) \/ Crash(s)
Lands(s) == \E tick \in Ticks : ApplyPayment(s, tick) \/ CommitUnanswered(s, tick)

\* The steps that leave the books and the transactions as they are.
Talks(s) ==
    \/ TakesUp(s) \/ Heals(s) \/ StartsCash(s) \/ StartsStaff(s) \/ StartsRefund(s)
    \/ ProviderTruth(s) \/ ReadInvoice(s) \/ IssueDraft(s) \/ RollsBack(s)
    \/ LockPayment(s) \/ RefundRefused(s)

\* The steps that write transactions, or publish.
Marks(s) == MarkTerminal(s) \/ Claim(s) \/ Publish(s) \/ Release(s)

\* The steps that write the books.
Writes(s) ==
    \/ SkipDuplicate(s) \/ Lands(s) \/ FinishStaff(s)
    \/ WriteRefund(s) \/ RefundTaken(s) \/ ReverseRefund(s)

\* These are all the steps.
LEMMA NextIs ==
    ASSUME Next
    PROVE  \/ \E t \in Txns : LinkStep(t)
           \/ \E s \in Sessions : Talks(s) \/ Marks(s) \/ Writes(s)
<1>1. CASE \E t \in Txns :
               \/ AskForLink(t) \/ LinkCreated(t)
               \/ Declined(t) \/ Paid(t) \/ Closed(t) \/ RefundedThere(t)
               \/ RefundedWebhook(t)
  BY <1>1 DEF LinkStep
<1>2. CASE \E t \in Txns : \E s \in Sessions :
               \/ CapturedWebhook(s, t) \/ FailedWebhook(s, t) \/ Reconcile(s, t) \/ Heal(s, t)
  BY <1>2 DEF Talks, TakesUp, Heals
<1>3. CASE \E s \in Sessions : Advance(s)
  BY <1>3 DEF Advance, Talks, Marks, Writes, RollsBack, Lands
<1>4. CASE \E s \in Sessions : StatementFails(s) \/ Crash(s)
  BY <1>4 DEF Talks, RollsBack
<1>5. CASE \E s \in Sessions : \E tick \in Ticks : CommitUnanswered(s, tick)
  BY <1>5 DEF Writes, Lands
<1>6. CASE \E s \in Sessions :
               \/ StartsCash(s) \/ StartsStaff(s) \/ StartsRefund(s)
  BY <1>6 DEF Talks
<1> QED
  BY <1>1, <1>2, <1>3, <1>4, <1>5, <1>6
     DEF Next, StartsCash, StartsStaff, StartsRefund

-----------------------------------------------------------------------------
(* Shape and progress *)

\* A session that is idle has nothing to hold.
LEMMA IdleProgress ==
    ASSUME NEW s \in Sessions, session'[s] = Idle
    PROVE  Progress(s)'
BY DEF Progress, Idle, Claiming, Paying, Refunding

\* The others go on as they were: rows of payments are never deleted.
LEMMA ProgressKept ==
    ASSUME \A q \in Sessions : Progress(q), NEW s \in Sessions, OnlyMoves(s),
           payments \subseteq payments', Progress(s)'
    PROVE  \A q \in Sessions : Progress(q)'
<1>1. ASSUME NEW q \in Sessions \ {s} PROVE Progress(q)'
  <2>1. session'[q] = session[q] /\ Progress(q)
    BY DEF OnlyMoves
  <2> QED BY <2>1 DEF Progress
<1> QED BY <1>1

\* What is locked and what is issued keeps its shape.
LEMMA LocksShape ==
    ASSUME Shape, NEW s \in Sessions, Unlock(s) \/ UNCHANGED <<issuing, refunding>>
    PROVE  /\ issuing' \in Sessions \cup {NoSession}
           /\ refunding' \in SUBSET [payment: Ids, session: Sessions]
BY Unlocked DEF Shape

\* A step that leaves the books and the transactions as they are.
LEMMA ShapeOfTalk ==
    ASSUME Shape, NEW s \in Sessions, Progress(s), Talks(s)
    PROVE  /\ Shape' /\ OnlyMoves(s) /\ Progress(s)'
           /\ UNCHANGED <<books, txn, gateway, succeeded>>
<1>1. ASSUME OnlyMoves(s), UNCHANGED <<books, txn, gateway, succeeded>>,
             \/ Unlock(s)
             \/ UNCHANGED <<issuing, refunding>>
             \/ /\ issuing' \in Sessions \cup {NoSession}
                /\ refunding' \in SUBSET [payment: Ids, session: Sessions]
      PROVE  Shape'
  <2>1. /\ issuing' \in Sessions \cup {NoSession}
        /\ refunding' \in SUBSET [payment: Ids, session: Sessions]
    BY <1>1, LocksShape
  <2> QED BY <1>1, <2>1 DEF Shape, OnlyMoves, books
<1>2. CASE TakesUp(s) \/ Heals(s)
  <2>1. PICK t \in Txns : \/ CapturedWebhook(s, t) \/ FailedWebhook(s, t)
                          \/ Reconcile(s, t) \/ Heal(s, t)
    BY <1>2 DEF TakesUp, Heals
  <2>2. PICK op \in Ops, step \in Steps :
            /\ Take(s, op, step, t)
            /\ \/ op = "settle" /\ step \in {"ask", "claim"}
               \/ op = "fail" /\ step = "FAILED"
               \/ op = "heal" /\ step = "read"
    BY <2>1 DEF CapturedWebhook, FailedWebhook, Reconcile, Heal, Ops, Steps
  <2>3. /\ OnlyMoves(s) /\ session'[s].op = op /\ session'[s].step = step
        /\ session'[s].txn = t
        /\ UNCHANGED <<books, issuing, refunding, txn, gateway, succeeded>>
    BY <2>2, Taken
  <2>4. Progress(s)'
    BY <2>2, <2>3 DEF Progress, Claiming, Paying, Refunding
  <2> QED BY <2>3, <2>4, <1>1
<1>3. CASE StartsCash(s)
  <2>1. /\ OnlyMoves(s) /\ session'[s].op \in {"manual", "onsite"}
        /\ session'[s].step = "read" /\ session'[s].txn = NoTxn
        /\ UNCHANGED <<books, issuing, refunding, txn, gateway, succeeded>>
    BY <1>3, CashTaken DEF StartsCash
  <2>2. Progress(s)'
    BY <2>1, SettlementAssumption DEF Progress, Claiming, Paying, Refunding
  <2> QED BY <2>1, <2>2, <1>1
<1>4. CASE StartsStaff(s)
  <2>1. PICK op \in {"send", "cancel", "overdue"} : StartStaff(s, op)
    BY <1>4 DEF StartsStaff
  <2>2. /\ OnlyMoves(s) /\ session'[s].op = op /\ session'[s].step = "staff"
        /\ op = "cancel" => session'[s].seen = invoice
        /\ UNCHANGED <<books, issuing, refunding, txn, gateway, succeeded>>
    BY <2>1, StaffStarted
  <2>3. Progress(s)'
    BY <2>2 DEF Progress, Claiming, Paying, Refunding, Shape
  <2> QED BY <2>2, <2>3, <1>1
<1>5. CASE StartsRefund(s)
  <2>1. PICK p \in payments, n \in RefundAmounts, op \in {"refund", "gateway"},
             credit \in CreditNotes : StartRefund(s, op, p, n, credit)
    BY <1>5 DEF StartsRefund
  <2>2. /\ OnlyMoves(s) /\ session'[s].op = op /\ session'[s].step = "cap"
        /\ session'[s].amount \in Nat \ {0}
        /\ session'[s].payment = p.id /\ session'[s].seen = invoice
        /\ UNCHANGED <<books, issuing, refunding, txn, gateway, succeeded>>
    BY <2>1, RefundStarted
  <2>3. payments' = payments /\ invoice \in Invoices
    BY <2>2 DEF Shape, books
  <2>4. Progress(s)'
    BY <2>2, <2>3 DEF Progress, Claiming, Paying, Refunding
  <2> QED BY <2>2, <2>4, <1>1
<1>6. CASE ProviderTruth(s)
  <2>1. /\ OnlyMoves(s) /\ session[s].step = "ask"
        /\ \/ session'[s] = Idle
           \/ Keeps(s) /\ session'[s].step \in {"claim", "FAILED", "CANCELLED"}
        /\ UNCHANGED <<books, issuing, refunding, txn, gateway, succeeded>>
    BY <1>6, TruthTold
  <2>2. Progress(s)'
    <3>1. CASE session'[s] = Idle
      BY <3>1, IdleProgress
    <3>2. CASE Keeps(s) /\ session'[s].step \in {"claim", "FAILED", "CANCELLED"}
      BY <2>1, <3>2 DEF Progress, Keeps, Claiming, Paying, Refunding
    <3> QED BY <2>1, <3>1, <3>2
  <2> QED BY <2>1, <2>2, <1>1
<1>7. CASE ReadInvoice(s)
  <2>1. /\ OnlyMoves(s) /\ Keeps(s) /\ session[s].step = "read"
        /\ session'[s].step \in {"issue", "apply"} /\ session'[s].seen = invoice
        /\ UNCHANGED <<books, issuing, refunding, txn, gateway, succeeded>>
    BY <1>7, InvoiceRead
  <2>2. Progress(s)'
    BY <2>1 DEF Progress, Keeps, Claiming, Paying, Refunding, Shape
  <2> QED BY <2>1, <2>2, <1>1
<1>8. CASE IssueDraft(s)
  <2>1. /\ OnlyMoves(s) /\ Keeps(s) /\ session[s].step = "issue"
        /\ session'[s].step = "apply" /\ session'[s].seen = session[s].seen
        /\ issuing' = s
        /\ UNCHANGED <<books, refunding, txn, gateway, succeeded>>
    BY <1>8, DraftIssued
  <2>2. Progress(s)'
    BY <2>1 DEF Progress, Keeps, Claiming, Paying, Refunding
  <2>3. refunding' \in SUBSET [payment: Ids, session: Sessions]
    BY <2>1 DEF Shape
  <2> QED BY <2>1, <2>2, <2>3, <1>1
<1>9. CASE RollsBack(s)
  <2>1. /\ OnlyMoves(s) /\ Unlock(s)
        /\ \/ session'[s] = Idle
           \/ /\ session[s].op = "settle" /\ session[s].step \in Paying
              /\ Keeps(s) /\ session'[s].step \in {"publish", "release"}
        /\ UNCHANGED <<books, txn, gateway, succeeded>>
    BY <1>9, RolledBack DEF RollsBack
  <2>2. Progress(s)'
    <3>1. CASE session'[s] = Idle
      BY <3>1, IdleProgress
    <3>2. CASE /\ session[s].op = "settle" /\ session[s].step \in Paying
               /\ Keeps(s) /\ session'[s].step \in {"publish", "release"}
      BY <3>2 DEF Progress, Keeps, Claiming, Paying, Refunding
    <3> QED BY <2>1, <3>1, <3>2
  <2> QED BY <2>1, <2>2, <1>1
<1>10. CASE LockPayment(s)
  <2>1. OnlyMoves(s) /\ session[s].step = "cap" /\ UNCHANGED <<books, txn, gateway, succeeded>>
    BY <1>10, Locked
  <2>2. CASE session'[s] = Idle /\ Unlock(s)
    BY <2>1, <2>2, <1>1, IdleProgress
  <2>3. CASE /\ Keeps(s) /\ session'[s].step = "refund" /\ session'[s].seen = session[s].seen
             /\ UNCHANGED issuing
             /\ refunding' = refunding \cup {[payment |-> session[s].payment, session |-> s]}
    <3>0. payments' = payments
      BY <2>1 DEF books
    <3>1. Progress(s)'
      BY <3>0, <2>1, <2>3 DEF Progress, Keeps, Claiming, Paying, Refunding
    <3>2. session[s].payment \in Ids
      BY <2>1 DEF Progress, Shape, PaymentRows
    <3>3. /\ issuing' \in Sessions \cup {NoSession}
          /\ refunding' \in SUBSET [payment: Ids, session: Sessions]
      BY <2>3, <3>2 DEF Shape
    <3> QED BY <2>1, <3>1, <3>3, <1>1
  <2> QED BY <1>10, <2>2, <2>3, Locked
<1>11. CASE RefundRefused(s)
  <2>1. /\ session[s].step = "provider" /\ OnlyMoves(s) /\ Keeps(s)
        /\ session'[s].step = "reverse" /\ session'[s].seen = invoice
        /\ UNCHANGED <<books, issuing, refunding, txn, gateway, succeeded>>
    BY <1>11, RefusedByProvider
  <2>2. Progress(s)'
    BY <2>1 DEF Progress, Keeps, Claiming, Paying, Refunding, Shape
  <2> QED BY <2>1, <2>2, <1>1
<1> QED
  BY <1>2, <1>3, <1>4, <1>5, <1>6, <1>7, <1>8, <1>9, <1>10, <1>11 DEF Talks

\* A step that writes transactions, or publishes.
LEMMA ShapeOfMark ==
    ASSUME Shape, NEW s \in Sessions, Progress(s), Marks(s)
    PROVE  /\ Shape' /\ OnlyMoves(s) /\ Progress(s)'
           /\ UNCHANGED <<books, gateway>>
<1>1. ASSUME OnlyMoves(s), UNCHANGED <<books, gateway>>,
             Unlock(s) \/ UNCHANGED <<issuing, refunding>>,
             txn' \in [Txns -> TxnRows], succeeded' \in [Txns -> Nat]
      PROVE  Shape'
  <2>1. /\ issuing' \in Sessions \cup {NoSession}
        /\ refunding' \in SUBSET [payment: Ids, session: Sessions]
    BY <1>1, LocksShape
  <2> QED BY <1>1, <2>1 DEF Shape, OnlyMoves, books, TxnRows
<1>2. txn \in [Txns -> TxnRows] /\ succeeded \in [Txns -> Nat]
  BY DEF Shape, TxnRows
<1>3. CASE MarkTerminal(s)
  BY <1>1, <1>2, <1>3, Marked, IdleProgress
<1>4. CASE Claim(s)
  <2>1. /\ OnlyMoves(s) /\ session[s].step = "claim" /\ session[s].txn \in Txns
        /\ UNCHANGED <<books, gateway, succeeded>>
        /\ txn' \in [Txns -> TxnRows]
        /\ \/ session'[s] = Idle /\ Unlock(s)
           \/ Keeps(s) /\ session'[s].step = "read" /\ UNCHANGED <<issuing, refunding>>
    BY <1>4, Claimed
  <2>2. Progress(s)'
    <3>1. CASE session'[s] = Idle
      BY <3>1, IdleProgress
    <3>2. CASE Keeps(s) /\ session'[s].step = "read"
      BY <1>4, <2>1, <3>2 DEF Progress, Keeps, Claiming, Paying, Refunding
    <3> QED BY <2>1, <3>1, <3>2
  <2> QED BY <1>1, <1>2, <2>1, <2>2
<1>5. CASE Publish(s)
  BY <1>1, <1>2, <1>5, Published, IdleProgress
<1>6. CASE Release(s)
  BY <1>1, <1>2, <1>6, Released, IdleProgress
<1> QED BY <1>3, <1>4, <1>5, <1>6 DEF Marks

\* A step that writes the books.
LEMMA ShapeOfWrite ==
    ASSUME Shape, Identities, Pending, NEW s \in Sessions, Progress(s), Writes(s)
    PROVE  /\ Shape' /\ OnlyMoves(s) /\ Progress(s)' /\ Unlock(s)
           /\ payments \subseteq payments'
           /\ UNCHANGED <<txn, gateway, succeeded>>
<1>1. ASSUME OnlyMoves(s), UNCHANGED <<txn, gateway, succeeded>>, Unlock(s),
             invoice' \in Invoices,
             payments' \in SUBSET PaymentRows, IsFiniteSet(payments'),
             refunds' \in SUBSET RefundRows, IsFiniteSet(refunds')
      PROVE  Shape'
  <2>1. /\ issuing' \in Sessions \cup {NoSession}
        /\ refunding' \in SUBSET [payment: Ids, session: Sessions]
    BY <1>1, LocksShape
  <2> QED BY <1>1, <2>1 DEF Shape, OnlyMoves
<1>2. /\ payments \in SUBSET PaymentRows /\ IsFiniteSet(payments)
      /\ refunds \in SUBSET RefundRows /\ IsFiniteSet(refunds)
      /\ invoice \in Invoices
  BY DEF Shape
<1>3. ASSUME session[s].op = "settle", Keeps(s), session[s].step = "apply",
             session'[s].step \in {"publish", "release"}
      PROVE  Progress(s)'
  BY <1>3 DEF Progress, Keeps, Claiming, Paying, Refunding
<1>4. CASE SkipDuplicate(s)
  <2>1. /\ session[s].step = "apply" /\ OnlyMoves(s) /\ Unlock(s)
        /\ \/ session'[s] = Idle
           \/ session[s].op = "settle" /\ Keeps(s) /\ session'[s].step = "publish"
        /\ UNCHANGED <<payments, refunds, txn, gateway, succeeded>>
        /\ invoice' \in Invoices
    BY <1>4, Skipped
  <2>2. Progress(s)'
    BY <2>1, <1>3, IdleProgress
  <2> QED BY <2>1, <2>2, <1>1, <1>2
<1>5. CASE Lands(s)
  <2>1. /\ session[s].step = "apply" /\ OnlyMoves(s) /\ Unlock(s)
        /\ \/ session'[s] = Idle
           \/ /\ session[s].op = "settle"
              /\ Keeps(s) /\ session'[s].step \in {"publish", "release"}
        /\ UNCHANGED <<refunds, txn, gateway, succeeded>>
        /\ invoice' \in Invoices
        /\ \E n \in Nat \ {0}, id \in Ids :
              payments' = payments \cup {[id |-> id, amount |-> n]}
    BY <1>5, Landed DEF Lands
  <2>2. Progress(s)'
    BY <2>1, <1>3, IdleProgress
  <2>3. PICK row \in PaymentRows : payments' = payments \cup {row}
    <3>1. PICK n \in Nat \ {0}, id \in Ids :
              payments' = payments \cup {[id |-> id, amount |-> n]}
      BY <2>1
    <3>2. [id |-> id, amount |-> n] \in PaymentRows
      BY DEF PaymentRows
    <3> QED BY <3>1, <3>2
  <2>4. /\ payments' \in SUBSET PaymentRows /\ IsFiniteSet(payments')
        /\ payments \subseteq payments'
    BY <1>2, <2>3, FS_AddElement
  <2> QED BY <2>1, <2>2, <2>4, <1>1, <1>2
<1>6. CASE FinishStaff(s)
  BY <1>6, StaffFinished, IdleProgress, <1>1, <1>2
<1>7. CASE WriteRefund(s)
  <2> DEFINE id == RefundId
  <2>0. id = RefundId
    OBVIOUS
  <2> HIDE DEF id
  <2>1. /\ session[s].step = "refund" /\ OnlyMoves(s) /\ Unlock(s)
        /\ \/ session'[s] = Idle
           \/ /\ session'[s].step = "provider" /\ session'[s].op = "gateway"
              /\ session'[s].amount = session[s].amount
        /\ UNCHANGED <<payments, txn, gateway, succeeded>>
        /\ invoice' \in Invoices
        /\ \E row \in RefundRows : refunds' = refunds \cup {row}
    BY <1>7, <2>0, RefundWritten
  <2>2. Progress(s)'
    <3>1. CASE session'[s] = Idle
      BY <3>1, IdleProgress
    <3>2. CASE /\ session'[s].step = "provider" /\ session'[s].op = "gateway"
               /\ session'[s].amount = session[s].amount
      BY <2>1, <3>2 DEF Progress, Claiming, Paying, Refunding
    <3> QED BY <2>1, <3>1, <3>2
  <2>3. refunds' \in SUBSET RefundRows /\ IsFiniteSet(refunds')
    BY <2>1, <1>2, FS_AddElement
  <2> QED BY <2>1, <2>2, <2>3, <1>1, <1>2
<1>8. ASSUME NEW status \in {"PROCESSING", "COMPLETED", "FAILED"}, NEW x \in refunds,
             refunds' = Restated(x.id, status)
      PROVE  refunds' \in SUBSET RefundRows /\ IsFiniteSet(refunds')
  <2>1. PICK y \in RefundRows : Restated(x.id, status) = (refunds \ {x}) \cup {y}
    BY RestatedIs
  <2>2. refunds \ {x} \in SUBSET RefundRows /\ IsFiniteSet(refunds \ {x})
    BY <1>2, FS_RemoveElement
  <2> QED BY <1>8, <2>1, <2>2, FS_AddElement
<1>9. CASE RefundTaken(s)
  <2>1. /\ session[s].step = "provider" /\ OnlyMoves(s) /\ Unlock(s) /\ session'[s] = Idle
        /\ UNCHANGED <<invoice, payments, ledger, txn, gateway, succeeded>>
        /\ \E status \in {"COMPLETED", "PROCESSING"} :
              refunds' = Restated(session[s].payment, status)
    BY <1>9, TakenByProvider
  <2>2. PICK x \in refunds : x.id = session[s].payment
    BY <2>1 DEF Pending, Completing
  <2>3. refunds' \in SUBSET RefundRows /\ IsFiniteSet(refunds')
    BY <1>8, <2>1, <2>2
  <2> QED BY <2>1, <2>3, <1>1, <1>2, IdleProgress
<1>10. CASE ReverseRefund(s)
  <2>1. session[s].step = "reverse"
    BY <1>10 DEF ReverseRefund, At
  <2>2. PICK x \in refunds : x.id = session[s].payment
    BY <2>1 DEF Pending, Completing
  <2>3. /\ OnlyMoves(s) /\ Unlock(s) /\ session'[s] = Idle
        /\ UNCHANGED <<payments, txn, gateway, succeeded>>
        /\ invoice' \in Invoices
        /\ refunds' = Restated(x.id, "FAILED")
    BY <1>10, <2>2, Reversed
  <2>4. refunds' \in SUBSET RefundRows /\ IsFiniteSet(refunds')
    BY <1>8, <2>3
  <2> QED BY <2>3, <2>4, <1>1, <1>2, IdleProgress
<1> QED BY <1>4, <1>5, <1>6, <1>7, <1>9, <1>10 DEF Writes

-----------------------------------------------------------------------------
(* Claims *)

\* Nothing new is held, no captured payment is taken back, nothing published.
LEMMA ClaimsQuiet ==
    ASSUME Claims, NEW s \in Sessions, OnlyMoves(s),
           payments' = payments, succeeded' = succeeded,
           \A u \in Txns : Kept(u) => Kept(u)',
           \A u \in Txns : Holds(s, u)' => Holds(s, u) /\ session'[s].op = session[s].op
    PROVE  Claims'
<1>1. \A q \in Sessions : \A u \in Txns :
          Holds(q, u)' => Holds(q, u) /\ session'[q].op = session[q].op
  <2>1. ASSUME NEW q \in Sessions \ {s}, NEW u \in Txns, Holds(q, u)'
        PROVE  Holds(q, u) /\ session'[q].op = session[q].op
    BY <2>1 DEF OnlyMoves, Holds
  <2> QED BY <2>1
<1>2. \A u \in Txns : Booked(u)' <=> Booked(u)
  BY DEF Booked
<1>3. ASSUME NEW u \in Txns
      PROVE  /\ Booked(u)' => Kept(u)'
             /\ \A p \in Sessions : Holds(p, u)' => Kept(u)'
             /\ succeeded'[u] <= 1
             /\ succeeded'[u] = 1 => Kept(u)'
  BY <1>1, <1>2 DEF Claims
<1>4. ASSUME NEW u \in Txns, NEW p \in Sessions, NEW q \in Sessions,
             Holds(p, u)', Holds(q, u)', session'[p].op = "settle"
      PROVE  q = p
  BY <1>1, <1>4 DEF Claims
<1>5. ASSUME NEW u \in Txns, succeeded'[u] = 1, NEW p \in Sessions, Holds(p, u)'
      PROVE  session'[p].op # "settle"
  BY <1>1, <1>5 DEF Claims
<1> QED BY <1>3, <1>4, <1>5 DEF Claims

\* A transaction is taken up.  The claim of a transaction that is healed is held
\* by nobody who settles.
LEMMA ClaimsOfTalk ==
    ASSUME Shape, \A q \in Sessions : Progress(q), Claims, NEW s \in Sessions, Talks(s)
    PROVE  Claims'
<1>1. OnlyMoves(s) /\ payments' = payments /\ succeeded' = succeeded /\ txn' = txn
  BY ShapeOfTalk DEF books
<1>2. \A u \in Txns : Kept(u) => Kept(u)'
  BY <1>1 DEF Kept
<1>3. ASSUME \A u \in Txns : Holds(s, u)' => Holds(s, u) /\ session'[s].op = session[s].op
      PROVE  Claims'
  BY <1>1, <1>2, <1>3, ClaimsQuiet
<1>4. ASSUME session'[s].step \notin Claiming \/ session'[s].txn \notin Txns
      PROVE  Claims'
  BY <1>3, <1>4 DEF Holds
<1>5. ASSUME Keeps(s), session[s].step \in Claiming
      PROVE  Claims'
  BY <1>3, <1>5 DEF Holds, Keeps
<1>6. CASE TakesUp(s)
  <2>1. PICK t \in Txns : \/ CapturedWebhook(s, t) \/ FailedWebhook(s, t) \/ Reconcile(s, t)
    BY <1>6 DEF TakesUp
  <2>2. PICK op \in Ops, step \in {"ask", "claim", "FAILED"} : Take(s, op, step, t)
    BY <2>1 DEF CapturedWebhook, FailedWebhook, Reconcile, Ops
  <2>3. session'[s].step = step
    BY <2>2, Taken DEF Steps
  <2> QED BY <2>3, <1>4 DEF Claiming, Paying
<1>7. CASE StartsCash(s)
  BY <1>4, <1>7, CashTaken, SettlementAssumption DEF StartsCash
<1>8. CASE StartsStaff(s)
  BY <1>4, <1>8, StaffStarted, SettlementAssumption DEF StartsStaff
<1>9. CASE StartsRefund(s)
  BY <1>4, <1>9, RefundStarted, SettlementAssumption DEF StartsRefund
<1>10. CASE ProviderTruth(s)
  <2>1. session'[s].step \notin Claiming
    BY <1>10, TruthTold, IdleType DEF Claiming, Paying
  <2> QED BY <2>1, <1>4
<1>11. CASE ReadInvoice(s)
  BY <1>5, <1>11, InvoiceRead DEF Claiming, Paying
<1>12. CASE IssueDraft(s)
  BY <1>5, <1>12, DraftIssued DEF Claiming, Paying
<1>13. CASE RollsBack(s)
  <2>1. \/ session'[s] = Idle
        \/ session[s].step \in Paying /\ Keeps(s)
    BY <1>13, RolledBack DEF RollsBack
  <2> QED BY <2>1, <1>4, <1>5, IdleType DEF Claiming, Paying
<1>14. CASE LockPayment(s)
  <2>1. session'[s].step \notin Claiming
    BY <1>14, Locked, IdleType DEF Claiming, Paying
  <2> QED BY <2>1, <1>4
<1>15. CASE RefundRefused(s)
  <2>1. session'[s].step \notin Claiming
    BY <1>15, RefusedByProvider DEF Claiming, Paying
  <2> QED BY <2>1, <1>4
<1>16. CASE Heals(s)
  <2>1. PICK t \in Txns : Heal(s, t)
    BY <1>16 DEF Heals
  <2>2. /\ txn[t].status = "CAPTURED"
        /\ \A q \in Sessions : session[q].op = "settle" /\ session[q].txn = t
                                => session[q].step \in {"ask", "claim"}
        /\ Take(s, "heal", "read", t)
    BY <2>1 DEF Heal
  <2>3. /\ session[s].step = "idle" /\ session'[s].op = "heal" /\ session'[s].step = "read"
        /\ session'[s].txn = t
    <3>1. "heal" \in Ops /\ "read" \in Steps
      BY DEF Ops, Steps
    <3> QED BY <2>2, <3>1, Taken
  <2>4. Kept(t) /\ \A q \in Sessions : Holds(q, t) => session[q].op # "settle"
    BY <2>2 DEF Kept, Holds, Claiming, Paying
  <2>5. \A q \in Sessions : \A u \in Txns :
            Holds(q, u)' => \/ q = s /\ u = t
                            \/ q # s /\ Holds(q, u) /\ session'[q].op = session[q].op
    BY <1>1, <2>3 DEF Holds, OnlyMoves
  <2>6. \A u \in Txns : Booked(u)' <=> Booked(u)
    BY <1>1 DEF Booked
  <2>7. ASSUME NEW u \in Txns
        PROVE  /\ Booked(u)' => Kept(u)'
               /\ \A p \in Sessions : Holds(p, u)' => Kept(u)'
               /\ succeeded'[u] <= 1
               /\ succeeded'[u] = 1 => Kept(u)'
    BY <1>1, <1>2, <2>4, <2>5, <2>6 DEF Claims
  <2>8. ASSUME NEW u \in Txns, NEW p \in Sessions, NEW q \in Sessions,
               Holds(p, u)', Holds(q, u)', session'[p].op = "settle"
        PROVE  q = p
    BY <2>3, <2>4, <2>5, <2>8 DEF Claims
  <2>9. ASSUME NEW u \in Txns, succeeded'[u] = 1, NEW p \in Sessions, Holds(p, u)'
        PROVE  session'[p].op # "settle"
    BY <1>1, <2>3, <2>5, <2>9 DEF Claims
  <2> QED BY <2>7, <2>8, <2>9 DEF Claims
<1> QED
  BY <1>6, <1>7, <1>8, <1>9, <1>10, <1>11, <1>12, <1>13, <1>14, <1>15, <1>16 DEF Talks

\* A claim is won only while nobody holds the transaction; a claim is released
\* only by the one session that holds it, and nothing is published twice.
LEMMA ClaimsOfMark ==
    ASSUME Shape, \A q \in Sessions : Progress(q), Claims, NEW s \in Sessions, Marks(s)
    PROVE  Claims'
<1>1. OnlyMoves(s) /\ payments' = payments
  BY ShapeOfMark DEF books
<1>2. \A u \in Txns : Booked(u)' <=> Booked(u)
  BY <1>1 DEF Booked
<1>3. CASE MarkTerminal(s)
  <2>1. /\ succeeded' = succeeded /\ session'[s] = Idle
        /\ \A u \in Txns : Kept(u) => Kept(u)'
    BY <1>3, Marked
  <2>2. \A u \in Txns : ~Holds(s, u)'
    BY <2>1, IdleType DEF Holds, Claiming, Paying
  <2> QED BY <1>1, <2>1, <2>2, ClaimsQuiet
<1>4. CASE Claim(s)
  <2> DEFINE t == session[s].txn
  <2>0. t = session[s].txn
    OBVIOUS
  <2> HIDE DEF t
  <2>1. /\ t \in Txns /\ succeeded' = succeeded /\ session[s].step = "claim"
        /\ session[s].op = "settle"
        /\ \/ session'[s] = Idle /\ UNCHANGED txn
           \/ /\ Keeps(s) /\ session'[s].step = "read"
              /\ ~Kept(t) /\ txn'[t].status \in {"CAPTURED", "REFUNDED"}
              /\ \A u \in Txns \ {t} : txn'[u] = txn[u]
    <3>1. t \in Txns /\ session[s].step = "claim" /\ succeeded' = succeeded
      BY <1>4, <2>0, Claimed
    <3>2. PICK c \in Txns : c = t
      BY <3>1
    <3>3. \/ session'[s] = Idle /\ UNCHANGED txn
          \/ /\ Keeps(s) /\ session'[s].step = "read"
             /\ ~Kept(c) /\ Kept(c)'
             /\ \A u \in Txns \ {c} : txn'[u] = txn[u]
      BY <1>4, <2>0, <3>2, Claimed
    <3>4. session[s].op = "settle"
      BY <3>1 DEF Progress
    <3> QED BY <3>1, <3>2, <3>3, <3>4 DEF Kept
  <2>2. CASE session'[s] = Idle /\ UNCHANGED txn
    <3>1. \A u \in Txns : ~Holds(s, u)'
      BY <2>2, IdleType DEF Holds, Claiming, Paying
    <3>2. \A u \in Txns : Kept(u) => Kept(u)'
      BY <2>2 DEF Kept
    <3> QED BY <1>1, <2>1, <3>1, <3>2, ClaimsQuiet
  <2>3. CASE /\ Keeps(s) /\ session'[s].step = "read"
             /\ ~Kept(t) /\ txn'[t].status \in {"CAPTURED", "REFUNDED"}
             /\ \A u \in Txns \ {t} : txn'[u] = txn[u]
    <3>0. PICK c \in Txns : c = t
      BY <2>1
    <3>1. /\ ~Kept(c) /\ Kept(c)' /\ \A u \in Txns \ {c} : Kept(u)' <=> Kept(u)
          /\ session'[s].txn = c /\ session'[s].op = "settle" /\ Holds(s, c)'
      BY <2>0, <2>1, <2>3, <3>0 DEF Kept, Keeps, Holds, Claiming, Paying
    <3>2. ~Booked(c) /\ (\A q \in Sessions : ~Holds(q, c)) /\ succeeded[c] # 1
      BY <3>1 DEF Claims
    <3>3. \A q \in Sessions : \A u \in Txns :
              Holds(q, u)' => \/ q = s /\ u = c
                              \/ q # s /\ Holds(q, u) /\ session'[q].op = session[q].op
      BY <1>1, <3>1 DEF Holds, OnlyMoves
    <3>4. ASSUME NEW u \in Txns
          PROVE  /\ Booked(u)' => Kept(u)'
                 /\ \A p \in Sessions : Holds(p, u)' => Kept(u)'
                 /\ succeeded'[u] <= 1
                 /\ succeeded'[u] = 1 => Kept(u)'
      BY <1>2, <2>1, <3>1, <3>2, <3>3 DEF Claims
    <3>5. ASSUME NEW u \in Txns, NEW p \in Sessions, NEW q \in Sessions,
                 Holds(p, u)', Holds(q, u)', session'[p].op = "settle"
          PROVE  q = p
      BY <3>1, <3>2, <3>3, <3>5 DEF Claims
    <3>6. ASSUME NEW u \in Txns, succeeded'[u] = 1, NEW p \in Sessions, Holds(p, u)'
          PROVE  session'[p].op # "settle"
      BY <2>1, <3>2, <3>3, <3>6 DEF Claims
    <3> QED BY <3>4, <3>5, <3>6 DEF Claims
  <2> QED BY <2>1, <2>2, <2>3
<1>5. ASSUME NEW t \in Txns, session[s].txn = t, session[s].step \in Claiming,
             session[s].op = "settle", session'[s] = Idle
      PROVE  /\ \A q \in Sessions : ~Holds(q, t)'
             /\ \A q \in Sessions : \A u \in Txns :
                   Holds(q, u)' => Holds(q, u) /\ session'[q].op = session[q].op
  <2>1. \A u \in Txns : ~Holds(s, u)'
    BY <1>5, IdleType DEF Holds, Claiming, Paying
  <2>2. \A q \in Sessions : \A u \in Txns :
            Holds(q, u)' => q # s /\ Holds(q, u) /\ session'[q].op = session[q].op
    BY <1>1, <2>1 DEF Holds, OnlyMoves
  <2>3. Holds(s, t)
    BY <1>5 DEF Holds
  <2> QED BY <1>5, <2>2, <2>3 DEF Claims
<1>6. CASE Publish(s)
  <2>0. PICK t \in Txns : session[s].txn = t
    BY <1>6, Published
  <2>1. /\ session[s].step = "publish" /\ session[s].op = "settle" /\ session'[s] = Idle
        /\ UNCHANGED txn
        /\ succeeded'[t] = succeeded[t] + 1
        /\ \A u \in Txns \ {t} : succeeded'[u] = succeeded[u]
    BY <1>6, <2>0, Published
  <2>2. \A u \in Txns : Kept(u)' <=> Kept(u)
    BY <2>1 DEF Kept
  <2>3. Holds(s, t) /\ Kept(t) /\ succeeded[t] \in Nat /\ succeeded[t] <= 1 /\ succeeded[t] # 1
    BY <2>0, <2>1 DEF Holds, Claims, Claiming, Shape
  <2>4. succeeded'[t] = 1
    BY <2>1, <2>3
  <2>5. /\ \A q \in Sessions : ~Holds(q, t)'
        /\ \A q \in Sessions : \A u \in Txns :
              Holds(q, u)' => Holds(q, u) /\ session'[q].op = session[q].op
    BY <1>5, <2>0, <2>1 DEF Claiming
  <2>6. ASSUME NEW u \in Txns
        PROVE  /\ Booked(u)' => Kept(u)'
               /\ \A p \in Sessions : Holds(p, u)' => Kept(u)'
               /\ succeeded'[u] <= 1
               /\ succeeded'[u] = 1 => Kept(u)'
    BY <1>2, <2>1, <2>2, <2>3, <2>4, <2>5 DEF Claims
  <2>7. ASSUME NEW u \in Txns, NEW p \in Sessions, NEW q \in Sessions,
               Holds(p, u)', Holds(q, u)', session'[p].op = "settle"
        PROVE  q = p
    BY <2>5, <2>7 DEF Claims
  <2>8. ASSUME NEW u \in Txns, succeeded'[u] = 1, NEW p \in Sessions, Holds(p, u)'
        PROVE  session'[p].op # "settle"
    BY <2>1, <2>5, <2>8 DEF Claims
  <2> QED BY <2>6, <2>7, <2>8 DEF Claims
<1>7. CASE Release(s)
  <2>0. PICK t \in Txns : session[s].txn = t
    BY <1>7, Released
  <2>1. /\ session[s].step = "release" /\ session[s].op = "settle" /\ session'[s] = Idle
        /\ UNCHANGED succeeded
        /\ Booked(t) => txn' = txn
        /\ \A u \in Txns \ {t} : txn'[u] = txn[u]
    BY <1>7, <2>0, Released
  <2>2. (\A u \in Txns \ {t} : Kept(u)' <=> Kept(u)) /\ (Booked(t) => (Kept(t)' <=> Kept(t)))
    BY <2>1 DEF Kept
  <2>3. Holds(s, t) /\ succeeded[t] # 1
    BY <2>0, <2>1 DEF Holds, Claims, Claiming
  <2>4. /\ \A q \in Sessions : ~Holds(q, t)'
        /\ \A q \in Sessions : \A u \in Txns :
              Holds(q, u)' => Holds(q, u) /\ session'[q].op = session[q].op
    BY <1>5, <2>0, <2>1 DEF Claiming
  <2>5. ASSUME NEW u \in Txns
        PROVE  /\ Booked(u)' => Kept(u)'
               /\ \A p \in Sessions : Holds(p, u)' => Kept(u)'
               /\ succeeded'[u] <= 1
               /\ succeeded'[u] = 1 => Kept(u)'
    BY <1>2, <2>1, <2>2, <2>3, <2>4 DEF Claims
  <2>6. ASSUME NEW u \in Txns, NEW p \in Sessions, NEW q \in Sessions,
               Holds(p, u)', Holds(q, u)', session'[p].op = "settle"
        PROVE  q = p
    BY <2>4, <2>6 DEF Claims
  <2>7. ASSUME NEW u \in Txns, succeeded'[u] = 1, NEW p \in Sessions, Holds(p, u)'
        PROVE  session'[p].op # "settle"
    BY <2>1, <2>4, <2>7 DEF Claims
  <2> QED BY <2>5, <2>6, <2>7 DEF Claims
<1> QED BY <1>3, <1>4, <1>6, <1>7 DEF Marks

\* A payment lands only for a transaction its session holds.
LEMMA ClaimsOfWrite ==
    ASSUME Shape, Identities, Pending, \A q \in Sessions : Progress(q), Claims,
           NEW s \in Sessions, Writes(s)
    PROVE  Claims'
<1>1. OnlyMoves(s) /\ UNCHANGED <<txn, succeeded>>
  BY ShapeOfWrite
<1>2. \A u \in Txns : Kept(u)' <=> Kept(u)
  BY <1>1 DEF Kept
<1>3. ASSUME \/ session'[s].step \notin Claiming
             \/ session[s].step \in Claiming /\ Keeps(s)
      PROVE  \A u \in Txns : Holds(s, u)' => Holds(s, u) /\ session'[s].op = session[s].op
  BY <1>3 DEF Holds, Keeps
<1>4. CASE SkipDuplicate(s)
  <2>1. /\ payments' = payments /\ session[s].step = "apply"
        /\ session'[s] = Idle \/ Keeps(s)
    BY <1>4, Skipped
  <2> QED BY <1>1, <1>2, <1>3, <2>1, IdleType, ClaimsQuiet DEF Claiming, Paying
<1>5. CASE FinishStaff(s)
  BY <1>1, <1>2, <1>3, <1>5, StaffFinished, IdleType, ClaimsQuiet DEF Claiming, Paying
<1>6. CASE WriteRefund(s)
  <2> DEFINE id == RefundId
  <2>0. id = RefundId
    OBVIOUS
  <2> HIDE DEF id
  <2>1. payments' = payments /\ (session'[s] = Idle \/ session'[s].step = "provider")
    BY <1>6, <2>0, RefundWritten
  <2> QED BY <1>1, <1>2, <1>3, <2>1, IdleType, ClaimsQuiet DEF Claiming, Paying
<1>7. CASE RefundTaken(s)
  BY <1>1, <1>2, <1>3, <1>7, TakenByProvider, IdleType, ClaimsQuiet DEF Claiming, Paying
<1>8. CASE ReverseRefund(s)
  <2>1. payments' = payments /\ session'[s] = Idle
    BY <1>8, Stopped DEF ReverseRefund
  <2> QED BY <1>1, <1>2, <1>3, <2>1, IdleType, ClaimsQuiet DEF Claiming, Paying
<1>9. CASE Lands(s)
  <2>1. /\ session[s].step = "apply"
        /\ session'[s] = Idle \/ Keeps(s)
        /\ \E n \in Nat \ {0}, id \in Ids :
              /\ session[s].txn \in Txns => id = session[s].txn
              /\ session[s].txn \notin Txns => id \in Nat
              /\ payments' = payments \cup {[id |-> id, amount |-> n]}
    <3>1. PICK tick \in Ticks : ApplyPayment(s, tick) \/ CommitUnanswered(s, tick)
      BY <1>9 DEF Lands
    <3>2. session[s].step = "apply" /\ (session'[s] = Idle \/ Keeps(s))
      BY <3>1, Landed
    <3>3. \E n \in Nat \ {0}, id, key \in Ids :
              /\ session[s].txn \in Txns => id = session[s].txn /\ key = session[s].txn
              /\ session[s].txn \notin Txns => id = CashId /\ id \in Nat /\ key \in Nat
              /\ payments' = payments \cup {[id |-> id, amount |-> n]}
              /\ ledger \subseteq ledger'
              /\ \A e \in ledger' \ ledger :
                    e.ref[1] = "issued" \/ e = [ref |-> <<"payment", key>>, delta |-> -n]
              /\ (\A e \in ledger : e.ref # <<"payment", key>>) =>
                    [ref |-> <<"payment", key>>, delta |-> -n] \in ledger'
      BY <3>1, Landed
    <3>4. PICK n \in Nat \ {0}, id \in Ids :
              /\ session[s].txn \in Txns => id = session[s].txn
              /\ session[s].txn \notin Txns => id \in Nat
              /\ payments' = payments \cup {[id |-> id, amount |-> n]}
      BY <3>3
    <3> QED BY <3>2, <3>4
  <2>2. ASSUME NEW u \in Txns, Booked(u)'
        PROVE  Kept(u)
    <3>1. Booked(u) \/ (session[s].txn = u)
      BY <2>1, <2>2, SettlementAssumption DEF Booked
    <3>2. CASE Booked(u)
      BY <3>2 DEF Claims
    <3>3. CASE session[s].txn = u
      BY <2>1, <3>3 DEF Claims, Holds, Claiming, Paying
    <3> QED BY <3>1, <3>2, <3>3
  <2>3. \A q \in Sessions : \A u \in Txns :
            Holds(q, u)' => Holds(q, u) /\ session'[q].op = session[q].op
    <3>1. \A u \in Txns : Holds(s, u)' => Holds(s, u) /\ session'[s].op = session[s].op
      BY <1>3, <2>1, IdleType DEF Claiming, Paying
    <3> QED BY <1>1, <3>1 DEF Holds, OnlyMoves
  <2>4. ASSUME NEW u \in Txns
        PROVE  /\ \A p \in Sessions : Holds(p, u)' => Kept(u)'
               /\ succeeded'[u] <= 1
               /\ succeeded'[u] = 1 => Kept(u)'
    BY <1>1, <1>2, <2>3 DEF Claims
  <2>5. ASSUME NEW u \in Txns, NEW p \in Sessions, NEW q \in Sessions,
               Holds(p, u)', Holds(q, u)', session'[p].op = "settle"
        PROVE  q = p
    BY <2>3, <2>5 DEF Claims
  <2>6. ASSUME NEW u \in Txns, succeeded'[u] = 1, NEW p \in Sessions, Holds(p, u)'
        PROVE  session'[p].op # "settle"
    BY <1>1, <2>3, <2>6 DEF Claims
  <2> QED BY <1>2, <2>2, <2>4, <2>5, <2>6 DEF Claims
<1> QED BY <1>4, <1>5, <1>6, <1>7, <1>8, <1>9 DEF Writes

\* The steps of the links take no claim.
LEMMA ClaimsOfLink ==
    ASSUME Shape, Claims, NEW t \in Txns, LinkStep(t)
    PROVE  Claims'
<1>1. /\ UNCHANGED <<books, succeeded, session>>
      /\ \A u \in Txns : Kept(u) => Kept(u)'
  BY LinkMoved
<1>2. /\ \A u \in Txns : Booked(u)' <=> Booked(u)
      /\ \A q \in Sessions, u \in Txns : Holds(q, u)' <=> Holds(q, u)
  BY <1>1 DEF Booked, Holds, books
<1> QED BY <1>1, <1>2 DEF Claims

-----------------------------------------------------------------------------
(* The debit of the invoice *)

\* Once the debit is in the ledger everybody is right to count on it.
LEMMA IssuedForAll ==
    ASSUME HasIssued'
    PROVE  Debits'
BY DEF Debits

\* Nothing is deleted from the ledger.
LEMMA IssuedStays ==
    ASSUME HasIssued, ledger \subseteq ledger'
    PROVE  HasIssued'
BY DEF HasIssued

\* What is known while there is no debit.
LEMMA NotIssued ==
    ASSUME Debits, ~HasIssued
    PROVE  /\ payments = {} /\ invoice.status \in {"DRAFT", "CANCELLED"}
           /\ \A e \in ledger : e.ref[1] = "issued"
           /\ \A q \in Sessions :
                 /\ session[q].step = "apply" => issuing = q
                 /\ session[q].step = "staff" => session[q].op # "overdue"
                 /\ session[q].step = "staff" /\ session[q].op = "cancel" =>
                       session[q].seen.status = "DRAFT"
                 /\ session[q].step \notin Refunding
BY DEF Debits

\* Without a debit, a step of s keeps the others' reasons, and needs its own.
LEMMA DebitsQuiet ==
    ASSUME Debits, ~HasIssued, NEW s \in Sessions, OnlyMoves(s),
           \A q \in Sessions \ {s} : issuing = q => issuing' = q,
           payments' = payments, ledger' = ledger,
           invoice'.status \in {"DRAFT", "CANCELLED"},
           session'[s].step = "apply" => issuing' = s,
           session'[s].step = "staff" => /\ session'[s].op # "overdue"
                                         /\ session'[s].op = "cancel" =>
                                               session'[s].seen.status = "DRAFT",
           session'[s].step \notin Refunding
    PROVE  Debits'
<1>1. payments' = {} /\ \A e \in ledger' : e.ref[1] = "issued"
  BY NotIssued
<1>2. \A q \in Sessions :
          /\ session'[q].step = "apply" => issuing' = q
          /\ session'[q].step = "staff" => session'[q].op # "overdue"
          /\ session'[q].step = "staff" /\ session'[q].op = "cancel" =>
                session'[q].seen.status = "DRAFT"
          /\ session'[q].step \notin Refunding
  <2>1. ASSUME NEW q \in Sessions \ {s}
        PROVE  /\ session'[q].step = "apply" => issuing' = q
               /\ session'[q].step = "staff" => session'[q].op # "overdue"
               /\ session'[q].step = "staff" /\ session'[q].op = "cancel" =>
                     session'[q].seen.status = "DRAFT"
               /\ session'[q].step \notin Refunding
    BY NotIssued DEF OnlyMoves
  <2> QED BY <2>1
<1> QED BY <1>1, <1>2 DEF Debits

\* A step that leaves the books as they are.
LEMMA DebitsOfTalk ==
    ASSUME Shape, \A q \in Sessions : Progress(q), Debits, NEW s \in Sessions, Talks(s)
    PROVE  Debits'
<1>1. /\ OnlyMoves(s) /\ payments' = payments /\ ledger' = ledger /\ invoice' = invoice
  BY ShapeOfTalk DEF books
<1>2. CASE HasIssued
  BY <1>1, <1>2, IssuedStays, IssuedForAll
<1>3. CASE ~HasIssued
  <2>1. invoice'.status \in {"DRAFT", "CANCELLED"}
    BY <1>1, <1>3, NotIssued
  <2>2. ASSUME \A q \in Sessions \ {s} : issuing = q => issuing' = q,
               session'[s].step = "apply" => issuing' = s,
               session'[s].step = "staff" => /\ session'[s].op # "overdue"
                                             /\ session'[s].op = "cancel" =>
                                                   session'[s].seen.status = "DRAFT",
               session'[s].step \notin Refunding
        PROVE  Debits'
    BY <1>1, <1>3, <2>1, <2>2, DebitsQuiet
  <2>3. ASSUME Unlock(s) \/ UNCHANGED issuing,
               session'[s].step \notin {"apply", "staff"} \cup Refunding
        PROVE  Debits'
    BY <2>2, <2>3, Unlocked
  <2>4. CASE TakesUp(s) \/ Heals(s)
    <3>1. PICK t \in Txns : \/ CapturedWebhook(s, t) \/ FailedWebhook(s, t)
                            \/ Reconcile(s, t) \/ Heal(s, t)
      BY <2>4 DEF TakesUp, Heals
    <3>2. PICK op \in Ops, step \in {"ask", "claim", "FAILED", "read"} : Take(s, op, step, t)
      BY <3>1 DEF CapturedWebhook, FailedWebhook, Reconcile, Heal, Ops
    <3>3. session'[s].step = step /\ UNCHANGED issuing
      BY <3>2, Taken DEF Steps
    <3> QED BY <2>3, <3>3 DEF Refunding
  <2>5. CASE StartsCash(s)
    BY <2>3, <2>5, CashTaken DEF StartsCash, Refunding
  <2>6. CASE StartsStaff(s)
    <3>1. PICK op \in {"send", "cancel", "overdue"} : StartStaff(s, op)
      BY <2>6 DEF StartsStaff
    <3>2. /\ session'[s].op = op /\ session'[s].step = "staff" /\ UNCHANGED issuing
          /\ op = "cancel" => session'[s].seen = invoice
          /\ op = "overdue" => invoice.status \in {"SENT", "PARTIALLY_PAID"}
          /\ op = "cancel" => invoice.status \notin TerminalStatuses
      BY <3>1, StaffStarted
    <3> QED BY <1>3, <2>2, <3>2, NotIssued DEF Refunding, TerminalStatuses
  <2>7. CASE StartsRefund(s)
    <3>1. payments # {}
      BY <2>7 DEF StartsRefund
    <3> QED BY <1>3, <3>1, NotIssued
  <2>8. CASE ProviderTruth(s)
    <3>1. UNCHANGED issuing /\ session'[s].step \in {"idle", "claim", "FAILED", "CANCELLED"}
      BY <2>8, TruthTold, IdleType
    <3> QED BY <2>3, <3>1 DEF Refunding
  <2>9. CASE ReadInvoice(s)
    <3>1. /\ session'[s].step \in {"issue", "apply"} /\ UNCHANGED issuing
          /\ session'[s].step = "apply" => invoice.status \notin {"DRAFT"} \cup TerminalStatuses
      BY <2>9, InvoiceRead
    <3>2. session'[s].step = "issue"
      BY <1>3, <3>1, NotIssued DEF TerminalStatuses
    <3> QED BY <2>3, <3>1, <3>2 DEF Refunding
  <2>10. CASE IssueDraft(s)
    <3>1. session'[s].step = "apply" /\ issuing = NoSession /\ issuing' = s
      BY <2>10, DraftIssued
    <3> QED BY <2>2, <3>1, SettlementAssumption DEF Refunding
  <2>11. CASE RollsBack(s)
    <3>1. Unlock(s) /\ session'[s].step \in {"idle", "publish", "release"}
      BY <2>11, RolledBack, IdleType DEF RollsBack
    <3> QED BY <2>3, <3>1 DEF Refunding
  <2>12. CASE LockPayment(s)
    BY <1>3, <2>12, NotIssued DEF LockPayment, At, Refunding
  <2>13. CASE RefundRefused(s)
    BY <1>3, <2>13, NotIssued DEF RefundRefused, At, Refunding
  <2> QED
    BY <2>4, <2>5, <2>6, <2>7, <2>8, <2>9, <2>10, <2>11, <2>12, <2>13 DEF Talks
<1> QED BY <1>2, <1>3

\* A step that writes transactions, or publishes.
LEMMA DebitsOfMark ==
    ASSUME Shape, \A q \in Sessions : Progress(q), Debits, NEW s \in Sessions, Marks(s)
    PROVE  Debits'
<1>1. /\ OnlyMoves(s) /\ payments' = payments /\ ledger' = ledger /\ invoice' = invoice
  BY ShapeOfMark DEF books
<1>2. /\ \A q \in Sessions \ {s} : issuing = q => issuing' = q
      /\ session'[s].step \in {"idle", "read"}
  <2>1. /\ Unlock(s) \/ UNCHANGED issuing
        /\ session'[s].step \in {"idle", "read"}
    <3>1. CASE MarkTerminal(s)
      BY <3>1, Marked, IdleType
    <3>2. CASE Claim(s)
      BY <3>2, Claimed, IdleType
    <3>3. CASE Publish(s)
      BY <3>3, Published, IdleType
    <3>4. CASE Release(s)
      BY <3>4, Released, IdleType
    <3> QED BY <3>1, <3>2, <3>3, <3>4 DEF Marks
  <2> QED BY <2>1, Unlocked
<1>3. CASE HasIssued
  BY <1>1, <1>3, IssuedStays, IssuedForAll
<1>4. CASE ~HasIssued
  BY <1>1, <1>2, <1>4, NotIssued, DebitsQuiet DEF Refunding
<1> QED BY <1>3, <1>4

\* A step that writes the books: nothing is credited before the debit.
LEMMA DebitsOfWrite ==
    ASSUME Shape, Identities, Pending, \A q \in Sessions : Progress(q), Debits,
           NEW s \in Sessions, Writes(s)
    PROVE  ledger \subseteq ledger' /\ Debits'
<1>1. OnlyMoves(s) /\ Unlock(s)
  BY ShapeOfWrite
<1>2. ASSUME HasIssued, ledger \subseteq ledger'
      PROVE  Debits'
  BY <1>2, IssuedStays, IssuedForAll
<1>3. CASE SkipDuplicate(s)
  <2>1. /\ session[s].step = "apply" /\ Grows({"issued"}) /\ (issuing = s => HasIssued')
    BY <1>3, Skipped
  <2>2. ledger \subseteq ledger'
    BY <2>1 DEF Grows
  <2> QED BY <1>2, <2>1, <2>2, NotIssued, IssuedForAll
<1>4. CASE Lands(s)
  <2>1. /\ session[s].step = "apply" /\ ledger \subseteq ledger' /\ (issuing = s => HasIssued')
    BY <1>4, Landed DEF Lands
  <2> QED BY <1>2, <2>1, NotIssued, IssuedForAll
<1>5. CASE FinishStaff(s)
  <2>1. /\ session[s].step = "staff" /\ session'[s] = Idle /\ payments' = payments
        /\ \/ session[s].op = "send" /\ Grows({"issued"}) /\ HasIssued'
           \/ /\ session[s].op = "cancel" /\ invoice'.status = "CANCELLED"
              /\ Grows({"cancel"})
              /\ session[s].seen.status = "DRAFT" => ledger' = ledger
           \/ session[s].op = "overdue" /\ ledger' = ledger
    BY <1>5, StaffFinished
  <2>2. ledger \subseteq ledger'
    <3>1. Grows({"issued"}) \/ Grows({"cancel"}) \/ ledger' = ledger
      BY <2>1
    <3> QED BY <3>1 DEF Grows
  <2>3. CASE session[s].op = "cancel" /\ ~HasIssued
    <3>1. ledger' = ledger /\ invoice'.status = "CANCELLED"
      BY <2>1, <2>3, NotIssued
    <3>2. \A q \in Sessions \ {s} : issuing = q => issuing' = q
      BY <1>1, Unlocked
    <3> QED BY <1>1, <2>1, <2>2, <2>3, <3>1, <3>2, IdleType, DebitsQuiet DEF Refunding
  <2>4. CASE session[s].op = "overdue"
    BY <1>2, <2>1, <2>2, <2>4, NotIssued
  <2> QED BY <1>2, <2>1, <2>2, <2>3, <2>4, IssuedForAll
<1>6. ASSUME session[s].step \in Refunding, ledger \subseteq ledger'
      PROVE  Debits'
  BY <1>2, <1>6, NotIssued
<1>7. CASE WriteRefund(s)
  <2> DEFINE id == RefundId
             ref == <<"refund", id>>
  <2>0. id = RefundId
    OBVIOUS
  <2> HIDE DEF id
  <2>1. session[s].step = "refund" /\ ledger' = Posted(ledger, ref, session[s].amount)
    BY <1>7, <2>0, RefundWritten
  <2> HIDE DEF ref
  <2>2. ledger \subseteq ledger'
    BY <2>1, PostedIs
  <2> QED BY <1>6, <2>1, <2>2 DEF Refunding
<1>8. CASE RefundTaken(s)
  BY <1>6, <1>8, TakenByProvider DEF Refunding
<1>9. CASE ReverseRefund(s)
  <2> DEFINE delta == -session[s].amount
             ref == <<"reversed", session[s].payment>>
  <2>1. session[s].step = "reverse" /\ ledger' = Posted(ledger, ref, delta)
    BY <1>9 DEF ReverseRefund, At
  <2> HIDE DEF delta, ref
  <2>2. ledger \subseteq ledger'
    BY <2>1, PostedIs
  <2> QED BY <1>6, <2>1, <2>2 DEF Refunding
<1> QED BY <1>3, <1>4, <1>5, <1>7, <1>8, <1>9 DEF Writes

\* The steps of a link leave the books alone.
LEMMA DebitsOfLink ==
    ASSUME Shape, Debits, NEW t \in Txns, LinkStep(t)
    PROVE  Debits'
<1>1. UNCHANGED <<books, issuing, session>>
  BY LinkMoved
<1> QED BY <1>1 DEF Debits, HasIssued, books

-----------------------------------------------------------------------------
(* Identities *)

\* The payments that did not come through a link.
CashRows == {c \in payments : c.id \notin Txns}

\* No new row, no new id.
LEMMA IdentitiesQuiet ==
    ASSUME Identities, payments' = payments, refunds' = refunds
    PROVE  Identities'
BY DEF Identities

\* Neither a link nor the next cash number has been given to a payment before.
LEMMA IdentitiesOfLanding ==
    ASSUME Shape, Identities, NEW id \in Ids, NEW n \in Nat \ {0},
           id \in Txns => ~Booked(id),
           id \notin Txns => id = CashId,
           payments' = payments \cup {[id |-> id, amount |-> n]}, refunds' = refunds
    PROVE  Identities' /\ \A p \in payments : p.id # id
<1> DEFINE row == [id |-> id, amount |-> n]
           k == Cardinality(CashRows)
<1>1. IsFiniteSet(CashRows) /\ k \in Nat /\ CashId = 1 + k
  <2>1. CashRows \in SUBSET payments
    BY DEF CashRows
  <2>2. IsFiniteSet(CashRows)
    BY <2>1, FS_Subset DEF Shape
  <2> QED BY <2>2, FS_CardinalityType DEF CashId, CashRows
<1>2. /\ \A p, q \in payments : p.id = q.id => p = q
      /\ \A p \in payments : p.id \notin Txns => p.id \in 1..k
  BY DEF Identities, CashRows
<1>3. \A p \in payments : p.id # id
  <2>1. CASE id \in Txns
    BY <2>1 DEF Booked
  <2>2. CASE id \notin Txns
    BY <2>2, <1>1, <1>2
  <2> QED BY <2>1, <2>2
<1>4. row.id = id
  OBVIOUS
<1> HIDE DEF row
<1>5. \A p, q \in payments' : p.id = q.id => p = q
  BY <1>2, <1>3, <1>4 DEF row
<1>6. \A p \in payments' : p.id \notin Txns =>
          p.id \in 1..Cardinality({c \in payments' : c.id \notin Txns})
  <2>1. CASE id \in Txns
    <3>1. {c \in payments' : c.id \notin Txns} = CashRows
      BY <2>1, <1>4 DEF CashRows, row
    <3>2. Cardinality({c \in payments' : c.id \notin Txns}) = k
      BY <3>1
    <3> HIDE DEF k
    <3> QED BY <2>1, <1>2, <1>4, <3>2 DEF row
  <2>2. CASE id \notin Txns
    <3>1. {c \in payments' : c.id \notin Txns} = CashRows \cup {row}
      BY <2>2, <1>4 DEF CashRows, row
    <3>2. row \notin CashRows
      BY <1>3, <1>4 DEF CashRows
    <3>3. Cardinality(CashRows \cup {row}) = k + 1
      BY <1>1, <3>2, FS_AddElement
    <3>4. Cardinality({c \in payments' : c.id \notin Txns}) = k + 1
      BY <3>1, <3>3
    <3>5. id = k + 1
      BY <2>2, <1>1
    <3> HIDE DEF k
    <3>6. ASSUME NEW p \in payments', p.id \notin Txns
          PROVE  p.id \in 1..(k + 1)
      <4>1. p \in payments \/ p = row
        BY DEF row
      <4> QED BY <4>1, <3>5, <3>6, <1>1, <1>2, <1>4
    <3> QED BY <3>4, <3>6
  <2> QED BY <2>1, <2>2
<1>7. \A r \in refunds' : \E p \in payments' : p.id = r.payment
  BY DEF Identities
<1>8. /\ \A r, q \in refunds' : r.id = q.id => r = q
      /\ \A r \in refunds' : r.id \in 1..Cardinality(refunds')
  BY DEF Identities
<1> QED BY <1>3, <1>5, <1>6, <1>7, <1>8 DEF Identities

\* The next number has been given to no refund before.
LEMMA IdentitiesOfRefund ==
    ASSUME Shape, Identities, NEW row \in RefundRows, row.id = RefundId,
           \E p \in payments : p.id = row.payment,
           payments' = payments, refunds' = refunds \cup {row}
    PROVE  /\ Identities' /\ Cardinality(refunds') = Cardinality(refunds) + 1
           /\ \A r \in refunds : r.id # row.id
<1> DEFINE k == Cardinality(refunds)
<1>1. IsFiniteSet(refunds) /\ k \in Nat /\ row.id = 1 + k
  BY FS_CardinalityType DEF Shape, RefundId
<1>2. /\ \A r, q \in refunds : r.id = q.id => r = q
      /\ \A r \in refunds : r.id \in 1..k
  BY DEF Identities
<1>3. \A r \in refunds : r.id # row.id
  BY <1>1, <1>2
<1>4. Cardinality(refunds') = k + 1
  <2>1. row \notin refunds
    BY <1>3
  <2> QED BY <1>1, <2>1, FS_AddElement
<1> HIDE DEF k
<1>5. \A r, q \in refunds' : r.id = q.id => r = q
  BY <1>2, <1>3
<1>6. \A r \in refunds' : r.id \in 1..(k + 1)
  BY <1>1, <1>2
<1>7. \A r \in refunds' : \E p \in payments' : p.id = r.payment
  BY DEF Identities
<1>8. /\ \A p, q \in payments' : p.id = q.id => p = q
      /\ \A p \in payments' : p.id \notin Txns =>
            p.id \in 1..Cardinality({c \in payments' : c.id \notin Txns})
  BY DEF Identities
<1>9. Identities'
  BY <1>4, <1>5, <1>6, <1>7, <1>8 DEF Identities
<1> QED BY <1>3, <1>4, <1>9 DEF k

\* A refund that is restated keeps its number.
LEMMA IdentitiesOfRestating ==
    ASSUME Shape, Identities, NEW x \in refunds, NEW y \in RefundRows,
           y.id = x.id, y.payment = x.payment, y \notin refunds \ {x},
           payments' = payments, refunds' = (refunds \ {x}) \cup {y}
    PROVE  Identities' /\ Cardinality(refunds') = Cardinality(refunds)
<1> DEFINE k == Cardinality(refunds)
           rest == refunds \ {x}
<1>1. IsFiniteSet(refunds) /\ k \in Nat
  BY FS_CardinalityType DEF Shape
<1>2. IsFiniteSet(rest) /\ Cardinality(rest) = k - 1
  BY <1>1, FS_RemoveElement
<1>3. refunds' = rest \cup {y} /\ y \notin rest
  OBVIOUS
<1> HIDE DEF rest
<1>4. Cardinality(rest \cup {y}) = Cardinality(rest) + 1
  BY <1>2, <1>3, FS_AddElement
<1> HIDE DEF k
<1>5. Cardinality(refunds') = k
  <2>1. Cardinality(rest \cup {y}) = k
    BY <1>1, <1>2, <1>4
  <2> QED BY <1>3, <2>1
<1>6. /\ \A r, q \in refunds : r.id = q.id => r = q
      /\ \A r \in refunds : r.id \in 1..k
      /\ \A r \in refunds : \E p \in payments : p.id = r.payment
  BY DEF Identities, k
<1>7. \A r, q \in refunds' : r.id = q.id => r = q
  BY <1>6
<1>8. \A r \in refunds' : r.id \in 1..k
  BY <1>6
<1>9. \A r \in refunds' : \E p \in payments' : p.id = r.payment
  BY <1>6
<1>10. /\ \A p, q \in payments' : p.id = q.id => p = q
       /\ \A p \in payments' : p.id \notin Txns =>
             p.id \in 1..Cardinality({c \in payments' : c.id \notin Txns})
  BY DEF Identities
<1>11. Identities'
  BY <1>5, <1>7, <1>8, <1>9, <1>10 DEF Identities
<1> QED BY <1>5, <1>11 DEF k

-----------------------------------------------------------------------------
(* What a step that writes the books does to the documents *)

\* It only stamps the invoice.
Stamps(s) ==
    /\ UNCHANGED <<payments, refunds>> /\ Grows({"issued", "cancel"})
    /\ session'[s].step \notin Refunding

\* It books the payment id of n, with its credit under key.
BooksPayment(s, id, n, key) ==
    /\ id \in Txns => ~Booked(id) /\ key = id
    /\ id \notin Txns => id = CashId /\ key \notin Txns
    /\ payments' = payments \cup {[id |-> id, amount |-> n]} /\ refunds' = refunds
    /\ ledger \subseteq ledger'
    /\ \A e \in ledger' \ ledger :
          e.ref[1] = "issued" \/ e = [ref |-> <<"payment", key>>, delta |-> -n]
    /\ (\A e \in ledger : e.ref # <<"payment", key>>) =>
          [ref |-> <<"payment", key>>, delta |-> -n] \in ledger'
    /\ session'[s].step \notin Refunding

\* It writes a new refund of the payment the session has locked.
BooksRefund(s, row) ==
    /\ row.id = RefundId /\ row.status = "PROCESSING"
    /\ session[s].step = "refund"
    /\ row.payment = session[s].payment /\ row.amount = session[s].amount
    /\ \E p \in payments : p.id = row.payment
    /\ payments' = payments /\ refunds' = refunds \cup {row}
    /\ ledger' = Posted(ledger, <<"refund", row.id>>, row.amount)
    /\ \/ session'[s].step \notin Refunding
       \/ /\ session'[s].step = "provider"
          /\ session'[s].payment = row.id /\ session'[s].amount = row.amount

\* The session's own refund x becomes y, and its debit is taken back if y has failed.
Restates(s, x, y) ==
    /\ session[s].step \in Completing /\ session'[s].step \notin Refunding
    /\ x.id = session[s].payment /\ x.status = "PROCESSING"
    /\ y.id = x.id /\ y.payment = x.payment /\ y.amount = x.amount /\ y \notin refunds \ {x}
    /\ payments' = payments /\ refunds' = (refunds \ {x}) \cup {y}
    /\ \/ y.status # "FAILED" /\ ledger' = ledger
       \/ /\ y.status = "FAILED"
          /\ ledger' = Posted(ledger, <<"reversed", x.id>>, -x.amount)

\* The refund a session writes is its own.
LEMMA WrittenIsBooked ==
    ASSUME Shape, Identities, NEW s \in Sessions, Progress(s), WriteRefund(s)
    PROVE  \E row \in RefundRows : BooksRefund(s, row)
<1> DEFINE id == RefundId
<1>0. id = RefundId /\ Idle.step \notin Refunding
  BY IdleType DEF Refunding
<1> HIDE DEF id
<1>1. /\ session[s].step = "refund" /\ payments' = payments
      /\ \/ session'[s] = Idle
         \/ /\ session'[s].step = "provider" /\ session'[s].payment = id
            /\ session'[s].amount = session[s].amount
      /\ ledger' = Posted(ledger, <<"refund", id>>, session[s].amount)
      /\ \E row \in RefundRows :
            /\ row.id = id /\ row.payment = session[s].payment
            /\ row.amount = session[s].amount /\ row.status = "PROCESSING"
            /\ refunds' = refunds \cup {row}
  BY <1>0, RefundWritten
<1>2. PICK row \in RefundRows :
          /\ row.id = id /\ row.payment = session[s].payment
          /\ row.amount = session[s].amount /\ row.status = "PROCESSING"
          /\ refunds' = refunds \cup {row}
  BY <1>1
<1>3. \E p \in payments : p.id = session[s].payment
  BY <1>1 DEF Progress
<1>4. BooksRefund(s, row)
  BY <1>0, <1>1, <1>2, <1>3 DEF BooksRefund
<1> QED BY <1>4

\* These are all the ways the books are written.
LEMMA WriteIs ==
    ASSUME Shape, Identities, Pending, NEW s \in Sessions, Progress(s), Writes(s)
    PROVE  \/ Stamps(s)
           \/ \E n \in Nat \ {0}, id, key \in Ids : BooksPayment(s, id, n, key)
           \/ \E row \in RefundRows : BooksRefund(s, row)
           \/ \E x \in refunds, y \in RefundRows : Restates(s, x, y)
<1>0. Idle.step \notin Refunding
  BY IdleType DEF Refunding
<1>1. CASE SkipDuplicate(s)
  <2>1. /\ session'[s] = Idle \/ session'[s].step = "publish"
        /\ UNCHANGED <<payments, refunds>> /\ Grows({"issued"})
    BY <1>1, Skipped
  <2> QED BY <1>0, <2>1 DEF Stamps, Grows, Refunding
<1>2. CASE FinishStaff(s)
  <2>1. /\ session'[s] = Idle /\ UNCHANGED <<payments, refunds>>
        /\ Grows({"issued"}) \/ Grows({"cancel"}) \/ ledger' = ledger
    BY <1>2, StaffFinished
  <2> QED BY <1>0, <2>1 DEF Stamps, Grows
<1>3. CASE Lands(s)
  <2>1. /\ session'[s] = Idle \/ session'[s].step \in {"publish", "release"}
        /\ refunds' = refunds /\ ~Booked(session[s].txn)
        /\ \E n \in Nat \ {0}, id, key \in Ids :
              /\ session[s].txn \in Txns => id = session[s].txn /\ key = session[s].txn
              /\ session[s].txn \notin Txns => id = CashId /\ id \in Nat /\ key \in Nat
              /\ payments' = payments \cup {[id |-> id, amount |-> n]}
              /\ ledger \subseteq ledger'
              /\ \A e \in ledger' \ ledger :
                    e.ref[1] = "issued" \/ e = [ref |-> <<"payment", key>>, delta |-> -n]
              /\ (\A e \in ledger : e.ref # <<"payment", key>>) =>
                    [ref |-> <<"payment", key>>, delta |-> -n] \in ledger'
    BY <1>3, Landed DEF Lands
  <2>2. PICK n \in Nat \ {0}, id, key \in Ids :
              /\ session[s].txn \in Txns => id = session[s].txn /\ key = session[s].txn
              /\ session[s].txn \notin Txns => id = CashId /\ id \in Nat /\ key \in Nat
              /\ payments' = payments \cup {[id |-> id, amount |-> n]}
              /\ ledger \subseteq ledger'
              /\ \A e \in ledger' \ ledger :
                    e.ref[1] = "issued" \/ e = [ref |-> <<"payment", key>>, delta |-> -n]
              /\ (\A e \in ledger : e.ref # <<"payment", key>>) =>
                    [ref |-> <<"payment", key>>, delta |-> -n] \in ledger'
    BY <2>1
  <2>3. /\ id \in Txns => ~Booked(id) /\ key = id
        /\ id \notin Txns => id = CashId /\ key \notin Txns
    BY <2>1, <2>2, SettlementAssumption
  <2>4. session'[s].step \notin Refunding
    BY <1>0, <2>1 DEF Refunding
  <2>5. BooksPayment(s, id, n, key)
    BY <2>1, <2>2, <2>3, <2>4 DEF BooksPayment
  <2> QED BY <2>5
<1>4. CASE WriteRefund(s)
  BY <1>4, WrittenIsBooked
<1>5. CASE RefundTaken(s)
  <2>1. /\ session[s].step = "provider" /\ session'[s] = Idle
        /\ payments' = payments /\ ledger' = ledger
        /\ \E status \in {"COMPLETED", "PROCESSING"} :
              refunds' = Restated(session[s].payment, status)
    BY <1>5, TakenByProvider
  <2>2. PICK x \in refunds : x.id = session[s].payment /\ x.status = "PROCESSING"
    BY <2>1 DEF Pending, Completing
  <2>3. PICK status \in {"COMPLETED", "PROCESSING"} : refunds' = Restated(x.id, status)
    BY <2>1, <2>2
  <2>4. PICK y \in RefundRows :
            /\ y.id = x.id /\ y.payment = x.payment /\ y.amount = x.amount
            /\ y.status = status
            /\ y \notin refunds \ {x}
            /\ Restated(x.id, status) = (refunds \ {x}) \cup {y}
    BY RestatedIs
  <2>5. Restates(s, x, y)
    BY <1>0, <2>1, <2>2, <2>3, <2>4 DEF Restates, Completing
  <2> QED BY <2>5
<1>6. CASE ReverseRefund(s)
  <2>1. session[s].step = "reverse"
    BY <1>6 DEF ReverseRefund, At
  <2>2. PICK x \in refunds : /\ x.id = session[s].payment /\ x.amount = session[s].amount
                             /\ x.status = "PROCESSING"
    BY <2>1 DEF Pending, Completing
  <2>3. /\ refunds' = Restated(x.id, "FAILED") /\ payments' = payments /\ session'[s] = Idle
        /\ ledger' = Posted(ledger, <<"reversed", x.id>>, -session[s].amount)
    BY <1>6, <2>2, Reversed
  <2>4. PICK y \in RefundRows :
            /\ y.id = x.id /\ y.payment = x.payment /\ y.amount = x.amount
            /\ y.status = "FAILED"
            /\ y \notin refunds \ {x}
            /\ Restated(x.id, "FAILED") = (refunds \ {x}) \cup {y}
    BY RestatedIs
  <2>5. ledger' = Posted(ledger, <<"reversed", x.id>>, -x.amount)
    BY <2>2, <2>3
  <2>6. Restates(s, x, y)
    BY <1>0, <2>1, <2>2, <2>3, <2>4, <2>5 DEF Restates, Completing
  <2> QED BY <2>6
<1> QED BY <1>1, <1>2, <1>3, <1>4, <1>5, <1>6 DEF Writes

\* A step that writes the books gives no id twice.
LEMMA IdentitiesOfWrite ==
    ASSUME Shape, Identities, Pending, NEW s \in Sessions, Progress(s), Writes(s)
    PROVE  Identities'
<1>1. CASE Stamps(s)
  BY <1>1, IdentitiesQuiet DEF Stamps
<1>2. ASSUME NEW n \in Nat \ {0}, NEW id \in Ids, NEW key, BooksPayment(s, id, n, key)
      PROVE  Identities'
  BY <1>2, IdentitiesOfLanding DEF BooksPayment
<1>3. ASSUME NEW row \in RefundRows, BooksRefund(s, row)
      PROVE  Identities'
  BY <1>3, IdentitiesOfRefund DEF BooksRefund
<1>4. ASSUME NEW x \in refunds, NEW y \in RefundRows, Restates(s, x, y)
      PROVE  Identities'
  BY <1>4, IdentitiesOfRestating DEF Restates
<1> QED BY <1>1, <1>2, <1>3, <1>4, WriteIs

-----------------------------------------------------------------------------
(* Refunds under way *)

\* A step that leaves the documents alone and comes to no refund.
Quiet(s) ==
    /\ OnlyMoves(s) /\ UNCHANGED <<payments, refunds, ledger>>
    /\ session'[s].step \notin {"refund"} \cup Completing
    /\ Unlock(s) \/ UNCHANGED refunding

\* The steps that leave the books alone are quiet, but for two of a refund's own.
LEMMA TalkIs ==
    ASSUME Shape, NEW s \in Sessions, Progress(s), Talks(s)
    PROVE  Quiet(s) \/ LockPayment(s) \/ RefundRefused(s)
<1>1. OnlyMoves(s) /\ UNCHANGED <<payments, refunds, ledger>>
  BY ShapeOfTalk DEF books
<1>2. ASSUME session'[s].step \notin {"refund"} \cup Completing,
             Unlock(s) \/ UNCHANGED refunding
      PROVE  Quiet(s)
  BY <1>1, <1>2 DEF Quiet
<1>3. CASE TakesUp(s) \/ Heals(s)
  <2>1. PICK t \in Txns : \/ CapturedWebhook(s, t) \/ FailedWebhook(s, t)
                          \/ Reconcile(s, t) \/ Heal(s, t)
    BY <1>3 DEF TakesUp, Heals
  <2>2. PICK op \in Ops, step \in Steps \ ({"refund"} \cup Completing) : Take(s, op, step, t)
    BY <2>1 DEF CapturedWebhook, FailedWebhook, Reconcile, Heal, Ops, Steps, Completing
  <2>3. session'[s].step = step /\ UNCHANGED refunding
    BY <2>2, Taken
  <2> QED BY <1>2, <2>2, <2>3
<1>4. CASE StartsCash(s)
  BY <1>2, <1>4, CashTaken DEF StartsCash, Completing
<1>5. CASE StartsStaff(s)
  BY <1>2, <1>5, StaffStarted DEF StartsStaff, Completing
<1>6. CASE StartsRefund(s)
  BY <1>2, <1>6, RefundStarted DEF StartsRefund, Completing
<1>7. CASE ProviderTruth(s)
  BY <1>2, <1>7, TruthTold, IdleType DEF Completing
<1>8. CASE ReadInvoice(s)
  BY <1>2, <1>8, InvoiceRead DEF Completing
<1>9. CASE IssueDraft(s)
  BY <1>2, <1>9, DraftIssued DEF Completing
<1>10. CASE RollsBack(s)
  BY <1>2, <1>10, RolledBack, IdleType DEF RollsBack, Completing
<1> QED BY <1>3, <1>4, <1>5, <1>6, <1>7, <1>8, <1>9, <1>10 DEF Talks

\* So are those that write transactions, or publish.
LEMMA MarkIs ==
    ASSUME Shape, NEW s \in Sessions, Progress(s), Marks(s)
    PROVE  Quiet(s)
<1>1. OnlyMoves(s) /\ UNCHANGED <<payments, refunds, ledger>>
  BY ShapeOfMark DEF books
<1>2. ASSUME session'[s].step \notin {"refund"} \cup Completing,
             Unlock(s) \/ UNCHANGED refunding
      PROVE  Quiet(s)
  BY <1>1, <1>2 DEF Quiet
<1>3. CASE MarkTerminal(s)
  BY <1>2, <1>3, Marked, IdleType DEF Completing
<1>4. CASE Claim(s)
  <2>1. /\ session'[s] = Idle \/ session'[s].step = "read"
        /\ Unlock(s) \/ UNCHANGED refunding
    BY <1>4, Claimed
  <2> QED BY <1>2, <2>1, IdleType DEF Completing
<1>5. CASE Publish(s)
  <2>1. session'[s] = Idle /\ Unlock(s)
    BY <1>5, Published
  <2> QED BY <1>2, <2>1, IdleType DEF Completing
<1>6. CASE Release(s)
  <2>1. session'[s] = Idle /\ Unlock(s)
    BY <1>6, Released
  <2> QED BY <1>2, <2>1, IdleType DEF Completing
<1> QED BY <1>3, <1>4, <1>5, <1>6 DEF Marks

\* A session that completes nothing new.
LEMMA PendingQuiet ==
    ASSUME Pending, NEW s \in Sessions, OnlyMoves(s), refunds' = refunds,
           session'[s].step \in Completing => session[s].step \in Completing /\ Keeps(s)
    PROVE  Pending'
<1>1. \A q \in Sessions : session'[q].step \in Completing =>
          /\ session[q].step \in Completing
          /\ session'[q].payment = session[q].payment
          /\ session'[q].amount = session[q].amount
  BY DEF OnlyMoves, Keeps
<1> QED BY <1>1 DEF Pending

\* The steps that leave the books alone.
LEMMA PendingOfTalk ==
    ASSUME Shape, NEW s \in Sessions, Progress(s), Pending, Talks(s)
    PROVE  Pending'
<1>1. CASE Quiet(s)
  BY <1>1, PendingQuiet DEF Quiet
<1>2. CASE LockPayment(s)
  <2>1. /\ OnlyMoves(s) /\ refunds' = refunds
        /\ session'[s] = Idle \/ session'[s].step = "refund"
    BY <1>2, Locked DEF books
  <2> QED BY <2>1, IdleType, PendingQuiet DEF Completing
<1>3. CASE RefundRefused(s)
  <2>1. OnlyMoves(s) /\ refunds' = refunds /\ session[s].step = "provider" /\ Keeps(s)
    BY <1>3, RefusedByProvider DEF books
  <2> QED BY <2>1, PendingQuiet DEF Completing
<1> QED BY <1>1, <1>2, <1>3, TalkIs

\* A refund is completed by the session that wrote it, and by no other.
LEMMA PendingOfWrite ==
    ASSUME Shape, Identities, Pending, NEW s \in Sessions, Progress(s), Writes(s)
    PROVE  Pending'
<1>1. OnlyMoves(s)
  BY ShapeOfWrite
<1>2. CASE refunds' = refunds /\ session'[s].step \notin Refunding
  BY <1>1, <1>2, PendingQuiet DEF Refunding, Completing
<1>3. ASSUME NEW row \in RefundRows, BooksRefund(s, row)
      PROVE  Pending'
  <2>1. /\ refunds' = refunds \cup {row}
        /\ session'[s].step \in Completing =>
              session'[s].payment = row.id /\ session'[s].amount = row.amount
        /\ row.status = "PROCESSING"
    BY <1>3 DEF BooksRefund, Refunding, Completing
  <2>2. \A r \in refunds : r.id # row.id
    BY <1>3, IdentitiesOfRefund DEF BooksRefund
  <2>3. ASSUME NEW q \in Sessions \ {s}, session'[q].step \in Completing
        PROVE  /\ session'[q].payment # row.id
               /\ \E r \in refunds' : /\ r.id = session'[q].payment
                                      /\ r.amount = session'[q].amount
                                      /\ r.status = "PROCESSING"
               /\ \A u \in Sessions \ {s} : /\ session'[u].step \in Completing
                                            /\ session'[u].payment = session'[q].payment
                                            => u = q
    <3>1. session'[q] = session[q] /\ \A u \in Sessions \ {s} : session'[u] = session[u]
      BY <1>1 DEF OnlyMoves
    <3>2. \E r \in refunds : /\ r.id = session[q].payment
                             /\ r.amount = session[q].amount
                             /\ r.status = "PROCESSING"
      BY <2>3, <3>1 DEF Pending
    <3> QED BY <2>1, <2>2, <2>3, <3>1, <3>2 DEF Pending
  <2>4. row \in refunds'
    BY <2>1
  <2> QED BY <2>1, <2>3, <2>4 DEF Pending
<1>4. ASSUME NEW x \in refunds, NEW y \in RefundRows, Restates(s, x, y)
      PROVE  Pending'
  <2>1. /\ session[s].step \in Completing /\ session'[s].step \notin Completing
        /\ x.id = session[s].payment /\ refunds' = (refunds \ {x}) \cup {y}
    BY <1>4 DEF Restates, Refunding, Completing
  <2>2. ASSUME NEW q \in Sessions, session'[q].step \in Completing
        PROVE  /\ session'[q] = session[q] /\ q # s
               /\ \E r \in refunds' : /\ r.id = session[q].payment
                                      /\ r.amount = session[q].amount
                                      /\ r.status = "PROCESSING"
    <3>1. session'[q] = session[q] /\ q # s
      BY <1>1, <2>1, <2>2 DEF OnlyMoves
    <3>2. PICK r \in refunds : /\ r.id = session[q].payment
                               /\ r.amount = session[q].amount
                               /\ r.status = "PROCESSING"
      BY <2>2, <3>1 DEF Pending
    <3>3. session[q].payment # session[s].payment
      BY <2>1, <2>2, <3>1 DEF Pending
    <3>4. r # x
      BY <2>1, <3>2, <3>3
    <3> QED BY <2>1, <3>1, <3>2, <3>4
  <2>3. ASSUME NEW q \in Sessions, session'[q].step \in Completing,
               NEW u \in Sessions, session'[u].step \in Completing,
               session'[u].payment = session'[q].payment
        PROVE  u = q
    BY <2>2, <2>3 DEF Pending
  <2> QED BY <2>2, <2>3 DEF Pending
<1> QED BY <1>2, <1>3, <1>4, WriteIs DEF Stamps, BooksPayment

-----------------------------------------------------------------------------
(* The customer ledger *)

\* The number of the next refund is not among those of the refunds there are.
LEMMA RefundIdIs ==
    ASSUME Shape
    PROVE  /\ Cardinality(refunds) \in Nat /\ RefundId = 1 + Cardinality(refunds)
           /\ RefundId \notin 1..Cardinality(refunds)
<1>1. Cardinality(refunds) \in Nat /\ RefundId = 1 + Cardinality(refunds)
  BY FS_CardinalityType DEF Shape, RefundId
<1> QED BY <1>1

\* Entries of other kinds credit no payment.
LEMMA ReceiptsQuiet ==
    ASSUME Receipts, payments' = payments, ledger \subseteq ledger',
           \A e \in ledger' \ ledger : e.ref[1] # "payment"
    PROVE  Receipts'
BY DEF Receipts

\* A payment lands with its credit.
LEMMA ReceiptsOfPayment ==
    ASSUME Receipts, NEW s \in Sessions, NEW n \in Nat \ {0}, NEW id \in Ids, NEW key \in Ids,
           BooksPayment(s, id, n, key)
    PROVE  Receipts'
<1> DEFINE row == [id |-> id, amount |-> n]
           delta == -n
           credit == [ref |-> <<"payment", key>>, delta |-> delta]
<1>1. /\ payments' = payments \cup {row}
      /\ id \in Txns => ~Booked(id) /\ key = id
      /\ id \notin Txns => key \notin Txns
      /\ ledger \subseteq ledger'
      /\ \A e \in ledger' \ ledger : e.ref[1] = "issued" \/ e = credit
      /\ (\A e \in ledger : e.ref # <<"payment", key>>) => credit \in ledger'
  BY DEF BooksPayment
<1>2. /\ credit.ref = <<"payment", key>> /\ credit.delta = delta
      /\ row.id = id /\ row.amount = n
  OBVIOUS
<1> HIDE DEF row
<1>3. ASSUME NEW e \in ledger', e.ref[1] = "payment", e.ref[2] \in Txns
      PROVE  \E p \in payments' : p.id = e.ref[2] /\ e.delta = -p.amount
  <2>1. CASE e \in ledger
    BY <1>1, <1>3, <2>1 DEF Receipts
  <2>2. CASE e \notin ledger
    <3>1. e = credit
      BY <1>1, <1>3, <2>2
    <3>2. e.ref[2] = key /\ e.delta = -row.amount
      BY <1>2, <3>1
    <3> QED BY <1>1, <1>2, <1>3, <3>2
  <2> QED BY <2>1, <2>2
<1>4. ASSUME NEW p \in payments', p.id \in Txns
      PROVE  [ref |-> <<"payment", p.id>>, delta |-> -p.amount] \in ledger'
  <2>1. CASE p \in payments
    BY <1>1, <1>4, <2>1 DEF Receipts
  <2>2. CASE p = row
    <3>1. id \in Txns /\ key = id /\ ~Booked(id)
      BY <1>1, <1>2, <1>4, <2>2
    <3>2. \A e \in ledger : e.ref # <<"payment", key>>
      BY <3>1 DEF Receipts, Booked
    <3>3. credit = [ref |-> <<"payment", p.id>>, delta |-> -p.amount]
      BY <1>2, <2>2, <3>1
    <3>4. credit \in ledger'
      BY <1>1, <3>2
    <3> QED BY <3>3, <3>4
  <2> QED BY <1>1, <2>1, <2>2
<1> QED BY <1>3, <1>4 DEF Receipts

\* Entries of other kinds are about no refund.
LEMMA GivebacksQuiet ==
    ASSUME Givebacks, refunds' = refunds, ledger \subseteq ledger',
           \A e \in ledger' \ ledger : e.ref[1] \notin {"refund", "reversed"}
    PROVE  Givebacks'
BY DEF Givebacks

\* A refund is written with its debit.
LEMMA GivebacksOfRefund ==
    ASSUME Shape, Identities, Givebacks, NEW s \in Sessions, NEW row \in RefundRows,
           BooksRefund(s, row)
    PROVE  Givebacks'
<1> DEFINE k == Cardinality(refunds)
           debit == [ref |-> <<"refund", row.id>>, delta |-> row.amount]
<1>1. /\ refunds' = refunds \cup {row} /\ row.status = "PROCESSING" /\ row.id = RefundId
      /\ ledger' = Posted(ledger, <<"refund", row.id>>, row.amount)
  BY DEF BooksRefund
<1>2. k \in Nat /\ row.id = 1 + k /\ row.id \notin 1..k
  BY <1>1, RefundIdIs
<1>3. Cardinality(refunds') = k + 1
  BY IdentitiesOfRefund DEF BooksRefund
<1>4. debit.ref = <<"refund", row.id>>
  OBVIOUS
<1>5. /\ ledger \subseteq ledger'
      /\ \A e \in ledger' \ ledger : e = debit
      /\ (\A e \in ledger : e.ref # <<"refund", row.id>>) => debit \in ledger'
  BY <1>1, PostedIs
<1> HIDE DEF k
<1>6. \A e \in ledger : e.ref[1] = "refund" => e.ref[2] \in 1..k
  BY DEF Givebacks, k
<1>7. debit \in ledger'
  <2>1. \A e \in ledger : e.ref # <<"refund", row.id>>
    BY <1>2, <1>6
  <2> QED BY <1>5, <2>1
<1>8. ASSUME NEW e \in ledger', e.ref[1] = "refund"
      PROVE  e.ref[2] \in 1..Cardinality(refunds')
  <2>1. e.ref[2] \in 1..k \/ e.ref[2] = row.id
    BY <1>4, <1>5, <1>6, <1>8
  <2> HIDE DEF debit
  <2>2. e.ref[2] \in 1..(k + 1)
    BY <1>2, <2>1
  <2> QED BY <1>3, <2>2
<1>9. ASSUME NEW r \in refunds'
      PROVE  [ref |-> <<"refund", r.id>>, delta |-> r.amount] \in ledger'
  <2>1. CASE r \in refunds
    BY <1>5, <2>1 DEF Givebacks
  <2>2. CASE r = row
    BY <1>7, <2>2
  <2> QED BY <1>1, <2>1, <2>2
<1>10. ASSUME NEW e \in ledger', e.ref[1] = "reversed"
       PROVE  \E r \in refunds' : r.id = e.ref[2] /\ r.status = "FAILED"
  <2>1. e \in ledger
    BY <1>4, <1>5, <1>10
  <2> QED BY <1>1, <1>10, <2>1 DEF Givebacks
<1>11. ASSUME NEW r \in refunds', r.status = "FAILED"
       PROVE  [ref |-> <<"reversed", r.id>>, delta |-> -r.amount] \in ledger'
  <2>1. r \in refunds
    BY <1>1, <1>11
  <2> QED BY <1>5, <1>11, <2>1 DEF Givebacks
<1> QED BY <1>8, <1>9, <1>10, <1>11 DEF Givebacks

\* The debit of a refund is taken back exactly when it fails.
LEMMA GivebacksOfRestating ==
    ASSUME Shape, Identities, Givebacks, NEW s \in Sessions,
           NEW x \in refunds, NEW y \in RefundRows, Restates(s, x, y)
    PROVE  Givebacks'
<1> DEFINE delta == -x.amount
           credit == [ref |-> <<"reversed", x.id>>, delta |-> delta]
<1>1. /\ refunds' = (refunds \ {x}) \cup {y} /\ x.status = "PROCESSING"
      /\ y.id = x.id /\ y.amount = x.amount
      /\ \/ y.status # "FAILED" /\ ledger' = ledger
         \/ y.status = "FAILED" /\ ledger' = Posted(ledger, <<"reversed", x.id>>, delta)
  BY DEF Restates
<1>2. Cardinality(refunds') = Cardinality(refunds)
  BY IdentitiesOfRestating DEF Restates
<1>3. /\ ledger \subseteq ledger'
      /\ \A e \in ledger' \ ledger : e = credit /\ y.status = "FAILED"
      /\ /\ y.status = "FAILED"
         /\ \A e \in ledger : e.ref # <<"reversed", x.id>>
         => credit \in ledger'
  <2>1. ASSUME ledger' = Posted(ledger, <<"reversed", x.id>>, delta)
        PROVE  /\ ledger \subseteq ledger'
               /\ \A e \in ledger' \ ledger : e = credit
               /\ (\A e \in ledger : e.ref # <<"reversed", x.id>>) => credit \in ledger'
    <3> HIDE DEF delta
    <3> QED BY <2>1, PostedIs
  <2> HIDE DEF credit, delta
  <2> QED BY <1>1, <2>1
<1>4. credit.ref = <<"reversed", x.id>>
  OBVIOUS
<1>5. \A e \in ledger : e.ref # <<"reversed", x.id>>
  <2>1. \A r \in refunds : r.id = x.id => r = x
    BY DEF Identities
  <2> QED BY <1>1, <2>1 DEF Givebacks
<1>6. ASSUME NEW e \in ledger', e.ref[1] = "refund"
      PROVE  e.ref[2] \in 1..Cardinality(refunds')
  <2>1. e \in ledger
    BY <1>3, <1>4, <1>6
  <2> QED BY <1>2, <1>6, <2>1 DEF Givebacks
<1>7. ASSUME NEW r \in refunds'
      PROVE  [ref |-> <<"refund", r.id>>, delta |-> r.amount] \in ledger'
  <2>1. \E q \in refunds : q.id = r.id /\ q.amount = r.amount
    BY <1>1
  <2> QED BY <1>3, <2>1 DEF Givebacks
<1>8. ASSUME NEW e \in ledger', e.ref[1] = "reversed"
      PROVE  \E r \in refunds' : r.id = e.ref[2] /\ r.status = "FAILED"
  <2>1. CASE e \in ledger
    <3>1. PICK r \in refunds : r.id = e.ref[2] /\ r.status = "FAILED"
      BY <1>8, <2>1 DEF Givebacks
    <3> QED BY <1>1, <3>1
  <2>2. CASE e \notin ledger
    <3>1. e.ref[2] = y.id /\ y.status = "FAILED"
      BY <1>1, <1>3, <1>4, <2>2
    <3> QED BY <1>1, <3>1
  <2> QED BY <2>1, <2>2
<1>9. ASSUME NEW r \in refunds', r.status = "FAILED"
      PROVE  [ref |-> <<"reversed", r.id>>, delta |-> -r.amount] \in ledger'
  <2>1. CASE r \in refunds
    BY <1>3, <1>9, <2>1 DEF Givebacks
  <2>2. CASE r = y
    <3>1. credit = [ref |-> <<"reversed", r.id>>, delta |-> -r.amount]
      BY <1>1, <2>2
    <3> HIDE DEF credit
    <3> QED BY <1>3, <1>5, <1>9, <2>2, <3>1
  <2> QED BY <1>1, <2>1, <2>2
<1> QED BY <1>6, <1>7, <1>8, <1>9 DEF Givebacks

\* Whatever is written, the ledger goes on saying what the documents say.
LEMMA EntriesOfWrite ==
    ASSUME Shape, Identities, Pending, Receipts, Givebacks,
           NEW s \in Sessions, Progress(s), Writes(s)
    PROVE  Receipts' /\ Givebacks'
<1>1. CASE Stamps(s)
  BY <1>1, ReceiptsQuiet, GivebacksQuiet DEF Stamps, Grows
<1>2. ASSUME NEW n \in Nat \ {0}, NEW id \in Ids, NEW key \in Ids, BooksPayment(s, id, n, key)
      PROVE  Receipts' /\ Givebacks'
  <2> DEFINE credit == [ref |-> <<"payment", key>>, delta |-> -n]
  <2>1. refunds' = refunds /\ ledger \subseteq ledger'
        /\ \A e \in ledger' \ ledger : e.ref[1] = "issued" \/ e = credit
    BY <1>2 DEF BooksPayment
  <2>2. credit.ref[1] = "payment"
    OBVIOUS
  <2> HIDE DEF credit
  <2>3. \A e \in ledger' \ ledger : e.ref[1] \notin {"refund", "reversed"}
    BY <2>1, <2>2
  <2> QED BY <1>2, <2>1, <2>3, ReceiptsOfPayment, GivebacksQuiet
<1>3. ASSUME NEW row \in RefundRows, BooksRefund(s, row)
      PROVE  Receipts' /\ Givebacks'
  <2> DEFINE ref == <<"refund", row.id>>
             debit == [ref |-> ref, delta |-> row.amount]
  <2>1. payments' = payments /\ ledger' = Posted(ledger, ref, row.amount)
    BY <1>3 DEF BooksRefund
  <2>3. debit.ref[1] = "refund"
    OBVIOUS
  <2> HIDE DEF ref
  <2>2. ledger \subseteq ledger' /\ \A e \in ledger' \ ledger : e = debit
    BY <2>1, PostedIs
  <2> HIDE DEF debit
  <2> QED BY <1>3, <2>1, <2>2, <2>3, ReceiptsQuiet, GivebacksOfRefund
<1>4. ASSUME NEW x \in refunds, NEW y \in RefundRows, Restates(s, x, y)
      PROVE  Receipts' /\ Givebacks'
  <2> DEFINE delta == -x.amount
             ref == <<"reversed", x.id>>
             credit == [ref |-> ref, delta |-> delta]
  <2>1. /\ payments' = payments
        /\ \/ ledger' = ledger
           \/ ledger' = Posted(ledger, ref, delta)
    BY <1>4 DEF Restates
  <2>2. credit.ref[1] = "reversed"
    OBVIOUS
  <2> HIDE DEF delta, ref
  <2>3. ledger \subseteq ledger' /\ \A e \in ledger' \ ledger : e = credit
    BY <2>1, PostedIs
  <2> HIDE DEF credit
  <2> QED BY <1>4, <2>1, <2>2, <2>3, ReceiptsQuiet, GivebacksOfRestating
<1> QED BY <1>1, <1>2, <1>3, <1>4, WriteIs

-----------------------------------------------------------------------------
(* The cap on refunds *)

\* What is given back is a number, and nothing is given back by no refund.
LEMMA GivenType ==
    ASSUME Shape, NEW p
    PROVE  /\ RefundsOf(p) \in SUBSET RefundRows /\ IsFiniteSet(RefundsOf(p))
           /\ Given(p) \in Nat
<1>1. RefundsOf(p) \in SUBSET refunds
  BY DEF RefundsOf
<1>2. RefundsOf(p) \in SUBSET RefundRows /\ IsFiniteSet(RefundsOf(p))
  BY <1>1, FS_Subset DEF Shape
<1> QED BY <1>2, CountedType DEF Given

\* So it is after a step.
LEMMA GivenTypeNext ==
    ASSUME Shape', NEW p
    PROVE  Given(p)' \in Nat
<1> DEFINE rows == RefundsOf(p)'
<1>1. rows \in SUBSET refunds'
  BY DEF RefundsOf
<1>2. rows \in SUBSET RefundRows /\ IsFiniteSet(rows)
  BY <1>1, FS_Subset DEF Shape
<1>3. Given(p)' = Counted(rows)
  BY DEF Given
<1> HIDE DEF rows
<1> QED BY <1>2, <1>3, CountedType

\* No refund counts nothing.
LEMMA NothingCounted == Counted({}) = 0
<1>1. IsFiniteSet({}) /\ Weighted({}) /\ Coins({}) = {} /\ Cardinality({}) = 0
  BY FS_EmptySet DEF Weighted, Coins
<1>2. Amounts({}) = 0
  BY <1>1, AmountsAreCoins
<1>3. {r \in {} : r.status # "FAILED"} = {}
  OBVIOUS
<1> QED BY <1>2, <1>3 DEF Counted, Amounts

\* As long as nothing more is given back, the caps in force stay in force.
LEMMA CapsFollow ==
    ASSUME Shape, Shape', Caps, NEW s \in Sessions, OnlyMoves(s),
           payments' = payments, \A p \in payments : Given(p.id)' <= Given(p.id),
           session'[s].step # "refund",
           Unlock(s) \/ UNCHANGED refunding
    PROVE  Caps'
<1>1. refunding' \subseteq refunding /\ \A l \in refunding : l.session # s => l \in refunding'
  BY Unlocked
<1>2. ASSUME NEW p \in payments
      PROVE  Given(p.id) \in Nat /\ Given(p.id)' \in Nat /\ p.amount \in Nat
  <2>1. Given(p.id) \in Nat /\ p.amount \in Nat
    BY GivenType DEF Shape, PaymentRows
  <2> QED BY <2>1, GivenTypeNext
<1>3. \A p \in payments' : Given(p.id)' <= p.amount
  <2>1. ASSUME NEW p \in payments PROVE Given(p.id)' <= p.amount
    <3>1. Given(p.id) <= p.amount
      BY DEF Caps
    <3> QED BY <1>2, <3>1
  <2> QED BY <2>1
<1>4. \A l, m \in refunding' : l.payment = m.payment => l = m
  BY <1>1 DEF Caps
<1>5. ASSUME NEW q \in Sessions, session'[q].step = "refund"
      PROVE  /\ [payment |-> session'[q].payment, session |-> q] \in refunding'
             /\ \A p \in payments' : p.id = session'[q].payment =>
                   session'[q].amount + Given(p.id)' <= p.amount
  <2>1. q # s /\ session'[q] = session[q]
    BY <1>5 DEF OnlyMoves
  <2>2. [payment |-> session[q].payment, session |-> q] \in refunding
    BY <1>5, <2>1 DEF Caps
  <2>3. [payment |-> session[q].payment, session |-> q] \in refunding'
    BY <1>1, <2>1, <2>2
  <2>4. ASSUME NEW p \in payments, p.id = session[q].payment
        PROVE  session[q].amount + Given(p.id)' <= p.amount
    <3>1. session[q].amount + Given(p.id) <= p.amount
      BY <1>5, <2>1, <2>4 DEF Caps
    <3>2. session[q].amount \in Nat
      BY DEF Shape, Works
    <3> QED BY <1>2, <3>1, <3>2
  <2> QED BY <2>1, <2>3, <2>4
<1> QED BY <1>3, <1>4, <1>5 DEF Caps

\* A refund that is locked is within its cap, and no other session has the lock.
LEMMA CapsOfLock ==
    ASSUME Shape, Shape', Identities, Caps, NEW s \in Sessions, LockPayment(s)
    PROVE  Caps'
<1>1. /\ OnlyMoves(s) /\ UNCHANGED <<payments, refunds>>
      /\ session'[s] = Idle \/ session'[s].step = "refund"
  BY Locked DEF books
<1>2. \A p : Given(p)' = Given(p)
  BY <1>1 DEF Given, RefundsOf
<1>3. CASE session'[s] = Idle /\ Unlock(s)
  <2>1. \A p \in payments : Given(p.id)' <= Given(p.id)
    BY <1>2, GivenType
  <2> QED BY <1>1, <1>3, <2>1, IdleType, CapsFollow
<1>4. ASSUME session'[s].step = "refund", Keeps(s),
             refunding' = refunding \cup {[payment |-> session[s].payment, session |-> s]},
             \A l \in refunding : l.payment # session[s].payment,
             \E p \in payments :
                /\ p.id = session[s].payment
                /\ session[s].amount <= p.amount - Counted(RefundsOf(p.id))
      PROVE  Caps'
  <2> DEFINE lock == [payment |-> session[s].payment, session |-> s]
  <2>1. lock.payment = session[s].payment /\ refunding' = refunding \cup {lock}
    BY <1>4
  <2>2. \A p \in payments' : Given(p.id)' <= p.amount
    BY <1>1, <1>2 DEF Caps
  <2>3. \A l, m \in refunding' : l.payment = m.payment => l = m
    <3> HIDE DEF lock
    <3> QED BY <2>1, <1>4 DEF Caps
  <2>4. lock = [payment |-> session'[s].payment, session |-> s]
    BY <1>4 DEF Keeps
  <2>5. ASSUME NEW p \in payments, p.id = session[s].payment
        PROVE  session[s].amount + Given(p.id)' <= p.amount
    <3>1. session[s].amount <= p.amount - Given(p.id)
      BY <1>4, <2>5 DEF Identities, Given
    <3>2. session[s].amount \in Nat /\ p.amount \in Nat /\ Given(p.id) \in Nat
      BY GivenType DEF Shape, Works, PaymentRows
    <3> QED BY <1>2, <3>1, <3>2
  <2>6. ASSUME NEW q \in Sessions \ {s}, session'[q].step = "refund"
        PROVE  /\ [payment |-> session'[q].payment, session |-> q] \in refunding'
               /\ \A p \in payments' : p.id = session'[q].payment =>
                     session'[q].amount + Given(p.id)' <= p.amount
    <3>1. session'[q] = session[q]
      BY <1>1 DEF OnlyMoves
    <3> QED BY <1>1, <1>2, <2>1, <2>6, <3>1 DEF Caps
  <2> HIDE DEF lock
  <2>7. /\ [payment |-> session'[s].payment, session |-> s] \in refunding'
        /\ \A p \in payments' : p.id = session'[s].payment =>
              session'[s].amount + Given(p.id)' <= p.amount
    BY <1>1, <1>4, <2>1, <2>4, <2>5 DEF Keeps
  <2> QED BY <2>2, <2>3, <2>6, <2>7 DEF Caps
<1> QED BY <1>3, <1>4, Locked

\* The other steps that leave the books alone lock nothing.
LEMMA CapsOfQuiet ==
    ASSUME Shape, Shape', Caps, NEW s \in Sessions,
           OnlyMoves(s), UNCHANGED <<payments, refunds>>, session'[s].step # "refund",
           Unlock(s) \/ UNCHANGED refunding
    PROVE  Caps'
<1>1. \A p \in payments : Given(p.id)' <= Given(p.id)
  <2>1. \A p : Given(p)' = Given(p)
    BY DEF Given, RefundsOf
  <2> QED BY <2>1, GivenType
<1> QED BY <1>1, CapsFollow

\* Of a payment that has just landed nothing has been given back.
LEMMA CapsOfPayment ==
    ASSUME Shape, \A q \in Sessions : Progress(q), Identities, Caps,
           NEW s \in Sessions, OnlyMoves(s), Unlock(s),
           NEW n \in Nat \ {0}, NEW id \in Ids, NEW key, BooksPayment(s, id, n, key)
    PROVE  Caps'
<1> DEFINE row == [id |-> id, amount |-> n]
<1>1. /\ payments' = payments \cup {row} /\ refunds' = refunds
      /\ session'[s].step # "refund"
      /\ \A p \in payments : p.id # id
  BY IdentitiesOfLanding DEF BooksPayment, Refunding
<1>2. row.id = id /\ row.amount = n
  OBVIOUS
<1> HIDE DEF row
<1>3. \A p : Given(p)' = Given(p)
  BY <1>1 DEF Given, RefundsOf
<1>4. Given(id) = 0
  <2>1. RefundsOf(id) = {}
    BY <1>1 DEF RefundsOf, Identities
  <2> QED BY <2>1, NothingCounted DEF Given
<1>5. \A p \in payments' : Given(p.id)' <= p.amount
  BY <1>1, <1>2, <1>3, <1>4 DEF Caps
<1>6. refunding' \subseteq refunding /\ \A l \in refunding : l.session # s => l \in refunding'
  BY Unlocked
<1>7. \A l, m \in refunding' : l.payment = m.payment => l = m
  BY <1>6 DEF Caps
<1>8. ASSUME NEW q \in Sessions, session'[q].step = "refund"
      PROVE  /\ [payment |-> session'[q].payment, session |-> q] \in refunding'
             /\ \A p \in payments' : p.id = session'[q].payment =>
                   session'[q].amount + Given(p.id)' <= p.amount
  <2>1. q # s /\ session'[q] = session[q]
    BY <1>1, <1>8 DEF OnlyMoves
  <2>2. [payment |-> session[q].payment, session |-> q] \in refunding'
    BY <1>6, <1>8, <2>1 DEF Caps
  <2>3. session[q].payment # id
    BY <1>1, <1>8, <2>1 DEF Progress
  <2>4. ASSUME NEW p \in payments', p.id = session[q].payment
        PROVE  session[q].amount + Given(p.id)' <= p.amount
    <3>1. p \in payments
      BY <1>1, <1>2, <2>3, <2>4
    <3> QED BY <1>3, <1>8, <2>1, <2>4, <3>1 DEF Caps
  <2> QED BY <2>1, <2>2, <2>4
<1> QED BY <1>5, <1>7, <1>8 DEF Caps

\* A refund that is written has been counted in its cap, under its lock.
LEMMA CapsOfRefund ==
    ASSUME Shape, \A q \in Sessions : Progress(q), Identities, Caps,
           NEW s \in Sessions, OnlyMoves(s), Unlock(s),
           NEW row \in RefundRows, BooksRefund(s, row)
    PROVE  Caps'
<1>1. /\ payments' = payments /\ refunds' = refunds \cup {row} /\ row.status = "PROCESSING"
      /\ session[s].step = "refund" /\ session'[s].step # "refund"
      /\ row.payment = session[s].payment /\ row.amount = session[s].amount
      /\ \A r \in refunds : r.id # row.id
  BY IdentitiesOfRefund DEF BooksRefund, Refunding
<1>2. Given(row.payment)' = Given(row.payment) + row.amount
  <2> DEFINE rows == RefundsOf(row.payment)
  <2>1. RefundsOf(row.payment)' = rows \cup {row} /\ row \notin rows
    BY <1>1 DEF RefundsOf
  <2>2. rows \in SUBSET RefundRows /\ IsFiniteSet(rows)
    BY GivenType
  <2>3. Given(row.payment)' = Counted(RefundsOf(row.payment)') /\ Given(row.payment) = Counted(rows)
    BY DEF Given
  <2> HIDE DEF rows
  <2>4. Counted(rows \cup {row}) = Counted(rows) + row.amount
    BY <1>1, <2>1, <2>2, CountedAdd
  <2> QED BY <2>1, <2>3, <2>4
<1>3. \A p : p # row.payment => Given(p)' = Given(p)
  BY <1>1 DEF Given, RefundsOf
<1>4. ASSUME NEW p \in payments
      PROVE  Given(p.id)' <= p.amount
  <2>1. CASE p.id = row.payment
    <3>1. session[s].amount + Given(p.id) <= p.amount
      BY <1>1, <2>1 DEF Caps
    <3>2. Given(p.id) \in Nat /\ session[s].amount \in Nat /\ p.amount \in Nat
      BY GivenType DEF Shape, Works, PaymentRows
    <3> QED BY <1>1, <1>2, <2>1, <3>1, <3>2
  <2>2. CASE p.id # row.payment
    BY <1>3, <2>2 DEF Caps
  <2> QED BY <2>1, <2>2
<1>5. refunding' \subseteq refunding /\ \A l \in refunding : l.session # s => l \in refunding'
  BY Unlocked
<1>6. \A l, m \in refunding' : l.payment = m.payment => l = m
  BY <1>5 DEF Caps
<1>7. ASSUME NEW q \in Sessions, session'[q].step = "refund"
      PROVE  /\ [payment |-> session'[q].payment, session |-> q] \in refunding'
             /\ \A p \in payments' : p.id = session'[q].payment =>
                   session'[q].amount + Given(p.id)' <= p.amount
  <2>1. q # s /\ session'[q] = session[q]
    BY <1>1, <1>7 DEF OnlyMoves
  <2> DEFINE own == [payment |-> session[s].payment, session |-> s]
             other == [payment |-> session[q].payment, session |-> q]
  <2>2. own \in refunding /\ other \in refunding
    BY <1>1, <1>7, <2>1 DEF Caps
  <2>3. /\ own.payment = session[s].payment /\ own.session = s
        /\ other.payment = session[q].payment /\ other.session = q
    OBVIOUS
  <2> HIDE DEF own, other
  <2>4. session[q].payment # row.payment
    BY <1>1, <2>1, <2>2, <2>3 DEF Caps
  <2>5. other \in refunding'
    BY <1>5, <2>1, <2>2, <2>3
  <2>6. \A p \in payments : p.id = session[q].payment => session[q].amount + Given(p.id) <= p.amount
    BY <1>7, <2>1 DEF Caps
  <2>7. \A p \in payments : p.id = session[q].payment => Given(p.id)' = Given(p.id)
    BY <1>3, <2>4
  <2> QED BY <1>1, <2>1, <2>5, <2>6, <2>7 DEF other
<1> QED BY <1>1, <1>4, <1>6, <1>7 DEF Caps

\* A refund that is restated counts no more than before.
LEMMA CapsOfRestating ==
    ASSUME Shape, Shape', Caps, NEW s \in Sessions, OnlyMoves(s), Unlock(s),
           NEW x \in refunds, NEW y \in RefundRows, Restates(s, x, y)
    PROVE  Caps'
<1>1. /\ payments' = payments /\ refunds' = (refunds \ {x}) \cup {y}
      /\ x.status = "PROCESSING" /\ y.payment = x.payment /\ y.amount = x.amount
      /\ y \notin refunds \ {x} /\ session'[s].step # "refund"
  BY DEF Restates, Refunding
<1>2. ASSUME NEW p
      PROVE  Given(p)' <= Given(p)
  <2> DEFINE rows == RefundsOf(p)
  <2>1. rows \in SUBSET RefundRows /\ IsFiniteSet(rows) /\ Given(p) \in Nat
    BY GivenType
  <2>2. Given(p)' = Counted(RefundsOf(p)') /\ Given(p) = Counted(rows)
    BY DEF Given
  <2>3. CASE p = x.payment
    <3>1. RefundsOf(p)' = (rows \ {x}) \cup {y} /\ x \in rows /\ y \notin rows \ {x}
      BY <1>1, <2>3 DEF RefundsOf
    <3> HIDE DEF rows
    <3>2. Counted((rows \ {x}) \cup {y}) =
             Counted(rows) - (IF y.status = "FAILED" THEN x.amount ELSE 0)
      BY <1>1, <2>1, <3>1, CountedChange
    <3>3. x.amount \in Nat
      BY DEF Shape, RefundRows
    <3> QED BY <2>1, <2>2, <3>1, <3>2, <3>3
  <2>4. CASE p # x.payment
    <3>1. RefundsOf(p)' = rows
      BY <1>1, <2>4 DEF RefundsOf
    <3> HIDE DEF rows
    <3> QED BY <2>1, <2>2, <3>1
  <2> QED BY <2>3, <2>4
<1>3. \A p \in payments : Given(p.id)' <= Given(p.id)
  BY <1>2
<1> QED BY <1>1, <1>3, CapsFollow

\* Every step of a session keeps what is given back within what was paid.
LEMMA CapsOfStep ==
    ASSUME Shape, Shape', \A q \in Sessions : Progress(q), Identities, Pending, Caps,
           NEW s \in Sessions, Talks(s) \/ Marks(s) \/ Writes(s)
    PROVE  Caps'
<1>1. CASE Quiet(s)
  BY <1>1, CapsOfQuiet DEF Quiet
<1>2. CASE LockPayment(s)
  BY <1>2, CapsOfLock
<1>3. CASE RefundRefused(s)
  BY <1>3, RefusedByProvider, CapsOfQuiet DEF books
<1>4. CASE Writes(s)
  <2>1. OnlyMoves(s) /\ Unlock(s)
    BY <1>4, ShapeOfWrite
  <2>2. CASE Stamps(s)
    BY <2>1, <2>2, CapsOfQuiet DEF Stamps, Refunding
  <2>3. ASSUME NEW n \in Nat \ {0}, NEW id \in Ids, NEW key, BooksPayment(s, id, n, key)
        PROVE  Caps'
    BY <2>1, <2>3, CapsOfPayment
  <2>4. ASSUME NEW row \in RefundRows, BooksRefund(s, row)
        PROVE  Caps'
    BY <2>1, <2>4, CapsOfRefund
  <2>5. ASSUME NEW x \in refunds, NEW y \in RefundRows, Restates(s, x, y)
        PROVE  Caps'
    BY <2>1, <2>5, CapsOfRestating
  <2> QED BY <1>4, <2>2, <2>3, <2>4, <2>5, WriteIs
<1> QED BY <1>1, <1>2, <1>3, <1>4, TalkIs, MarkIs

-----------------------------------------------------------------------------
(* The inductive invariant *)

\* It holds before anything has been asked for.
LEMMA InitInv == Init => IInv
<1> SUFFICES ASSUME Init PROVE IInv
  OBVIOUS
<1>1. /\ payments = {} /\ refunds = {} /\ refunding = {} /\ issuing = NoSession
      /\ txn = [t \in Txns |-> [status |-> "NONE", paymentRef |-> FALSE]]
      /\ gateway = [t \in Txns |-> [link |-> "open", declined |-> FALSE]]
      /\ succeeded = [t \in Txns |-> 0]
      /\ session = [s \in Sessions |-> Idle]
  BY DEF Init
<1>2. PICK status \in OpeningStatuses :
          /\ invoice = Unsettled(status)
          /\ ledger = IF status = "DRAFT" THEN {} ELSE Issued({})
  BY DEF Init
<1>3. invoice \in Invoices /\ invoice.status = status /\ status \in {"DRAFT", "SENT"}
  BY <1>2, SettlementAssumption DEF Unsettled, Invoices, InvoiceStatuses
<1>4. IsFiniteSet({}) /\ Cardinality({}) = 0
  BY FS_EmptySet
<1>5. Shape
  <2>1. session \in [Sessions -> Works]
    BY <1>1, IdleType
  <2> QED BY <1>1, <1>3, <1>4, <2>1 DEF Shape, TxnStatuses
<1>6. \A s \in Sessions : session[s] = Idle /\ session[s].step = "idle"
  BY <1>1, IdleType
<1>7. \A s \in Sessions : Progress(s)
  BY <1>6 DEF Progress, Claiming, Paying, Refunding
<1>8. Claims
  BY <1>1, <1>6 DEF Claims, Booked, Holds, Claiming, Paying
<1>9. /\ \A e \in ledger : e.ref[1] = "issued"
      /\ status = "SENT" => HasIssued
  BY <1>2, IssuedIs DEF HasIssued
<1>10. Debits
  BY <1>1, <1>3, <1>6, <1>9 DEF Debits, Refunding
<1>11. Identities
  BY <1>1 DEF Identities
<1>12. Pending
  BY <1>6 DEF Pending, Completing
<1>13. Receipts /\ Givebacks
  BY <1>1, <1>9 DEF Receipts, Givebacks
<1>14. Caps
  BY <1>1, <1>6 DEF Caps
<1> QED BY <1>5, <1>7, <1>8, <1>10, <1>11, <1>12, <1>13, <1>14 DEF IInv

\* The steps of a link: only the transaction and the provider's side change.
LEMMA LinkInv ==
    ASSUME IInv, NEW t \in Txns, LinkStep(t)
    PROVE  IInv'
<1> USE DEF IInv
<1>1. /\ UNCHANGED <<invoice, payments, refunds, ledger, issuing, refunding, succeeded, session>>
      /\ txn' \in [Txns -> TxnRows] /\ gateway' \in [Txns -> GatewayRows]
  BY LinkMoved DEF books
<1>2. Shape'
  BY <1>1 DEF Shape, TxnRows, GatewayRows
<1>3. \A s \in Sessions : Progress(s)'
  BY <1>1 DEF Progress
<1>4. Claims' /\ Debits' /\ Identities'
  BY <1>1, ClaimsOfLink, DebitsOfLink, IdentitiesQuiet
<1>5. Pending' /\ Receipts' /\ Givebacks'
  BY <1>1 DEF Pending, Receipts, Givebacks
<1>6. Caps'
  BY <1>1 DEF Caps, Given, RefundsOf
<1> QED BY <1>2, <1>3, <1>4, <1>5, <1>6

\* The steps of a session.
LEMMA SessionInv ==
    ASSUME IInv, NEW s \in Sessions, Talks(s) \/ Marks(s) \/ Writes(s)
    PROVE  IInv'
<1>1. /\ Shape /\ Claims /\ Debits /\ Identities /\ Pending /\ Receipts /\ Givebacks /\ Caps
      /\ \A q \in Sessions : Progress(q)
  BY DEF IInv
<1>2. Shape' /\ OnlyMoves(s) /\ Progress(s)' /\ payments \subseteq payments'
  BY <1>1, ShapeOfTalk, ShapeOfMark, ShapeOfWrite DEF books
<1>3. \A q \in Sessions : Progress(q)'
  BY <1>1, <1>2, ProgressKept
<1>4. Caps'
  BY <1>1, <1>2, CapsOfStep
<1>5. CASE Talks(s)
  <2>1. UNCHANGED <<payments, refunds, ledger>>
    BY <1>1, <1>5, ShapeOfTalk DEF books
  <2>2. Claims' /\ Debits' /\ Pending'
    BY <1>1, <1>5, ClaimsOfTalk, DebitsOfTalk, PendingOfTalk
  <2>3. Identities' /\ Receipts' /\ Givebacks'
    BY <1>1, <2>1, IdentitiesQuiet, ReceiptsQuiet, GivebacksQuiet
  <2> QED BY <1>2, <1>3, <1>4, <2>2, <2>3 DEF IInv
<1>6. CASE Marks(s)
  <2>1. Quiet(s)
    BY <1>1, <1>6, MarkIs
  <2>2. Claims' /\ Debits' /\ Pending'
    BY <1>1, <1>6, <2>1, ClaimsOfMark, DebitsOfMark, PendingQuiet DEF Quiet
  <2>3. Identities' /\ Receipts' /\ Givebacks'
    BY <1>1, <2>1, IdentitiesQuiet, ReceiptsQuiet, GivebacksQuiet DEF Quiet
  <2> QED BY <1>2, <1>3, <1>4, <2>2, <2>3 DEF IInv
<1>7. CASE Writes(s)
  <2>1. Claims' /\ Debits' /\ Pending' /\ Identities' /\ Receipts' /\ Givebacks'
    BY <1>1, <1>7, ClaimsOfWrite, DebitsOfWrite, PendingOfWrite, IdentitiesOfWrite,
       EntriesOfWrite
  <2> QED BY <1>2, <1>3, <1>4, <2>1 DEF IInv
<1> QED BY <1>5, <1>6, <1>7

\* No step breaks it.
LEMMA NextInv == IInv /\ [Next]_vars => IInv'
<1> SUFFICES ASSUME IInv, [Next]_vars PROVE IInv'
  OBVIOUS
<1>1. CASE Next
  BY <1>1, NextIs, LinkInv, SessionInv
<1>2. CASE UNCHANGED vars
  <2>1. UNCHANGED <<invoice, payments, refunds, ledger, issuing, refunding, txn, gateway,
                    succeeded, session>>
    BY <1>2 DEF vars, books
  <2>2. /\ Shape /\ Claims /\ Debits /\ Identities /\ Pending /\ Receipts /\ Givebacks /\ Caps
        /\ \A q \in Sessions : Progress(q)
    BY DEF IInv
  <2>3. Shape' /\ \A q \in Sessions : Progress(q)'
    BY <2>1, <2>2 DEF Shape, Progress
  <2>4. Claims'
    BY <2>1, <2>2 DEF Claims, Booked, Kept, Holds
  <2>5. Debits' /\ Identities' /\ Pending'
    BY <2>1, <2>2 DEF Debits, HasIssued, Identities, Pending
  <2>6. Receipts' /\ Givebacks' /\ Caps'
    BY <2>1, <2>2 DEF Receipts, Givebacks, Caps, Given, RefundsOf
  <2> QED BY <2>3, <2>4, <2>5, <2>6 DEF IInv
<1> QED BY <1>1, <1>2

\* So it holds in every reachable state.
LEMMA AlwaysInv == Spec => []IInv
BY InitInv, NextInv, PTL DEF Spec

-----------------------------------------------------------------------------
(* Theorems *)

\* Every variable keeps its shape, whatever the sessions do between two awaits:
\* no amount is computed below zero.
THEOREM TypeCorrect == Spec => []TypeOK
<1>1. IInv => TypeOK
  BY DEF IInv, Shape, TypeOK, Progress, PaymentRows, RefundRows, At
<1> QED BY <1>1, AlwaysInv, PTL

\* settleCaptured and releaseClaim: whatever webhooks, reconcilers, crashes and
\* lost answers come together, a link whose Payment row is committed is neither
\* opened nor failed again.
THEOREM BookedIsNeverUncaptured == Spec => []BookedStaysCaptured
<1>1. IInv => BookedStaysCaptured
  BY DEF IInv, Claims, Kept, BookedStaysCaptured
<1> QED BY <1>1, AlwaysInv, PTL

\* The guarded update of settleCaptured has one winner at a time: its event is
\* published once at most for a link, released and claimed again as it may be.
THEOREM SucceededIsPublishedOnce == Spec => []SucceededOnce
<1>1. IInv => SucceededOnce
  BY DEF IInv, Claims, SucceededOnce
<1> QED BY <1>1, AlwaysInv, PTL

\* ledger.post in the transactions of applyPayment, refund and
\* reverseFailedRefund: the ledger credits every payment through a link once,
\* debits every refund once, and takes the debit back when and only when it fails.
THEOREM LedgerSaysWhatDocumentsSay == Spec => []LedgerAgreesWithDocuments
<1>1. IInv => LedgerAgreesWithDocuments
  <2> SUFFICES ASSUME IInv PROVE LedgerAgreesWithDocuments
    OBVIOUS
  <2>0. Shape /\ Identities /\ Receipts /\ Givebacks
    BY DEF IInv
  <2>1. ASSUME NEW t \in Txns, NEW n \in 1..Total
        PROVE  [id |-> t, amount |-> n] \in payments
                   <=> [ref |-> <<"payment", t>>, delta |-> -n] \in ledger
    <3> DEFINE row == [id |-> t, amount |-> n]
               credit == [ref |-> <<"payment", t>>, delta |-> -n]
    <3>1. ASSUME row \in payments PROVE credit \in ledger
      <4>1. row.id = t /\ row.amount = n
        OBVIOUS
      <4>2. [ref |-> <<"payment", row.id>>, delta |-> -row.amount] \in ledger
        <5> HIDE DEF row
        <5> QED BY <2>0, <3>1, <4>1 DEF Receipts
      <4> QED BY <4>1, <4>2
    <3>2. ASSUME credit \in ledger PROVE row \in payments
      <4>1. credit.ref[1] = "payment" /\ credit.ref[2] = t /\ credit.delta = -n
        OBVIOUS
      <4> HIDE DEF credit
      <4>2. PICK p \in payments : p.id = t /\ -n = -p.amount
        BY <2>0, <3>2, <4>1 DEF Receipts
      <4>3. p \in PaymentRows
        BY <2>0 DEF Shape
      <4>4. p.amount = n /\ p = [id |-> p.id, amount |-> p.amount]
        BY <4>2, <4>3, SettlementAssumption DEF PaymentRows
      <4> QED BY <4>2, <4>4
    <3> QED BY <3>1, <3>2
  <2>2. ASSUME NEW r \in refunds
        PROVE  /\ [ref |-> <<"refund", r.id>>, delta |-> r.amount] \in ledger
               /\ r.status = "FAILED"
                      <=> [ref |-> <<"reversed", r.id>>, delta |-> -r.amount] \in ledger
    <3> DEFINE credit == [ref |-> <<"reversed", r.id>>, delta |-> -r.amount]
    <3>1. credit.ref[1] = "reversed" /\ credit.ref[2] = r.id
      OBVIOUS
    <3>2. r.status = "FAILED" => credit \in ledger
      BY <2>0 DEF Givebacks
    <3>3. [ref |-> <<"refund", r.id>>, delta |-> r.amount] \in ledger
      BY <2>0 DEF Givebacks
    <3> HIDE DEF credit
    <3>4. ASSUME credit \in ledger PROVE r.status = "FAILED"
      <4>1. PICK q \in refunds : q.id = r.id /\ q.status = "FAILED"
        BY <2>0, <3>1, <3>4 DEF Givebacks
      <4> QED BY <2>0, <4>1 DEF Identities
    <3> QED BY <3>2, <3>3, <3>4 DEF credit
  <2> QED BY <2>1, <2>2 DEF LedgerAgreesWithDocuments
<1> QED BY <1>1, AlwaysInv, PTL

\* applyPayment, issueInTx and ledger.post: no entry of the invoice is ever there
\* without its debit, whoever sends, cancels, settles or refunds it meanwhile.
THEOREM DebitComesFirst == Spec => []DebitBeforeCredit
<1>1. IInv => DebitBeforeCredit
  BY DEF IInv, Debits, HasIssued, DebitBeforeCredit
<1> QED BY <1>1, AlwaysInv, PTL

\* refund()'s SELECT ... FOR UPDATE: however many refunds of one payment run at
\* once, complete or are reversed, they never give back more than was paid.
THEOREM RefundsStayWithinPayment == Spec => []RefundsWithinPayment
<1>1. IInv => RefundsWithinPayment
  BY DEF IInv, Caps, Given, RefundsWithinPayment
<1> QED BY <1>1, AlwaysInv, PTL

-----------------------------------------------------------------------------
(* The account *)

\* The account and the settlement write references alike.
LEMMA SameEntries ==
    ASSUME NEW entries, NEW ref, NEW delta
    PROVE  /\ Account!Entered(entries, ref, delta) = Posted(entries, ref, delta)
           /\ Account!Debited(entries) = Issued(entries)
           /\ Account!HasDebit <=> HasIssued
           /\ Account!HasDebit' <=> HasIssued'
BY DEF Account!Entered, Account!Debited, Account!HasDebit, Posted, Issued, HasIssued

\* They count alike what is given back of a payment.
LEMMA SameGiven == ASSUME NEW p PROVE Account!GivenBack(p) = Given(p)
<1>1. {r \in refunds : r.payment = p /\ r.status # "FAILED"}
         = {r \in RefundsOf(p) : r.status # "FAILED"}
  BY DEF RefundsOf
<1> QED
  BY <1>1 DEF Account!GivenBack, Given, Counted, MapThenSumSet, MapThenFoldSet,
              Account!MapThenSumSet, Account!MapThenFoldSet

\* A draft is issued, or a sent invoice cancelled, or nothing shows.
LEMMA StampIsIssueOrCancel ==
    ASSUME IInv, NEW s \in Sessions, SkipDuplicate(s) \/ FinishStaff(s)
    PROVE  Account!Issue \/ Account!Cancel \/ UNCHANGED Account!accountVars
<1>0. Debits /\ Progress(s) /\ UNCHANGED <<payments, refunds>>
  BY DEF IInv, SkipDuplicate, FinishStaff
<1>1. CASE ledger' = ledger
  BY <1>0, <1>1 DEF Account!accountVars
<1>2. CASE ledger' = Issued(ledger)
  BY <1>0, <1>2, SameEntries DEF Account!Issue
<1>3. CASE HasIssued /\ ledger' = Posted(ledger, <<"cancel">>, -Total)
  BY <1>0, <1>3, SameEntries DEF Account!Cancel
<1>4. CASE SkipDuplicate(s)
  BY <1>1, <1>2, <1>4 DEF SkipDuplicate
<1>5. CASE FinishStaff(s)
  <2>1. session[s].step = "staff" /\ session[s].op \in {"send", "cancel", "overdue"}
    BY <1>0, <1>5 DEF FinishStaff, At, Progress
  <2>2. CASE session[s].op = "send"
    BY <1>2, <1>5, <2>2 DEF FinishStaff
  <2>3. CASE session[s].op = "cancel"
    <3>1. session[s].seen.status # "DRAFT" => HasIssued
      BY <1>0, <2>1, <2>3 DEF Debits
    <3> QED BY <1>1, <1>3, <1>5, <2>3, <3>1 DEF FinishStaff
  <2>4. CASE session[s].op = "overdue"
    BY <1>1, <1>5, <2>4 DEF FinishStaff
  <2> QED BY <2>1, <2>2, <2>3, <2>4
<1> QED BY <1>4, <1>5

\* A payment lands with its credit, after the debit, and for the first time.
LEMMA LandingIsPay ==
    ASSUME IInv, IInv', NEW s \in Sessions, NEW tick \in Ticks,
           ApplyPayment(s, tick) \/ CommitUnanswered(s, tick)
    PROVE  \E p \in payments' : Account!Pay(p)
<1> DEFINE n == ApplyAmount(s)
           t == session[s].txn
           id == IF t = NoTxn THEN CashId ELSE t
           key == IF t = NoTxn THEN tick ELSE t
           before == IF issuing = s THEN Issued(ledger) ELSE ledger
           row == [id |-> id, amount |-> n]
<1>0. Shape /\ Identities /\ Progress(s)
  BY DEF IInv
<1>1. /\ session[s].step = "apply" /\ ~Booked(t) /\ n > 0 /\ WriteBooks(s, tick)
      /\ refunds' = refunds
  BY DEF ApplyPayment, CommitUnanswered, At
<1>2. session[s] \in Works /\ session[s].seen \in Invoices
  BY <1>0, <1>1 DEF Shape, Progress
<1>3. n \in Nat \ {0}
  <2>1. session[s].amount \in Nat /\ session[s].seen.due \in Nat
    BY <1>2 DEF Works, Invoices
  <2> QED BY <1>1, <2>1 DEF ApplyAmount, Least
<1>4. t \in Txns \cup {NoTxn} /\ NoTxn \notin Txns /\ CashId \in Nat /\ Txns \cap Nat = {}
  BY <1>0, <1>2, NextIds, SettlementAssumption DEF Works
<1>5. /\ id \in Ids
      /\ id \in Txns => t = id
      /\ id \notin Txns => id = CashId
      /\ key \in IF id \in Txns THEN {id} ELSE Ticks
  BY <1>4 DEF Ids
<1>6. payments' = payments \cup {row} /\ ledger' = Posted(before, <<"payment", key>>, -n)
  BY <1>1 DEF WriteBooks
<1>7. before \in {ledger, Issued(ledger)}
  OBVIOUS
<1>8. row.id = id /\ row.amount = n
  OBVIOUS
<1> HIDE DEF n, id, key, before
<1>9. id \in Txns => ~Booked(id)
  BY <1>1, <1>5
<1>10. \A q \in payments : q.id # id
  BY <1>0, <1>1, <1>3, <1>5, <1>6, <1>9, IdentitiesOfLanding
<1> HIDE DEF row
<1>11. HasIssued'
  BY <1>6 DEF IInv, Debits
<1>12. Account!Pay(row)
  <2>1. ledger' = Account!Entered(before, <<"payment", key>>, -row.amount)
    BY <1>6, <1>8, SameEntries
  <2>2. before \in {ledger, Account!Debited(ledger)}
    BY <1>7, SameEntries
  <2>3. Account!HasDebit'
    BY <1>11, SameEntries
  <2> QED BY <1>1, <1>5, <1>6, <1>8, <1>10, <2>1, <2>2, <2>3 DEF Account!Pay
<1> QED BY <1>6, <1>12

\* A refund is within what its payment has left when it is written.
LEMMA RefundIsRefund ==
    ASSUME IInv, NEW s \in Sessions, NEW r \in RefundRows, BooksRefund(s, r)
    PROVE  Account!Refund(r) /\ r \in refunds'
<1>0. Shape /\ Identities /\ Debits /\ Caps
  BY DEF IInv
<1>1. /\ r.status = "PROCESSING" /\ session[s].step = "refund"
      /\ r.payment = session[s].payment /\ r.amount = session[s].amount
      /\ payments' = payments /\ refunds' = refunds \cup {r}
      /\ ledger' = Posted(ledger, <<"refund", r.id>>, r.amount)
  BY DEF BooksRefund
<1>2. PICK p \in payments : p.id = r.payment
  BY DEF BooksRefund
<1>3. r.amount + Given(p.id) <= p.amount
  BY <1>0, <1>1, <1>2 DEF Caps
<1>4. \A q \in refunds : q.id # r.id
  BY <1>0, RefundIdIs DEF BooksRefund, Identities
<1>5. HasIssued
  BY <1>0, <1>1 DEF Debits, Refunding
<1> QED BY <1>1, <1>2, <1>3, <1>4, <1>5, SameEntries, SameGiven DEF Account!Refund

\* The provider's answer closes the session's own refund.
LEMMA AnswerIsAnswer ==
    ASSUME IInv, NEW s \in Sessions, RefundTaken(s) \/ ReverseRefund(s)
    PROVE  \/ UNCHANGED Account!accountVars
           \/ \E r \in refunds, status \in {"COMPLETED", "FAILED"} : Account!Answer(r, status)
<1>0. Shape /\ Identities /\ Pending /\ Progress(s)
  BY DEF IInv
<1>1. session[s].step \in Completing
  BY DEF RefundTaken, ReverseRefund, At, Completing
<1>2. PICK x \in refunds : /\ x.id = session[s].payment /\ x.amount = session[s].amount
                           /\ x.status = "PROCESSING"
  BY <1>0, <1>1 DEF Pending
<1>3. CASE RefundTaken(s)
  <2>1. /\ payments' = payments /\ ledger' = ledger
        /\ \E status \in {"COMPLETED", "PROCESSING"} : refunds' = Restated(x.id, status)
    BY <1>0, <1>2, <1>3, TakenByProvider
  <2>2. CASE refunds' = Restated(x.id, "COMPLETED")
    <3>1. refunds' = (refunds \ {x}) \cup {[x EXCEPT !.status = "COMPLETED"]}
      BY <1>0, <2>2, RestatedRow
    <3>2. Account!Answer(x, "COMPLETED")
      BY <1>2, <2>1, <3>1 DEF Account!Answer
    <3> QED BY <3>2
  <2>3. CASE refunds' = Restated(x.id, "PROCESSING")
    <3>1. refunds' = (refunds \ {x}) \cup {[x EXCEPT !.status = "PROCESSING"]}
      BY <1>0, <2>3, RestatedRow
    <3>2. [x EXCEPT !.status = "PROCESSING"] = x
      <4>1. x \in RefundRows
        BY <1>0 DEF Shape
      <4> QED BY <1>2, <4>1 DEF RefundRows
    <3>3. refunds' = refunds
      BY <3>1, <3>2
    <3> QED BY <2>1, <3>3 DEF Account!accountVars
  <2> QED BY <2>1, <2>2, <2>3
<1>4. CASE ReverseRefund(s)
  <2>1. /\ payments' = payments
        /\ ledger' = Posted(ledger, <<"reversed", x.id>>, -session[s].amount)
        /\ refunds' = Restated(x.id, "FAILED")
    BY <1>0, <1>2, <1>4, Reversed
  <2>2. refunds' = (refunds \ {x}) \cup {[x EXCEPT !.status = "FAILED"]}
    BY <1>0, <2>1, RestatedRow
  <2>3. ledger' = Account!Entered(ledger, <<"reversed", x.id>>, -x.amount)
    BY <1>2, <2>1, SameEntries
  <2>4. Account!Answer(x, "FAILED")
    BY <1>2, <2>1, <2>2, <2>3 DEF Account!Answer
  <2> QED BY <2>4
<1> QED BY <1>3, <1>4

\* Every step of a session is one document's, or does not show.
LEMMA SessionRefines ==
    ASSUME IInv, IInv', NEW s \in Sessions, Talks(s) \/ Marks(s) \/ Writes(s)
    PROVE  Account!Next \/ UNCHANGED Account!accountVars
<1>0. Shape /\ Progress(s) /\ Identities /\ Pending
  BY DEF IInv
<1>1. CASE Talks(s) \/ Marks(s)
  BY <1>0, <1>1, ShapeOfTalk, ShapeOfMark DEF books, Account!accountVars
<1>2. CASE SkipDuplicate(s) \/ FinishStaff(s)
  BY <1>2, StampIsIssueOrCancel DEF Account!Next
<1>3. CASE Lands(s)
  BY <1>3, LandingIsPay DEF Lands, Account!Next
<1>4. CASE WriteRefund(s)
  <2>1. PICK r \in RefundRows : BooksRefund(s, r)
    BY <1>0, <1>4, WrittenIsBooked
  <2> QED BY <2>1, RefundIsRefund DEF Account!Next
<1>5. CASE RefundTaken(s) \/ ReverseRefund(s)
  BY <1>5, AnswerIsAnswer DEF Account!Next
<1> QED BY <1>1, <1>2, <1>3, <1>4, <1>5 DEF Writes

\* applyPayment, issueInTx, refund, reverseFailedRefund: seen from payments, refunds
\* and ledger, however sessions overlap, fail and repeat, the settlement of an invoice
\* writes one whole document at a time and never takes one away.
THEOREM SettlementImplementsAccount == Spec => ImplementsAccount
<1>1. Init => Account!Init
  BY SameEntries DEF Init, Account!Init
<1>2. IInv /\ IInv' /\ [Next]_vars => [Account!Next]_(Account!accountVars)
  <2> SUFFICES ASSUME IInv, IInv', [Next]_vars
               PROVE  Account!Next \/ UNCHANGED Account!accountVars
    OBVIOUS
  <2>1. CASE UNCHANGED vars
    BY <2>1 DEF vars, books, Account!accountVars
  <2>2. ASSUME NEW t \in Txns, LinkStep(t) PROVE UNCHANGED Account!accountVars
    BY <2>2, LinkMoved DEF IInv, books, Account!accountVars
  <2> QED BY <2>1, <2>2, NextIs, SessionRefines
<1> QED BY <1>1, <1>2, AlwaysInv, PTL DEF Spec, Account!Spec, ImplementsAccount
=============================================================================
