---------------------------- MODULE StockAccount ----------------------------
(***************************************************************************)
(* What the inventory ledger promises its callers: a stock account per     *)
(* cell whose balance and log change together, one whole movement at a     *)
(* time, each admissible against the balance the previous one left, and    *)
(* with at most one entry for an external reference.                       *)
(***************************************************************************)
EXTENDS StockMovement, Sequences

CONSTANTS Accounts, OpeningBalance, Movements, NoRef

VARIABLES balance, log

accountVars == <<balance, log>>

EntryOf(m, bal) == [movement        |-> m,
                    quantityDelta   |-> PhysicalDelta(m.kind, m.quantity),
                    runningQuantity |-> After(bal, m).quantity,
                    runningReserved |-> After(bal, m).reserved]

Recorded(ref) ==
    \E c \in Accounts : \E i \in 1..Len(log[c]) : log[c][i].movement.ref = ref

Init == /\ balance = OpeningBalance
        /\ log = [c \in Accounts |-> <<>>]

Post(m) ==
    /\ m.cell \in Accounts
    /\ Admissible(balance[m.cell], m)
    /\ m.ref # NoRef => ~Recorded(m.ref)
    /\ balance' = [balance EXCEPT ![m.cell] = After(@, m)]
    /\ log' = [log EXCEPT ![m.cell] = Append(@, EntryOf(m, balance[m.cell]))]

Next == \E m \in Movements : Post(m)

Spec == Init /\ [][Next]_accountVars
=============================================================================
