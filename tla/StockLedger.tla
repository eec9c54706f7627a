----------------------------- MODULE StockLedger -----------------------------
(***************************************************************************)
(* InventoryLedgerService.post: concurrent database transactions that each *)
(* post one movement on one (warehouse, item) stock row.                   *)
(*                                                                         *)
(* An action is one SQL statement, or a group of statements that nothing   *)
(* can come between.  Transactions run at READ COMMITTED, so a statement   *)
(* sees what is committed when it starts.  Writes and the commit are one   *)
(* action: up to the commit they are visible to nobody else, and the row   *)
(* lock (or the unique index) keeps the others out.                        *)
(***************************************************************************)
EXTENDS StockMovement, Sequences

CONSTANTS Cells,       \* (warehouse, item) pairs
          ItemOf,      \* the item of each cell
          Opening,     \* Opening[c]: the balance of each row that exists at start
          CatalogueCost, \* inventory_items.costPriceMinor at start
          Movements,   \* inputs of post()
          Workers,     \* database sessions that run post()
          NoRow, NoRef, NoMovement, NoWorker, NoBalance,
          MaxRows      \* bound: ledger rows a cell may get in a behaviour

WarmCells == DOMAIN Opening
Items == {ItemOf[c] : c \in Cells}

ASSUME OpeningAssumption ==
    /\ WarmCells \subseteq Cells
    /\ Opening \in [WarmCells -> Balances]
    /\ \A c \in WarmCells : Opening[c].reserved >= 0
    /\ NoRow \notin Balances /\ NoBalance \notin Balances

ASSUME MovementsAssumption ==
    /\ \A m \in Movements :
          /\ m.cell \in Cells
          /\ m.kind \in MovementKinds
          /\ m.quantity \in Int
          /\ m.unitCost \in Int
          /\ m.hasCost \in BOOLEAN
          /\ m.allowNegative \in BOOLEAN
    /\ NoMovement \notin Movements

ASSUME OtherAssumption ==
    /\ CatalogueCost \in [Items -> Int]
    /\ NoWorker \notin Workers
    /\ MaxRows \in Nat

VARIABLES stock,     \* warehouse_stocks: stock[c], or NoRow
          ledger,    \* inventory_ledger: the rows of each cell, oldest first
          itemCost,  \* inventory_items.costPriceMinor
          locked,    \* who holds the FOR UPDATE lock of each stock row
          session    \* what each database session is doing

vars == <<stock, ledger, itemCost, locked, session>>

Steps == {"idle", "dedupe", "lock", "read", "write"}
Idle == [step |-> "idle", movement |-> NoMovement, snapshot |-> NoBalance,
         creates |-> FALSE]

\* Mutant of RowOf: the running columns of before the movement.
StaleRowOf(m, bal) == [movement        |-> m,
                       quantityDelta   |-> PhysicalDelta(m.kind, m.quantity),
                       runningQuantity |-> bal.quantity,
                       runningReserved |-> bal.reserved]

\* A row keeps the movement it records and the columns computed from the
\* snapshot its transaction had read.
RowOf(m, bal) == [movement        |-> m,
                  quantityDelta   |-> PhysicalDelta(m.kind, m.quantity),
                  runningQuantity |-> After(bal, m).quantity,
                  runningReserved |-> After(bal, m).reserved]

\* Is there a row with this externalRef?  The unique index spans the tenant.
RefPosted(ref) ==
    \E c \in Cells : \E i \in 1..Len(ledger[c]) : ledger[c][i].movement.ref = ref

Init == /\ stock = [c \in Cells |-> IF c \in WarmCells THEN Opening[c] ELSE NoRow]
        /\ ledger = [c \in Cells |-> <<>>]
        /\ itemCost = CatalogueCost
        /\ locked = [c \in Cells |-> NoWorker]
        /\ session = [w \in Workers |-> Idle]

-----------------------------------------------------------------------------

At(w, step) == session[w].step = step
Cell(w) == session[w].movement.cell

Goto(w, step) == session' = [session EXCEPT ![w].step = step]

\* COMMIT or ROLLBACK: the session ends and its row lock is released.
EndTransaction(w) ==
    /\ session' = [session EXCEPT ![w] = Idle]
    /\ locked' = [c \in Cells |-> IF locked[c] = w THEN NoWorker ELSE locked[c]]

Rollback(w) == EndTransaction(w) /\ UNCHANGED <<stock, ledger, itemCost>>

Begin(w, m) ==
    /\ At(w, "idle")
    /\ ValidRequest(m)
    /\ Len(ledger[m.cell]) < MaxRows
    /\ session' = [session EXCEPT ![w].step = "dedupe", ![w].movement = m]
    /\ UNCHANGED <<stock, ledger, itemCost, locked>>

\* The externalRef was posted before: answer with the row it made.
Skip(w) ==
    /\ At(w, "dedupe")
    /\ session[w].movement.ref # NoRef
    /\ RefPosted(session[w].movement.ref)
    /\ Rollback(w)

\* Mutant of NotADuplicate: the snapshot is read without FOR UPDATE.
ReadsWithoutLock(w) ==
    LET c == Cell(w) IN
    /\ At(w, "dedupe")
    /\ session[w].movement.ref # NoRef => ~RefPosted(session[w].movement.ref)
    /\ stock[c] # NoRow
    /\ session' = [session EXCEPT ![w].step = "write", ![w].snapshot = stock[c]]
    /\ UNCHANGED <<stock, ledger, itemCost, locked>>

NotADuplicate(w) ==
    /\ At(w, "dedupe")
    /\ session[w].movement.ref # NoRef => ~RefPosted(session[w].movement.ref)
    /\ Goto(w, "lock")
    /\ UNCHANGED <<stock, ledger, itemCost, locked>>

\* Mutants of LockRow: a SELECT without FOR UPDATE; no read after the lock.
PlainSelect(w) ==
    /\ At(w, "lock")
    /\ Goto(w, "read")
    /\ UNCHANGED <<stock, ledger, itemCost, locked>>

LocksButDoesNotRead(w) ==
    /\ At(w, "lock")
    /\ locked[Cell(w)] = NoWorker
    /\ locked' = [locked EXCEPT ![Cell(w)] = w]
    /\ Goto(w, "write")
    /\ UNCHANGED <<stock, ledger, itemCost>>

\* SELECT ... FOR UPDATE waits for the row, and locks nothing when it is absent.
LockRow(w) ==
    /\ At(w, "lock")
    /\ locked[Cell(w)] = NoWorker
    /\ locked' = IF stock[Cell(w)] = NoRow THEN locked
                 ELSE [locked EXCEPT ![Cell(w)] = w]
    /\ Goto(w, "read")
    /\ UNCHANGED <<stock, ledger, itemCost>>

\* findUnique, and when it finds nothing the zero balance this transaction
\* creates, valued at the item's catalogue cost.
ReadSnapshot(w) ==
    LET c == Cell(w)
        absent == stock[c] = NoRow
    IN  /\ At(w, "read")
        /\ session' = [session EXCEPT
                ![w].step = "write",
                ![w].creates = absent,
                ![w].snapshot = IF absent
                                THEN [quantity |-> 0, reserved |-> 0,
                                      avgCost |-> itemCost[ItemOf[c]]]
                                ELSE stock[c]]
        /\ UNCHANGED <<stock, ledger, itemCost, locked>>

\* Mutant of Reject: the transaction of a refused movement is left open.
RejectLeavesOpen(w) ==
    /\ At(w, "write")
    /\ ~Admissible(session[w].snapshot, session[w].movement)
    /\ session' = [session EXCEPT ![w] = Idle]
    /\ UNCHANGED <<stock, ledger, itemCost, locked>>

Reject(w) ==
    /\ At(w, "write")
    /\ ~Admissible(session[w].snapshot, session[w].movement)
    /\ Rollback(w)

\* A concurrent transaction has inserted the same externalRef, or the stock row
\* this one is about to create: the database refuses and everything rolls back.
UniqueViolation(w) ==
    /\ At(w, "write")
    /\ \/ session[w].movement.ref # NoRef /\ RefPosted(session[w].movement.ref)
       \/ session[w].creates /\ stock[Cell(w)] # NoRow
    /\ Rollback(w)

\* Mutant of Write: no unique index on the external reference.
WriteWithoutUniqueRef(w) ==
    LET m == session[w].movement
        bal == session[w].snapshot
    IN  /\ At(w, "write")
        /\ Admissible(bal, m)
        /\ locked[m.cell] \in {w, NoWorker}
        /\ stock' = [stock EXCEPT ![m.cell] = After(bal, m)]
        /\ ledger' = [ledger EXCEPT ![m.cell] = Append(@, RowOf(m, bal))]
        /\ UNCHANGED itemCost
        /\ EndTransaction(w)

\* The UPDATE by id waits for whoever holds the row, then writes what was
\* computed from the snapshot.
Write(w) ==
    LET m == session[w].movement
        c == m.cell
        bal == session[w].snapshot
        next == After(bal, m)
    IN  /\ At(w, "write")
        /\ Admissible(bal, m)
        /\ locked[c] \in {w, NoWorker}
        /\ m.ref # NoRef => ~RefPosted(m.ref)
        /\ session[w].creates => stock[c] = NoRow
        /\ stock' = [stock EXCEPT ![c] = next]
        /\ itemCost' = IF /\ PhysicalDelta(m.kind, m.quantity) > 0
                          /\ m.hasCost /\ m.unitCost # bal.avgCost
                       THEN [itemCost EXCEPT ![ItemOf[c]] = next.avgCost]
                       ELSE itemCost
        /\ ledger' = [ledger EXCEPT ![c] = Append(@, RowOf(m, bal))]
        /\ EndTransaction(w)

\* The process dies or the connection drops: the database rolls back.
Crash(w) == ~At(w, "idle") /\ Rollback(w)

Advance(w) ==
    \/ Skip(w) \/ NotADuplicate(w) \/ LockRow(w) \/ ReadSnapshot(w)
    \/ Reject(w) \/ UniqueViolation(w) \/ Write(w)

Next == \E w \in Workers :
            \/ \E m \in Movements : Begin(w, m)
            \/ Advance(w)
            \/ Crash(w)

\* PostgreSQL queues the waiters of a row lock, so none waits for ever.
Fairness == \A w \in Workers : SF_vars(Advance(w))

Spec == Init /\ [][Next]_vars
FairSpec == Spec /\ Fairness
-----------------------------------------------------------------------------
(* Properties *)

\* Every variable keeps its shape; a session past "read" holds a balance.
TypeOK ==
    /\ stock \in [Cells -> Balances \cup {NoRow}]
    /\ ledger \in [Cells -> Seq([movement: Movements, quantityDelta: Int,
                                 runningQuantity: Int, runningReserved: Int])]
    /\ itemCost \in [Items -> Int]
    /\ locked \in [Cells -> Workers \cup {NoWorker}]
    /\ session \in [Workers -> [step: Steps,
                                movement: Movements \cup {NoMovement},
                                snapshot: Balances \cup {NoBalance},
                                creates: BOOLEAN]]
    /\ \A w \in Workers :
          /\ ~At(w, "idle") => session[w].movement \in Movements
          /\ At(w, "write") => session[w].snapshot \in Balances

\* The balance a row was computed from: what the row before it left.
Before(c, i) ==
    IF i = 1
    THEN [quantity |-> Opening[c].quantity, reserved |-> Opening[c].reserved]
    ELSE [quantity |-> ledger[c][i-1].runningQuantity,
          reserved |-> ledger[c][i-1].runningReserved]

Chained(c) ==
    \A i \in 1..Len(ledger[c]) :
        LET row == ledger[c][i]
            n == row.movement.quantity
            kind == row.movement.kind
        IN  /\ row.runningQuantity = Before(c, i).quantity + PhysicalDelta(kind, n)
            /\ row.runningReserved = Before(c, i).reserved + ReservationDelta(kind, n)

\* Header invariant 2 (concurrent writers cannot pick the same prior balance),
\* for the rows FOR UPDATE can lock: each ledger row of a cell whose stock row
\* existed carries on from the running values of the row before it.
WarmLedgersChain == \A c \in WarmCells : Chained(c)

\* The same for every cell: one whose stock row is not there yet opens at zero.
FirstRowChains(c) ==
    \A i \in 2..Len(ledger[c]) :
        ledger[c][i].runningQuantity =
            ledger[c][i-1].runningQuantity + ledger[c][i].quantityDelta
EveryLedgerChains == \A c \in Cells : FirstRowChains(c)

\* Header invariant 3 (the ledger and the snapshot can never diverge): the stock
\* row is what the newest ledger row says, and there is none without a row.
SnapshotIsNewestRow ==
    \A c \in Cells :
        IF ledger[c] = <<>>
        THEN stock[c] = IF c \in WarmCells THEN Opening[c] ELSE NoRow
        ELSE LET row == ledger[c][Len(ledger[c])]
             IN  /\ stock[c] # NoRow
                 /\ stock[c].quantity = row.runningQuantity
                 /\ stock[c].reserved = row.runningReserved

\* Header invariant 4: however often callers repeat a movement, and whoever
\* crashes in between, an externalRef stands on one row of the whole ledger.
RefPostedOnce ==
    \A c, d \in Cells : \A i \in 1..Len(ledger[c]), j \in 1..Len(ledger[d]) :
        /\ ledger[c][i].movement.ref # NoRef
        /\ ledger[c][i].movement.ref = ledger[d][j].movement.ref
        => c = d /\ i = j

\* Whatever was interleaved, the reserved count never goes below zero and the
\* pieces on hand only do where a stock count correction took them there.
NoOverdraft ==
    \A c \in Cells :
        /\ stock[c] # NoRow => stock[c].reserved >= 0
        /\ \A i \in 1..Len(ledger[c]) :
              ledger[c][i].runningQuantity < 0 => ledger[c][i].movement.allowNegative

Costs == {CatalogueCost[k] : k \in Items} \cup {Opening[c].avgCost : c \in WarmCells}
            \cup {m.unitCost : m \in Movements}

\* No balance was ever below zero: not at the start, and no ledger row left one.
NoCountBelowZero ==
    /\ \A c \in WarmCells : Opening[c].quantity >= 0
    /\ \A c \in Cells : \A i \in 1..Len(ledger[c]) : ledger[c][i].runningQuantity >= 0

WithinPaid(cost) == /\ \E k \in Costs : k <= cost
                    /\ \E k \in Costs : cost <= k

\* The weighted average of what was paid for the pieces stays between the
\* cheapest and the dearest of them, while no count went below zero.
AvgCostWithinPaid ==
    NoCountBelowZero => \A c \in Cells : stock[c] # NoRow => WithinPaid(stock[c].avgCost)

\* A session that began a movement finishes: it commits, is refused or rolls
\* back; no session is left waiting for a row lock.
EveryPostEnds == \A w \in Workers : ~At(w, "idle") ~> At(w, "idle")

\* The cells whose rows exist behave as atomic stock accounts.
Account == INSTANCE StockAccount WITH
    Accounts <- WarmCells, OpeningBalance <- Opening,
    balance <- [c \in WarmCells |-> stock[c]],
    log <- [c \in WarmCells |-> ledger[c]]
ImplementsAccount == Account!Spec
=============================================================================
