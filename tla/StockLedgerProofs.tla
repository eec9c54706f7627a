--------------------------- MODULE StockLedgerProofs ---------------------------
(***************************************************************************)
(* What StockLedger guarantees for every set of cells, sessions and        *)
(* movements, and however many rows a cell gets.                           *)
(***************************************************************************)
EXTENDS StockLedger, TLAPS

-----------------------------------------------------------------------------
(* Lemmas about the arithmetic of a movement *)

\* What an accepted kind moves is a whole number of pieces.
LEMMA DeltaType ==
    ASSUME NEW kind, NEW n \in Int
    PROVE  PhysicalDelta(kind, n) \in Int /\ ReservationDelta(kind, n) \in Int
BY DEF PhysicalDelta, ReservationDelta

\* A rounded quotient by a positive number is a whole number.
LEMMA QuotientType ==
    ASSUME NEW n \in Int, NEW d \in Int, d > 0
    PROVE  RoundedQuotient(n, d) \in Int
<1>1. 2 * n + d \in Int /\ 2 * d \in Int /\ 2 * d > 0
  OBVIOUS
<1>2. ASSUME NEW a \in Int, NEW b \in Int, b > 0
      PROVE  a \div b \in Int
  BY <1>2
<1> QED BY <1>1, <1>2 DEF RoundedQuotient

\* The average cost stays a whole number of minor units.
LEMMA AvgType ==
    ASSUME NEW bal \in Balances, NEW delta \in Int, NEW cost \in Int
    PROVE  WeightedAvg(bal, delta, cost) \in Int
<1>1. bal.quantity \in Int /\ bal.avgCost \in Int
  BY DEF Balances
<1>2. CASE delta <= 0 \/ bal.quantity + delta <= 0
  BY <1>1, <1>2 DEF WeightedAvg
<1>3. CASE ~(delta <= 0 \/ bal.quantity + delta <= 0)
  <2> DEFINE value == bal.quantity * bal.avgCost + delta * cost
             pieces == bal.quantity + delta
  <2>1. value \in Int /\ pieces \in Int /\ pieces > 0
    BY <1>1, <1>3
  <2>2. RoundedQuotient(value, pieces) \in Int
    BY <2>1, QuotientType
  <2>3. WeightedAvg(bal, delta, cost) = RoundedQuotient(value, pieces)
    BY <1>3 DEF WeightedAvg
  <2> QED BY <2>2, <2>3
<1> QED BY <1>2, <1>3

\* Every movement a caller can post has the fields the arithmetic reads.
LEMMA MovementType ==
    ASSUME NEW m \in Movements
    PROVE  /\ m.cell \in Cells /\ m.quantity \in Int /\ m.unitCost \in Int
           /\ m # NoMovement
BY MovementsAssumption

\* A movement takes a balance to a balance, by the deltas of its kind.
LEMMA AfterType ==
    ASSUME NEW bal \in Balances, NEW m \in Movements
    PROVE  /\ After(bal, m) \in Balances
           /\ After(bal, m).quantity = bal.quantity + PhysicalDelta(m.kind, m.quantity)
           /\ After(bal, m).reserved = bal.reserved + ReservationDelta(m.kind, m.quantity)
<1> DEFINE delta == PhysicalDelta(m.kind, m.quantity)
           cost == IF m.hasCost THEN m.unitCost ELSE bal.avgCost
<1>1. bal.quantity \in Int /\ bal.reserved \in Int /\ bal.avgCost \in Int
  BY DEF Balances
<1>2. delta \in Int /\ ReservationDelta(m.kind, m.quantity) \in Int
  BY MovementType, DeltaType
<1>3. cost \in Int
  BY <1>1, MovementType
<1>4. WeightedAvg(bal, delta, cost) \in Int
  <2> HIDE DEF delta, cost
  <2> QED BY <1>2, <1>3, AvgType
<1> QED BY <1>1, <1>2, <1>4 DEF After, Balances

Rows == [movement: Movements, quantityDelta: Int,
         runningQuantity: Int, runningReserved: Int]

\* The row written for a movement carries the balance after it.
LEMMA RowType ==
    ASSUME NEW bal \in Balances, NEW m \in Movements
    PROVE  /\ RowOf(m, bal) \in Rows
           /\ RowOf(m, bal).movement = m
           /\ RowOf(m, bal).runningQuantity = After(bal, m).quantity
           /\ RowOf(m, bal).runningReserved = After(bal, m).reserved
<1>1. PhysicalDelta(m.kind, m.quantity) \in Int
  BY MovementType, DeltaType
<1>2. After(bal, m).quantity \in Int /\ After(bal, m).reserved \in Int
  BY AfterType DEF Balances
<1> QED BY <1>1, <1>2 DEF RowOf, Rows

-----------------------------------------------------------------------------
(* Steps *)

\* Only Write touches the stock rows and the ledger.
LEMMA OnlyWriteMoves ==
    ASSUME Next
    PROVE  UNCHANGED <<stock, ledger>> \/ \E w \in Workers : Write(w)
BY DEF Next, Advance, Begin, Skip, NotADuplicate, LockRow, ReadSnapshot, Reject,
       UniqueViolation, Crash, Rollback

\* What a Write does to the stock row and the ledger of its cell.
LEMMA WriteEffect ==
    ASSUME TypeOK, NEW w \in Workers, Write(w)
    PROVE  LET m == session[w].movement
               bal == session[w].snapshot
           IN  /\ m \in Movements /\ m.cell \in Cells /\ bal \in Balances
               /\ Admissible(bal, m)
               /\ m.ref # NoRef => ~RefPosted(m.ref)
               /\ After(bal, m) \in Balances
               /\ stock' = [stock EXCEPT ![m.cell] = After(bal, m)]
               /\ ledger' = [ledger EXCEPT ![m.cell] = Append(@, RowOf(m, bal))]
<1>1. session[w].movement \in Movements /\ session[w].snapshot \in Balances
  BY DEF TypeOK, Write, At
<1> QED BY <1>1, MovementType, AfterType DEF Write

-----------------------------------------------------------------------------
(* Type correctness *)

\* The initial state has the declared shape.
LEMMA TypeInit == Init => TypeOK
<1> SUFFICES ASSUME Init PROVE TypeOK
  OBVIOUS
<1>1. stock \in [Cells -> Balances \cup {NoRow}]
  BY OpeningAssumption DEF Init, WarmCells
<1>2. ledger \in [Cells -> Seq(Rows)]
  BY DEF Init
<1>3. itemCost \in [Items -> Int] /\ locked \in [Cells -> Workers \cup {NoWorker}]
  BY OtherAssumption DEF Init
<1>4. session \in [Workers -> [step: Steps, movement: Movements \cup {NoMovement},
                               snapshot: Balances \cup {NoBalance}, creates: BOOLEAN]]
  BY DEF Init, Idle, Steps
<1>5. \A w \in Workers : At(w, "idle") /\ ~At(w, "write")
  BY DEF Init, Idle, At
<1> QED BY <1>1, <1>2, <1>3, <1>4, <1>5 DEF TypeOK, Rows

\* Ending a transaction keeps the shape of sessions and locks.
LEMMA EndTransactionType ==
    ASSUME TypeOK, NEW w \in Workers, EndTransaction(w)
    PROVE  /\ locked' \in [Cells -> Workers \cup {NoWorker}]
           /\ session' \in [Workers -> [step: Steps,
                                        movement: Movements \cup {NoMovement},
                                        snapshot: Balances \cup {NoBalance},
                                        creates: BOOLEAN]]
           /\ \A v \in Workers :
                 /\ ~At(v, "idle")' => session'[v].movement \in Movements
                 /\ At(v, "write")' => session'[v].snapshot \in Balances
<1>1. Idle \in [step: Steps, movement: Movements \cup {NoMovement},
                snapshot: Balances \cup {NoBalance}, creates: BOOLEAN]
  BY DEF Idle, Steps
<1>2. Idle.step = "idle"
  BY DEF Idle
<1>3. locked' \in [Cells -> Workers \cup {NoWorker}]
  BY DEF TypeOK, EndTransaction
<1>4. session' \in [Workers -> [step: Steps, movement: Movements \cup {NoMovement},
                                snapshot: Balances \cup {NoBalance}, creates: BOOLEAN]]
  BY <1>1 DEF TypeOK, EndTransaction
<1>5. session'[w].step = "idle" /\ \A v \in Workers \ {w} : session'[v] = session[v]
  BY <1>2 DEF TypeOK, EndTransaction
<1>6. \A v \in Workers : /\ session'[v].step # "idle" => session'[v].movement \in Movements
                         /\ session'[v].step = "write" => session'[v].snapshot \in Balances
  BY <1>5 DEF TypeOK, At
<1> QED BY <1>3, <1>4, <1>6 DEF At

\* Every step keeps the shape of every variable.
LEMMA TypeStep == TypeOK /\ [Next]_vars => TypeOK'
<1> SUFFICES ASSUME TypeOK, [Next]_vars PROVE TypeOK'
  OBVIOUS
<1> DEFINE Shape == [step: Steps, movement: Movements \cup {NoMovement},
                     snapshot: Balances \cup {NoBalance}, creates: BOOLEAN]
<1>1. ASSUME NEW w \in Workers, NEW m \in Movements, Begin(w, m) PROVE TypeOK'
  <2>1. /\ session' = [session EXCEPT ![w].step = "dedupe", ![w].movement = m]
        /\ session \in [Workers -> Shape]
    BY <1>1 DEF Begin, TypeOK
  <2>2. session' \in [Workers -> Shape]
    <3>1. session[w] \in Shape /\ "dedupe" \in Steps
      BY <2>1 DEF Steps
    <3>2. [session[w] EXCEPT !.step = "dedupe", !.movement = m] \in Shape
      BY <3>1
    <3> HIDE DEF Shape
    <3> QED BY <2>1, <3>2
  <2>3. /\ session'[w].step = "dedupe" /\ session'[w].movement = m
        /\ \A v \in Workers \ {w} : session'[v] = session[v]
    BY <2>1
  <2> QED BY <1>1, <2>2, <2>3 DEF Begin, TypeOK, At
<1>2. ASSUME NEW w \in Workers, Rollback(w) PROVE TypeOK'
  BY <1>2, EndTransactionType DEF Rollback, TypeOK
<1>3. ASSUME NEW w \in Workers, NotADuplicate(w) PROVE TypeOK'
  BY <1>3 DEF NotADuplicate, Goto, TypeOK, At, Steps
<1>4. ASSUME NEW w \in Workers, LockRow(w) PROVE TypeOK'
  BY <1>4 DEF LockRow, Goto, TypeOK, At, Cell, Steps
<1>5. ASSUME NEW w \in Workers, ReadSnapshot(w) PROVE TypeOK'
  <2> DEFINE c == Cell(w)
             seen == IF stock[c] = NoRow
                     THEN [quantity |-> 0, reserved |-> 0, avgCost |-> itemCost[ItemOf[c]]]
                     ELSE stock[c]
  <2>1. c \in Cells
    BY <1>5, MovementType DEF ReadSnapshot, TypeOK, At, Cell
  <2>2. itemCost[ItemOf[c]] \in Int
    BY <2>1 DEF TypeOK, Items
  <2>3. seen \in Balances
    BY <2>1, <2>2 DEF TypeOK, Balances
  <2>4. session' = [session EXCEPT ![w].step = "write",
                                   ![w].creates = (stock[c] = NoRow),
                                   ![w].snapshot = seen]
    BY <1>5 DEF ReadSnapshot
  <2> HIDE DEF seen, c
  <2>5. session' \in [Workers -> [step: Steps, movement: Movements \cup {NoMovement},
                                  snapshot: Balances \cup {NoBalance},
                                  creates: BOOLEAN]]
    <3>1. session[w] \in [step: Steps, movement: Movements \cup {NoMovement},
                          snapshot: Balances \cup {NoBalance}, creates: BOOLEAN]
      BY DEF TypeOK
    <3>2. [session[w] EXCEPT !.step = "write", !.creates = (stock[c] = NoRow),
                             !.snapshot = seen]
             \in [step: Steps, movement: Movements \cup {NoMovement},
                  snapshot: Balances \cup {NoBalance}, creates: BOOLEAN]
      BY <2>3, <3>1 DEF Steps
    <3>3. session' = [session EXCEPT ![w] =
                [session[w] EXCEPT !.step = "write", !.creates = (stock[c] = NoRow),
                                   !.snapshot = seen]]
      BY <2>4 DEF TypeOK
    <3> QED BY <3>2, <3>3 DEF TypeOK
  <2>6. \A v \in Workers :
            /\ session'[v].movement = session[v].movement
            /\ v # w => session'[v] = session[v]
            /\ v = w => session'[v].snapshot \in Balances
    BY <2>3, <2>4 DEF TypeOK
  <2>7. session[w].movement \in Movements
    BY <1>5 DEF ReadSnapshot, TypeOK, At
  <2> QED BY <1>5, <2>5, <2>6, <2>7 DEF ReadSnapshot, TypeOK, At
<1>6. ASSUME NEW w \in Workers, Write(w) PROVE TypeOK'
  <2> DEFINE m == session[w].movement
             bal == session[w].snapshot
  <2>1. /\ m \in Movements /\ m.cell \in Cells /\ bal \in Balances
        /\ After(bal, m) \in Balances
        /\ stock' = [stock EXCEPT ![m.cell] = After(bal, m)]
        /\ ledger' = [ledger EXCEPT ![m.cell] = Append(@, RowOf(m, bal))]
    BY <1>6, WriteEffect
  <2>2. stock' \in [Cells -> Balances \cup {NoRow}]
    BY <2>1 DEF TypeOK
  <2>3. RowOf(m, bal) \in Rows
    BY <2>1, RowType
  <2>4. ledger' \in [Cells -> Seq(Rows)]
    <3>1. ledger \in [Cells -> Seq(Rows)]
      BY DEF TypeOK, Rows
    <3> HIDE DEF m, bal
    <3>2. ledger[m.cell] \in Seq(Rows)
      BY <2>1, <3>1
    <3>3. Append(ledger[m.cell], RowOf(m, bal)) \in Seq(Rows)
      BY <2>3, <3>2
    <3> QED BY <2>1, <3>1, <3>3
  <2>5. itemCost' \in [Items -> Int]
    <3>1. After(bal, m).avgCost \in Int
      BY <2>1 DEF Balances
    <3> QED BY <1>6, <3>1 DEF Write, TypeOK
  <2>6. EndTransaction(w)
    BY <1>6 DEF Write
  <2> QED BY <2>2, <2>4, <2>5, <2>6, EndTransactionType DEF TypeOK, Rows
<1>7. ASSUME UNCHANGED vars PROVE TypeOK'
  BY <1>7 DEF vars, TypeOK, At
<1> QED BY <1>1, <1>2, <1>3, <1>4, <1>5, <1>6, <1>7
        DEF Next, Advance, Skip, Reject, UniqueViolation, Crash

\* The variables keep their shape in every behaviour: a session past its read
\* holds a balance, whatever it read and however it was interleaved.
THEOREM TypeCorrect == Spec => []TypeOK
BY TypeInit, TypeStep, PTL DEF Spec

-----------------------------------------------------------------------------
(* The ledger against the stock rows, for every cell *)

\* The index of an appended row, and the rows before it.
LEMMA AppendFacts ==
    ASSUME NEW S, NEW log \in Seq(S), NEW row \in S
    PROVE  /\ Append(log, row) \in Seq(S)
           /\ Len(Append(log, row)) = Len(log) + 1
           /\ Append(log, row) # <<>>
           /\ Append(log, row)[Len(log) + 1] = row
           /\ \A i \in 1..Len(log) : Append(log, row)[i] = log[i]
OBVIOUS

\* The ledger before and after a Write, row by row.
LEMMA LedgerAfterWrite ==
    ASSUME TypeOK, NEW w \in Workers, Write(w), NEW c \in Cells
    PROVE  LET m == session[w].movement
               row == RowOf(m, session[w].snapshot)
           IN  /\ Len(ledger[c]) \in Nat
               /\ c # m.cell => stock'[c] = stock[c] /\ ledger'[c] = ledger[c]
               /\ c = m.cell =>
                    /\ stock'[c] = After(session[w].snapshot, m)
                    /\ ledger'[c] # <<>>
                    /\ Len(ledger'[c]) = Len(ledger[c]) + 1
                    /\ ledger'[c][Len(ledger[c]) + 1] = row
                    /\ \A i \in 1..Len(ledger[c]) : ledger'[c][i] = ledger[c][i]
<1> DEFINE m == session[w].movement
           bal == session[w].snapshot
<1>1. /\ m \in Movements /\ m.cell \in Cells /\ bal \in Balances
      /\ stock' = [stock EXCEPT ![m.cell] = After(bal, m)]
      /\ ledger' = [ledger EXCEPT ![m.cell] = Append(@, RowOf(m, bal))]
  BY WriteEffect
<1>2. stock \in [Cells -> Balances \cup {NoRow}] /\ ledger \in [Cells -> Seq(Rows)]
  BY DEF TypeOK, Rows
<1>3. RowOf(m, bal) \in Rows
  BY <1>1, RowType
<1> HIDE DEF m, bal
<1>4. ledger[c] \in Seq(Rows) /\ Len(ledger[c]) \in Nat
  BY <1>2
<1>5. CASE c # m.cell
  BY <1>1, <1>2, <1>4, <1>5 DEF m, bal
<1>6. CASE c = m.cell
  <2>1. /\ stock'[c] = After(bal, m)
        /\ ledger'[c] = Append(ledger[c], RowOf(m, bal))
    BY <1>1, <1>2, <1>6
  <2>2. /\ ledger'[c] # <<>>
        /\ Len(ledger'[c]) = Len(ledger[c]) + 1
        /\ ledger'[c][Len(ledger[c]) + 1] = RowOf(m, bal)
        /\ \A i \in 1..Len(ledger[c]) : ledger'[c][i] = ledger[c][i]
    BY <1>3, <1>4, <2>1, AppendFacts
  <2> QED BY <1>4, <1>6, <2>1, <2>2 DEF m, bal
<1> QED BY <1>5, <1>6

\* The stock row follows the newest ledger row through every step.
LEMMA SnapshotStep == TypeOK /\ SnapshotIsNewestRow /\ [Next]_vars => SnapshotIsNewestRow'
<1> SUFFICES ASSUME TypeOK, SnapshotIsNewestRow, [Next]_vars
             PROVE  SnapshotIsNewestRow'
  OBVIOUS
<1>1. CASE UNCHANGED <<stock, ledger>>
  BY <1>1 DEF SnapshotIsNewestRow
<1>2. ASSUME NEW w \in Workers, Write(w) PROVE SnapshotIsNewestRow'
  <2> DEFINE m == session[w].movement
             bal == session[w].snapshot
             Agrees(c) == IF ledger[c] = <<>>
                          THEN stock[c] = IF c \in WarmCells THEN Opening[c] ELSE NoRow
                          ELSE LET row == ledger[c][Len(ledger[c])]
                               IN  /\ stock[c] # NoRow
                                   /\ stock[c].quantity = row.runningQuantity
                                   /\ stock[c].reserved = row.runningReserved
  <2>1. SUFFICES ASSUME NEW c \in Cells PROVE Agrees(c)'
    BY DEF SnapshotIsNewestRow
  <2>2. CASE c # m.cell
    <3>1. stock'[c] = stock[c] /\ ledger'[c] = ledger[c]
      BY <1>2, <2>2, LedgerAfterWrite
    <3> QED BY <3>1 DEF SnapshotIsNewestRow
  <2>3. CASE c = m.cell
    <3>1. /\ m \in Movements /\ bal \in Balances /\ After(bal, m) \in Balances
      BY <1>2, WriteEffect
    <3>2. /\ stock'[c] = After(bal, m)
          /\ ledger'[c] # <<>>
          /\ ledger'[c][Len(ledger'[c])] = RowOf(m, bal)
      BY <1>2, <2>3, LedgerAfterWrite
    <3>3. /\ RowOf(m, bal).runningQuantity = After(bal, m).quantity
          /\ RowOf(m, bal).runningReserved = After(bal, m).reserved
      BY <3>1, RowType
    <3> HIDE DEF m, bal
    <3>4. stock'[c] # NoRow
      BY <3>1, <3>2, OpeningAssumption
    <3> QED BY <3>2, <3>3, <3>4
  <2> QED BY <2>2, <2>3
<1> QED BY <1>1, <1>2, OnlyWriteMoves DEF vars

\* Header invariant 3: the ledger and the stock rows never diverge, in any cell.
THEOREM SnapshotNeverDiverges == Spec => []SnapshotIsNewestRow
<1>1. Init => SnapshotIsNewestRow
  BY DEF Init, SnapshotIsNewestRow
<1> QED BY <1>1, TypeCorrect, SnapshotStep, PTL DEF Spec

-----------------------------------------------------------------------------
(* Idempotence and overdrafts, for every cell *)

\* A Write adds one row to one cell: each row of the new ledger is an old row at
\* its old place, or the new one at the end of its cell.
LEMMA RowsAfterWrite ==
    ASSUME TypeOK, NEW w \in Workers, Write(w),
           NEW c \in Cells, NEW i \in 1..Len(ledger'[c])
    PROVE  \/ i \in 1..Len(ledger[c]) /\ ledger'[c][i] = ledger[c][i]
           \/ /\ c = session[w].movement.cell /\ i = Len(ledger[c]) + 1
              /\ ledger'[c][i] = RowOf(session[w].movement, session[w].snapshot)
<1>1. CASE c # session[w].movement.cell
  BY <1>1, LedgerAfterWrite
<1>2. CASE c = session[w].movement.cell
  <2>1. /\ Len(ledger[c]) \in Nat
        /\ Len(ledger'[c]) = Len(ledger[c]) + 1
        /\ ledger'[c][Len(ledger[c]) + 1] = RowOf(session[w].movement, session[w].snapshot)
        /\ \A k \in 1..Len(ledger[c]) : ledger'[c][k] = ledger[c][k]
    BY <1>2, LedgerAfterWrite
  <2>2. i \in 1..Len(ledger[c]) \/ i = Len(ledger[c]) + 1
    BY <2>1
  <2>3. CASE i \in 1..Len(ledger[c])
    BY <2>1, <2>3
  <2>4. CASE i = Len(ledger[c]) + 1
    BY <1>2, <2>1, <2>4
  <2> QED BY <2>2, <2>3, <2>4
<1> QED BY <1>1, <1>2

\* A reference that stands on a row does not come on a second one.
LEMMA RefStep == TypeOK /\ RefPostedOnce /\ [Next]_vars => RefPostedOnce'
<1> SUFFICES ASSUME TypeOK, RefPostedOnce, [Next]_vars PROVE RefPostedOnce'
  OBVIOUS
<1>1. CASE UNCHANGED <<stock, ledger>>
  BY <1>1 DEF RefPostedOnce
<1>2. ASSUME NEW w \in Workers, Write(w) PROVE RefPostedOnce'
  <2> DEFINE m == session[w].movement
             new == RowOf(m, session[w].snapshot)
             Old(c, i) == i \in 1..Len(ledger[c]) /\ ledger'[c][i] = ledger[c][i]
             New(c, i) == /\ c = m.cell /\ i = Len(ledger[c]) + 1
                          /\ ledger'[c][i] = new
  <2>1. SUFFICES ASSUME NEW c \in Cells, NEW d \in Cells,
                        NEW i \in 1..Len(ledger'[c]), NEW j \in 1..Len(ledger'[d]),
                        ledger'[c][i].movement.ref # NoRef,
                        ledger'[c][i].movement.ref = ledger'[d][j].movement.ref
                 PROVE  c = d /\ i = j
    BY DEF RefPostedOnce
  <2>2. (Old(c, i) \/ New(c, i)) /\ (Old(d, j) \/ New(d, j))
    BY <1>2, <2>1, RowsAfterWrite
  <2>3. new.movement = m /\ (m.ref # NoRef => ~RefPosted(m.ref))
    BY <1>2, WriteEffect, RowType
  <2>4. \A e \in Cells, k \in Nat : Old(e, k) =>
            ledger'[e][k].movement.ref = NoRef \/ ledger'[e][k].movement.ref # m.ref
    BY <2>3 DEF RefPosted
  <2>5. i \in Nat /\ j \in Nat
    <3>1. Len(ledger[c]) \in Nat /\ Len(ledger[d]) \in Nat
      BY <1>2, LedgerAfterWrite
    <3> QED BY <2>2, <3>1
  <2>6. CASE Old(c, i) /\ Old(d, j)
    BY <2>1, <2>6 DEF RefPostedOnce
  <2>7. CASE New(c, i) /\ New(d, j)
    BY <2>7
  <2>8. CASE Old(c, i) /\ New(d, j)
    BY <2>1, <2>3, <2>4, <2>5, <2>8
  <2>9. CASE New(c, i) /\ Old(d, j)
    BY <2>1, <2>3, <2>4, <2>5, <2>9
  <2> QED BY <2>2, <2>6, <2>7, <2>8, <2>9
<1> QED BY <1>1, <1>2, OnlyWriteMoves DEF vars

\* Header invariant 4: a repeated movement is posted once, whoever repeats it when.
THEOREM MovementsAreIdempotent == Spec => []RefPostedOnce
<1>1. Init => RefPostedOnce
  BY DEF Init, RefPostedOnce
<1> QED BY <1>1, TypeCorrect, RefStep, PTL DEF Spec

\* No step takes a count below zero but a correction, nor the reserved pieces.
LEMMA OverdraftStep == TypeOK /\ NoOverdraft /\ [Next]_vars => NoOverdraft'
<1> SUFFICES ASSUME TypeOK, NoOverdraft, [Next]_vars PROVE NoOverdraft'
  OBVIOUS
<1>1. CASE UNCHANGED <<stock, ledger>>
  BY <1>1 DEF NoOverdraft
<1>2. ASSUME NEW w \in Workers, Write(w) PROVE NoOverdraft'
  <2> DEFINE m == session[w].movement
             bal == session[w].snapshot
  <2>1. /\ m \in Movements /\ bal \in Balances /\ Admissible(bal, m)
        /\ After(bal, m).quantity = bal.quantity + PhysicalDelta(m.kind, m.quantity)
        /\ After(bal, m).reserved = bal.reserved + ReservationDelta(m.kind, m.quantity)
    BY <1>2, WriteEffect, AfterType
  <2>2. /\ After(bal, m).reserved >= 0
        /\ After(bal, m).quantity >= 0 \/ m.allowNegative
    BY <2>1 DEF Admissible
  <2>3. SUFFICES ASSUME NEW c \in Cells
                 PROVE  /\ stock'[c] # NoRow => stock'[c].reserved >= 0
                        /\ \A i \in 1..Len(ledger'[c]) :
                              ledger'[c][i].runningQuantity < 0
                              => ledger'[c][i].movement.allowNegative
    BY DEF NoOverdraft
  <2>4. stock'[c] # NoRow => stock'[c].reserved >= 0
    BY <1>2, <2>2, LedgerAfterWrite DEF NoOverdraft
  <2>5. ASSUME NEW i \in 1..Len(ledger'[c]), ledger'[c][i].runningQuantity < 0
        PROVE  ledger'[c][i].movement.allowNegative
    <3>1. CASE i \in 1..Len(ledger[c]) /\ ledger'[c][i] = ledger[c][i]
      BY <2>5, <3>1 DEF NoOverdraft
    <3>2. CASE ledger'[c][i] = RowOf(m, bal)
      <4>1. /\ RowOf(m, bal).movement = m
            /\ RowOf(m, bal).runningQuantity = After(bal, m).quantity
            /\ After(bal, m).quantity \in Int
        BY <2>1, RowType, AfterType DEF Balances
      <4>2. m.allowNegative
        <5> HIDE DEF m, bal
        <5> QED BY <2>2, <2>5, <3>2, <4>1
      <4> QED BY <3>2, <4>1, <4>2
    <3> QED BY <1>2, <3>1, <3>2, RowsAfterWrite
  <2> QED BY <2>4, <2>5
<1> QED BY <1>1, <1>2, OnlyWriteMoves DEF vars

\* Whatever is interleaved, more is never reserved back than was reserved, and only a
\* count correction leaves less than nothing on a shelf.
THEOREM NothingIsOverdrawn == Spec => []NoOverdraft
<1>1. Init => NoOverdraft
  BY OpeningAssumption DEF Init, NoOverdraft
<1> QED BY <1>1, TypeCorrect, OverdraftStep, PTL DEF Spec

-----------------------------------------------------------------------------
(* What pieces cost on average *)

\* A product with a number that is not negative keeps an order.
LEMMA ProductOrder ==
    ASSUME NEW q \in Int, q >= 0, NEW a \in Int, NEW b \in Int, a <= b
    PROVE  q * a <= q * b
<1>1. \A x, y \in Nat : x * y >= 0
  OBVIOUS
<1>2. q \in Nat /\ b - a \in Nat
  OBVIOUS
<1>3. q * (b - a) >= 0
  BY <1>1, <1>2
<1>4. q * (b - a) = q * b - q * a
  OBVIOUS
<1>5. q * a \in Int /\ q * b \in Int
  OBVIOUS
<1> QED BY <1>3, <1>4, <1>5

\* A whole quotient times its divisor is within one divisor of what was divided.
LEMMA Division ==
    ASSUME NEW n \in Int, NEW d \in Int, d > 0
    PROVE  /\ n \div d \in Int
           /\ d * (n \div d) <= n
           /\ n < d * (n \div d) + d
<1>1. n \div d \in Int
  OBVIOUS
<1>2. n % d \in 0..(d - 1)
  OBVIOUS
<1>3. n = d * (n \div d) + (n % d)
  OBVIOUS
<1> QED BY <1>1, <1>2, <1>3

\* Rounding does not leave the whole bounds of what is rounded.
LEMMA QuotientWithin ==
    ASSUME NEW n \in Int, NEW d \in Int, d > 0, NEW lo \in Int, NEW hi \in Int,
           d * lo <= n, n <= d * hi
    PROVE  lo <= RoundedQuotient(n, d) /\ RoundedQuotient(n, d) <= hi
<1> DEFINE r == RoundedQuotient(n, d)
           p == d * r
           l == d * lo
           h == d * hi
<1>1. r \in Int
  BY QuotientType
<1>2. p \in Int /\ l \in Int /\ h \in Int
  BY <1>1
<1>3. 2 * p <= 2 * n + d /\ 2 * n + d < 2 * p + 2 * d
  <2>1. 2 * n + d \in Int /\ 2 * d \in Int /\ 2 * d > 0
    OBVIOUS
  <2>2. (2 * d) * r <= 2 * n + d /\ 2 * n + d < (2 * d) * r + 2 * d
    BY <2>1, Division DEF RoundedQuotient
  <2>3. (2 * d) * r = 2 * p
    BY <1>1
  <2> HIDE DEF p, r
  <2> QED BY <1>2, <2>2, <2>3
<1>4. l <= n /\ n <= h
  OBVIOUS
<1>5. ASSUME r < lo PROVE FALSE
  <2>1. d * (r + 1) <= d * lo
    <3>1. r + 1 \in Int /\ r + 1 <= lo
      BY <1>1, <1>5
    <3> HIDE DEF r
    <3> QED BY <3>1, ProductOrder
  <2>2. d * (r + 1) = p + d
    BY <1>1
  <2>3. p + d <= l
    BY <2>1, <2>2
  <2> HIDE DEF p, l, r
  <2> QED BY <1>2, <1>3, <1>4, <2>3
<1>6. ASSUME hi < r PROVE FALSE
  <2>1. d * (hi + 1) <= d * r
    <3>1. hi + 1 \in Int /\ hi + 1 <= r
      BY <1>1, <1>6
    <3> HIDE DEF r
    <3> QED BY <1>1, <3>1, ProductOrder
  <2>2. d * (hi + 1) = h + d
    OBVIOUS
  <2>3. h + d <= p
    BY <2>1, <2>2
  <2> HIDE DEF p, h, r
  <2> QED BY <1>2, <1>3, <1>4, <2>3
<1> HIDE DEF r
<1>7. lo <= r /\ r <= hi
  BY <1>1, <1>5, <1>6
<1> QED BY <1>7 DEF r

\* The average of two costs lies between the bounds of both, if there were not less
\* than no pieces to begin with.
LEMMA AvgWithin ==
    ASSUME NEW bal \in Balances, bal.quantity >= 0, NEW delta \in Int, NEW cost \in Int,
           NEW lo \in Int, NEW hi \in Int,
           lo <= bal.avgCost, bal.avgCost <= hi, lo <= cost, cost <= hi
    PROVE  /\ lo <= WeightedAvg(bal, delta, cost)
           /\ WeightedAvg(bal, delta, cost) <= hi
<1>1. bal.quantity \in Int /\ bal.avgCost \in Int
  BY DEF Balances
<1>2. CASE delta <= 0 \/ bal.quantity + delta <= 0
  BY <1>1, <1>2 DEF WeightedAvg
<1>3. CASE ~(delta <= 0 \/ bal.quantity + delta <= 0)
  <2> DEFINE q == bal.quantity
             a == bal.avgCost
             value == q * a + delta * cost
             pieces == q + delta
  <2>1. value \in Int /\ pieces \in Int /\ pieces > 0 /\ delta >= 0
    BY <1>1, <1>3
  <2>2. /\ q * lo <= q * a /\ q * a <= q * hi
        /\ delta * lo <= delta * cost /\ delta * cost <= delta * hi
    <3> HIDE DEF q, a
    <3>1. q \in Int /\ a \in Int /\ q >= 0 /\ lo <= a /\ a <= hi
      BY <1>1 DEF q, a
    <3> QED BY <2>1, <3>1, ProductOrder
  <2>3. pieces * lo = q * lo + delta * lo /\ pieces * hi = q * hi + delta * hi
    BY <1>1
  <2>4. /\ q * lo \in Int /\ q * a \in Int /\ q * hi \in Int
        /\ delta * lo \in Int /\ delta * cost \in Int /\ delta * hi \in Int
    BY <1>1
  <2>5. pieces * lo <= value /\ value <= pieces * hi
    <3> DEFINE ql == q * lo
               qa == q * a
               qh == q * hi
               dl == delta * lo
               dc == delta * cost
               dh == delta * hi
    <3>1. ql \in Int /\ qa \in Int /\ qh \in Int /\ dl \in Int /\ dc \in Int /\ dh \in Int
      BY <2>4
    <3>2. ql <= qa /\ qa <= qh /\ dl <= dc /\ dc <= dh
      BY <2>2
    <3>3. value = qa + dc /\ pieces * lo = ql + dl /\ pieces * hi = qh + dh
      BY <2>3
    <3> HIDE DEF ql, qa, qh, dl, dc, dh, value, pieces
    <3> QED BY <3>1, <3>2, <3>3
  <2>6. WeightedAvg(bal, delta, cost) = RoundedQuotient(value, pieces)
    BY <1>3 DEF WeightedAvg
  <2> HIDE DEF value, pieces
  <2> QED BY <2>1, <2>5, <2>6, QuotientWithin
<1> QED BY <1>2, <1>3

\* Every cost that was ever paid is a whole number.
LEMMA CostsType == Costs \subseteq Int
BY OpeningAssumption, MovementsAssumption, OtherAssumption DEF Costs, Balances

\* What two costs within what was paid average to is within it as well.
LEMMA AvgPaid ==
    ASSUME NEW bal \in Balances, bal.quantity >= 0, WithinPaid(bal.avgCost),
           NEW delta \in Int, NEW cost \in Int, WithinPaid(cost)
    PROVE  WithinPaid(WeightedAvg(bal, delta, cost))
<1>1. PICK l1 \in Costs, h1 \in Costs : l1 <= bal.avgCost /\ bal.avgCost <= h1
  BY DEF WithinPaid
<1>2. PICK l2 \in Costs, h2 \in Costs : l2 <= cost /\ cost <= h2
  BY DEF WithinPaid
<1> DEFINE lo == IF l1 <= l2 THEN l1 ELSE l2
           hi == IF h1 <= h2 THEN h2 ELSE h1
<1>3. l1 \in Int /\ l2 \in Int /\ h1 \in Int /\ h2 \in Int /\ bal.avgCost \in Int
  BY CostsType DEF Balances
<1>4. lo \in Costs /\ hi \in Costs /\ lo \in Int /\ hi \in Int
  BY <1>3
<1>5. lo <= bal.avgCost /\ bal.avgCost <= hi /\ lo <= cost /\ cost <= hi
  BY <1>1, <1>2, <1>3
<1> HIDE DEF lo, hi
<1>6. lo <= WeightedAvg(bal, delta, cost) /\ WeightedAvg(bal, delta, cost) <= hi
  BY <1>4, <1>5, AvgWithin
<1> QED BY <1>4, <1>6 DEF WithinPaid

\* The average does not leave what was paid by a movement, whether the movement names
\* its cost or takes the average for it.
LEMMA MovementPaid ==
    ASSUME NEW bal \in Balances, bal.quantity >= 0, WithinPaid(bal.avgCost),
           NEW m \in Movements
    PROVE  WithinPaid(After(bal, m).avgCost)
<1> DEFINE delta == PhysicalDelta(m.kind, m.quantity)
           cost == IF m.hasCost THEN m.unitCost ELSE bal.avgCost
<1>1. delta \in Int
  BY MovementType, DeltaType
<1>2. m.unitCost \in Int /\ m.unitCost \in Costs /\ bal.avgCost \in Int
  BY MovementType DEF Costs, Balances
<1>3. cost \in Int
  BY <1>2
<1>4. WithinPaid(cost)
  <2>1. WithinPaid(m.unitCost)
    BY <1>2 DEF WithinPaid
  <2> QED BY <2>1
<1>5. After(bal, m).avgCost = WeightedAvg(bal, delta, cost)
  BY DEF After
<1> HIDE DEF delta, cost
<1> QED BY <1>1, <1>3, <1>4, <1>5, AvgPaid

\* The averages a Write can be computed from: those of the stock rows, those of the
\* catalogue, for a row that is not there yet, and those the sessions have read.
CostsWithinPaid ==
    NoCountBelowZero =>
        /\ \A c \in Cells : stock[c] # NoRow => WithinPaid(stock[c].avgCost)
        /\ \A k \in Items : WithinPaid(itemCost[k])
        /\ \A w \in Workers : At(w, "write") =>
              /\ session[w].snapshot.quantity >= 0
              /\ WithinPaid(session[w].snapshot.avgCost)

\* A count below zero stays in the ledger.
LEMMA BelowZeroStays ==
    ASSUME TypeOK, [Next]_vars, NoCountBelowZero'
    PROVE  NoCountBelowZero
<1>1. CASE UNCHANGED <<stock, ledger>>
  BY <1>1 DEF NoCountBelowZero
<1>2. ASSUME NEW w \in Workers, Write(w) PROVE NoCountBelowZero
  <2>1. SUFFICES ASSUME NEW c \in Cells, NEW i \in 1..Len(ledger[c])
                 PROVE  ledger[c][i].runningQuantity >= 0
    BY DEF NoCountBelowZero
  <2>2. i \in 1..Len(ledger'[c]) /\ ledger'[c][i] = ledger[c][i]
    BY <1>2, LedgerAfterWrite
  <2> QED BY <2>2 DEF NoCountBelowZero
<1> QED BY <1>1, <1>2, OnlyWriteMoves DEF vars

\* While no row is below zero, neither is what a stock row holds.
LEMMA StockNotBelowZero ==
    ASSUME TypeOK, SnapshotIsNewestRow, NoCountBelowZero, NEW c \in Cells, stock[c] # NoRow
    PROVE  stock[c] \in Balances /\ stock[c].quantity >= 0
<1>1. stock[c] \in Balances
  BY DEF TypeOK
<1>2. CASE ledger[c] = <<>>
  BY <1>1, <1>2 DEF SnapshotIsNewestRow, NoCountBelowZero
<1>3. CASE ledger[c] # <<>>
  <2>1. ledger[c] \in Seq(Rows)
    BY DEF TypeOK, Rows
  <2>2. Len(ledger[c]) \in 1..Len(ledger[c])
    BY <1>3, <2>1
  <2>3. stock[c].quantity = ledger[c][Len(ledger[c])].runningQuantity
    BY <1>3 DEF SnapshotIsNewestRow
  <2> QED BY <1>1, <2>2, <2>3 DEF NoCountBelowZero
<1> QED BY <1>1, <1>2, <1>3

\* A session that ends leaves what the others have read.
LEMMA OthersKeepSnapshots ==
    ASSUME TypeOK, NEW w \in Workers, EndTransaction(w), NEW v \in Workers, At(v, "write")'
    PROVE  At(v, "write") /\ session'[v] = session[v]
BY DEF EndTransaction, TypeOK, At, Idle

\* No step takes an average out of what was paid.
LEMMA CostStep ==
    TypeOK /\ SnapshotIsNewestRow /\ CostsWithinPaid /\ [Next]_vars => CostsWithinPaid'
<1> SUFFICES ASSUME TypeOK, SnapshotIsNewestRow, CostsWithinPaid, [Next]_vars,
                    NoCountBelowZero'
             PROVE  /\ \A c \in Cells : stock'[c] # NoRow => WithinPaid(stock'[c].avgCost)
                    /\ \A k \in Items : WithinPaid(itemCost'[k])
                    /\ \A v \in Workers : At(v, "write")' =>
                          /\ session'[v].snapshot.quantity >= 0
                          /\ WithinPaid(session'[v].snapshot.avgCost)
  BY DEF CostsWithinPaid, WithinPaid
<1> DEFINE Goal == /\ \A c \in Cells : stock'[c] # NoRow => WithinPaid(stock'[c].avgCost)
                   /\ \A k \in Items : WithinPaid(itemCost'[k])
                   /\ \A v \in Workers : At(v, "write")' =>
                         /\ session'[v].snapshot.quantity >= 0
                         /\ WithinPaid(session'[v].snapshot.avgCost)
<1>0. NoCountBelowZero
  BY BelowZeroStays
<1>1. /\ \A c \in Cells : stock[c] # NoRow => WithinPaid(stock[c].avgCost)
      /\ \A k \in Items : WithinPaid(itemCost[k])
      /\ \A v \in Workers : At(v, "write") =>
            /\ session[v].snapshot.quantity >= 0
            /\ WithinPaid(session[v].snapshot.avgCost)
  BY <1>0 DEF CostsWithinPaid
<1>2. ASSUME UNCHANGED <<stock, itemCost>>,
             \A v \in Workers : At(v, "write")' =>
                At(v, "write") /\ session'[v].snapshot = session[v].snapshot
      PROVE  Goal
  BY <1>1, <1>2
<1>3. ASSUME NEW w \in Workers, NEW m \in Movements, Begin(w, m) PROVE Goal
  <2>1. \A v \in Workers : At(v, "write")' =>
            At(v, "write") /\ session'[v].snapshot = session[v].snapshot
    BY <1>3 DEF Begin, TypeOK, At
  <2> QED BY <1>2, <1>3, <2>1 DEF Begin
<1>4. ASSUME NEW w \in Workers, Rollback(w) PROVE Goal
  <2>1. \A v \in Workers : At(v, "write")' =>
            At(v, "write") /\ session'[v].snapshot = session[v].snapshot
    BY <1>4, OthersKeepSnapshots DEF Rollback
  <2> QED BY <1>2, <1>4, <2>1 DEF Rollback
<1>5. ASSUME NEW w \in Workers, NotADuplicate(w) \/ LockRow(w) PROVE Goal
  <2>1. \A v \in Workers : At(v, "write")' =>
            At(v, "write") /\ session'[v].snapshot = session[v].snapshot
    BY <1>5 DEF NotADuplicate, LockRow, Goto, TypeOK, At
  <2> QED BY <1>2, <1>5, <2>1 DEF NotADuplicate, LockRow
<1>6. ASSUME NEW w \in Workers, ReadSnapshot(w) PROVE Goal
  <2> DEFINE c == Cell(w)
             seen == IF stock[c] = NoRow
                     THEN [quantity |-> 0, reserved |-> 0, avgCost |-> itemCost[ItemOf[c]]]
                     ELSE stock[c]
  <2>1. c \in Cells /\ ItemOf[c] \in Items
    BY <1>6, MovementType DEF ReadSnapshot, TypeOK, At, Cell, Items
  <2>2. seen.quantity >= 0 /\ WithinPaid(seen.avgCost)
    <3>1. CASE stock[c] = NoRow
      <4>1. seen = [quantity |-> 0, reserved |-> 0, avgCost |-> itemCost[ItemOf[c]]]
        BY <3>1
      <4> HIDE DEF seen, c
      <4> QED BY <1>1, <2>1, <4>1
    <3>2. CASE stock[c] # NoRow
      <4>1. seen = stock[c]
        BY <3>2
      <4> HIDE DEF seen, c
      <4> QED BY <1>0, <1>1, <2>1, <3>2, <4>1, StockNotBelowZero
    <3> QED BY <3>1, <3>2
  <2>3. /\ session'[w].snapshot = seen
        /\ \A v \in Workers \ {w} : session'[v] = session[v]
    BY <1>6 DEF ReadSnapshot, TypeOK
  <2>4. UNCHANGED <<stock, itemCost>>
    BY <1>6 DEF ReadSnapshot
  <2> HIDE DEF seen, c
  <2>5. ASSUME NEW v \in Workers, At(v, "write")'
        PROVE  session'[v].snapshot.quantity >= 0 /\ WithinPaid(session'[v].snapshot.avgCost)
    <3>1. CASE v = w
      BY <2>2, <2>3, <3>1
    <3>2. CASE v # w
      BY <1>1, <2>3, <2>5, <3>2 DEF At
    <3> QED BY <3>1, <3>2
  <2> QED BY <1>1, <2>4, <2>5
<1>7. ASSUME NEW w \in Workers, Write(w) PROVE Goal
  <2> DEFINE m == session[w].movement
             bal == session[w].snapshot
             paid == After(bal, m).avgCost
  <2>1. m \in Movements /\ bal \in Balances
    BY <1>7, WriteEffect
  <2>2. bal.quantity >= 0 /\ WithinPaid(bal.avgCost)
    BY <1>1, <1>7 DEF Write
  <2>3. WithinPaid(paid)
    <3> HIDE DEF m, bal
    <3> QED BY <2>1, <2>2, MovementPaid
  <2>4. ASSUME NEW c \in Cells, stock'[c] # NoRow PROVE WithinPaid(stock'[c].avgCost)
    <3>1. CASE c # m.cell
      BY <1>1, <1>7, <2>4, <3>1, LedgerAfterWrite
    <3>2. CASE c = m.cell
      <4>1. stock'[c] = After(bal, m)
        BY <1>7, <3>2, LedgerAfterWrite
      <4> QED BY <2>3, <4>1
    <3> QED BY <3>1, <3>2
  <2>5. ASSUME NEW k \in Items PROVE WithinPaid(itemCost'[k])
    <3>1. itemCost' = [itemCost EXCEPT ![ItemOf[m.cell]] = paid] \/ itemCost' = itemCost
      BY <1>7 DEF Write
    <3>2. itemCost'[k] = paid \/ itemCost'[k] = itemCost[k]
      <4> HIDE DEF paid, m
      <4> QED BY <3>1 DEF TypeOK
    <3> HIDE DEF paid
    <3> QED BY <1>1, <2>3, <3>2
  <2>6. EndTransaction(w)
    BY <1>7 DEF Write
  <2>7. \A v \in Workers : At(v, "write")' => At(v, "write") /\ session'[v] = session[v]
    BY <2>6, OthersKeepSnapshots
  <2> QED BY <1>1, <2>4, <2>5, <2>7
<1>8. ASSUME UNCHANGED vars PROVE Goal
  BY <1>2, <1>8 DEF vars, At
<1>9. Goal
  BY <1>3, <1>4, <1>5, <1>6, <1>7, <1>8
     DEF Next, Advance, Skip, Reject, UniqueViolation, Crash
<1> QED BY <1>9

\* The weighted average stays between the cheapest and the dearest cost ever paid, for
\* every cell, however its movements are interleaved, while no count is below zero.
THEOREM AverageStaysWithinPaid == Spec => []AvgCostWithinPaid
<1>1. Init => CostsWithinPaid
  <2> SUFFICES ASSUME Init PROVE CostsWithinPaid
    OBVIOUS
  <2>1. \A k \in Items : WithinPaid(CatalogueCost[k])
    <3>1. \A k \in Items : CatalogueCost[k] \in Costs /\ CatalogueCost[k] \in Int
      BY OtherAssumption DEF Costs
    <3> QED BY <3>1 DEF WithinPaid
  <2>2. \A c \in WarmCells : WithinPaid(Opening[c].avgCost)
    <3>1. \A c \in WarmCells : Opening[c].avgCost \in Costs /\ Opening[c].avgCost \in Int
      BY OpeningAssumption DEF Costs, Balances
    <3> QED BY <3>1 DEF WithinPaid
  <2>3. \A w \in Workers : ~At(w, "write")
    BY DEF Init, Idle, At
  <2> QED BY <2>1, <2>2, <2>3 DEF Init, CostsWithinPaid
<1>2. CostsWithinPaid => AvgCostWithinPaid
  BY DEF CostsWithinPaid, AvgCostWithinPaid
<1> QED BY <1>1, <1>2, TypeCorrect, SnapshotNeverDiverges, CostStep, PTL DEF Spec

-----------------------------------------------------------------------------
(* The cells whose stock row exists: what the row lock is for *)

\* The session at w is past the lock and before the commit, on a warm cell.
InCriticalSection(w) == (At(w, "read") \/ At(w, "write")) /\ Cell(w) \in WarmCells

\* It holds the lock of its row, so no two of them are on the same row.
LockIsHeld == \A w \in Workers : InCriticalSection(w) => locked[Cell(w)] = w

\* What it has read is still what the row holds when it writes.
SnapshotIsFresh ==
    \A w \in Workers : At(w, "write") /\ Cell(w) \in WarmCells =>
        /\ session[w].snapshot = stock[Cell(w)]
        /\ ~session[w].creates

\* WarmLedgersChain says nothing of the sessions; this does, and is inductive.
WarmInv ==
    /\ TypeOK
    /\ SnapshotIsNewestRow
    /\ LockIsHeld
    /\ SnapshotIsFresh
    /\ WarmLedgersChain

\* A warm cell always has its stock row.
LEMMA WarmRowsExist ==
    ASSUME TypeOK, SnapshotIsNewestRow, NEW c \in WarmCells
    PROVE  c \in Cells /\ stock[c] # NoRow /\ stock[c] \in Balances
<1>1. c \in Cells /\ Opening[c] \in Balances /\ NoRow \notin Balances
  BY OpeningAssumption
<1>2. stock[c] # NoRow
  BY <1>1 DEF SnapshotIsNewestRow
<1> QED BY <1>1, <1>2 DEF TypeOK

\* Ending a transaction leaves the other sessions and their locks alone.
LEMMA EndTransactionEffect ==
    ASSUME TypeOK, NEW w \in Workers, EndTransaction(w), NEW v \in Workers
    PROVE  /\ v = w => At(v, "idle")'
           /\ v # w => /\ session'[v] = session[v]
                       /\ \A c \in Cells : locked[c] = v => locked'[c] = v
<1>1. Idle.step = "idle"
  BY DEF Idle
<1> QED BY <1>1 DEF TypeOK, EndTransaction, At

\* Every session that is past LockRow on a warm cell holds the lock.
LEMMA LockStep ==
    ASSUME WarmInv, [Next]_vars
    PROVE  LockIsHeld'
<1> USE DEF WarmInv
<1>1. ASSUME NEW w \in Workers, NEW m \in Movements, Begin(w, m) PROVE LockIsHeld'
  BY <1>1 DEF Begin, TypeOK, LockIsHeld, InCriticalSection, At, Cell
<1>2. ASSUME NEW w \in Workers, EndTransaction(w) PROVE LockIsHeld'
  <2> SUFFICES ASSUME NEW v \in Workers, InCriticalSection(v)'
               PROVE  locked'[Cell(v)'] = v
    BY DEF LockIsHeld
  <2>1. v # w
    BY <1>2, EndTransactionEffect DEF InCriticalSection, At
  <2>2. session'[v] = session[v] /\ \A c \in Cells : locked[c] = v => locked'[c] = v
    BY <1>2, <2>1, EndTransactionEffect
  <2>3. InCriticalSection(v) /\ Cell(v)' = Cell(v) /\ Cell(v) \in Cells
    BY <2>2, OpeningAssumption DEF InCriticalSection, At, Cell
  <2> QED BY <2>2, <2>3 DEF LockIsHeld
<1>3. ASSUME NEW w \in Workers, NotADuplicate(w) PROVE LockIsHeld'
  BY <1>3 DEF NotADuplicate, Goto, TypeOK, LockIsHeld, InCriticalSection, At, Cell
<1>4. ASSUME NEW w \in Workers, LockRow(w) PROVE LockIsHeld'
  <2> SUFFICES ASSUME NEW v \in Workers, InCriticalSection(v)'
               PROVE  locked'[Cell(v)'] = v
    BY DEF LockIsHeld
  <2>1. Cell(v)' = Cell(v) /\ Cell(v) \in WarmCells
    BY <1>4 DEF LockRow, Goto, TypeOK, InCriticalSection, Cell
  <2>2. Cell(v) \in Cells /\ stock[Cell(v)] # NoRow
    BY <2>1, WarmRowsExist
  <2>3. CASE v = w
    BY <1>4, <2>1, <2>2, <2>3 DEF LockRow, TypeOK
  <2>4. CASE v # w
    <3>1. InCriticalSection(v)
      BY <1>4, <2>1, <2>4 DEF LockRow, Goto, TypeOK, InCriticalSection, At
    <3>2. locked[Cell(v)] = v /\ locked[Cell(w)] = NoWorker
      BY <1>4, <3>1 DEF LockIsHeld, LockRow
    <3>3. Cell(v) # Cell(w)
      BY <3>2, OtherAssumption
    <3> QED BY <1>4, <2>1, <2>2, <3>2, <3>3 DEF LockRow, TypeOK
  <2> QED BY <2>3, <2>4
<1>5. ASSUME NEW w \in Workers, ReadSnapshot(w) PROVE LockIsHeld'
  <2> SUFFICES ASSUME NEW v \in Workers, InCriticalSection(v)'
               PROVE  locked'[Cell(v)'] = v
    BY DEF LockIsHeld
  <2>1. Cell(v)' = Cell(v) /\ locked' = locked
    BY <1>5 DEF ReadSnapshot, TypeOK, Cell
  <2>2. InCriticalSection(v)
    BY <1>5, <2>1 DEF ReadSnapshot, TypeOK, InCriticalSection, At
  <2> QED BY <2>1, <2>2 DEF LockIsHeld
<1>6. CASE UNCHANGED vars
  BY <1>6 DEF vars, LockIsHeld, InCriticalSection, At, Cell
<1> QED BY <1>1, <1>2, <1>3, <1>4, <1>5, <1>6
        DEF Next, Advance, Skip, Reject, UniqueViolation, Crash, Rollback, Write

\* Because the others are kept out, what a session read does not age.
LEMMA FreshStep ==
    ASSUME WarmInv, [Next]_vars
    PROVE  SnapshotIsFresh'
<1> USE DEF WarmInv
<1>1. ASSUME NEW w \in Workers, NEW m \in Movements, Begin(w, m) PROVE SnapshotIsFresh'
  BY <1>1 DEF Begin, TypeOK, SnapshotIsFresh, At, Cell
<1>2. ASSUME NEW w \in Workers, Rollback(w) PROVE SnapshotIsFresh'
  <2> SUFFICES ASSUME NEW v \in Workers, At(v, "write")', (Cell(v) \in WarmCells)'
               PROVE  session'[v].snapshot = stock'[Cell(v)'] /\ ~session'[v].creates
    BY DEF SnapshotIsFresh
  <2>1. v # w /\ session'[v] = session[v] /\ stock' = stock
    BY <1>2, EndTransactionEffect DEF Rollback, At
  <2> QED BY <2>1 DEF SnapshotIsFresh, At, Cell, WarmCells
<1>3. ASSUME NEW w \in Workers, NotADuplicate(w) PROVE SnapshotIsFresh'
  <2>1. /\ session' = [session EXCEPT ![w].step = "lock"] /\ stock' = stock
        /\ session \in [Workers -> [step: Steps, movement: Movements \cup {NoMovement},
                                    snapshot: Balances \cup {NoBalance}, creates: BOOLEAN]]
    BY <1>3 DEF NotADuplicate, Goto, TypeOK
  <2>2. \A v \in Workers : /\ session'[v].movement = session[v].movement
                           /\ session'[v].snapshot = session[v].snapshot
                           /\ session'[v].creates = session[v].creates
                           /\ session'[v].step = "write" => session[v].step = "write"
    BY <2>1
  <2> QED BY <2>1, <2>2 DEF SnapshotIsFresh, At, Cell
<1>4. ASSUME NEW w \in Workers, LockRow(w) PROVE SnapshotIsFresh'
  <2>1. /\ session' = [session EXCEPT ![w].step = "read"] /\ stock' = stock
        /\ session \in [Workers -> [step: Steps, movement: Movements \cup {NoMovement},
                                    snapshot: Balances \cup {NoBalance}, creates: BOOLEAN]]
    BY <1>4 DEF LockRow, Goto, TypeOK
  <2>2. \A v \in Workers : /\ session'[v].movement = session[v].movement
                           /\ session'[v].snapshot = session[v].snapshot
                           /\ session'[v].creates = session[v].creates
                           /\ session'[v].step = "write" => session[v].step = "write"
    BY <2>1
  <2> QED BY <2>1, <2>2 DEF SnapshotIsFresh, At, Cell
<1>5. ASSUME NEW w \in Workers, ReadSnapshot(w) PROVE SnapshotIsFresh'
  <2> SUFFICES ASSUME NEW v \in Workers, At(v, "write")', (Cell(v) \in WarmCells)'
               PROVE  session'[v].snapshot = stock'[Cell(v)'] /\ ~session'[v].creates
    BY DEF SnapshotIsFresh
  <2>0. session'[v].movement = session[v].movement /\ stock' = stock
    <3>1. PICK x, y : session' = [session EXCEPT ![w].step = "write", ![w].creates = x,
                                                 ![w].snapshot = y]
      BY <1>5 DEF ReadSnapshot
    <3>2. session \in [Workers -> [step: Steps, movement: Movements \cup {NoMovement},
                                  snapshot: Balances \cup {NoBalance}, creates: BOOLEAN]]
      BY DEF TypeOK
    <3> QED BY <1>5, <3>1, <3>2 DEF ReadSnapshot
  <2>1. stock' = stock /\ Cell(v)' = Cell(v) /\ Cell(v) \in WarmCells
    BY <2>0 DEF Cell, WarmCells
  <2>2. CASE v = w
    <3>1. stock[Cell(w)] # NoRow
      BY <2>1, <2>2, WarmRowsExist
    <3> QED BY <1>5, <2>1, <2>2, <3>1 DEF ReadSnapshot, TypeOK
  <2>3. CASE v # w
    BY <1>5, <2>1, <2>3 DEF ReadSnapshot, TypeOK, SnapshotIsFresh, At
  <2> QED BY <2>2, <2>3
<1>6. ASSUME NEW w \in Workers, Write(w) PROVE SnapshotIsFresh'
  <2> SUFFICES ASSUME NEW v \in Workers, At(v, "write")', (Cell(v) \in WarmCells)'
               PROVE  session'[v].snapshot = stock'[Cell(v)'] /\ ~session'[v].creates
    BY DEF SnapshotIsFresh
  <2>1. v # w /\ session'[v] = session[v]
    BY <1>6, EndTransactionEffect DEF Write, At
  <2>2. InCriticalSection(v) /\ Cell(v)' = Cell(v) /\ At(v, "write")
    BY <2>1 DEF InCriticalSection, At, Cell, WarmCells
  <2>3. locked[Cell(v)] = v /\ locked[session[w].movement.cell] \in {w, NoWorker}
    BY <1>6, <2>2 DEF LockIsHeld, Write
  <2>4. Cell(v) # session[w].movement.cell
    BY <2>1, <2>3, OtherAssumption
  <2>5. Cell(v) \in Cells
    BY <2>2, OpeningAssumption DEF InCriticalSection
  <2>6. stock'[Cell(v)] = stock[Cell(v)]
    BY <1>6, <2>4, <2>5, LedgerAfterWrite
  <2> QED BY <2>1, <2>2, <2>6 DEF SnapshotIsFresh, InCriticalSection
<1>7. CASE UNCHANGED vars
  BY <1>7 DEF vars, SnapshotIsFresh, At, Cell
<1> QED BY <1>1, <1>2, <1>3, <1>4, <1>5, <1>6, <1>7
        DEF Next, Advance, Skip, Reject, UniqueViolation, Crash

\* A Write on a warm cell carries on from the newest row.
LEMMA ChainStep ==
    ASSUME WarmInv, [Next]_vars
    PROVE  WarmLedgersChain'
<1> USE DEF WarmInv
<1>1. CASE UNCHANGED <<stock, ledger>>
  BY <1>1 DEF WarmLedgersChain, Chained, Before
<1>2. ASSUME NEW w \in Workers, Write(w) PROVE WarmLedgersChain'
  <2> DEFINE m == session[w].movement
             bal == session[w].snapshot
             Follows(c, i) ==
                 LET row == ledger[c][i]
                     n == row.movement.quantity
                     kind == row.movement.kind
                 IN  /\ row.runningQuantity = Before(c, i).quantity + PhysicalDelta(kind, n)
                     /\ row.runningReserved = Before(c, i).reserved + ReservationDelta(kind, n)
  <2> SUFFICES ASSUME NEW c \in WarmCells, NEW i \in 1..Len(ledger'[c])
               PROVE  Follows(c, i)'
    BY DEF WarmLedgersChain, Chained, WarmCells
  <2>1. c \in Cells /\ Len(ledger[c]) \in Nat
    BY <1>2, LedgerAfterWrite, OpeningAssumption
  <2>2. CASE i \in 1..Len(ledger[c])
    <3>1. \A k \in 1..Len(ledger[c]) : ledger'[c][k] = ledger[c][k]
      BY <1>2, <2>1, LedgerAfterWrite
    <3>2. ledger'[c][i] = ledger[c][i] /\ (i # 1 => ledger'[c][i-1] = ledger[c][i-1])
      BY <2>1, <2>2, <3>1
    <3>3. Before(c, i)' = Before(c, i)
      BY <3>2 DEF Before
    <3>4. Follows(c, i)
      BY <2>2 DEF WarmLedgersChain, Chained
    <3> QED BY <3>2, <3>3, <3>4
  <2>3. CASE i \notin 1..Len(ledger[c])
    <3>1. c = m.cell /\ i = Len(ledger[c]) + 1 /\ ledger'[c][i] = RowOf(m, bal)
      BY <1>2, <2>1, <2>3, RowsAfterWrite
    <3>2. m \in Movements /\ bal \in Balances /\ At(w, "write")
      BY <1>2, WriteEffect DEF Write
    <3>3. bal = stock[c]
      BY <3>1, <3>2 DEF SnapshotIsFresh, Cell
    <3>4. /\ RowOf(m, bal).movement = m
          /\ RowOf(m, bal).runningQuantity = bal.quantity + PhysicalDelta(m.kind, m.quantity)
          /\ RowOf(m, bal).runningReserved = bal.reserved + ReservationDelta(m.kind, m.quantity)
      BY <3>2, RowType, AfterType
    <3>5. Before(c, i)'.quantity = stock[c].quantity /\ Before(c, i)'.reserved = stock[c].reserved
      <4>1. CASE ledger[c] = <<>>
        <5>1. stock[c] = Opening[c] /\ i = 1
          BY <2>1, <3>1, <4>1 DEF SnapshotIsNewestRow
        <5> QED BY <5>1 DEF Before
      <4>2. CASE ledger[c] # <<>>
        <5>1. Len(ledger[c]) \in 1..Len(ledger[c])
          <6>1. ledger[c] \in Seq(Rows)
            BY <2>1 DEF TypeOK, Rows
          <6> QED BY <4>2, <6>1
        <5>2. ledger'[c][Len(ledger[c])] = ledger[c][Len(ledger[c])]
          BY <1>2, <2>1, <3>1, <5>1, LedgerAfterWrite
        <5>3. /\ stock[c].quantity = ledger[c][Len(ledger[c])].runningQuantity
              /\ stock[c].reserved = ledger[c][Len(ledger[c])].runningReserved
          BY <2>1, <4>2 DEF SnapshotIsNewestRow
        <5>4. i # 1 /\ i - 1 = Len(ledger[c])
          BY <2>1, <3>1, <5>1
        <5> QED BY <5>2, <5>3, <5>4 DEF Before
      <4> QED BY <4>1, <4>2
    <3> QED BY <3>1, <3>3, <3>4, <3>5
  <2> QED BY <2>2, <2>3
<1> QED BY <1>1, <1>2, OnlyWriteMoves DEF vars

\* The invariant of the warm cells holds throughout.
LEMMA WarmInvariant == Spec => []WarmInv
<1>1. Init => WarmInv
  <2> SUFFICES ASSUME Init PROVE WarmInv
    OBVIOUS
  <2>1. LockIsHeld /\ SnapshotIsFresh
    BY DEF Init, Idle, LockIsHeld, SnapshotIsFresh, InCriticalSection, At
  <2>2. SnapshotIsNewestRow /\ WarmLedgersChain
    BY OpeningAssumption DEF Init, SnapshotIsNewestRow, WarmLedgersChain, Chained
  <2> QED BY <2>1, <2>2, TypeInit DEF WarmInv
<1>2. WarmInv /\ [Next]_vars => WarmInv'
  BY TypeStep, SnapshotStep, LockStep, FreshStep, ChainStep DEF WarmInv
<1> QED BY <1>1, <1>2, PTL DEF Spec

\* Header invariant 2, where there is a row to lock: concurrent writers never start
\* from the same prior balance.
THEOREM WarmWritersChain == Spec => []WarmLedgersChain
<1>1. WarmInv => WarmLedgersChain
  BY DEF WarmInv
<1> QED BY <1>1, WarmInvariant, PTL

-----------------------------------------------------------------------------
(* The warm cells are atomic stock accounts *)

\* The arithmetic of the account is the arithmetic of the ledger.
LEMMA SameArithmetic ==
    ASSUME NEW m, NEW bal
    PROVE  /\ Account!After(bal, m) = After(bal, m)
           /\ Account!Admissible(bal, m) <=> Admissible(bal, m)
           /\ Account!EntryOf(m, bal) = RowOf(m, bal)
BY DEF Account!After, Account!Admissible, Account!EntryOf, Account!WeightedAvg,
       Account!PhysicalDelta, Account!ReservationDelta, Account!RoundedQuotient,
       Account!InflowKinds, Account!OutflowKinds,
       After, Admissible, RowOf, WeightedAvg, PhysicalDelta, ReservationDelta,
       RoundedQuotient, InflowKinds, OutflowKinds

\* A Write on a warm cell posts its movement to the account of that cell.
LEMMA WriteImplementsPost ==
    ASSUME WarmInv, NEW w \in Workers, Write(w), Cell(w) \in WarmCells,
           NEW m \in Movements, m = session[w].movement
    PROVE  Account!Post(m)
<1> DEFINE bal == session[w].snapshot
<1>1. /\ m \in Movements /\ m.cell \in WarmCells /\ bal \in Balances
      /\ Admissible(bal, m)
      /\ m.ref # NoRef => ~RefPosted(m.ref)
      /\ stock' = [stock EXCEPT ![m.cell] = After(bal, m)]
      /\ ledger' = [ledger EXCEPT ![m.cell] = Append(@, RowOf(m, bal))]
  BY WriteEffect DEF Cell, WarmInv
<1>2. bal = stock[m.cell]
  BY DEF WarmInv, SnapshotIsFresh, Write, Cell
<1>3. WarmCells \subseteq Cells
  BY OpeningAssumption
<1>4. DOMAIN stock = Cells /\ DOMAIN ledger = Cells
  BY DEF WarmInv, TypeOK
<1> HIDE DEF bal
<1>5. m.ref # NoRef => ~Account!Recorded(m.ref)
  BY <1>1, <1>3 DEF RefPosted, Account!Recorded
<1>6. Account!Admissible(stock[m.cell], m)
  BY <1>1, <1>2, SameArithmetic
<1>7. [c \in WarmCells |-> stock'[c]]
        = [[c \in WarmCells |-> stock[c]] EXCEPT ![m.cell] = Account!After(@, m)]
  BY <1>1, <1>2, <1>3, <1>4, SameArithmetic
<1>8. [c \in WarmCells |-> ledger'[c]]
        = [[c \in WarmCells |-> ledger[c]] EXCEPT
              ![m.cell] = Append(@, Account!EntryOf(m, stock[m.cell]))]
  BY <1>1, <1>2, <1>3, <1>4, SameArithmetic
<1> QED BY <1>1, <1>5, <1>6, <1>7, <1>8 DEF Account!Post

\* Seen through the stock rows and the ledger of the warm cells, the sessions with
\* their locks, crashes and refusals do one whole movement at a time.
THEOREM LedgerImplementsAccount == Spec => ImplementsAccount
<1>1. Init => Account!Init
  BY OpeningAssumption DEF Init, Account!Init, WarmCells
<1>2. WarmInv /\ [Next]_vars => [Account!Next]_(Account!accountVars)
  <2> SUFFICES ASSUME WarmInv, [Next]_vars
               PROVE  Account!Next \/ UNCHANGED Account!accountVars
    OBVIOUS
  <2>1. CASE UNCHANGED <<stock, ledger>>
    BY <2>1 DEF Account!accountVars, WarmCells
  <2>2. ASSUME NEW w \in Workers, Write(w), Cell(w) \in WarmCells PROVE Account!Next
    <3>1. session[w].movement \in Movements
      BY <2>2, WriteEffect DEF WarmInv
    <3>2. PICK m \in Movements : m = session[w].movement
      BY <3>1
    <3>3. Account!Post(m)
      BY <2>2, <3>2, WriteImplementsPost
    <3> QED BY <3>3 DEF Account!Next
  <2>3. ASSUME NEW w \in Workers, Write(w), Cell(w) \notin WarmCells
        PROVE  UNCHANGED Account!accountVars
    <3>1. \A c \in WarmCells : stock'[c] = stock[c] /\ ledger'[c] = ledger[c]
      BY <2>3, LedgerAfterWrite, OpeningAssumption DEF WarmInv, Cell
    <3> QED BY <3>1 DEF Account!accountVars, WarmCells
  <2> QED BY <2>1, <2>2, <2>3, OnlyWriteMoves DEF vars
<1> QED BY <1>1, <1>2, WarmInvariant, PTL DEF Spec, Account!Spec, ImplementsAccount
=============================================================================
