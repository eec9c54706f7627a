---------------------------- MODULE StockMovement ----------------------------
(***************************************************************************)
(* The arithmetic of one stock movement, shared by every module that posts *)
(* to the inventory ledger.  A balance is what a warehouse_stocks row      *)
(* holds: pieces on hand, pieces reserved and the weighted-average cost.   *)
(***************************************************************************)
EXTENDS Integers

InflowKinds == {"IN_PURCHASE", "IN_RETURN_VENDOR", "IN_RETURN_TECHNICIAN",
                "IN_TRANSFER", "IN_ADJUSTMENT", "IN_OPENING"}
OutflowKinds == {"OUT_SALE", "OUT_TRANSFER", "OUT_ADJUSTMENT",
                 "OUT_TO_TECHNICIAN", "OUT_TO_BOOKING", "OUT_SCRAP"}
ReservationKinds == {"RESERVE", "RELEASE_RESERVE"}
MovementKinds == InflowKinds \cup OutflowKinds \cup ReservationKinds

Balances == [quantity: Int, reserved: Int, avgCost: Int]

PhysicalDelta(kind, n) ==
    IF kind \in InflowKinds THEN n ELSE IF kind \in OutflowKinds THEN -n ELSE 0

ReservationDelta(kind, n) ==
    IF kind = "RESERVE" THEN n ELSE IF kind = "RELEASE_RESERVE" THEN -n ELSE 0

\* What post() demands of its input before it opens a transaction: every kind
\* is an inflow, an outflow or a reservation, and each must move something.
ValidRequest(m) == m.quantity > 0

\* The three checks made against the balance the transaction has read.
Admissible(bal, m) ==
    LET nextQuantity == bal.quantity + PhysicalDelta(m.kind, m.quantity)
        nextReserved == bal.reserved + ReservationDelta(m.kind, m.quantity)
    IN  /\ m.allowNegative \/ nextQuantity >= 0
        /\ nextReserved >= 0
        /\ m.kind = "RESERVE" => nextReserved <= nextQuantity

\* Math.round(n / d) for d > 0: halves go up.
RoundedQuotient(n, d) == (2 * n + d) \div (2 * d)

\* Mutant of WeightedAvg: outflows are averaged in as well.
AveragesOutflows(bal, deltaQty, unitCost) ==
    IF bal.quantity + deltaQty <= 0 THEN unitCost
    ELSE RoundedQuotient(bal.quantity * bal.avgCost + deltaQty * unitCost,
                         bal.quantity + deltaQty)

WeightedAvg(bal, deltaQty, unitCost) ==
    IF deltaQty <= 0 THEN bal.avgCost
    ELSE IF bal.quantity + deltaQty <= 0 THEN unitCost
    ELSE RoundedQuotient(bal.quantity * bal.avgCost + deltaQty * unitCost,
                         bal.quantity + deltaQty)

After(bal, m) ==
    LET delta == PhysicalDelta(m.kind, m.quantity)
    IN  [quantity |-> bal.quantity + delta,
         reserved |-> bal.reserved + ReservationDelta(m.kind, m.quantity),
         avgCost  |-> WeightedAvg(bal, delta,
                          IF m.hasCost THEN m.unitCost ELSE bal.avgCost)]
=============================================================================
