---------------------------- MODULE MCStockLedger ----------------------------
(* A small instance of StockLedger: two warehouses that hold one item. *)
EXTENDS StockLedger

CONSTANTS shelf, depot, gasket, w1, w2, w3, refA, refB

MCCells == {shelf, depot}
MCItemOf == [c \in MCCells |-> gasket]
MCCatalogueCost == [k \in {gasket} |-> 10]

\* The shelf is stocked; the depot has never held the item.
MCOpening == [c \in {shelf} |-> [quantity |-> 1, reserved |-> 0, avgCost |-> 10]]
NoOpening == [c \in {} |-> [quantity |-> 0, reserved |-> 0, avgCost |-> 0]]

Movement(c, kind, n, cost, ref, neg) ==
    [cell |-> c, kind |-> kind, quantity |-> n, hasCost |-> cost > 0,
     unitCost |-> IF cost > 0 THEN cost ELSE 10, ref |-> ref,
     allowNegative |-> neg]

\* A receipt two callers repeat, a sale, a hold and its release, a count
\* correction with a cost of its own, and the depot's first receipts.
MCMovements ==
    {Movement(shelf, "IN_PURCHASE", 2, 13, refA, FALSE),
     Movement(shelf, "OUT_SALE", 2, 0, NoRef, FALSE),
     Movement(shelf, "RESERVE", 1, 0, refB, FALSE),
     Movement(shelf, "RELEASE_RESERVE", 1, 0, NoRef, FALSE),
     Movement(shelf, "OUT_ADJUSTMENT", 2, 40, NoRef, TRUE),
     Movement(depot, "IN_TRANSFER", 1, 0, refB, FALSE),
     Movement(depot, "IN_PURCHASE", 1, 13, NoRef, FALSE)}

ColdMovements ==
    {Movement(depot, "IN_PURCHASE", 2, 13, refA, FALSE),
     Movement(depot, "IN_RETURN_TECHNICIAN", 1, 0, NoRef, FALSE),
     Movement(depot, "OUT_SALE", 1, 0, NoRef, FALSE)}
=============================================================================
