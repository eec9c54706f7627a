------------------------------ MODULE FieldStock ------------------------------
(***************************************************************************)
(* Parts of one warehouse between the supplier and the vans: a purchase     *)
(* order and its goods receipts (PurchaseOrdersService), allocations to     *)
(* technicians with their usage, returns and reconciliation                 *)
(* (TechnicianInventoryService), and manual corrections of the count.       *)
(*                                                                         *)
(* Every operation is a READ COMMITTED transaction that reads its row       *)
(* without a lock, checks, and later increments or overwrites it by primary *)
(* key and posts to the stock account: Read, and a commit or Abort.  A      *)
(* receipt reads the order lines a second time, after it has locked the     *)
(* rows it changes, so Bump and Recount stand between.                      *)
(*                                                                         *)
(* Movements take place on the atomic stock account StockLedger implements, *)
(* as in StockTransfers, where there is a stock row to lock.  A part that   *)
(* was never stocked has none: a request that issues FOR UPDATE before the  *)
(* row appears may Look at a balance it has not locked, and overwrite the   *)
(* row with what it computed from that.                                     *)
(***************************************************************************)
EXTENDS StockMovement, FiniteSets, FiniteSetsExt, Functions

CONSTANTS
    Items,           \* the parts; the order has one line for each
    Ordered,         \* Ordered[i]: pieces ordered of i
    Opening,         \* Opening[i]: pieces on the shelf at first, where there is a row
    Allocations,     \* technician_inventory rows
    ItemOf,          \* ItemOf[a]: the part allocated by a
    Sessions,        \* concurrent requests
    NoRequest, NoRow,
    MaxEntries,      \* bound: entries of a receipt that name the same part
    MaxPieces,       \* bound: pieces of one request
    MaxCorrections   \* bound: manual corrections

Stocked == DOMAIN Opening

ASSUME FieldStockAssumption ==
    /\ IsFiniteSet(Items) /\ IsFiniteSet(Allocations) /\ IsFiniteSet(Sessions)
    /\ Ordered \in [Items -> Nat \ {0}]
    /\ Stocked \subseteq Items /\ Opening \in [Stocked -> Nat]
    /\ NoRow \notin Balances
    /\ ItemOf \in [Allocations -> Items]
    /\ MaxEntries \in Nat \ {0} /\ MaxPieces \in Nat \ {0} /\ MaxCorrections \in Nat

VARIABLES
    shelf,        \* warehouse_stocks of the warehouse: shelf[i], or NoRow
    order,        \* the purchase order: status and receivedQty of its lines
    van,          \* technician_inventory
    alert,        \* alert[a]: the alert alloc:<a>:shortfall is on record
    corrected,    \* history: net correction of each part
    corrections,  \* history: how many corrections there were
    request,      \* the request each session executes
    sight         \* what it saw where it found no stock row to lock

vars == <<shelf, order, van, alert, corrected, corrections, request, sight>>

Transitions == [DRAFT              |-> {"AWAITING_APPROVAL", "APPROVED", "CANCELLED"},
                AWAITING_APPROVAL  |-> {"APPROVED", "CANCELLED"},
                APPROVED           |-> {"ORDERED", "CANCELLED"},
                ORDERED            |-> {"PARTIALLY_RECEIVED", "RECEIVED", "CANCELLED"},
                PARTIALLY_RECEIVED |-> {"RECEIVED", "CLOSED", "CANCELLED"},
                RECEIVED           |-> {"CLOSED"},
                CANCELLED          |-> {}, CLOSED |-> {}]

Receivable == {"ORDERED", "PARTIALLY_RECEIVED"}

\* submitForApproval, approve, markOrdered, cancel; nothing closes an order.
Moves == {"AWAITING_APPROVAL", "APPROVED", "ORDERED", "CANCELLED"}

\* "ABSENT" is an allocation that nobody has made yet.
VanStatus == {"ABSENT", "ALLOCATED", "ACKNOWLEDGED", "USED", "RETURNED", "RECONCILED"}

NoBalance == [quantity |-> 0, reserved |-> 0, avgCost |-> 0]
Blank == [i \in {} |-> NoRow]

Init ==
    /\ shelf = [i \in Items |-> IF i \in Stocked THEN [NoBalance EXCEPT !.quantity = Opening[i]]
                                ELSE NoRow]
    /\ order = [status |-> "DRAFT", received |-> [i \in Items |-> 0]]
    /\ van = [a \in Allocations |->
                 [status |-> "ABSENT", allocated |-> 0, used |-> 0, returned |-> 0]]
    /\ alert = [a \in Allocations |-> FALSE]
    /\ corrected = [i \in Items |-> 0]
    /\ corrections = 0
    /\ request = [s \in Sessions |-> NoRequest]
    /\ sight = [s \in Sessions |-> Blank]

-----------------------------------------------------------------------------
(* The stock account.                                                       *)

Movement(kind, n) ==
    [kind |-> kind, quantity |-> n, hasCost |-> FALSE, unitCost |-> 0,
     allowNegative |-> kind \in {"OUT_TO_BOOKING", "IN_ADJUSTMENT", "OUT_ADJUSTMENT"}]

\* The stock rows a receipt has posted to stay locked until it ends.
LockedBy(i) == {s \in Sessions : /\ request[s] # NoRequest
                                 /\ request[s].op \in {"bumped", "recounted"}
                                 /\ request[s].pieces[i] > 0}

\* A row that is missing is created with nothing on it.  Costs play no part here.
Balance(row) == IF row = NoRow THEN NoBalance ELSE row

\* The stock row as s works on it: one it read without a lock is as it was then.
Seen(s, i) == IF i \in DOMAIN sight[s] /\ sight[s][i] # NoRow THEN sight[s][i] ELSE shelf[i]

Accepts(s, i, m) == LockedBy(i) = {} /\ Admissible(Balance(Seen(s, i)), m)
Moved(s, i, m) == After(Balance(Seen(s, i)), m)

Post(s, i, kind, n) ==
    /\ Accepts(s, i, Movement(kind, n))
    /\ shelf' = [shelf EXCEPT ![i] = Moved(s, i, Movement(kind, n))]

-----------------------------------------------------------------------------
(* Requests: what they read, and that they end.                             *)

\* Requests note the parts among these that have no stock row to lock yet.
Begin(s, r, parts) ==
    /\ request[s] = NoRequest
    /\ request' = [request EXCEPT ![s] = r]
    /\ sight' = [sight EXCEPT ![s] = [i \in {j \in parts : shelf[j] = NoRow} |-> NoRow]]
    /\ UNCHANGED <<shelf, order, van, alert, corrected, corrections>>

End(s) ==
    /\ request' = [request EXCEPT ![s] = NoRequest]
    /\ sight' = [sight EXCEPT ![s] = Blank]

Executes(s, op) == request[s] # NoRequest /\ request[s].op = op

\* FOR UPDATE came before the row and locked nothing; findUnique comes after it and
\* finds it, while others may go on posting.
Look(s, i) ==
    /\ request[s] # NoRequest /\ request[s].op \notin {"bumped", "recounted"}
    /\ i \in DOMAIN sight[s] /\ sight[s][i] = NoRow /\ shelf[i] # NoRow
    /\ sight' = [sight EXCEPT ![s][i] = shelf[i]]
    /\ UNCHANGED <<shelf, order, van, alert, corrected, corrections, request>>

\* A refusal by the stock account, a unique violation (two requests create a stock
\* row), a deadlock or a crash.
Abort(s) ==
    /\ request[s] # NoRequest
    /\ End(s)
    /\ UNCHANGED <<shelf, order, van, alert, corrected, corrections>>

-----------------------------------------------------------------------------
(* adjustStock: staff correct the count, below zero if need be.             *)

ReadAdjust(s, i, kind) ==
    /\ corrections < MaxCorrections
    /\ Begin(s, [op |-> "adjust", item |-> i, kind |-> kind], {i})

Adjust(s) ==
    /\ Executes(s, "adjust") /\ corrections < MaxCorrections
    /\ LET i == request[s].item
           kind == request[s].kind
       IN  /\ Post(s, i, kind, 1)
           /\ corrected' = [corrected EXCEPT ![i] = @ + PhysicalDelta(kind, 1)]
    /\ corrections' = corrections + 1
    /\ End(s)
    /\ UNCHANGED <<order, van, alert>>

-----------------------------------------------------------------------------
(* Purchase orders.                                                         *)

ReadMove(s, next) ==
    /\ next \in Transitions[order.status]
    /\ Begin(s, [op |-> "move", next |-> next], {})

\* transition(): written whatever the status has become.
Move(s) ==
    /\ Executes(s, "move")
    /\ order' = [order EXCEPT !.status = request[s].next]
    /\ End(s)
    /\ UNCHANGED <<shelf, van, alert, corrected, corrections>>

NamedIn(pieces) == {i \in Items : pieces[i] > 0}

\* receive(): the status, and of each line what is open, are checked on this read.
\* pieces[i] is the sum of a receipt's entries for i, each checked by itself.
ReadReceive(s, pieces) ==
    /\ order.status \in Receivable
    /\ NamedIn(pieces) # {}
    /\ \A i \in NamedIn(pieces) :
          /\ order.received[i] < Ordered[i]
          /\ pieces[i] <= MaxEntries * (Ordered[i] - order.received[i])
    /\ Begin(s, [op |-> "receive", pieces |-> pieces,
                 seen |-> order.status, next |-> order.status], NamedIn(pieces))

\* A receipt goes on, and has a status to write.
GoOn(s, op, next) ==
    /\ request' = [request EXCEPT ![s] = [op |-> op, pieces |-> @.pieces,
                                          seen |-> @.seen, next |-> next]]
    /\ UNCHANGED sight

\* The receipt's lines are posted and its order lines incremented; the rows of
\* both are locked from here on.
Bump(s) ==
    /\ Executes(s, "receive")
    /\ \A i \in NamedIn(request[s].pieces) :
          Accepts(s, i, Movement("IN_PURCHASE", request[s].pieces[i]))
    /\ GoOn(s, "bumped", request[s].seen)
    /\ UNCHANGED <<shelf, order, van, alert, corrected, corrections>>

\* Mutant of StatusFor: a full receipt of the lines it names receives the order.
StatusForNamed(received, status, pieces) ==
    IF \A i \in Items : pieces[i] > 0 => received[i] >= Ordered[i] THEN "RECEIVED"
    ELSE "PARTIALLY_RECEIVED"

StatusFor(received, status, pieces) ==
    IF \A i \in Items : received[i] >= Ordered[i] THEN "RECEIVED"
    ELSE IF \E i \in Items : received[i] > 0 THEN "PARTIALLY_RECEIVED"
    ELSE status

\* The lines are read again: one's own increments, and what others have committed.
Recount(s) ==
    /\ Executes(s, "bumped")
    /\ LET r == request[s]
           received == [i \in Items |-> order.received[i] + r.pieces[i]]
       IN  GoOn(s, "recounted", StatusFor(received, r.seen, r.pieces))
    /\ UNCHANGED <<shelf, order, van, alert, corrected, corrections>>

Receive(s) ==
    /\ Executes(s, "recounted")
    /\ LET r == request[s] IN
       /\ shelf' = [i \in Items |->
                       IF i \in NamedIn(r.pieces)
                       THEN Moved(s, i, Movement("IN_PURCHASE", r.pieces[i])) ELSE shelf[i]]
       /\ order' = [status |-> IF r.next = r.seen THEN order.status ELSE r.next,
                    received |-> [i \in Items |-> order.received[i] + r.pieces[i]]]
    /\ End(s)
    /\ UNCHANGED <<van, alert, corrected, corrections>>

-----------------------------------------------------------------------------
(* Technician stock.                                                        *)

ReadAllocate(s, a, n) ==
    /\ van[a].status = "ABSENT"
    /\ Begin(s, [op |-> "allocate", on |-> a, n |-> n], {ItemOf[a]})

\* allocate(): the row, whose id is new, and its OUT_TO_TECHNICIAN movement.
Allocate(s) ==
    /\ Executes(s, "allocate")
    /\ LET a == request[s].on IN
       /\ van[a].status = "ABSENT"
       /\ Post(s, ItemOf[a], "OUT_TO_TECHNICIAN", request[s].n)
       /\ van' = [van EXCEPT ![a] = [status |-> "ALLOCATED", allocated |-> request[s].n,
                                     used |-> 0, returned |-> 0]]
    /\ End(s)
    /\ UNCHANGED <<order, alert, corrected, corrections>>

ReadAcknowledge(s, a) ==
    /\ van[a].status = "ALLOCATED"
    /\ Begin(s, [op |-> "acknowledge", on |-> a], {})

Acknowledge(s) ==
    /\ Executes(s, "acknowledge")
    /\ van' = [van EXCEPT ![request[s].on].status = "ACKNOWLEDGED"]
    /\ End(s)
    /\ UNCHANGED <<shelf, order, alert, corrected, corrections>>

\* Mutant of Remaining: what was returned is not deducted.
RemainingOfUse(v) == v.allocated - v.used

Remaining(v) == v.allocated - v.used - v.returned

\* recordUsage() and returnStock() make the same checks on what they read.
ReadUse(s, a, op, n) ==
    /\ van[a].status \notin {"ABSENT", "RECONCILED"}
    /\ n <= Remaining(van[a])
    /\ Begin(s, [op |-> op, on |-> a, n |-> n], {ItemOf[a]})

\* Mutant of Use: the usage is booked out of the warehouse once more.
UseAgain(s) ==
    /\ Executes(s, "use")
    /\ LET a == request[s].on IN
       /\ van' = [van EXCEPT ![a] = [status |-> "USED", allocated |-> @.allocated,
                                     used |-> @.used + request[s].n,
                                     returned |-> @.returned]]
       /\ Post(s, ItemOf[a], "OUT_TO_BOOKING", request[s].n)
    /\ End(s)
    /\ UNCHANGED <<order, alert, corrected, corrections>>

\* The counter is incremented in the database; the ledger row is a trace of
\* quantity zero.
Use(s) ==
    /\ Executes(s, "use")
    /\ LET a == request[s].on IN
       /\ van' = [van EXCEPT ![a] = [status |-> "USED", allocated |-> @.allocated,
                                     used |-> @.used + request[s].n,
                                     returned |-> @.returned]]
       /\ Post(s, ItemOf[a], "OUT_TO_BOOKING", 0)
    /\ End(s)
    /\ UNCHANGED <<order, alert, corrected, corrections>>

Return(s) ==
    /\ Executes(s, "return")
    /\ LET a == request[s].on IN
       /\ van' = [van EXCEPT ![a] = [status |-> "RETURNED", allocated |-> @.allocated,
                                     used |-> @.used,
                                     returned |-> @.returned + request[s].n]]
       /\ Post(s, ItemOf[a], "IN_RETURN_TECHNICIAN", request[s].n)
    /\ End(s)
    /\ UNCHANGED <<order, alert, corrected, corrections>>

ReadReconcile(s, a) ==
    /\ van[a].status \notin {"ABSENT", "RECONCILED"}
    /\ Begin(s, [op |-> "reconcile", on |-> a, shortfall |-> Remaining(van[a])], {})

\* Mutants of Reconcile: the status of another document; one missing piece is
\* let pass.
ReconcileAsClosed(s) ==
    /\ Executes(s, "reconcile")
    /\ van' = [van EXCEPT ![request[s].on].status = "CLOSED"]
    /\ End(s)
    /\ UNCHANGED <<shelf, order, alert, corrected, corrections>>

ReconcileLeniently(s) ==
    /\ Executes(s, "reconcile")
    /\ LET r == request[s] IN
       /\ r.shortfall > 1 => ~alert[r.on]
       /\ van' = [van EXCEPT ![r.on].status = "RECONCILED"]
       /\ alert' = [alert EXCEPT ![r.on] = @ \/ r.shortfall > 1]
    /\ End(s)
    /\ UNCHANGED <<shelf, order, corrected, corrections>>

\* The shortfall is the one of the read.  An alert is raised once for an
\* allocation: its dedupeKey is unique, a second one fails the transaction.
Reconcile(s) ==
    /\ Executes(s, "reconcile")
    /\ LET r == request[s] IN
       /\ r.shortfall > 0 => ~alert[r.on]
       /\ van' = [van EXCEPT ![r.on].status = "RECONCILED"]
       /\ alert' = [alert EXCEPT ![r.on] = @ \/ r.shortfall > 0]
    /\ End(s)
    /\ UNCHANGED <<shelf, order, corrected, corrections>>

-----------------------------------------------------------------------------

Pieces == 1..MaxPieces
Corrections == {"IN_ADJUSTMENT", "OUT_ADJUSTMENT"}

OrderStep(s) ==
    \/ \E next \in Moves : ReadMove(s, next)
    \/ Move(s)
    \/ \E pieces \in [Items -> 0..MaxPieces] : ReadReceive(s, pieces)
    \/ Bump(s) \/ Recount(s) \/ Receive(s)

VanStep(s) ==
    \/ \E a \in Allocations :
          \/ \E n \in Pieces : ReadAllocate(s, a, n)
          \/ ReadAcknowledge(s, a)
          \/ \E op \in {"use", "return"}, n \in Pieces : ReadUse(s, a, op, n)
          \/ ReadReconcile(s, a)
    \/ Allocate(s) \/ Acknowledge(s) \/ Use(s) \/ Return(s) \/ Reconcile(s)

CountStep(s) ==
    \/ \E i \in Items, kind \in Corrections : ReadAdjust(s, i, kind)
    \/ Adjust(s)

Next ==
    \/ \E s \in Sessions : OrderStep(s) \/ VanStep(s) \/ CountStep(s)
    \/ \E s \in Sessions, i \in Items : Look(s, i)
    \/ \E s \in Sessions : Abort(s)

Spec == Init /\ [][Next]_vars

-----------------------------------------------------------------------------
(* Properties.                                                              *)

Requests ==
    [op : {"adjust"}, item : Items, kind : Corrections]
    \cup [op : {"move"}, next : Moves]
    \cup [op : {"receive", "bumped", "recounted"}, pieces : [Items -> Nat],
          seen : Receivable, next : DOMAIN Transitions]
    \cup [op : {"acknowledge"}, on : Allocations]
    \cup [op : {"allocate", "use", "return"}, on : Allocations, n : Nat]
    \cup [op : {"reconcile"}, on : Allocations, shortfall : Int]

\* Types of the shelf, the order, the allocations and the requests.
TypeOK ==
    /\ shelf \in [Items -> Balances \cup {NoRow}]
    /\ order \in [status : DOMAIN Transitions, received : [Items -> Nat]]
    /\ van \in [Allocations -> [status : VanStatus, allocated : Nat, used : Nat, returned : Nat]]
    /\ alert \in [Allocations -> BOOLEAN]
    /\ corrected \in [Items -> Int] /\ corrections \in Nat
    /\ request \in [Sessions -> Requests \cup {NoRequest}]
    /\ sight = [s \in Sessions |-> sight[s]]
    /\ \A s \in Sessions : /\ DOMAIN sight[s] \subseteq Items
                           /\ sight[s] \in [DOMAIN sight[s] -> Balances \cup {NoRow}]

AllocationsOf(i) == {a \in Allocations : ItemOf[a] = i}

\* The counters of the order lines and of the allocations account for every piece
\* on the shelf: what was there and was received less what is out with
\* technicians, whatever receipts, usages and returns overlap or fail.  (receive,
\* allocate, returnStock and the ledger each keep their own count.)  It is about
\* parts the warehouse has held before: of a part without a stock row the code can
\* lose a movement, and so does the model.
CountersMatchShelf ==
    \A i \in Stocked :
        /\ shelf[i] # NoRow
        /\ shelf[i].quantity =
              Opening[i] + order.received[i] + corrected[i]
              - MapThenSumSet(LAMBDA a : van[a].allocated - van[a].returned, AllocationsOf(i))

\* How far the limits fail.  purchase-orders.service.ts:23-25 has every operation
\* check "under a row lock so two approvers can't race"; there is no lock, and
\* receive() checks each entry by itself.  So an order line takes more than was
\* ordered: what every request under way can add, and no more than that.  The same
\* holds of usage and returns of an allocation (recordUsage, returnStock).
OverrunsBounded ==
    /\ \A a \in Allocations :
          van[a].used + van[a].returned <= Cardinality(Sessions) * van[a].allocated
    /\ \A i \in Items :
          order.received[i] <= Cardinality(Sessions) * (MaxEntries * Ordered[i])

\* An order is RECEIVED only when no line is open, although each receipt counts
\* only what the others had committed by then (receive).
ReceivedInFull ==
    order.status = "RECEIVED" => \A i \in Items : order.received[i] >= Ordered[i]

\* An allocation is not closed over missing pieces in silence: usage and returns
\* that commit between the read of reconcile() and its write cannot hide them.
ShortfallIsRaised ==
    \A a \in Allocations :
        van[a].status = "RECONCILED" /\ Remaining(van[a]) > 0 => alert[a]
=============================================================================
