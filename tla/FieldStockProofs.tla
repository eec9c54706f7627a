--------------------------- MODULE FieldStockProofs ---------------------------
(***************************************************************************)
(* Theorems about FieldStock, for every set of parts, allocations and      *)
(* sessions and every number of pieces: types, that an order is RECEIVED   *)
(* only in full, that a shortfall is raised, that the counters of the      *)
(* documents account for the shelf, and how far a limit that is checked on *)
(* a stale read can be overrun.                                            *)
(*                                                                         *)
(* Requests decide on rows that may have changed since, so what carries    *)
(* the second and third is monotonic: counters of an order line and of an  *)
(* allocation only grow.  A line that was full when a receipt counted it   *)
(* is full when the receipt commits, although others came between          *)
(* (ReceiptsCount); what is missing at a write is no more than what was    *)
(* missing at the read (ShortfallsCover).  The shelf is compared with a    *)
(* sum over the allocations, which moves by what the one allocation of a   *)
(* step moves by (OutChange); parts that had a stock row from the start    *)
(* are never seen without it (RowsFound).  The last counts what a session  *)
(* is about to add, with one token for each piece (LimitsHeld).            *)
(***************************************************************************)
EXTENDS FieldStock, FiniteSetTheorems, WellFoundedInduction, TLAPS

OrderStatus == {"DRAFT", "AWAITING_APPROVAL", "APPROVED", "ORDERED", "PARTIALLY_RECEIVED",
                "RECEIVED", "CANCELLED", "CLOSED"}

OrderShape == [status : OrderStatus, received : [Items -> Nat]]
VanShape == [status : VanStatus, allocated : Nat, used : Nat, returned : Nat]
Rows == Balances \cup {NoRow}

IsSight(v) == DOMAIN v \subseteq Items /\ v \in [DOMAIN v -> Rows]
AreSights(f) == f = [s \in Sessions |-> f[s]] /\ \A s \in Sessions : IsSight(f[s])

\* The transition table names every status.
LEMMA StatusNames == DOMAIN Transitions = OrderStatus
BY DEF Transitions, OrderStatus

\* TypeOK, with the shapes by name.
LEMMA TypeParts ==
  TypeOK <=>
    /\ shelf \in [Items -> Rows] /\ order \in OrderShape
    /\ van \in [Allocations -> VanShape] /\ alert \in [Allocations -> BOOLEAN]
    /\ corrected \in [Items -> Int] /\ corrections \in Nat
    /\ request \in [Sessions -> Requests \cup {NoRequest}] /\ AreSights(sight)
BY StatusNames DEF TypeOK, OrderShape, VanShape, Rows, AreSights, IsSight

\* The same in the next state.
LEMMA NextTypeParts ==
  TypeOK' <=>
    /\ shelf' \in [Items -> Rows] /\ order' \in OrderShape
    /\ van' \in [Allocations -> VanShape] /\ alert' \in [Allocations -> BOOLEAN]
    /\ corrected' \in [Items -> Int] /\ corrections' \in Nat
    /\ request' \in [Sessions -> Requests \cup {NoRequest}] /\ AreSights(sight')
BY StatusNames DEF TypeOK, OrderShape, VanShape, Rows, AreSights, IsSight

-----------------------------------------------------------------------------
(* Requests, by what they do.                                               *)

AdjustRequests == [op : {"adjust"}, item : Items, kind : Corrections]
MoveRequests == [op : {"move"}, next : Moves]
ReceiptRequests == [op : {"receive", "bumped", "recounted"}, pieces : [Items -> Nat],
                    seen : Receivable, next : OrderStatus]
AckRequests == [op : {"acknowledge"}, on : Allocations]
UseRequests == [op : {"allocate", "use", "return"}, on : Allocations, n : Nat]
ReconcileRequests == [op : {"reconcile"}, on : Allocations, shortfall : Int]

\* A request is one of six kinds.
LEMMA RequestKinds ==
  Requests = AdjustRequests \cup MoveRequests \cup ReceiptRequests \cup AckRequests \cup UseRequests
             \cup ReconcileRequests
BY StatusNames DEF Requests, AdjustRequests, MoveRequests, ReceiptRequests, AckRequests,
                   UseRequests, ReconcileRequests

\* What a session executes says what its request holds.
LEMMA RequestTypes ==
  ASSUME TypeOK, NEW s \in Sessions, NEW op, Executes(s, op)
  PROVE  /\ op = "adjust" => request[s] \in AdjustRequests
         /\ op = "move" => request[s] \in MoveRequests
         /\ op \in {"receive", "bumped", "recounted"} => request[s] \in ReceiptRequests
         /\ op = "acknowledge" => request[s] \in AckRequests
         /\ op \in {"allocate", "use", "return"} => request[s] \in UseRequests
         /\ op = "reconcile" => request[s] \in ReconcileRequests
<1>1. request[s] \in Requests /\ request[s].op = op
  BY TypeParts DEF Executes
<1> QED
  BY <1>1, RequestKinds DEF AdjustRequests, MoveRequests, ReceiptRequests, AckRequests,
                            UseRequests, ReconcileRequests

\* A request begins, ends or goes on in one session only.
LEMMA RequestChanges ==
  ASSUME TypeOK, NEW s \in Sessions, NEW r \in Requests \cup {NoRequest},
         request' = [request EXCEPT ![s] = r]
  PROVE  /\ request' \in [Sessions -> Requests \cup {NoRequest}]
         /\ request'[s] = r /\ \A q \in Sessions \ {s} : request'[q] = request[q]
BY TypeParts

\* So does what a session saw.
LEMMA SightChanges ==
  ASSUME TypeOK, NEW s \in Sessions, NEW v, IsSight(v), sight' = [sight EXCEPT ![s] = v]
  PROVE  /\ AreSights(sight')
         /\ sight'[s] = v /\ \A q \in Sessions \ {s} : sight'[q] = sight[q]
<1>1. sight = [q \in Sessions |-> sight[q]] /\ \A q \in Sessions : IsSight(sight[q])
  BY TypeParts DEF AreSights
<1>2. sight' = [q \in Sessions |-> IF q = s THEN v ELSE sight[q]]
  BY <1>1
<1> QED
  BY <1>1, <1>2 DEF AreSights

\* What reading does.
LEMMA BeginDoes ==
  ASSUME TypeOK, NEW s \in Sessions, NEW r, NEW parts, Begin(s, r, parts)
  PROVE  /\ request[s] = NoRequest /\ request'[s] = r
         /\ \A q \in Sessions \ {s} : request'[q] = request[q]
         /\ order' = order /\ van' = van
BY TypeParts DEF Begin

\* What ending does.
LEMMA EndDoes ==
  ASSUME TypeOK, NEW s \in Sessions, End(s)
  PROVE  request'[s] = NoRequest /\ \A q \in Sessions \ {s} : request'[q] = request[q]
BY TypeParts DEF End

-----------------------------------------------------------------------------
(* The stock account.                                                       *)

\* What a session sees of a stock row is a balance, a new one if there is no row.
LEMMA SeenType ==
  ASSUME TypeOK, NEW s \in Sessions, NEW i \in Items
  PROVE  Seen(s, i) \in Rows /\ Balance(Seen(s, i)) \in Balances
<1>1. shelf[i] \in Rows /\ IsSight(sight[s])
  BY TypeParts DEF AreSights
<1>2. Seen(s, i) \in Rows
  BY <1>1 DEF Seen, IsSight
<1>3. NoBalance \in Balances
  BY DEF NoBalance, Balances
<1> QED
  BY <1>2, <1>3 DEF Balance, Rows

\* A movement takes a balance to a balance.
LEMMA AfterType ==
  ASSUME NEW bal \in Balances, NEW kind, NEW n \in Nat
  PROVE  After(bal, Movement(kind, n)) \in Balances
<1> DEFINE m == Movement(kind, n)
           delta == PhysicalDelta(kind, n)
<1>1. /\ bal.quantity \in Int /\ bal.reserved \in Int /\ bal.avgCost \in Int
      /\ m.kind = kind /\ m.quantity = n /\ m.hasCost = FALSE
  BY DEF Balances, Movement
<1>2. delta \in Int /\ ReservationDelta(kind, n) \in Int
  BY DEF PhysicalDelta, ReservationDelta
<1>3. ASSUME NEW a \in Int, NEW b \in Int, b > 0
      PROVE  a \div b \in Int
  BY <1>3
<1>4. WeightedAvg(bal, delta, bal.avgCost) \in Int
  <2> HIDE DEF delta
  <2>1. CASE delta <= 0 \/ bal.quantity + delta <= 0
    BY <1>1, <1>2, <2>1 DEF WeightedAvg
  <2>2. CASE ~(delta <= 0 \/ bal.quantity + delta <= 0)
    <3> DEFINE value == bal.quantity * bal.avgCost + delta * bal.avgCost
               pieces == bal.quantity + delta
    <3>1. value \in Int /\ pieces \in Int /\ pieces > 0
      BY <1>1, <1>2, <2>2
    <3>2. WeightedAvg(bal, delta, bal.avgCost) = RoundedQuotient(value, pieces)
      BY <2>2 DEF WeightedAvg
    <3> HIDE DEF value, pieces
    <3>3. 2 * value + pieces \in Int /\ 2 * pieces \in Int /\ 2 * pieces > 0
      BY <3>1
    <3>4. RoundedQuotient(value, pieces) \in Int
      BY <1>3, <3>3 DEF RoundedQuotient
    <3> QED
      BY <3>2, <3>4
  <2> QED
    BY <2>1, <2>2
<1>5. After(bal, m) = [quantity |-> bal.quantity + delta,
                       reserved |-> bal.reserved + ReservationDelta(kind, n),
                       avgCost |-> WeightedAvg(bal, delta, bal.avgCost)]
  BY <1>1 DEF After
<1> HIDE DEF m, delta
<1> QED
  BY <1>1, <1>2, <1>4, <1>5 DEF Balances, m

\* A movement leaves a balance.
LEMMA MovedType ==
  ASSUME TypeOK, NEW s \in Sessions, NEW i \in Items, NEW kind, NEW n \in Nat
  PROVE  Moved(s, i, Movement(kind, n)) \in Balances
BY SeenType, AfterType DEF Moved

\* A post changes one row.
LEMMA PostType ==
  ASSUME TypeOK, NEW s \in Sessions, NEW i \in Items, NEW kind, NEW n \in Nat,
         Post(s, i, kind, n)
  PROVE  shelf' \in [Items -> Rows]
BY TypeParts, MovedType DEF Post, Rows

-----------------------------------------------------------------------------
(* Types.                                                                   *)

\* The initial state has its types.
LEMMA InitType == Init => TypeOK
<1> SUFFICES ASSUME Init PROVE TypeOK
  OBVIOUS
<1>1. shelf \in [Items -> Rows]
  <2>1. \A i \in Stocked : [NoBalance EXCEPT !.quantity = Opening[i]] \in Balances
    BY FieldStockAssumption DEF NoBalance, Balances
  <2> QED
    BY <2>1 DEF Init, Rows
<1>2. order \in OrderShape
  BY DEF Init, OrderShape, OrderStatus
<1>3. van \in [Allocations -> VanShape]
  BY DEF Init, VanShape, VanStatus
<1>4. AreSights(sight)
  BY DEF Init, AreSights, IsSight, Blank
<1> QED
  BY <1>1, <1>2, <1>3, <1>4, TypeParts DEF Init

\* An ended request leaves the types of the others.
LEMMA EndType ==
  ASSUME TypeOK, NEW s \in Sessions, End(s)
  PROVE  request' \in [Sessions -> Requests \cup {NoRequest}] /\ AreSights(sight')
<1>1. IsSight(Blank)
  BY DEF IsSight, Blank
<1> QED
  BY <1>1, RequestChanges, SightChanges DEF End

\* A request that begins keeps the types.
LEMMA BeginType ==
  ASSUME TypeOK, NEW s \in Sessions, NEW r \in Requests, NEW parts \in SUBSET Items,
         Begin(s, r, parts)
  PROVE  TypeOK'
<1> DEFINE v == [i \in {j \in parts : shelf[j] = NoRow} |-> NoRow]
<1>1. IsSight(v)
  BY DEF IsSight, Rows
<1>2. sight' = [sight EXCEPT ![s] = v]
  BY DEF Begin
<1> HIDE DEF v
<1>3. AreSights(sight')
  BY <1>1, <1>2, SightChanges
<1>4. request' \in [Sessions -> Requests \cup {NoRequest}]
  BY RequestChanges DEF Begin
<1> QED
  BY <1>3, <1>4, TypeParts, NextTypeParts DEF Begin

\* The steps of the order keep the types.
LEMMA OrderTypes ==
  ASSUME TypeOK, NEW s \in Sessions, OrderStep(s)
  PROVE  TypeOK'
<1> USE TypeParts, FieldStockAssumption
<1>1. ASSUME NEW next \in Moves, ReadMove(s, next) PROVE TypeOK'
  <2>1. [op |-> "move", next |-> next] \in Requests
    BY RequestKinds DEF MoveRequests
  <2>2. Begin(s, [op |-> "move", next |-> next], {})
    BY <1>1 DEF ReadMove
  <2> QED
    BY <2>1, <2>2, BeginType
<1>2. CASE Move(s)
  <2>1. request[s].next \in OrderStatus
    BY <1>2, RequestTypes DEF Move, MoveRequests, Moves, OrderStatus
  <2>2. order' \in OrderShape
    BY <1>2, <2>1 DEF Move, OrderShape
  <2> QED
    BY <1>2, <2>2, EndType, NextTypeParts DEF Move
<1>3. ASSUME NEW pieces \in [Items -> 0..MaxPieces], ReadReceive(s, pieces) PROVE TypeOK'
  <2> DEFINE r == [op |-> "receive", pieces |-> pieces, seen |-> order.status,
                   next |-> order.status]
  <2>1. order.status \in Receivable /\ order.status \in OrderStatus
    BY <1>3 DEF ReadReceive, OrderShape
  <2>2. pieces \in [Items -> Nat]
    OBVIOUS
  <2>3. r \in Requests
    BY <2>1, <2>2, RequestKinds DEF ReceiptRequests
  <2>4. Begin(s, r, NamedIn(pieces)) /\ NamedIn(pieces) \subseteq Items
    BY <1>3 DEF ReadReceive, NamedIn
  <2> HIDE DEF r
  <2> QED
    BY <2>3, <2>4, BeginType
<1>4. ASSUME NEW op \in {"bumped", "recounted"}, NEW next \in OrderStatus,
             request[s] \in ReceiptRequests, GoOn(s, op, next),
             UNCHANGED <<shelf, order, van, alert, corrected, corrections>>
      PROVE  TypeOK'
  <2> DEFINE r == [op |-> op, pieces |-> request[s].pieces, seen |-> request[s].seen,
                   next |-> next]
  <2>1. r \in Requests
    BY <1>4, RequestKinds DEF ReceiptRequests
  <2>2. request' = [request EXCEPT ![s] = r] /\ sight' = sight
    BY <1>4 DEF GoOn
  <2> HIDE DEF r
  <2> QED
    BY <1>4, <2>1, <2>2, RequestChanges, NextTypeParts
<1>5. CASE Bump(s)
  <2>1. request[s] \in ReceiptRequests
    BY <1>5, RequestTypes DEF Bump
  <2>2. request[s].seen \in OrderStatus
    BY <2>1 DEF ReceiptRequests, Receivable, OrderStatus
  <2> QED
    BY <1>4, <1>5, <2>1, <2>2 DEF Bump
<1>6. CASE Recount(s)
  <2>1. request[s] \in ReceiptRequests
    BY <1>6, RequestTypes DEF Recount
  <2>2. request[s].seen \in OrderStatus
    BY <2>1 DEF ReceiptRequests, Receivable, OrderStatus
  <2>3. \E next \in OrderStatus : GoOn(s, "recounted", next)
    <3> DEFINE received == [i \in Items |-> order.received[i] + request[s].pieces[i]]
    <3>1. GoOn(s, "recounted", StatusFor(received, request[s].seen, request[s].pieces))
      BY <1>6 DEF Recount
    <3>2. StatusFor(received, request[s].seen, request[s].pieces) \in OrderStatus
      BY <2>2 DEF StatusFor, OrderStatus
    <3> QED
      BY <3>1, <3>2
  <2> QED
    BY <1>4, <1>6, <2>1, <2>3 DEF Recount
<1>7. CASE Receive(s)
  <2> DEFINE r == request[s]
  <2>1. r \in ReceiptRequests
    BY <1>7, RequestTypes DEF Receive
  <2>2. r.pieces \in [Items -> Nat] /\ r.next \in OrderStatus
    BY <2>1 DEF ReceiptRequests
  <2>3. shelf' = [i \in Items |->
                    IF i \in NamedIn(r.pieces)
                    THEN Moved(s, i, Movement("IN_PURCHASE", r.pieces[i])) ELSE shelf[i]]
    BY <1>7 DEF Receive
  <2>4. order' = [status |-> IF r.next = r.seen THEN order.status ELSE r.next,
                  received |-> [i \in Items |-> order.received[i] + r.pieces[i]]]
    BY <1>7 DEF Receive
  <2> HIDE DEF r
  <2>5. shelf' \in [Items -> Rows]
    BY <2>2, <2>3, MovedType DEF Rows
  <2>6. order' \in OrderShape
    BY <2>2, <2>4 DEF OrderShape
  <2> QED
    BY <1>7, <2>5, <2>6, EndType, NextTypeParts DEF Receive
<1> QED
  BY <1>1, <1>2, <1>3, <1>5, <1>6, <1>7 DEF OrderStep

\* The steps of the allocations keep the types.
LEMMA VanTypes ==
  ASSUME TypeOK, NEW s \in Sessions, VanStep(s)
  PROVE  TypeOK'
<1> USE TypeParts, FieldStockAssumption
<1>1. ASSUME NEW a \in Allocations, NEW n \in Pieces, ReadAllocate(s, a, n) PROVE TypeOK'
  <2>1. [op |-> "allocate", on |-> a, n |-> n] \in Requests
    BY RequestKinds DEF UseRequests, Pieces
  <2>2. Begin(s, [op |-> "allocate", on |-> a, n |-> n], {ItemOf[a]}) /\ ItemOf[a] \in Items
    BY <1>1 DEF ReadAllocate
  <2> QED
    BY <2>1, <2>2, BeginType
<1>2. ASSUME NEW a \in Allocations, ReadAcknowledge(s, a) PROVE TypeOK'
  <2>1. [op |-> "acknowledge", on |-> a] \in Requests
    BY RequestKinds DEF AckRequests
  <2>2. Begin(s, [op |-> "acknowledge", on |-> a], {})
    BY <1>2 DEF ReadAcknowledge
  <2> QED
    BY <2>1, <2>2, BeginType
<1>3. ASSUME NEW a \in Allocations, NEW op \in {"use", "return"}, NEW n \in Pieces,
             ReadUse(s, a, op, n)
      PROVE  TypeOK'
  <2>1. [op |-> op, on |-> a, n |-> n] \in Requests
    BY RequestKinds DEF UseRequests, Pieces
  <2>2. Begin(s, [op |-> op, on |-> a, n |-> n], {ItemOf[a]}) /\ ItemOf[a] \in Items
    BY <1>3 DEF ReadUse
  <2> QED
    BY <2>1, <2>2, BeginType
<1>4. ASSUME NEW a \in Allocations, ReadReconcile(s, a) PROVE TypeOK'
  <2>1. Remaining(van[a]) \in Int
    BY DEF Remaining, VanShape
  <2>2. [op |-> "reconcile", on |-> a, shortfall |-> Remaining(van[a])] \in Requests
    BY <2>1, RequestKinds DEF ReconcileRequests
  <2>3. Begin(s, [op |-> "reconcile", on |-> a, shortfall |-> Remaining(van[a])], {})
    BY <1>4 DEF ReadReconcile
  <2> QED
    BY <2>2, <2>3, BeginType
<1>5. CASE Acknowledge(s)
  <2>1. request[s].on \in Allocations
    BY <1>5, RequestTypes DEF Acknowledge, AckRequests
  <2>2. PICK a \in Allocations : van' = [van EXCEPT ![a].status = "ACKNOWLEDGED"]
    BY <1>5, <2>1 DEF Acknowledge
  <2>3. [van[a] EXCEPT !.status = "ACKNOWLEDGED"] \in VanShape
    BY DEF VanShape, VanStatus
  <2>4. van' \in [Allocations -> VanShape]
    BY <2>2, <2>3
  <2> QED
    BY <1>5, <2>4, EndType, NextTypeParts DEF Acknowledge
<1>6. CASE Use(s)
  <2>1. request[s] \in UseRequests
    BY <1>6, RequestTypes DEF Use
  <2>2. PICK a \in Allocations, n \in Nat : a = request[s].on /\ n = request[s].n
    BY <2>1 DEF UseRequests
  <2>3. /\ van' = [van EXCEPT ![a] = [status |-> "USED", allocated |-> @.allocated,
                                      used |-> @.used + n, returned |-> @.returned]]
        /\ Post(s, ItemOf[a], "OUT_TO_BOOKING", 0)
    BY <1>6, <2>2 DEF Use
  <2>4. van' \in [Allocations -> VanShape]
    BY <2>3 DEF VanShape, VanStatus
  <2>5. shelf' \in [Items -> Rows]
    BY <2>3, PostType
  <2> QED
    BY <1>6, <2>4, <2>5, EndType, NextTypeParts DEF Use
<1>7. CASE Return(s)
  <2>1. request[s] \in UseRequests
    BY <1>7, RequestTypes DEF Return
  <2>2. PICK a \in Allocations, n \in Nat : a = request[s].on /\ n = request[s].n
    BY <2>1 DEF UseRequests
  <2>3. /\ van' = [van EXCEPT ![a] = [status |-> "RETURNED", allocated |-> @.allocated,
                                      used |-> @.used, returned |-> @.returned + n]]
        /\ Post(s, ItemOf[a], "IN_RETURN_TECHNICIAN", n)
    BY <1>7, <2>2 DEF Return
  <2>4. van' \in [Allocations -> VanShape]
    BY <2>3 DEF VanShape, VanStatus
  <2>5. shelf' \in [Items -> Rows]
    BY <2>3, PostType
  <2> QED
    BY <1>7, <2>4, <2>5, EndType, NextTypeParts DEF Return
<1>8. CASE Reconcile(s)
  <2>1. request[s] \in ReconcileRequests
    BY <1>8, RequestTypes DEF Reconcile
  <2>2. PICK a \in Allocations, m \in Int : a = request[s].on /\ m = request[s].shortfall
    BY <2>1 DEF ReconcileRequests
  <2>3. /\ van' = [van EXCEPT ![a].status = "RECONCILED"]
        /\ alert' = [alert EXCEPT ![a] = @ \/ m > 0]
    BY <1>8, <2>2 DEF Reconcile
  <2>4. van' \in [Allocations -> VanShape]
    <3>1. [van[a] EXCEPT !.status = "RECONCILED"] \in VanShape
      BY DEF VanShape, VanStatus
    <3> QED
      BY <2>3, <3>1
  <2>5. alert' \in [Allocations -> BOOLEAN]
    BY <2>3
  <2> QED
    BY <1>8, <2>4, <2>5, EndType, NextTypeParts DEF Reconcile
<1>9. CASE Allocate(s)
  <2>1. request[s] \in UseRequests
    BY <1>9, RequestTypes DEF Allocate
  <2>2. PICK a \in Allocations, n \in Nat : a = request[s].on /\ n = request[s].n
    BY <2>1 DEF UseRequests
  <2>3. /\ van' = [van EXCEPT ![a] = [status |-> "ALLOCATED", allocated |-> n,
                                      used |-> 0, returned |-> 0]]
        /\ Post(s, ItemOf[a], "OUT_TO_TECHNICIAN", n)
    BY <1>9, <2>2 DEF Allocate
  <2>4. van' \in [Allocations -> VanShape]
    BY <2>3 DEF VanShape, VanStatus
  <2>5. shelf' \in [Items -> Rows]
    BY <2>3, PostType
  <2> QED
    BY <1>9, <2>4, <2>5, EndType, NextTypeParts DEF Allocate
<1> QED
  BY <1>1, <1>2, <1>3, <1>4, <1>5, <1>6, <1>7, <1>8, <1>9 DEF VanStep

\* Every step keeps the types.
LEMMA NextType == TypeOK /\ [Next]_vars => TypeOK'
<1> SUFFICES ASSUME TypeOK, [Next]_vars PROVE TypeOK'
  OBVIOUS
<1> USE TypeParts, FieldStockAssumption
<1>1. CASE UNCHANGED vars
  BY <1>1 DEF TypeOK, vars
<1>2. ASSUME NEW s \in Sessions, Abort(s) PROVE TypeOK'
  BY <1>2, EndType, NextTypeParts DEF Abort
<1>3. ASSUME NEW s \in Sessions, NEW i \in Items, NEW kind \in Corrections,
             ReadAdjust(s, i, kind)
      PROVE  TypeOK'
  <2>1. [op |-> "adjust", item |-> i, kind |-> kind] \in Requests
    BY RequestKinds DEF AdjustRequests
  <2>2. Begin(s, [op |-> "adjust", item |-> i, kind |-> kind], {i})
    BY <1>3 DEF ReadAdjust
  <2> QED
    BY <2>1, <2>2, BeginType
<1>4. ASSUME NEW s \in Sessions, Adjust(s) PROVE TypeOK'
  <2>1. request[s] \in AdjustRequests
    BY <1>4, RequestTypes DEF Adjust
  <2>2. PICK i \in Items, kind \in Corrections : i = request[s].item /\ kind = request[s].kind
    BY <2>1 DEF AdjustRequests
  <2>3. /\ Post(s, i, kind, 1) /\ End(s) /\ corrections' = corrections + 1
        /\ corrected' = [corrected EXCEPT ![i] = @ + PhysicalDelta(kind, 1)]
    BY <1>4, <2>2 DEF Adjust
  <2>4. shelf' \in [Items -> Rows]
    BY <2>3, PostType
  <2>5. PhysicalDelta(kind, 1) \in Int
    BY DEF PhysicalDelta
  <2>6. corrected' \in [Items -> Int] /\ corrections' \in Nat
    BY <2>3, <2>5
  <2> QED
    BY <1>4, <2>3, <2>4, <2>6, EndType, NextTypeParts DEF Adjust
<1>5. ASSUME NEW s \in Sessions, NEW i \in Items, Look(s, i) PROVE TypeOK'
  <2> DEFINE v == [sight[s] EXCEPT ![i] = shelf[i]]
  <2>1. IsSight(sight[s]) /\ shelf[i] \in Rows
    BY DEF AreSights
  <2>2. IsSight(v)
    BY <2>1 DEF IsSight
  <2>3. sight' = [sight EXCEPT ![s] = v]
    BY <1>5 DEF Look
  <2> HIDE DEF v
  <2>4. AreSights(sight')
    BY <2>2, <2>3, SightChanges
  <2> QED
    BY <1>5, <2>4, NextTypeParts DEF Look
<1> QED
  BY <1>1, <1>2, <1>3, <1>4, <1>5, OrderTypes, VanTypes DEF Next, CountStep

\* Every reachable state has its types: TypeOK of FieldStock.
THEOREM TypeCorrect == Spec => []TypeOK
<1> QED
  BY InitType, NextType, PTL DEF Spec

-----------------------------------------------------------------------------
(* Receipts.                                                                *)

\* A receipt that is to mark the order RECEIVED has every line full with its own
\* pieces, whatever the order has become.
ReceiptsCount ==
    \A s \in Sessions :
        Executes(s, "recounted") /\ request[s].next = "RECEIVED" =>
            \A i \in Items : order.received[i] + request[s].pieces[i] >= Ordered[i]

\* A request that is not there, or begins, or is of another kind, has nothing to count.
LEMMA CountsRemain ==
  ASSUME TypeOK, ReceiptsCount, NEW s \in Sessions,
         \A q \in Sessions \ {s} : request'[q] = request[q],
         \A i \in Items : order'.received[i] >= order.received[i],
         \A i \in Items : order'.received[i] \in Nat,
         \/ request'[s] = request[s] \/ request'[s] = NoRequest
         \/ request'[s].op # "recounted"
  PROVE  ReceiptsCount'
<1> SUFFICES ASSUME NEW q \in Sessions, Executes(q, "recounted")',
                    request'[q].next = "RECEIVED", NEW i \in Items
             PROVE  order'.received[i] + request'[q].pieces[i] >= Ordered[i]
  BY DEF ReceiptsCount
<1>1. request'[q] = request[q] /\ Executes(q, "recounted")
  BY DEF Executes
<1>2. order.received[i] + request[q].pieces[i] >= Ordered[i]
  BY <1>1 DEF ReceiptsCount
<1>3. request[q].pieces[i] \in Nat
  BY <1>1, RequestTypes DEF ReceiptRequests
<1>4. /\ order.received[i] \in Nat /\ order'.received[i] >= order.received[i]
      /\ order'.received[i] \in Nat /\ Ordered[i] \in Nat
  BY TypeParts, FieldStockAssumption DEF OrderShape
<1> QED
  BY <1>1, <1>2, <1>3, <1>4

\* What a step that is not the order's does to the requests.
LEMMA RequestsAside ==
  ASSUME TypeOK, NEW s \in Sessions, VanStep(s) \/ CountStep(s) \/ Abort(s)
  PROVE  /\ order' = order
         /\ \A q \in Sessions \ {s} : request'[q] = request[q]
         /\ request'[s] = NoRequest \/ request'[s].op # "recounted"
<1>1. ASSUME NEW r, NEW parts, Begin(s, r, parts), r.op # "recounted"
      PROVE  /\ order' = order
             /\ \A q \in Sessions \ {s} : request'[q] = request[q]
             /\ request'[s] = NoRequest \/ request'[s].op # "recounted"
  BY <1>1, BeginDoes
<1>2. ASSUME End(s), order' = order
      PROVE  /\ order' = order
             /\ \A q \in Sessions \ {s} : request'[q] = request[q]
             /\ request'[s] = NoRequest \/ request'[s].op # "recounted"
  BY <1>2, EndDoes
<1>3. CASE Acknowledge(s) \/ Use(s) \/ Return(s) \/ Reconcile(s) \/ Allocate(s) \/ Adjust(s)
           \/ Abort(s)
  <2>1. End(s) /\ order' = order
    BY <1>3 DEF Acknowledge, Use, Return, Reconcile, Allocate, Adjust, Abort
  <2> QED
    BY <1>2, <2>1
<1>4. CASE \E a \in Allocations :
              \/ \E n \in Pieces : ReadAllocate(s, a, n)
              \/ ReadAcknowledge(s, a)
              \/ \E op \in {"use", "return"}, n \in Pieces : ReadUse(s, a, op, n)
              \/ ReadReconcile(s, a)
  <2>1. ASSUME NEW a \in Allocations, NEW n \in Pieces, NEW op \in {"use", "return"},
               ReadAllocate(s, a, n) \/ ReadUse(s, a, op, n)
        PROVE  \E r, parts : Begin(s, r, parts) /\ r.op # "recounted"
    BY <2>1 DEF ReadAllocate, ReadUse
  <2>2. ASSUME NEW a \in Allocations, ReadAcknowledge(s, a) \/ ReadReconcile(s, a)
        PROVE  \E r, parts : Begin(s, r, parts) /\ r.op # "recounted"
    BY <2>2 DEF ReadAcknowledge, ReadReconcile
  <2>3. \E r, parts : Begin(s, r, parts) /\ r.op # "recounted"
    BY <1>4, <2>1, <2>2
  <2> QED
    BY <1>1, <2>3
<1>5. CASE \E i \in Items, kind \in Corrections : ReadAdjust(s, i, kind)
  BY <1>1, <1>5 DEF ReadAdjust
<1> QED
  BY <1>3, <1>4, <1>5 DEF VanStep, CountStep

\* An order stays as it is, or is RECEIVED with every line full.
LEMMA ReceivedStep ==
  TypeOK /\ ReceiptsCount /\ ReceivedInFull /\ [Next]_vars => ReceiptsCount' /\ ReceivedInFull'
<1> SUFFICES ASSUME TypeOK, ReceiptsCount, ReceivedInFull, [Next]_vars
             PROVE  ReceiptsCount' /\ ReceivedInFull'
  OBVIOUS
<1>0. /\ order \in OrderShape /\ order.status \in OrderStatus
      /\ \A i \in Items : order.received[i] \in Nat /\ Ordered[i] \in Nat
  BY TypeParts, FieldStockAssumption DEF OrderShape
<1>1. ASSUME UNCHANGED <<order, request>> PROVE ReceiptsCount' /\ ReceivedInFull'
  BY <1>1 DEF ReceiptsCount, ReceivedInFull, Executes
<1>2. ASSUME NEW s \in Sessions, order' = order,
             \A q \in Sessions \ {s} : request'[q] = request[q],
             request'[s] = NoRequest \/ request'[s].op # "recounted"
      PROVE  ReceiptsCount' /\ ReceivedInFull'
  BY <1>0, <1>2, CountsRemain DEF ReceivedInFull
<1>3. ASSUME NEW s \in Sessions, OrderStep(s) PROVE ReceiptsCount' /\ ReceivedInFull'
  <2>1. ASSUME NEW next \in Moves, ReadMove(s, next) PROVE ReceiptsCount' /\ ReceivedInFull'
    BY <1>2, <2>1, TypeParts DEF ReadMove, Begin
  <2>2. ASSUME NEW pieces \in [Items -> 0..MaxPieces], ReadReceive(s, pieces)
        PROVE  ReceiptsCount' /\ ReceivedInFull'
    BY <1>2, <2>2, TypeParts DEF ReadReceive, Begin
  <2>3. CASE Bump(s)
    BY <1>2, <2>3, TypeParts DEF Bump, GoOn
  <2>4. CASE Move(s)
    <3>1. request[s].next # "RECEIVED"
      BY <2>4, RequestTypes DEF Move, MoveRequests, Moves
    <3>2. order'.status = request[s].next /\ order'.received = order.received
      BY <1>0, <2>4 DEF Move, OrderShape
    <3>3. \A q \in Sessions \ {s} : request'[q] = request[q]
      BY <2>4, TypeParts DEF Move, End
    <3>4. request'[s] = NoRequest
      BY <2>4, TypeParts DEF Move, End
    <3>5. ReceiptsCount'
      BY <1>0, <3>2, <3>3, <3>4, CountsRemain
    <3> QED
      BY <3>1, <3>2, <3>5 DEF ReceivedInFull
  <2>5. CASE Recount(s)
    <3> DEFINE received == [i \in Items |-> order.received[i] + request[s].pieces[i]]
               next == StatusFor(received, request[s].seen, request[s].pieces)
    <3>1. GoOn(s, "recounted", next) /\ order' = order
      BY <2>5 DEF Recount
    <3>2. request[s].seen # "RECEIVED"
      BY <2>5, RequestTypes DEF Recount, ReceiptRequests, Receivable
    <3>3. next = "RECEIVED" =>
            \A i \in Items : order.received[i] + request[s].pieces[i] >= Ordered[i]
      BY <3>2 DEF StatusFor
    <3> HIDE DEF next
    <3>4. /\ request'[s].next = next /\ request'[s].pieces = request[s].pieces
          /\ \A q \in Sessions \ {s} : request'[q] = request[q]
      BY <3>1, TypeParts DEF GoOn
    <3>5. ASSUME NEW q \in Sessions, Executes(q, "recounted")', request'[q].next = "RECEIVED"
          PROVE  \A i \in Items : order'.received[i] + request'[q].pieces[i] >= Ordered[i]
      <4>1. CASE q = s
        BY <3>1, <3>3, <3>4, <3>5, <4>1
      <4>2. CASE q # s
        BY <3>1, <3>4, <3>5, <4>2 DEF ReceiptsCount, Executes
      <4> QED
        BY <4>1, <4>2
    <3>6. ReceiptsCount'
      BY <3>5 DEF ReceiptsCount
    <3> QED
      BY <3>1, <3>6 DEF ReceivedInFull
  <2>6. CASE Receive(s)
    <3>1. request[s] \in ReceiptRequests
      BY <2>6, RequestTypes DEF Receive
    <3>2. \A i \in Items : request[s].pieces[i] \in Nat
      BY <3>1 DEF ReceiptRequests
    <3>3. /\ order'.status = IF request[s].next = request[s].seen THEN order.status
                             ELSE request[s].next
          /\ \A i \in Items : order'.received[i] = order.received[i] + request[s].pieces[i]
      BY <2>6 DEF Receive
    <3>4. \A q \in Sessions \ {s} : request'[q] = request[q]
      BY <2>6, TypeParts DEF Receive, End
    <3>5. request'[s] = NoRequest
      BY <2>6, TypeParts DEF Receive, End
    <3>6. \A i \in Items : order'.received[i] >= order.received[i] /\ order'.received[i] \in Nat
      BY <1>0, <3>2, <3>3
    <3>7. ReceiptsCount'
      BY <3>4, <3>5, <3>6, CountsRemain
    <3>8. ReceivedInFull'
      <4>1. CASE order'.status = order.status
        BY <1>0, <3>6, <4>1 DEF ReceivedInFull
      <4>2. CASE order'.status # order.status
        <5>1. request[s].next = "RECEIVED" =>
                \A i \in Items : order.received[i] + request[s].pieces[i] >= Ordered[i]
          BY <2>6 DEF Receive, ReceiptsCount
        <5> QED
          BY <3>3, <4>2, <5>1 DEF ReceivedInFull
      <4> QED
        BY <4>1, <4>2
    <3> QED
      BY <3>7, <3>8
  <2> QED
    BY <1>3, <2>1, <2>2, <2>3, <2>4, <2>5, <2>6 DEF OrderStep
<1>4. ASSUME NEW s \in Sessions, VanStep(s) \/ CountStep(s) \/ Abort(s)
      PROVE  ReceiptsCount' /\ ReceivedInFull'
  BY <1>2, <1>4, RequestsAside
<1> QED
  BY <1>1, <1>3, <1>4 DEF Next, Look, vars

\* An order is RECEIVED only when no line is open, however many receipts overlap:
\* ReceivedInFull of FieldStock.
THEOREM OrdersAreReceivedInFull == Spec => []ReceivedInFull
<1>1. Init => ReceiptsCount /\ ReceivedInFull
  BY DEF Init, ReceiptsCount, ReceivedInFull, Executes
<1> QED
  BY <1>1, ReceivedStep, TypeCorrect, PTL DEF Spec

-----------------------------------------------------------------------------
(* Reconciliation.                                                          *)

\* What is missing now is no more than a reconciliation under way has found missing.
ShortfallsCover ==
    \A s \in Sessions :
        Executes(s, "reconcile") =>
            LET a == request[s].on IN
            /\ van[a].status # "ABSENT"
            /\ request[s].shortfall >= Remaining(van[a])

\* An allocation that was made stays made, and what remains of it does not grow.
NothingGrows ==
    \A a \in Allocations : van[a].status # "ABSENT" =>
        van'[a].status # "ABSENT" /\ Remaining(van'[a]) <= Remaining(van[a])

\* Remaining is a number.
LEMMA RemainingType ==
  ASSUME TypeOK, NEW a \in Allocations
  PROVE  Remaining(van[a]) \in Int /\ van[a] \in VanShape
BY TypeParts DEF Remaining, VanShape

\* Reconciliations under way are covered as long as nothing grows.
LEMMA CoverRemains ==
  ASSUME TypeOK, TypeOK', ShortfallsCover, NothingGrows, NEW s \in Sessions,
         \A q \in Sessions \ {s} : request'[q] = request[q],
         \/ request'[s] = request[s] \/ request'[s] = NoRequest
         \/ request'[s].op # "reconcile"
  PROVE  ShortfallsCover'
<1> SUFFICES ASSUME NEW q \in Sessions, Executes(q, "reconcile")'
             PROVE  /\ van'[request'[q].on].status # "ABSENT"
                    /\ request'[q].shortfall >= Remaining(van'[request'[q].on])
  BY DEF ShortfallsCover
<1>1. request'[q] = request[q] /\ Executes(q, "reconcile")
  BY DEF Executes
<1>2. PICK a \in Allocations, m \in Int : a = request[q].on /\ m = request[q].shortfall
  BY <1>1, RequestTypes DEF ReconcileRequests
<1>3. van[a].status # "ABSENT" /\ m >= Remaining(van[a])
  BY <1>1, <1>2 DEF ShortfallsCover
<1>4. van'[a].status # "ABSENT" /\ Remaining(van'[a]) <= Remaining(van[a])
  BY <1>3 DEF NothingGrows
<1>5. Remaining(van[a]) \in Int /\ Remaining(van'[a]) \in Int
  BY RemainingType, NextTypeParts DEF Remaining, VanShape
<1> QED
  BY <1>1, <1>2, <1>3, <1>4, <1>5

\* A reconciliation under way stays covered, and one that ends has raised its alert.
LEMMA ShortfallStep ==
  TypeOK /\ TypeOK' /\ ShortfallsCover /\ ShortfallIsRaised /\ [Next]_vars =>
      ShortfallsCover' /\ ShortfallIsRaised'
<1> SUFFICES ASSUME TypeOK, TypeOK', ShortfallsCover, ShortfallIsRaised, [Next]_vars
             PROVE  ShortfallsCover' /\ ShortfallIsRaised'
  OBVIOUS
<1>1. van \in [Allocations -> VanShape] /\ \A a \in Allocations : Remaining(van[a]) \in Int
  BY TypeParts, RemainingType
<1>2. ASSUME NEW s \in Sessions, UNCHANGED <<van, alert>>,
             \A q \in Sessions \ {s} : request'[q] = request[q],
             \/ request'[s] = request[s] \/ request'[s] = NoRequest
             \/ request'[s].op # "reconcile"
      PROVE  ShortfallsCover' /\ ShortfallIsRaised'
  <2>1. NothingGrows
    BY <1>1, <1>2 DEF NothingGrows
  <2>2. ShortfallsCover'
    BY <1>2, <2>1, CoverRemains
  <2> QED
    BY <1>2, <2>2 DEF ShortfallIsRaised
<1>3. CASE UNCHANGED <<van, alert, request>>
  BY <1>3 DEF ShortfallsCover, ShortfallIsRaised, Executes
<1>4. ASSUME NEW s \in Sessions, OrderStep(s) \/ CountStep(s) \/ Abort(s)
      PROVE  ShortfallsCover' /\ ShortfallIsRaised'
  <2>1. ASSUME NEW r, NEW parts, Begin(s, r, parts), r.op # "reconcile"
        PROVE  ShortfallsCover' /\ ShortfallIsRaised'
    BY <1>2, <2>1, BeginDoes DEF Begin
  <2>2. ASSUME End(s), UNCHANGED <<van, alert>> PROVE ShortfallsCover' /\ ShortfallIsRaised'
    BY <1>2, <2>2, EndDoes
  <2>3. CASE \/ \E next \in Moves : ReadMove(s, next)
             \/ \E pieces \in [Items -> 0..MaxPieces] : ReadReceive(s, pieces)
             \/ \E i \in Items, kind \in Corrections : ReadAdjust(s, i, kind)
    BY <2>1, <2>3 DEF ReadMove, ReadReceive, ReadAdjust
  <2>4. CASE Bump(s) \/ Recount(s)
    BY <1>2, <2>4, TypeParts DEF Bump, Recount, GoOn
  <2>5. CASE Move(s) \/ Receive(s) \/ Adjust(s) \/ Abort(s)
    BY <2>2, <2>5 DEF Move, Receive, Adjust, Abort
  <2> QED
    BY <1>4, <2>3, <2>4, <2>5 DEF OrderStep, CountStep
<1>5. ASSUME NEW s \in Sessions, Allocate(s)
      PROVE  ShortfallsCover' /\ ShortfallIsRaised'
  <2>1. PICK a \in Allocations : a = request[s].on
    BY <1>5, RequestTypes DEF Allocate, UseRequests
  <2>2. /\ van[a].status = "ABSENT" /\ van'[a].status = "ALLOCATED"
        /\ \A b \in Allocations \ {a} : van'[b] = van[b]
    BY <1>1, <1>5, <2>1 DEF Allocate
  <2>3. /\ alert' = alert /\ request'[s] = NoRequest
        /\ \A q \in Sessions \ {s} : request'[q] = request[q]
    BY <1>5, TypeParts DEF Allocate, End
  <2>4. \A q \in Sessions : Executes(q, "reconcile") => request[q].on \in Allocations
    BY RequestTypes DEF ReconcileRequests
  <2>5. ShortfallsCover'
    BY <2>2, <2>3, <2>4 DEF ShortfallsCover, Executes
  <2>6. ShortfallIsRaised'
    BY <2>2, <2>3 DEF ShortfallIsRaised
  <2> QED
    BY <2>5, <2>6
<1>6. ASSUME NEW s \in Sessions, VanStep(s) PROVE ShortfallsCover' /\ ShortfallIsRaised'
  <2>1. ASSUME NEW a \in Allocations, ReadAcknowledge(s, a)
        PROVE  ShortfallsCover' /\ ShortfallIsRaised'
    BY <1>2, <2>1, TypeParts DEF ReadAcknowledge, Begin
  <2>2. ASSUME NEW a \in Allocations, NEW op \in {"use", "return"}, NEW n \in Pieces,
               ReadAllocate(s, a, n) \/ ReadUse(s, a, op, n)
        PROVE  ShortfallsCover' /\ ShortfallIsRaised'
    BY <1>2, <2>2, TypeParts DEF ReadAllocate, ReadUse, Begin
  <2>3. ASSUME NEW a \in Allocations, ReadReconcile(s, a)
        PROVE  ShortfallsCover' /\ ShortfallIsRaised'
    <3> DEFINE r == [op |-> "reconcile", on |-> a, shortfall |-> Remaining(van[a])]
    <3>1. /\ van[a].status # "ABSENT" /\ UNCHANGED <<van, alert>>
          /\ request'[s] = r /\ \A q \in Sessions \ {s} : request'[q] = request[q]
      BY <2>3, TypeParts DEF ReadReconcile, Begin
    <3>2. ASSUME NEW q \in Sessions, Executes(q, "reconcile")'
          PROVE  /\ van'[request'[q].on].status # "ABSENT"
                 /\ request'[q].shortfall >= Remaining(van'[request'[q].on])
      <4>1. CASE q = s
        BY <1>1, <3>1, <4>1
      <4>2. CASE q # s
        BY <3>1, <3>2, <4>2 DEF ShortfallsCover, Executes
      <4> QED
        BY <4>1, <4>2
    <3> QED
      BY <3>1, <3>2 DEF ShortfallsCover, ShortfallIsRaised
  <2>4. ASSUME NEW a \in Allocations, van'[a].status \notin {"ABSENT", "RECONCILED"},
               van'[a].allocated = van[a].allocated,
               van'[a].used >= van[a].used, van'[a].returned >= van[a].returned,
               \A b \in Allocations \ {a} : van'[b] = van[b],
               alert' = alert, End(s)
        PROVE  ShortfallsCover' /\ ShortfallIsRaised'
    <3>1. Remaining(van'[a]) <= Remaining(van[a])
      BY <1>1, <2>4, NextTypeParts DEF Remaining, VanShape
    <3>2. NothingGrows
      BY <1>1, <2>4, <3>1 DEF NothingGrows
    <3>3. request'[s] = NoRequest /\ \A q \in Sessions \ {s} : request'[q] = request[q]
      BY <2>4, TypeParts DEF End
    <3>4. ShortfallsCover'
      BY <3>2, <3>3, CoverRemains
    <3>5. ShortfallIsRaised'
      BY <2>4 DEF ShortfallIsRaised
    <3> QED
      BY <3>4, <3>5
  <2>5. CASE Acknowledge(s)
    <3>1. PICK a \in Allocations : a = request[s].on
      BY <2>5, RequestTypes DEF Acknowledge, AckRequests
    <3>2. van' = [van EXCEPT ![a].status = "ACKNOWLEDGED"] /\ alert' = alert /\ End(s)
      BY <2>5, <3>1 DEF Acknowledge
    <3>3. /\ van'[a].status = "ACKNOWLEDGED" /\ van'[a].allocated = van[a].allocated
          /\ van'[a].used = van[a].used /\ van'[a].returned = van[a].returned
          /\ \A b \in Allocations \ {a} : van'[b] = van[b]
          /\ van[a].used \in Nat /\ van[a].returned \in Nat
      BY <1>1, <3>2 DEF VanShape
    <3> QED
      BY <2>4, <3>2, <3>3
  <2>6. CASE Use(s) \/ Return(s)
    <3>1. request[s] \in UseRequests
      BY <2>6, RequestTypes DEF Use, Return
    <3>2. PICK a \in Allocations, n \in Nat : a = request[s].on /\ n = request[s].n
      BY <3>1 DEF UseRequests
    <3>3. PICK u \in {0, n}, t \in {0, n}, st \in {"USED", "RETURNED"} :
            van' = [van EXCEPT ![a] = [status |-> st, allocated |-> van[a].allocated,
                                       used |-> van[a].used + u,
                                       returned |-> van[a].returned + t]]
      <4>1. CASE Use(s)
        <5>1. van' = [van EXCEPT ![a] = [status |-> "USED", allocated |-> van[a].allocated,
                                         used |-> van[a].used + n,
                                         returned |-> van[a].returned]]
          BY <3>2, <4>1 DEF Use
        <5>2. van[a].returned = van[a].returned + 0
          BY <1>1 DEF VanShape
        <5> QED
          BY <5>1, <5>2
      <4>2. CASE Return(s)
        <5>1. van' = [van EXCEPT ![a] = [status |-> "RETURNED", allocated |-> van[a].allocated,
                                         used |-> van[a].used,
                                         returned |-> van[a].returned + n]]
          BY <3>2, <4>2 DEF Return
        <5>2. van[a].used = van[a].used + 0
          BY <1>1 DEF VanShape
        <5> QED
          BY <5>1, <5>2
      <4> QED
        BY <2>6, <4>1, <4>2
    <3>4. /\ van'[a].status = st /\ van'[a].allocated = van[a].allocated
          /\ van'[a].used >= van[a].used /\ van'[a].returned >= van[a].returned
          /\ \A b \in Allocations \ {a} : van'[b] = van[b]
      BY <1>1, <3>2, <3>3 DEF VanShape
    <3>5. alert' = alert /\ End(s)
      BY <2>6 DEF Use, Return
    <3> QED
      BY <2>4, <3>3, <3>4, <3>5
  <2>7. CASE Reconcile(s)
    <3>1. PICK a \in Allocations, m \in Int : a = request[s].on /\ m = request[s].shortfall
      BY <2>7, RequestTypes DEF Reconcile, ReconcileRequests
    <3>2. /\ van' = [van EXCEPT ![a].status = "RECONCILED"] /\ End(s)
          /\ alert' = [alert EXCEPT ![a] = @ \/ m > 0]
      BY <2>7, <3>1 DEF Reconcile
    <3>3. m >= Remaining(van[a])
      BY <2>7, <3>1 DEF Reconcile, ShortfallsCover
    <3>4. /\ van'[a].status = "RECONCILED" /\ Remaining(van'[a]) = Remaining(van[a])
          /\ \A b \in Allocations \ {a} : van'[b] = van[b]
      BY <1>1, <3>2 DEF VanShape, Remaining
    <3>5. NothingGrows
      BY <1>1, <3>4 DEF NothingGrows
    <3>6. request'[s] = NoRequest /\ \A q \in Sessions \ {s} : request'[q] = request[q]
      BY <3>2, TypeParts DEF End
    <3>7. ShortfallsCover'
      BY <3>5, <3>6, CoverRemains
    <3>8. /\ alert'[a] <=> alert[a] \/ m > 0
          /\ \A b \in Allocations \ {a} : alert'[b] = alert[b]
      BY <3>2, TypeParts
    <3>9. ShortfallIsRaised'
      BY <1>1, <3>1, <3>3, <3>4, <3>8 DEF ShortfallIsRaised
    <3> QED
      BY <3>7, <3>9
  <2> QED
    BY <1>5, <1>6, <2>1, <2>2, <2>3, <2>5, <2>6, <2>7 DEF VanStep
<1> QED
  BY <1>3, <1>4, <1>6 DEF Next, Look, vars

\* No allocation is closed over missing pieces in silence: ShortfallIsRaised of
\* FieldStock.
THEOREM ShortfallsAreRaised == Spec => []ShortfallIsRaised
<1>1. Init => ShortfallsCover /\ ShortfallIsRaised
  BY DEF Init, ShortfallsCover, ShortfallIsRaised, Executes
<1> QED
  BY <1>1, ShortfallStep, TypeCorrect, PTL DEF Spec

-----------------------------------------------------------------------------
(* Limits that are checked on a stale read.  What requests under way are    *)
(* about to add is counted by tokens, <<session, 1>> to <<session, n>>.     *)

Tokens(f, m) == {t \in Sessions \X (1..m) : t[2] <= f[t[1]]}

\* A limit m of which x is used up and f is under way.
Held(f, m, x) ==
    /\ f \in [Sessions -> 0..m]
    /\ x + Cardinality(Tokens(f, m)) <= Cardinality(Sessions) * m

\* Tokens are finite, and those of one session are as many as it is about to add.
LEMMA TokensOfOne ==
  ASSUME NEW m \in Nat, NEW f \in [Sessions -> 0..m], NEW s \in Sessions
  PROVE  LET rest == Tokens([f EXCEPT ![s] = 0], m) IN
         /\ IsFiniteSet(rest) /\ Cardinality(rest) \in Nat
         /\ Cardinality(Tokens(f, m)) = Cardinality(rest) + f[s]
         /\ Cardinality(rest) <= Cardinality(Sessions) * m - m
<1> DEFINE rest == Tokens([f EXCEPT ![s] = 0], m)
           others == Sessions \ {s}
           own == {s} \X (1..f[s])
<1>1. IsFiniteSet(Sessions) /\ IsFiniteSet(others) /\ Cardinality(Sessions) \in Nat
      /\ Cardinality(others) = Cardinality(Sessions) - 1
  BY FieldStockAssumption, FS_RemoveElement, FS_CardinalityType
<1>2. IsFiniteSet(1..m) /\ Cardinality(1..m) = m
  BY FS_Interval
<1>3. IsFiniteSet(others \X (1..m))
      /\ Cardinality(others \X (1..m)) = (Cardinality(Sessions) - 1) * m
  <2> HIDE DEF others
  <2>1. Cardinality(others \X (1..m)) = Cardinality(others) * Cardinality(1..m)
        /\ IsFiniteSet(others \X (1..m))
    BY <1>1, <1>2, FS_Product
  <2> QED
    BY <1>1, <1>2, <2>1
<1>4. rest \subseteq others \X (1..m)
  BY DEF Tokens
<1>5. IsFiniteSet(rest) /\ Cardinality(rest) \in Nat
      /\ Cardinality(rest) <= (Cardinality(Sessions) - 1) * m
  <2> HIDE DEF rest, others
  <2>1. IsFiniteSet(rest) /\ Cardinality(rest) <= Cardinality(others \X (1..m))
    BY <1>3, <1>4, FS_Subset
  <2> QED
    BY <1>3, <2>1, FS_CardinalityType
<1>6. (Cardinality(Sessions) - 1) * m = Cardinality(Sessions) * m - m
  BY <1>1
<1>7. f[s] \in Nat /\ f[s] <= m
  OBVIOUS
<1>8. IsFiniteSet({s}) /\ Cardinality({s}) = 1
  BY FS_Singleton
<1>9. IsFiniteSet(1..f[s]) /\ Cardinality(1..f[s]) = f[s]
  BY <1>7, FS_Interval
<1>10. IsFiniteSet(own) /\ Cardinality(own) = f[s]
  <2>1. IsFiniteSet(own) /\ Cardinality(own) = 1 * f[s]
    BY <1>8, <1>9, FS_Product
  <2> QED
    BY <1>7, <2>1
<1>11. Tokens(f, m) = rest \cup own
  BY <1>7 DEF Tokens
<1>12. rest \cap own = {}
  BY DEF Tokens
<1>13. Cardinality(Tokens(f, m)) = Cardinality(rest) + f[s]
  <2> HIDE DEF rest, own
  <2>1. Cardinality({}) = 0
    BY FS_EmptySet
  <2>2. Cardinality(rest \cup own)
          = Cardinality(rest) + Cardinality(own) - Cardinality(rest \cap own)
    <3>1. IsFiniteSet(rest) /\ IsFiniteSet(own)
      BY <1>5, <1>10
    <3> QED
      BY <3>1, FS_Union, Zenon
  <2>3. Cardinality(rest \cap own) = 0
    BY <1>12, <2>1, Zenon
  <2>4. Cardinality(rest) \in Nat /\ Cardinality(own) = f[s] /\ f[s] \in Nat
    BY <1>5, <1>7, <1>10
  <2>5. Cardinality(rest \cup own) = Cardinality(rest) + f[s]
    BY <2>2, <2>3, <2>4
  <2> QED
    BY <1>11, <2>5, Zenon
<1> QED
  BY <1>5, <1>6, <1>13

\* A session that checked the limit may be under way.
LEMMA HeldAtStart ==
  ASSUME NEW m \in Nat, NEW x \in Nat, NEW f, Held(f, m, x), NEW s \in Sessions, f[s] = 0,
         NEW n \in Nat, x + n <= m
  PROVE  Held([f EXCEPT ![s] = n], m, x)
<1> DEFINE g == [f EXCEPT ![s] = n]
<1>1. f \in [Sessions -> 0..m] /\ n <= m
  BY DEF Held
<1>2. g \in [Sessions -> 0..m] /\ g[s] = n
  BY <1>1
<1>3. [g EXCEPT ![s] = 0] = f
  BY <1>1
<1> HIDE DEF g
<1>4. /\ Cardinality(Tokens(g, m)) = Cardinality(Tokens(f, m)) + n
      /\ Cardinality(Tokens(f, m)) \in Nat
      /\ Cardinality(Tokens(f, m)) <= Cardinality(Sessions) * m - m
  BY <1>2, <1>3, TokensOfOne
<1>5. Cardinality(Sessions) * m \in Int
  BY FieldStockAssumption, FS_CardinalityType
<1> QED
  BY <1>2, <1>4, <1>5 DEF Held, g

\* A session that commits turns what was under way into what is used up; one that
\* aborts gives it back.
LEMMA HeldAtEnd ==
  ASSUME NEW m \in Nat, NEW x \in Nat, NEW f, Held(f, m, x), NEW s \in Sessions
  PROVE  Held([f EXCEPT ![s] = 0], m, x) /\ Held([f EXCEPT ![s] = 0], m, x + f[s])
<1>1. f \in [Sessions -> 0..m] /\ f[s] \in Nat
  BY DEF Held
<1>2. [f EXCEPT ![s] = 0] \in [Sessions -> 0..m]
  BY <1>1
<1>3. LET rest == Tokens([f EXCEPT ![s] = 0], m) IN
      Cardinality(rest) \in Nat /\ Cardinality(Tokens(f, m)) = Cardinality(rest) + f[s]
  BY <1>1, TokensOfOne
<1>4. Cardinality(Sessions) * m \in Int
  BY FieldStockAssumption, FS_CardinalityType
<1>5. x + Cardinality(Tokens(f, m)) <= Cardinality(Sessions) * m
  BY DEF Held
<1> QED
  BY <1>1, <1>2, <1>3, <1>4, <1>5 DEF Held

\* Nothing under way.
LEMMA HeldIdle ==
  ASSUME NEW m \in Nat
  PROVE  Held([s \in Sessions |-> 0], m, 0)
<1>1. Tokens([s \in Sessions |-> 0], m) = {}
  BY DEF Tokens
<1>2. Cardinality(Tokens([s \in Sessions |-> 0], m)) = 0
  BY <1>1, FS_EmptySet
<1>3. Cardinality(Sessions) * m \in Nat
  BY FieldStockAssumption, FS_CardinalityType
<1> QED
  BY <1>2, <1>3 DEF Held

\* A limit that is held is exceeded by no more than the other sessions can add.
LEMMA HeldBounds ==
  ASSUME NEW m \in Nat, NEW x \in Nat, NEW f, Held(f, m, x)
  PROVE  x <= Cardinality(Sessions) * m
<1>1. IsFiniteSet(Sessions \X (1..m))
  <2>1. IsFiniteSet(1..m)
    BY FS_Interval
  <2> QED
    BY <2>1, FieldStockAssumption, FS_Product
<1>2. Cardinality(Tokens(f, m)) \in Nat
  BY <1>1, FS_Subset, FS_CardinalityType DEF Tokens
<1>3. Cardinality(Sessions) * m \in Int
  BY FieldStockAssumption, FS_CardinalityType
<1> QED
  BY <1>2, <1>3 DEF Held

\* What one step of a session does to a limit m: n of the session were under way
\* and o are now, x was used up and y is now.
Orderly(m, n, o, x, y) ==
    \/ o = n /\ y = x
    \/ n = 0 /\ o \in Nat /\ x + o <= m /\ y = x
    \/ o = 0 /\ (y = x \/ y = x + n)

\* Such a step holds the limit.
LEMMA HeldStep ==
  ASSUME NEW m \in Nat, NEW x \in Nat, NEW f, Held(f, m, x), NEW s \in Sessions,
         NEW o, NEW y, Orderly(m, f[s], o, x, y)
  PROVE  Held([f EXCEPT ![s] = o], m, y)
<1>1. f \in [Sessions -> 0..m]
  BY DEF Held
<1>2. CASE o = f[s] /\ y = x
  <2>1. [f EXCEPT ![s] = o] = f
    BY <1>1, <1>2
  <2> QED
    BY <1>2, <2>1
<1>3. CASE f[s] = 0 /\ o \in Nat /\ x + o <= m /\ y = x
  BY <1>3, HeldAtStart
<1>4. CASE o = 0 /\ (y = x \/ y = x + f[s])
  BY <1>4, HeldAtEnd
<1> QED
  BY <1>2, <1>3, <1>4 DEF Orderly

\* What a request is about to add to an order line, and to an allocation.
OnLine(r, i) ==
    IF r # NoRequest /\ r.op \in {"receive", "bumped", "recounted"} THEN r.pieces[i] ELSE 0
OnVan(r, a) == IF r # NoRequest /\ r.op \in {"use", "return"} /\ r.on = a THEN r.n ELSE 0

LineFlow(i) == [s \in Sessions |-> OnLine(request[s], i)]
VanFlow(a) == [s \in Sessions |-> OnVan(request[s], a)]

\* What one receipt may bring of a part whose line is open in full.
LineLimit(i) == MaxEntries * Ordered[i]

LimitsHeld ==
    /\ \A i \in Items : Held(LineFlow(i), LineLimit(i), order.received[i])
    /\ \A a \in Allocations : Held(VanFlow(a), van[a].allocated, van[a].used + van[a].returned)
    /\ \A a \in Allocations : van[a].status = "ABSENT" => van[a].allocated = 0

\* The numbers the limits are about.
LEMMA LimitTypes ==
  ASSUME TypeOK
  PROVE  /\ \A i \in Items : LineLimit(i) \in Nat /\ order.received[i] \in Nat
         /\ \A a \in Allocations : van[a].allocated \in Nat /\ van[a].used \in Nat
                                    /\ van[a].returned \in Nat
                                    /\ van[a].used + van[a].returned \in Nat
<1>1. \A i \in Items : LineLimit(i) \in Nat /\ order.received[i] \in Nat
  BY TypeParts, FieldStockAssumption DEF OrderShape, LineLimit
<1>2. \A a \in Allocations : van[a].allocated \in Nat /\ van[a].used \in Nat
                             /\ van[a].returned \in Nat
  BY TypeParts DEF VanShape
<1> QED
  BY <1>1, <1>2

LinesOrderly(s) ==
    \A i \in Items : Orderly(LineLimit(i), OnLine(request[s], i), OnLine(request'[s], i),
                             order.received[i], order'.received[i])
VansOrderly(s) ==
    \A a \in Allocations :
        /\ van'[a].allocated = van[a].allocated
        /\ van'[a].status = "ABSENT" => van[a].status = "ABSENT"
        /\ Orderly(van[a].allocated, OnVan(request[s], a), OnVan(request'[s], a),
                   van[a].used + van[a].returned, van'[a].used + van'[a].returned)

\* A step of one session that is orderly for every limit holds all of them.
LEMMA LimitsStep ==
  ASSUME TypeOK, LimitsHeld, NEW s \in Sessions,
         \A q \in Sessions \ {s} : request'[q] = request[q], LinesOrderly(s), VansOrderly(s)
  PROVE  LimitsHeld'
<1>1. ASSUME NEW i \in Items
      PROVE  Held(LineFlow(i)', LineLimit(i), order'.received[i])
  <2> DEFINE o == OnLine(request'[s], i)
  <2>1. LineFlow(i)' = [LineFlow(i) EXCEPT ![s] = o]
    BY DEF LineFlow
  <2>2. LineFlow(i)[s] = OnLine(request[s], i)
    BY DEF LineFlow
  <2>3. Held(LineFlow(i), LineLimit(i), order.received[i])
    BY DEF LimitsHeld
  <2>4. Orderly(LineLimit(i), LineFlow(i)[s], o, order.received[i], order'.received[i])
    BY <2>2 DEF LinesOrderly
  <2> HIDE DEF o
  <2>5. Held([LineFlow(i) EXCEPT ![s] = o], LineLimit(i), order'.received[i])
    BY <2>3, <2>4, LimitTypes, HeldStep
  <2> QED
    BY <2>1, <2>5
<1>2. ASSUME NEW a \in Allocations
      PROVE  Held(VanFlow(a)', van'[a].allocated, van'[a].used + van'[a].returned)
  <2> DEFINE o == OnVan(request'[s], a)
             x == van[a].used + van[a].returned
  <2>1. VanFlow(a)' = [VanFlow(a) EXCEPT ![s] = o]
    BY DEF VanFlow
  <2>2. VanFlow(a)[s] = OnVan(request[s], a)
    BY DEF VanFlow
  <2>3. Held(VanFlow(a), van[a].allocated, x) /\ x \in Nat /\ van[a].allocated \in Nat
    BY LimitTypes DEF LimitsHeld
  <2>4. Orderly(van[a].allocated, VanFlow(a)[s], o, x, van'[a].used + van'[a].returned)
    BY <2>2 DEF VansOrderly
  <2> HIDE DEF o, x
  <2>5. Held([VanFlow(a) EXCEPT ![s] = o], van[a].allocated, van'[a].used + van'[a].returned)
    BY <2>3, <2>4, HeldStep
  <2> QED
    BY <2>1, <2>5 DEF VansOrderly
<1>3. \A a \in Allocations : van'[a].status = "ABSENT" => van'[a].allocated = 0
  BY DEF VansOrderly, LimitsHeld
<1> QED
  BY <1>1, <1>2, <1>3 DEF LimitsHeld, LineFlow, VanFlow

\* A step of a session that is not a purchase order's leaves the order lines alone.
LEMMA LinesAside ==
  ASSUME TypeOK, NEW s \in Sessions, order'.received = order.received,
         \/ request'[s] = NoRequest \/ request'[s] = request[s]
         \/ request'[s].op \notin {"receive", "bumped", "recounted"}
         \/ Executes(s, "receive") /\ request'[s].pieces = request[s].pieces
         \/ Executes(s, "bumped") /\ request'[s].pieces = request[s].pieces
  PROVE  LinesOrderly(s)
BY LimitTypes DEF LinesOrderly, OnLine, Orderly, Executes

\* A step that is not a usage or a return leaves the allocations alone.
LEMMA VansAside ==
  ASSUME TypeOK, NEW s \in Sessions,
         \A a \in Allocations :
            /\ van'[a].allocated = van[a].allocated /\ van'[a].used = van[a].used
            /\ van'[a].returned = van[a].returned
            /\ van'[a].status = "ABSENT" => van[a].status = "ABSENT",
         \/ request'[s] = NoRequest \/ request'[s] = request[s]
         \/ request'[s].op \notin {"use", "return"}
  PROVE  VansOrderly(s)
BY LimitTypes DEF VansOrderly, OnVan, Orderly

\* The steps of the order hold the limits.
LEMMA OrderLimits ==
  ASSUME TypeOK, LimitsHeld, NEW s \in Sessions, OrderStep(s)
  PROVE  LimitsHeld'
<1>1. ASSUME NEW next \in Moves, ReadMove(s, next) PROVE LimitsHeld'
  BY <1>1, BeginDoes, LinesAside, VansAside, LimitsStep DEF ReadMove
<1>2. CASE Move(s)
  <2>1. order'.received = order.received /\ van' = van /\ End(s)
    BY <1>2, TypeParts DEF Move, OrderShape
  <2> QED
    BY <2>1, EndDoes, LinesAside, VansAside, LimitsStep
<1>3. ASSUME NEW pieces \in [Items -> 0..MaxPieces], ReadReceive(s, pieces) PROVE LimitsHeld'
  <2> DEFINE r == [op |-> "receive", pieces |-> pieces, seen |-> order.status,
                   next |-> order.status]
  <2>1. Begin(s, r, NamedIn(pieces)) /\ r.op = "receive" /\ r.pieces = pieces
    BY <1>3 DEF ReadReceive
  <2> HIDE DEF r
  <2>2. ASSUME NEW i \in Items
        PROVE  \/ pieces[i] = 0
               \/ pieces[i] \in Nat /\ order.received[i] + pieces[i] <= LineLimit(i)
    <3> DEFINE n == pieces[i]
               x == order.received[i]
               e == MaxEntries
               m == Ordered[i]
    <3>1. n \in Nat /\ x \in Nat /\ e \in Nat \ {0} /\ m \in Nat
      BY FieldStockAssumption, LimitTypes
    <3>2. n > 0 => x < m /\ n <= e * (m - x)
      BY <1>3 DEF ReadReceive, NamedIn
    <3> HIDE DEF n, x, e, m
    <3>3. e * (m - x) + x = e * m - (e - 1) * x /\ (e - 1) * x >= 0
      BY <3>1
    <3>4. e * (m - x) \in Int /\ e * m \in Int /\ (e - 1) * x \in Int
      BY <3>1
    <3>5. n = 0 \/ x + n <= e * m
      BY <3>1, <3>2, <3>3, <3>4
    <3> QED
      BY <3>1, <3>5 DEF n, x, e, m, LineLimit
  <2>3. LinesOrderly(s)
    BY <2>1, <2>2, BeginDoes, LimitTypes DEF LinesOrderly, OnLine, Orderly
  <2> QED
    BY <2>1, <2>3, BeginDoes, VansAside, LimitsStep
<1>4. ASSUME NEW op \in {"bumped", "recounted"}, NEW next, GoOn(s, op, next),
             Executes(s, "receive") \/ Executes(s, "bumped"), order' = order, van' = van
      PROVE  LimitsHeld'
  <2>1. /\ request'[s].op = op /\ request'[s].pieces = request[s].pieces
        /\ \A q \in Sessions \ {s} : request'[q] = request[q]
    BY <1>4, TypeParts DEF GoOn
  <2> QED
    BY <1>4, <2>1, LinesAside, VansAside, LimitsStep
<1>5. CASE Bump(s)
  BY <1>4, <1>5 DEF Bump
<1>6. CASE Recount(s)
  BY <1>4, <1>6 DEF Recount
<1>7. CASE Receive(s)
  <2>1. /\ request[s] # NoRequest /\ request[s].op = "recounted" /\ van' = van /\ End(s)
        /\ \A i \in Items : order'.received[i] = order.received[i] + request[s].pieces[i]
    BY <1>7 DEF Receive, Executes
  <2>2. LinesOrderly(s)
    BY <2>1, EndDoes DEF LinesOrderly, OnLine, Orderly
  <2> QED
    BY <2>1, <2>2, EndDoes, VansAside, LimitsStep
<1> QED
  BY <1>1, <1>2, <1>3, <1>5, <1>6, <1>7 DEF OrderStep

\* A new allocation has nothing used up and nothing under way.
LEMMA AllocateLimits ==
  ASSUME TypeOK, LimitsHeld, NEW s \in Sessions, Allocate(s)
  PROVE  LimitsHeld'
<1>1. PICK a \in Allocations, n \in Nat : a = request[s].on /\ n = request[s].n
  BY RequestTypes DEF Allocate, UseRequests
<1>2. /\ van[a].status = "ABSENT" /\ order' = order /\ End(s)
      /\ van'[a].status = "ALLOCATED" /\ van'[a].allocated = n
      /\ van'[a].used = 0 /\ van'[a].returned = 0
      /\ \A b \in Allocations \ {a} : van'[b] = van[b]
      /\ request[s].op = "allocate"
  BY <1>1, TypeParts DEF Allocate, Executes
<1>3. /\ \A b \in Allocations : VanFlow(b)' = VanFlow(b)
      /\ \A i \in Items : LineFlow(i)' = LineFlow(i)
  <2>1. request'[s] = NoRequest /\ \A q \in Sessions \ {s} : request'[q] = request[q]
    BY <1>2, EndDoes
  <2>2. \A b \in Allocations, q \in Sessions : OnVan(request'[q], b) = OnVan(request[q], b)
    BY <1>2, <2>1 DEF OnVan
  <2>3. \A i \in Items, q \in Sessions : OnLine(request'[q], i) = OnLine(request[q], i)
    BY <1>2, <2>1 DEF OnLine
  <2> QED
    BY <2>2, <2>3 DEF VanFlow, LineFlow
<1>4. VanFlow(a) \in [Sessions -> 0..0]
  BY <1>2 DEF LimitsHeld, Held
<1>5. VanFlow(a) = [q \in Sessions |-> 0]
  BY <1>4
<1>6. Held(VanFlow(a)', n, 0)
  BY <1>3, <1>5, HeldIdle
<1>7. ASSUME NEW b \in Allocations
      PROVE  /\ Held(VanFlow(b)', van'[b].allocated, van'[b].used + van'[b].returned)
             /\ van'[b].status = "ABSENT" => van'[b].allocated = 0
  <2>1. CASE b = a
    BY <1>2, <1>6, <2>1
  <2>2. CASE b # a
    BY <1>2, <1>3, <2>2 DEF LimitsHeld
  <2> QED
    BY <2>1, <2>2
<1>8. \A i \in Items : Held(LineFlow(i)', LineLimit(i), order'.received[i])
  BY <1>2, <1>3 DEF LimitsHeld
<1> QED
  BY <1>7, <1>8 DEF LimitsHeld

\* The steps of the allocations hold the limits.
LEMMA VanLimits ==
  ASSUME TypeOK, LimitsHeld, NEW s \in Sessions, VanStep(s)
  PROVE  LimitsHeld'
<1>1. ASSUME NEW a \in Allocations, ReadAcknowledge(s, a) PROVE LimitsHeld'
  BY <1>1, BeginDoes, LinesAside, VansAside, LimitsStep DEF ReadAcknowledge
<1>2. ASSUME NEW a \in Allocations, NEW op \in {"use", "return"}, NEW n \in Pieces,
             ReadUse(s, a, op, n)
      PROVE  LimitsHeld'
  <2> DEFINE r == [op |-> op, on |-> a, n |-> n]
  <2>1. Begin(s, r, {ItemOf[a]}) /\ r.op = op /\ r.on = a /\ r.n = n
    BY <1>2 DEF ReadUse
  <2> HIDE DEF r
  <2>2. van[a].used + van[a].returned + n <= van[a].allocated /\ n \in Nat
    BY <1>2, LimitTypes DEF ReadUse, Remaining, Pieces
  <2>3. VansOrderly(s)
    BY <2>1, <2>2, BeginDoes, LimitTypes DEF VansOrderly, OnVan, Orderly
  <2> QED
    BY <2>1, <2>3, BeginDoes, LinesAside, LimitsStep
<1>3. ASSUME NEW a \in Allocations, ReadReconcile(s, a) PROVE LimitsHeld'
  BY <1>3, BeginDoes, LinesAside, VansAside, LimitsStep DEF ReadReconcile
<1>4. ASSUME NEW a \in Allocations, NEW st \in {"ACKNOWLEDGED", "RECONCILED"},
             van' = [van EXCEPT ![a].status = st], order' = order, End(s)
      PROVE  LimitsHeld'
  <2>1. \A b \in Allocations :
            /\ van'[b].allocated = van[b].allocated /\ van'[b].used = van[b].used
            /\ van'[b].returned = van[b].returned
            /\ van'[b].status = "ABSENT" => van[b].status = "ABSENT"
    BY <1>4, TypeParts DEF VanShape
  <2> QED
    BY <1>4, <2>1, EndDoes, LinesAside, VansAside, LimitsStep
<1>5. CASE Acknowledge(s)
  <2>1. request[s].on \in Allocations
    BY <1>5, RequestTypes DEF Acknowledge, AckRequests
  <2> QED
    BY <1>4, <1>5, <2>1 DEF Acknowledge
<1>6. CASE Reconcile(s)
  <2>1. request[s].on \in Allocations
    BY <1>6, RequestTypes DEF Reconcile, ReconcileRequests
  <2> QED
    BY <1>4, <1>6, <2>1 DEF Reconcile
<1>7. ASSUME NEW a \in Allocations, NEW n \in Nat, NEW u \in Nat, NEW t \in Nat, u + t = n,
             NEW st \in {"USED", "RETURNED"}, request[s] # NoRequest,
             request[s].op \in {"use", "return"}, request[s].on = a, request[s].n = n,
             van' = [van EXCEPT ![a] = [status |-> st, allocated |-> @.allocated,
                                        used |-> @.used + u, returned |-> @.returned + t]],
             order' = order, End(s)
      PROVE  LimitsHeld'
  <2>1. /\ van'[a].status = st /\ van'[a].allocated = van[a].allocated
        /\ van'[a].used = van[a].used + u /\ van'[a].returned = van[a].returned + t
        /\ \A b \in Allocations \ {a} : van'[b] = van[b]
    BY <1>7, TypeParts
  <2>2. van'[a].used + van'[a].returned = van[a].used + van[a].returned + n
    BY <1>7, <2>1, LimitTypes
  <2>3. OnVan(request[s], a) = n /\ OnVan(request'[s], a) = 0
        /\ \A b \in Allocations \ {a} : OnVan(request[s], b) = 0 /\ OnVan(request'[s], b) = 0
    BY <1>7, EndDoes DEF OnVan
  <2>4. VansOrderly(s)
    BY <1>7, <2>1, <2>2, <2>3 DEF VansOrderly, Orderly
  <2> QED
    BY <1>7, <2>4, EndDoes, LinesAside, LimitsStep
<1>8. CASE Use(s)
  <2>1. request[s] \in UseRequests
    BY <1>8, RequestTypes DEF Use
  <2>2. PICK a \in Allocations, n \in Nat : a = request[s].on /\ n = request[s].n
    BY <2>1 DEF UseRequests
  <2>3. van[a].returned = van[a].returned + 0 /\ n + 0 = n
    BY LimitTypes
  <2>4. van' = [van EXCEPT ![a] = [status |-> "USED", allocated |-> @.allocated,
                                   used |-> @.used + n, returned |-> @.returned + 0]]
    BY <1>8, <2>2, <2>3 DEF Use
  <2>5. /\ request[s] # NoRequest /\ request[s].op = "use" /\ order' = order /\ End(s)
        /\ request[s].on = a /\ request[s].n = n
    BY <1>8, <2>2 DEF Use, Executes
  <2> QED
    BY <1>7, <2>3, <2>4, <2>5
<1>9. CASE Return(s)
  <2>1. request[s] \in UseRequests
    BY <1>9, RequestTypes DEF Return
  <2>2. PICK a \in Allocations, n \in Nat : a = request[s].on /\ n = request[s].n
    BY <2>1 DEF UseRequests
  <2>3. van[a].used = van[a].used + 0 /\ 0 + n = n
    BY LimitTypes
  <2>4. van' = [van EXCEPT ![a] = [status |-> "RETURNED", allocated |-> @.allocated,
                                   used |-> @.used + 0, returned |-> @.returned + n]]
    BY <1>9, <2>2, <2>3 DEF Return
  <2>5. /\ request[s] # NoRequest /\ request[s].op = "return" /\ order' = order /\ End(s)
        /\ request[s].on = a /\ request[s].n = n
    BY <1>9, <2>2 DEF Return, Executes
  <2> QED
    BY <1>7, <2>3, <2>4, <2>5
<1>10. ASSUME NEW a \in Allocations, NEW n \in Pieces, ReadAllocate(s, a, n)
       PROVE  LimitsHeld'
  BY <1>10, BeginDoes, LinesAside, VansAside, LimitsStep DEF ReadAllocate
<1> QED
  BY <1>1, <1>2, <1>3, <1>5, <1>6, <1>8, <1>9, <1>10, AllocateLimits DEF VanStep

\* Corrections have nothing to do with the limits.
LEMMA CountLimits ==
  ASSUME TypeOK, LimitsHeld, NEW s \in Sessions, CountStep(s)
  PROVE  LimitsHeld'
<1>1. ASSUME NEW i \in Items, NEW kind \in Corrections, ReadAdjust(s, i, kind)
      PROVE  LimitsHeld'
  BY <1>1, BeginDoes, LinesAside, VansAside, LimitsStep DEF ReadAdjust
<1>2. CASE Adjust(s)
  BY <1>2, EndDoes, LinesAside, VansAside, LimitsStep DEF Adjust
<1> QED
  BY <1>1, <1>2 DEF CountStep

\* Every step holds the limits.
LEMMA NextLimits == TypeOK /\ LimitsHeld /\ [Next]_vars => LimitsHeld'
<1> SUFFICES ASSUME TypeOK, LimitsHeld, [Next]_vars PROVE LimitsHeld'
  OBVIOUS
<1>1. ASSUME UNCHANGED <<order, van, request>> PROVE LimitsHeld'
  BY <1>1 DEF LimitsHeld, LineFlow, VanFlow
<1>2. ASSUME NEW s \in Sessions, Abort(s) PROVE LimitsHeld'
  BY <1>2, EndDoes, LinesAside, VansAside, LimitsStep DEF Abort
<1> QED
  BY <1>1, <1>2, OrderLimits, VanLimits, CountLimits DEF Next, Look, vars

\* At first nothing is under way.
LEMMA InitLimits == Init => LimitsHeld
<1> SUFFICES ASSUME Init PROVE LimitsHeld
  OBVIOUS
<1>1. \A i \in Items : LineFlow(i) = [s \in Sessions |-> 0] /\ order.received[i] = 0
                       /\ LineLimit(i) \in Nat
  BY FieldStockAssumption DEF Init, LineFlow, OnLine, LineLimit
<1>2. \A a \in Allocations : VanFlow(a) = [s \in Sessions |-> 0]
                             /\ van[a].allocated = 0 /\ van[a].used + van[a].returned = 0
  BY DEF Init, VanFlow, OnVan
<1> QED
  BY <1>1, <1>2, HeldIdle DEF LimitsHeld

\* Limits checked on a stale read are exceeded by no more than the other requests
\* under way can add: OverrunsBounded of FieldStock.
THEOREM OverrunsAreBounded == Spec => []OverrunsBounded
<1>1. TypeOK /\ LimitsHeld => OverrunsBounded
  BY LimitTypes, HeldBounds DEF LimitsHeld, OverrunsBounded, LineLimit
<1> QED
  BY <1>1, InitLimits, NextLimits, TypeCorrect, PTL DEF Spec

-----------------------------------------------------------------------------
(* Sums of integers, by their coins: one for each unit of an amount.            *)

Positive(n) == IF n > 0 THEN n ELSE 0
Coins(f, S) == UNION {{x} \X (1..f[x]) : x \in S}
Negated(f, S) == [x \in S |-> -f[x]]
Total(f, S) == Cardinality(Coins(f, S)) - Cardinality(Coins(Negated(f, S), S))
Integral(f, S) == \A x \in S : f[x] \in Int

IsTotal(g, f, S) ==
    g = [s \in SUBSET S |-> IF s = {} THEN 0
                            ELSE LET x == CHOOSE x \in s : TRUE IN f[x] + g[s \ {x}]]

\* An interval from 1 has its last number of elements, or none.
LEMMA CountTo ==
    ASSUME NEW n \in Int
    PROVE  IsFiniteSet(1..n) /\ Cardinality(1..n) = Positive(n)
<1>1. IsFiniteSet(1..n) /\ Cardinality(1..n) = IF 1 > n THEN 0 ELSE n - 1 + 1
  BY FS_Interval
<1>2. Positive(n) = IF 1 > n THEN 0 ELSE n - 1 + 1
  BY DEF Positive
<1> QED BY <1>1, <1>2

\* The coins of a finite set are finitely many.
LEMMA CoinsFinite ==
    ASSUME NEW f, NEW S, IsFiniteSet(S), Integral(f, S)
    PROVE  IsFiniteSet(Coins(f, S)) /\ Cardinality(Coins(f, S)) \in Nat
<1> DEFINE purse == [x \in S |-> {x} \X (1..f[x])]
           purses == {{x} \X (1..f[x]) : x \in S}
<1>1. purse \in Surjection(S, purses)
  BY DEF Surjection
<1>2. IsFiniteSet(purses)
  <2> HIDE DEF purse, purses
  <2> QED BY <1>1, FS_Surjection
<1>3. ASSUME NEW p \in purses PROVE IsFiniteSet(p)
  <2>1. PICK x \in S : p = {x} \X (1..f[x])
    OBVIOUS
  <2>2. IsFiniteSet({x}) /\ IsFiniteSet(1..f[x])
    <3>1. f[x] \in Int
      BY DEF Integral
    <3> QED BY <3>1, FS_Singleton, CountTo
  <2> DEFINE range == 1..f[x]
  <2> HIDE DEF range
  <2>3. IsFiniteSet({x} \X range)
    BY <2>2, FS_Product DEF range
  <2> QED BY <2>1, <2>3 DEF range
<1>4. IsFiniteSet(UNION purses)
  <2> HIDE DEF purses
  <2> QED BY <1>2, <1>3, FS_UNION
<1> QED BY <1>4, FS_CardinalityType DEF Coins

\* Taking one element away takes its coins away.
LEMMA CoinsWithout ==
    ASSUME NEW f, NEW S, IsFiniteSet(S), Integral(f, S), NEW x \in S
    PROVE  Cardinality(Coins(f, S)) = Positive(f[x]) + Cardinality(Coins(f, S \ {x}))
<1> DEFINE range == 1..f[x]
           own == {x} \X range
           rest == Coins(f, S \ {x})
           worth == Positive(f[x])
<1>0. f[x] \in Int
  BY DEF Integral
<1>1. Coins(f, S) = own \cup rest /\ own \cap rest = {}
  BY DEF Coins
<1>2. IsFiniteSet(S \ {x}) /\ Integral(f, S \ {x})
  BY FS_RemoveElement DEF Integral
<1>3. IsFiniteSet(rest) /\ Cardinality(rest) \in Nat
  BY <1>2, CoinsFinite
<1>4. /\ IsFiniteSet({x}) /\ Cardinality({x}) = 1
      /\ IsFiniteSet(range) /\ Cardinality(range) = worth
  BY <1>0, FS_Singleton, CountTo
<1>5. worth \in Nat
  BY <1>0 DEF Positive
<1> HIDE DEF range, worth
<1>6. IsFiniteSet(own) /\ Cardinality(own) = 1 * worth
  <2>1. IsFiniteSet({x} \X range)
        /\ Cardinality({x} \X range) = Cardinality({x}) * Cardinality(range)
    BY <1>4, FS_Product
  <2> QED BY <2>1, <1>4
<1> HIDE DEF own, rest
<1>7. Cardinality(own \cup rest) = Cardinality(own) + Cardinality(rest) - Cardinality(own \cap rest)
  BY <1>3, <1>6, FS_Union
<1>8. Cardinality(own \cap rest) = 0
  BY <1>1, FS_EmptySet
<1>9. Cardinality(own \cup rest) = worth + Cardinality(rest)
  BY <1>5, <1>3, <1>6, <1>7, <1>8
<1> QED BY <1>1, <1>9 DEF rest, worth

\* Functions that agree on a set have the same coins there.
LEMMA SameCoins ==
    ASSUME NEW f, NEW g, NEW S, \A x \in S : f[x] = g[x]
    PROVE  Coins(f, S) = Coins(g, S)
BY DEF Coins

\* The total of the rest and of one element.
LEMMA TotalWithout ==
    ASSUME NEW f, NEW S, IsFiniteSet(S), Integral(f, S), NEW x \in S
    PROVE  Total(f, S) = f[x] + Total(f, S \ {x})
<1> DEFINE T == S \ {x}
           n == Negated(f, S)
<1>1. IsFiniteSet(T) /\ Integral(f, T) /\ T \subseteq S
  BY FS_RemoveElement DEF Integral
<1>2. Integral(n, S) /\ Integral(n, T) /\ n[x] = -f[x]
  BY DEF Integral, Negated
<1>3. Coins(Negated(f, T), T) = Coins(n, T)
  <2>1. \A y \in T : Negated(f, T)[y] = n[y]
    BY <1>1 DEF Negated
  <2> DEFINE m == Negated(f, T)
  <2> HIDE DEF T, n, m
  <2> QED BY <2>1, SameCoins DEF m
<1>4. Cardinality(Coins(f, S)) = Positive(f[x]) + Cardinality(Coins(f, T))
  BY CoinsWithout
<1>5. Cardinality(Coins(n, S)) = Positive(n[x]) + Cardinality(Coins(n, T))
  <2> HIDE DEF n
  <2> QED BY <1>2, CoinsWithout
<1>6. Cardinality(Coins(f, T)) \in Nat
  <2> HIDE DEF T
  <2> QED BY <1>1, CoinsFinite
<1>7. Cardinality(Coins(n, T)) \in Nat
  <2> HIDE DEF T, n
  <2> QED BY <1>1, <1>2, CoinsFinite
<1>8. f[x] \in Int /\ Positive(f[x]) \in Nat /\ Positive(n[x]) \in Nat
      /\ Positive(f[x]) - Positive(n[x]) = f[x]
  BY <1>2 DEF Integral, Positive
<1>9. Total(f, S) = Cardinality(Coins(f, S)) - Cardinality(Coins(n, S))
  BY DEF Total
<1>10. Total(f, T) = Cardinality(Coins(f, T)) - Cardinality(Coins(n, T))
  BY <1>3 DEF Total
<1> HIDE DEF T, n
<1> QED BY <1>4, <1>5, <1>6, <1>7, <1>8, <1>9, <1>10 DEF T

\* A total is an integer.
LEMMA TotalType ==
    ASSUME NEW f, NEW S, IsFiniteSet(S), Integral(f, S)
    PROVE  Total(f, S) \in Int
<1> DEFINE n == Negated(f, S)
<1>1. Integral(n, S)
  BY DEF Integral, Negated
<1> HIDE DEF n
<1>2. Cardinality(Coins(n, S)) \in Nat /\ Cardinality(Coins(f, S)) \in Nat
  BY <1>1, CoinsFinite
<1> QED BY <1>2 DEF Total, n

\* The total of nothing is 0.
LEMMA TotalEmpty == ASSUME NEW f PROVE Total(f, {}) = 0
<1>1. Coins(f, {}) = {} /\ Coins(Negated(f, {}), {}) = {}
  BY DEF Coins
<1> QED BY <1>1, FS_EmptySet DEF Total

\* Functions that agree on a set have the same total there.
LEMMA SameTotal ==
    ASSUME NEW f, NEW g, NEW S, \A x \in S : f[x] = g[x]
    PROVE  Total(f, S) = Total(g, S)
<1>1. Coins(f, S) = Coins(g, S)
  BY SameCoins
<1>2. Coins(Negated(f, S), S) = Coins(Negated(g, S), S)
  <2>1. Negated(f, S) = Negated(g, S)
    BY DEF Negated
  <2> QED BY <2>1
<1> QED BY <1>1, <1>2 DEF Total

\* A change at one element changes the total by as much.
LEMMA TotalChange ==
    ASSUME NEW f, NEW g, NEW S, IsFiniteSet(S), Integral(f, S), Integral(g, S), NEW x \in S,
           \A y \in S \ {x} : f[y] = g[y]
    PROVE  Total(g, S) = Total(f, S) + g[x] - f[x]
<1> DEFINE T == S \ {x}
<1>1. Total(f, S) = f[x] + Total(f, T) /\ Total(g, S) = g[x] + Total(g, T)
  BY TotalWithout
<1>2. IsFiniteSet(T) /\ Integral(f, T) /\ Integral(g, T)
  BY FS_RemoveElement DEF Integral
<1>3. f[x] \in Int /\ g[x] \in Int
  BY DEF Integral
<1> HIDE DEF T
<1>4. Total(f, T) = Total(g, T)
  BY SameTotal DEF T
<1>5. Total(f, T) \in Int
  BY <1>2, TotalType
<1> QED BY <1>1, <1>3, <1>4, <1>5

\* The recursion of the library's folds has a solution, the total.
LEMMA TotalSolves ==
    ASSUME NEW f, NEW S, IsFiniteSet(S), Integral(f, S)
    PROVE  IsTotal([s \in SUBSET S |-> Total(f, s)], f, S)
<1> DEFINE g == [s \in SUBSET S |-> Total(f, s)]
           h == [s \in SUBSET S |-> IF s = {} THEN 0
                           ELSE LET x == CHOOSE x \in s : TRUE IN f[x] + g[s \ {x}]]
<1>1. ASSUME NEW s \in SUBSET S PROVE g[s] = h[s]
  <2>1. CASE s = {}
    BY <2>1, TotalEmpty
  <2>2. CASE s # {}
    <3> DEFINE x == CHOOSE x \in s : TRUE
    <3>1. x \in s
      BY <2>2
    <3>2. IsFiniteSet(s) /\ Integral(f, s)
      BY FS_Subset DEF Integral
    <3>3. h[s] = f[x] + g[s \ {x}]
      BY <2>2
    <3> HIDE DEF x
    <3>4. Total(f, s) = f[x] + Total(f, s \ {x})
      BY <3>1, <3>2, TotalWithout
    <3>5. g[s \ {x}] = Total(f, s \ {x}) /\ g[s] = Total(f, s)
      OBVIOUS
    <3> HIDE DEF g, h
    <3> QED BY <3>3, <3>4, <3>5
  <2> QED BY <2>1, <2>2
<1>2. g = h
  BY <1>1
<1> HIDE DEF g
<1> QED BY <1>2 DEF IsTotal, g

\* And no other: the smallest set on which another one differed would not be
\* empty, and without its chosen element they would differ already.
LEMMA TotalUnique ==
    ASSUME NEW f, NEW S, IsFiniteSet(S), Integral(f, S), NEW h, IsTotal(h, f, S)
    PROVE  h[S] = Total(f, S)
<1> DEFINE bad == {s \in SUBSET S : h[s] # Total(f, s)}
<1>1. /\ h[{}] = 0
      /\ \A s \in SUBSET S : s # {} =>
            LET x == CHOOSE x \in s : TRUE IN h[s] = f[x] + h[s \ {x}]
  BY DEF IsTotal
<1>2. bad = {}
  <2> SUFFICES ASSUME bad # {} PROVE FALSE
    OBVIOUS
  <2>1. IsWellFoundedOn(StrictSubsetOrdering(S), FiniteSubsetsOf(S))
    BY FS_StrictSubsetOrderingWellFounded
  <2>2. bad \subseteq FiniteSubsetsOf(S)
    BY FS_Subset DEF FiniteSubsetsOf
  <2> HIDE DEF bad
  <2>3. PICK s \in bad : \A t \in bad : <<t, s>> \notin StrictSubsetOrdering(S)
    BY <2>1, <2>2, WFMin
  <2> USE DEF bad
  <2>4. s \in SUBSET S /\ h[s] # Total(f, s)
    OBVIOUS
  <2>5. s # {}
    BY <2>4, <1>1, TotalEmpty
  <2> DEFINE x == CHOOSE x \in s : TRUE
  <2>6. x \in s /\ h[s] = f[x] + h[s \ {x}]
    BY <2>4, <2>5, <1>1
  <2> HIDE DEF x
  <2>7. IsFiniteSet(s) /\ Integral(f, s)
    BY <2>4, FS_Subset DEF Integral
  <2>8. Total(f, s) = f[x] + Total(f, s \ {x})
    BY <2>6, <2>7, TotalWithout
  <2>9. s \ {x} \in SUBSET S /\ s \ {x} # s
    BY <2>4, <2>6
  <2>10. <<s \ {x}, s>> \in StrictSubsetOrdering(S)
    BY <2>4, <2>9 DEF StrictSubsetOrdering
  <2>11. s \ {x} \notin bad
    BY <2>3, <2>10
  <2> QED BY <2>4, <2>6, <2>8, <2>9, <2>11
<1> QED BY <1>2

-----------------------------------------------------------------------------
(* The counters and the shelf.                                              *)

\* What of a part is out with technicians, in the given state of the allocations.
Out(v, i) == MapThenSumSet(LAMBDA a : v[a].allocated - v[a].returned, AllocationsOf(i))
OutOf(v, i) == [a \in AllocationsOf(i) |-> v[a].allocated - v[a].returned]

Matches(sh, received, net, v) ==
  \A i \in Stocked :
      sh[i] # NoRow /\ sh[i].quantity = Opening[i] + received[i] + net[i] - Out(v, i)

\* An allocation nobody has made has nothing out.
Untouched == \A a \in Allocations :
                van[a].status = "ABSENT" => van[a].allocated = 0 /\ van[a].returned = 0

\* Nobody missed the row of a part that has one from the start.
RowsFound == \A s \in Sessions : DOMAIN sight[s] \cap Stocked = {}

\* The property, as a statement about any shelf, order, corrections and vans.
LEMMA MatchesIs == CountersMatchShelf <=> Matches(shelf, order.received, corrected, van)
BY DEF CountersMatchShelf, Matches, Out

\* The same after a step.
LEMMA MatchesNext == CountersMatchShelf' <=> Matches(shelf', order'.received, corrected', van')
BY DEF CountersMatchShelf, Matches, Out, MapThenSumSet, MapThenFoldSet

\* The allocations of a part are finitely many, and what each has out is a number.
LEMMA OutType ==
  ASSUME NEW v \in [Allocations -> VanShape], NEW i
  PROVE  IsFiniteSet(AllocationsOf(i)) /\ Integral(OutOf(v, i), AllocationsOf(i))
<1>1. AllocationsOf(i) \subseteq Allocations
  BY DEF AllocationsOf
<1>2. IsFiniteSet(AllocationsOf(i))
  BY <1>1, FS_Subset, FieldStockAssumption
<1>3. \A a \in AllocationsOf(i) : v[a].allocated \in Nat /\ v[a].returned \in Nat
  BY <1>1 DEF VanShape
<1> QED
  BY <1>2, <1>3 DEF Integral, OutOf

\* The library's sum is the total.
LEMMA OutIsTotal ==
  ASSUME NEW v \in [Allocations -> VanShape], NEW i
  PROVE  Out(v, i) = Total(OutOf(v, i), AllocationsOf(i)) /\ Out(v, i) \in Int
<1> DEFINE S == AllocationsOf(i)
           q == OutOf(v, i)
           IsSum(g) == g = [s \in SUBSET S |-> IF s = {} THEN 0
                            ELSE LET x == CHOOSE x \in s : TRUE
                                 IN  v[x].allocated - v[x].returned + g[s \ {x}]]
           h == CHOOSE g : IsSum(g)
<1>1. Out(v, i) = h[S]
  BY DEF Out, MapThenSumSet, MapThenFoldSet
<1>2. IsFiniteSet(S) /\ Integral(q, S)
  BY OutType
<1>3. ASSUME NEW g PROVE IsTotal(g, q, S) <=> IsSum(g)
  <2> DEFINE a == [s \in SUBSET S |-> IF s = {} THEN 0
                            ELSE LET x == CHOOSE x \in s : TRUE
                                 IN  v[x].allocated - v[x].returned + g[s \ {x}]]
             b == [s \in SUBSET S |-> IF s = {} THEN 0
                            ELSE LET x == CHOOSE x \in s : TRUE IN q[x] + g[s \ {x}]]
  <2>1. ASSUME NEW s \in SUBSET S PROVE a[s] = b[s]
    <3>1. CASE s = {}
      BY <3>1
    <3>2. CASE s # {}
      <4> DEFINE x == CHOOSE x \in s : TRUE
      <4>1. x \in S
        BY <3>2
      <4>2. /\ a[s] = v[x].allocated - v[x].returned + g[s \ {x}]
            /\ b[s] = q[x] + g[s \ {x}]
        BY <3>2
      <4> HIDE DEF x, a, b, S
      <4>3. q[x] = v[x].allocated - v[x].returned
        BY <4>1 DEF OutOf, S
      <4> HIDE DEF q
      <4> QED
        BY <4>2, <4>3
    <3> QED
      BY <3>1, <3>2
  <2>2. a = b
    BY <2>1
  <2> QED
    BY <2>2 DEF IsTotal
<1> HIDE DEF q, S
<1>4. \E g : IsTotal(g, q, S)
  BY <1>2, TotalSolves
<1>5. \E g : IsSum(g)
  <2> HIDE DEF IsSum
  <2> QED
    BY <1>3, <1>4
<1>6. IsSum(h)
  <2> HIDE DEF IsSum
  <2> QED
    BY <1>5
<1>7. IsTotal(h, q, S)
  <2> HIDE DEF IsSum, h
  <2> QED
    BY <1>3, <1>6
<1> HIDE DEF h
<1>8. h[S] = Total(q, S)
  BY <1>2, <1>7, TotalUnique
<1>9. Total(q, S) \in Int
  BY <1>2, TotalType
<1> QED
  BY <1>1, <1>8, <1>9 DEF q, S

\* Vans that differ in nothing given out or returned have as much out.
LEMMA OutStays ==
  ASSUME NEW v \in [Allocations -> VanShape], NEW w \in [Allocations -> VanShape],
         \A a \in Allocations : /\ w[a].allocated = v[a].allocated
                                /\ w[a].returned = v[a].returned,
         NEW i
  PROVE  Out(w, i) = Out(v, i)
<1>1. OutOf(w, i) = OutOf(v, i)
  BY DEF OutOf, AllocationsOf
<1> QED
  BY <1>1, OutIsTotal

\* What one allocation has out changes what is out of its part, and of no other.
LEMMA OutChange ==
  ASSUME NEW v \in [Allocations -> VanShape], NEW w \in [Allocations -> VanShape],
         NEW a \in Allocations, \A b \in Allocations \ {a} : w[b] = v[b], NEW i \in Items
  PROVE  Out(w, i) = IF i = ItemOf[a]
                     THEN Out(v, i) + (w[a].allocated - w[a].returned)
                                    - (v[a].allocated - v[a].returned)
                     ELSE Out(v, i)
<1> DEFINE S == AllocationsOf(i)
           f == OutOf(v, i)
           g == OutOf(w, i)
<1>1. IsFiniteSet(S) /\ Integral(f, S) /\ Integral(g, S)
  BY OutType
<1>2. \A b \in S : /\ f[b] = v[b].allocated - v[b].returned
                   /\ g[b] = w[b].allocated - w[b].returned
                   /\ b \in Allocations
  BY DEF OutOf, AllocationsOf
<1>3. a \in S <=> i = ItemOf[a]
  BY DEF AllocationsOf
<1>4. Out(w, i) = Total(g, S) /\ Out(v, i) = Total(f, S)
  BY OutIsTotal
<1> HIDE DEF S, f, g
<1>5. CASE a \in S
  <2>1. \A b \in S \ {a} : f[b] = g[b]
    BY <1>2
  <2>2. Total(g, S) = Total(f, S) + g[a] - f[a]
    BY <1>1, <1>5, <2>1, TotalChange
  <2> QED
    BY <1>2, <1>3, <1>4, <1>5, <2>2
<1>6. CASE a \notin S
  <2>1. \A b \in S : f[b] = g[b]
    BY <1>2, <1>6
  <2>2. Total(g, S) = Total(f, S)
    BY <2>1, SameTotal
  <2> QED
    BY <1>3, <1>4, <1>6, <2>2
<1> QED
  BY <1>5, <1>6

\* A row that was there from the start is seen as it is.
LEMMA FoundIsSeen ==
  ASSUME TypeOK, CountersMatchShelf, RowsFound, NEW s \in Sessions, NEW i \in Stocked
  PROVE  i \in Items /\ shelf[i] \in Balances /\ Balance(Seen(s, i)) = shelf[i]
<1>1. i \in Items /\ shelf[i] # NoRow
  BY FieldStockAssumption DEF CountersMatchShelf
<1>2. shelf[i] \in Balances
  BY <1>1, TypeParts DEF Rows
<1>3. i \notin DOMAIN sight[s]
  BY DEF RowsFound
<1> QED
  BY <1>1, <1>2, <1>3 DEF Seen, Balance

\* What a movement does to the number on the shelf.
LEMMA MovedMoves ==
  ASSUME TypeOK, CountersMatchShelf, RowsFound, NEW s \in Sessions, NEW i \in Stocked,
         NEW kind, NEW n \in Nat
  PROVE  LET after == Moved(s, i, Movement(kind, n)) IN
         after # NoRow /\ after.quantity = shelf[i].quantity + PhysicalDelta(kind, n)
<1>1. i \in Items /\ shelf[i] \in Balances
      /\ Moved(s, i, Movement(kind, n)) = After(shelf[i], Movement(kind, n))
  BY FoundIsSeen DEF Moved
<1>2. After(shelf[i], Movement(kind, n)).quantity = shelf[i].quantity + PhysicalDelta(kind, n)
  BY DEF After, Movement
<1>3. Moved(s, i, Movement(kind, n)) \in Balances
  BY <1>1, MovedType
<1> QED
  BY <1>1, <1>2, <1>3, FieldStockAssumption

\* So does a post, to the number of its part.
LEMMA PostMoves ==
  ASSUME TypeOK, CountersMatchShelf, RowsFound, NEW s \in Sessions, NEW i \in Items,
         NEW kind, NEW n \in Nat, Post(s, i, kind, n)
  PROVE  /\ i \in Stocked => /\ shelf'[i] # NoRow
                             /\ shelf'[i].quantity = shelf[i].quantity + PhysicalDelta(kind, n)
         /\ \A j \in Items \ {i} : shelf'[j] = shelf[j]
<1>1. shelf \in [Items -> Rows]
  BY TypeParts
<1>2. shelf' = [shelf EXCEPT ![i] = Moved(s, i, Movement(kind, n))]
  BY DEF Post
<1> QED
  BY <1>1, <1>2, MovedMoves

\* What the counts of a part are made of.
LEMMA CountTypes ==
  ASSUME TypeOK, CountersMatchShelf, NEW i \in Stocked
  PROVE  /\ i \in Items /\ shelf[i] # NoRow
         /\ shelf[i].quantity \in Int /\ Opening[i] \in Nat /\ order.received[i] \in Nat
         /\ corrected[i] \in Int /\ van \in [Allocations -> VanShape] /\ Out(van, i) \in Int
<1>1. i \in Items /\ shelf[i] # NoRow
  BY FieldStockAssumption DEF CountersMatchShelf
<1> QED
  BY <1>1, TypeParts, OutIsTotal, FieldStockAssumption DEF Balances, OrderShape, Rows

\* The movements' directions.
LEMMA Directions ==
  ASSUME NEW n \in Nat
  PROVE  /\ PhysicalDelta("IN_PURCHASE", n) = n
         /\ PhysicalDelta("IN_RETURN_TECHNICIAN", n) = n
         /\ PhysicalDelta("OUT_TO_TECHNICIAN", n) = -n
         /\ PhysicalDelta("OUT_TO_BOOKING", n) = -n
BY DEF PhysicalDelta, InflowKinds, OutflowKinds

\* A step that moves nothing and gives nothing out keeps the match.
LEMMA MatchAside ==
  ASSUME TypeOK, TypeOK', CountersMatchShelf, Untouched,
         shelf' = shelf, order'.received = order.received, corrected' = corrected,
         \A a \in Allocations : /\ van'[a].allocated = van[a].allocated
                                /\ van'[a].returned = van[a].returned
                                /\ van'[a].status = "ABSENT" => van[a].status = "ABSENT"
  PROVE  CountersMatchShelf' /\ Untouched'
<1>1. Matches(shelf, order.received, corrected, van)
  BY MatchesIs
<1>2. van \in [Allocations -> VanShape] /\ van' \in [Allocations -> VanShape]
  BY TypeParts, NextTypeParts
<1>3. \A i \in Stocked : Out(van', i) = Out(van, i)
  BY <1>2, OutStays
<1>4. Matches(shelf', order'.received, corrected', van')
  BY <1>1, <1>3 DEF Matches
<1> QED
  BY <1>4, MatchesNext DEF Untouched

\* The steps of the order keep the match: what is received is on the shelf.
LEMMA OrderMatch ==
  ASSUME TypeOK, TypeOK', CountersMatchShelf, RowsFound, Untouched, NEW s \in Sessions,
         OrderStep(s)
  PROVE  CountersMatchShelf' /\ Untouched'
<1>1. CASE \/ \E next \in Moves : ReadMove(s, next)
           \/ \E pieces \in [Items -> 0..MaxPieces] : ReadReceive(s, pieces)
           \/ Bump(s) \/ Recount(s)
  <2>1. shelf' = shelf /\ order' = order /\ van' = van /\ corrected' = corrected
    BY <1>1 DEF ReadMove, ReadReceive, Begin, Bump, Recount
  <2> QED
    BY <2>1, MatchAside
<1>2. CASE Move(s)
  <2>1. shelf' = shelf /\ order'.received = order.received /\ van' = van
        /\ corrected' = corrected
    BY <1>2, TypeParts DEF Move, OrderShape
  <2> QED
    BY <2>1, MatchAside
<1>3. CASE Receive(s)
  <2> DEFINE r == request[s]
  <2>1. r \in ReceiptRequests
    BY <1>3, RequestTypes DEF Receive
  <2>2. r.pieces \in [Items -> Nat]
    BY <2>1 DEF ReceiptRequests
  <2>3. /\ shelf' = [i \in Items |->
                        IF i \in NamedIn(r.pieces)
                        THEN Moved(s, i, Movement("IN_PURCHASE", r.pieces[i])) ELSE shelf[i]]
        /\ order'.received = [i \in Items |-> order.received[i] + r.pieces[i]]
        /\ van' = van /\ corrected' = corrected
    BY <1>3 DEF Receive
  <2> HIDE DEF r
  <2>4. ASSUME NEW i \in Stocked
        PROVE  /\ shelf'[i] # NoRow
               /\ shelf'[i].quantity
                    = Opening[i] + order'.received[i] + corrected[i] - Out(van, i)
    <3> DEFINE n == r.pieces[i]
    <3>1. i \in Items /\ n \in Nat
      BY <2>2, CountTypes
    <3>2. shelf'[i] # NoRow /\ shelf'[i].quantity = shelf[i].quantity + n
      <4>1. CASE i \in NamedIn(r.pieces)
        <5>1. shelf'[i] = Moved(s, i, Movement("IN_PURCHASE", n))
          BY <2>3, <3>1, <4>1
        <5> HIDE DEF n
        <5> QED
          BY <3>1, <5>1, MovedMoves, Directions
      <4>2. CASE i \notin NamedIn(r.pieces)
        <5>1. shelf'[i] = shelf[i] /\ n = 0
          BY <2>3, <3>1, <4>2 DEF NamedIn
        <5> HIDE DEF n
        <5> QED
          BY <5>1, CountTypes
      <4> QED
        BY <4>1, <4>2
    <3>3. order'.received[i] = order.received[i] + n
      BY <2>3, <3>1
    <3>4. shelf[i].quantity = Opening[i] + order.received[i] + corrected[i] - Out(van, i)
      BY MatchesIs DEF Matches
    <3> HIDE DEF n
    <3> QED
      BY <3>1, <3>2, <3>3, <3>4, CountTypes
  <2>5. Matches(shelf', order'.received, corrected', van')
    BY <2>3, <2>4 DEF Matches
  <2> QED
    BY <2>3, <2>5, MatchesNext DEF Untouched
<1> QED
  BY <1>1, <1>2, <1>3 DEF OrderStep

\* A post and the counter of its allocation keep the match.
LEMMA PostMatch ==
  ASSUME TypeOK, TypeOK', CountersMatchShelf, RowsFound, Untouched, NEW s \in Sessions,
         NEW a \in Allocations, NEW kind, NEW n \in Nat, Post(s, ItemOf[a], kind, n),
         order' = order, corrected' = corrected,
         \A b \in Allocations \ {a} : van'[b] = van[b],
         (van'[a].allocated - van'[a].returned) + PhysicalDelta(kind, n)
            = van[a].allocated - van[a].returned,
         van'[a].status # "ABSENT"
  PROVE  CountersMatchShelf' /\ Untouched'
<1>1. ItemOf[a] \in Items
  BY FieldStockAssumption
<1>2. /\ ItemOf[a] \in Stocked =>
            /\ shelf'[ItemOf[a]] # NoRow
            /\ shelf'[ItemOf[a]].quantity = shelf[ItemOf[a]].quantity + PhysicalDelta(kind, n)
      /\ \A j \in Items \ {ItemOf[a]} : shelf'[j] = shelf[j]
  BY <1>1, PostMoves
<1>3. PhysicalDelta(kind, n) \in Int
  BY DEF PhysicalDelta
<1>4. van \in [Allocations -> VanShape] /\ van' \in [Allocations -> VanShape]
  BY TypeParts, NextTypeParts
<1>5. /\ van[a].allocated - van[a].returned \in Int
      /\ van'[a].allocated - van'[a].returned \in Int
  BY <1>4 DEF VanShape
<1>6. ASSUME NEW i \in Stocked
      PROVE  /\ shelf'[i] # NoRow
             /\ shelf'[i].quantity
                  = Opening[i] + order'.received[i] + corrected'[i] - Out(van', i)
  <2>0. i \in Items
    BY CountTypes
  <2> DEFINE was == van[a].allocated - van[a].returned
             now == van'[a].allocated - van'[a].returned
             delta == PhysicalDelta(kind, n)
  <2>1. Out(van', i) = IF i = ItemOf[a] THEN Out(van, i) + now - was ELSE Out(van, i)
    BY <1>4, <2>0, OutChange
  <2>2. shelf[i].quantity = Opening[i] + order.received[i] + corrected[i] - Out(van, i)
    BY MatchesIs DEF Matches
  <2>3. now + delta = was /\ now \in Int /\ was \in Int /\ delta \in Int
    BY <1>3, <1>5
  <2> HIDE DEF was, now, delta
  <2>4. CASE i = ItemOf[a]
    <3>1. shelf'[i] # NoRow /\ shelf'[i].quantity = shelf[i].quantity + delta
      BY <1>2, <2>4 DEF delta
    <3>2. /\ shelf[i].quantity \in Int /\ Opening[i] \in Nat /\ order.received[i] \in Nat
          /\ corrected[i] \in Int /\ Out(van, i) \in Int
      BY CountTypes
    <3>3. Out(van', i) = Out(van, i) + now - was
      BY <2>1, <2>4
    <3>4. shelf'[i].quantity = Opening[i] + order.received[i] + corrected[i] - Out(van', i)
      BY <2>2, <2>3, <3>1, <3>2, <3>3
    <3> QED
      BY <3>1, <3>4
  <2>5. CASE i # ItemOf[a]
    <3>1. shelf'[i] = shelf[i] /\ Out(van', i) = Out(van, i)
      BY <1>2, <2>0, <2>1, <2>5
    <3> QED
      BY <2>2, <3>1, CountTypes
  <2> QED
    BY <2>4, <2>5
<1>7. Matches(shelf', order'.received, corrected', van')
  BY <1>6 DEF Matches
<1>8. Untouched'
  BY DEF Untouched
<1> QED
  BY <1>7, <1>8, MatchesNext

\* The steps of the allocations keep the match: a return is on the shelf again, and
\* a usage moves nothing there.
LEMMA VanMatch ==
  ASSUME TypeOK, TypeOK', CountersMatchShelf, RowsFound, Untouched, NEW s \in Sessions,
         VanStep(s)
  PROVE  CountersMatchShelf' /\ Untouched'
<1>1. CASE \E a \in Allocations :
              \/ \E n \in Pieces : ReadAllocate(s, a, n)
              \/ ReadAcknowledge(s, a)
              \/ \E op \in {"use", "return"}, n \in Pieces : ReadUse(s, a, op, n)
              \/ ReadReconcile(s, a)
  <2>1. shelf' = shelf /\ order' = order /\ van' = van /\ corrected' = corrected
    BY <1>1 DEF ReadAllocate, ReadAcknowledge, ReadUse, ReadReconcile, Begin
  <2> QED
    BY <2>1, MatchAside
<1>2. ASSUME NEW a \in Allocations, NEW status,
             van' = [van EXCEPT ![a].status = status], status # "ABSENT",
             shelf' = shelf, order' = order, corrected' = corrected
      PROVE  CountersMatchShelf' /\ Untouched'
  <2>1. \A b \in Allocations : /\ van'[b].allocated = van[b].allocated
                               /\ van'[b].returned = van[b].returned
                               /\ van'[b].status = "ABSENT" => van[b].status = "ABSENT"
    BY <1>2, TypeParts DEF VanShape
  <2> QED
    BY <1>2, <2>1, MatchAside
<1>3. CASE Acknowledge(s)
  <2>1. request[s].on \in Allocations
    BY <1>3, RequestTypes DEF Acknowledge, AckRequests
  <2> QED
    BY <1>2, <1>3, <2>1 DEF Acknowledge
<1>4. CASE Reconcile(s)
  <2>1. request[s].on \in Allocations
    BY <1>4, RequestTypes DEF Reconcile, ReconcileRequests
  <2> QED
    BY <1>2, <1>4, <2>1 DEF Reconcile
<1>5. CASE Use(s)
  <2>1. request[s] \in UseRequests
    BY <1>5, RequestTypes DEF Use
  <2>2. PICK a \in Allocations : a = request[s].on
    BY <2>1 DEF UseRequests
  <2>3. /\ van' = [van EXCEPT ![a] = [status |-> "USED", allocated |-> @.allocated,
                                      used |-> @.used + request[s].n, returned |-> @.returned]]
        /\ Post(s, ItemOf[a], "OUT_TO_BOOKING", 0)
        /\ order' = order /\ corrected' = corrected
    BY <1>5, <2>2 DEF Use
  <2>4. /\ van'[a].status = "USED" /\ van'[a].allocated = van[a].allocated
        /\ van'[a].returned = van[a].returned
        /\ \A b \in Allocations \ {a} : van'[b] = van[b]
    BY <2>3, TypeParts
  <2>5. PhysicalDelta("OUT_TO_BOOKING", 0) = 0
    <3>1. ASSUME NEW n \in Nat
          PROVE  /\ PhysicalDelta("OUT_TO_BOOKING", n) \in Int
                 /\ n + PhysicalDelta("OUT_TO_BOOKING", n) = 0
      BY Directions
    <3> QED
      BY <3>1
  <2>6. van[a].allocated \in Nat /\ van[a].returned \in Nat
    BY TypeParts DEF VanShape
  <2>7. (van'[a].allocated - van'[a].returned) + PhysicalDelta("OUT_TO_BOOKING", 0)
          = van[a].allocated - van[a].returned
    BY <2>4, <2>5, <2>6
  <2> QED
    BY <2>3, <2>4, <2>7, PostMatch
<1>6. CASE Return(s)
  <2>1. request[s] \in UseRequests
    BY <1>6, RequestTypes DEF Return
  <2>2. PICK a \in Allocations, n \in Nat : a = request[s].on /\ n = request[s].n
    BY <2>1 DEF UseRequests
  <2>3. /\ van' = [van EXCEPT ![a] = [status |-> "RETURNED", allocated |-> @.allocated,
                                      used |-> @.used, returned |-> @.returned + n]]
        /\ Post(s, ItemOf[a], "IN_RETURN_TECHNICIAN", n)
        /\ order' = order /\ corrected' = corrected
    BY <1>6, <2>2 DEF Return
  <2>4. /\ van'[a].status = "RETURNED" /\ van'[a].allocated = van[a].allocated
        /\ van'[a].returned = van[a].returned + n
        /\ \A b \in Allocations \ {a} : van'[b] = van[b]
    BY <2>3, TypeParts
  <2>5. van[a].allocated \in Nat /\ van[a].returned \in Nat
    BY TypeParts DEF VanShape
  <2>6. (van'[a].allocated - van'[a].returned) + PhysicalDelta("IN_RETURN_TECHNICIAN", n)
          = van[a].allocated - van[a].returned
    BY <2>4, <2>5, Directions
  <2> QED
    BY <2>3, <2>4, <2>6, PostMatch
<1>7. CASE Allocate(s)
  <2>1. request[s] \in UseRequests
    BY <1>7, RequestTypes DEF Allocate
  <2>2. PICK a \in Allocations, n \in Nat : a = request[s].on /\ n = request[s].n
    BY <2>1 DEF UseRequests
  <2>3. /\ van[a].allocated = 0 /\ van[a].returned = 0
        /\ Post(s, ItemOf[a], "OUT_TO_TECHNICIAN", n) /\ order' = order /\ corrected' = corrected
        /\ van'[a].status = "ALLOCATED" /\ van'[a].allocated = n /\ van'[a].returned = 0
        /\ \A b \in Allocations \ {a} : van'[b] = van[b]
    BY <1>7, <2>2, TypeParts DEF Allocate, Untouched
  <2>4. (van'[a].allocated - van'[a].returned) + PhysicalDelta("OUT_TO_TECHNICIAN", n)
          = van[a].allocated - van[a].returned
    BY <2>3, Directions
  <2> QED
    BY <2>3, <2>4, PostMatch
<1> QED
  BY <1>1, <1>3, <1>4, <1>5, <1>6, <1>7 DEF VanStep

\* So do corrections: the net is counted.
LEMMA CountMatch ==
  ASSUME TypeOK, TypeOK', CountersMatchShelf, RowsFound, Untouched, NEW s \in Sessions,
         CountStep(s)
  PROVE  CountersMatchShelf' /\ Untouched'
<1>1. CASE \E i \in Items, kind \in Corrections : ReadAdjust(s, i, kind)
  <2>1. shelf' = shelf /\ order' = order /\ van' = van /\ corrected' = corrected
    BY <1>1 DEF ReadAdjust, Begin
  <2> QED
    BY <2>1, MatchAside
<1>2. CASE Adjust(s)
  <2>1. request[s] \in AdjustRequests
    BY <1>2, RequestTypes DEF Adjust
  <2>2. PICK i \in Items, kind \in Corrections : i = request[s].item /\ kind = request[s].kind
    BY <2>1 DEF AdjustRequests
  <2> DEFINE delta == PhysicalDelta(kind, 1)
  <2>3. /\ Post(s, i, kind, 1) /\ order' = order /\ van' = van
        /\ corrected' = [corrected EXCEPT ![i] = @ + delta]
    BY <1>2, <2>2 DEF Adjust
  <2>4. delta \in Int
    BY DEF PhysicalDelta
  <2>5. /\ i \in Stocked => /\ shelf'[i] # NoRow
                            /\ shelf'[i].quantity = shelf[i].quantity + delta
        /\ \A j \in Items \ {i} : shelf'[j] = shelf[j]
    BY <2>3, PostMoves
  <2> HIDE DEF delta
  <2>6. corrected'[i] = corrected[i] + delta /\ \A j \in Items \ {i} : corrected'[j] = corrected[j]
    BY <2>3, TypeParts
  <2>7. ASSUME NEW j \in Stocked
        PROVE  /\ shelf'[j] # NoRow
               /\ shelf'[j].quantity
                    = Opening[j] + order'.received[j] + corrected'[j] - Out(van, j)
    <3>1. shelf[j].quantity = Opening[j] + order.received[j] + corrected[j] - Out(van, j)
      BY MatchesIs DEF Matches
    <3>2. CASE j = i
      BY <2>3, <2>4, <2>5, <2>6, <3>1, <3>2, CountTypes
    <3>3. CASE j # i
      BY <2>3, <2>5, <2>6, <3>1, <3>3, CountTypes
    <3> QED
      BY <3>2, <3>3
  <2>8. Matches(shelf', order'.received, corrected', van')
    BY <2>3, <2>7 DEF Matches
  <2> QED
    BY <2>3, <2>8, MatchesNext DEF Untouched
<1> QED
  BY <1>1, <1>2 DEF CountStep

\* No step makes a request miss a row that is there.
LEMMA RowsFoundStep ==
  ASSUME TypeOK, CountersMatchShelf, RowsFound, [Next]_vars
  PROVE  RowsFound'
<1>1. sight = [s \in Sessions |-> sight[s]]
  BY TypeParts DEF AreSights
<1>2. \A i \in Stocked : shelf[i] # NoRow
  BY DEF CountersMatchShelf
<1>3. ASSUME UNCHANGED sight PROVE RowsFound'
  BY <1>3 DEF RowsFound
<1>4. ASSUME NEW s \in Sessions, NEW r, NEW parts, Begin(s, r, parts) PROVE RowsFound'
  <2>1. DOMAIN sight'[s] = {j \in parts : shelf[j] = NoRow}
    BY <1>1, <1>4 DEF Begin
  <2>2. \A q \in Sessions \ {s} : sight'[q] = sight[q]
    BY <1>1, <1>4 DEF Begin
  <2> QED
    BY <1>2, <2>1, <2>2 DEF RowsFound
<1>5. ASSUME NEW s \in Sessions, End(s) PROVE RowsFound'
  <2>1. DOMAIN sight'[s] = {}
    BY <1>1, <1>5 DEF End, Blank
  <2>2. \A q \in Sessions \ {s} : sight'[q] = sight[q]
    BY <1>1, <1>5 DEF End
  <2> QED
    BY <2>1, <2>2 DEF RowsFound
<1>6. ASSUME NEW s \in Sessions, NEW i \in Items, Look(s, i) PROVE RowsFound'
  <2>1. DOMAIN sight'[s] = DOMAIN sight[s] /\ \A q \in Sessions \ {s} : sight'[q] = sight[q]
    BY <1>1, <1>6 DEF Look
  <2> QED
    BY <2>1 DEF RowsFound
<1>7. ASSUME NEW s \in Sessions, OrderStep(s) PROVE RowsFound'
  BY <1>3, <1>4, <1>5, <1>7 DEF OrderStep, ReadMove, Move, ReadReceive, Bump, Recount,
                               Receive, GoOn
<1>8. ASSUME NEW s \in Sessions, VanStep(s) PROVE RowsFound'
  BY <1>4, <1>5, <1>8 DEF VanStep, ReadAllocate, Allocate, ReadAcknowledge, Acknowledge,
                          ReadUse, Use, Return, ReadReconcile, Reconcile
<1>9. ASSUME NEW s \in Sessions, CountStep(s) \/ Abort(s) PROVE RowsFound'
  BY <1>4, <1>5, <1>9 DEF CountStep, ReadAdjust, Adjust, Abort
<1> QED
  BY <1>3, <1>6, <1>7, <1>8, <1>9 DEF Next, vars

Accounted == CountersMatchShelf /\ RowsFound /\ Untouched

\* Every step keeps the match.
LEMMA NextMatch == TypeOK /\ Accounted /\ [Next]_vars => Accounted'
<1> SUFFICES ASSUME TypeOK, CountersMatchShelf, RowsFound, Untouched, [Next]_vars
             PROVE  CountersMatchShelf' /\ Untouched'
  BY RowsFoundStep DEF Accounted
<1>0. TypeOK'
  BY NextType
<1>1. ASSUME UNCHANGED <<shelf, order, van, corrected>> PROVE CountersMatchShelf' /\ Untouched'
  BY <1>0, <1>1, MatchAside
<1>2. ASSUME NEW s \in Sessions, Abort(s) PROVE CountersMatchShelf' /\ Untouched'
  BY <1>1, <1>2 DEF Abort
<1>3. ASSUME NEW s \in Sessions, NEW i \in Items, Look(s, i)
      PROVE  CountersMatchShelf' /\ Untouched'
  BY <1>1, <1>3 DEF Look
<1> QED
  BY <1>0, <1>1, <1>2, <1>3, OrderMatch, VanMatch, CountMatch DEF Next, vars

\* At first the shelf holds what it opened with.
LEMMA InitMatch == Init => Accounted
<1> SUFFICES ASSUME Init PROVE Accounted
  OBVIOUS
<1>1. Untouched /\ RowsFound
  BY DEF Init, Untouched, RowsFound, Blank
<1>2. TypeOK
  BY InitType
<1>3. ASSUME NEW i \in Items PROVE Out(van, i) = 0
  <2> DEFINE S == AllocationsOf(i)
             f == OutOf(van, i)
  <2>1. \A a \in S : f[a] = 0
    <3>1. \A a \in S : a \in Allocations
      BY DEF AllocationsOf
    <3>2. \A a \in S : van[a].allocated = 0 /\ van[a].returned = 0
      BY <3>1 DEF Init
    <3> QED
      BY <3>2 DEF OutOf
  <2>2. Out(van, i) = Total(f, S)
    BY <1>2, TypeParts, OutIsTotal
  <2> HIDE DEF S, f
  <2>3. \A a \in S : 1..f[a] = {} /\ 1..(Negated(f, S)[a]) = {}
    BY <2>1 DEF Negated
  <2>4. Coins(f, S) = {} /\ Coins(Negated(f, S), S) = {}
    BY <2>3 DEF Coins
  <2>5. Total(f, S) = 0
    BY <2>4, FS_EmptySet DEF Total
  <2> QED
    BY <2>2, <2>5
<1>4. ASSUME NEW i \in Stocked
      PROVE  /\ i \in Items /\ shelf[i] = [NoBalance EXCEPT !.quantity = Opening[i]]
             /\ order.received[i] = 0 /\ corrected[i] = 0 /\ Opening[i] \in Nat
  BY FieldStockAssumption DEF Init
<1>5. ASSUME NEW i \in Stocked PROVE shelf[i] # NoRow /\ shelf[i].quantity = Opening[i]
  <2> DEFINE opening == [NoBalance EXCEPT !.quantity = Opening[i]]
  <2>1. opening \in Balances /\ opening.quantity = Opening[i]
    BY <1>4 DEF NoBalance, Balances
  <2>2. shelf[i] = opening
    BY <1>4
  <2> HIDE DEF opening
  <2> QED
    BY <2>1, <2>2, FieldStockAssumption
<1>6. ASSUME NEW i \in Stocked
      PROVE  /\ shelf[i] # NoRow
             /\ shelf[i].quantity
                  = Opening[i] + order.received[i] + corrected[i] - Out(van, i)
  <2>1. /\ order.received[i] = 0 /\ corrected[i] = 0 /\ Opening[i] \in Nat
        /\ Out(van, i) = 0
    BY <1>3, <1>4
  <2>2. shelf[i] # NoRow /\ shelf[i].quantity = Opening[i]
    BY <1>5
  <2> QED
    BY <2>1, <2>2
<1>7. Matches(shelf, order.received, corrected, van)
  BY <1>6 DEF Matches
<1> QED
  BY <1>1, <1>7, MatchesIs DEF Accounted

\* The order's and the allocations' own counters account for every piece on the
\* shelf, of every part that had a stock row from the start: CountersMatchShelf of
\* FieldStock.
THEOREM ShelfIsAccountedFor == Spec => []CountersMatchShelf
<1>1. Accounted => CountersMatchShelf
  BY DEF Accounted
<1> QED
  BY <1>1, InitMatch, NextMatch, TypeCorrect, PTL DEF Spec
=============================================================================
