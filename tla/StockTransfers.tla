---------------------------- MODULE StockTransfers ----------------------------
(***************************************************************************)
(* StockTransfersService: moving pieces between warehouses in steps that   *)
(* staff request, approve, dispatch, receive or call off, while            *)
(* technicians draw on the same shelves.                                   *)
(*                                                                         *)
(* Every operation is one READ COMMITTED transaction that reads the        *)
(* transfer without a lock, posts its ledger movements and writes the new  *)
(* status.  It is two actions here: Read, and Commit or Abort.  A post     *)
(* locks its stock row up to the commit, so it takes place at the commit,  *)
(* as one step of the atomic stock account that StockLedger implements.    *)
(*                                                                         *)
(* The account needs a row to lock.  A warehouse that never held an item   *)
(* has none: there FOR UPDATE locks nothing, and a transaction that issues *)
(* it before the row appears may Look at the balance of a row it has not   *)
(* locked, and overwrite the row with what it computed from that.          *)
(***************************************************************************)
EXTENDS StockMovement, Sequences, FiniteSets, FiniteSetsExt, Functions

CONSTANTS Transfers, Lines, Warehouses, Items,
          LinesOf,     \* LinesOf[t]: the lines of transfer t, in order
          ItemOf, Requested,      \* of each line
          Source, Dest,           \* of each transfer
          OpeningQuantity,        \* OpeningQuantity[<<w, i>>], of the rows there at first
          Sessions, NoRequest, NoRow,
          MaxCount,       \* bound: pieces counted on a receipt's line
          MaxAllocations  \* bound: allocations to technicians in a behaviour

Cells == Warehouses \X Items
WarmCells == DOMAIN OpeningQuantity

ASSUME TransferAssumption ==
    /\ \A t \in Transfers : /\ LinesOf[t] \in Seq(Lines)
                            /\ Source[t] \in Warehouses /\ Dest[t] \in Warehouses
                            /\ Source[t] # Dest[t]
    /\ \A l \in Lines : ItemOf[l] \in Items /\ Requested[l] \in Nat \ {0}
    /\ WarmCells \subseteq Cells
    /\ OpeningQuantity \in [WarmCells -> Nat]
    /\ NoRow \notin Balances
    /\ MaxCount \in Nat

VARIABLES stock,     \* warehouse_stocks: stock[c], or NoRow
          posted,    \* inventory_ledger: the movements on record
          transfer,  \* stock_transfers and their items
          allocated, \* pieces drawn from each cell by technicians
          request    \* the transaction each session has open

vars == <<stock, posted, transfer, allocated, request>>

\* "ABSENT" stands for a transfer nobody has requested yet.  Nothing makes a
\* DRAFT, so the schema's seventh status is left out.
Statuses == {"ABSENT", "REQUESTED", "APPROVED", "IN_TRANSIT", "RECEIVED",
             "CANCELLED", "REJECTED"}

Transitions == [ABSENT     |-> {},
                REQUESTED  |-> {"APPROVED", "REJECTED", "CANCELLED"},
                APPROVED   |-> {"IN_TRANSIT", "CANCELLED"},
                IN_TRANSIT |-> {"RECEIVED"},
                RECEIVED   |-> {}, CANCELLED |-> {}, REJECTED |-> {}]

\* externalRef transfer:<id>:<stage>:<line>.
Movement(t, l, wh, stage, kind, n) ==
    [cell |-> <<wh, ItemOf[l]>>, kind |-> kind, quantity |-> n,
     ref |-> [transfer |-> t, stage |-> stage, line |-> l],
     hasCost |-> FALSE, unitCost |-> 0, allowNegative |-> FALSE]

NoBalance == [quantity |-> 0, reserved |-> 0, avgCost |-> 0]

\* A row that is missing is created with nothing on it.  Costs play no part here.
Balance(row) == IF row = NoRow THEN NoBalance ELSE row

\* Mutant of PostOne: a refused movement is left out and the others are kept.
PostsWhatItCan(books, m) ==
    IF \/ \E p \in books.posted : p.ref = m.ref
       \/ ~Admissible(Balance(books.stock[m.cell]), m)
    THEN books
    ELSE [books EXCEPT !.stock[m.cell] = After(Balance(@), m), !.posted = @ \cup {m}]

\* runInTx on the books: a reference that is on record changes nothing, an
\* inadmissible movement fails the whole transaction.
PostOne(books, m) ==
    IF ~books.ok \/ \E p \in books.posted : p.ref = m.ref THEN books
    ELSE IF ~Admissible(Balance(books.stock[m.cell]), m) THEN [books EXCEPT !.ok = FALSE]
    ELSE [books EXCEPT !.stock[m.cell] = After(Balance(@), m), !.posted = @ \cup {m}]

\* approve: each line's pieces are set aside at the source.
Reservations(books, t, l) ==
    PostOne(books, Movement(t, l, Source[t], "reserve", "RESERVE", Requested[l]))

\* Mutant of Shipments: the stock row is not debited.
ReleasesOnly(books, t, l) ==
    PostOne(books, Movement(t, l, Source[t], "release", "RELEASE_RESERVE", Requested[l]))

\* dispatch: the reservation is released and the pieces leave the source.
Shipments(books, t, l) ==
    PostOne(PostOne(books,
        Movement(t, l, Source[t], "release", "RELEASE_RESERVE", Requested[l])),
        Movement(t, l, Source[t], "dispatch", "OUT_TRANSFER", Requested[l]))

\* cancel: what an approved transfer set aside is free again.
CancelReleases(books, t, l) ==
    PostOne(books,
        Movement(t, l, Source[t], "cancel-release", "RELEASE_RESERVE", Requested[l]))

\* Mutant of Receipts: a reference that is new for every request.
ReceiptsByTime(books, t, l, counted) ==
    IF l \in DOMAIN counted /\ counted[l].posted > 0
    THEN LET m == Movement(t, l, Dest[t], "receive", "IN_TRANSFER", counted[l].posted)
         IN  PostOne(books, [m EXCEPT !.ref = [transfer |-> t, stage |-> "receive",
                                 line |-> l, time |-> Cardinality(posted)]])
    ELSE books

\* receive: a receipt names some of the lines, and one counted as 0 posts nothing.
\* A line may be named twice: the first count above 0 is posted, and the last one
\* is what stays in the transfer's line.
Receipts(books, t, l, counted) ==
    IF l \in DOMAIN counted /\ counted[l].posted > 0
    THEN PostOne(books, Movement(t, l, Dest[t], "receive", "IN_TRANSFER",
                                 counted[l].posted))
    ELSE books

\* What an operation posts for one line of its transfer.
PostLine(books, r, l) ==
    CASE r.op = "approve"  -> Reservations(books, r.transfer, l)
      [] r.op = "dispatch" -> Shipments(books, r.transfer, l)
      [] r.op = "receive"  -> Receipts(books, r.transfer, l, r.counted)
      [] r.op = "cancel" /\ r.seen = "APPROVED" -> CancelReleases(books, r.transfer, l)
      [] OTHER -> books

\* The stock rows as a transaction sees them: those it read without a lock are as
\* it found them then.
Seen(bare) == [c \in Cells |-> IF c \in DOMAIN bare THEN bare[c] ELSE stock[c]]

\* The operation's loop over the lines, in the order of the transfer.
PostAll(r) ==
    LET lines == LinesOf[r.transfer]
        books[k \in 0..Len(lines)] ==
            IF k = 0 THEN [ok |-> TRUE, stock |-> Seen(r.bare), posted |-> posted]
            ELSE PostLine(books[k - 1], r, lines[k])
    IN  books[Len(lines)]

Empty == [x \in {} |-> 0]

Init == /\ stock = [c \in Cells |-> IF c \in WarmCells
                                    THEN [NoBalance EXCEPT !.quantity = OpeningQuantity[c]]
                                    ELSE NoRow]
        /\ posted = {}
        /\ transfer = [t \in Transfers |->
                          [status |-> "ABSENT",
                           dispatched |-> [l \in Lines |-> 0],
                           received |-> [l \in Lines |-> 0]]]
        /\ allocated = [c \in Cells |-> 0]
        /\ request = [s \in Sessions |-> NoRequest]

-----------------------------------------------------------------------------

Target == [approve |-> "APPROVED", reject |-> "REJECTED", dispatch |-> "IN_TRANSIT",
           receive |-> "RECEIVED", cancel |-> "CANCELLED"]

LineSet(t) == Range(LinesOf[t])

\* Mutant of CreateTransfer: transfers start as drafts.
CreateDraft(t) ==
    /\ transfer[t].status = "ABSENT"
    /\ transfer' = [transfer EXCEPT ![t].status = "DRAFT"]
    /\ UNCHANGED <<stock, posted, allocated, request>>

\* The service's request(): the transfer and its lines are created.
CreateTransfer(t) ==
    /\ transfer[t].status = "ABSENT"
    /\ transfer' = [transfer EXCEPT ![t].status = "REQUESTED"]
    /\ UNCHANGED <<stock, posted, allocated, request>>

\* The cells among these that have no row yet, so that a transaction beginning now
\* may find nothing to lock there.
Unlockable(cells) == {c \in cells : stock[c] = NoRow}

\* Where an operation posts.
CellsOf(t, op, seen, counted) ==
    CASE op = "receive" ->
            {<<Dest[t], ItemOf[l]>> : l \in {k \in DOMAIN counted : counted[k].posted > 0}}
      [] op \in {"approve", "dispatch"} \/ (op = "cancel" /\ seen = "APPROVED") ->
            {<<Source[t], ItemOf[l]>> : l \in LineSet(t)}
      [] OTHER -> {}

\* The status is checked once, here, against what this read found; so are the
\* counts of a receipt, against the dispatched quantities.
Read(s, t, op, counted) ==
    LET seen == transfer[t].status IN
    /\ request[s] = NoRequest
    /\ Target[op] \in Transitions[seen]
    /\ op # "receive" => counted = Empty
    /\ DOMAIN counted \subseteq LineSet(t)
    /\ \A l \in DOMAIN counted : /\ counted[l].posted <= transfer[t].dispatched[l]
                                 /\ counted[l].noted <= transfer[t].dispatched[l]
    /\ request' = [request EXCEPT ![s] =
            [transfer |-> t, op |-> op, seen |-> seen, counted |-> counted,
             absent |-> Unlockable(CellsOf(t, op, seen, counted)), bare |-> Empty]]
    /\ UNCHANGED <<stock, posted, transfer, allocated>>

\* TechnicianInventoryService.allocate: n pieces of a cell leave for a van.
Draw(s, c, n) ==
    /\ request[s] = NoRequest
    /\ SumFunction(allocated) < MaxAllocations
    /\ request' = [request EXCEPT ![s] =
            [op |-> "allocate", cell |-> c, pieces |-> n,
             absent |-> Unlockable({c}), bare |-> Empty]]
    /\ UNCHANGED <<stock, posted, transfer, allocated>>

\* Mutant of Look: the stock row is read before it is locked.
LooksFirst(s, c) ==
    /\ request[s] # NoRequest
    /\ c \notin DOMAIN request[s].bare /\ stock[c] # NoRow
    /\ request' = [request EXCEPT ![s].bare =
            [d \in DOMAIN @ \cup {c} |-> IF d = c THEN stock[c] ELSE @[d]]]
    /\ UNCHANGED <<stock, posted, transfer, allocated>>

\* FOR UPDATE came before the row and locked nothing; findUnique comes after it and
\* finds it, while others may go on posting.
Look(s, c) ==
    /\ request[s] # NoRequest
    /\ c \in request[s].absent \ DOMAIN request[s].bare
    /\ stock[c] # NoRow
    /\ request' = [request EXCEPT ![s].bare =
            [d \in DOMAIN @ \cup {c} |-> IF d = c THEN stock[c] ELSE @[d]]]
    /\ UNCHANGED <<stock, posted, transfer, allocated>>

LinesAfter(r) ==
    LET old == transfer[r.transfer]
    IN  [status |-> Target[r.op],
         dispatched |-> [l \in Lines |->
             IF r.op = "dispatch" /\ l \in LineSet(r.transfer)
             THEN Requested[l] ELSE old.dispatched[l]],
         received |-> [l \in Lines |->
             IF l \in DOMAIN r.counted THEN r.counted[l].noted ELSE old.received[l]]]

\* The movements are posted and the status written, whatever it has become.  A
\* movement whose row was read without a lock was not on record at that time: if it
\* is now, the unique index refuses it.
Commit(s) ==
    /\ request[s] # NoRequest /\ request[s].op # "allocate"
    /\ LET r == request[s]
           books == PostAll(r)
       IN  /\ books.ok
           /\ DOMAIN r.bare \subseteq {m.cell : m \in books.posted \ posted}
           /\ stock' = books.stock
           /\ posted' = books.posted
           /\ transfer' = [transfer EXCEPT ![r.transfer] = LinesAfter(r)]
    /\ request' = [request EXCEPT ![s] = NoRequest]
    /\ UNCHANGED allocated

\* A refused movement, a unique violation on a reference or on a stock row two
\* transactions create, a deadlock between two locking the same rows, or a crash:
\* nothing of it remains.
Abort(s) ==
    /\ request[s] # NoRequest
    /\ request' = [request EXCEPT ![s] = NoRequest]
    /\ UNCHANGED <<stock, posted, transfer, allocated>>

\* An allocation's movement carries a reference of its own, so it is always new.
CommitAllocation(s) ==
    /\ request[s] # NoRequest /\ request[s].op = "allocate"
    /\ SumFunction(allocated) < MaxAllocations
    /\ LET r == request[s]
           c == r.cell
           m == [cell |-> c, kind |-> "OUT_TO_TECHNICIAN", quantity |-> r.pieces,
                 hasCost |-> FALSE, unitCost |-> 0, allowNegative |-> FALSE]
           balance == Balance(Seen(r.bare)[c])
       IN  /\ Admissible(balance, m)
           /\ stock' = [stock EXCEPT ![c] = After(balance, m)]
           /\ allocated' = [allocated EXCEPT ![c] = @ + r.pieces]
    /\ request' = [request EXCEPT ![s] = NoRequest]
    /\ UNCHANGED <<posted, transfer>>

Tallies == {n \in [posted : 0..MaxCount, noted : 0..MaxCount] : n.posted = 0 => n.noted = 0}
Counts(t) == UNION {[S -> Tallies] : S \in SUBSET LineSet(t)}

Next ==
    \/ \E t \in Transfers : CreateTransfer(t)
    \/ \E s \in Sessions, t \in Transfers, op \in DOMAIN Target :
          \E counted \in Counts(t) : Read(s, t, op, counted)
    \/ \E s \in Sessions, c \in Cells : Draw(s, c, 1) \/ Look(s, c)
    \/ \E s \in Sessions : Commit(s) \/ CommitAllocation(s) \/ Abort(s)

Spec == Init /\ [][Next]_vars

-----------------------------------------------------------------------------
(* Properties *)

StageQuantity(l, stage) ==
    MapThenSumSet(LAMBDA m : m.quantity,
                  {m \in posted : m.ref.line = l /\ m.ref.stage = stage})

CellQuantity(c, kind) ==
    MapThenSumSet(LAMBDA m : m.quantity, {m \in posted : m.cell = c /\ m.kind = kind})

PostedFor(t, stage) ==
    \A l \in LineSet(t) : \E m \in posted :
        m.ref = [transfer |-> t, stage |-> stage, line |-> l]

\* Every variable keeps its shape.
TypeOK ==
    /\ stock \in [Cells -> Balances \cup {NoRow}]
    /\ transfer \in [Transfers -> [status: Statuses, dispatched: [Lines -> Nat],
                                   received: [Lines -> Nat]]]
    /\ allocated \in [Cells -> Nat]
    /\ \A s \in Sessions : request[s] # NoRequest =>
          /\ request[s].absent \subseteq Cells
          /\ \A c \in DOMAIN request[s].bare : request[s].bare[c] \in Balances
          /\ \/ request[s].op = "allocate" /\ request[s].cell \in Cells
             \/ /\ request[s].op \in DOMAIN Target
                /\ request[s].transfer \in Transfers
                /\ request[s].seen \in Statuses

\* Pieces are neither made nor lost, on the shelf or set aside, wherever the stock
\* row was there from the start: each movement on record counted once, however the
\* operations of several transfers overlap, repeat and fail.  A cell that had no
\* row yet is left out: there the code can lose a movement, and so does the model.
PiecesConserved ==
    \A c \in WarmCells :
        /\ stock[c] # NoRow
        /\ stock[c].quantity + allocated[c] + CellQuantity(c, "OUT_TRANSFER")
              = OpeningQuantity[c] + CellQuantity(c, "IN_TRANSFER")
        /\ stock[c].reserved + CellQuantity(c, "RELEASE_RESERVE") = CellQuantity(c, "RESERVE")

\* What the destination books for a line has left the source before, and is no
\* more than that: also when two receipts of a transfer, or a receipt and a
\* second dispatch, overlap.
ReceivedWithinDispatched ==
    \A l \in Lines : StageQuantity(l, "receive") <= StageQuantity(l, "dispatch")

\* A status is not ahead of the ledger, however late its writer comes: a transfer
\* nobody approved has moved nothing, whatever else is on record was reserved
\* first, and one in transit or received has left its source.  It does not say
\* that an approved transfer still holds its reservation: an approval that
\* commits after the dispatch or the cancelling leaves APPROVED and nothing held.
StatusBackedByLedger ==
    \A t \in Transfers :
        /\ \A m \in posted : m.ref.transfer = t =>
              /\ transfer[t].status \notin {"ABSENT", "REQUESTED"}
              /\ PostedFor(t, "reserve")
        /\ transfer[t].status = "APPROVED" => PostedFor(t, "reserve")
        /\ transfer[t].status \in {"IN_TRANSIT", "RECEIVED"} => PostedFor(t, "dispatch")

\* All lines of a transfer are reserved, and shipped, together or not at all.
LinesMoveTogether ==
    \A t \in Transfers : \A stage \in {"reserve", "release", "dispatch"} :
        (\E m \in posted : m.ref.transfer = t /\ m.ref.stage = stage) => PostedFor(t, stage)
=============================================================================
