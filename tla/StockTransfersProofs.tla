------------------------ MODULE StockTransfersProofs ------------------------
(***************************************************************************)
(* Proofs about StockTransfers.  The invariant says what the ledger rows   *)
(* of a transfer look like (Rows), what an open transaction may still rely *)
(* on (Requests: also that no row which was there at first is read without *)
(* its lock) and that no more is dispatched than was asked for; with it    *)
(* each property of the run follows for any number of transfers, lines and *)
(* sessions.                                                               *)
(*                                                                         *)
(* Two recursions are reasoned about by their smallest counterexample: the *)
(* sums (as the number of coins, one for each unit of an amount) and the   *)
(* loop of an operation over the lines of its transfer.                    *)
(***************************************************************************)
EXTENDS StockTransfers, FiniteSetTheorems, WellFoundedInduction, TLAPS

Stages == {"reserve", "release", "dispatch", "cancel-release", "receive"}

Ref(t, stage, l) == [transfer |-> t, stage |-> stage, line |-> l]

Moves == [cell : Cells, kind : MovementKinds, quantity : Nat \ {0},
          ref : [transfer : Transfers, stage : Stages, line : Lines],
          hasCost : {FALSE}, unitCost : {0}, allowNegative : {FALSE}]

Has(rows, t, stage, l) == \E m \in rows : m.ref = Ref(t, stage, l)

\* A reference is posted once, for a line of its transfer; a dispatch moves what
\* was requested, a receipt at most that, and only after its dispatch.
Rows(rows) ==
    /\ rows \in SUBSET Moves
    /\ IsFiniteSet(rows)
    /\ \A m, p \in rows : m.ref = p.ref => m = p
    /\ \A m \in rows :
          /\ m.ref.line \in LineSet(m.ref.transfer)
          /\ m.ref.stage = "dispatch" => m.quantity = Requested[m.ref.line]
          /\ m.ref.stage = "receive" =>
                /\ m.quantity <= Requested[m.ref.line]
                /\ Has(rows, m.ref.transfer, "dispatch", m.ref.line)

\* The operations that find the transfer's reservations on record.
Follows(r) == r.op \in {"dispatch", "receive"} \/ (r.op = "cancel" /\ r.seen = "APPROVED")

\* What an operation that has read its transfer carries to its commit.
ValidOperation(r, rows) ==
    /\ r.transfer \in Transfers /\ r.op \in DOMAIN Target /\ r.seen \in Statuses
    /\ DOMAIN r.counted \subseteq LineSet(r.transfer)
    /\ \A l \in DOMAIN r.counted :
          /\ r.counted[l].posted \in Nat /\ r.counted[l].noted \in Nat
          /\ r.counted[l].posted <= Requested[l]
    /\ r.op = "receive" => \A l \in LineSet(r.transfer) : Has(rows, r.transfer, "dispatch", l)
    /\ Follows(r) => \A l \in LineSet(r.transfer) : Has(rows, r.transfer, "reserve", l)

\* What a transaction has read without a lock was not there at first.
Bare(r) ==
    /\ r.absent \subseteq Cells \ WarmCells
    /\ DOMAIN r.bare \subseteq r.absent
    /\ \A c \in DOMAIN r.bare : r.bare[c] \in Balances

ValidRequests(r, rows) ==
    /\ Bare(r)
    /\ \/ r.op = "allocate" /\ r.cell \in Cells /\ r.pieces \in Nat
       \/ ValidOperation(r, rows)

Requests == /\ DOMAIN request = Sessions
            /\ \A s \in Sessions : request[s] # NoRequest => ValidRequests(request[s], posted)

Dispatches == \A t \in Transfers, l \in Lines : transfer[t].dispatched[l] <= Requested[l]

IInv == /\ TypeOK
        /\ Rows(posted)
        /\ Requests
        /\ Dispatches
        /\ PiecesConserved
        /\ StatusBackedByLedger
        /\ LinesMoveTogether

-----------------------------------------------------------------------------
(* Sums of integers *)

Positive(n) == IF n > 0 THEN n ELSE 0
Coins(f, S) == UNION {{x} \X (1..f[x]) : x \in S}
Negated(f, S) == [x \in S |-> -f[x]]
Total(f, S) == Cardinality(Coins(f, S)) - Cardinality(Coins(Negated(f, S), S))
Integral(f, S) == \A x \in S : f[x] \in Int

IsTotal(g, f, S) ==
    g = [s \in SUBSET S |-> IF s = {} THEN 0
                            ELSE LET x == CHOOSE x \in s : TRUE IN f[x] + g[s \ {x}]]

\* An interval from 1 has its last number of elements, or none.
LEMMA CountTo ==
    ASSUME NEW n \in Int
    PROVE  IsFiniteSet(1..n) /\ Cardinality(1..n) = Positive(n)
<1>1. IsFiniteSet(1..n) /\ Cardinality(1..n) = IF 1 > n THEN 0 ELSE n - 1 + 1
  BY FS_Interval
<1>2. Positive(n) = IF 1 > n THEN 0 ELSE n - 1 + 1
  BY DEF Positive
<1> QED BY <1>1, <1>2

\* The coins of a finite set are finitely many.
LEMMA CoinsFinite ==
    ASSUME NEW f, NEW S, IsFiniteSet(S), Integral(f, S)
    PROVE  IsFiniteSet(Coins(f, S)) /\ Cardinality(Coins(f, S)) \in Nat
<1> DEFINE purse == [x \in S |-> {x} \X (1..f[x])]
           purses == {{x} \X (1..f[x]) : x \in S}
<1>1. purse \in Surjection(S, purses)
  BY DEF Surjection
<1>2. IsFiniteSet(purses)
  <2> HIDE DEF purse, purses
  <2> QED BY <1>1, FS_Surjection
<1>3. ASSUME NEW p \in purses PROVE IsFiniteSet(p)
  <2>1. PICK x \in S : p = {x} \X (1..f[x])
    OBVIOUS
  <2>2. IsFiniteSet({x}) /\ IsFiniteSet(1..f[x])
    <3>1. f[x] \in Int
      BY DEF Integral
    <3> QED BY <3>1, FS_Singleton, CountTo
  <2> DEFINE range == 1..f[x]
  <2> HIDE DEF range
  <2>3. IsFiniteSet({x} \X range)
    BY <2>2, FS_Product DEF range
  <2> QED BY <2>1, <2>3 DEF range
<1>4. IsFiniteSet(UNION purses)
  <2> HIDE DEF purses
  <2> QED BY <1>2, <1>3, FS_UNION
<1> QED BY <1>4, FS_CardinalityType DEF Coins

\* Taking one element away takes its coins away.
LEMMA CoinsWithout ==
    ASSUME NEW f, NEW S, IsFiniteSet(S), Integral(f, S), NEW x \in S
    PROVE  Cardinality(Coins(f, S)) = Positive(f[x]) + Cardinality(Coins(f, S \ {x}))
<1> DEFINE range == 1..f[x]
           own == {x} \X range
           rest == Coins(f, S \ {x})
           worth == Positive(f[x])
<1>0. f[x] \in Int
  BY DEF Integral
<1>1. Coins(f, S) = own \cup rest /\ own \cap rest = {}
  BY DEF Coins
<1>2. IsFiniteSet(S \ {x}) /\ Integral(f, S \ {x})
  BY FS_RemoveElement DEF Integral
<1>3. IsFiniteSet(rest) /\ Cardinality(rest) \in Nat
  BY <1>2, CoinsFinite
<1>4. /\ IsFiniteSet({x}) /\ Cardinality({x}) = 1
      /\ IsFiniteSet(range) /\ Cardinality(range) = worth
  BY <1>0, FS_Singleton, CountTo
<1>5. worth \in Nat
  BY <1>0 DEF Positive
<1> HIDE DEF range, worth
<1>6. IsFiniteSet(own) /\ Cardinality(own) = 1 * worth
  <2>1. IsFiniteSet({x} \X range)
        /\ Cardinality({x} \X range) = Cardinality({x}) * Cardinality(range)
    BY <1>4, FS_Product
  <2> QED BY <2>1, <1>4
<1> HIDE DEF own, rest
<1>7. Cardinality(own \cup rest) = Cardinality(own) + Cardinality(rest) - Cardinality(own \cap rest)
  BY <1>3, <1>6, FS_Union
<1>8. Cardinality(own \cap rest) = 0
  BY <1>1, FS_EmptySet
<1>9. Cardinality(own \cup rest) = worth + Cardinality(rest)
  BY <1>5, <1>3, <1>6, <1>7, <1>8
<1> QED BY <1>1, <1>9 DEF rest, worth

\* Functions that agree on a set have the same coins there.
LEMMA SameCoins ==
    ASSUME NEW f, NEW g, NEW S, \A x \in S : f[x] = g[x]
    PROVE  Coins(f, S) = Coins(g, S)
BY DEF Coins

\* The total of the rest and of one element.
LEMMA TotalWithout ==
    ASSUME NEW f, NEW S, IsFiniteSet(S), Integral(f, S), NEW x \in S
    PROVE  Total(f, S) = f[x] + Total(f, S \ {x})
<1> DEFINE T == S \ {x}
           n == Negated(f, S)
<1>1. IsFiniteSet(T) /\ Integral(f, T) /\ T \subseteq S
  BY FS_RemoveElement DEF Integral
<1>2. Integral(n, S) /\ Integral(n, T) /\ n[x] = -f[x]
  BY DEF Integral, Negated
<1>3. Coins(Negated(f, T), T) = Coins(n, T)
  <2>1. \A y \in T : Negated(f, T)[y] = n[y]
    BY <1>1 DEF Negated
  <2> DEFINE m == Negated(f, T)
  <2> HIDE DEF T, n, m
  <2> QED BY <2>1, SameCoins DEF m
<1>4. Cardinality(Coins(f, S)) = Positive(f[x]) + Cardinality(Coins(f, T))
  BY CoinsWithout
<1>5. Cardinality(Coins(n, S)) = Positive(n[x]) + Cardinality(Coins(n, T))
  <2> HIDE DEF n
  <2> QED BY <1>2, CoinsWithout
<1>6. Cardinality(Coins(f, T)) \in Nat
  <2> HIDE DEF T
  <2> QED BY <1>1, CoinsFinite
<1>7. Cardinality(Coins(n, T)) \in Nat
  <2> HIDE DEF T, n
  <2> QED BY <1>1, <1>2, CoinsFinite
<1>8. f[x] \in Int /\ Positive(f[x]) \in Nat /\ Positive(n[x]) \in Nat
      /\ Positive(f[x]) - Positive(n[x]) = f[x]
  BY <1>2 DEF Integral, Positive
<1>9. Total(f, S) = Cardinality(Coins(f, S)) - Cardinality(Coins(n, S))
  BY DEF Total
<1>10. Total(f, T) = Cardinality(Coins(f, T)) - Cardinality(Coins(n, T))
  BY <1>3 DEF Total
<1> HIDE DEF T, n
<1> QED BY <1>4, <1>5, <1>6, <1>7, <1>8, <1>9, <1>10 DEF T

\* The total of nothing is 0.
LEMMA TotalEmpty == ASSUME NEW f PROVE Total(f, {}) = 0
<1>1. Coins(f, {}) = {} /\ Coins(Negated(f, {}), {}) = {}
  BY DEF Coins
<1> QED BY <1>1, FS_EmptySet DEF Total

\* Functions that agree on a set have the same total there.
LEMMA SameTotal ==
    ASSUME NEW f, NEW g, NEW S, \A x \in S : f[x] = g[x]
    PROVE  Total(f, S) = Total(g, S)
<1>1. Coins(f, S) = Coins(g, S)
  BY SameCoins
<1>2. Coins(Negated(f, S), S) = Coins(Negated(g, S), S)
  <2>1. Negated(f, S) = Negated(g, S)
    BY DEF Negated
  <2> QED BY <2>1
<1> QED BY <1>1, <1>2 DEF Total

\* The recursion of the library's folds has a solution, the total.
LEMMA TotalSolves ==
    ASSUME NEW f, NEW S, IsFiniteSet(S), Integral(f, S)
    PROVE  IsTotal([s \in SUBSET S |-> Total(f, s)], f, S)
<1> DEFINE g == [s \in SUBSET S |-> Total(f, s)]
           h == [s \in SUBSET S |-> IF s = {} THEN 0
                           ELSE LET x == CHOOSE x \in s : TRUE IN f[x] + g[s \ {x}]]
<1>1. ASSUME NEW s \in SUBSET S PROVE g[s] = h[s]
  <2>1. CASE s = {}
    BY <2>1, TotalEmpty
  <2>2. CASE s # {}
    <3> DEFINE x == CHOOSE x \in s : TRUE
    <3>1. x \in s
      BY <2>2
    <3>2. IsFiniteSet(s) /\ Integral(f, s)
      BY FS_Subset DEF Integral
    <3>3. h[s] = f[x] + g[s \ {x}]
      BY <2>2
    <3> HIDE DEF x
    <3>4. Total(f, s) = f[x] + Total(f, s \ {x})
      BY <3>1, <3>2, TotalWithout
    <3>5. g[s \ {x}] = Total(f, s \ {x}) /\ g[s] = Total(f, s)
      OBVIOUS
    <3> HIDE DEF g, h
    <3> QED BY <3>3, <3>4, <3>5
  <2> QED BY <2>1, <2>2
<1>2. g = h
  BY <1>1
<1> HIDE DEF g
<1> QED BY <1>2 DEF IsTotal, g

\* And no other: the smallest set on which another one differed would not be
\* empty, and without its chosen element they would differ already.
LEMMA TotalUnique ==
    ASSUME NEW f, NEW S, IsFiniteSet(S), Integral(f, S), NEW h, IsTotal(h, f, S)
    PROVE  h[S] = Total(f, S)
<1> DEFINE bad == {s \in SUBSET S : h[s] # Total(f, s)}
<1>1. /\ h[{}] = 0
      /\ \A s \in SUBSET S : s # {} =>
            LET x == CHOOSE x \in s : TRUE IN h[s] = f[x] + h[s \ {x}]
  BY DEF IsTotal
<1>2. bad = {}
  <2> SUFFICES ASSUME bad # {} PROVE FALSE
    OBVIOUS
  <2>1. IsWellFoundedOn(StrictSubsetOrdering(S), FiniteSubsetsOf(S))
    BY FS_StrictSubsetOrderingWellFounded
  <2>2. bad \subseteq FiniteSubsetsOf(S)
    BY FS_Subset DEF FiniteSubsetsOf
  <2> HIDE DEF bad
  <2>3. PICK s \in bad : \A t \in bad : <<t, s>> \notin StrictSubsetOrdering(S)
    BY <2>1, <2>2, WFMin
  <2> USE DEF bad
  <2>4. s \in SUBSET S /\ h[s] # Total(f, s)
    OBVIOUS
  <2>5. s # {}
    BY <2>4, <1>1, TotalEmpty
  <2> DEFINE x == CHOOSE x \in s : TRUE
  <2>6. x \in s /\ h[s] = f[x] + h[s \ {x}]
    BY <2>4, <2>5, <1>1
  <2> HIDE DEF x
  <2>7. IsFiniteSet(s) /\ Integral(f, s)
    BY <2>4, FS_Subset DEF Integral
  <2>8. Total(f, s) = f[x] + Total(f, s \ {x})
    BY <2>6, <2>7, TotalWithout
  <2>9. s \ {x} \in SUBSET S /\ s \ {x} # s
    BY <2>4, <2>6
  <2>10. <<s \ {x}, s>> \in StrictSubsetOrdering(S)
    BY <2>4, <2>9 DEF StrictSubsetOrdering
  <2>11. s \ {x} \notin bad
    BY <2>3, <2>10
  <2> QED BY <2>4, <2>6, <2>8, <2>9, <2>11
<1> QED BY <1>2

-----------------------------------------------------------------------------
(* What the ledger says of a line and of a cell *)

Taken(rows, l, stage) == {m \in rows : m.ref.line = l /\ m.ref.stage = stage}
Quantities(S) == [m \in S |-> m.quantity]
AmountSum(S) == MapThenSumSet(LAMBDA m : m.quantity, S)

\* A stage quantity of the model, over whatever rows are on record.
LEMMA StageIsAmount ==
    ASSUME NEW l, NEW stage
    PROVE  StageQuantity(l, stage) = AmountSum(Taken(posted, l, stage))
BY DEF StageQuantity, AmountSum, Taken

\* The sum of the movements' quantities is the total of the quantities.
LEMMA AmountIsTotal ==
    ASSUME NEW S, IsFiniteSet(S), \A m \in S : m.quantity \in Nat
    PROVE  AmountSum(S) = Total(Quantities(S), S)
<1> DEFINE q == Quantities(S)
           IsSum(g) == g = [s \in SUBSET S |-> IF s = {} THEN 0
                            ELSE LET x == CHOOSE x \in s : TRUE IN x.quantity + g[s \ {x}]]
           h == CHOOSE g : IsSum(g)
<1>1. AmountSum(S) = h[S]
  BY DEF AmountSum, MapThenSumSet, MapThenFoldSet
<1>2. Integral(q, S)
  BY DEF Integral, Quantities
<1>3. ASSUME NEW g PROVE IsTotal(g, q, S) <=> IsSum(g)
  <2> DEFINE a == [s \in SUBSET S |-> IF s = {} THEN 0
                            ELSE LET x == CHOOSE x \in s : TRUE IN x.quantity + g[s \ {x}]]
             b == [s \in SUBSET S |-> IF s = {} THEN 0
                            ELSE LET x == CHOOSE x \in s : TRUE IN q[x] + g[s \ {x}]]
  <2>1. ASSUME NEW s \in SUBSET S PROVE a[s] = b[s]
    <3>1. CASE s = {}
      BY <3>1
    <3>2. CASE s # {}
      <4> DEFINE x == CHOOSE x \in s : TRUE
      <4>1. x \in S
        BY <3>2
      <4>2. a[s] = x.quantity + g[s \ {x}] /\ b[s] = q[x] + g[s \ {x}]
        BY <3>2
      <4> HIDE DEF x, a, b
      <4> QED BY <4>1, <4>2 DEF Quantities
    <3> QED BY <3>1, <3>2
  <2>2. a = b
    BY <2>1
  <2> QED BY <2>2 DEF IsTotal
<1>4. \E g : IsTotal(g, q, S)
  <2> HIDE DEF q
  <2> QED BY <1>2, TotalSolves
<1>5. \E g : IsSum(g)
  <2> HIDE DEF IsSum
  <2> QED BY <1>3, <1>4
<1>6. IsSum(h)
  <2> HIDE DEF IsSum
  <2> QED BY <1>5
<1>7. IsTotal(h, q, S)
  <2> HIDE DEF IsSum, h
  <2> QED BY <1>3, <1>6
<1> HIDE DEF q, h
<1>8. h[S] = Total(q, S)
  BY <1>2, <1>7, TotalUnique
<1> QED BY <1>1, <1>8 DEF q

\* What a set of movements sums up to is the number of their coins.
LEMMA AmountIsCoins ==
    ASSUME NEW S, IsFiniteSet(S), \A m \in S : m.quantity \in Nat
    PROVE  AmountSum(S) = Cardinality(Coins(Quantities(S), S)) /\ AmountSum(S) \in Nat
<1> DEFINE q == Quantities(S)
           n == Negated(q, S)
<1>1. Integral(q, S)
  BY DEF Integral, Quantities
<1>2. Coins(n, S) = {}
  <2>1. \A m \in S : n[m] = -m.quantity /\ -m.quantity < 1
    BY DEF Negated, Quantities
  <2>2. \A m \in S : 1..n[m] = {}
    <3> HIDE DEF n
    <3> QED BY <2>1
  <2> HIDE DEF n
  <2> QED BY <2>2 DEF Coins
<1>3. Cardinality(Coins(n, S)) = 0
  BY <1>2, FS_EmptySet
<1>4. Cardinality(Coins(q, S)) \in Nat
  <2> HIDE DEF q
  <2> QED BY <1>1, CoinsFinite
<1>5. Total(q, S) = Cardinality(Coins(q, S)) - Cardinality(Coins(n, S))
  BY DEF Total
<1>6. AmountSum(S) = Total(q, S)
  BY AmountIsTotal
<1> HIDE DEF q, n
<1>7. AmountSum(S) = Cardinality(Coins(q, S))
  BY <1>3, <1>4, <1>5, <1>6
<1> QED BY <1>4, <1>7 DEF q

\* One more movement adds its quantity.
LEMMA AmountWith ==
    ASSUME NEW S, IsFiniteSet(S), NEW m, m \notin S, \A p \in S \cup {m} : p.quantity \in Nat
    PROVE  AmountSum(S \cup {m}) = AmountSum(S) + m.quantity
<1> DEFINE R == S \cup {m}
           q == Quantities(R)
           p == Quantities(S)
<1>1. IsFiniteSet(R) /\ R \ {m} = S
  BY FS_AddElement
<1>2. Integral(q, R) /\ q[m] = m.quantity /\ \A x \in S : q[x] = p[x]
  BY DEF Integral, Quantities
<1>3. AmountSum(R) = Total(q, R) /\ AmountSum(S) = Total(p, S)
  BY <1>1, AmountIsTotal
<1> HIDE DEF R, q, p
<1>4. m \in R
  BY DEF R
<1>5. Total(q, R) = q[m] + Total(q, S)
  BY <1>1, <1>2, <1>4, TotalWithout
<1>6. Total(q, S) = Total(p, S)
  BY <1>2, SameTotal
<1>7. AmountSum(S) \in Nat /\ m.quantity \in Nat
  BY AmountIsCoins
<1>8. AmountSum(R) = AmountSum(S) + m.quantity
  BY <1>2, <1>3, <1>5, <1>6, <1>7
<1> QED BY <1>8 DEF R

Of(rows, c, kind) == {m \in rows : m.cell = c /\ m.kind = kind}

\* A cell's quantity of the model, over whatever rows are on record.
LEMMA CellIsAmount ==
    ASSUME NEW c, NEW kind
    PROVE  CellQuantity(c, kind) = AmountSum(Of(posted, c, kind))
BY DEF CellQuantity, AmountSum, Of

\* The same after a step.
LEMMA CellIsAmountNext ==
    ASSUME NEW c, NEW kind
    PROVE  CellQuantity(c, kind)' = AmountSum(Of(posted', c, kind))
BY DEF CellQuantity, AmountSum, Of, MapThenSumSet, MapThenFoldSet

\* What a row adds to what was moved in a cell.
LEMMA OfWith ==
    ASSUME NEW rows, IsFiniteSet(rows), NEW m, m \notin rows,
           \A p \in rows \cup {m} : p.quantity \in Nat,
           NEW c, NEW kind
    PROVE  /\ AmountSum(Of(rows, c, kind)) \in Nat
           /\ AmountSum(Of(rows \cup {m}, c, kind)) =
                IF m.cell = c /\ m.kind = kind
                THEN AmountSum(Of(rows, c, kind)) + m.quantity
                ELSE AmountSum(Of(rows, c, kind))
<1> DEFINE S == Of(rows, c, kind)
<1>1. S \subseteq rows
  BY DEF Of
<1>2. IsFiniteSet(S) /\ m \notin S /\ \A p \in S \cup {m} : p.quantity \in Nat
  BY <1>1, FS_Subset
<1>3. Of(rows \cup {m}, c, kind) = IF m.cell = c /\ m.kind = kind THEN S \cup {m} ELSE S
  BY DEF Of
<1> HIDE DEF S
<1>4. AmountSum(S) \in Nat
  BY <1>2, AmountIsCoins
<1>5. AmountSum(S \cup {m}) = AmountSum(S) + m.quantity
  BY <1>2, AmountWith
<1> QED BY <1>3, <1>4, <1>5 DEF S

\* The row of a cell is what its movements and the technicians left of it.
Accounted(row, rows, out, c) ==
    /\ row # NoRow
    /\ row.quantity + out + AmountSum(Of(rows, c, "OUT_TRANSFER"))
          = OpeningQuantity[c] + AmountSum(Of(rows, c, "IN_TRANSFER"))
    /\ row.reserved + AmountSum(Of(rows, c, "RELEASE_RESERVE"))
          = AmountSum(Of(rows, c, "RESERVE"))

Conserved(st, rows, al) == \A c \in WarmCells : Accounted(st[c], rows, al[c], c)

\* The property, as a statement about any stock, rows and vans.
LEMMA ConservedIs == PiecesConserved <=> Conserved(stock, posted, allocated)
BY CellIsAmount DEF PiecesConserved, Conserved, Accounted

\* And the property after a step.
LEMMA ConservedNext == PiecesConserved' <=> Conserved(stock', posted', allocated')
BY CellIsAmountNext DEF PiecesConserved, Conserved, Accounted

\* It holds on when none of the three changes.
LEMMA ConservedStays ==
    ASSUME PiecesConserved, stock' = stock, posted' = posted, allocated' = allocated
    PROVE  PiecesConserved'
<1>1. Conserved(stock, posted, allocated)
  BY ConservedIs
<1>2. Conserved(stock', posted', allocated')
  BY <1>1
<1> QED BY <1>2, ConservedNext

-----------------------------------------------------------------------------
(* A receipt is within its dispatch *)

\* A row's reference is made of its transfer, stage and line.
LEMMA RowType ==
    ASSUME NEW rows, Rows(rows), NEW m \in rows
    PROVE  /\ m.ref = Ref(m.ref.transfer, m.ref.stage, m.ref.line)
           /\ m.ref.transfer \in Transfers /\ m.ref.stage \in Stages /\ m.ref.line \in Lines
           /\ m.quantity \in Nat \ {0} /\ m.cell \in Cells
<1>1. m \in Moves
  BY DEF Rows
<1>2. m.ref \in [transfer : Transfers, stage : Stages, line : Lines]
  BY <1>1 DEF Moves
<1>3. m.quantity \in Nat \ {0} /\ m.cell \in Cells
  BY <1>1 DEF Moves
<1> QED BY <1>2, <1>3 DEF Ref

\* Each coin of a receipt has one of its own among those of its dispatch.
LEMMA ReceiptsWithinDispatches ==
    ASSUME NEW rows, Rows(rows), NEW l
    PROVE  AmountSum(Taken(rows, l, "receive")) <= AmountSum(Taken(rows, l, "dispatch"))
<1> DEFINE R == Taken(rows, l, "receive")
           D == Taken(rows, l, "dispatch")
           in == Coins(Quantities(R), R)
           out == Coins(Quantities(D), D)
           Sent(m) == CHOOSE p \in rows : p.ref = Ref(m.ref.transfer, "dispatch", l)
           f == [x \in in |-> <<Sent(x[1]), x[2]>>]
<1>1. /\ R \subseteq rows /\ D \subseteq rows /\ IsFiniteSet(rows)
      /\ \A m \in rows : m.quantity \in Nat
  BY DEF Rows, Taken, Moves
<1>2. IsFiniteSet(R) /\ IsFiniteSet(D)
  BY <1>1, FS_Subset
<1>3. /\ AmountSum(R) = Cardinality(in)
      /\ AmountSum(D) = Cardinality(out)
  <2> HIDE DEF R, D
  <2> QED BY <1>1, <1>2, AmountIsCoins
<1>4. IsFiniteSet(out)
  <2>1. Integral(Quantities(D), D)
    BY <1>1 DEF Integral, Quantities
  <2> HIDE DEF D
  <2> QED BY <1>2, <2>1, CoinsFinite
<1>5. ASSUME NEW m \in R
      PROVE  /\ Sent(m) \in D /\ Sent(m).ref = Ref(m.ref.transfer, "dispatch", l)
             /\ m.quantity <= Sent(m).quantity
  <2>1. m \in rows /\ m.ref.line = l /\ m.ref.stage = "receive"
    BY DEF Taken
  <2>2. m.quantity <= Requested[l] /\ Has(rows, m.ref.transfer, "dispatch", l)
    BY <2>1 DEF Rows
  <2>3. Sent(m) \in rows /\ Sent(m).ref = Ref(m.ref.transfer, "dispatch", l)
    BY <2>2 DEF Has
  <2> HIDE DEF Sent
  <2>4. Sent(m).ref.line = l /\ Sent(m).ref.stage = "dispatch"
    BY <2>3 DEF Ref
  <2>5. Sent(m).quantity = Requested[l]
    BY <2>3, <2>4 DEF Rows
  <2> QED BY <2>2, <2>3, <2>4, <2>5 DEF Taken
<1>6. ASSUME NEW m \in R, NEW p \in R, Sent(m) = Sent(p) PROVE m = p
  <2>1. Ref(m.ref.transfer, "dispatch", l) = Ref(p.ref.transfer, "dispatch", l)
    <3> HIDE DEF R, Sent
    <3> QED BY <1>5, <1>6
  <2>2. m.ref.transfer = p.ref.transfer
    BY <2>1 DEF Ref
  <2>3. /\ m \in rows /\ m.ref.line = l /\ m.ref.stage = "receive"
        /\ p \in rows /\ p.ref.line = l /\ p.ref.stage = "receive"
    BY DEF Taken
  <2>4. m.ref = p.ref
    <3>1. /\ m.ref = Ref(m.ref.transfer, m.ref.stage, m.ref.line)
          /\ p.ref = Ref(p.ref.transfer, p.ref.stage, p.ref.line)
      BY <2>3, RowType
    <3> HIDE DEF R, Sent
    <3> QED BY <2>2, <2>3, <3>1
  <2> QED BY <2>3, <2>4 DEF Rows
<1> HIDE DEF Sent
<1>7. ASSUME NEW x \in in
      PROVE  /\ x[1] \in R /\ x[2] \in 1..x[1].quantity
             /\ x = <<x[1], x[2]>>
  BY DEF Coins, Quantities
<1>8. ASSUME NEW x \in in PROVE f[x] \in out
  <2> HIDE DEF R, D, in
  <2>1. x[1] \in R /\ x[2] \in 1..x[1].quantity
    BY <1>7
  <2>2. Sent(x[1]) \in D /\ x[1].quantity <= Sent(x[1]).quantity
    BY <1>5, <2>1
  <2>3. x[1].quantity \in Nat /\ Sent(x[1]).quantity \in Nat
    BY <1>1, <2>1, <2>2
  <2>4. x[2] \in 1..Sent(x[1]).quantity
    BY <2>1, <2>2, <2>3
  <2>5. f[x] = <<Sent(x[1]), x[2]>>
    OBVIOUS
  <2> HIDE DEF f
  <2> QED BY <2>2, <2>4, <2>5 DEF Coins, Quantities
<1>9. ASSUME NEW x \in in, NEW y \in in, f[x] = f[y] PROVE x = y
  <2>1. Sent(x[1]) = Sent(y[1]) /\ x[2] = y[2]
    BY <1>9
  <2>2. x[1] \in R /\ y[1] \in R /\ x = <<x[1], x[2]>> /\ y = <<y[1], y[2]>>
    <3> HIDE DEF R, in
    <3> QED BY <1>7
  <2> HIDE DEF R, in, f
  <2>3. x[1] = y[1]
    BY <1>6, <2>1, <2>2
  <2> QED BY <2>1, <2>2, <2>3
<1>10. f \in [in -> out]
  <2> HIDE DEF in, out
  <2> QED BY <1>8
<1>11. f \in Injection(in, out)
  <2> HIDE DEF in, out, f
  <2> QED BY <1>9, <1>10 DEF Injection, IsInjective
<1>12. Cardinality(in) <= Cardinality(out)
  <2> HIDE DEF in, out, f
  <2> QED BY <1>4, <1>11, FS_Injection
<1> HIDE DEF R, D, in, out
<1>13. AmountSum(R) <= AmountSum(D)
  BY <1>3, <1>12
<1> QED BY <1>13 DEF R, D

\* So the invariant's rows carry the property.
LEMMA RowsBoundReceipts ==
    ASSUME Rows(posted)
    PROVE  ReceivedWithinDispatched
BY ReceiptsWithinDispatches, StageIsAmount DEF ReceivedWithinDispatched

-----------------------------------------------------------------------------
(* Posting *)

TransferKinds == {"RESERVE", "RELEASE_RESERVE", "OUT_TRANSFER", "IN_TRANSFER"}

\* A movement leaves a balance whose pieces changed by what it moves.
LEMMA AfterType ==
    ASSUME NEW bal \in Balances, NEW m, m.quantity \in Nat, m.hasCost = FALSE
    PROVE  /\ After(bal, m) \in Balances
           /\ After(bal, m).quantity = bal.quantity + PhysicalDelta(m.kind, m.quantity)
           /\ After(bal, m).reserved = bal.reserved + ReservationDelta(m.kind, m.quantity)
<1> DEFINE delta == PhysicalDelta(m.kind, m.quantity)
           held == ReservationDelta(m.kind, m.quantity)
           cost == WeightedAvg(bal, delta, bal.avgCost)
<1>2. bal.quantity \in Int /\ bal.reserved \in Int /\ bal.avgCost \in Int
  BY DEF Balances
<1>3. delta \in Int /\ held \in Int
  BY DEF PhysicalDelta, ReservationDelta
<1>4. After(bal, m) = [quantity |-> bal.quantity + delta, reserved |-> bal.reserved + held,
                       avgCost |-> cost]
  BY DEF After
<1> HIDE DEF delta, held
<1>5. cost \in Int
  <2>1. ASSUME NEW n \in Int, NEW d \in Int, d > 0 PROVE RoundedQuotient(n, d) \in Int
    BY <2>1 DEF RoundedQuotient
  <2>2. bal.quantity * bal.avgCost + delta * bal.avgCost \in Int
    BY <1>2, <1>3
  <2> DEFINE worth == bal.quantity * bal.avgCost + delta * bal.avgCost
             pieces == bal.quantity + delta
  <2>3. cost = IF delta <= 0 THEN bal.avgCost ELSE IF pieces <= 0 THEN bal.avgCost
               ELSE RoundedQuotient(worth, pieces)
    BY DEF WeightedAvg
  <2>4. worth \in Int /\ pieces \in Int
    BY <1>2, <1>3, <2>2
  <2> HIDE DEF worth, pieces, cost
  <2>5. CASE pieces <= 0
    BY <1>2, <1>3, <2>3, <2>5
  <2>6. CASE pieces > 0
    BY <1>2, <1>3, <2>1, <2>3, <2>4, <2>6
  <2> QED BY <2>4, <2>5, <2>6
<1> HIDE DEF cost
<1>6. bal.quantity + delta \in Int /\ bal.reserved + held \in Int
  BY <1>2, <1>3
<1>7. /\ After(bal, m) \in Balances /\ After(bal, m).quantity = bal.quantity + delta
      /\ After(bal, m).reserved = bal.reserved + held
  BY <1>4, <1>5, <1>6 DEF Balances
<1> QED BY <1>7 DEF delta, held

\* What an operation finds on a row is a balance.
LEMMA BalanceType ==
    ASSUME NEW row \in Balances \cup {NoRow}
    PROVE  Balance(row) \in Balances /\ (row # NoRow => Balance(row) = row)
BY DEF Balance, NoBalance, Balances

\* What a movement of a transfer does to the two counts.
LEMMA TransferDeltas ==
    ASSUME NEW n \in Nat, NEW kind \in TransferKinds
    PROVE  /\ kind = "IN_TRANSFER" =>
                 PhysicalDelta(kind, n) = n /\ ReservationDelta(kind, n) = 0
           /\ kind = "OUT_TRANSFER" =>
                 PhysicalDelta(kind, n) = -n /\ ReservationDelta(kind, n) = 0
           /\ kind = "RESERVE" =>
                 PhysicalDelta(kind, n) = 0 /\ ReservationDelta(kind, n) = n
           /\ kind = "RELEASE_RESERVE" =>
                 PhysicalDelta(kind, n) = 0 /\ ReservationDelta(kind, n) = -n
BY DEF PhysicalDelta, ReservationDelta, InflowKinds, OutflowKinds

\* The books of a transaction: the rows are sound and no piece is lost.
Books(b) ==
    /\ b \in [ok : BOOLEAN, stock : [Cells -> Balances \cup {NoRow}], posted : SUBSET Moves]
    /\ Rows(b.posted)
    /\ Conserved(b.stock, b.posted, allocated)

\* A movement a transfer may post, given what is on record.
Fits(m, rows) ==
    /\ m \in Moves
    /\ m.ref.line \in LineSet(m.ref.transfer)
    /\ m.kind \in TransferKinds
    /\ m.ref.stage = "dispatch" => m.quantity = Requested[m.ref.line]
    /\ m.ref.stage = "receive" =>
          /\ m.quantity <= Requested[m.ref.line]
          /\ Has(rows, m.ref.transfer, "dispatch", m.ref.line)

\* A fitting movement that is not on record keeps the rows sound.
LEMMA RowsWith ==
    ASSUME NEW rows, Rows(rows), NEW m, Fits(m, rows), \A p \in rows : p.ref # m.ref
    PROVE  Rows(rows \cup {m})
<1> DEFINE R == rows \cup {m}
<1>1. R \in SUBSET Moves
  BY DEF Rows, Fits
<1>2. IsFiniteSet(R)
  BY FS_AddElement DEF Rows
<1>3. \A x, p \in R : x.ref = p.ref => x = p
  BY DEF Rows
<1>4. ASSUME NEW x \in R
      PROVE  /\ x.ref.line \in LineSet(x.ref.transfer)
             /\ x.ref.stage = "dispatch" => x.quantity = Requested[x.ref.line]
             /\ x.ref.stage = "receive" =>
                   /\ x.quantity <= Requested[x.ref.line]
                   /\ Has(rows, x.ref.transfer, "dispatch", x.ref.line)
  <2>1. CASE x = m
    BY <2>1 DEF Fits
  <2>2. CASE x \in rows
    BY <2>2 DEF Rows
  <2> QED BY <2>1, <2>2
<1>5. \A t, l : Has(rows, t, "dispatch", l) => Has(R, t, "dispatch", l)
  BY DEF Has
<1> HIDE DEF R
<1>6. Rows(R)
  BY <1>1, <1>2, <1>3, <1>4, <1>5 DEF Rows
<1> QED BY <1>6 DEF R

\* One more movement on a cell is one more on its account, and on no other's.
LEMMA AccountedWith ==
    ASSUME NEW row \in Balances, NEW rows, Rows(rows), NEW out \in Nat,
           NEW m, Fits(m, rows), \A p \in rows : p.ref # m.ref,
           NEW c \in WarmCells, Accounted(row, rows, out, c)
    PROVE  /\ c = m.cell => Accounted(After(row, m), rows \cup {m}, out, c)
           /\ c # m.cell => Accounted(row, rows \cup {m}, out, c)
<1> DEFINE R == rows \cup {m}
           new == After(row, m)
           delta == PhysicalDelta(m.kind, m.quantity)
           held == ReservationDelta(m.kind, m.quantity)
           Moved(kind) == AmountSum(Of(rows, c, kind))
           Moved2(kind) == AmountSum(Of(R, c, kind))
<1>1. m \in Moves /\ m.quantity \in Nat /\ m.hasCost = FALSE /\ m.kind \in TransferKinds
  BY DEF Fits, Moves
<1>2. IsFiniteSet(rows) /\ m \notin rows /\ \A p \in R : p.quantity \in Nat
  BY <1>1, RowType DEF Rows
<1>3. ASSUME NEW kind
      PROVE  /\ Moved(kind) \in Nat
             /\ Moved2(kind) = IF m.cell = c /\ m.kind = kind
                               THEN Moved(kind) + m.quantity ELSE Moved(kind)
  BY <1>2, OfWith
<1>4. /\ new \in Balances /\ new.quantity = row.quantity + delta
      /\ new.reserved = row.reserved + held
  BY <1>1, AfterType
<1>5. row.quantity \in Int /\ row.reserved \in Int /\ OpeningQuantity[c] \in Nat
  BY TransferAssumption DEF Balances
<1>6. /\ row # NoRow
      /\ row.quantity + out + Moved("OUT_TRANSFER") = OpeningQuantity[c] + Moved("IN_TRANSFER")
      /\ row.reserved + Moved("RELEASE_RESERVE") = Moved("RESERVE")
  BY DEF Accounted
<1>7. /\ m.kind = "IN_TRANSFER" => delta = m.quantity /\ held = 0
      /\ m.kind = "OUT_TRANSFER" => delta = -m.quantity /\ held = 0
      /\ m.kind = "RESERVE" => delta = 0 /\ held = m.quantity
      /\ m.kind = "RELEASE_RESERVE" => delta = 0 /\ held = -m.quantity
  BY <1>1, TransferDeltas
<1>8. /\ Moved("OUT_TRANSFER") \in Nat /\ Moved("IN_TRANSFER") \in Nat
      /\ Moved("RELEASE_RESERVE") \in Nat /\ Moved("RESERVE") \in Nat
  BY <1>3
<1>9. new # NoRow
  BY <1>4, TransferAssumption
<1>10. ASSUME c # m.cell PROVE Accounted(row, R, out, c)
  <2>1. \A kind : Moved2(kind) = Moved(kind)
    BY <1>3, <1>10
  <2> HIDE DEF R
  <2> QED BY <1>6, <2>1 DEF Accounted
<1>11. ASSUME c = m.cell PROVE Accounted(new, R, out, c)
  <2>1. /\ Moved2("OUT_TRANSFER") = IF m.kind = "OUT_TRANSFER"
                    THEN Moved("OUT_TRANSFER") + m.quantity ELSE Moved("OUT_TRANSFER")
        /\ Moved2("IN_TRANSFER") = IF m.kind = "IN_TRANSFER"
                    THEN Moved("IN_TRANSFER") + m.quantity ELSE Moved("IN_TRANSFER")
        /\ Moved2("RELEASE_RESERVE") = IF m.kind = "RELEASE_RESERVE"
                    THEN Moved("RELEASE_RESERVE") + m.quantity ELSE Moved("RELEASE_RESERVE")
        /\ Moved2("RESERVE") = IF m.kind = "RESERVE"
                    THEN Moved("RESERVE") + m.quantity ELSE Moved("RESERVE")
    BY <1>3, <1>11
  <2> DEFINE o == Moved("OUT_TRANSFER")   i == Moved("IN_TRANSFER")
             f == Moved("RELEASE_RESERVE") h == Moved("RESERVE")
             o2 == Moved2("OUT_TRANSFER")   i2 == Moved2("IN_TRANSFER")
             f2 == Moved2("RELEASE_RESERVE") h2 == Moved2("RESERVE")
             n == m.quantity  q == row.quantity  v == row.reserved  a == OpeningQuantity[c]
  <2>2. /\ o \in Nat /\ i \in Nat /\ f \in Nat /\ h \in Nat /\ n \in Nat
        /\ q \in Int /\ v \in Int /\ a \in Nat
        /\ q + out + o = a + i /\ v + f = h
    BY <1>1, <1>5, <1>6, <1>8
  <2>3. /\ o2 = IF m.kind = "OUT_TRANSFER" THEN o + n ELSE o
        /\ i2 = IF m.kind = "IN_TRANSFER" THEN i + n ELSE i
        /\ f2 = IF m.kind = "RELEASE_RESERVE" THEN f + n ELSE f
        /\ h2 = IF m.kind = "RESERVE" THEN h + n ELSE h
    BY <2>1
  <2>4. new.quantity = q + delta /\ new.reserved = v + held
    BY <1>4
  <2>5. m.kind \in {"RESERVE", "RELEASE_RESERVE", "OUT_TRANSFER", "IN_TRANSFER"}
    BY <1>1 DEF TransferKinds
  <2> HIDE DEF o, i, f, h, o2, i2, f2, h2, n, q, v, a, Moved, Moved2, R, delta, held, new
  <2>6. new.quantity + out + o2 = a + i2 /\ new.reserved + f2 = h2
    <3>1. CASE m.kind = "IN_TRANSFER"
      <4>1. delta = n /\ held = 0 /\ o2 = o /\ i2 = i + n /\ f2 = f /\ h2 = h
        BY <1>7, <2>3, <3>1 DEF n
      <4> QED BY <2>2, <2>4, <4>1
    <3>2. CASE m.kind = "OUT_TRANSFER"
      <4>1. delta = -n /\ held = 0 /\ o2 = o + n /\ i2 = i /\ f2 = f /\ h2 = h
        BY <1>7, <2>3, <3>2 DEF n
      <4> QED BY <2>2, <2>4, <4>1
    <3>3. CASE m.kind = "RESERVE"
      <4>1. delta = 0 /\ held = n /\ o2 = o /\ i2 = i /\ f2 = f /\ h2 = h + n
        BY <1>7, <2>3, <3>3 DEF n
      <4> QED BY <2>2, <2>4, <4>1
    <3>4. CASE m.kind = "RELEASE_RESERVE"
      <4>1. delta = 0 /\ held = -n /\ o2 = o /\ i2 = i /\ f2 = f + n /\ h2 = h
        BY <1>7, <2>3, <3>4 DEF n
      <4> QED BY <2>2, <2>4, <4>1
    <3> QED BY <2>5, <3>1, <3>2, <3>3, <3>4
  <2> QED BY <1>9, <2>6 DEF Accounted, o2, i2, f2, h2, a, Moved2
<1> QED BY <1>10, <1>11 DEF R, new

\* So a movement is posted once on the account of its cell.
LEMMA ConservedWith ==
    ASSUME allocated \in [Cells -> Nat],
           NEW st \in [Cells -> Balances \cup {NoRow}], NEW rows, Rows(rows),
           NEW m, Fits(m, rows), \A p \in rows : p.ref # m.ref,
           Conserved(st, rows, allocated)
    PROVE  LET st2 == [st EXCEPT ![m.cell] = After(Balance(@), m)]
           IN  /\ st2 \in [Cells -> Balances \cup {NoRow}]
               /\ Conserved(st2, rows \cup {m}, allocated)
<1> DEFINE k == m.cell
           new == After(Balance(st[k]), m)
           st2 == [st EXCEPT ![k] = new]
           R == rows \cup {m}
<1>1. m \in Moves /\ k \in Cells /\ m.quantity \in Nat /\ m.hasCost = FALSE
  BY DEF Fits, Moves
<1>2. new \in Balances
  <2>1. Balance(st[k]) \in Balances
    BY <1>1, BalanceType
  <2> QED BY <1>1, <2>1, AfterType
<1> HIDE DEF new
<1>3. /\ st2 \in [Cells -> Balances \cup {NoRow}] /\ st2[k] = new
      /\ \A d \in Cells \ {k} : st2[d] = st[d]
  BY <1>1, <1>2
<1> HIDE DEF st2
<1>4. ASSUME NEW c \in WarmCells PROVE Accounted(st2[c], R, allocated[c], c)
  <2>1. c \in Cells /\ allocated[c] \in Nat
    BY TransferAssumption
  <2>2. Accounted(st[c], rows, allocated[c], c)
    BY DEF Conserved
  <2>3. st[c] \in Balances /\ Balance(st[c]) = st[c]
    BY <2>1, <2>2, BalanceType DEF Accounted
  <2>4. /\ c = m.cell => Accounted(After(st[c], m), R, allocated[c], c)
        /\ c # m.cell => Accounted(st[c], R, allocated[c], c)
    BY <2>1, <2>2, <2>3, AccountedWith
  <2>5. c = k => st2[c] = After(st[c], m)
    BY <1>3, <2>3 DEF new
  <2> QED BY <1>3, <2>1, <2>4, <2>5
<1>5. Conserved(st2, R, allocated)
  BY <1>4 DEF Conserved
<1> QED BY <1>3, <1>5 DEF st2, R, new, k

\* A movement that is on record, or refused, leaves stock and rows alone.
LEMMA PostOneIs ==
    ASSUME allocated \in [Cells -> Nat],
           NEW b, Books(b), NEW m, Fits(m, b.posted)
    PROVE  /\ Books(PostOne(b, m))
           /\ b.posted \subseteq PostOne(b, m).posted
           /\ PostOne(b, m).posted \subseteq b.posted \cup {m}
           /\ PostOne(b, m).ok => b.ok /\ \E p \in PostOne(b, m).posted : p.ref = m.ref
<1> DEFINE p == PostOne(b, m)
           st2 == [b.stock EXCEPT ![m.cell] = After(Balance(@), m)]
           R == b.posted \cup {m}
<1>1. /\ b \in [ok : BOOLEAN, stock : [Cells -> Balances \cup {NoRow}], posted : SUBSET Moves]
      /\ b.stock \in [Cells -> Balances \cup {NoRow}]
      /\ b.posted \in SUBSET Moves /\ b.ok \in BOOLEAN
      /\ Rows(b.posted) /\ Conserved(b.stock, b.posted, allocated)
  BY DEF Books
<1>2. b = [ok |-> b.ok, stock |-> b.stock, posted |-> b.posted]
  BY <1>1
<1>3. CASE ~b.ok \/ \E x \in b.posted : x.ref = m.ref
  <2>1. p = b
    BY <1>3 DEF PostOne
  <2> QED BY <1>3, <2>1
<1>4. CASE /\ b.ok /\ ~\E x \in b.posted : x.ref = m.ref
           /\ ~Admissible(Balance(b.stock[m.cell]), m)
  <2>1. p = [b EXCEPT !.ok = FALSE]
    BY <1>4 DEF PostOne
  <2>2. p = [ok |-> FALSE, stock |-> b.stock, posted |-> b.posted]
    BY <1>2, <2>1
  <2> HIDE DEF p
  <2>3. p.ok = FALSE /\ p.stock = b.stock /\ p.posted = b.posted
        /\ p \in [ok : BOOLEAN, stock : [Cells -> Balances \cup {NoRow}], posted : SUBSET Moves]
    BY <1>1, <2>2
  <2>4. Books(p)
    BY <1>1, <2>3 DEF Books
  <2> QED BY <2>3, <2>4 DEF p
<1>5. CASE /\ b.ok /\ ~\E x \in b.posted : x.ref = m.ref
           /\ Admissible(Balance(b.stock[m.cell]), m)
  <2>1. p = [b EXCEPT !.stock[m.cell] = After(Balance(@), m), !.posted = @ \cup {m}]
    BY <1>5 DEF PostOne
  <2>2. p = [ok |-> b.ok, stock |-> st2, posted |-> R]
    BY <1>2, <2>1
  <2>3. \A x \in b.posted : x.ref # m.ref
    BY <1>5
  <2>4. st2 \in [Cells -> Balances \cup {NoRow}] /\ Conserved(st2, R, allocated)
    BY <1>1, <2>3, ConservedWith
  <2>5. Rows(R)
    BY <1>1, <2>3, RowsWith
  <2>6. R \in SUBSET Moves
    BY <1>1 DEF Fits
  <2> HIDE DEF p, st2
  <2>7. p.ok = b.ok /\ p.stock = st2 /\ p.posted = R
        /\ p \in [ok : BOOLEAN, stock : [Cells -> Balances \cup {NoRow}], posted : SUBSET Moves]
    BY <1>1, <2>2, <2>4, <2>6
  <2>8. Books(p)
    BY <2>4, <2>5, <2>7 DEF Books
  <2> QED BY <2>7, <2>8 DEF p
<1> QED BY <1>3, <1>4, <1>5

-----------------------------------------------------------------------------
(* The loop over the lines *)

StagesOf(r) ==
    CASE r.op = "approve"  -> {"reserve"}
      [] r.op = "dispatch" -> {"release", "dispatch"}
      [] r.op = "receive"  -> {"receive"}
      [] r.op = "cancel" /\ r.seen = "APPROVED" -> {"cancel-release"}
      [] OTHER -> {}

WholeStages == {"reserve", "release", "dispatch"}

\* What is posted for a line by the operations that post every line.
Whole(rows, r, l) ==
    \A stage \in StagesOf(r) \cap WholeStages : Has(rows, r.transfer, stage, l)

\* The books later have new rows of this request only.
Extends(rows, later, r) ==
    /\ rows \subseteq later
    /\ \A m \in later \ rows : m.ref.transfer = r.transfer /\ m.ref.stage \in StagesOf(r)

\* The lines of a transfer are lines.
LEMMA LinesAreLines == \A t \in Transfers : LineSet(t) \subseteq Lines
BY TransferAssumption DEF LineSet, Range

\* What is on record stays on record.
LEMMA RowsStay ==
    ASSUME NEW rows, NEW later, rows \subseteq later, NEW t, NEW stage, NEW l, Has(rows, t, stage, l)
    PROVE  Has(later, t, stage, l)
BY DEF Has

\* What a request relies on stays true as rows are added.
LEMMA RequestStays ==
    ASSUME NEW r, NEW rows, ValidRequests(r, rows), NEW later, rows \subseteq later
    PROVE  ValidRequests(r, later)
<1>1. ASSUME ValidOperation(r, rows) PROVE ValidOperation(r, later)
  BY <1>1, RowsStay DEF ValidOperation
<1> QED BY <1>1 DEF ValidRequests

\* And so does what an operation relies on.
LEMMA OperationStays ==
    ASSUME NEW r, NEW rows, ValidOperation(r, rows), NEW later, rows \subseteq later
    PROVE  ValidOperation(r, later)
BY RowsStay DEF ValidOperation

\* Rows added in two goes are rows added.
LEMMA ExtendsTwice ==
    ASSUME NEW r, NEW a, NEW b, NEW c, Extends(a, b, r), Extends(b, c, r)
    PROVE  Extends(a, c, r)
BY DEF Extends

\* The movements of a transfer's line are well-typed, and refer to it.
LEMMA MovementType ==
    ASSUME NEW t \in Transfers, NEW l \in LineSet(t), NEW wh \in Warehouses,
           NEW stage \in Stages, NEW kind \in MovementKinds, NEW n \in Nat \ {0}
    PROVE  LET m == Movement(t, l, wh, stage, kind, n)
           IN  /\ m \in Moves
               /\ m.ref = Ref(t, stage, l)
               /\ m.ref.transfer = t /\ m.ref.stage = stage /\ m.ref.line = l
               /\ m.kind = kind /\ m.quantity = n
<1> DEFINE m == Movement(t, l, wh, stage, kind, n)
           cell == <<wh, ItemOf[l]>>
           ref == [transfer |-> t, stage |-> stage, line |-> l]
<1>1. l \in Lines
  BY LinesAreLines
<1>2. cell \in Cells
  BY <1>1, TransferAssumption DEF Cells
<1>3. ref \in [transfer : Transfers, stage : Stages, line : Lines]
  BY <1>1
<1>4. m = [cell |-> cell, kind |-> kind, quantity |-> n, ref |-> ref,
           hasCost |-> FALSE, unitCost |-> 0, allowNegative |-> FALSE]
  BY DEF Movement
<1>5. ref = Ref(t, stage, l) /\ ref.transfer = t /\ ref.stage = stage /\ ref.line = l
  BY DEF Ref
<1> HIDE DEF ref, cell, m
<1>6. m \in Moves /\ m.ref = ref /\ m.kind = kind /\ m.quantity = n
  BY <1>2, <1>3, <1>4 DEF Moves
<1> QED BY <1>5, <1>6 DEF m

\* A reservation or its release is a movement a transfer may post.
LEMMA SetAsideFits ==
    ASSUME NEW t \in Transfers, NEW l \in LineSet(t), NEW rows,
           NEW stage \in {"reserve", "release", "cancel-release"},
           NEW kind \in ReservationKinds
    PROVE  Fits(Movement(t, l, Source[t], stage, kind, Requested[l]), rows)
<1> DEFINE m == Movement(t, l, Source[t], stage, kind, Requested[l])
<1>1. Source[t] \in Warehouses /\ Requested[l] \in Nat \ {0}
  BY TransferAssumption, LinesAreLines
<1>2. stage \in Stages /\ kind \in MovementKinds
  BY DEF Stages, MovementKinds
<1>3. /\ m \in Moves
      /\ m.ref.transfer = t /\ m.ref.stage = stage /\ m.ref.line = l
      /\ m.kind = kind /\ m.quantity = Requested[l]
  BY <1>1, <1>2, MovementType
<1> HIDE DEF m
<1>4. m.ref.stage # "dispatch" /\ m.ref.stage # "receive"
  BY <1>3
<1>7. m.kind \in TransferKinds
  BY <1>3 DEF TransferKinds, ReservationKinds
<1>8. Fits(m, rows)
  BY <1>3, <1>4, <1>7 DEF Fits
<1> QED BY <1>8 DEF m

\* So is a dispatch, of what was requested.
LEMMA DispatchFits ==
    ASSUME NEW t \in Transfers, NEW l \in LineSet(t), NEW rows
    PROVE  Fits(Movement(t, l, Source[t], "dispatch", "OUT_TRANSFER", Requested[l]), rows)
<1> DEFINE m == Movement(t, l, Source[t], "dispatch", "OUT_TRANSFER", Requested[l])
<1>1. Source[t] \in Warehouses /\ Requested[l] \in Nat \ {0}
  BY TransferAssumption, LinesAreLines
<1>2. "dispatch" \in Stages /\ "OUT_TRANSFER" \in MovementKinds
  BY DEF Stages, MovementKinds, OutflowKinds
<1>3. /\ m \in Moves
      /\ m.ref.transfer = t /\ m.ref.stage = "dispatch" /\ m.ref.line = l
      /\ m.kind = "OUT_TRANSFER" /\ m.quantity = Requested[l]
  BY <1>1, <1>2, MovementType
<1> HIDE DEF m
<1>6. m.kind \in TransferKinds
  BY <1>3 DEF TransferKinds
<1>7. Fits(m, rows)
  BY <1>3, <1>6 DEF Fits
<1> QED BY <1>7 DEF m

\* So is a receipt, within what was requested and after its dispatch.
LEMMA ReceiptFits ==
    ASSUME NEW t \in Transfers, NEW l \in LineSet(t), NEW n \in Nat \ {0}, n <= Requested[l],
           NEW rows, Has(rows, t, "dispatch", l)
    PROVE  Fits(Movement(t, l, Dest[t], "receive", "IN_TRANSFER", n), rows)
<1> DEFINE m == Movement(t, l, Dest[t], "receive", "IN_TRANSFER", n)
<1>1. Dest[t] \in Warehouses
  BY TransferAssumption
<1>2. "receive" \in Stages /\ "IN_TRANSFER" \in MovementKinds
  BY DEF Stages, MovementKinds, InflowKinds
<1>3. /\ m \in Moves
      /\ m.ref.transfer = t /\ m.ref.stage = "receive" /\ m.ref.line = l
      /\ m.kind = "IN_TRANSFER" /\ m.quantity = n
  BY <1>1, <1>2, MovementType
<1> HIDE DEF m
<1>6. m.kind \in TransferKinds
  BY <1>3 DEF TransferKinds
<1>7. Fits(m, rows)
  BY <1>3, <1>6 DEF Fits
<1> QED BY <1>7 DEF m

\* What posting for one line does to the books.
LineStep(b, p, r, l) ==
    /\ Books(p)
    /\ Extends(b.posted, p.posted, r)
    /\ p.ok => b.ok /\ Whole(p.posted, r, l)

\* One movement of the request's stages.
LEMMA PostStep ==
    ASSUME allocated \in [Cells -> Nat],
           NEW b, Books(b), NEW r, NEW m, Fits(m, b.posted),
           m.ref.transfer = r.transfer, m.ref.stage \in StagesOf(r)
    PROVE  LET p == PostOne(b, m)
           IN  /\ Books(p) /\ Extends(b.posted, p.posted, r)
               /\ p.ok => b.ok /\ \E x \in p.posted : x.ref = m.ref
<1> DEFINE p == PostOne(b, m)
<1>1. /\ Books(p) /\ b.posted \subseteq p.posted /\ p.posted \subseteq b.posted \cup {m}
      /\ p.ok => b.ok /\ \E x \in p.posted : x.ref = m.ref
  BY PostOneIs
<1> HIDE DEF p
<1>2. Extends(b.posted, p.posted, r)
  BY <1>1 DEF Extends
<1> QED BY <1>1, <1>2 DEF p

\* What a line of the transfer posts, whichever the operation.
LEMMA PostLineIs ==
    ASSUME allocated \in [Cells -> Nat],
           NEW b, Books(b), NEW r, ValidOperation(r, b.posted), NEW l \in LineSet(r.transfer)
    PROVE  LineStep(b, PostLine(b, r, l), r, l)
<1> DEFINE t == r.transfer
           p == PostLine(b, r, l)
<1>1. t \in Transfers /\ l \in LineSet(t) /\ r.op \in DOMAIN Target
  BY DEF ValidOperation
<1>2. r.op \in {"approve", "reject", "dispatch", "receive", "cancel"}
  BY <1>1 DEF Target
<1>3. CASE r.op = "approve"
  <2> DEFINE m == Movement(t, l, Source[t], "reserve", "RESERVE", Requested[l])
  <2>1. p = PostOne(b, m)
    BY <1>3 DEF PostLine, Reservations
  <2>2. StagesOf(r) = {"reserve"}
    BY <1>3 DEF StagesOf
  <2>3. Fits(m, b.posted)
    <3>1. "RESERVE" \in ReservationKinds
      BY DEF ReservationKinds
    <3> QED BY <1>1, <3>1, SetAsideFits
  <2>4. m.ref = Ref(t, "reserve", l)
    BY DEF Movement, Ref
  <2> HIDE DEF m, p, t
  <2>5. m.ref.transfer = r.transfer /\ m.ref.stage \in StagesOf(r)
    BY <2>2, <2>4 DEF Ref, t
  <2>6. /\ Books(p) /\ Extends(b.posted, p.posted, r)
        /\ p.ok => b.ok /\ \E x \in p.posted : x.ref = m.ref
    BY <2>1, <2>3, <2>5, PostStep
  <2>7. p.ok => Whole(p.posted, r, l)
    BY <2>2, <2>4, <2>6 DEF Whole, Has, t
  <2> QED BY <2>6, <2>7 DEF LineStep, p
<1>4. CASE r.op = "dispatch"
  <2> DEFINE m1 == Movement(t, l, Source[t], "release", "RELEASE_RESERVE", Requested[l])
             m2 == Movement(t, l, Source[t], "dispatch", "OUT_TRANSFER", Requested[l])
             q == PostOne(b, m1)
  <2>1. p = PostOne(q, m2)
    BY <1>4 DEF PostLine, Shipments
  <2>2. StagesOf(r) = {"release", "dispatch"}
    BY <1>4 DEF StagesOf
  <2>3. Fits(m1, b.posted)
    <3>1. "RELEASE_RESERVE" \in ReservationKinds
      BY DEF ReservationKinds
    <3> QED BY <1>1, <3>1, SetAsideFits
  <2>4. Fits(m2, q.posted)
    <3> HIDE DEF q
    <3> QED BY <1>1, DispatchFits
  <2>5. m1.ref = Ref(t, "release", l) /\ m2.ref = Ref(t, "dispatch", l)
    BY DEF Movement, Ref
  <2> HIDE DEF m1, m2, p, t
  <2>6. /\ m1.ref.transfer = r.transfer /\ m1.ref.stage \in StagesOf(r)
        /\ m2.ref.transfer = r.transfer /\ m2.ref.stage \in StagesOf(r)
    BY <2>2, <2>5 DEF Ref, t
  <2>7. /\ Books(q) /\ Extends(b.posted, q.posted, r)
        /\ q.ok => b.ok /\ \E x \in q.posted : x.ref = m1.ref
    BY <2>3, <2>6, PostStep
  <2> HIDE DEF q
  <2>8. /\ Books(p) /\ Extends(q.posted, p.posted, r)
        /\ p.ok => q.ok /\ \E x \in p.posted : x.ref = m2.ref
    BY <2>1, <2>4, <2>6, <2>7, PostStep
  <2>9. Extends(b.posted, p.posted, r)
    BY <2>7, <2>8, ExtendsTwice
  <2>10. p.ok => Has(p.posted, t, "release", l) /\ Has(p.posted, t, "dispatch", l)
    BY <2>5, <2>7, <2>8 DEF Has, Extends
  <2>11. p.ok => Whole(p.posted, r, l)
    BY <2>2, <2>10 DEF Whole, t
  <2> QED BY <2>7, <2>8, <2>9, <2>11 DEF LineStep, p
<1>5. CASE r.op = "receive"
  <2>1. StagesOf(r) = {"receive"}
    BY <1>5 DEF StagesOf
  <2>2. \A rows : Whole(rows, r, l)
    BY <2>1 DEF Whole, WholeStages
  <2>3. CASE l \in DOMAIN r.counted /\ r.counted[l].posted > 0
    <3> DEFINE n == r.counted[l].posted
               m == Movement(t, l, Dest[t], "receive", "IN_TRANSFER", n)
    <3>1. p = PostOne(b, m)
      BY <1>5, <2>3 DEF PostLine, Receipts
    <3>2. n \in Nat /\ n <= Requested[l] /\ Has(b.posted, t, "dispatch", l)
      BY <1>1, <1>5, <2>3 DEF ValidOperation
    <3>3. n \in Nat \ {0}
      BY <2>3, <3>2
    <3> HIDE DEF n
    <3>4. Fits(m, b.posted)
      BY <1>1, <3>2, <3>3, ReceiptFits
    <3>5. m.ref = Ref(t, "receive", l)
      BY DEF Movement, Ref
    <3> HIDE DEF m, p, t
    <3>6. m.ref.transfer = r.transfer /\ m.ref.stage \in StagesOf(r)
      BY <2>1, <3>5 DEF Ref, t
    <3>7. /\ Books(p) /\ Extends(b.posted, p.posted, r)
          /\ p.ok => b.ok /\ \E x \in p.posted : x.ref = m.ref
      BY <3>1, <3>4, <3>6, PostStep
    <3> QED BY <2>2, <3>7 DEF LineStep, p
  <2>4. CASE ~(l \in DOMAIN r.counted /\ r.counted[l].posted > 0)
    <3>1. p = b
      BY <1>5, <2>4 DEF PostLine, Receipts
    <3> QED BY <2>2, <3>1 DEF LineStep, Extends
  <2> QED BY <2>3, <2>4
<1>6. CASE r.op = "cancel"
  <2>1. StagesOf(r) = IF r.seen = "APPROVED" THEN {"cancel-release"} ELSE {}
    BY <1>6 DEF StagesOf
  <2>2. \A rows : Whole(rows, r, l)
    BY <2>1 DEF Whole, WholeStages
  <2>3. CASE r.seen = "APPROVED"
    <3> DEFINE m == Movement(t, l, Source[t], "cancel-release", "RELEASE_RESERVE", Requested[l])
    <3>1. p = PostOne(b, m)
      BY <1>6, <2>3 DEF PostLine, CancelReleases
    <3>2. Fits(m, b.posted)
      <4>1. "RELEASE_RESERVE" \in ReservationKinds
        BY DEF ReservationKinds
      <4> QED BY <1>1, <4>1, SetAsideFits
    <3>3. m.ref = Ref(t, "cancel-release", l)
      BY DEF Movement, Ref
    <3> HIDE DEF m, p, t
    <3>4. m.ref.transfer = r.transfer /\ m.ref.stage \in StagesOf(r)
      BY <2>1, <2>3, <3>3 DEF Ref, t
    <3>5. /\ Books(p) /\ Extends(b.posted, p.posted, r)
          /\ p.ok => b.ok /\ \E x \in p.posted : x.ref = m.ref
      BY <3>1, <3>2, <3>4, PostStep
    <3> QED BY <2>2, <3>5 DEF LineStep, p
  <2>4. CASE r.seen # "APPROVED"
    <3>1. p = b
      BY <1>6, <2>4 DEF PostLine
    <3> QED BY <2>2, <3>1 DEF LineStep, Extends
  <2> QED BY <2>3, <2>4
<1>7. CASE r.op = "reject"
  <2>1. p = b /\ StagesOf(r) = {}
    BY <1>7 DEF PostLine, StagesOf
  <2> QED BY <2>1 DEF LineStep, Extends, Whole
<1> QED BY <1>2, <1>3, <1>4, <1>5, <1>6, <1>7

\* The loop as a function of the number of lines it has gone through.
Begin(r) == [ok |-> TRUE, stock |-> Seen(r.bare), posted |-> posted]

IsLoop(f, r, n) ==
    f = [k \in 0..n |-> IF k = 0 THEN Begin(r)
                        ELSE PostLine(f[k - 1], r, LinesOf[r.transfer][k])]

\* The natural numbers below one another have a smallest in every set.
LEMMA Smallest ==
    ASSUME NEW S, S \subseteq Nat, S # {}
    PROVE  \E n \in S : \A k \in S : n <= k
<1>1. PICK n \in S : \A k \in S : <<k, n>> \notin OpToRel(<, Nat)
  BY NatLessThanWellFounded, WFMin
<1>2. ASSUME NEW k \in S PROVE n <= k
  <2>1. n \in Nat /\ k \in Nat
    OBVIOUS
  <2>2. ~(k < n)
    BY <1>1, <2>1 DEF OpToRel
  <2> QED BY <2>1, <2>2
<1> QED BY <1>2

\* A loop over any number of lines has a result: if not, the smallest number
\* without one is not 0, and one step more than the loop before it is one.
LEMMA LoopExists ==
    ASSUME NEW r, NEW n \in Nat
    PROVE  \E f : IsLoop(f, r, n)
<1> DEFINE bad == {k \in Nat : ~\E f : IsLoop(f, r, k)}
<1> SUFFICES ASSUME bad # {} PROVE FALSE
  OBVIOUS
<1>1. PICK k \in bad : \A j \in bad : k <= j
  BY Smallest
<1>2. k \in Nat /\ ~\E f : IsLoop(f, r, k)
  OBVIOUS
<1>3. k # 0
  <2> DEFINE f == [j \in 0..0 |-> Begin(r)]
  <2>1. f = [j \in 0..0 |-> IF j = 0 THEN Begin(r)
                            ELSE PostLine(f[j - 1], r, LinesOf[r.transfer][j])]
    OBVIOUS
  <2> HIDE DEF f
  <2>2. IsLoop(f, r, 0)
    BY <2>1 DEF IsLoop
  <2> QED BY <1>2, <2>2
<1>4. k - 1 \in Nat /\ ~(k <= k - 1)
  BY <1>2, <1>3
<1>5. PICK f : IsLoop(f, r, k - 1)
  BY <1>1, <1>4
<1> DEFINE last == PostLine(f[k - 1], r, LinesOf[r.transfer][k])
           g == [j \in 0..k |-> IF j = k THEN last ELSE f[j]]
<1>6. ASSUME NEW j \in 0..k
      PROVE  g[j] = IF j = 0 THEN Begin(r) ELSE PostLine(g[j - 1], r, LinesOf[r.transfer][j])
  <2>1. CASE j = k
    <3>1. g[j] = last /\ g[j - 1] = f[k - 1] /\ j # 0
      BY <1>2, <1>3, <2>1
    <3> QED BY <2>1, <3>1
  <2>2. CASE j # k
    <3>1. j \in 0..(k - 1) /\ g[j] = f[j]
      BY <1>2, <2>2
    <3>2. f[j] = IF j = 0 THEN Begin(r) ELSE PostLine(f[j - 1], r, LinesOf[r.transfer][j])
      BY <1>5, <3>1 DEF IsLoop
    <3>3. CASE j = 0
      BY <3>1, <3>2, <3>3
    <3>4. CASE j # 0
      <4>1. g[j - 1] = f[j - 1]
        BY <1>2, <3>1, <3>4
      <4> HIDE DEF g
      <4> QED BY <3>1, <3>2, <3>4, <4>1
    <3> QED BY <3>3, <3>4
  <2> QED BY <2>1, <2>2
<1>7. g = [j \in 0..k |-> IF j = 0 THEN Begin(r)
                          ELSE PostLine(g[j - 1], r, LinesOf[r.transfer][j])]
  <2> DEFINE h == [j \in 0..k |-> IF j = 0 THEN Begin(r)
                                  ELSE PostLine(g[j - 1], r, LinesOf[r.transfer][j])]
  <2>1. \A j \in 0..k : g[j] = h[j]
    BY <1>6
  <2>2. DOMAIN g = 0..k /\ DOMAIN h = 0..k
    OBVIOUS
  <2>3. g = [j \in 0..k |-> g[j]] /\ h = [j \in 0..k |-> h[j]]
    OBVIOUS
  <2> HIDE DEF g, h
  <2>4. g = h
    BY <2>1, <2>3
  <2> QED BY <2>4 DEF h
<1> HIDE DEF g
<1>8. IsLoop(g, r, k)
  BY <1>7 DEF IsLoop
<1> QED BY <1>2, <1>8

\* After k lines: the books are sound, and the first k lines are posted.
Through(b, r, k) ==
    /\ Books(b)
    /\ Extends(posted, b.posted, r)
    /\ b.ok => \A j \in 1..k : Whole(b.posted, r, LinesOf[r.transfer][j])

\* The books an operation ends with.
LEMMA PostAllIs ==
    ASSUME allocated \in [Cells -> Nat], NEW r, Books(Begin(r)), ValidOperation(r, posted)
    PROVE  /\ Books(PostAll(r))
           /\ Extends(posted, PostAll(r).posted, r)
           /\ PostAll(r).ok => \A l \in LineSet(r.transfer) : Whole(PostAll(r).posted, r, l)
<1> DEFINE lines == LinesOf[r.transfer]
           n == Len(lines)
           f == CHOOSE f : IsLoop(f, r, n)
           bad == {k \in Nat : k <= n /\ ~Through(f[k], r, k)}
<1>1. lines \in Seq(Lines) /\ n \in Nat /\ DOMAIN lines = 1..n
  BY TransferAssumption DEF ValidOperation
<1>2. PostAll(r) = f[n]
  BY DEF PostAll, IsLoop, Begin
<1>3. IsLoop(f, r, n)
  <2> HIDE DEF n
  <2> QED BY <1>1, LoopExists
<1> HIDE DEF f, n, lines
<1>4. /\ f[0] = Begin(r)
      /\ \A k \in 1..n : f[k] = PostLine(f[k - 1], r, lines[k])
  BY <1>1, <1>3 DEF IsLoop, lines
<1>5. bad = {}
  <2> SUFFICES ASSUME bad # {} PROVE FALSE
    OBVIOUS
  <2>1. PICK k \in bad : \A j \in bad : k <= j
    BY Smallest
  <2>2. k \in Nat /\ k <= n /\ ~Through(f[k], r, k)
    OBVIOUS
  <2>3. k # 0
    <3>1. Extends(posted, Begin(r).posted, r)
      BY DEF Extends, Begin
    <3>2. Through(Begin(r), r, 0)
      BY <3>1 DEF Through
    <3> QED BY <1>4, <2>2, <3>2
  <2>4. k - 1 \in Nat /\ k - 1 <= n /\ ~(k <= k - 1) /\ k \in 1..n
    BY <1>1, <2>2, <2>3
  <2> DEFINE b == f[k - 1]
             p == f[k]
             l == lines[k]
  <2>5. Through(b, r, k - 1)
    BY <2>1, <2>4
  <2>6. p = PostLine(b, r, l)
    BY <1>4, <2>4
  <2>7. l \in LineSet(r.transfer)
    BY <1>1, <2>4 DEF LineSet, Range, lines
  <2>8. posted \subseteq b.posted
    BY <2>5 DEF Through, Extends
  <2>9. ValidOperation(r, b.posted)
    BY <2>8, OperationStays
  <2> HIDE DEF b, p, l
  <2>10. LineStep(b, p, r, l)
    BY <2>5, <2>6, <2>7, <2>9, PostLineIs DEF Through
  <2>11. Books(p) /\ Extends(posted, p.posted, r)
    BY <2>5, <2>10, ExtendsTwice DEF LineStep, Through
  <2>12. ASSUME p.ok, NEW j \in 1..k PROVE Whole(p.posted, r, lines[j])
    <3>1. CASE j = k
      BY <2>10, <2>12, <3>1 DEF LineStep, l
    <3>2. CASE j # k
      <4>1. j \in 1..(k - 1)
        BY <2>2, <3>2
      <4>2. Whole(b.posted, r, lines[j]) /\ b.posted \subseteq p.posted
        BY <2>5, <2>10, <2>12, <4>1 DEF LineStep, Through, Extends, lines
      <4> QED BY <4>2, RowsStay DEF Whole
    <3> QED BY <3>1, <3>2
  <2>13. Through(p, r, k)
    BY <2>11, <2>12 DEF Through, lines
  <2> QED BY <2>2, <2>13 DEF p
<1>6. Through(f[n], r, n)
  BY <1>1, <1>5
<1>7. ASSUME NEW l \in LineSet(r.transfer) PROVE \E j \in 1..n : l = lines[j]
  BY <1>1 DEF LineSet, Range, lines
<1> QED BY <1>2, <1>6, <1>7 DEF Through, lines

-----------------------------------------------------------------------------
(* The invariant *)

\* At first nothing is posted and nothing under way.
LEMMA InitIInv == Init => IInv
<1> SUFFICES ASSUME Init PROVE IInv
  OBVIOUS
<1>1. /\ stock = [c \in Cells |-> IF c \in WarmCells
                                 THEN [NoBalance EXCEPT !.quantity = OpeningQuantity[c]]
                                 ELSE NoRow]
      /\ posted = {}
      /\ transfer = [t \in Transfers |-> [status |-> "ABSENT",
                                          dispatched |-> [l \in Lines |-> 0],
                                          received |-> [l \in Lines |-> 0]]]
      /\ allocated = [c \in Cells |-> 0]
      /\ request = [s \in Sessions |-> NoRequest]
  BY DEF Init
<1>2. TypeOK
  <2>1. stock \in [Cells -> Balances \cup {NoRow}]
    <3>1. \A c \in WarmCells : [NoBalance EXCEPT !.quantity = OpeningQuantity[c]] \in Balances
      BY TransferAssumption DEF NoBalance, Balances
    <3> QED BY <1>1, <3>1
  <2>2. transfer \in [Transfers -> [status : Statuses, dispatched : [Lines -> Nat],
                                    received : [Lines -> Nat]]]
    <3>1. "ABSENT" \in Statuses /\ [l \in Lines |-> 0] \in [Lines -> Nat]
      BY DEF Statuses
    <3> QED BY <1>1, <3>1
  <2>3. allocated \in [Cells -> Nat]
    BY <1>1
  <2>4. \A s \in Sessions : request[s] = NoRequest
    BY <1>1
  <2> QED BY <2>1, <2>2, <2>3, <2>4 DEF TypeOK
<1>3. Rows(posted)
  BY <1>1, FS_EmptySet DEF Rows
<1>4. Requests
  BY <1>1 DEF Requests
<1>5. Dispatches
  <2>1. \A t \in Transfers, l \in Lines : transfer[t].dispatched[l] = 0
    BY <1>1
  <2>2. \A l \in Lines : Requested[l] \in Nat
    BY TransferAssumption
  <2> QED BY <2>1, <2>2 DEF Dispatches
<1>6. PiecesConserved
  <2>1. ASSUME NEW c \in WarmCells PROVE Accounted(stock[c], posted, allocated[c], c)
    <3> DEFINE row == stock[c]
               a == OpeningQuantity[c]
    <3>1. c \in Cells /\ a \in Nat
      BY TransferAssumption
    <3>2. row = [quantity |-> a, reserved |-> 0, avgCost |-> 0] /\ allocated[c] = 0
      BY <1>1, <3>1 DEF NoBalance
    <3>3. \A kind : Of(posted, c, kind) = {}
      BY <1>1 DEF Of
    <3>4. AmountSum({}) \in Nat
      BY FS_EmptySet, AmountIsCoins
    <3> HIDE DEF row, a
    <3>5. row.quantity = a /\ row.reserved = 0 /\ row \in Balances
      BY <3>1, <3>2 DEF Balances
    <3>6. row # NoRow
      BY <3>5, TransferAssumption
    <3>7. /\ row.quantity + allocated[c] + AmountSum({}) = a + AmountSum({})
          /\ row.reserved + AmountSum({}) = AmountSum({})
      BY <3>1, <3>2, <3>4, <3>5
    <3> QED BY <3>3, <3>6, <3>7 DEF Accounted, row, a
  <2>2. Conserved(stock, posted, allocated)
    BY <2>1 DEF Conserved
  <2> QED BY <2>2, ConservedIs
<1>7. StatusBackedByLedger
  BY <1>1 DEF StatusBackedByLedger
<1>8. LinesMoveTogether
  BY <1>1 DEF LinesMoveTogether
<1> QED BY <1>2, <1>3, <1>4, <1>5, <1>6, <1>7, <1>8 DEF IInv

\* The fields of a transfer, from the type invariant.
LEMMA TypeTransfer ==
    ASSUME TypeOK, NEW t \in Transfers
    PROVE  /\ transfer[t] = [status |-> transfer[t].status,
                             dispatched |-> transfer[t].dispatched,
                             received |-> transfer[t].received]
           /\ transfer[t].status \in Statuses
           /\ transfer[t].dispatched \in [Lines -> Nat] /\ transfer[t].received \in [Lines -> Nat]
BY DEF TypeOK

\* A new transfer has neither rows nor open requests.
LEMMA CreateStep ==
    ASSUME IInv, NEW t \in Transfers, CreateTransfer(t)
    PROVE  IInv'
<1>1. /\ TypeOK /\ Rows(posted) /\ Requests /\ Dispatches
      /\ PiecesConserved /\ StatusBackedByLedger /\ LinesMoveTogether
  BY DEF IInv
<1>2. /\ transfer' = [transfer EXCEPT ![t].status = "REQUESTED"]
      /\ stock' = stock /\ posted' = posted /\ allocated' = allocated /\ request' = request
  BY DEF CreateTransfer
<1>3. transfer' = [transfer EXCEPT ![t] = [status |-> "REQUESTED",
                         dispatched |-> transfer[t].dispatched,
                         received |-> transfer[t].received]]
  <2> DEFINE old == transfer[t]
             new == [old EXCEPT !.status = "REQUESTED"]
  <2>1. transfer' = [transfer EXCEPT ![t] = new]
    BY <1>2
  <2>2. old = [status |-> old.status, dispatched |-> old.dispatched, received |-> old.received]
    BY <1>1, TypeTransfer
  <2> HIDE DEF old
  <2>3. new = [status |-> "REQUESTED", dispatched |-> old.dispatched, received |-> old.received]
    BY <2>2
  <2> QED BY <2>1, <2>3 DEF old
<1>4. transfer \in [Transfers -> [status : Statuses, dispatched : [Lines -> Nat],
                                  received : [Lines -> Nat]]]
  BY <1>1 DEF TypeOK
<1>5. TypeOK'
  <2>1. "REQUESTED" \in Statuses
    BY DEF Statuses
  <2>2. transfer' \in [Transfers -> [status : Statuses, dispatched : [Lines -> Nat],
                                     received : [Lines -> Nat]]]
    BY <1>1, <1>3, <1>4, <2>1, TypeTransfer
  <2> QED BY <1>1, <1>2, <2>2 DEF TypeOK
<1>6. Rows(posted)'
  BY <1>1, <1>2 DEF Rows, Has
<1>7. Requests'
  BY <1>1, <1>2 DEF Requests
<1>8. \A u \in Transfers : transfer'[u].dispatched = transfer[u].dispatched
  BY <1>3, <1>4
<1>9. Dispatches'
  BY <1>1, <1>8 DEF Dispatches
<1>10. PiecesConserved'
  BY <1>1, <1>2, ConservedStays
<1>11. StatusBackedByLedger'
  <2>1. /\ transfer'[t].status = "REQUESTED"
        /\ \A u \in Transfers \ {t} : transfer'[u].status = transfer[u].status
    BY <1>3, <1>4
  <2>2. transfer[t].status = "ABSENT"
    BY DEF CreateTransfer
  <2>3. \A m \in posted : m.ref.transfer # t
    BY <1>1, <2>2 DEF StatusBackedByLedger
  <2> QED BY <1>1, <1>2, <2>1, <2>3 DEF StatusBackedByLedger, PostedFor
<1>12. LinesMoveTogether'
  BY <1>1, <1>2 DEF LinesMoveTogether, PostedFor
<1> QED BY <1>5, <1>6, <1>7, <1>9, <1>10, <1>11, <1>12 DEF IInv

\* An opened transaction keeps the invariant if what it carries may be relied on.
LEMMA OpenStep ==
    ASSUME IInv, NEW s \in Sessions, NEW r, ValidRequests(r, posted),
           request' = [request EXCEPT ![s] = r],
           stock' = stock, posted' = posted, allocated' = allocated, transfer' = transfer
    PROVE  IInv'
<1>1. /\ TypeOK /\ Rows(posted) /\ Requests /\ Dispatches
      /\ PiecesConserved /\ StatusBackedByLedger /\ LinesMoveTogether
  BY DEF IInv
<1>2. DOMAIN request' = Sessions /\ \A u \in Sessions : request'[u] = r \/ request'[u] = request[u]
  BY <1>1 DEF Requests
<1>3. \A u \in Sessions : request'[u] # NoRequest => ValidRequests(request'[u], posted)
  BY <1>1, <1>2 DEF Requests
<1>4. Requests'
  BY <1>2, <1>3 DEF Requests
<1>5. TypeOK'
  <2>1. ASSUME NEW u \in Sessions, request'[u] # NoRequest
        PROVE  /\ request'[u].absent \subseteq Cells
               /\ \A c \in DOMAIN request'[u].bare : request'[u].bare[c] \in Balances
               /\ \/ request'[u].op = "allocate" /\ request'[u].cell \in Cells
                  \/ /\ request'[u].op \in DOMAIN Target
                     /\ request'[u].transfer \in Transfers
                     /\ request'[u].seen \in Statuses
    BY <1>3, <2>1 DEF ValidRequests, ValidOperation, Bare
  <2> QED BY <1>1, <2>1 DEF TypeOK
<1>6. Rows(posted)' /\ Dispatches'
  BY <1>1 DEF Rows, Has, Dispatches
<1>7. PiecesConserved' /\ StatusBackedByLedger' /\ LinesMoveTogether'
  BY <1>1, ConservedStays DEF StatusBackedByLedger, LinesMoveTogether, PostedFor
<1> QED BY <1>4, <1>5, <1>6, <1>7 DEF IInv

\* A row that was there at first still is, so a transaction can lock it.
LEMMA WarmStays ==
    ASSUME IInv, NEW cells, cells \subseteq Cells
    PROVE  Unlockable(cells) \subseteq Cells \ WarmCells
BY DEF IInv, PiecesConserved, Unlockable

\* An operation posts on cells.
LEMMA CellsAreCells ==
    ASSUME NEW t \in Transfers, NEW op, NEW seen, NEW counted, DOMAIN counted \subseteq LineSet(t)
    PROVE  CellsOf(t, op, seen, counted) \subseteq Cells
<1>1. \A l \in LineSet(t) : <<Source[t], ItemOf[l]>> \in Cells /\ <<Dest[t], ItemOf[l]>> \in Cells
  BY LinesAreLines, TransferAssumption DEF Cells
<1> QED BY <1>1 DEF CellsOf

\* Nothing is read without a lock yet when a transaction begins.
LEMMA EmptyIs == DOMAIN Empty = {}
BY DEF Empty

\* What a read finds is what its request may rely on.
LEMMA ReadStep ==
    ASSUME IInv, NEW s \in Sessions, NEW t \in Transfers, NEW op \in DOMAIN Target,
           NEW counted \in Counts(t), Read(s, t, op, counted)
    PROVE  IInv'
<1> DEFINE seen == transfer[t].status
           none == Unlockable(CellsOf(t, op, seen, counted))
           r == [transfer |-> t, op |-> op, seen |-> seen, counted |-> counted,
                 absent |-> none, bare |-> Empty]
<1>1. /\ TypeOK /\ Rows(posted) /\ Requests /\ Dispatches
      /\ PiecesConserved /\ StatusBackedByLedger /\ LinesMoveTogether
  BY DEF IInv
<1>2. /\ Target[op] \in Transitions[seen]
      /\ DOMAIN counted \subseteq LineSet(t)
      /\ \A l \in DOMAIN counted : counted[l].posted <= transfer[t].dispatched[l]
      /\ request' = [request EXCEPT ![s] = r]
      /\ stock' = stock /\ posted' = posted /\ allocated' = allocated /\ transfer' = transfer
  BY DEF Read
<1>3. seen \in Statuses /\ transfer[t].dispatched \in [Lines -> Nat]
  BY <1>1, TypeTransfer
<1>4. \A l \in DOMAIN counted : /\ counted[l].posted \in Nat /\ counted[l].noted \in Nat
                                /\ counted[l].posted <= Requested[l]
  <2>1. PICK S \in SUBSET LineSet(t) : counted \in [S -> Tallies]
    BY DEF Counts
  <2>2. \A n \in Tallies : n.posted \in Nat /\ n.noted \in Nat
    BY TransferAssumption DEF Tallies
  <2>3. \A l \in DOMAIN counted : counted[l].posted \in Nat /\ counted[l].noted \in Nat
    BY <2>1, <2>2
  <2> SUFFICES ASSUME NEW l \in DOMAIN counted PROVE counted[l].posted <= Requested[l]
    BY <2>3
  <2>4. l \in Lines
    BY <1>2, LinesAreLines
  <2>5. transfer[t].dispatched[l] \in Nat /\ transfer[t].dispatched[l] <= Requested[l]
        /\ Requested[l] \in Nat
    BY <1>1, <1>3, <2>4, TransferAssumption DEF Dispatches
  <2> QED BY <1>2, <2>3, <2>5
<1>5. op = "receive" => \A l \in LineSet(t) : Has(posted, t, "dispatch", l)
  <2> SUFFICES ASSUME op = "receive" PROVE \A l \in LineSet(t) : Has(posted, t, "dispatch", l)
    OBVIOUS
  <2>1. "RECEIVED" \in Transitions[seen]
    BY <1>2 DEF Target
  <2>2. seen = "IN_TRANSIT"
    BY <1>3, <2>1 DEF Transitions, Statuses
  <2>3. PostedFor(t, "dispatch")
    BY <1>1, <2>2 DEF StatusBackedByLedger
  <2> QED BY <2>3 DEF PostedFor, Has, Ref
<1>6. op \in {"dispatch", "receive"} \/ (op = "cancel" /\ seen = "APPROVED")
         => \A l \in LineSet(t) : Has(posted, t, "reserve", l)
  <2>1. CASE seen = "APPROVED"
    <3>1. PostedFor(t, "reserve")
      BY <1>1, <2>1 DEF StatusBackedByLedger
    <3> QED BY <3>1 DEF PostedFor, Has, Ref
  <2>2. CASE op = "dispatch"
    <3>1. "IN_TRANSIT" \in Transitions[seen]
      BY <1>2, <2>2 DEF Target
    <3>2. seen = "APPROVED"
      BY <1>3, <3>1 DEF Transitions, Statuses
    <3> QED BY <2>1, <3>2
  <2>3. CASE op = "receive"
    <3> SUFFICES ASSUME NEW l \in LineSet(t) PROVE Has(posted, t, "reserve", l)
      OBVIOUS
    <3>1. PICK m \in posted : m.ref = Ref(t, "dispatch", l)
      BY <1>5, <2>3 DEF Has
    <3>2. m.ref.transfer = t
      BY <3>1 DEF Ref
    <3>3. PostedFor(t, "reserve")
      BY <1>1, <3>2 DEF StatusBackedByLedger
    <3> QED BY <3>3 DEF PostedFor, Has, Ref
  <2> QED BY <2>1, <2>2, <2>3
<1>7. none \subseteq Cells \ WarmCells
  BY <1>2, CellsAreCells, WarmStays
<1>8. /\ r.transfer = t /\ r.op = op /\ r.seen = seen /\ r.counted = counted
      /\ r.absent = none /\ r.bare = Empty
  OBVIOUS
<1> HIDE DEF r, none, seen
<1>9. ValidOperation(r, posted)
  BY <1>2, <1>3, <1>4, <1>5, <1>6, <1>8 DEF ValidOperation, Follows
<1>10. Bare(r)
  BY <1>7, <1>8, EmptyIs DEF Bare
<1>11. ValidRequests(r, posted)
  BY <1>9, <1>10 DEF ValidRequests
<1> QED BY <1>2, <1>11, OpenStep

\* A technician's allocation relies on nothing.
LEMMA DrawStep ==
    ASSUME IInv, NEW s \in Sessions, NEW c \in Cells, Draw(s, c, 1)
    PROVE  IInv'
<1> DEFINE r == [op |-> "allocate", cell |-> c, pieces |-> 1,
                 absent |-> Unlockable({c}), bare |-> Empty]
<1>1. /\ request' = [request EXCEPT ![s] = r]
      /\ stock' = stock /\ posted' = posted /\ allocated' = allocated /\ transfer' = transfer
  BY DEF Draw
<1>2. Unlockable({c}) \subseteq Cells \ WarmCells
  BY WarmStays
<1>3. ValidRequests(r, posted)
  BY <1>2, EmptyIs DEF ValidRequests, Bare
<1> HIDE DEF r
<1> QED BY <1>1, <1>3, OpenStep

\* What a transaction may look at without a lock was absent, so not there at first.
LEMMA LookStep ==
    ASSUME IInv, NEW s \in Sessions, NEW c \in Cells, Look(s, c)
    PROVE  IInv'
<1> DEFINE r == request[s]
           seen == [d \in DOMAIN r.bare \cup {c} |-> IF d = c THEN stock[c] ELSE r.bare[d]]
           new == [r EXCEPT !.bare = seen]
<1>1. /\ TypeOK /\ Requests
  BY DEF IInv
<1>2. /\ r # NoRequest /\ c \in r.absent /\ stock[c] # NoRow
      /\ request' = [request EXCEPT ![s].bare =
            [d \in DOMAIN @ \cup {c} |-> IF d = c THEN stock[c] ELSE @[d]]]
      /\ stock' = stock /\ posted' = posted /\ allocated' = allocated /\ transfer' = transfer
  BY DEF Look
<1>3. request' = [request EXCEPT ![s] = new]
  BY <1>2
<1>4. ValidRequests(r, posted)
  BY <1>1, <1>2 DEF Requests
<1>5. stock[c] \in Balances
  BY <1>1, <1>2 DEF TypeOK
<1>6. /\ new.op = r.op /\ new.absent = r.absent
      /\ new.cell = r.cell /\ new.pieces = r.pieces
      /\ new.transfer = r.transfer /\ new.seen = r.seen /\ new.counted = r.counted
  OBVIOUS
<1>7. new.bare = seen
  OBVIOUS
<1> HIDE DEF new, r
<1>8. Bare(new)
  BY <1>2, <1>4, <1>5, <1>6, <1>7 DEF ValidRequests, Bare
<1>9. ASSUME ValidOperation(r, posted) PROVE ValidOperation(new, posted)
  BY <1>6, <1>9 DEF ValidOperation, Follows
<1>10. ValidRequests(new, posted)
  BY <1>4, <1>6, <1>8, <1>9 DEF ValidRequests
<1> QED BY <1>2, <1>3, <1>10, OpenStep

\* Nothing remains of a transaction that is rolled back.
LEMMA AbortStep ==
    ASSUME IInv, NEW s \in Sessions, Abort(s)
    PROVE  IInv'
<1>1. /\ TypeOK /\ Rows(posted) /\ Requests /\ Dispatches
      /\ PiecesConserved /\ StatusBackedByLedger /\ LinesMoveTogether
  BY DEF IInv
<1>2. /\ request' = [request EXCEPT ![s] = NoRequest]
      /\ stock' = stock /\ posted' = posted /\ allocated' = allocated /\ transfer' = transfer
  BY DEF Abort
<1>3. DOMAIN request' = Sessions
      /\ \A u \in Sessions : request'[u] = NoRequest \/ request'[u] = request[u]
  BY <1>1, <1>2 DEF Requests
<1>4. Requests'
  BY <1>1, <1>2, <1>3 DEF Requests
<1>5. TypeOK'
  BY <1>1, <1>2, <1>3 DEF TypeOK
<1>6. Rows(posted)' /\ Dispatches'
  BY <1>1, <1>2 DEF Rows, Has, Dispatches
<1>7. PiecesConserved' /\ StatusBackedByLedger' /\ LinesMoveTogether'
  BY <1>1, <1>2, ConservedStays DEF StatusBackedByLedger, LinesMoveTogether, PostedFor
<1> QED BY <1>4, <1>5, <1>6, <1>7 DEF IInv

\* What a transaction sees of the rows that were there at first is what they are.
LEMMA SeenIs ==
    ASSUME IInv, NEW r, Bare(r)
    PROVE  /\ Seen(r.bare) \in [Cells -> Balances \cup {NoRow}]
           /\ \A c \in WarmCells : Seen(r.bare)[c] = stock[c]
BY TransferAssumption DEF IInv, TypeOK, Bare, Seen

\* Pieces that go to a technician leave the shelf of their cell for the van.
LEMMA AllocationStep ==
    ASSUME IInv, NEW s \in Sessions, CommitAllocation(s)
    PROVE  IInv'
<1> DEFINE r == request[s]
           c == r.cell
           n == r.pieces
           m == [cell |-> c, kind |-> "OUT_TO_TECHNICIAN", quantity |-> n,
                 hasCost |-> FALSE, unitCost |-> 0, allowNegative |-> FALSE]
           row == Balance(Seen(r.bare)[c])
           new == After(row, m)
<1>1. /\ TypeOK /\ Rows(posted) /\ Requests /\ Dispatches
      /\ PiecesConserved /\ StatusBackedByLedger /\ LinesMoveTogether
  BY DEF IInv
<1>2. /\ r # NoRequest /\ r.op = "allocate"
      /\ stock' = [stock EXCEPT ![c] = new]
      /\ allocated' = [allocated EXCEPT ![c] = @ + n]
      /\ posted' = posted /\ transfer' = transfer
      /\ request' = [request EXCEPT ![s] = NoRequest]
  BY DEF CommitAllocation
<1>3. Bare(r) /\ c \in Cells /\ n \in Nat
  <2>1. ValidRequests(r, posted)
    BY <1>1, <1>2 DEF Requests
  <2>2. ~ValidOperation(r, posted)
    BY <1>2 DEF ValidOperation, Target
  <2> QED BY <2>1, <2>2 DEF ValidRequests
<1>4. stock \in [Cells -> Balances \cup {NoRow}] /\ allocated \in [Cells -> Nat]
  BY <1>1 DEF TypeOK
<1>5. row \in Balances /\ (c \in WarmCells => stock[c] \in Balances /\ row = stock[c])
  <2>1. Seen(r.bare)[c] \in Balances \cup {NoRow}
        /\ (c \in WarmCells => Seen(r.bare)[c] = stock[c])
    <3> HIDE DEF r
    <3> QED BY <1>3, SeenIs
  <2>2. c \in WarmCells => stock[c] # NoRow
    BY <1>1 DEF PiecesConserved
  <2> QED BY <1>3, <1>4, <2>1, <2>2, BalanceType
<1>6. /\ new \in Balances /\ new.quantity = row.quantity - n /\ new.reserved = row.reserved
  <2>1. m.quantity = n /\ m.hasCost = FALSE /\ m.kind = "OUT_TO_TECHNICIAN"
    OBVIOUS
  <2> HIDE DEF m, row, c, n
  <2>2. /\ new \in Balances
        /\ new.quantity = row.quantity + PhysicalDelta(m.kind, m.quantity)
        /\ new.reserved = row.reserved + ReservationDelta(m.kind, m.quantity)
    BY <1>3, <1>5, <2>1, AfterType
  <2>3. PhysicalDelta(m.kind, m.quantity) = -n /\ ReservationDelta(m.kind, m.quantity) = 0
    BY <2>1 DEF PhysicalDelta, ReservationDelta, InflowKinds, OutflowKinds
  <2>4. row.quantity \in Int /\ row.reserved \in Int
    BY <1>5 DEF Balances
  <2> HIDE DEF new
  <2> QED BY <1>3, <2>2, <2>3, <2>4
<1> HIDE DEF new, row, m, c, n, r
<1>7. /\ stock' \in [Cells -> Balances \cup {NoRow}] /\ allocated' \in [Cells -> Nat]
      /\ stock'[c] = new /\ allocated'[c] = allocated[c] + n
      /\ \A d \in Cells \ {c} : stock'[d] = stock[d] /\ allocated'[d] = allocated[d]
  BY <1>2, <1>3, <1>4, <1>6
<1>8. PiecesConserved'
  <2>1. Conserved(stock, posted, allocated)
    BY <1>1, ConservedIs
  <2>2. ASSUME NEW d \in WarmCells PROVE Accounted(stock'[d], posted, allocated'[d], d)
    <3>1. d \in Cells /\ Accounted(stock[d], posted, allocated[d], d)
      BY <2>1, TransferAssumption DEF Conserved
    <3>2. CASE d # c
      BY <1>7, <3>1, <3>2
    <3>3. CASE d = c
      <4>1. stock'[d] = new /\ allocated'[d] = allocated[d] + n
        BY <1>7, <3>3
      <4>2. new.quantity = stock[d].quantity - n /\ new.reserved = stock[d].reserved
        BY <1>5, <1>6, <3>3
      <4>3. stock[d].quantity \in Int /\ allocated[d] \in Nat
        BY <1>4, <1>5, <3>1, <3>3 DEF Balances
      <4>4. stock'[d].quantity + allocated'[d] = stock[d].quantity + allocated[d]
        BY <1>3, <4>1, <4>2, <4>3
      <4>5. new # NoRow
        BY <1>6, TransferAssumption
      <4> QED BY <3>1, <4>1, <4>2, <4>4, <4>5 DEF Accounted
    <3> QED BY <3>2, <3>3
  <2>3. Conserved(stock', posted', allocated')
    BY <1>2, <2>2 DEF Conserved
  <2> QED BY <2>3, ConservedNext
<1>9. DOMAIN request' = Sessions
      /\ \A u \in Sessions : request'[u] = NoRequest \/ request'[u] = request[u]
  BY <1>1, <1>2 DEF Requests
<1>10. TypeOK'
  BY <1>1, <1>2, <1>7, <1>9 DEF TypeOK
<1>11. Rows(posted)' /\ Dispatches' /\ Requests'
  BY <1>1, <1>2, <1>9 DEF Rows, Has, Dispatches, Requests
<1>12. StatusBackedByLedger' /\ LinesMoveTogether'
  BY <1>1, <1>2 DEF StatusBackedByLedger, LinesMoveTogether, PostedFor
<1> QED BY <1>8, <1>10, <1>11, <1>12 DEF IInv

\* The books a commit starts from are sound.
LEMMA BeginIs ==
    ASSUME IInv, NEW r, Bare(r)
    PROVE  Books(Begin(r)) /\ allocated \in [Cells -> Nat]
<1> DEFINE st == Seen(r.bare)
<1>1. st \in [Cells -> Balances \cup {NoRow}] /\ allocated \in [Cells -> Nat]
      /\ \A c \in WarmCells : st[c] = stock[c]
  BY SeenIs DEF IInv, TypeOK
<1>2. Rows(posted) /\ posted \in SUBSET Moves
  BY DEF IInv, Rows
<1> HIDE DEF st
<1>3. Conserved(st, posted, allocated)
  <2>1. Conserved(stock, posted, allocated)
    BY ConservedIs DEF IInv
  <2> QED BY <1>1, <2>1 DEF Conserved
<1>4. /\ Begin(r).stock = st /\ Begin(r).posted = posted
      /\ Begin(r) \in [ok : BOOLEAN, stock : [Cells -> Balances \cup {NoRow}],
                       posted : SUBSET Moves]
  BY <1>1, <1>2 DEF Begin, st
<1> QED BY <1>1, <1>2, <1>3, <1>4 DEF Books

\* The status and the line quantities a commit writes.
LEMMA LinesAfterType ==
    ASSUME IInv, NEW r, ValidOperation(r, posted)
    PROVE  /\ LinesAfter(r) \in [status : Statuses, dispatched : [Lines -> Nat],
                                 received : [Lines -> Nat]]
           /\ LinesAfter(r).status = Target[r.op]
           /\ \A l \in Lines : LinesAfter(r).dispatched[l] <= Requested[l]
<1> DEFINE t == r.transfer
           old == transfer[t]
           out == [l \in Lines |-> IF r.op = "dispatch" /\ l \in LineSet(t)
                                   THEN Requested[l] ELSE old.dispatched[l]]
           in == [l \in Lines |-> IF l \in DOMAIN r.counted
                                  THEN r.counted[l].noted ELSE old.received[l]]
<1>1. t \in Transfers /\ r.op \in DOMAIN Target
      /\ \A l \in DOMAIN r.counted : r.counted[l].noted \in Nat
  BY DEF ValidOperation
<1>2. old.dispatched \in [Lines -> Nat] /\ old.received \in [Lines -> Nat]
  BY <1>1, TypeTransfer DEF IInv
<1>3. \A l \in Lines : old.dispatched[l] <= Requested[l] /\ Requested[l] \in Nat
  BY <1>1, TransferAssumption DEF IInv, Dispatches
<1>4. Target[r.op] \in Statuses
  BY <1>1 DEF Target, Statuses
<1>5. LinesAfter(r) = [status |-> Target[r.op], dispatched |-> out, received |-> in]
  BY DEF LinesAfter
<1>6. out \in [Lines -> Nat] /\ in \in [Lines -> Nat]
  BY <1>1, <1>2, <1>3
<1>7. \A l \in Lines : out[l] <= Requested[l]
  BY <1>3
<1> HIDE DEF out, in
<1> QED BY <1>4, <1>5, <1>6, <1>7

PostedIn(rows, t, stage) == \A l \in LineSet(t) : Has(rows, t, stage, l)

\* Rows that were there are there after, and a request holds on to its dispatch.
LEMMA CommitStep ==
    ASSUME IInv, NEW s \in Sessions, Commit(s)
    PROVE  IInv'
<1> DEFINE r == request[s]
           b == PostAll(r)
           new == LinesAfter(r)
           t == r.transfer
<1>1. /\ TypeOK /\ Rows(posted) /\ Requests /\ Dispatches
      /\ PiecesConserved /\ StatusBackedByLedger /\ LinesMoveTogether
  BY DEF IInv
<1>2. /\ r # NoRequest /\ r.op # "allocate" /\ b.ok
      /\ stock' = b.stock /\ posted' = b.posted
      /\ transfer' = [transfer EXCEPT ![t] = new]
      /\ request' = [request EXCEPT ![s] = NoRequest]
      /\ allocated' = allocated
  BY DEF Commit
<1>3. ValidOperation(r, posted) /\ Bare(r)
  BY <1>1, <1>2 DEF Requests, ValidRequests
<1>4. t \in Transfers /\ r.op \in DOMAIN Target
  BY <1>3 DEF ValidOperation
<1> HIDE DEF r, b, new, t
<1>5. Books(Begin(r)) /\ allocated \in [Cells -> Nat]
  BY <1>3, BeginIs
<1>6. /\ Books(b) /\ Extends(posted, b.posted, r)
      /\ b.ok => \A l \in LineSet(r.transfer) : Whole(b.posted, r, l)
  BY <1>3, <1>5, PostAllIs DEF b
<1>7. /\ new \in [status : Statuses, dispatched : [Lines -> Nat], received : [Lines -> Nat]]
      /\ new.status = Target[r.op]
      /\ \A l \in Lines : new.dispatched[l] <= Requested[l]
  BY <1>3, LinesAfterType DEF new
<1>8. /\ posted \subseteq posted'
      /\ \A m \in posted' \ posted : m.ref.transfer = t /\ m.ref.stage \in StagesOf(r)
      /\ \A l \in LineSet(t) : Whole(posted', r, l)
  BY <1>2, <1>6 DEF Extends, t
<1>9. /\ transfer'[t] = new
      /\ \A u \in Transfers \ {t} : transfer'[u] = transfer[u]
      /\ transfer' \in [Transfers -> [status : Statuses, dispatched : [Lines -> Nat],
                                      received : [Lines -> Nat]]]
  BY <1>1, <1>2, <1>4, <1>7 DEF TypeOK
<1>10. DOMAIN request' = Sessions
       /\ \A u \in Sessions : request'[u] = NoRequest \/ request'[u] = request[u]
  BY <1>1, <1>2 DEF Requests
<1>11. TypeOK'
  <2>1. stock' \in [Cells -> Balances \cup {NoRow}]
    BY <1>2, <1>6 DEF Books
  <2> QED BY <1>1, <1>2, <1>9, <1>10, <2>1 DEF TypeOK
<1>12. Rows(posted)'
  <2>1. Rows(posted')
    BY <1>2, <1>6 DEF Books
  <2> QED BY <2>1 DEF Rows, Has
<1>13. Requests'
  <2>1. \A u \in Sessions : request'[u] # NoRequest => ValidRequests(request'[u], posted')
    BY <1>1, <1>8, <1>10, RequestStays DEF Requests
  <2> QED BY <1>10, <2>1 DEF Requests
<1>14. Dispatches'
  <2>1. \A u \in Transfers, l \in Lines : transfer'[u].dispatched[l] <= Requested[l]
    BY <1>1, <1>7, <1>9 DEF Dispatches
  <2> QED BY <2>1 DEF Dispatches
<1>15. PiecesConserved'
  <2>1. Conserved(stock', posted', allocated')
    BY <1>2, <1>6 DEF Books
  <2> QED BY <2>1, ConservedNext
<1>16. ASSUME NEW u, NEW stage, PostedIn(posted, u, stage)
       PROVE  PostedIn(posted', u, stage)
  BY <1>8, <1>16, RowsStay DEF PostedIn
<1>17. ASSUME NEW stage \in StagesOf(r) \cap WholeStages PROVE PostedIn(posted', t, stage)
  BY <1>8, <1>17 DEF Whole, PostedIn, t
<1>18. r.op \in {"approve", "reject", "dispatch", "receive", "cancel"}
  BY <1>4 DEF Target
<1>19. StatusBackedByLedger'
  <2> SUFFICES ASSUME NEW u \in Transfers
               PROVE  /\ \A m \in posted' : m.ref.transfer = u =>
                            /\ transfer'[u].status \notin {"ABSENT", "REQUESTED"}
                            /\ PostedIn(posted', u, "reserve")
                      /\ transfer'[u].status = "APPROVED" => PostedIn(posted', u, "reserve")
                      /\ transfer'[u].status \in {"IN_TRANSIT", "RECEIVED"}
                            => PostedIn(posted', u, "dispatch")
    BY DEF StatusBackedByLedger, PostedFor, PostedIn, Has, Ref
  <2>1. CASE u # t
    <3>1. transfer'[u].status = transfer[u].status
      BY <1>9, <2>1
    <3>2. /\ \A m \in posted : m.ref.transfer = u =>
                /\ transfer[u].status \notin {"ABSENT", "REQUESTED"}
                /\ PostedIn(posted, u, "reserve")
          /\ transfer[u].status = "APPROVED" => PostedIn(posted, u, "reserve")
          /\ transfer[u].status \in {"IN_TRANSIT", "RECEIVED"}
                => PostedIn(posted, u, "dispatch")
      BY <1>1 DEF StatusBackedByLedger, PostedFor, PostedIn, Has, Ref
    <3>3. \A m \in posted' : m.ref.transfer = u => m \in posted
      BY <1>8, <2>1
    <3> QED BY <1>16, <3>1, <3>2, <3>3
  <2>2. CASE u = t
    <3>1. transfer'[u].status = Target[r.op]
      BY <1>7, <1>9, <2>2
    <3>2. transfer'[u].status = "APPROVED" => r.op = "approve"
      BY <1>18, <3>1 DEF Target
    <3>3. transfer'[u].status = "IN_TRANSIT" => r.op = "dispatch"
      BY <1>18, <3>1 DEF Target
    <3>4. transfer'[u].status = "RECEIVED" => r.op = "receive"
      BY <1>18, <3>1 DEF Target
    <3>5. r.op = "approve" => PostedIn(posted', t, "reserve")
      <4>1. r.op = "approve" => "reserve" \in StagesOf(r) \cap WholeStages
        BY DEF StagesOf, WholeStages
      <4> QED BY <1>17, <4>1
    <3>6. r.op = "dispatch" => PostedIn(posted', t, "dispatch")
      <4>1. r.op = "dispatch" => "dispatch" \in StagesOf(r) \cap WholeStages
        BY DEF StagesOf, WholeStages
      <4> QED BY <1>17, <4>1
    <3>7. r.op = "receive" => PostedIn(posted', t, "dispatch")
      <4>1. r.op = "receive" => PostedIn(posted, t, "dispatch")
        BY <1>3 DEF ValidOperation, PostedIn, t
      <4> QED BY <1>4, <1>16, <4>1
    <3>8. transfer'[u].status \notin {"ABSENT", "REQUESTED"}
      BY <1>18, <3>1 DEF Target
    <3>9. ASSUME NEW m \in posted', m.ref.transfer = t PROVE PostedIn(posted', t, "reserve")
      <4>1. CASE m \in posted
        <5>1. PostedIn(posted, t, "reserve")
          BY <1>1, <1>4, <3>9, <4>1 DEF StatusBackedByLedger, PostedFor, PostedIn, Has, Ref
        <5> QED BY <1>16, <5>1
      <4>2. CASE m \notin posted
        <5>1. m.ref.stage \in StagesOf(r)
          BY <1>8, <3>9, <4>2
        <5>2. r.op = "approve" \/ Follows(r)
          BY <1>18, <5>1 DEF StagesOf, Follows
        <5>3. Follows(r) => PostedIn(posted, t, "reserve")
          BY <1>3 DEF ValidOperation, PostedIn, t
        <5> QED BY <1>16, <3>5, <5>2, <5>3
      <4> QED BY <4>1, <4>2
    <3> QED BY <2>2, <3>2, <3>3, <3>4, <3>5, <3>6, <3>7, <3>8, <3>9
  <2> QED BY <2>1, <2>2
<1>20. LinesMoveTogether'
  <2> SUFFICES ASSUME NEW u \in Transfers, NEW stage \in WholeStages, NEW m \in posted',
                      m.ref.transfer = u, m.ref.stage = stage
               PROVE  PostedIn(posted', u, stage)
    BY DEF LinesMoveTogether, WholeStages, PostedFor, PostedIn, Has, Ref
  <2>1. CASE m \in posted
    <3>1. PostedIn(posted, u, stage)
      BY <1>1, <2>1 DEF LinesMoveTogether, WholeStages, PostedFor, PostedIn, Has, Ref
    <3> QED BY <1>16, <3>1
  <2>2. CASE m \notin posted
    BY <1>8, <1>17, <2>2
  <2> QED BY <2>1, <2>2
<1> QED BY <1>11, <1>12, <1>13, <1>14, <1>15, <1>19, <1>20 DEF IInv

\* Nothing changes when nothing happens.
LEMMA StutterStep == ASSUME IInv, UNCHANGED vars PROVE IInv'
<1>1. /\ TypeOK /\ Rows(posted) /\ Requests /\ Dispatches
      /\ PiecesConserved /\ StatusBackedByLedger /\ LinesMoveTogether
  BY DEF IInv
<1>2. /\ stock' = stock /\ posted' = posted /\ allocated' = allocated /\ transfer' = transfer
      /\ request' = request
  BY DEF vars
<1>3. TypeOK' /\ Rows(posted)' /\ Requests' /\ Dispatches'
  BY <1>1, <1>2 DEF TypeOK, Rows, Has, Requests, Dispatches
<1>4. PiecesConserved' /\ StatusBackedByLedger' /\ LinesMoveTogether'
  BY <1>1, <1>2, ConservedStays DEF StatusBackedByLedger, LinesMoveTogether, PostedFor
<1> QED BY <1>3, <1>4 DEF IInv

-----------------------------------------------------------------------------
(* Theorems *)

\* The invariant holds in every state.
THEOREM Invariance == Spec => []IInv
<1>1. Init => IInv
  BY InitIInv
<1>2. IInv /\ [Next]_vars => IInv'
  <2> SUFFICES ASSUME IInv, [Next]_vars PROVE IInv'
    OBVIOUS
  <2>1. ASSUME NEW t \in Transfers, CreateTransfer(t) PROVE IInv'
    BY <2>1, CreateStep
  <2>2. ASSUME NEW s \in Sessions, NEW t \in Transfers, NEW op \in DOMAIN Target,
               NEW counted \in Counts(t), Read(s, t, op, counted)
        PROVE  IInv'
    BY <2>2, ReadStep
  <2>3. ASSUME NEW s \in Sessions, Commit(s) PROVE IInv'
    BY <2>3, CommitStep
  <2>4. ASSUME NEW s \in Sessions, Abort(s) PROVE IInv'
    BY <2>4, AbortStep
  <2>5. ASSUME NEW s \in Sessions, NEW c \in Cells, Draw(s, c, 1) PROVE IInv'
    BY <2>5, DrawStep
  <2>6. ASSUME NEW s \in Sessions, NEW c \in Cells, Look(s, c) PROVE IInv'
    BY <2>6, LookStep
  <2>7. ASSUME NEW s \in Sessions, CommitAllocation(s) PROVE IInv'
    BY <2>7, AllocationStep
  <2>8. CASE UNCHANGED vars
    BY <2>8, StutterStep
  <2> QED BY <2>1, <2>2, <2>3, <2>4, <2>5, <2>6, <2>7, <2>8 DEF Next
<1> QED BY <1>1, <1>2, PTL DEF Spec

\* Every variable keeps its shape: no operation writes a status, a quantity or a
\* balance that is not one, for any transfers, lines and sessions.
THEOREM TypeCorrect == Spec => []TypeOK
<1>1. IInv => TypeOK
  BY DEF IInv
<1> QED BY <1>1, Invariance, PTL

\* Wherever the stock row was there from the start, each movement on record has
\* been counted once, on the shelf and among the pieces set aside: although other
\* rows may be missing, read without a lock and overwritten at the same time.
THEOREM PiecesStayConserved == Spec => []PiecesConserved
<1>1. IInv => PiecesConserved
  BY DEF IInv
<1> QED BY <1>1, Invariance, PTL

\* A line is received for no more than what its dispatches took from the source.
THEOREM ReceiptsStayWithin == Spec => []ReceivedWithinDispatched
<1>1. IInv => ReceivedWithinDispatched
  BY RowsBoundReceipts DEF IInv
<1> QED BY <1>1, Invariance, PTL

\* No status is ahead of the ledger: what is on record of a transfer was reserved
\* first, an approved one was reserved and one in transit or received has left its
\* source, for every line, however stale the read behind the status.
THEOREM StatusStaysBacked == Spec => []StatusBackedByLedger
<1>1. IInv => StatusBackedByLedger
  BY DEF IInv
<1> QED BY <1>1, Invariance, PTL

\* The lines of a transfer are reserved, released and shipped all or none.
THEOREM LinesStayTogether == Spec => []LinesMoveTogether
<1>1. IInv => LinesMoveTogether
  BY DEF IInv
<1> QED BY <1>1, Invariance, PTL
=============================================================================
