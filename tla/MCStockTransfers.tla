--------------------------- MODULE MCStockTransfers ---------------------------
(* Two transfers out of one depot: a compressor with its filter, and a filter. *)
EXTENDS StockTransfers, TLC

CONSTANTS depot, shop, compressor, filter, t1, t2, l1, l2, l3, s1, s2

MCLinesOf == (t1 :> <<l1, l2>>) @@ (t2 :> <<l3>>)
MCItemOf == (l1 :> compressor) @@ (l2 :> filter) @@ (l3 :> filter)
MCRequested == (l1 :> 1) @@ (l2 :> 1) @@ (l3 :> 1)
MCSource == [t \in Transfers |-> depot]
MCDest == [t \in Transfers |-> shop]
\* The shop has never held a filter.
MCOpeningQuantity == [c \in Cells \ {<<shop, filter>>} |->
                          IF c[1] = shop THEN 0 ELSE IF c[2] = filter THEN 2 ELSE 1]

MCSymmetry == Permutations(Sessions)
=============================================================================
