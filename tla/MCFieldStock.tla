----------------------------- MODULE MCFieldStock -----------------------------
(* A compressor and a filter on order, and an allocation of compressors.      *)
EXTENDS FieldStock, TLC

CONSTANTS compressor, filter, a1

MCOrdered == (compressor :> 1) @@ (filter :> 1)
\* The warehouse has never held a filter.
MCOpening == compressor :> 1
MCItemOf == a1 :> compressor

Symmetric == Permutations(Sessions)
=============================================================================
