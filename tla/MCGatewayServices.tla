------------------------- MODULE MCGatewayServices -------------------------
EXTENDS GatewayServices, TLC

CONSTANTS a, b
(* A schema accepts every payload or, in another release, one of the two. *)
MCSchemas == {{a, b}, {b}}
MCTokenEnds == {1, 2}
MCRetryCounts == {0, 3, NaN}
Symmetry == Permutations(Requests) \union Permutations(Categories)
=============================================================================
