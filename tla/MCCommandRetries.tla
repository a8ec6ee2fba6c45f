-------------------------- MODULE MCCommandRetries --------------------------
EXTENDS CommandRetries, TLC

CONSTANTS k1, k2, k3, k4, k5, k6

Shape(kind, operation, key) == [kind |-> kind, operation |-> operation, key |-> key]

\* Every kind, with and without a key.
AllShapes ==
  {Shape(kind, o, k) : kind \in Bridges, o \in {"sync", "price"}, k \in {k1, k2, None}}
    \cup {Shape("order", "create", k) : k \in {k1, k2, None}}
    \cup {Shape("tenant", "create", k) : k \in {k1, k2}}
OrderShapes == {Shape("order", "create", k) : k \in {k1, None}}

Ids == Permutations(Commands)
=============================================================================
