--------------------------- MODULE MCAuthSessions ---------------------------
EXTENDS AuthSessions, TLC

\* The ids carry no order and None is distinguished: any permutation is sound
\* for the safety runs.
Ids == Permutations(Tokens) \cup Permutations(Sessions) \cup Permutations(Requests)
=============================================================================
