--------------------------- MODULE MCAdminSession ---------------------------
EXTENDS AdminSession, TLC

CONSTANTS p1, p2, r1, r2, r3, elsewhere

\* Two calls for one page, one for the other; and a request of another device.
HomeOfThree == r1 :> p1 @@ r2 :> p1 @@ r3 :> p2
HomeOfOne == r1 :> p1 @@ elsewhere :> None
HomeOfTwo == r1 :> p1 @@ r2 :> p1 @@ elsewhere :> None

(* Bound: parallel calls are explored while the other page is closed. *)
Alone ==
  \A p \in Pages : page[p].kind \in Several => \A o \in Pages \ {p} : page[o] = Closed
MCSpec == AdminInit /\ [][AdminNext /\ Alone']_allVars

Calls == {f \in Permutations(Requests) : \A q \in Requests : Home[f[q]] = Home[q]}
Ids == Permutations(Tokens) \cup Permutations(Sessions) \cup Calls
=============================================================================
