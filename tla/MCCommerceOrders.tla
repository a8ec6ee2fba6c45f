-------------------------- MODULE MCCommerceOrders --------------------------
EXTENDS CommerceOrders, TLC

\* Bodies of PATCH: one that moves the status, two that move amounts.
SmallPatches == {[status |-> "placed"], [shipping |-> 0], [subtotal |-> 5, discount |-> 8]}

(* Bounds.  What holds under overlap is about one item and jobs, what holds one at a *)
(* time about two items and refunds, or about a return and refunds of an order that has *)
(* no items and is not worked on.                                                      *)
Written == {i \in Items : item[i] # None \/ ItemLocked(i)}
OffByOne(line) == line.total = line.net + line.tax + 1
Bounded ==
  IF overlap
  THEN /\ Cardinality(Written) <= 1
       /\ goods = None /\ \A f \in Refunds : refund[f] = None
       /\ order.status # "placed" /\ order.discount = 0
       /\ \A i \in Written : item[i] # None => OffByOne(item[i])
       /\ \A r \in Requests : tx[r].step = "totals" => OffByOne(tx[r].rows[tx[r].item])
  ELSE /\ \A j \in Jobs : job[j] = None
       /\ goods # None => Written = {} /\ order.status = "draft" /\ order.fulfillment = "unfulfilled"

Start == Init /\ Bounded
MCSpec == Start /\ [][Next /\ Bounded']_vars
Ids == Permutations(Items) \cup Permutations(Requests) \cup Permutations(Refunds)
=============================================================================
