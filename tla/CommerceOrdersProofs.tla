------------------------ MODULE CommerceOrdersProofs ------------------------
(***************************************************************************)
(* Theorems about CommerceOrders for every finite set of items and refunds *)
(* and every set of amounts and PATCH bodies, however fine the parts of a  *)
(* unit are that bodies count.                                             *)
(***************************************************************************)
EXTENDS CommerceOrders, SumTheorems, TLAPS

\* The rows a sum of the recompute adds up.
Present(rows) == {i \in Items : rows[i] # None}
Column(rows, column) == [i \in Items |-> rows[i][column]]

\* The sum of a column is the sum of a function.
LEMMA SumIsTotal ==
  ASSUME NEW rows, NEW column, \A i \in Present(rows) : rows[i][column] \in Nat
  PROVE  Sum(rows, column) = Total(Column(rows, column), Present(rows))
<1> DEFINE S == Present(rows)
           g == Column(rows, column)
           OfRows(h) == h = [t \in SUBSET S |-> IF t = {} THEN 0
                               ELSE rows[First(t)][column] + h[t \ {First(t)}]]
           h0 == CHOOSE h : OfRows(h)
<1>1. IsFiniteSet(S) /\ S \subseteq Items /\ \A x \in S : g[x] \in Nat /\ g[x] = rows[x][column]
  BY OrderAssumption, FS_Subset DEF Present, Column
<1>2. Sum(rows, column) = h0[S]
  BY DEF Sum, Present, MapThenSumSet, MapThenFoldSet, First
<1>3. \A t \in SUBSET S : t # {} => g[First(t)] = rows[First(t)][column]
  BY <1>1, FirstIn
<1> HIDE DEF S, g
<1>4. \A h : OfRows(h) <=> Solves(h, g, S)
  BY <1>3 DEF Solves
<1> HIDE DEF OfRows
<1>5. \E h : OfRows(h)
  BY <1>1, <1>4, TotalSolves
<1>6. OfRows(h0)
  BY <1>5
<1> HIDE DEF h0
<1>7. h0[S] = Total(g, S)
  BY <1>1, <1>4, <1>6, TotalSolves
<1> QED BY <1>2, <1>7 DEF S, g

\* Every step of Next, named once: a lemma about Next has one case per action.
Steps ==
  \/ \E r \in Requests : PatchBegin(r) \/ ConfirmBegin(r) \/ SyncBegin(r)
  \/ \E r \in Requests, body \in Patches : PatchCommit(r, body)
  \/ \E r \in Requests : ConfirmCommit(r)
  \/ \E r \in Requests : Abort(r)
  \/ Cancel
  \/ MarkPaid
  \/ MarkFulfilled
  \/ \E r \in Requests, i \in Items, line \in Lines : WritesLine(r, i, line)
  \/ \E r \in Requests : ItemCommit(r)
  \/ \E f \in Refunds : RefundReject(f)
  \/ \E f \in Refunds, amount \in RefundAmounts, returned \in BOOLEAN :
       RefundCreate(f, amount, returned)
  \/ ReturnCreate
  \/ \E decision \in {"approved", "rejected"} : ReturnReview(decision)
  \/ \E r \in Requests : RefundCommit(r)
  \/ \E r \in Requests, f \in Refunds : RefundApprove(r, f)
  \/ \E r \in Requests, j \in Jobs : SyncCommit(r, j)

\* Next is the disjunction of the steps, whatever its grouping.
LEMMA NextIsSteps == Next => Steps /\ UNCHANGED overlap
BY DEF Next, Steps, ItemCreate, ItemUpdate

-----------------------------------------------------------------------------
(***************************************************************************)
(* The inductive invariant when requests overlap.  Sums of lines that add  *)
(* up but for a slack add up but for the slacks, so it does not matter     *)
(* which lines a recompute saw; and what a sync request read was confirmed *)
(* when it was read.                                                       *)
(***************************************************************************)
LineAddsUp(line) == Within(line.total + line.discount, line.net + line.tax, LineSlack)
LinesAddUp(rows) == \A i \in Items : rows[i] # None => LineAddsUp(rows[i])

Reads == \A r \in Requests :
  /\ tx[r].step = "totals" => LinesAddUp(tx[r].rows) /\ tx[r].rows[tx[r].item] # None
  /\ tx[r].step = "sync" => tx[r].seen.status \in Syncable /\ AddsUp(tx[r].seen)
  /\ tx[r].step = "verdict" => refund[tx[r].refund] # None

IInv == TypeOK /\ LinesAddUp(item) /\ Reads /\ AmountsAddUp /\ JobsOfConfirmedOrders

(***************************************************************************)
(* The inductive invariant without overlap: one request at a time, and     *)
(* what it has read is still so.                                           *)
(***************************************************************************)
AmountOf == [f \in Refunds |-> refund[f].amount]
PaymentAfter(S) ==
  IF Total(AmountOf, S) >= order.total THEN "refunded" ELSE "partially_refunded"

Alone == \A q, r \in Requests : tx[q] # Idle /\ tx[r] # Idle => q = r
Fresh == \A r \in Requests :
  /\ tx[r].step = "confirm" => order.status \notin {"cancelled", "archived"}
  /\ tx[r].step = "totals" => \A i \in Items : i # tx[r].item => tx[r].rows[i] = item[i]
  /\ tx[r].step = "verdict" => tx[r].payment = PaymentAfter(Approved \cup {tx[r].refund})

SerialInv == ~overlap => Alone /\ Fresh

-----------------------------------------------------------------------------
\* Division with rest.
LEMMA DivIs ==
  ASSUME NEW a \in Nat, NEW d \in Nat \ {0}
  PROVE  a \div d \in Nat /\ d * (a \div d) <= a /\ a < d * (a \div d) + d
OBVIOUS

\* A common factor of both sides.
LEMMA Scaled ==
  ASSUME NEW p \in Nat \ {0}, NEW a \in Int, NEW b \in Int, p * a < p * b
  PROVE  a < b
<1> SUFFICES ASSUME b <= a PROVE FALSE
  OBVIOUS
<1>1. PICK k \in Nat : a = b + k
  <2>1. a - b \in Nat /\ a = b + (a - b)
    OBVIOUS
  <2> QED BY <2>1
<1>2. p * (b + k) = p * b + p * k
  OBVIOUS
<1>3. p * k \in Nat /\ p * b \in Int
  OBVIOUS
<1> QED BY <1>1, <1>2, <1>3

\* What a column keeps is within half a unit of the amount.
LEMMA RoundedIs ==
  ASSUME NEW x \in Nat
  PROVE  /\ Rounded(x) \in Nat /\ Parts * Rounded(x) \in Nat
         /\ 2 * (Parts * Rounded(x)) <= 2 * x + Parts
         /\ 2 * x < 2 * (Parts * Rounded(x)) + Parts
<1> DEFINE R == Rounded(x)
<1>1. 2 * x + Parts \in Nat /\ 2 * Parts \in Nat \ {0} /\ Parts \in Nat
  BY OrderAssumption
<1>2. R \in Nat /\ (2 * Parts) * R <= 2 * x + Parts /\ 2 * x + Parts < (2 * Parts) * R + 2 * Parts
  BY <1>1, DivIs DEF Rounded
<1> HIDE DEF R
<1>3. (2 * Parts) * R = 2 * (Parts * R) /\ Parts * R \in Nat
  BY <1>1, <1>2
<1> QED BY <1>1, <1>2, <1>3 DEF R

\* Five columns rounded on their own are off by less than five halves.
LEMMA SumsRounded ==
  ASSUME NEW n \in Nat, NEW t \in Nat, NEW s \in Nat, NEW d \in Nat, d <= n + t + s
  PROVE  /\ Rounded(n + t + s - d) \in Nat
         /\ Within(Rounded(n + t + s - d) + Rounded(d), Rounded(n) + Rounded(t) + Rounded(s), 2)
<1> DEFINE x == n + t + s - d
           X == Rounded(x)
           N == Rounded(n)
           T == Rounded(t)
           S == Rounded(s)
           D == Rounded(d)
<1>1. x \in Nat /\ x + d = n + t + s /\ Parts \in Nat \ {0}
  BY OrderAssumption
<1> HIDE DEF x
<1>2. /\ X \in Nat /\ Parts * X \in Nat /\ 2 * (Parts * X) <= 2 * x + Parts
      /\ 2 * x < 2 * (Parts * X) + Parts
  BY <1>1, RoundedIs
<1>3. /\ N \in Nat /\ Parts * N \in Nat /\ 2 * (Parts * N) <= 2 * n + Parts
      /\ 2 * n < 2 * (Parts * N) + Parts
  BY RoundedIs
<1>4. /\ T \in Nat /\ Parts * T \in Nat /\ 2 * (Parts * T) <= 2 * t + Parts
      /\ 2 * t < 2 * (Parts * T) + Parts
  BY RoundedIs
<1>5. /\ S \in Nat /\ Parts * S \in Nat /\ 2 * (Parts * S) <= 2 * s + Parts
      /\ 2 * s < 2 * (Parts * S) + Parts
  BY RoundedIs
<1>6. /\ D \in Nat /\ Parts * D \in Nat /\ 2 * (Parts * D) <= 2 * d + Parts
      /\ 2 * d < 2 * (Parts * D) + Parts
  BY RoundedIs
<1> HIDE DEF X, N, T, S, D
<1> DEFINE total == 2 * (X + D)
           parts == 2 * (N + T + S)
<1>7. /\ Parts * total = 2 * (Parts * X) + 2 * (Parts * D)
      /\ Parts * parts = 2 * (Parts * N) + 2 * (Parts * T) + 2 * (Parts * S)
      /\ Parts * (total + 5) = Parts * total + 5 * Parts
      /\ Parts * (parts + 5) = Parts * parts + 5 * Parts
  BY <1>1, <1>2, <1>3, <1>4, <1>5, <1>6
<1>8. Parts * total < Parts * (parts + 5) /\ Parts * parts < Parts * (total + 5)
  BY <1>1, <1>2, <1>3, <1>4, <1>5, <1>6, <1>7
<1>9. total \in Nat /\ parts \in Nat
  BY <1>2, <1>3, <1>4, <1>5, <1>6
<1> HIDE DEF total, parts
<1>10. total < parts + 5 /\ parts < total + 5
  BY <1>1, <1>8, <1>9, Scaled
<1>11. Within(X + D, N + T + S, 2)
  BY <1>2, <1>3, <1>4, <1>5, <1>6, <1>10 DEF Within, total, parts
<1> QED BY <1>2, <1>11 DEF x, X, N, T, S, D

\* A line's columns: the quantity multiplies what the price is off.
LEMMA LineRounded ==
  ASSUME NEW q \in 1..MaxQuantity, NEW p \in Nat, NEW t \in Nat, NEW d \in Nat, d <= q * p + t
  PROVE  /\ Rounded(q * p + t - d) \in Nat /\ q * Rounded(p) \in Nat
         /\ Within(Rounded(q * p + t - d) + Rounded(d), q * Rounded(p) + Rounded(t), LineSlack)
<1> DEFINE n == q * p
           x == n + t - d
           X == Rounded(x)
           N == Rounded(p)
           T == Rounded(t)
           D == Rounded(d)
<1>0. q \in Nat /\ q <= MaxQuantity /\ MaxQuantity \in Nat /\ Parts \in Nat \ {0} /\ n \in Nat
  BY OrderAssumption
<1>1. x \in Nat /\ x + d = n + t
  BY <1>0
<1>2. /\ X \in Nat /\ Parts * X \in Nat /\ 2 * (Parts * X) <= 2 * x + Parts
      /\ 2 * x < 2 * (Parts * X) + Parts
  BY <1>1, RoundedIs
<1>3. /\ N \in Nat /\ Parts * N \in Nat /\ 2 * (Parts * N) <= 2 * p + Parts
      /\ 2 * p <= 2 * (Parts * N) + Parts
  <2>1. /\ N \in Nat /\ Parts * N \in Nat /\ 2 * (Parts * N) <= 2 * p + Parts
        /\ 2 * p < 2 * (Parts * N) + Parts
    BY RoundedIs
  <2> QED BY <1>0, <2>1
<1>4. /\ T \in Nat /\ Parts * T \in Nat /\ 2 * (Parts * T) <= 2 * t + Parts
      /\ 2 * t < 2 * (Parts * T) + Parts
  BY RoundedIs
<1>6. /\ D \in Nat /\ Parts * D \in Nat /\ 2 * (Parts * D) <= 2 * d + Parts
      /\ 2 * d < 2 * (Parts * D) + Parts
  BY RoundedIs
<1> HIDE DEF x, X, N, T, D
<1>9. q * (2 * (Parts * N)) <= q * (2 * p + Parts) /\ q * (2 * p) <= q * (2 * (Parts * N) + Parts)
  <2>1. \A a, b \in Nat : a <= b => q * a <= q * b
    <3> SUFFICES ASSUME NEW a \in Nat, NEW b \in Nat, a <= b PROVE q * a <= q * b
      OBVIOUS
    <3>1. b - a \in Nat /\ b = a + (b - a)
      OBVIOUS
    <3>2. q * (a + (b - a)) = q * a + q * (b - a)
      BY <1>0
    <3>3. q * (b - a) \in Nat /\ q * a \in Nat
      BY <1>0, <3>1
    <3> QED BY <3>1, <3>2, <3>3
  <2>2. /\ 2 * (Parts * N) \in Nat /\ 2 * p + Parts \in Nat
        /\ 2 * p \in Nat /\ 2 * (Parts * N) + Parts \in Nat
    BY <1>0, <1>3
  <2> QED BY <2>1, <2>2, <1>3
<1> DEFINE slack == q * Parts
           NN == q * N
<1>10. /\ q * (2 * (Parts * N)) = 2 * (Parts * NN) /\ q * (2 * p + Parts) = 2 * n + slack
       /\ q * (2 * p) = 2 * n /\ q * (2 * (Parts * N) + Parts) = 2 * (Parts * NN) + slack
       /\ slack \in Nat /\ NN \in Nat /\ Parts * NN \in Nat
  BY <1>0, <1>3
<1> HIDE DEF NN, n
<1> DEFINE total == 2 * (X + D)
           parts == 2 * (NN + T)
<1>11. /\ Parts * total = 2 * (Parts * X) + 2 * (Parts * D)
       /\ Parts * parts = 2 * (Parts * NN) + 2 * (Parts * T)
       /\ Parts * (total + q + 3) = Parts * total + slack + 3 * Parts
       /\ Parts * (parts + q + 3) = Parts * parts + slack + 3 * Parts
  BY <1>0, <1>2, <1>4, <1>6, <1>10
<1> HIDE DEF slack
<1>12. Parts * total < Parts * (parts + q + 3) /\ Parts * parts < Parts * (total + q + 3)
  BY <1>0, <1>1, <1>2, <1>4, <1>6, <1>9, <1>10, <1>11
<1>13. total \in Nat /\ parts \in Nat
  BY <1>2, <1>4, <1>6, <1>10
<1> HIDE DEF total, parts
<1>14. total < parts + q + 3 /\ parts < total + q + 3
  BY <1>0, <1>12, <1>13, Scaled
<1>15. total <= parts + MaxQuantity + 2 /\ parts <= total + MaxQuantity + 2
  BY <1>0, <1>13, <1>14
<1>16. Within(X + D, NN + T, LineSlack)
  BY <1>0, <1>2, <1>4, <1>6, <1>10, <1>15 DEF Within, LineSlack, total, parts
<1> QED BY <1>2, <1>10, <1>16 DEF x, X, N, T, D, NN, n

\* An amount that a body carries or a row kept is a number of parts.
LEMMA KeptAmounts ==
  ASSUME NEW amounts, amounts \subseteq Nat
  PROVE  Kept(amounts) \subseteq Nat
BY RoundedIs DEF Kept

\* A line that a body asks for is a row of items, and adds up.
LEMMA LineRow ==
  ASSUME NEW line \in Lines
  PROVE  line \in ItemRow /\ LineAddsUp(line)
<1>1. PICK x \in (1..MaxQuantity) \X Kept(Prices) \X Kept(Taxes) \X Kept(Discounts) :
        x[4] <= x[1] * x[2] + x[3] /\ line = Line(x[1], x[2], x[3], x[4])
  BY DEF Lines
<1> DEFINE q == x[1]
           p == x[2]
           t == x[3]
           d == x[4]
<1>2. q \in 1..MaxQuantity /\ p \in Nat /\ t \in Nat /\ d \in Nat /\ d <= q * p + t
  <2>1. Kept(Prices) \subseteq Nat /\ Kept(Taxes) \subseteq Nat /\ Kept(Discounts) \subseteq Nat
    BY OrderAssumption, KeptAmounts
  <2> QED BY <1>1, <2>1
<1>3. line = [net |-> q * Rounded(p), tax |-> Rounded(t), discount |-> Rounded(d),
              total |-> Rounded(q * p + t - d)]
  BY <1>1 DEF Line
<1> HIDE DEF q, p, t, d
<1>4. /\ Rounded(q * p + t - d) \in Nat /\ q * Rounded(p) \in Nat
      /\ Within(Rounded(q * p + t - d) + Rounded(d), q * Rounded(p) + Rounded(t), LineSlack)
      /\ Rounded(t) \in Nat /\ Rounded(d) \in Nat
  BY <1>2, LineRounded, RoundedIs
<1>5. /\ line.net = q * Rounded(p) /\ line.tax = Rounded(t) /\ line.discount = Rounded(d)
      /\ line.total = Rounded(q * p + t - d)
  BY <1>3
<1>6. LineAddsUp(line)
  BY <1>4, <1>5 DEF LineAddsUp
<1>7. line \in ItemRow
  BY <1>3, <1>4 DEF ItemRow
<1> QED BY <1>6, <1>7

\* What the recompute makes of the order row, when it sums any lines that add up.
LEMMA RecomputedRow ==
  ASSUME NEW row \in OrderRow, NEW rows \in ItemRows, LinesAddUp(rows)
  PROVE  /\ Recomputed(row, rows) \in OrderRow /\ AddsUp(Recomputed(row, rows))
         /\ Recomputed(row, rows).status = row.status
<1> DEFINE S == Present(rows)
<1>1. IsFiniteSet(S) /\ S \subseteq Items
  BY OrderAssumption, FS_Subset DEF Present
<1>2. \A i \in S : /\ rows[i] \in ItemRow
                   /\ LineAddsUp(rows[i])
  BY DEF Present, ItemRows, LinesAddUp
<1>3. \A i \in S : /\ rows[i]["net"] \in Nat /\ rows[i]["tax"] \in Nat
                   /\ rows[i]["discount"] \in Nat /\ rows[i]["total"] \in Nat
                   /\ Within(rows[i]["total"] + rows[i]["discount"],
                             rows[i]["net"] + rows[i]["tax"], LineSlack)
  BY <1>2 DEF ItemRow, LineAddsUp
<1>4. \A column \in {"net", "tax", "discount", "total"} :
        /\ Sum(rows, column) = Total(Column(rows, column), S)
        /\ Sum(rows, column) \in Nat
  <2> TAKE column \in {"net", "tax", "discount", "total"}
  <2>1. \A i \in S : rows[i][column] \in Nat
    BY <1>3
  <2>2. Sum(rows, column) = Total(Column(rows, column), S)
    BY <2>1, SumIsTotal
  <2>3. \A i \in S : Column(rows, column)[i] \in Nat
    BY <2>1, <1>1 DEF Column
  <2> HIDE DEF S
  <2>4. Total(Column(rows, column), S) \in Nat
    BY <1>1, <2>3, TotalStep
  <2> QED BY <2>2, <2>4
<1> DEFINE slack == Cardinality(Items) * LineSlack
<1>5. /\ Within(Sum(rows, "total") + Sum(rows, "discount"), Sum(rows, "net") + Sum(rows, "tax"), slack)
      /\ slack \in Nat
  <2> DEFINE a == Column(rows, "total")
             b == Column(rows, "discount")
             c == Column(rows, "net")
             d == Column(rows, "tax")
             k == LineSlack
             n == Cardinality(S)
             m == Cardinality(Items)
  <2>1. \A i \in S : /\ a[i] \in Nat /\ b[i] \in Nat /\ c[i] \in Nat /\ d[i] \in Nat
                     /\ a[i] + b[i] <= c[i] + d[i] + k /\ c[i] + d[i] <= a[i] + b[i] + k
    BY <1>1, <1>3 DEF Column, Within
  <2>2. /\ Sum(rows, "total") = Total(a, S) /\ Sum(rows, "discount") = Total(b, S)
        /\ Sum(rows, "net") = Total(c, S) /\ Sum(rows, "tax") = Total(d, S)
        /\ Sum(rows, "total") \in Nat /\ Sum(rows, "discount") \in Nat
        /\ Sum(rows, "net") \in Nat /\ Sum(rows, "tax") \in Nat
    BY <1>4
  <2>3. k \in Nat
    <3>1. MaxQuantity + 2 \in Nat /\ 2 \in Nat \ {0}
      BY OrderAssumption
    <3> QED BY <3>1, DivIs DEF LineSlack
  <2>4. n \in Nat /\ m \in Nat /\ n <= m
    BY <1>1, OrderAssumption, FS_Subset, FS_CardinalityType
  <2> HIDE DEF S, a, b, c, d, k, n, m
  <2>5. Total(a, S) + Total(b, S) <= Total(c, S) + Total(d, S) + n * k
    BY <1>1, <2>1, <2>3, TotalWithin DEF n
  <2>6. Total(c, S) + Total(d, S) <= Total(a, S) + Total(b, S) + n * k
    BY <1>1, <2>1, <2>3, TotalWithin DEF n
  <2>7. n * k <= m * k /\ n * k \in Nat /\ m * k \in Nat
    <3>1. m - n \in Nat /\ m = n + (m - n)
      BY <2>4
    <3>2. (n + (m - n)) * k = n * k + (m - n) * k
      BY <2>3, <2>4
    <3>3. (m - n) * k \in Nat /\ n * k \in Nat
      BY <2>3, <2>4, <3>1
    <3> QED BY <3>1, <3>2, <3>3
  <2>8. slack = m * k
    BY DEF m, k
  <2> HIDE DEF slack
  <2> QED BY <2>2, <2>5, <2>6, <2>7, <2>8 DEF Within
<1> DEFINE net == Sum(rows, "net")
           tax == Sum(rows, "tax")
           discount == Sum(rows, "discount")
           total == Sum(rows, "total")
<1>6. net \in Nat /\ tax \in Nat /\ discount \in Nat /\ total \in Nat
  BY <1>4
<1>7. Recomputed(row, rows) = [row EXCEPT !.subtotal = net, !.tax = tax, !.discount = discount,
                                          !.total = total + row.shipping]
  BY DEF Recomputed
<1>8. Within(total + discount, net + tax, slack) /\ slack \in Nat
  BY <1>5
<1> HIDE DEF net, tax, discount, total, slack
<1> DEFINE written == [row EXCEPT !.subtotal = net, !.tax = tax, !.discount = discount,
                                  !.total = total + row.shipping]
<1>9. written \in OrderRow
  <2>1. row.shipping \in Nat
    BY DEF OrderRow
  <2>2. total + row.shipping \in Nat
    BY <1>6, <2>1
  <2> QED BY <1>6, <2>2 DEF OrderRow
<1>10. /\ written.total = total + row.shipping /\ written.discount = discount
       /\ written.subtotal = net /\ written.tax = tax /\ written.shipping = row.shipping
       /\ written.status = row.status /\ row.shipping \in Nat
  BY DEF OrderRow
<1> HIDE DEF written
<1>11. AddsUp(written)
  <2>1. Within(written.total + written.discount, written.subtotal + written.tax + written.shipping, slack)
    BY <1>6, <1>8, <1>10 DEF Within
  <2> QED BY <2>1 DEF AddsUp, slack
<1>12. Recomputed(row, rows) = written
  BY <1>7 DEF written
<1> QED BY <1>9, <1>10, <1>11, <1>12

\* The row of rounded amounts and their total.
LEMMA RoundedRow ==
  ASSUME NEW sums, sums.subtotal \in Nat, sums.tax \in Nat, sums.shipping \in Nat,
         sums.discount \in Nat, HasTotal(sums),
         NEW row, row.subtotal = Rounded(sums.subtotal), row.tax = Rounded(sums.tax),
         row.shipping = Rounded(sums.shipping), row.discount = Rounded(sums.discount),
         row.total = Rounded(OrderTotal(sums))
  PROVE  /\ row.subtotal \in Nat /\ row.tax \in Nat /\ row.shipping \in Nat
         /\ row.discount \in Nat /\ row.total \in Nat
         /\ AddsUp(row)
<1> DEFINE n == sums.subtotal
           t == sums.tax
           s == sums.shipping
           d == sums.discount
<1>1. d <= n + t + s /\ OrderTotal(sums) = n + t + s - d
  BY DEF HasTotal, OrderTotal
<1>2. n \in Nat /\ t \in Nat /\ s \in Nat /\ d \in Nat
  OBVIOUS
<1>3. /\ row.subtotal = Rounded(n) /\ row.tax = Rounded(t) /\ row.shipping = Rounded(s)
      /\ row.discount = Rounded(d) /\ row.total = Rounded(n + t + s - d)
  BY <1>1
<1> HIDE DEF n, t, s, d
<1>4. /\ Rounded(n + t + s - d) \in Nat
      /\ Within(Rounded(n + t + s - d) + Rounded(d), Rounded(n) + Rounded(t) + Rounded(s), 2)
  BY <1>1, <1>2, SumsRounded
<1>5. Rounded(n) \in Nat /\ Rounded(t) \in Nat /\ Rounded(s) \in Nat /\ Rounded(d) \in Nat
  BY <1>2, RoundedIs
<1>6. Within(row.total + row.discount, row.subtotal + row.tax + row.shipping, 2)
  BY <1>3, <1>4
<1> QED BY <1>3, <1>4, <1>5, <1>6 DEF AddsUp

\* What a PATCH writes back.
LEMMA PatchedRow ==
  ASSUME NEW seen \in OrderRow, NEW body \in Patches, HasTotal(Sums(seen, body))
  PROVE  Patched(seen, body) \in OrderRow /\ AddsUp(Patched(seen, body))
<1> DEFINE row == Patched(seen, body)
           sums == Sums(seen, body)
<1>1. DOMAIN seen = {"status", "payment", "fulfillment", "subtotal", "tax", "shipping",
                     "discount", "total"}
  BY DEF OrderRow
<1>2. \A f \in DOMAIN body :
        \/ f \in Amounts /\ body[f] \in Nat
        \/ f = "status" /\ body[f] \in Statuses
        \/ f = "payment" /\ body[f] \in Payments
        \/ f = "fulfillment" /\ body[f] \in Fulfillments
  BY OrderAssumption
<1>3. /\ seen["status"] \in Statuses /\ seen["payment"] \in Payments
      /\ seen["fulfillment"] \in Fulfillments
      /\ \A f \in Amounts : seen[f] \in Nat
  BY DEF OrderRow, Amounts
<1>4. \A f \in Amounts : sums[f] \in Nat
  <2> TAKE f \in Amounts
  <2>1. Parts \in Nat /\ seen[f] \in Nat
    BY <1>3, OrderAssumption
  <2>2. Parts * seen[f] \in Nat
    BY <2>1
  <2>3. f \in DOMAIN body => body[f] \in Nat
    BY <1>2 DEF Amounts
  <2> QED BY <2>2, <2>3 DEF Sums
<1>5. /\ row["status"] \in Statuses /\ row["payment"] \in Payments
      /\ row["fulfillment"] \in Fulfillments
  BY <1>1, <1>2, <1>3 DEF Patched, Amounts
<1>6. /\ row["subtotal"] = Rounded(sums["subtotal"]) /\ row["tax"] = Rounded(sums["tax"])
      /\ row["shipping"] = Rounded(sums["shipping"])
      /\ row["discount"] = Rounded(sums["discount"])
      /\ row["total"] = Rounded(OrderTotal(sums))
  BY <1>1 DEF Patched, Amounts
<1> DEFINE same == [status |-> row["status"], payment |-> row["payment"],
                    fulfillment |-> row["fulfillment"], subtotal |-> row["subtotal"],
                    tax |-> row["tax"], shipping |-> row["shipping"],
                    discount |-> row["discount"], total |-> row["total"]]
<1>7. row = same
  BY <1>1 DEF Patched
<1>8. /\ sums.subtotal \in Nat /\ sums.tax \in Nat /\ sums.shipping \in Nat
      /\ sums.discount \in Nat
  BY <1>4 DEF Amounts
<1>9. HasTotal(sums)
  OBVIOUS
<1> HIDE DEF row, sums, same
<1>10. /\ row.subtotal \in Nat /\ row.tax \in Nat /\ row.shipping \in Nat
       /\ row.discount \in Nat /\ row.total \in Nat
       /\ AddsUp(row)
  BY <1>6, <1>8, <1>9, RoundedRow
<1>11. same \in OrderRow
  BY <1>5, <1>10 DEF OrderRow, same
<1> QED BY <1>7, <1>10, <1>11 DEF row

\* What the approved refunds amount to is the sum of a function.
LEMMA RefundSumIsTotal ==
  ASSUME NEW S, \A f \in S : f \in Refunds /\ refund[f].amount \in Nat
  PROVE  RefundSum(S) = Total(AmountOf, S)
<1> DEFINE OfRefunds(h) == h = [t \in SUBSET S |-> IF t = {} THEN 0
                                 ELSE refund[First(t)].amount + h[t \ {First(t)}]]
           h0 == CHOOSE h : OfRefunds(h)
<1>1. IsFiniteSet(S) /\ \A f \in S : AmountOf[f] \in Nat /\ AmountOf[f] = refund[f].amount
  BY OrderAssumption, FS_Subset DEF AmountOf
<1>2. RefundSum(S) = h0[S]
  BY DEF RefundSum, MapThenSumSet, MapThenFoldSet, First
<1>3. \A t \in SUBSET S : t # {} => AmountOf[First(t)] = refund[First(t)].amount
  BY <1>1, FirstIn
<1>4. \A h : OfRefunds(h) <=> Solves(h, AmountOf, S)
  BY <1>3 DEF Solves
<1> HIDE DEF OfRefunds
<1>5. \E h : OfRefunds(h)
  BY <1>1, <1>4, TotalSolves
<1>6. OfRefunds(h0)
  BY <1>5
<1> HIDE DEF h0
<1>7. h0[S] = Total(AmountOf, S)
  BY <1>1, <1>4, <1>6, TotalSolves
<1> QED BY <1>2, <1>7

-----------------------------------------------------------------------------
\* What a request under way holds.
LEMMA Holding ==
  ASSUME TypeOK, NEW r \in Requests
  PROVE  /\ tx[r].step = "idle" <=> tx[r] = Idle
         /\ tx[r].step = "totals" =>
              /\ tx[r].item \in Items /\ tx[r].rows \in ItemRows
         /\ tx[r].step \in {"patch", "sync"} => tx[r].seen \in OrderRow
         /\ tx[r].step = "verdict" =>
              tx[r].refund \in Refunds /\ tx[r].payment \in {"refunded", "partially_refunded"}
BY DEF TypeOK, Transaction, Idle

\* A handler begins: its rows are locked or read, and nothing is committed.
LEMMA RequestBegins ==
  ASSUME TypeOK, NEW r \in Requests, NEW work \in Transaction, Begins(r, work)
  PROVE  /\ UNCHANGED tables /\ Quiet /\ tx[r] = Idle
         /\ tx' \in [Requests -> Transaction]
         /\ \A q \in Requests : tx'[q] = IF q = r THEN work ELSE tx[q]
BY DEF Begins, TypeOK

\* A handler ends, and no other is disturbed.
LEMMA RequestEnds ==
  ASSUME TypeOK, NEW r \in Requests, Commits(r)
  PROVE  /\ tx' \in [Requests -> Transaction]
         /\ \A q \in Requests : tx'[q] = IF q = r THEN Idle ELSE tx[q]
BY DEF Commits, TypeOK, Transaction

\* What the steps that begin a handler leave in tx.
LEMMA Beginnings ==
  ASSUME IInv, NEW r \in Requests
  PROVE  /\ PatchBegin(r) => Begins(r, [step |-> "patch", seen |-> order])
                             /\ [step |-> "patch", seen |-> order] \in Transaction
         /\ ConfirmBegin(r) => Begins(r, [step |-> "confirm"]) /\ [step |-> "confirm"] \in Transaction
         /\ SyncBegin(r) => Begins(r, [step |-> "sync", seen |-> order])
                            /\ [step |-> "sync", seen |-> order] \in Transaction
BY DEF PatchBegin, ConfirmBegin, SyncBegin, IInv, TypeOK, Transaction

\* The lines a request has written and not committed.
LEMMA LineWritten ==
  ASSUME IInv, NEW r \in Requests, NEW i \in Items, NEW line \in Lines
  PROVE  LET rows == [item EXCEPT ![i] = line]
             work == [step |-> "totals", item |-> i, rows |-> rows]
         IN  /\ work \in Transaction /\ rows \in ItemRows /\ LinesAddUp(rows)
             /\ rows[i] # None
             /\ WritesLine(r, i, line) => Begins(r, work)
<1> DEFINE rows == [item EXCEPT ![i] = line]
           work == [step |-> "totals", item |-> i, rows |-> rows]
<1>1. item \in ItemRows /\ LinesAddUp(item)
  BY DEF IInv, TypeOK
<1>2. line \in ItemRow /\ LineAddsUp(line)
  BY LineRow
<1>3. rows \in ItemRows
  BY <1>1, <1>2 DEF ItemRows
<1>4. LinesAddUp(rows)
  BY <1>1, <1>2 DEF LinesAddUp, ItemRows
<1>5. rows[i] # None
  BY <1>1, <1>2, RowAssumption DEF ItemRows
<1>6. work \in Transaction
  BY <1>3 DEF Transaction
<1>7. WritesLine(r, i, line) => Begins(r, work)
  BY DEF WritesLine
<1> QED BY <1>3, <1>4, <1>5, <1>6, <1>7

\* What an approval decides.
LEMMA Decided ==
  ASSUME IInv, NEW r \in Requests, NEW f \in Refunds, RefundApprove(r, f)
  PROVE  LET work == [step |-> "verdict", refund |-> f, payment |-> PaymentAfter(Approved \cup {f})]
         IN  work \in Transaction /\ refund[f] # None /\ Begins(r, work)
<1>1. refund \in [Refunds -> RefundRow \cup {None}] /\ refund[f] # None
  BY DEF IInv, TypeOK, RefundApprove
<1> DEFINE S == Approved \cup {f}
<1>2. \A x \in S : x \in Refunds /\ refund[x].amount \in Nat
  BY <1>1 DEF Approved, RefundRow
<1>3. RefundSum(S) = Total(AmountOf, S)
  BY <1>2, RefundSumIsTotal
<1>4. Verdict(S, order) = PaymentAfter(S)
  BY <1>3 DEF Verdict, PaymentAfter
<1>5. PaymentAfter(S) \in {"refunded", "partially_refunded"}
  BY DEF PaymentAfter
<1> HIDE DEF S
<1>6. Begins(r, [step |-> "verdict", refund |-> f, payment |-> PaymentAfter(S)])
  BY <1>4 DEF RefundApprove, S
<1>7. [step |-> "verdict", refund |-> f, payment |-> PaymentAfter(S)] \in Transaction
  BY <1>5 DEF Transaction
<1> QED BY <1>1, <1>6, <1>7 DEF S

-----------------------------------------------------------------------------
\* The tables as the inductive invariant has them.
Tables ==
  /\ order \in OrderRow /\ AddsUp(order)
  /\ item \in ItemRows /\ LinesAddUp(item)
  /\ goods \in Returns \cup {None}
  /\ refund \in [Refunds -> RefundRow \cup {None}]
  /\ \A f \in Refunds : refund[f] # None /\ refund[f].returned => goods # None
  /\ job \in [Jobs -> JobRow \cup {None}]
  /\ JobsOfConfirmedOrders

\* A step that leaves the tables right, deletes no refund and at most ends requests.
LEMMA StaysTrue ==
  ASSUME IInv, Tables', tx' \in [Requests -> Transaction],
         \A q \in Requests : tx'[q] = Idle \/ tx'[q] = tx[q],
         \A f \in Refunds : refund[f] # None => refund'[f] # None
  PROVE  IInv'
<1>1. TypeOK' /\ LinesAddUp(item)' /\ AmountsAddUp' /\ JobsOfConfirmedOrders'
  BY DEF Tables, TypeOK, AmountsAddUp
<1>2. Reads'
  <2> SUFFICES ASSUME NEW q \in Requests
               PROVE  /\ tx'[q].step = "totals" =>
                           LinesAddUp(tx'[q].rows) /\ tx'[q].rows[tx'[q].item] # None
                      /\ tx'[q].step = "sync" =>
                           tx'[q].seen.status \in Syncable /\ AddsUp(tx'[q].seen)
                      /\ tx'[q].step = "verdict" => refund'[tx'[q].refund] # None
    BY DEF Reads
  <2>1. tx[q].step = "verdict" => tx[q].refund \in Refunds
    BY Holding DEF IInv
  <2>2. CASE tx'[q] = Idle
    BY <2>2 DEF Idle
  <2>3. CASE tx'[q] = tx[q]
    BY <2>1, <2>3 DEF IInv, Reads
  <2> QED BY <2>2, <2>3
<1> QED BY <1>1, <1>2 DEF IInv

\* A step that begins a request, which has read what the invariant says of its like.
LEMMA Begun ==
  ASSUME IInv, NEW r \in Requests, NEW work \in Transaction, Begins(r, work),
         work.step = "totals" => LinesAddUp(work.rows) /\ work.rows[work.item] # None,
         work.step = "sync" => work.seen.status \in Syncable /\ AddsUp(work.seen),
         work.step = "verdict" => refund[work.refund] # None
  PROVE  IInv'
<1>1. /\ order' = order /\ item' = item /\ goods' = goods /\ refund' = refund /\ job' = job
      /\ tx' \in [Requests -> Transaction]
      /\ \A q \in Requests : tx'[q] = IF q = r THEN work ELSE tx[q]
  BY RequestBegins DEF IInv, tables
<1>2. TypeOK' /\ LinesAddUp(item)' /\ AmountsAddUp' /\ JobsOfConfirmedOrders'
  BY <1>1 DEF IInv, TypeOK, AmountsAddUp, JobsOfConfirmedOrders
<1>3. Reads'
  BY <1>1 DEF IInv, Reads
<1> QED BY <1>2, <1>3 DEF IInv

\* The inductive invariant is kept by every step.
LEMMA StepIInv == IInv /\ [Next]_vars => IInv'
<1> SUFFICES ASSUME IInv, [Next]_vars PROVE IInv'
  OBVIOUS
<1>t. Tables /\ TypeOK /\ Reads
  BY DEF IInv, TypeOK, Tables, AmountsAddUp
<1>u. ASSUME UNCHANGED tables PROVE Tables' /\ UNCHANGED refund
  BY <1>t, <1>u DEF Tables, tables, JobsOfConfirmedOrders
<1>1. CASE UNCHANGED vars
  <2>1. UNCHANGED <<order, item, goods, refund, job, tx>>
    BY <1>1 DEF vars, tables
  <2> QED BY <1>t, <2>1 DEF IInv, TypeOK, Reads, AmountsAddUp, JobsOfConfirmedOrders
<1>2. ASSUME NEW r \in Requests, PatchBegin(r) \/ ConfirmBegin(r) \/ SyncBegin(r) PROVE IInv'
  <2>1. order.status \in Syncable \/ ~SyncBegin(r)
    BY DEF SyncBegin
  <2>2. AddsUp(order)
    BY <1>t DEF Tables
  <2>3. CASE PatchBegin(r)
    <3> DEFINE work == [step |-> "patch", seen |-> order]
    <3>1. work \in Transaction /\ Begins(r, work) /\ work.step = "patch"
      BY <2>3, Beginnings
    <3> HIDE DEF work
    <3> QED BY <3>1, Begun
  <2>4. CASE ConfirmBegin(r)
    <3> DEFINE work == [step |-> "confirm"]
    <3>1. work \in Transaction /\ Begins(r, work) /\ work.step = "confirm"
      BY <2>4, Beginnings
    <3> HIDE DEF work
    <3> QED BY <3>1, Begun
  <2>5. CASE SyncBegin(r)
    <3> DEFINE work == [step |-> "sync", seen |-> order]
    <3>1. work \in Transaction /\ Begins(r, work) /\ work.step = "sync" /\ work.seen = order
      BY <2>5, Beginnings
    <3> HIDE DEF work
    <3> QED BY <3>1, <2>1, <2>2, <2>5, Begun
  <2> QED BY <1>2, <2>3, <2>4, <2>5
<1>3. ASSUME NEW r \in Requests, NEW body \in Patches, PatchCommit(r, body) PROVE IInv'
  <2> DEFINE written == Patched(tx[r].seen, body)
  <2>1. /\ tx[r].step = "patch" /\ HasTotal(Sums(tx[r].seen, body)) /\ order' = written
        /\ Commits(r) /\ UNCHANGED <<item, goods, refund, job>>
    BY <1>3 DEF PatchCommit
  <2>2. tx[r].seen \in OrderRow
    BY <1>t, <2>1, Holding
  <2>3. written \in OrderRow /\ AddsUp(written)
    BY <2>1, <2>2, PatchedRow
  <2> HIDE DEF written
  <2>4. Tables'
    BY <1>t, <2>1, <2>3 DEF Tables, JobsOfConfirmedOrders
  <2> QED BY <1>t, <2>1, <2>4, RequestEnds, StaysTrue
<1>4. ASSUME NEW r \in Requests, ConfirmCommit(r) PROVE IInv'
  <2>1. order' \in OrderRow /\ AddsUp(order') /\ Commits(r) /\ UNCHANGED <<item, goods, refund, job>>
    BY <1>t, <1>4 DEF ConfirmCommit, Tables, OrderRow, AddsUp, Statuses
  <2>2. Tables'
    BY <1>t, <2>1 DEF Tables, JobsOfConfirmedOrders
  <2> QED BY <1>t, <2>1, <2>2, RequestEnds, StaysTrue
<1>5. ASSUME NEW r \in Requests, Abort(r) PROVE IInv'
  <2>1. Commits(r) /\ UNCHANGED tables
    BY <1>5 DEF Abort
  <2> QED BY <1>t, <1>u, <2>1, RequestEnds, StaysTrue
<1>6. ASSUME Cancel \/ MarkPaid \/ MarkFulfilled PROVE IInv'
  <2>1. order' \in OrderRow /\ AddsUp(order') /\ UNCHANGED <<item, goods, refund, job, tx>>
    BY <1>t, <1>6
       DEF Cancel, MarkPaid, MarkFulfilled, Tables, OrderRow, AddsUp, Statuses, Payments, Fulfillments
  <2>2. Tables'
    BY <1>t, <2>1 DEF Tables, JobsOfConfirmedOrders
  <2>3. tx' \in [Requests -> Transaction]
    BY <1>t, <2>1 DEF TypeOK
  <2> QED BY <2>1, <2>2, <2>3, StaysTrue
<1>7. ASSUME NEW r \in Requests, NEW i \in Items, NEW line \in Lines, WritesLine(r, i, line)
      PROVE  IInv'
  <2> DEFINE rows == [item EXCEPT ![i] = line]
             work == [step |-> "totals", item |-> i, rows |-> rows]
  <2>1. /\ work \in Transaction /\ Begins(r, work) /\ LinesAddUp(rows) /\ rows[i] # None
    BY <1>7, LineWritten
  <2>2. work.step = "totals" /\ work.rows = rows /\ work.item = i
    OBVIOUS
  <2> HIDE DEF work, rows
  <2> QED BY <2>1, <2>2, Begun
<1>8. ASSUME NEW r \in Requests, ItemCommit(r) PROVE IInv'
  <2> DEFINE i == tx[r].item
             rows == tx[r].rows
  <2>1. /\ tx[r].step = "totals" /\ Commits(r) /\ UNCHANGED <<goods, refund, job>>
        /\ item' = [item EXCEPT ![i] = rows[i]] /\ order' = Recomputed(order, rows)
    BY <1>8 DEF ItemCommit
  <2>2. i \in Items /\ rows \in ItemRows /\ LinesAddUp(rows) /\ rows[i] # None
    BY <1>t, <2>1, Holding DEF Reads
  <2> HIDE DEF i, rows
  <2>3. order \in OrderRow /\ item \in ItemRows /\ LinesAddUp(item)
    BY <1>t DEF Tables
  <2>4. order' \in OrderRow /\ AddsUp(order')
    BY <2>1, <2>2, <2>3, RecomputedRow
  <2>5. item' \in ItemRows /\ LinesAddUp(item')
    BY <2>1, <2>2, <2>3 DEF ItemRows, LinesAddUp
  <2>6. Tables'
    BY <1>t, <2>1, <2>4, <2>5 DEF Tables, JobsOfConfirmedOrders
  <2> QED BY <1>t, <2>1, <2>6, RequestEnds, StaysTrue
<1>9. ASSUME NEW f \in Refunds, RefundReject(f) PROVE IInv'
  <2>1. /\ refund[f] # None /\ refund' = [refund EXCEPT ![f].status = "rejected"]
        /\ UNCHANGED <<order, item, goods, job, tx>>
    BY <1>9 DEF RefundReject
  <2>2. refund \in [Refunds -> RefundRow \cup {None}] /\ refund[f] \in RefundRow
    BY <1>t, <2>1 DEF Tables
  <2>3. refund' = [refund EXCEPT ![f] = [refund[f] EXCEPT !.status = "rejected"]]
    BY <2>1
  <2> DEFINE row == [refund[f] EXCEPT !.status = "rejected"]
  <2>4. row \in RefundRow /\ row.returned = refund[f].returned /\ row # None
    BY <2>2, RowAssumption DEF RefundRow
  <2> HIDE DEF row
  <2>5. refund' \in [Refunds -> RefundRow \cup {None}]
    BY <2>2, <2>3, <2>4 DEF row
  <2>6. \A x \in Refunds : /\ refund'[x] # None <=> refund[x] # None
                           /\ refund'[x].returned = refund[x].returned
    BY <2>1, <2>2, <2>3, <2>4 DEF row
  <2>7. Tables'
    BY <1>t, <2>1, <2>5, <2>6 DEF Tables, JobsOfConfirmedOrders
  <2>8. tx' \in [Requests -> Transaction]
    BY <1>t, <2>1 DEF TypeOK
  <2> QED BY <2>1, <2>6, <2>7, <2>8, StaysTrue
<1>10. ASSUME NEW f \in Refunds, NEW amount \in RefundAmounts, NEW returned \in BOOLEAN,
              RefundCreate(f, amount, returned)
       PROVE  IInv'
  <2> DEFINE row == [status |-> "pending", amount |-> Rounded(amount), returned |-> returned]
  <2>1. /\ refund[f] = None /\ refund' = [refund EXCEPT ![f] = row] /\ (returned => goods # None)
        /\ UNCHANGED <<order, item, goods, job, tx>>
    BY <1>10 DEF RefundCreate
  <2>2. row \in RefundRow /\ row.returned = returned
    <3>1. Rounded(amount) \in Nat
      BY OrderAssumption, RoundedIs
    <3> QED BY <3>1 DEF RefundRow
  <2> HIDE DEF row
  <2>3. refund \in [Refunds -> RefundRow \cup {None}]
    BY <1>t DEF Tables
  <2>4. refund' \in [Refunds -> RefundRow \cup {None}]
    BY <2>1, <2>2, <2>3
  <2>5. \A x \in Refunds : /\ refund[x] # None => refund'[x] # None
                           /\ x # f => refund'[x] = refund[x]
    BY <2>1, <2>3
  <2>6. \A x \in Refunds : refund'[x] # None /\ refund'[x].returned => goods' # None
    BY <1>t, <2>1, <2>2, <2>3 DEF Tables
  <2>7. Tables'
    BY <1>t, <2>1, <2>4, <2>6 DEF Tables, JobsOfConfirmedOrders
  <2>8. tx' \in [Requests -> Transaction]
    BY <1>t, <2>1 DEF TypeOK
  <2> QED BY <2>1, <2>5, <2>7, <2>8, StaysTrue
<1>11. ASSUME ReturnCreate \/ \E decision \in {"approved", "rejected"} : ReturnReview(decision)
       PROVE  IInv'
  <2>1. goods' \in Returns /\ UNCHANGED <<order, item, refund, job, tx>>
    BY <1>11 DEF ReturnCreate, ReturnReview, Returns
  <2>2. goods' # None
    BY <2>1, RowAssumption
  <2>3. Tables'
    BY <1>t, <2>1, <2>2 DEF Tables, JobsOfConfirmedOrders
  <2>4. tx' \in [Requests -> Transaction]
    BY <1>t, <2>1 DEF TypeOK
  <2> QED BY <2>1, <2>3, <2>4, StaysTrue
<1>12. ASSUME NEW r \in Requests, RefundCommit(r) PROVE IInv'
  <2> DEFINE f == tx[r].refund
             row == [refund[f] EXCEPT !.status = "approved"]
  <2>1. /\ tx[r].step = "verdict" /\ refund' = [refund EXCEPT ![f] = row]
        /\ order' = [order EXCEPT !.payment = tx[r].payment] /\ Commits(r)
        /\ UNCHANGED <<item, goods, job>>
    BY <1>12 DEF RefundCommit
  <2>2. f \in Refunds /\ refund[f] # None /\ tx[r].payment \in Payments
    BY <1>t, <2>1, Holding DEF Reads, Payments
  <2>3. refund \in [Refunds -> RefundRow \cup {None}] /\ order \in OrderRow /\ AddsUp(order)
    BY <1>t DEF Tables
  <2>4. row \in RefundRow /\ row.returned = refund[f].returned /\ row # None
    BY <2>2, <2>3, RowAssumption DEF RefundRow
  <2> HIDE DEF row, f
  <2>5. refund' \in [Refunds -> RefundRow \cup {None}]
    BY <2>1, <2>3, <2>4
  <2>6. \A x \in Refunds : /\ refund'[x] # None <=> refund[x] # None
                           /\ refund'[x].returned = refund[x].returned
    BY <2>1, <2>2, <2>3, <2>4
  <2>7. order' \in OrderRow /\ AddsUp(order')
    BY <2>1, <2>2, <2>3 DEF OrderRow, AddsUp
  <2>8. Tables'
    BY <1>t, <2>1, <2>5, <2>6, <2>7 DEF Tables, JobsOfConfirmedOrders
  <2> QED BY <1>t, <2>1, <2>6, <2>8, RequestEnds, StaysTrue
<1>13. ASSUME NEW r \in Requests, NEW f \in Refunds, RefundApprove(r, f) PROVE IInv'
  <2> DEFINE work == [step |-> "verdict", refund |-> f, payment |-> PaymentAfter(Approved \cup {f})]
  <2>1. work \in Transaction /\ refund[f] # None /\ Begins(r, work)
    BY <1>13, Decided
  <2>2. work.step = "verdict" /\ work.refund = f
    OBVIOUS
  <2> HIDE DEF work
  <2> QED BY <2>1, <2>2, Begun
<1>14. ASSUME NEW r \in Requests, NEW j \in Jobs, SyncCommit(r, j) PROVE IInv'
  <2> DEFINE row == [order |-> tx[r].seen, items |-> item]
  <2>1. /\ tx[r].step = "sync" /\ job' = [job EXCEPT ![j] = row] /\ Commits(r)
        /\ UNCHANGED <<order, item, goods, refund>>
    BY <1>14 DEF SyncCommit
  <2>2. tx[r].seen \in OrderRow /\ tx[r].seen.status \in Syncable /\ AddsUp(tx[r].seen)
    BY <1>t, <2>1, Holding DEF Reads
  <2>3. item \in ItemRows /\ job \in [Jobs -> JobRow \cup {None}] /\ JobsOfConfirmedOrders
    BY <1>t DEF Tables
  <2>4. row \in JobRow /\ row.order.status \in Syncable /\ AddsUp(row.order)
    BY <2>2, <2>3 DEF JobRow
  <2> HIDE DEF row
  <2>5. job' \in [Jobs -> JobRow \cup {None}] /\ JobsOfConfirmedOrders'
    BY <2>1, <2>3, <2>4 DEF JobsOfConfirmedOrders
  <2>6. Tables'
    BY <1>t, <2>1, <2>5 DEF Tables
  <2> QED BY <1>t, <2>1, <2>6, RequestEnds, StaysTrue
<1> QED
  <2>1. Next \/ UNCHANGED vars
    OBVIOUS
  <2> HIDE DEF Next, vars
  <2> QED BY <2>1, NextIsSteps, <1>1, <1>2, <1>3, <1>4, <1>5, <1>6, <1>7, <1>8, <1>9, <1>10, <1>11,
             <1>12, <1>13, <1>14 DEF Steps

-----------------------------------------------------------------------------
\* A step after which no request is under way.
LEMMA Rests ==
  ASSUME \A q \in Requests : tx'[q] = Idle
  PROVE  SerialInv'
BY DEF SerialInv, Alone, Fresh, Idle

\* Without overlap, a request that ends leaves none under way.
LEMMA LastEnds ==
  ASSUME IInv, SerialInv, ~overlap, NEW r \in Requests, tx[r] # Idle, Commits(r)
  PROVE  \A q \in Requests : tx'[q] = Idle
BY RequestEnds DEF IInv, SerialInv, Alone

\* Without overlap, a request that begins is the only one, and its reads are of this moment.
LEMMA FirstBegins ==
  ASSUME IInv, ~overlap, NEW r \in Requests, NEW work \in Transaction, Begins(r, work),
         work.step = "confirm" => order.status \notin {"cancelled", "archived"},
         work.step = "totals" => \A i \in Items : i # work.item => work.rows[i] = item[i],
         work.step = "verdict" => work.payment = PaymentAfter(Approved \cup {work.refund})
  PROVE  Alone' /\ Fresh'
<1>1. /\ order' = order /\ item' = item /\ goods' = goods /\ refund' = refund /\ job' = job
      /\ \A q \in Requests : tx'[q] = IF q = r THEN work ELSE tx[q]
  BY RequestBegins DEF IInv, tables
<1>2. \A q \in Requests : tx[q] = Idle
  BY DEF Begins, Quiet
<1>3. \A q \in Requests : q # r => tx'[q] = Idle /\ tx'[q].step = "idle"
  BY <1>1, <1>2 DEF Idle
<1>4. AmountOf' = AmountOf /\ Approved' = Approved
  BY <1>1 DEF AmountOf, Approved
<1>5. tx'[r] = work
  BY <1>1
<1>6. Fresh'
  <2> SUFFICES ASSUME NEW q \in Requests
               PROVE  /\ tx'[q].step = "confirm" => order'.status \notin {"cancelled", "archived"}
                      /\ tx'[q].step = "totals" =>
                           \A i \in Items : i # tx'[q].item => tx'[q].rows[i] = item'[i]
                      /\ tx'[q].step = "verdict" =>
                           tx'[q].payment = PaymentAfter(Approved \cup {tx[q].refund})'
    BY DEF Fresh
  <2>1. CASE q # r
    BY <1>3, <2>1
  <2>2. CASE q = r
    BY <1>1, <1>4, <1>5, <2>2 DEF PaymentAfter
  <2> QED BY <2>1, <2>2
<1> QED BY <1>3, <1>6 DEF Alone

\* The serial invariant is kept by every step.
LEMMA StepSerialInv == IInv /\ SerialInv /\ [Next]_vars => SerialInv'
<1> SUFFICES ASSUME IInv, SerialInv, [Next]_vars, ~overlap' PROVE SerialInv'
  BY DEF SerialInv
<1>o. overlap' = overlap /\ ~overlap
  BY NextIsSteps DEF vars
<1>s. Alone /\ Fresh /\ TypeOK
  BY <1>o DEF SerialInv, IInv
<1>q. ASSUME Quiet, tx' = tx PROVE SerialInv'
  BY <1>o, <1>q, Rests DEF Quiet
<1>e. ASSUME NEW r \in Requests, tx[r].step # "idle", Commits(r) PROVE SerialInv'
  BY <1>o, <1>e, LastEnds, Rests DEF Idle
<1>b. ASSUME NEW r \in Requests, NEW work \in Transaction, Begins(r, work),
             work.step = "confirm" => order.status \notin {"cancelled", "archived"},
             work.step = "totals" => \A i \in Items : i # work.item => work.rows[i] = item[i],
             work.step = "verdict" => work.payment = PaymentAfter(Approved \cup {work.refund})
      PROVE  SerialInv'
  BY <1>o, <1>b, FirstBegins DEF SerialInv
<1>1. CASE UNCHANGED vars
  <2>1. UNCHANGED <<order, item, goods, refund, job, tx>>
    BY <1>1 DEF vars, tables
  <2>2. AmountOf' = AmountOf /\ Approved' = Approved
    BY <2>1 DEF AmountOf, Approved
  <2> QED BY <1>s, <2>1, <2>2 DEF SerialInv, Alone, Fresh, PaymentAfter
<1>2. ASSUME NEW r \in Requests, PatchBegin(r) \/ ConfirmBegin(r) \/ SyncBegin(r) PROVE SerialInv'
  <2>1. CASE PatchBegin(r)
    <3> DEFINE work == [step |-> "patch", seen |-> order]
    <3>1. work \in Transaction /\ Begins(r, work) /\ work.step = "patch"
      BY <2>1, Beginnings
    <3> HIDE DEF work
    <3> QED BY <3>1, <1>b
  <2>2. CASE ConfirmBegin(r)
    <3> DEFINE work == [step |-> "confirm"]
    <3>1. work \in Transaction /\ Begins(r, work) /\ work.step = "confirm"
      BY <2>2, Beginnings
    <3>2. order.status \notin {"cancelled", "archived"}
      BY <2>2 DEF ConfirmBegin
    <3> HIDE DEF work
    <3> QED BY <3>1, <3>2, <1>b
  <2>3. CASE SyncBegin(r)
    <3> DEFINE work == [step |-> "sync", seen |-> order]
    <3>1. work \in Transaction /\ Begins(r, work) /\ work.step = "sync"
      BY <2>3, Beginnings
    <3> HIDE DEF work
    <3> QED BY <3>1, <1>b
  <2> QED BY <1>2, <2>1, <2>2, <2>3
<1>3. ASSUME NEW r \in Requests, NEW body \in Patches, PatchCommit(r, body) PROVE SerialInv'
  BY <1>3, <1>e DEF PatchCommit
<1>4. ASSUME NEW r \in Requests, ConfirmCommit(r) PROVE SerialInv'
  BY <1>4, <1>e DEF ConfirmCommit
<1>5. ASSUME NEW r \in Requests, Abort(r) PROVE SerialInv'
  BY <1>s, <1>5, <1>e, Holding DEF Abort
<1>6. ASSUME Cancel \/ MarkPaid \/ MarkFulfilled PROVE SerialInv'
  BY <1>6, <1>q DEF Cancel, MarkPaid, MarkFulfilled
<1>7. ASSUME NEW r \in Requests, NEW i \in Items, NEW line \in Lines, WritesLine(r, i, line)
      PROVE  SerialInv'
  <2> DEFINE rows == [item EXCEPT ![i] = line]
             work == [step |-> "totals", item |-> i, rows |-> rows]
  <2>1. /\ work \in Transaction /\ Begins(r, work)
    BY <1>7, LineWritten
  <2>2. \A x \in Items : x # i => rows[x] = item[x]
    BY <1>s DEF TypeOK, ItemRows
  <2>3. work.step = "totals" /\ work.rows = rows /\ work.item = i
    OBVIOUS
  <2> HIDE DEF work, rows
  <2> QED BY <2>1, <2>2, <2>3, <1>b
<1>8. ASSUME NEW r \in Requests, ItemCommit(r) PROVE SerialInv'
  BY <1>8, <1>e DEF ItemCommit
<1>9. ASSUME NEW f \in Refunds, RefundReject(f) PROVE SerialInv'
  BY <1>9, <1>q DEF RefundReject
<1>10. ASSUME NEW f \in Refunds, NEW amount \in RefundAmounts, NEW returned \in BOOLEAN,
              RefundCreate(f, amount, returned)
       PROVE  SerialInv'
  BY <1>10, <1>q DEF RefundCreate
<1>11. ASSUME ReturnCreate \/ \E decision \in {"approved", "rejected"} : ReturnReview(decision)
       PROVE  SerialInv'
  BY <1>11, <1>q DEF ReturnCreate, ReturnReview
<1>12. ASSUME NEW r \in Requests, RefundCommit(r) PROVE SerialInv'
  BY <1>12, <1>e DEF RefundCommit
<1>13. ASSUME NEW r \in Requests, NEW f \in Refunds, RefundApprove(r, f) PROVE SerialInv'
  <2> DEFINE payment == PaymentAfter(Approved \cup {f})
             work == [step |-> "verdict", refund |-> f, payment |-> payment]
  <2>1. work \in Transaction /\ Begins(r, work)
    BY <1>13, Decided
  <2>2. work.step = "verdict" /\ work.refund = f /\ work.payment = payment
    OBVIOUS
  <2> HIDE DEF work
  <2> QED BY <2>1, <2>2, <1>b
<1>14. ASSUME NEW r \in Requests, NEW j \in Jobs, SyncCommit(r, j) PROVE SerialInv'
  BY <1>14, <1>e DEF SyncCommit
<1> QED
  <2>1. Next \/ UNCHANGED vars
    OBVIOUS
  <2> HIDE DEF Next, vars
  <2> QED BY <2>1, NextIsSteps, <1>1, <1>2, <1>3, <1>4, <1>5, <1>6, <1>7, <1>8, <1>9, <1>10, <1>11,
             <1>12, <1>13, <1>14 DEF Steps

-----------------------------------------------------------------------------
\* A new order satisfies both invariants.
LEMMA InitInv == Init => IInv /\ SerialInv
<1> SUFFICES ASSUME Init PROVE IInv /\ SerialInv
  OBVIOUS
<1>1. \A r \in Requests : tx[r] = Idle /\ tx[r].step = "idle"
  BY DEF Init, Idle
<1>2. PICK sums \in [subtotal : Prices, tax : Taxes, shipping : Shippings, discount : Discounts] :
        HasTotal(sums) /\ order = Created(sums)
  BY DEF Init
<1>3. sums.subtotal \in Nat /\ sums.tax \in Nat /\ sums.shipping \in Nat /\ sums.discount \in Nat
  BY OrderAssumption
<1>4. /\ order.subtotal = Rounded(sums.subtotal) /\ order.tax = Rounded(sums.tax)
      /\ order.shipping = Rounded(sums.shipping) /\ order.discount = Rounded(sums.discount)
      /\ order.total = Rounded(OrderTotal(sums))
  BY <1>2 DEF Created
<1>5. order \in OrderRow /\ AddsUp(order)
  <2>1. /\ order.subtotal \in Nat /\ order.tax \in Nat /\ order.shipping \in Nat
        /\ order.discount \in Nat /\ order.total \in Nat
        /\ AddsUp(order)
    BY <1>2, <1>3, <1>4, RoundedRow
  <2> QED BY <1>2, <1>4, <2>1 DEF Created, OrderRow, Statuses, Payments, Fulfillments
<1>6. TypeOK
  BY <1>5 DEF Init, TypeOK, ItemRows, Transaction
<1>7. LinesAddUp(item) /\ Reads /\ AmountsAddUp /\ JobsOfConfirmedOrders
  BY <1>1, <1>5 DEF Init, LinesAddUp, Reads, AmountsAddUp, JobsOfConfirmedOrders
<1>8. SerialInv
  BY <1>1 DEF SerialInv, Alone, Fresh
<1> QED BY <1>6, <1>7, <1>8 DEF IInv

\* Both invariants hold in every state of every behaviour.
LEMMA InvHolds == Spec => [](IInv /\ SerialInv)
BY InitInv, StepIInv, StepSerialInv, PTL DEF Spec

(***************************************************************************)
(* The rows keep their types.  That no amount becomes negative is part of  *)
(* it: a discount beyond the rest is refused, and sums of lines are sums.  *)
(***************************************************************************)
THEOREM TypeCorrect == Spec => []TypeOK
BY InvHolds, PTL DEF IInv

(***************************************************************************)
(* The order's amounts add up within the rounding of one write, for any    *)
(* number of items and any amounts, after any sequence of overlapping      *)
(* writes.                                                                 *)
(***************************************************************************)
THEOREM AmountsAlwaysAddUp == Spec => []AmountsAddUp
BY InvHolds, PTL DEF IInv

(***************************************************************************)
(* Every queued snapshot is of a confirmed order whose amounts add up      *)
(* within the rounding of one write.                                       *)
(***************************************************************************)
THEOREM JobsStayConfirmed == Spec => []JobsOfConfirmedOrders
BY InvHolds, PTL DEF IInv

\* What a step may do to the items, when requests do not overlap.
LEMMA StepTotals ==
  IInv /\ SerialInv /\ [Next]_vars
    => [~overlap /\ item' # item => order' = Recomputed(order', item')]_vars
<1> SUFFICES ASSUME IInv, SerialInv, Next, ~overlap, item' # item
             PROVE  order' = Recomputed(order', item')
  BY DEF vars, tables
<1>1. PICK r \in Requests : ItemCommit(r)
  <2>1. Steps
    BY NextIsSteps
  <2> QED BY <2>1
    DEF Steps, PatchBegin, ConfirmBegin, SyncBegin, Begins, PatchCommit, ConfirmCommit, Abort,
        Cancel, MarkPaid, MarkFulfilled, WritesLine, RefundReject, RefundCreate, ReturnCreate,
        ReturnReview, RefundCommit, RefundApprove, SyncCommit, tables
<1> DEFINE i == tx[r].item
           rows == tx[r].rows
<1>2. /\ tx[r].step = "totals" /\ item' = [item EXCEPT ![i] = rows[i]]
      /\ order' = Recomputed(order, rows)
  BY <1>1 DEF ItemCommit
<1>3. /\ i \in Items /\ rows \in ItemRows /\ item \in ItemRows /\ order \in OrderRow
      /\ \A x \in Items : x # i => rows[x] = item[x]
  BY <1>2, Holding DEF IInv, TypeOK, SerialInv, Fresh
<1> HIDE DEF i, rows
<1>4. item' = rows
  BY <1>2, <1>3 DEF ItemRows
<1>5. order' = Recomputed(order', rows)
  BY <1>2, <1>3 DEF Recomputed, OrderRow
<1> QED BY <1>4, <1>5

(***************************************************************************)
(* Without overlap, a step that writes a line leaves the order's totals    *)
(* the sums of its lines.                                                  *)
(***************************************************************************)
THEOREM TotalsAlwaysFollowItems == Spec => TotalsFollowItems
BY InvHolds, StepTotals, PTL DEF Spec, TotalsFollowItems

\* After a commit of refunds, what is approved amounts to the sum of a function.
LEMMA ApprovedSum == TypeOK => RefundSum(Approved) = Total(AmountOf, Approved)
<1> SUFFICES ASSUME TypeOK PROVE RefundSum(Approved) = Total(AmountOf, Approved)
  OBVIOUS
<1>1. \A f \in Approved : f \in Refunds /\ refund[f].amount \in Nat
  BY DEF TypeOK, Approved, RefundRow
<1> QED BY <1>1, RefundSumIsTotal

\* The same of the state after a step.
LEMMA ApprovedSumAfter == TypeOK' => (RefundSum(Approved) = Total(AmountOf, Approved))'
BY ApprovedSum, PTL

\* What a step may do to the approved refunds, when requests do not overlap.
LEMMA StepPayment ==
  IInv /\ SerialInv /\ [Next]_vars
    => [~overlap /\ Approved' # Approved /\ Approved \subseteq Approved' =>
          order'.payment = (IF RefundSum(Approved)' >= order'.total
                            THEN "refunded" ELSE "partially_refunded")]_vars
<1> SUFFICES ASSUME IInv, SerialInv, Next, ~overlap,
                    Approved' # Approved, Approved \subseteq Approved'
             PROVE  order'.payment = (IF RefundSum(Approved)' >= order'.total
                                      THEN "refunded" ELSE "partially_refunded")
  <2>1. vars' = vars => Approved' = Approved
    BY DEF vars, tables, Approved
  <2> QED BY <2>1
<1>s. Steps
  BY NextIsSteps
<1>t. refund \in [Refunds -> RefundRow \cup {None}] /\ order \in OrderRow
  BY DEF IInv, TypeOK
<1>1. refund' # refund
  BY DEF Approved
<1>2. \A f \in Refunds : ~RefundReject(f)
  <2> SUFFICES ASSUME NEW f \in Refunds, RefundReject(f) PROVE FALSE
    OBVIOUS
  <2>1. refund[f] \in RefundRow /\ refund' = [refund EXCEPT ![f].status = "rejected"]
    BY <1>t DEF RefundReject
  <2>2. Approved' \subseteq Approved
    BY <1>t, <2>1, RowAssumption DEF Approved, RefundRow
  <2> QED BY <2>2
<1>3. \A f \in Refunds, amount \in RefundAmounts, returned \in BOOLEAN :
        ~RefundCreate(f, amount, returned)
  <2> SUFFICES ASSUME NEW f \in Refunds, NEW amount \in RefundAmounts, NEW returned \in BOOLEAN,
                      RefundCreate(f, amount, returned)
               PROVE  FALSE
    OBVIOUS
  <2>1. refund' = [refund EXCEPT ![f] =
                     [status |-> "pending", amount |-> Rounded(amount), returned |-> returned]]
    BY DEF RefundCreate
  <2>2. Approved' \subseteq Approved
    BY <1>t, <2>1 DEF Approved
  <2> QED BY <2>2
<1>4. PICK r \in Requests : RefundCommit(r)
  BY <1>s, <1>1, <1>2, <1>3
    DEF Steps, PatchBegin, ConfirmBegin, SyncBegin, Begins, PatchCommit, ConfirmCommit, Abort,
        Cancel, MarkPaid, MarkFulfilled, WritesLine, ItemCommit, ReturnCreate,
        ReturnReview, RefundApprove, SyncCommit, tables
<1> DEFINE f == tx[r].refund
           S == Approved \cup {f}
<1>5. /\ tx[r].step = "verdict" /\ refund' = [refund EXCEPT ![f].status = "approved"]
      /\ order' = [order EXCEPT !.payment = tx[r].payment]
  BY <1>4 DEF RefundCommit
<1>6. f \in Refunds /\ refund[f] \in RefundRow /\ tx[r].payment = PaymentAfter(S)
  BY <1>5, <1>t, Holding DEF IInv, Reads, SerialInv, Fresh
<1>7. order'.payment = PaymentAfter(S) /\ order'.total = order.total
  BY <1>t, <1>5, <1>6 DEF OrderRow
<1>8. Approved' = S
  BY <1>t, <1>5, <1>6, RowAssumption DEF Approved, RefundRow
<1>9. AmountOf' = AmountOf
  <2>1. \A x \in Refunds : refund'[x].amount = refund[x].amount
    BY <1>t, <1>5, <1>6 DEF RefundRow
  <2> QED BY <2>1 DEF AmountOf
<1>10. RefundSum(Approved)' = Total(AmountOf', Approved')
  <2>1. TypeOK'
    BY StepIInv DEF IInv
  <2> QED BY <2>1, ApprovedSumAfter
<1> HIDE DEF S
<1>11. RefundSum(Approved)' = Total(AmountOf, S)
  BY <1>8, <1>9, <1>10
<1> QED BY <1>7, <1>11 DEF PaymentAfter

(***************************************************************************)
(* Without overlap, the payment status that an approval leaves says        *)
(* whether the approved refunds cover the total.                           *)
(***************************************************************************)
THEOREM PaymentAlwaysFollowsRefunds == Spec => PaymentFollowsRefunds
BY InvHolds, StepPayment, PTL DEF Spec, PaymentFollowsRefunds

\* What a step may do to a cancelled order, when requests do not overlap.
LEMMA StepCancelled ==
  IInv /\ SerialInv /\ [Next]_vars
    => [~overlap /\ order.status = "cancelled" /\ order'.status # "cancelled"
          => \E r \in Requests : tx[r].step = "patch" /\ tx'[r] = Idle]_vars
<1> SUFFICES ASSUME IInv, SerialInv, Next, ~overlap,
                    order.status = "cancelled", order'.status # "cancelled"
             PROVE  \E r \in Requests : tx[r].step = "patch" /\ tx'[r] = Idle
  BY DEF vars, tables
<1>t. order \in OrderRow /\ TypeOK
  BY DEF IInv, TypeOK
<1>1. order' # order
  OBVIOUS
<1>2. ~(Cancel \/ MarkPaid \/ MarkFulfilled)
  BY <1>t DEF Cancel, MarkPaid, MarkFulfilled, OrderRow
<1>3. \A r \in Requests : ~ConfirmCommit(r)
  BY DEF ConfirmCommit, SerialInv, Fresh
<1>4. \A r \in Requests : ~ItemCommit(r)
  <2> SUFFICES ASSUME NEW r \in Requests, ItemCommit(r) PROVE FALSE
    OBVIOUS
  <2>1. tx[r].rows \in ItemRows /\ LinesAddUp(tx[r].rows) /\ order' = Recomputed(order, tx[r].rows)
    BY <1>t, Holding DEF ItemCommit, IInv, Reads
  <2> QED BY <1>t, <2>1, RecomputedRow
<1>5. \A r \in Requests : ~RefundCommit(r)
  BY <1>t DEF RefundCommit, OrderRow
<1>6. PICK r \in Requests, body \in Patches : PatchCommit(r, body)
  <2>1. Steps
    BY NextIsSteps
  <2> QED BY <2>1, <1>1, <1>2, <1>3, <1>4, <1>5
    DEF Steps, PatchBegin, ConfirmBegin, SyncBegin, Begins, Abort, WritesLine, RefundReject,
        RefundCreate, ReturnCreate, ReturnReview, RefundApprove, SyncCommit, tables
<1>7. tx[r].step = "patch" /\ tx'[r] = Idle
  BY <1>t, <1>6, RequestEnds DEF PatchCommit
<1> QED BY <1>7

(***************************************************************************)
(* Without overlap a cancelled order leaves that status only by PATCH.     *)
(***************************************************************************)
THEOREM CancelledStaysUntilPatched == Spec => CancelledUntilPatched
BY InvHolds, StepCancelled, PTL DEF Spec, CancelledUntilPatched
=============================================================================
