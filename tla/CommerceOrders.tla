--------------------------- MODULE CommerceOrders ---------------------------
(***************************************************************************)
(* One order of commerce_orders with its items, return, refunds and Medusa *)
(* sync jobs (operational-runtime.ts); orders never touch each other.      *)
(*                                                                         *)
(* A handler that reads before it writes is two steps: what its statements *)
(* read (Begin), and its writes with COMMIT.  READ COMMITTED shows a       *)
(* statement what is committed when it starts, plus the transaction's own  *)
(* rows; a row once updated is locked until COMMIT.  Events and the checks *)
(* on sellers, products and tenants touch none of these rows.              *)
(*                                                                         *)
(* A body carries any amounts; an amount column is numeric(18, 4) and      *)
(* rounds what it is given on its own.  Columns count units of the fourth  *)
(* decimal, bodies count parts of such a unit, and sums of parts are       *)
(* exact: so are JavaScript's up to a small part of a unit, for amounts    *)
(* below 2^43 units.                                                       *)
(***************************************************************************)
EXTENDS Integers, FiniteSets, FiniteSetsExt

CONSTANTS Items, Refunds, Jobs,   \* ids of rows
          Requests,               \* requests for this order under way at once
          None,                   \* no row
          Parts,                  \* how many parts make a unit
          Prices, Taxes, Discounts, Shippings, RefundAmounts, \* amounts bodies carry, in parts
          MaxQuantity,            \* what a line has at most
          Patches                 \* bodies of PATCH: records of some of the fields

Amounts == {"subtotal", "tax", "shipping", "discount"}
Statuses == {"draft", "placed", "confirmed", "processing", "completed", "cancelled", "archived"}
Payments == {"unpaid", "authorized", "paid", "partially_refunded", "refunded", "failed"}
Fulfillments == {"unfulfilled", "partially_fulfilled", "fulfilled", "returned", "cancelled"}
Syncable == {"confirmed", "processing", "completed"}

ASSUME OrderAssumption ==
  /\ IsFiniteSet(Items) /\ IsFiniteSet(Refunds)
  /\ Parts \in Nat \ {0} /\ MaxQuantity \in Nat \ {0}
  /\ Prices \cup Taxes \cup Discounts \cup Shippings \subseteq Nat
  /\ RefundAmounts \subseteq Nat \ {0}
  /\ \A body \in Patches : \A f \in DOMAIN body :
       \/ f \in Amounts /\ body[f] \in Nat
       \/ f = "status" /\ body[f] \in Statuses
       \/ f = "payment" /\ body[f] \in Payments
       \/ f = "fulfillment" /\ body[f] \in Fulfillments

VARIABLES order,    \* the row of commerce_orders
          item,     \* rows of commerce_order_items
          goods,    \* the row of commerce_order_returns: its status, or None
          refund,   \* rows of commerce_order_refunds
          job,      \* snapshots queued in commerce_medusa_order_sync_jobs
          tx,       \* what each request has read, or written and not committed
          overlap   \* whether requests for the order overlap in this behaviour

tables == <<order, item, goods, refund, job>>
vars == <<tables, tx, overlap>>

OrderRow == [status : Statuses, payment : Payments, fulfillment : Fulfillments,
             subtotal : Nat, tax : Nat, shipping : Nat, discount : Nat, total : Nat]
ItemRow == [net : Nat, tax : Nat, discount : Nat, total : Nat]
Returns == {"requested", "approved", "rejected"}
RefundRow == [status : {"pending", "approved", "rejected"}, amount : Nat, returned : BOOLEAN]
ItemRows == [Items -> ItemRow \cup {None}]
JobRow == [order : OrderRow, items : ItemRows]

ASSUME RowAssumption == None \notin ItemRow \cup RefundRow \cup Returns \cup JobRow

Idle == [step |-> "idle"]
Transaction ==
  {Idle} \cup [step : {"confirm"}]
         \cup [step : {"patch", "sync"}, seen : OrderRow]
         \cup [step : {"totals"}, item : Items, rows : ItemRows]
         \cup [step : {"verdict"}, refund : Refunds, payment : {"refunded", "partially_refunded"}]

TypeOK ==
  /\ order \in OrderRow
  /\ item \in ItemRows
  /\ goods \in Returns \cup {None}
  /\ refund \in [Refunds -> RefundRow \cup {None}]
  /\ \A f \in Refunds : refund[f] # None /\ refund[f].returned => goods # None
  /\ job \in [Jobs -> JobRow \cup {None}]
  /\ tx \in [Requests -> Transaction]
-----------------------------------------------------------------------------
\* What numeric(18, 4) keeps of an amount, in units: a half is rounded up.
Rounded(amount) == (2 * amount + Parts) \div (2 * Parts)

\* calculateOrderTotal, of amounts in parts: undefined when the discount exceeds the rest.
HasTotal(sums) == sums.discount <= sums.subtotal + sums.tax + sums.shipping
OrderTotal(sums) == sums.subtotal + sums.tax + sums.shipping - sums.discount

Created(sums) ==
  [status |-> "draft", payment |-> "unpaid", fulfillment |-> "unfulfilled",
   subtotal |-> Rounded(sums.subtotal), tax |-> Rounded(sums.tax),
   shipping |-> Rounded(sums.shipping), discount |-> Rounded(sums.discount),
   total |-> Rounded(OrderTotal(sums))]

\* A line.  The recompute multiplies the quantity by the price that was kept.
Line(quantity, price, tax, discount) ==
  [net |-> quantity * Rounded(price), tax |-> Rounded(tax), discount |-> Rounded(discount),
   total |-> Rounded(quantity * price + tax - discount)]

\* The lines that item create and item update can ask for: an update takes each amount from
\* its body or from the row.
Kept(amounts) == amounts \cup {Parts * Rounded(x) : x \in amounts}
Lines ==
  {Line(x[1], x[2], x[3], x[4]) :
     x \in {y \in (1..MaxQuantity) \X Kept(Prices) \X Kept(Taxes) \X Kept(Discounts) :
              y[4] <= y[1] * y[2] + y[3]}}

Init ==
  /\ \E sums \in [subtotal : Prices, tax : Taxes, shipping : Shippings, discount : Discounts] :
       HasTotal(sums) /\ order = Created(sums)
  /\ item = [i \in Items |-> None]
  /\ goods = None
  /\ refund = [f \in Refunds |-> None]
  /\ job = [j \in Jobs |-> None]
  /\ tx = [r \in Requests |-> Idle]
  /\ overlap \in BOOLEAN

Quiet == overlap \/ \A q \in Requests : tx[q] = Idle
Begins(r, work) ==
  /\ tx[r] = Idle /\ Quiet
  /\ tx' = [tx EXCEPT ![r] = work]
  /\ UNCHANGED tables
Commits(r) == tx' = [tx EXCEPT ![r] = Idle]
-----------------------------------------------------------------------------
(***************************************************************************)
(* The order row.  PATCH writes every column back: the body's where it     *)
(* has one, else the one it read; and the total of these amounts.          *)
(***************************************************************************)
Sums(seen, body) == [f \in Amounts |-> IF f \in DOMAIN body THEN body[f] ELSE Parts * seen[f]]
Patched(seen, body) ==
  [f \in DOMAIN seen |->
     CASE f \in Amounts -> Rounded(Sums(seen, body)[f])
       [] f = "total" -> Rounded(OrderTotal(Sums(seen, body)))
       [] OTHER -> IF f \in DOMAIN body THEN body[f] ELSE seen[f]]

PatchBegin(r) ==
  /\ Begins(r, [step |-> "patch", seen |-> order])

\* Mutant: the total is written back like the columns the body leaves out.
PatchCommitKeepingTotal(r, body) ==
  /\ tx[r].step = "patch"
  /\ HasTotal(Sums(tx[r].seen, body))
  /\ order' = [Patched(tx[r].seen, body) EXCEPT !.total = tx[r].seen.total]
  /\ Commits(r)
  /\ UNCHANGED <<item, goods, refund, job>>

\* Mutant: a discount larger than the rest is let through.
PatchCommitUnchecked(r, body) ==
  /\ tx[r].step = "patch"
  /\ order' = Patched(tx[r].seen, body)
  /\ Commits(r)
  /\ UNCHANGED <<item, goods, refund, job>>

PatchCommit(r, body) ==
  /\ tx[r].step = "patch"
  /\ HasTotal(Sums(tx[r].seen, body))
  /\ order' = Patched(tx[r].seen, body)
  /\ Commits(r)
  /\ UNCHANGED <<item, goods, refund, job>>

\* Mutant: only archived orders are refused.
ConfirmBeginCancelled(r) ==
  /\ order.status # "archived"
  /\ Begins(r, [step |-> "confirm"])

ConfirmBegin(r) ==
  /\ order.status \notin {"cancelled", "archived"}
  /\ Begins(r, [step |-> "confirm"])

ConfirmCommit(r) ==
  /\ tx[r].step = "confirm"
  /\ order' = [order EXCEPT !.status = "confirmed"]
  /\ Commits(r)
  /\ UNCHANGED <<item, goods, refund, job>>

Cancel ==
  /\ Quiet
  /\ order' = [order EXCEPT !.status = "cancelled", !.fulfillment = "cancelled"]
  /\ UNCHANGED <<item, goods, refund, job, tx>>

MarkPaid ==
  /\ Quiet
  /\ order' = [order EXCEPT !.payment = "paid"]
  /\ UNCHANGED <<item, goods, refund, job, tx>>

MarkFulfilled ==
  /\ Quiet
  /\ order' = [order EXCEPT !.fulfillment = "fulfilled",
                            !.status = IF @ \in {"draft", "placed", "confirmed"}
                                       THEN "processing" ELSE @]
  /\ UNCHANGED <<item, goods, refund, job, tx>>
-----------------------------------------------------------------------------
(***************************************************************************)
(* Items.  The line is written, uncommitted, and recompute's subquery sums *)
(* it with what is committed by then.  If the order row is locked, the     *)
(* UPDATE waits and then adds those old sums to the row as it is now.      *)
(***************************************************************************)
ItemLocked(i) == \E q \in Requests : tx[q].step = "totals" /\ tx[q].item = i
WritesLine(r, i, line) ==
  /\ ~ItemLocked(i)
  /\ Begins(r, [step |-> "totals", item |-> i, rows |-> [item EXCEPT ![i] = line]])

ItemCreate(r, i, line) == item[i] = None /\ WritesLine(r, i, line)
ItemUpdate(r, i, line) == item[i] # None /\ WritesLine(r, i, line)

Sum(rows, column) == MapThenSumSet(LAMBDA i : rows[i][column], {i \in Items : rows[i] # None})

Recomputed(row, rows) ==
  [row EXCEPT !.subtotal = Sum(rows, "net"),
              !.tax = Sum(rows, "tax"),
              !.discount = Sum(rows, "discount"),
              !.total = Sum(rows, "total") + row.shipping]

\* Mutant: the totals are recomputed before the line is written.
ItemCommitTotalsFirst(r) ==
  /\ tx[r].step = "totals"
  /\ item' = [item EXCEPT ![tx[r].item] = tx[r].rows[tx[r].item]]
  /\ order' = Recomputed(order, item)
  /\ Commits(r)
  /\ UNCHANGED <<goods, refund, job>>

ItemCommit(r) ==
  /\ tx[r].step = "totals"
  /\ item' = [item EXCEPT ![tx[r].item] = tx[r].rows[tx[r].item]]
  /\ order' = Recomputed(order, tx[r].rows)
  /\ Commits(r)
  /\ UNCHANGED <<goods, refund, job>>
-----------------------------------------------------------------------------
(***************************************************************************)
(* Refunds.  An approval locks its refund row, then sums what is approved  *)
(* and compares with the total; both may change before it commits.         *)
(***************************************************************************)
RefundLocked(f) == \E q \in Requests : tx[q].step = "verdict" /\ tx[q].refund = f
Approved == {f \in Refunds : refund[f] # None /\ refund[f].status = "approved"}
RefundSum(S) == MapThenSumSet(LAMBDA f : refund[f].amount, S)
\* Mutant: a refund counts as full only when it exceeds the total.
VerdictWhenExceeding(S, row) ==
  IF RefundSum(S) > row.total THEN "refunded" ELSE "partially_refunded"
Verdict(S, row) == IF RefundSum(S) >= row.total THEN "refunded" ELSE "partially_refunded"

\* A body may name a return of the order, whatever was decided about it.  A small amount is
\* kept as zero.
RefundCreate(f, amount, returned) ==
  /\ Quiet
  /\ refund[f] = None
  /\ returned => goods # None
  /\ refund' = [refund EXCEPT ![f] =
                  [status |-> "pending", amount |-> Rounded(amount), returned |-> returned]]
  /\ UNCHANGED <<order, item, goods, job, tx>>

RefundApprove(r, f) ==
  /\ refund[f] # None /\ ~RefundLocked(f)
  /\ Begins(r, [step |-> "verdict", refund |-> f, payment |-> Verdict(Approved \cup {f}, order)])

RefundCommit(r) ==
  /\ tx[r].step = "verdict"
  /\ refund' = [refund EXCEPT ![tx[r].refund].status = "approved"]
  /\ order' = [order EXCEPT !.payment = tx[r].payment]
  /\ Commits(r)
  /\ UNCHANGED <<item, goods, job>>

\* The payment status stays, an earlier approval's too.
RefundReject(f) ==
  /\ Quiet
  /\ refund[f] # None /\ ~RefundLocked(f)
  /\ refund' = [refund EXCEPT ![f].status = "rejected"]
  /\ UNCHANGED <<order, item, goods, job, tx>>
-----------------------------------------------------------------------------
(***************************************************************************)
(* Returns: one of the order's, for they do not meet.  A review may follow *)
(* another.                                                                *)
(***************************************************************************)
ReturnCreate ==
  /\ Quiet
  /\ goods = None
  /\ goods' = "requested"
  /\ UNCHANGED <<order, item, refund, job, tx>>

ReturnReview(decision) ==
  /\ Quiet
  /\ goods # None
  /\ goods' = decision
  /\ UNCHANGED <<order, item, refund, job, tx>>
-----------------------------------------------------------------------------
(***************************************************************************)
(* Medusa sync: the order row from one statement, the items from the next. *)
(***************************************************************************)
SyncBegin(r) ==
  /\ order.status \in Syncable
  /\ Begins(r, [step |-> "sync", seen |-> order])

\* Mutant: the snapshot reads the order again after the check.
SyncCommitRereading(r, j) ==
  /\ tx[r].step = "sync"
  /\ job[j] = None
  /\ job' = [job EXCEPT ![j] = [order |-> order, items |-> item]]
  /\ Commits(r)
  /\ UNCHANGED <<order, item, goods, refund>>

SyncCommit(r, j) ==
  /\ tx[r].step = "sync"
  /\ job[j] = None
  /\ job' = [job EXCEPT ![j] = [order |-> tx[r].seen, items |-> item]]
  /\ Commits(r)
  /\ UNCHANGED <<order, item, goods, refund>>

Abort(r) ==
  /\ tx[r] # Idle
  /\ Commits(r)
  /\ UNCHANGED tables

Next ==
  /\ UNCHANGED overlap
  /\ \/ \E r \in Requests : PatchBegin(r) \/ \E body \in Patches : PatchCommit(r, body)
     \/ \E r \in Requests : ConfirmBegin(r) \/ ConfirmCommit(r) \/ Abort(r)
     \/ Cancel \/ MarkPaid \/ MarkFulfilled
     \/ \E r \in Requests, i \in Items, line \in Lines : ItemCreate(r, i, line) \/ ItemUpdate(r, i, line)
     \/ \E r \in Requests : ItemCommit(r)
     \/ \E f \in Refunds : RefundReject(f)
     \/ \E f \in Refunds, amount \in RefundAmounts, returned \in BOOLEAN :
          RefundCreate(f, amount, returned)
     \/ ReturnCreate \/ \E decision \in {"approved", "rejected"} : ReturnReview(decision)
     \/ \E r \in Requests : RefundCommit(r) \/ \E f \in Refunds : RefundApprove(r, f)
     \/ \E r \in Requests : SyncBegin(r) \/ \E j \in Jobs : SyncCommit(r, j)

Spec == Init /\ [][Next]_vars
-----------------------------------------------------------------------------
Within(a, b, slack) == a <= b + slack /\ b <= a + slack
\* A line's price is off by less than half a unit for each piece, its other columns once.
LineSlack == (MaxQuantity + 2) \div 2
AddsUp(row) ==
  LET total == row.total + row.discount
      parts == row.subtotal + row.tax + row.shipping
  IN  Within(total, parts, 2) \/ Within(total, parts, Cardinality(Items) * LineSlack)

(***************************************************************************)
(* The total of the order is the sum of its parts up to the rounding of    *)
(* one write, although three handlers write it from different reads:       *)
(* create and PATCH from the amounts they hold (two units), the recompute  *)
(* from the lines' own totals (their slacks) plus whatever shipping the    *)
(* row has when it is finally locked.  Errors do not add up over any       *)
(* sequence of PATCHes and line writes that read each other's results.     *)
(***************************************************************************)
AmountsAddUp == AddsUp(order)

(***************************************************************************)
(* "order_not_confirmed": no job carries a snapshot of an order that was   *)
(* not confirmed, even if the order is cancelled or patched meanwhile, and *)
(* the amounts of the snapshot are of one moment: they add up as well.     *)
(***************************************************************************)
JobsOfConfirmedOrders ==
  \A j \in Jobs : job[j] # None => job[j].order.status \in Syncable /\ AddsUp(job[j].order)

(***************************************************************************)
(* Without overlap, writing a line leaves the order's totals equal to the  *)
(* sums of its lines, whatever PATCH had put there before.  Two writes     *)
(* that overlap each miss the other's line, and the order keeps the wrong  *)
(* totals until the next item write.                                       *)
(***************************************************************************)
TotalsFollowItems == [][~overlap /\ item' # item => order' = Recomputed(order', item')]_vars

(***************************************************************************)
(* Without overlap, the payment status an approval leaves says whether the *)
(* approved refunds cover the total.  Two approvals that overlap can both  *)
(* say "partially" of a refund that is full.                               *)
(***************************************************************************)
PaymentFollowsRefunds ==
  [][~overlap /\ Approved' # Approved /\ Approved \subseteq Approved' =>
       order'.payment = (IF RefundSum(Approved)' >= order'.total
                         THEN "refunded" ELSE "partially_refunded")]_vars

(***************************************************************************)
(* "order_transition_blocked": without overlap a cancelled order leaves    *)
(* that status only by PATCH.  A confirm that read the order before the    *)
(* cancellation overwrites it.                                             *)
(***************************************************************************)
CancelledUntilPatched ==
  [][~overlap /\ order.status = "cancelled" /\ order'.status # "cancelled"
       => \E r \in Requests : tx[r].step = "patch" /\ tx'[r] = Idle]_vars
=============================================================================
