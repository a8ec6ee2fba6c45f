----------------------- MODULE SellerOnboardingProofs -----------------------
(***************************************************************************)
(* Theorems about SellerOnboarding for every set of applications,          *)
(* documents, sellers and requests.                                        *)
(***************************************************************************)
EXTENDS SellerOnboarding, TLAPS

\* Every step of Next, named once: a lemma about Next has one case per action.
Steps ==
  \/ \E a \in Applications, content \in Contents : ApplicationCreate(a, content)
  \/ \E r \in Requests, a \in Applications :
       ApplicationUpdate(r, a) \/ ApplicationSubmit(r, a) \/ ApplicationReject(r, a)
         \/ ApplicationApprove(r, a) \/ DocumentAdd(r, a)
  \/ \E r \in Requests :
       (\E content \in Contents : UpdateCommit(r, content)) \/ SubmitCommit(r) \/ RejectCommit(r)
  \/ \E r \in Requests, content \in Contents :
       ReviseCommit(r, content) \/ \E d \in Documents : AddCommit(r, d, content)
  \/ \E r \in Requests : DocumentsChecked(r)
  \/ \E r \in Requests : SellerCommit(r)
  \/ \E r \in Requests :
       \/ \E d \in Documents : DocumentUpdate(r, d)
       \/ \E s \in Sellers : SellerSuspend(r, s) \/ SellerReactivate(r, s)
  \/ \E d \in Documents, decision \in {"approved", "rejected"} : DocumentReview(d, decision)
  \/ \E r \in Requests, s \in Sellers : ApproveCommit(r, s)
  \/ \E r \in Requests : Abort(r)

\* Next is the disjunction of the steps, whatever its grouping.
LEMMA NextIsSteps == Next => Steps
BY DEF Next, Steps

-----------------------------------------------------------------------------
(***************************************************************************)
(* The inductive invariant when requests overlap.  What a request has read *)
(* may be stale, but rows are never deleted and some facts are never       *)
(* undone: an application stays submitted and keeps its documents, and a   *)
(* seller stays the seller of its application.                             *)
(***************************************************************************)
OnApplication == {"edit", "submit", "approve", "approving", "reject", "add"}

Reads == \A r \in Requests :
  /\ tx[r].step \in OnApplication =>
       /\ application[tx[r].application] # None
       /\ tx[r].seen.seller # None =>
            /\ seller[tx[r].seen.seller] # None
            /\ seller[tx[r].seen.seller].application = tx[r].application
  /\ tx[r].step \in {"approve", "approving"} => application[tx[r].application].submitted
  /\ tx[r].step = "approving" => DocumentsOf(tx[r].application) # {}
  /\ tx[r].step = "revise" => document[tx[r].document] # None
  /\ tx[r].step \in {"suspend", "reactivate"} => seller[tx[r].seller] # None

Submitted == \A a \in Applications :
  application[a] # None /\ application[a].status \in Undecided \cup {"approved"}
    => application[a].submitted

SellersHaveSource == \A s \in Sellers :
  seller[s] # None => application[seller[s].application] # None

IInv ==
  /\ TypeOK /\ Reads /\ Submitted /\ SellersHaveSource
  /\ ApprovedHasSeller /\ SellersWereSubmitted

(***************************************************************************)
(* The inductive invariant without overlap: one request at a time, and     *)
(* what it has read is still so.                                           *)
(***************************************************************************)
Allowed(step) ==
  IF step \in {"edit", "submit"} THEN {"draft"}
  ELSE IF step \in {"approve", "approving"} THEN Undecided
  ELSE IF step = "reject" THEN Editable \cup {"rejected"} ELSE Editable

Alone == \A q, r \in Requests : tx[q] # Idle /\ tx[r] # Idle => q = r
Fresh == \A r \in Requests :
  /\ tx[r].step \in OnApplication =>
       /\ tx[r].seen = application[tx[r].application]
       /\ tx[r].seen.status \in Allowed(tx[r].step)
  /\ tx[r].step = "approving" => KycComplete(tx[r].application)
  /\ tx[r].step = "revise" => document[tx[r].document].status # "approved"

SerialInv == ~overlap => Alone /\ Fresh /\ OneSellerEach

\* What a request under way has read.
LEMMA Reading ==
  ASSUME TypeOK, NEW r \in Requests
  PROVE  /\ tx[r].step \in OnApplication =>
              tx[r] \in [step : OnApplication, application : Applications, seen : ApplicationRow]
         /\ tx[r].step = "revise" => tx[r].document \in Documents
         /\ tx[r].step \in {"suspend", "reactivate"} => tx[r].seller \in Sellers
         /\ tx[r].step = "idle" <=> tx[r] = Idle
BY DEF TypeOK, Work, Idle, OnApplication

\* The SELECT of a handler leaves the rows alone and records what it saw.
LEMMA ApplicationRead ==
  ASSUME TypeOK, NEW r \in Requests, NEW a \in Applications,
         NEW step \in OnApplication, NEW allowed, ReadsApplication(r, a, step, allowed)
  PROVE  /\ UNCHANGED <<rows, overlap>> /\ Quiet /\ tx[r] = Idle
         /\ application[a] \in ApplicationRow /\ application[a].status \in allowed
         /\ tx' = [tx EXCEPT ![r] = [step |-> step, application |-> a, seen |-> application[a]]]
         /\ tx' \in [Requests -> Work]
         /\ \A q \in Requests : tx'[q] = IF q = r
              THEN [step |-> step, application |-> a, seen |-> application[a]] ELSE tx[q]
BY DEF ReadsApplication, Begins, TypeOK, Work, OnApplication

\* A commit or an abort ends the request and no other.
LEMMA RequestEnds ==
  ASSUME TypeOK, NEW r \in Requests, Commits(r)
  PROVE  /\ tx' \in [Requests -> Work] /\ overlap' = overlap
         /\ \A q \in Requests : tx'[q] = IF q = r THEN Idle ELSE tx[q]
BY DEF Commits, TypeOK, Work

\* What a commit writes: one row, of the application, document or seller the request is on.
LEMMA WrittenRows ==
  ASSUME TypeOK, Reads, NEW r \in Requests
  PROVE
  /\ \A content \in Contents : UpdateCommit(r, content) =>
       LET a == tx[r].application IN
       /\ a \in Applications /\ application[a] \in ApplicationRow
       /\ application' = [application EXCEPT ![a] = [application[a] EXCEPT !.content = content]]
  /\ SubmitCommit(r) =>
       LET a == tx[r].application IN
       /\ a \in Applications /\ application[a] \in ApplicationRow
       /\ application' = [application EXCEPT ![a] =
            [application[a] EXCEPT !.status = "submitted", !.submitted = TRUE]]
  /\ RejectCommit(r) =>
       LET a == tx[r].application IN
       /\ a \in Applications /\ application[a] \in ApplicationRow
       /\ application' = [application EXCEPT ![a] = [application[a] EXCEPT !.status = "rejected"]]
  /\ \A s \in Sellers : ApproveCommit(r, s) =>
       LET a == tx[r].application IN
       /\ a \in Applications /\ application[a] \in ApplicationRow /\ tx[r].seen \in ApplicationRow
       /\ application' = [application EXCEPT ![a] =
            [application[a] EXCEPT !.status = "approved", !.seller = s]]
  /\ \A content \in Contents : ReviseCommit(r, content) =>
       LET d == tx[r].document IN
       /\ d \in Documents /\ document[d] \in DocumentRow
       /\ document' = [document EXCEPT ![d] =
            [document[d] EXCEPT !.content = content,
                                !.status = IF @ = "rejected" THEN "needs_update" ELSE @]]
  /\ SellerCommit(r) =>
       LET s == tx[r].seller IN
       /\ s \in Sellers /\ seller[s] \in SellerRow
       /\ seller' = [seller EXCEPT ![s] = [seller[s] EXCEPT !.status =
                       IF tx[r].step = "suspend" THEN "suspended" ELSE "approved"]]
<1> USE RowAssumption
<1> DEFINE a == tx[r].application
<1>1. tx[r].step \in OnApplication =>
        /\ a \in Applications /\ application[a] \in ApplicationRow /\ tx[r].seen \in ApplicationRow
  BY Reading DEF Reads, TypeOK
<1>2. ASSUME NEW content \in Contents, UpdateCommit(r, content)
      PROVE  /\ a \in Applications /\ application[a] \in ApplicationRow
             /\ application' = [application EXCEPT ![a] = [application[a] EXCEPT !.content = content]]
  BY <1>1, <1>2 DEF UpdateCommit, OnApplication
<1>3. ASSUME SubmitCommit(r)
      PROVE  /\ a \in Applications /\ application[a] \in ApplicationRow
             /\ application' = [application EXCEPT ![a] =
                  [application[a] EXCEPT !.status = "submitted", !.submitted = TRUE]]
  BY <1>1, <1>3 DEF SubmitCommit, OnApplication, TypeOK
<1>4. ASSUME RejectCommit(r)
      PROVE  /\ a \in Applications /\ application[a] \in ApplicationRow
             /\ application' = [application EXCEPT ![a] = [application[a] EXCEPT !.status = "rejected"]]
  BY <1>1, <1>4 DEF RejectCommit, OnApplication
<1>5. ASSUME NEW s \in Sellers, ApproveCommit(r, s)
      PROVE  /\ a \in Applications /\ application[a] \in ApplicationRow /\ tx[r].seen \in ApplicationRow
             /\ application' = [application EXCEPT ![a] =
                  [application[a] EXCEPT !.status = "approved", !.seller = s]]
  BY <1>1, <1>5 DEF ApproveCommit, OnApplication, TypeOK
<1>6. ASSUME NEW content \in Contents, ReviseCommit(r, content)
      PROVE  LET d == tx[r].document IN
             /\ d \in Documents /\ document[d] \in DocumentRow
             /\ document' = [document EXCEPT ![d] =
                  [document[d] EXCEPT !.content = content,
                                      !.status = IF @ = "rejected" THEN "needs_update" ELSE @]]
  <2>1. tx[r].document \in Documents /\ document[tx[r].document] \in DocumentRow
    BY <1>6, Reading DEF ReviseCommit, Reads, TypeOK
  <2> QED BY <1>6, <2>1 DEF ReviseCommit, TypeOK
<1>7. ASSUME SellerCommit(r)
      PROVE  LET s == tx[r].seller IN
             /\ s \in Sellers /\ seller[s] \in SellerRow
             /\ seller' = [seller EXCEPT ![s] = [seller[s] EXCEPT !.status =
                             IF tx[r].step = "suspend" THEN "suspended" ELSE "approved"]]
  <2>1. tx[r].seller \in Sellers /\ seller[tx[r].seller] \in SellerRow
    BY <1>7, Reading DEF SellerCommit, Reads, TypeOK
  <2> QED BY <1>7, <2>1 DEF SellerCommit
<1> QED BY <1>2, <1>3, <1>4, <1>5, <1>6, <1>7

\* Every handler step writes well-typed rows, given that the rows it has read exist.
LEMMA TypeStep == TypeOK /\ Reads /\ [Next]_vars => TypeOK'
<1> SUFFICES ASSUME TypeOK, Reads, [Next]_vars PROVE TypeOK'
  OBVIOUS
<1> USE RowAssumption
<1>t. /\ application \in [Applications -> ApplicationRow \cup {None}]
      /\ document \in [Documents -> DocumentRow \cup {None}]
      /\ seller \in [Sellers -> SellerRow \cup {None}]
      /\ tx \in [Requests -> Work] /\ overlap \in BOOLEAN
  BY DEF TypeOK
<1>1. ASSUME NEW a \in Applications, NEW content \in Contents, ApplicationCreate(a, content)
      PROVE TypeOK'
  BY <1>1, <1>t DEF ApplicationCreate, TypeOK, ApplicationRow, Editable
<1>2. ASSUME NEW r \in Requests, NEW a \in Applications,
             ApplicationUpdate(r, a) \/ ApplicationSubmit(r, a) \/ ApplicationReject(r, a)
               \/ ApplicationApprove(r, a) \/ DocumentAdd(r, a)
      PROVE TypeOK'
  <2>1. UNCHANGED <<rows, overlap>> /\ tx' \in [Requests -> Work]
    BY <1>2, ApplicationRead DEF ApplicationUpdate, ApplicationSubmit, ApplicationReject,
       ApplicationApprove, DocumentAdd, OnApplication
  <2> QED BY <2>1, <1>t DEF TypeOK, rows
<1>3. ASSUME NEW r \in Requests, NEW content \in Contents, UpdateCommit(r, content)
      PROVE TypeOK'
  <2> DEFINE i == tx[r].application
             row == [application[i] EXCEPT !.content = content]
  <2>a. i \in Applications /\ application[i] \in ApplicationRow /\ application' = [application EXCEPT ![i] = row]
    BY <1>3, WrittenRows
  <2>b. row \in ApplicationRow
    BY <2>a DEF ApplicationRow
  <2> HIDE DEF row
  <2>1. application' \in [Applications -> ApplicationRow \cup {None}]
    BY <2>a, <2>b, <1>t
  <2> QED BY <1>3, <2>1, <1>t, RequestEnds DEF UpdateCommit, TypeOK
<1>4. ASSUME NEW r \in Requests, NEW content \in Contents, ReviseCommit(r, content)
      PROVE TypeOK'
  <2> DEFINE i == tx[r].document
             row == [document[i] EXCEPT !.content = content,
                                         !.status = IF @ = "rejected" THEN "needs_update" ELSE @]
  <2>a. i \in Documents /\ document[i] \in DocumentRow /\ document' = [document EXCEPT ![i] = row]
    BY <1>4, WrittenRows
  <2>b. row \in DocumentRow
    BY <2>a DEF DocumentRow
  <2> HIDE DEF row
  <2>1. document' \in [Documents -> DocumentRow \cup {None}]
    BY <2>a, <2>b, <1>t
  <2> QED BY <1>4, <2>1, <1>t, RequestEnds DEF ReviseCommit, TypeOK
<1>5. ASSUME NEW r \in Requests, NEW d \in Documents, NEW content \in Contents,
             AddCommit(r, d, content)
      PROVE TypeOK'
  <2>1. tx[r].application \in Applications /\ tx[r].seen \in ApplicationRow
    BY <1>5, Reading DEF AddCommit, OnApplication
  <2>2. [status |-> "pending", content |-> content, application |-> tx[r].application,
         seller |-> tx[r].seen.seller] \in DocumentRow
    BY <2>1 DEF DocumentRow, ApplicationRow
  <2> QED BY <1>5, <2>2, <1>t, RequestEnds DEF AddCommit, TypeOK
<1>6. ASSUME NEW r \in Requests, SubmitCommit(r) PROVE TypeOK'
  <2> DEFINE i == tx[r].application
             row == [application[i] EXCEPT !.status = "submitted", !.submitted = TRUE]
  <2>a. i \in Applications /\ application[i] \in ApplicationRow /\ application' = [application EXCEPT ![i] = row]
    BY <1>6, WrittenRows
  <2>b. row \in ApplicationRow
    BY <2>a DEF ApplicationRow, Undecided, Editable
  <2> HIDE DEF row
  <2>1. application' \in [Applications -> ApplicationRow \cup {None}]
    BY <2>a, <2>b, <1>t
  <2> QED BY <1>6, <2>1, <1>t, RequestEnds DEF SubmitCommit, TypeOK
<1>7. ASSUME NEW r \in Requests, RejectCommit(r) PROVE TypeOK'
  <2> DEFINE i == tx[r].application
             row == [application[i] EXCEPT !.status = "rejected"]
  <2>a. i \in Applications /\ application[i] \in ApplicationRow /\ application' = [application EXCEPT ![i] = row]
    BY <1>7, WrittenRows
  <2>b. row \in ApplicationRow
    BY <2>a DEF ApplicationRow
  <2> HIDE DEF row
  <2>1. application' \in [Applications -> ApplicationRow \cup {None}]
    BY <2>a, <2>b, <1>t
  <2> QED BY <1>7, <2>1, <1>t, RequestEnds DEF RejectCommit, TypeOK
<1>8. ASSUME NEW r \in Requests, DocumentsChecked(r) PROVE TypeOK'
  <2>1. [tx[r] EXCEPT !.step = "approving"] \in Work
    BY <1>8, Reading DEF DocumentsChecked, Work, OnApplication
  <2> QED BY <1>8, <2>1, <1>t DEF DocumentsChecked, TypeOK, rows
<1>9. ASSUME NEW r \in Requests, SellerCommit(r) PROVE TypeOK'
  <2> DEFINE i == tx[r].seller
             row == [seller[i] EXCEPT !.status =
                       IF tx[r].step = "suspend" THEN "suspended" ELSE "approved"]
  <2>a. i \in Sellers /\ seller[i] \in SellerRow /\ seller' = [seller EXCEPT ![i] = row]
    BY <1>9, WrittenRows
  <2>b. row \in SellerRow
    BY <2>a DEF SellerRow
  <2> HIDE DEF row
  <2>1. seller' \in [Sellers -> SellerRow \cup {None}]
    BY <2>a, <2>b, <1>t
  <2> QED BY <1>9, <2>1, <1>t, RequestEnds DEF SellerCommit, TypeOK
<1>10. ASSUME NEW r \in Requests, NEW d \in Documents, DocumentUpdate(r, d) PROVE TypeOK'
  BY <1>10, <1>t DEF DocumentUpdate, Begins, Work, TypeOK, rows
<1>11. ASSUME NEW d \in Documents, NEW decision \in {"approved", "rejected"},
              DocumentReview(d, decision)
       PROVE TypeOK'
  <2>1. document' \in [Documents -> DocumentRow \cup {None}]
    BY <1>11, <1>t DEF DocumentReview, DocumentRow
  <2> QED BY <1>11, <2>1, <1>t DEF DocumentReview, TypeOK
<1>12. ASSUME NEW r \in Requests, NEW s \in Sellers, ApproveCommit(r, s) PROVE TypeOK'
  <2> DEFINE a == tx[r].application
  <2>1. a \in Applications /\ application[a] \in ApplicationRow /\ tx[r].seen \in ApplicationRow
    BY <1>12, WrittenRows
  <2>a. [application[a] EXCEPT !.status = "approved", !.seller = s] \in ApplicationRow
    BY <2>1 DEF ApplicationRow
  <2>2. application' \in [Applications -> ApplicationRow \cup {None}]
    <3> DEFINE row == [application[a] EXCEPT !.status = "approved", !.seller = s]
    <3>1. application' = [application EXCEPT ![a] = row]
      BY <1>12, WrittenRows
    <3> HIDE DEF row
    <3> QED BY <3>1, <2>1, <2>a, <1>t DEF row
  <2>3. [status |-> "approved", content |-> tx[r].seen.content, application |-> a] \in SellerRow
    BY <2>1 DEF SellerRow, ApplicationRow
  <2>4. \A d \in Documents : d \in DocumentsOf(a) => [document[d] EXCEPT !.seller = s] \in DocumentRow
    BY <1>t DEF DocumentsOf, DocumentRow
  <2> QED BY <1>12, <2>2, <2>3, <2>4, <1>t, RequestEnds DEF ApproveCommit, TypeOK
<1>13. ASSUME NEW r \in Requests, NEW s \in Sellers, SellerSuspend(r, s) \/ SellerReactivate(r, s)
       PROVE TypeOK'
  BY <1>13, <1>t DEF SellerSuspend, SellerReactivate, ReadsSeller, Begins, Work, TypeOK, rows
<1>14. ASSUME NEW r \in Requests, Abort(r) PROVE TypeOK'
  BY <1>14, <1>t, RequestEnds DEF Abort, TypeOK, rows
<1>15. CASE UNCHANGED vars
  BY <1>15, <1>t DEF vars, rows, TypeOK
<1> QED BY <1>1, <1>2, <1>3, <1>4, <1>5, <1>6, <1>7, <1>8, <1>9, <1>10, <1>11, <1>12, <1>13,
           <1>14, <1>15, NextIsSteps DEF Steps

\* Rows that stay, and what stays true of them: whether an application was submitted, and
\* the application that documents and sellers belong to.
Kept ==
  /\ \A a \in Applications : application[a] # None =>
       application'[a] # None /\ (application[a].submitted => application'[a].submitted)
  /\ \A s \in Sellers : seller[s] # None =>
       seller'[s] # None /\ seller'[s].application = seller[s].application
  /\ \A d \in Documents : document[d] # None =>
       document'[d] # None /\ document'[d].application = document[d].application

\* No step deletes a row or undoes a submission.
LEMMA RowsStay == IInv /\ [Next]_vars => Kept
<1> SUFFICES ASSUME IInv, [Next]_vars PROVE Kept
  OBVIOUS
<1> USE RowAssumption
<1>t. TypeOK /\ TypeOK' /\ Reads
  BY TypeStep DEF IInv
<1>i. /\ application \in [Applications -> ApplicationRow \cup {None}]
      /\ document \in [Documents -> DocumentRow \cup {None}]
      /\ seller \in [Sellers -> SellerRow \cup {None}]
  BY <1>t DEF TypeOK
<1>1. ASSUME NEW a \in Applications, NEW content \in Contents, ApplicationCreate(a, content)
      PROVE Kept
  BY <1>1, <1>i DEF ApplicationCreate, Kept
<1>2. ASSUME UNCHANGED rows PROVE Kept
  BY <1>2 DEF rows, Kept
<1>3. ASSUME NEW r \in Requests,
             (\E content \in Contents : UpdateCommit(r, content)) \/ SubmitCommit(r) \/ RejectCommit(r)
      PROVE Kept
  <2>1. UNCHANGED <<document, seller>>
    BY <1>3 DEF UpdateCommit, SubmitCommit, RejectCommit
  <2> DEFINE a == tx[r].application
  <2> DEFINE Stays == /\ a \in Applications
                      /\ \A b \in Applications : b # a => application'[b] = application[b]
                      /\ application'[a] # None
                      /\ application[a].submitted => application'[a].submitted
  <2>2. ASSUME NEW content \in Contents, UpdateCommit(r, content) PROVE Stays
    <3>1. /\ a \in Applications /\ application[a] \in ApplicationRow
          /\ application' = [application EXCEPT ![a] = [application[a] EXCEPT !.content = content]]
      BY <2>2, <1>t, WrittenRows
    <3> QED BY <3>1, <1>i DEF ApplicationRow
  <2>3. ASSUME SubmitCommit(r) PROVE Stays
    <3>1. /\ a \in Applications /\ application[a] \in ApplicationRow
          /\ application' = [application EXCEPT ![a] =
               [application[a] EXCEPT !.status = "submitted", !.submitted = TRUE]]
      BY <2>3, <1>t, WrittenRows
    <3> QED BY <3>1, <1>i DEF ApplicationRow, Editable, Undecided
  <2>4. ASSUME RejectCommit(r) PROVE Stays
    <3>1. /\ a \in Applications /\ application[a] \in ApplicationRow
          /\ application' = [application EXCEPT ![a] = [application[a] EXCEPT !.status = "rejected"]]
      BY <2>4, <1>t, WrittenRows
    <3> QED BY <3>1, <1>i DEF ApplicationRow
  <2>5. Stays
    BY <1>3, <2>2, <2>3, <2>4
  <2> QED BY <2>1, <2>5 DEF Kept
<1>4. ASSUME NEW r \in Requests, NEW content \in Contents, ReviseCommit(r, content)
      PROVE Kept
  <2> DEFINE d == tx[r].document
  <2>1. UNCHANGED <<application, seller>>
    BY <1>4 DEF ReviseCommit
  <2>2. /\ d \in Documents /\ document[d] \in DocumentRow
        /\ document' = [document EXCEPT ![d] =
             [document[d] EXCEPT !.content = content,
                                 !.status = IF @ = "rejected" THEN "needs_update" ELSE @]]
    BY <1>4, <1>t, WrittenRows
  <2>3. \A b \in Documents : b # d => document'[b] = document[b]
    BY <2>2, <1>i
  <2>4. document'[d] # None /\ document'[d].application = document[d].application
    BY <2>2, <1>i DEF DocumentRow
  <2> QED BY <2>1, <2>3, <2>4 DEF Kept
<1>5. ASSUME NEW r \in Requests, NEW d \in Documents, NEW content \in Contents,
             AddCommit(r, d, content)
      PROVE Kept
  BY <1>5, <1>i DEF AddCommit, Kept
<1>6. ASSUME NEW r \in Requests, SellerCommit(r) PROVE Kept
  <2> DEFINE s == tx[r].seller
  <2>1. UNCHANGED <<application, document>>
    BY <1>6 DEF SellerCommit
  <2>2. /\ s \in Sellers /\ seller[s] \in SellerRow
        /\ seller' = [seller EXCEPT ![s] = [seller[s] EXCEPT !.status =
                        IF tx[r].step = "suspend" THEN "suspended" ELSE "approved"]]
    BY <1>6, <1>t, WrittenRows
  <2>3. \A u \in Sellers : u # s => seller'[u] = seller[u]
    BY <2>2, <1>i
  <2>4. seller'[s] # None /\ seller'[s].application = seller[s].application
    BY <2>2, <1>i DEF SellerRow
  <2> QED BY <2>1, <2>3, <2>4 DEF Kept
<1>7. ASSUME NEW d \in Documents, NEW decision \in {"approved", "rejected"},
             DocumentReview(d, decision)
      PROVE Kept
  <2>1. document[d] \in DocumentRow /\ UNCHANGED <<application, seller>>
    BY <1>7, <1>i DEF DocumentReview
  <2>2. \A b \in Documents : b # d => document'[b] = document[b]
    BY <1>7, <1>i DEF DocumentReview
  <2>3. document'[d] # None /\ document'[d].application = document[d].application
    BY <1>7, <2>1, <1>i DEF DocumentReview, DocumentRow
  <2> QED BY <2>1, <2>2, <2>3 DEF Kept
<1>8. ASSUME NEW r \in Requests, NEW s \in Sellers, ApproveCommit(r, s) PROVE Kept
  <2> DEFINE a == tx[r].application
  <2>1. /\ a \in Applications /\ application[a] \in ApplicationRow
        /\ application' = [application EXCEPT ![a] =
             [application[a] EXCEPT !.status = "approved", !.seller = s]]
    BY <1>8, <1>t, WrittenRows
  <2>2. \A b \in Applications : b # a => application'[b] = application[b]
    BY <2>1, <1>i
  <2>3. application'[a] # None /\ application'[a].submitted = application[a].submitted
    BY <2>1, <1>i DEF ApplicationRow
  <2>4. \A u \in Sellers : u # s => seller'[u] = seller[u]
    BY <1>8, <1>i DEF ApproveCommit
  <2>5. seller'[s].application = a /\ seller'[s] # None
    <3>1. seller'[s] = [status |-> "approved", content |-> tx[r].seen.content, application |-> a]
      BY <1>8, <1>i DEF ApproveCommit
    <3>2. tx[r].seen.content \in Contents
      BY <1>8, <1>t, WrittenRows DEF ApplicationRow
    <3>3. seller'[s] \in SellerRow
      BY <2>1, <3>1, <3>2 DEF SellerRow
    <3> QED BY <3>1, <3>3
  <2>6. seller[s] # None => seller[s].application = a
    BY <1>8, <1>t DEF ApproveCommit, Reads, OnApplication
  <2>7. \A d \in Documents : document[d] # None =>
          document'[d] # None /\ document'[d].application = document[d].application
    <3>1. \A d \in Documents : document'[d] =
            IF d \in DocumentsOf(a) THEN [document[d] EXCEPT !.seller = s] ELSE document[d]
      BY <1>8 DEF ApproveCommit
    <3>2. \A d \in DocumentsOf(a) : LET row == [document[d] EXCEPT !.seller = s] IN
            row \in DocumentRow /\ row.application = document[d].application
      BY <1>i DEF DocumentRow, DocumentsOf
    <3> QED BY <3>1, <3>2 DEF DocumentsOf
  <2> QED BY <2>2, <2>3, <2>4, <2>5, <2>6, <2>7 DEF Kept
<1>9. CASE UNCHANGED vars
  BY <1>2, <1>9 DEF vars
<1>10. ASSUME NEW r \in Requests,
              \/ \E a \in Applications :
                   ApplicationUpdate(r, a) \/ ApplicationSubmit(r, a) \/ ApplicationReject(r, a)
                     \/ ApplicationApprove(r, a) \/ DocumentAdd(r, a)
              \/ DocumentsChecked(r) \/ Abort(r)
              \/ \E d \in Documents : DocumentUpdate(r, d)
              \/ \E s \in Sellers : SellerSuspend(r, s) \/ SellerReactivate(r, s)
       PROVE Kept
  <2>1. UNCHANGED rows
    BY <1>10 DEF ApplicationUpdate, ApplicationSubmit, ApplicationReject, ApplicationApprove,
       DocumentAdd, ReadsApplication, DocumentsChecked, Abort, DocumentUpdate, SellerSuspend,
       SellerReactivate, ReadsSeller, Begins
  <2> QED BY <2>1, <1>2
<1> QED BY <1>1, <1>3, <1>4, <1>5, <1>6, <1>7, <1>8, <1>9, <1>10, NextIsSteps DEF Steps

\* What follows from rows that stay: requests that go on or end, no new seller, no changed
\* application.
LEMMA Carried ==
  ASSUME IInv, TypeOK', Kept
  PROVE  /\ \A a \in Applications : DocumentsOf(a) \subseteq DocumentsOf(a)'
         /\ (\A q \in Requests : tx'[q] = tx[q] \/ tx'[q] = Idle) => Reads'
         /\ (\A s \in Sellers : seller'[s] # None => seller[s] # None)
              => SellersHaveSource' /\ SellersWereSubmitted'
         /\ (\A a \in Applications : application'[a] # None =>
               /\ application[a] # None
               /\ application'[a].seller = application[a].seller
               /\ application'[a].status \in Undecided \cup {"approved"} =>
                    \/ application'[a].status = application[a].status
                    \/ application'[a].status # "approved" /\ application'[a].submitted)
              => Submitted' /\ ApprovedHasSeller'
<1>t. TypeOK /\ Reads /\ SellersHaveSource /\ SellersWereSubmitted /\ Submitted /\ ApprovedHasSeller
  BY DEF IInv
<1>1. \A a \in Applications : DocumentsOf(a) \subseteq DocumentsOf(a)'
  BY DEF Kept, DocumentsOf
<1>2. ASSUME \A q \in Requests : tx'[q] = tx[q] \/ tx'[q] = Idle
      PROVE  Reads'
  <2> SUFFICES ASSUME NEW r \in Requests, tx'[r] # Idle, tx'[r] = tx[r]
      PROVE  /\ tx[r].step \in OnApplication =>
                  /\ application'[tx[r].application] # None
                  /\ tx[r].seen.seller # None =>
                       /\ seller'[tx[r].seen.seller] # None
                       /\ seller'[tx[r].seen.seller].application = tx[r].application
             /\ tx[r].step \in {"approve", "approving"} => application'[tx[r].application].submitted
             /\ tx[r].step = "approving" => DocumentsOf(tx[r].application)' # {}
             /\ tx[r].step = "revise" => document'[tx[r].document] # None
             /\ tx[r].step \in {"suspend", "reactivate"} => seller'[tx[r].seller] # None
    BY <1>2 DEF Reads, Idle, OnApplication
  <2>1. tx[r].step \in OnApplication =>
          tx[r].application \in Applications /\ tx[r].seen.seller \in Sellers \cup {None}
    BY Reading, <1>t DEF ApplicationRow
  <2>2. CASE tx[r].step \in OnApplication
    BY <2>1, <2>2, <1>1, <1>t DEF Reads, Kept, OnApplication
  <2>3. CASE tx[r].step \notin OnApplication
    BY <2>3, Reading, <1>t DEF Reads, Kept, OnApplication
  <2> QED BY <2>2, <2>3
<1>3. ASSUME \A s \in Sellers : seller'[s] # None => seller[s] # None
      PROVE  SellersHaveSource' /\ SellersWereSubmitted'
  <2> SUFFICES ASSUME NEW s \in Sellers, seller'[s] # None,
                      NEW a, a = seller'[s].application
      PROVE  /\ application'[a] # None
             /\ application'[a].submitted
             /\ DocumentsOf(a)' # {}
    BY DEF SellersHaveSource, SellersWereSubmitted, DocumentsOf
  <2>1. seller[s] # None /\ seller[s].application = a
    BY <1>3 DEF Kept
  <2>2. a \in Applications
    BY <2>1, <1>t, RowAssumption DEF TypeOK, SellerRow
  <2>3. application[a] # None /\ application[a].submitted /\ DocumentsOf(a) # {}
    BY <2>1, <1>t DEF SellersHaveSource, SellersWereSubmitted
  <2> QED BY <2>2, <2>3, <1>1 DEF Kept
<1>4. ASSUME \A a \in Applications : application'[a] # None =>
               /\ application[a] # None
               /\ application'[a].seller = application[a].seller
               /\ application'[a].status \in Undecided \cup {"approved"} =>
                    \/ application'[a].status = application[a].status
                    \/ application'[a].status # "approved" /\ application'[a].submitted
      PROVE  Submitted' /\ ApprovedHasSeller'
  <2>1. Submitted'
    BY <1>4, <1>t DEF Submitted, Kept
  <2>2. ASSUME NEW a \in Applications, application'[a] # None
        PROVE  /\ application'[a].status = "approved" => application'[a].seller # None
               /\ application'[a].seller # None =>
                    /\ seller'[application'[a].seller] # None
                    /\ seller'[application'[a].seller].application = a
    <3>1. /\ application[a] # None /\ application'[a].seller = application[a].seller
          /\ application'[a].status = "approved" => application[a].status = "approved"
      BY <1>4, <2>2
    <3>2. application[a].seller \in Sellers \cup {None}
      BY <3>1, <1>t DEF TypeOK, ApplicationRow
    <3> QED BY <3>1, <3>2, <1>t DEF ApprovedHasSeller, Kept
  <2> QED BY <2>1, <2>2 DEF ApprovedHasSeller
<1> QED BY <1>1, <1>2, <1>3, <1>4

\* Every step preserves the invariant.
LEMMA StepIInv == IInv /\ [Next]_vars => IInv'
<1> SUFFICES ASSUME IInv, [Next]_vars
    PROVE  /\ Reads' /\ Submitted' /\ SellersHaveSource'
           /\ ApprovedHasSeller' /\ SellersWereSubmitted'
  BY TypeStep DEF IInv
<1> DEFINE Goal == /\ Reads' /\ Submitted' /\ SellersHaveSource'
                   /\ ApprovedHasSeller' /\ SellersWereSubmitted'
<1> USE RowAssumption
<1>t. TypeOK /\ TypeOK' /\ Kept
  BY TypeStep, RowsStay DEF IInv
<1>i. Reads /\ SellersHaveSource /\ SellersWereSubmitted /\ Submitted /\ ApprovedHasSeller
  BY DEF IInv
<1>r. /\ application \in [Applications -> ApplicationRow \cup {None}]
      /\ document \in [Documents -> DocumentRow \cup {None}]
      /\ seller \in [Sellers -> SellerRow \cup {None}]
  BY <1>t DEF TypeOK
<1>u. ASSUME UNCHANGED <<application, seller>>
      PROVE  Submitted' /\ ApprovedHasSeller' /\ SellersHaveSource' /\ SellersWereSubmitted'
  BY <1>u, <1>t, Carried
<1>e. ASSUME NEW r \in Requests, Commits(r) \/ UNCHANGED tx PROVE Reads'
  BY <1>e, <1>t, Carried, RequestEnds
<1>1. ASSUME NEW a \in Applications, NEW content \in Contents, ApplicationCreate(a, content)
      PROVE Goal
  <2>1. /\ application[a] = None /\ UNCHANGED <<document, seller, tx>>
        /\ application'[a].status = "draft" /\ application'[a].seller = None
        /\ \A b \in Applications \ {a} : application'[b] = application[b]
    BY <1>1, <1>r DEF ApplicationCreate
  <2>2. Reads' /\ SellersHaveSource' /\ SellersWereSubmitted'
    BY <2>1, <1>t, Carried
  <2>3. Submitted'
    BY <2>1, <1>i DEF Submitted, Undecided
  <2>4. ApprovedHasSeller'
    BY <2>1, <1>i DEF ApprovedHasSeller
  <2> QED BY <2>2, <2>3, <2>4
<1>2. ASSUME NEW r \in Requests, NEW a \in Applications,
             ApplicationUpdate(r, a) \/ ApplicationSubmit(r, a) \/ ApplicationReject(r, a)
               \/ ApplicationApprove(r, a) \/ DocumentAdd(r, a)
      PROVE Goal
  <2>1. PICK step \in OnApplication \ {"approving"} :
          \E allowed : /\ ReadsApplication(r, a, step, allowed)
                       /\ step = "approve" => allowed = Undecided
    BY <1>2 DEF ApplicationUpdate, ApplicationSubmit, ApplicationReject, ApplicationApprove,
       DocumentAdd, OnApplication
  <2>2. /\ UNCHANGED rows /\ application[a] \in ApplicationRow
        /\ step = "approve" => application[a].status \in Undecided
        /\ \A q \in Requests : tx'[q] = IF q = r
             THEN [step |-> step, application |-> a, seen |-> application[a]] ELSE tx[q]
    BY <2>1, <1>t, ApplicationRead
  <2>3. step = "approve" => application[a].submitted
    BY <2>2, <1>i DEF Submitted
  <2>4. application[a].seller # None =>
          /\ seller[application[a].seller] # None
          /\ seller[application[a].seller].application = a
    BY <2>2, <1>i DEF ApprovedHasSeller
  <2>5. Reads'
    BY <2>1, <2>2, <2>3, <2>4, <1>i DEF Reads, OnApplication, rows, DocumentsOf
  <2> QED BY <2>2, <2>5, <1>u DEF rows
<1>3. ASSUME NEW r \in Requests,
             (\E content \in Contents : UpdateCommit(r, content)) \/ SubmitCommit(r) \/ RejectCommit(r)
      PROVE Goal
  <2> DEFINE a == tx[r].application
  <2> DEFINE Moves ==
        /\ a \in Applications /\ application[a] # None
        /\ \A b \in Applications : b # a => application'[b] = application[b]
        /\ application'[a].seller = application[a].seller
        /\ \/ application'[a].status = application[a].status
           \/ application'[a].status = "submitted" /\ application'[a].submitted
           \/ application'[a].status = "rejected"
  <2>1. Commits(r) /\ UNCHANGED seller
    BY <1>3 DEF UpdateCommit, SubmitCommit, RejectCommit
  <2>2. ASSUME NEW content \in Contents, UpdateCommit(r, content) PROVE Moves
    <3>1. /\ a \in Applications /\ application[a] \in ApplicationRow
          /\ application' = [application EXCEPT ![a] = [application[a] EXCEPT !.content = content]]
      BY <2>2, <1>i, <1>t, WrittenRows
    <3> QED BY <3>1, <1>r DEF ApplicationRow
  <2>3. ASSUME SubmitCommit(r) PROVE Moves
    <3>1. /\ a \in Applications /\ application[a] \in ApplicationRow
          /\ application' = [application EXCEPT ![a] =
               [application[a] EXCEPT !.status = "submitted", !.submitted = TRUE]]
      BY <2>3, <1>i, <1>t, WrittenRows
    <3> QED BY <3>1, <1>r DEF ApplicationRow, Editable, Undecided
  <2>4. ASSUME RejectCommit(r) PROVE Moves
    <3>1. /\ a \in Applications /\ application[a] \in ApplicationRow
          /\ application' = [application EXCEPT ![a] = [application[a] EXCEPT !.status = "rejected"]]
      BY <2>4, <1>i, <1>t, WrittenRows
    <3> QED BY <3>1, <1>r DEF ApplicationRow
  <2>5. Moves
    BY <1>3, <2>2, <2>3, <2>4
  <2>6. Submitted' /\ ApprovedHasSeller'
    <3>1. \A b \in Applications : application'[b] # None =>
            /\ application[b] # None
            /\ application'[b].seller = application[b].seller
            /\ application'[b].status \in Undecided \cup {"approved"} =>
                 \/ application'[b].status = application[b].status
                 \/ application'[b].status # "approved" /\ application'[b].submitted
      BY <2>5 DEF Undecided
    <3> HIDE DEF Moves
    <3> QED BY <3>1, <1>t, Carried
  <2> QED BY <2>1, <2>6, <1>e, <1>t, Carried
<1>4. ASSUME NEW r \in Requests, NEW content \in Contents,
             ReviseCommit(r, content) \/ \E d \in Documents : AddCommit(r, d, content)
      PROVE Goal
  BY <1>4, <1>u, <1>e DEF ReviseCommit, AddCommit
<1>5. ASSUME NEW r \in Requests, DocumentsChecked(r) PROVE Goal
  <2>1. /\ UNCHANGED rows
        /\ \A q \in Requests : tx'[q] = IF q = r THEN [tx[r] EXCEPT !.step = "approving"] ELSE tx[q]
        /\ tx[r].step = "approve" /\ DocumentsOf(tx[r].application) # {}
    BY <1>5, <1>t DEF DocumentsChecked, KycComplete, TypeOK
  <2>2. tx[r] \in [step : OnApplication, application : Applications, seen : ApplicationRow]
    BY <2>1, <1>t, Reading DEF OnApplication
  <2>3. /\ tx'[r].step = "approving" /\ tx'[r].application = tx[r].application
        /\ tx'[r].seen = tx[r].seen
    BY <2>1, <2>2
  <2>4. Reads'
    BY <2>1, <2>3, <1>i DEF Reads, OnApplication, rows, DocumentsOf
  <2> QED BY <2>1, <2>4, <1>u DEF rows
<1>6. ASSUME NEW r \in Requests, SellerCommit(r) PROVE Goal
  <2>1. Commits(r) /\ UNCHANGED application /\ \A s \in Sellers : seller'[s] # None => seller[s] # None
    <3>1. tx[r].seller \in Sellers /\ seller[tx[r].seller] # None
      BY <1>6, <1>i, <1>t, Reading DEF SellerCommit, Reads
    <3> QED BY <1>6, <3>1, <1>r DEF SellerCommit
  <2> QED BY <2>1, <1>e, <1>t, Carried
<1>7. ASSUME NEW r \in Requests,
             \/ \E d \in Documents : DocumentUpdate(r, d)
             \/ \E s \in Sellers : SellerSuspend(r, s) \/ SellerReactivate(r, s)
      PROVE Goal
  <2>1. UNCHANGED rows
    BY <1>7 DEF DocumentUpdate, SellerSuspend, SellerReactivate, ReadsSeller, Begins
  <2>2. Reads'
    BY <1>7, <1>i, <1>t DEF DocumentUpdate, SellerSuspend, SellerReactivate, ReadsSeller, Begins,
       Reads, OnApplication, rows, DocumentsOf, TypeOK
  <2> QED BY <2>1, <2>2, <1>u DEF rows
<1>8. ASSUME NEW d \in Documents, NEW decision \in {"approved", "rejected"},
             DocumentReview(d, decision)
      PROVE Goal
  <2>1. UNCHANGED <<application, seller, tx>>
    BY <1>8 DEF DocumentReview
  <2> QED BY <2>1, <1>u, <1>t, Carried
<1>9. ASSUME NEW r \in Requests, NEW s \in Sellers, ApproveCommit(r, s) PROVE Goal
  <2> DEFINE a == tx[r].application
  <2>1. /\ a \in Applications /\ application[a] \in ApplicationRow
        /\ application' = [application EXCEPT ![a] =
             [application[a] EXCEPT !.status = "approved", !.seller = s]]
    BY <1>9, <1>i, <1>t, WrittenRows
  <2>2. /\ application'[a] # None /\ application'[a].submitted = application[a].submitted
        /\ application'[a].seller = s
        /\ \A b \in Applications \ {a} : application'[b] = application[b]
    BY <2>1, <1>r DEF ApplicationRow
  <2>3. /\ seller'[s] # None /\ seller'[s].application = a
        /\ \A u \in Sellers \ {s} : seller'[u] = seller[u]
    <3>1. /\ seller'[s] = [status |-> "approved", content |-> tx[r].seen.content, application |-> a]
          /\ \A u \in Sellers \ {s} : seller'[u] = seller[u]
      BY <1>9, <1>r DEF ApproveCommit
    <3>2. tx[r].seen.content \in Contents
      BY <1>9, <1>i, <1>t, WrittenRows DEF ApplicationRow
    <3>3. seller'[s] \in SellerRow
      BY <2>1, <3>1, <3>2 DEF SellerRow
    <3> QED BY <3>1, <3>3
  <2>4. Commits(r) /\ tx[r].step = "approving"
    BY <1>9 DEF ApproveCommit
  <2>5. Reads'
    BY <2>4, <1>e
  <2>6. /\ application[a].submitted
        /\ \E d \in Documents : document'[d] # None /\ document'[d].application = a
    <3>1. application[a].submitted /\ DocumentsOf(a) # {}
      BY <2>4, <1>i DEF Reads
    <3>3. PICK d \in Documents : document[d] # None /\ document[d].application = a
      BY <3>1 DEF DocumentsOf
    <3>4. document'[d] # None /\ document'[d].application = a
      BY <3>3, <1>t DEF Kept
    <3> QED BY <3>1, <3>4
  <2>7. Submitted'
    BY <2>2, <2>6, <1>i DEF Submitted
  <2>8. SellersHaveSource'
    <3>1. \A u \in Sellers : seller[u] # None => seller[u].application \in Applications
      BY <1>r DEF SellerRow
    <3> QED BY <2>2, <2>3, <3>1, <1>i DEF SellersHaveSource
  <2>9. ApprovedHasSeller'
    <3> SUFFICES ASSUME NEW b \in Applications, application'[b] # None
        PROVE  /\ application'[b].status = "approved" => application'[b].seller # None
               /\ application'[b].seller # None =>
                    /\ seller'[application'[b].seller] # None
                    /\ seller'[application'[b].seller].application = b
      BY DEF ApprovedHasSeller
    <3>1. CASE b = a
      BY <3>1, <2>2, <2>3, OnboardingAssumption
    <3>2. CASE b # a
      <4>1. application[b].seller \in Sellers \cup {None} /\ application'[b] = application[b]
        BY <3>2, <2>2, <1>r DEF ApplicationRow
      <4> QED BY <4>1, <1>i, <1>t DEF ApprovedHasSeller, Kept
    <3> QED BY <3>1, <3>2
  <2>10. SellersWereSubmitted'
    <3>1. ASSUME NEW u \in Sellers, seller'[u] # None,
                 NEW b, b = seller'[u].application
          PROVE  application'[b].submitted /\ DocumentsOf(b)' # {}
      <4>1. CASE u = s
        BY <4>1, <3>1, <2>2, <2>3, <2>6 DEF DocumentsOf
      <4>2. CASE u # s
        <5>1. seller[u] # None /\ b = seller[u].application /\ b \in Applications
          BY <4>2, <3>1, <2>3, <1>r DEF SellerRow
        <5>2. application[b] # None /\ application[b].submitted /\ DocumentsOf(b) # {}
          BY <5>1, <1>i DEF SellersHaveSource, SellersWereSubmitted
        <5> QED BY <5>1, <5>2, <1>t, Carried DEF Kept
      <4> QED BY <4>1, <4>2
    <3> QED BY <3>1 DEF SellersWereSubmitted, DocumentsOf
  <2> QED BY <2>5, <2>7, <2>8, <2>9, <2>10
<1>10. ASSUME NEW r \in Requests, Abort(r) PROVE Goal
  BY <1>10, <1>u, <1>e DEF Abort, rows
<1>11. ASSUME UNCHANGED vars PROVE Goal
  <2>1. UNCHANGED <<application, seller, tx>>
    BY <1>11 DEF vars, rows
  <2> QED BY <2>1, <1>u, <1>t, Carried
<1> HIDE DEF Goal
<1>12. Goal
  BY <1>1, <1>2, <1>3, <1>4, <1>5, <1>6, <1>7, <1>8, <1>9, <1>10, <1>11, NextIsSteps DEF Steps
<1> QED BY <1>12 DEF Goal
-----------------------------------------------------------------------------
\* Without overlap a request that ends leaves none under way.
LEMMA NoneUnderWay ==
  ASSUME TypeOK, Alone, NEW r \in Requests, tx[r] # Idle, Commits(r)
  PROVE  /\ \A q \in Requests : tx'[q] = Idle
         /\ Alone' /\ Fresh'
BY RequestEnds DEF Alone, Fresh, Idle, OnApplication

\* Steps that touch no application with a seller keep it with its seller and its documents.
LEMMA SellersApart ==
  ASSUME OneSellerEach, ~overlap, overlap' = overlap,
         \A s \in Sellers : seller'[s] # None =>
           /\ seller[s] # None
           /\ seller'[s].application = seller[s].application
           /\ seller'[s].content = seller[s].content
           /\ application'[seller[s].application] = application[seller[s].application]
           /\ \A d \in Documents :
                document'[d] # None /\ document'[d].application = seller[s].application =>
                  /\ document[d] # None /\ document[d].application = seller[s].application
                  /\ document'[d].seller = document[d].seller
  PROVE  OneSellerEach'
<1> SUFFICES ASSUME NEW s \in Sellers, seller'[s] # None, NEW a, a = seller'[s].application
    PROVE  /\ application'[a].status = "approved" /\ application'[a].seller = s
           /\ application'[a].content = seller'[s].content
           /\ \A d \in Documents : document'[d] # None /\ document'[d].application = a
                => document'[d].seller = s
  BY DEF OneSellerEach, DocumentsOf
<1> QED BY DEF OneSellerEach, DocumentsOf

\* A request on its own has read what is there, and a seller's application is decided.
LEMMA StepSerialInv == IInv /\ SerialInv /\ [Next]_vars => SerialInv'
<1> SUFFICES ASSUME IInv, ~overlap, Alone, Fresh, OneSellerEach, [Next]_vars
    PROVE  Alone' /\ Fresh' /\ OneSellerEach'
  <2>1. [Next]_vars => overlap' = overlap
    BY DEF Next, vars, ApplicationCreate, ApplicationUpdate, ApplicationSubmit, ApplicationReject,
       ApplicationApprove, DocumentAdd, ReadsApplication, Begins, UpdateCommit, ReviseCommit,
       AddCommit, SubmitCommit, RejectCommit, DocumentsChecked, SellerCommit, DocumentUpdate,
       DocumentReview, ApproveCommit, SellerSuspend, SellerReactivate, ReadsSeller, Abort, Commits
  <2> QED BY <2>1 DEF SerialInv
<1> DEFINE Goal == Alone' /\ Fresh' /\ OneSellerEach'
<1> USE RowAssumption
<1>t. TypeOK /\ TypeOK' /\ Kept /\ Reads /\ SellersHaveSource
  BY TypeStep, RowsStay DEF IInv
<1>r. /\ application \in [Applications -> ApplicationRow \cup {None}]
      /\ document \in [Documents -> DocumentRow \cup {None}]
      /\ seller \in [Sellers -> SellerRow \cup {None}]
  BY <1>t DEF TypeOK
<1>q. \A r \in Requests : tx[r] # Idle => \A q \in Requests \ {r} : tx[q] = Idle
  BY DEF Alone
<1>o. \A s \in Sellers : seller[s] # None =>
        /\ seller[s].application \in Applications
        /\ application[seller[s].application].status = "approved"
  BY <1>r DEF SellerRow, OneSellerEach
<1>u. ASSUME UNCHANGED <<rows, overlap>> PROVE OneSellerEach'
  BY <1>u DEF rows, OneSellerEach, DocumentsOf
<1>1. ASSUME NEW a \in Applications, NEW content \in Contents, ApplicationCreate(a, content)
      PROVE Goal
  <2>1. /\ application[a] = None /\ UNCHANGED <<document, seller, tx, overlap>>
        /\ \A b \in Applications \ {a} : application'[b] = application[b]
        /\ \A r \in Requests : tx[r] = Idle
    BY <1>1, <1>r DEF ApplicationCreate, Quiet
  <2>2. Alone' /\ Fresh'
    BY <2>1 DEF Alone, Fresh, Idle, OnApplication
  <2>3. OneSellerEach'
    <3>1. \A s \in Sellers : seller[s] # None => seller[s].application \in Applications \ {a}
      BY <2>1, <1>o, <1>t DEF SellersHaveSource
    <3> QED BY <2>1, <3>1, SellersApart
  <2> QED BY <2>2, <2>3
<1>2. ASSUME NEW r \in Requests, NEW a \in Applications,
             ApplicationUpdate(r, a) \/ ApplicationSubmit(r, a) \/ ApplicationReject(r, a)
               \/ ApplicationApprove(r, a) \/ DocumentAdd(r, a)
      PROVE Goal
  <2>1. PICK step \in OnApplication \ {"approving"} : ReadsApplication(r, a, step, Allowed(step))
    BY <1>2 DEF ApplicationUpdate, ApplicationSubmit, ApplicationReject, ApplicationApprove,
       DocumentAdd, OnApplication, Allowed
  <2>2. /\ UNCHANGED <<rows, overlap>> /\ Quiet
        /\ application[a].status \in Allowed(step)
        /\ \A q \in Requests : tx'[q] = IF q = r
             THEN [step |-> step, application |-> a, seen |-> application[a]] ELSE tx[q]
    BY <2>1, <1>t, ApplicationRead
  <2>3. \A q \in Requests \ {r} : tx'[q] = Idle
    BY <2>2 DEF Quiet
  <2>4. Alone' /\ Fresh'
    BY <2>2, <2>3, <2>1 DEF Alone, Fresh, Idle, OnApplication, rows
  <2> QED BY <2>2, <2>4, <1>u
<1>3. ASSUME NEW r \in Requests,
             (\E content \in Contents : UpdateCommit(r, content)) \/ SubmitCommit(r) \/ RejectCommit(r)
      PROVE Goal
  <2> DEFINE a == tx[r].application
  <2>1. /\ Commits(r) /\ UNCHANGED <<document, seller>> /\ tx[r].step \in {"edit", "submit", "reject"}
        /\ tx[r] # Idle /\ overlap' = overlap
    <3>1. ASSUME NEW content \in Contents, UpdateCommit(r, content)
          PROVE  Commits(r) /\ UNCHANGED <<document, seller>> /\ tx[r].step = "edit"
      BY <3>1 DEF UpdateCommit
    <3>2. ASSUME SubmitCommit(r)
          PROVE  Commits(r) /\ UNCHANGED <<document, seller>> /\ tx[r].step = "submit"
      BY <3>2 DEF SubmitCommit
    <3>3. ASSUME RejectCommit(r)
          PROVE  Commits(r) /\ UNCHANGED <<document, seller>> /\ tx[r].step = "reject"
      BY <3>3 DEF RejectCommit
    <3>4. tx[r].step # "idle" => tx[r] # Idle
      BY DEF Idle
    <3>5. Commits(r) => overlap' = overlap
      BY DEF Commits
    <3> QED BY <1>3, <3>1, <3>2, <3>3, <3>4, <3>5
  <2>2. application[a].status # "approved"
    BY <2>1 DEF Fresh, Allowed, OnApplication, Undecided, Editable
  <2>3. \A b \in Applications \ {a} : application'[b] = application[b]
    BY <1>3, <1>r DEF UpdateCommit, SubmitCommit, RejectCommit
  <2>4. OneSellerEach'
    BY <2>1, <2>2, <2>3, <1>o, SellersApart
  <2> QED BY <2>1, <2>4, <1>t, NoneUnderWay
<1>4. ASSUME NEW r \in Requests, NEW content \in Contents,
             ReviseCommit(r, content) \/ \E d \in Documents : AddCommit(r, d, content)
      PROVE Goal
  <2>1. Commits(r) /\ UNCHANGED <<application, seller>> /\ tx[r] # Idle /\ overlap' = overlap
    BY <1>4 DEF ReviseCommit, AddCommit, Idle, Commits
  <2>2. CASE ReviseCommit(r, content)
    <3> DEFINE d == tx[r].document
    <3>1. /\ d \in Documents /\ document[d] \in DocumentRow
          /\ document' = [document EXCEPT ![d] =
               [document[d] EXCEPT !.content = content,
                                   !.status = IF @ = "rejected" THEN "needs_update" ELSE @]]
      BY <2>2, <1>t, WrittenRows
    <3>2. /\ document'[d].application = document[d].application
          /\ document'[d].seller = document[d].seller
          /\ \A e \in Documents \ {d} : document'[e] = document[e]
      BY <3>1, <1>r DEF DocumentRow
    <3>3. document[d] # None
      BY <3>1
    <3>4. OneSellerEach'
      BY <2>1, <3>2, <3>3, SellersApart
    <3> QED BY <2>1, <3>4, <1>t, NoneUnderWay
  <2>3. ASSUME NEW d \in Documents, AddCommit(r, d, content) PROVE Goal
    <3> DEFINE a == tx[r].application
    <3>1. /\ \A e \in Documents \ {d} : document'[e] = document[e]
          /\ document'[d].application = a
          /\ application[a].status # "approved"
      BY <2>3, <1>r DEF AddCommit, Fresh, Allowed, OnApplication, Undecided, Editable
    <3>2. OneSellerEach'
      BY <2>1, <3>1, <1>o, SellersApart
    <3> QED BY <2>1, <3>2, <1>t, NoneUnderWay
  <2> QED BY <1>4, <2>2, <2>3
<1>5. ASSUME NEW r \in Requests, DocumentsChecked(r) PROVE Goal
  <2>1. /\ UNCHANGED <<rows, overlap>> /\ tx[r] # Idle
        /\ \A q \in Requests : tx'[q] = IF q = r THEN [tx[r] EXCEPT !.step = "approving"] ELSE tx[q]
        /\ tx[r].step = "approve" /\ KycComplete(tx[r].application)
    BY <1>5, <1>t DEF DocumentsChecked, TypeOK, Idle
  <2>2. tx[r] \in [step : OnApplication, application : Applications, seen : ApplicationRow]
    BY <2>1, <1>t, Reading DEF OnApplication
  <2>3. /\ tx'[r].step = "approving" /\ tx'[r].application = tx[r].application
        /\ tx'[r].seen = tx[r].seen
    BY <2>1, <2>2
  <2>4. Alone'
    BY <2>1, <1>q DEF Alone
  <2>5. Fresh'
    BY <2>1, <2>3, <1>q DEF Fresh, OnApplication, Allowed, rows, KycComplete, DocumentsOf, Idle
  <2> QED BY <2>1, <2>4, <2>5, <1>u
<1>6. ASSUME NEW r \in Requests, SellerCommit(r) PROVE Goal
  <2> DEFINE s == tx[r].seller
  <2>1. /\ Commits(r) /\ UNCHANGED <<application, document>> /\ tx[r] # Idle /\ overlap' = overlap
    BY <1>6 DEF SellerCommit, Idle, Commits
  <2>2. /\ s \in Sellers /\ seller[s] \in SellerRow
        /\ seller' = [seller EXCEPT ![s] = [seller[s] EXCEPT !.status =
                        IF tx[r].step = "suspend" THEN "suspended" ELSE "approved"]]
    BY <1>6, <1>t, WrittenRows
  <2>3. /\ seller'[s].application = seller[s].application
        /\ seller'[s].content = seller[s].content
        /\ \A u \in Sellers \ {s} : seller'[u] = seller[u]
        /\ seller[s] # None
    BY <2>2, <1>r DEF SellerRow
  <2>4. OneSellerEach'
    BY <2>1, <2>3, SellersApart
  <2> QED BY <2>1, <2>4, <1>t, NoneUnderWay
<1>7. ASSUME NEW r \in Requests,
             \/ \E d \in Documents : DocumentUpdate(r, d)
             \/ \E s \in Sellers : SellerSuspend(r, s) \/ SellerReactivate(r, s)
      PROVE Goal
  <2>1. UNCHANGED <<rows, overlap>> /\ \A q \in Requests : tx[q] = Idle
    BY <1>7 DEF DocumentUpdate, SellerSuspend, SellerReactivate, ReadsSeller, Begins, Quiet
  <2>2. /\ \A q \in Requests \ {r} : tx'[q] = Idle
        /\ tx'[r].step \notin OnApplication
        /\ tx'[r].step = "revise" => document[tx'[r].document].status # "approved"
    BY <1>7, <2>1, <1>t DEF DocumentUpdate, SellerSuspend, SellerReactivate, ReadsSeller, Begins,
       OnApplication, TypeOK
  <2>3. Alone' /\ Fresh'
    BY <2>1, <2>2 DEF Alone, Fresh, rows, Idle, OnApplication
  <2> QED BY <2>1, <2>3, <1>u
<1>8. ASSUME NEW d \in Documents, NEW decision \in {"approved", "rejected"},
             DocumentReview(d, decision)
      PROVE Goal
  <2>1. /\ UNCHANGED <<application, seller, tx, overlap>> /\ document[d] # None
        /\ \A q \in Requests : tx[q] = Idle
        /\ \A e \in Documents \ {d} : document'[e] = document[e]
        /\ document'[d].application = document[d].application
        /\ document'[d].seller = document[d].seller
    BY <1>8, <1>r DEF DocumentReview, Quiet, DocumentRow
  <2>2. Alone' /\ Fresh'
    BY <2>1 DEF Alone, Fresh, Idle, OnApplication
  <2>3. OneSellerEach'
    BY <2>1, SellersApart
  <2> QED BY <2>2, <2>3
<1>9. ASSUME NEW r \in Requests, NEW s \in Sellers, ApproveCommit(r, s) PROVE Goal
  <2> DEFINE a == tx[r].application
  <2>1. /\ Commits(r) /\ overlap' = overlap /\ tx[r] # Idle /\ tx[r].step = "approving"
        /\ IF tx[r].seen.seller = None THEN seller[s] = None ELSE s = tx[r].seen.seller
    BY <1>9 DEF ApproveCommit, Commits, Idle
  <2>2. /\ a \in Applications /\ application[a] \in ApplicationRow
        /\ application' = [application EXCEPT ![a] =
             [application[a] EXCEPT !.status = "approved", !.seller = s]]
    BY <1>9, <1>t, WrittenRows
  <2>3. /\ application'[a].status = "approved" /\ application'[a].seller = s
        /\ application'[a].content = application[a].content
        /\ \A b \in Applications \ {a} : application'[b] = application[b]
    BY <2>2, <1>r DEF ApplicationRow
  <2>4. tx[r].seen = application[a] /\ application[a].status # "approved"
    BY <2>1 DEF Fresh, Allowed, OnApplication, Undecided
  <2>5. \A u \in Sellers : seller[u] # None => seller[u].application # a
    BY <2>4, <1>o
  <2>6. tx[r].seen.seller = None /\ seller[s] = None
    <3>1. application[a].seller \in Sellers \cup {None}
      BY <2>2 DEF ApplicationRow
    <3> QED BY <2>1, <2>4, <2>5, <3>1, <1>t DEF Reads, OnApplication
  <2>7. /\ seller'[s].application = a /\ seller'[s].content = application[a].content
        /\ \A u \in Sellers \ {s} : seller'[u] = seller[u]
    BY <1>9, <1>r, <2>4 DEF ApproveCommit
  <2>8. /\ \A d \in DocumentsOf(a) : document'[d].seller = s
        /\ \A d \in Documents \ DocumentsOf(a) : document'[d] = document[d]
    <3>1. \A d \in Documents : document'[d] =
            IF d \in DocumentsOf(a) THEN [document[d] EXCEPT !.seller = s] ELSE document[d]
      BY <1>9 DEF ApproveCommit
    <3>2. \A d \in DocumentsOf(a) : [document[d] EXCEPT !.seller = s].seller = s
      BY <1>r DEF DocumentRow, DocumentsOf
    <3> QED BY <3>1, <3>2 DEF DocumentsOf
  <2>9. \A d \in Documents : document[d] # None => document'[d].application = document[d].application
    BY <1>t DEF Kept
  <2>10. OneSellerEach'
    <3> SUFFICES ASSUME NEW u \in Sellers, seller'[u] # None, NEW b, b = seller'[u].application
        PROVE  /\ application'[b].status = "approved" /\ application'[b].seller = u
               /\ application'[b].content = seller'[u].content
               /\ \A d \in Documents : document'[d] # None /\ document'[d].application = b
                    => document'[d].seller = u
      BY DEF OneSellerEach, DocumentsOf
    <3>1. \A d \in Documents \ DocumentsOf(a) :
            document'[d] # None => document[d] # None /\ document[d].application # a
      BY <2>8 DEF DocumentsOf
    <3>2. CASE u = s
      BY <3>1, <3>2, <2>3, <2>7, <2>8, <2>9 DEF DocumentsOf
    <3>3. CASE u # s
      <4>1. /\ seller[u] # None /\ b = seller[u].application /\ seller'[u] = seller[u]
            /\ b \in Applications \ {a}
        BY <3>3, <2>5, <2>7, <1>o
      <4>2. \A d \in Documents : document'[d] # None /\ document'[d].application = b
              => document'[d] = document[d]
        BY <4>1, <2>8, <2>9 DEF DocumentsOf
      <4> QED BY <4>1, <4>2, <2>3 DEF OneSellerEach, DocumentsOf
    <3> QED BY <3>2, <3>3
  <2> QED BY <2>1, <2>10, <1>t, NoneUnderWay
<1>10. ASSUME NEW r \in Requests, Abort(r) PROVE Goal
  <2>1. Commits(r) /\ UNCHANGED <<rows, overlap>> /\ tx[r] # Idle
    BY <1>10 DEF Abort, Commits
  <2> QED BY <2>1, <1>u, <1>t, NoneUnderWay
<1>11. ASSUME UNCHANGED vars PROVE Goal
  <2>1. UNCHANGED <<rows, overlap, tx>>
    BY <1>11 DEF vars
  <2> QED BY <2>1, <1>u DEF Alone, Fresh, rows, KycComplete, DocumentsOf
<1> HIDE DEF Goal
<1>12. Goal
  BY <1>1, <1>2, <1>3, <1>4, <1>5, <1>6, <1>7, <1>8, <1>9, <1>10, <1>11, NextIsSteps DEF Steps
<1> QED BY <1>12 DEF Goal
-----------------------------------------------------------------------------
\* The empty tables satisfy both invariants.
LEMMA InitInv == Init => IInv /\ SerialInv
BY DEF Init, IInv, SerialInv, TypeOK, Work, Idle, Reads, OnApplication, Submitted, SellersHaveSource,
       ApprovedHasSeller, SellersWereSubmitted, Alone, Fresh, OneSellerEach

\* The inductive invariant holds in every behaviour.
LEMMA InvHolds == Spec => [](IInv /\ SerialInv)
BY InitInv, StepIInv, StepSerialInv, PTL DEF Spec

\* The three tables and what requests have read are well-typed in every behaviour.
THEOREM TypeCorrect == Spec => []TypeOK
BY InvHolds, PTL DEF IInv

(***************************************************************************)
(* However requests overlap, an approved application points at a seller    *)
(* that was made from it, and no link dangles.                             *)
(***************************************************************************)
THEOREM ApprovedKeepsSeller == Spec => []ApprovedHasSeller
BY InvHolds, PTL DEF IInv

(***************************************************************************)
(* However requests overlap, every seller comes from an application that   *)
(* was submitted and has documents.                                        *)
(***************************************************************************)
THEOREM SellersStaySubmitted == Spec => []SellersWereSubmitted
BY InvHolds, PTL DEF IInv

(***************************************************************************)
(* Without overlap an application makes one seller, as it stands, and all  *)
(* its documents are that seller's.                                        *)
(***************************************************************************)
THEOREM OneSellerHolds == Spec => []OneSellerEach
<1>1. SerialInv => OneSellerEach
  BY DEF SerialInv, OneSellerEach
<1> QED BY <1>1, InvHolds, PTL
-----------------------------------------------------------------------------
\* A seller that appears was inserted by an approval.
LEMMA NewSeller ==
  ASSUME IInv, [Next]_vars, NEW s \in Sellers, seller[s] = None, seller'[s] # None
  PROVE  \E r \in Requests : ApproveCommit(r, s)
<1>t. TypeOK /\ Reads
  BY DEF IInv
<1>1. UNCHANGED seller => FALSE
  OBVIOUS
<1>2. ASSUME NEW r \in Requests, SellerCommit(r) PROVE FALSE
  <2>1. tx[r].seller \in Sellers /\ seller[tx[r].seller] # None
    BY <1>2, <1>t, Reading DEF SellerCommit, Reads
  <2> QED BY <1>2, <2>1, <1>t DEF SellerCommit, TypeOK
<1>3. ASSUME NEW r \in Requests, NEW u \in Sellers, ApproveCommit(r, u)
      PROVE  ApproveCommit(r, s)
  <2>1. u = s
    BY <1>3, <1>t DEF ApproveCommit, TypeOK
  <2> QED BY <1>3, <2>1
<1>4. ASSUME ~(\E r \in Requests, u \in Sellers : ApproveCommit(r, u)),
             ~(\E r \in Requests : SellerCommit(r))
      PROVE  UNCHANGED seller
  BY <1>4, NextIsSteps DEF Steps, vars, rows, ApplicationCreate, ApplicationUpdate, ApplicationSubmit,
     ApplicationReject, ApplicationApprove, DocumentAdd, ReadsApplication, Begins, UpdateCommit,
     ReviseCommit, AddCommit, SubmitCommit, RejectCommit, DocumentsChecked, DocumentUpdate,
     DocumentReview, SellerSuspend, SellerReactivate, ReadsSeller, Abort
<1> QED BY <1>1, <1>2, <1>3, <1>4

\* What an approval does when no other request is under way.
LEMMA StepSeesDocuments ==
  IInv /\ SerialInv /\ [Next]_vars =>
    [\A s \in Sellers : ~overlap /\ seller[s] = None /\ seller'[s] # None =>
       LET a == seller'[s].application IN
       /\ application[a].status \in Undecided /\ application'[a].status = "approved"
       /\ DocumentsOf(a) # {} /\ \A d \in DocumentsOf(a) : document[d].status = "approved"]_vars
<1> SUFFICES ASSUME IInv, SerialInv, [Next]_vars,
                    NEW s \in Sellers, ~overlap, seller[s] = None, seller'[s] # None,
                    NEW a, a = seller'[s].application
    PROVE  /\ application[a].status \in Undecided /\ application'[a].status = "approved"
           /\ DocumentsOf(a) # {} /\ \A d \in DocumentsOf(a) : document[d].status = "approved"
  OBVIOUS
<1>t. TypeOK /\ Reads /\ Fresh
  BY DEF IInv, SerialInv
<1>1. PICK r \in Requests : ApproveCommit(r, s)
  BY NewSeller
<1>2. a = tx[r].application
  BY <1>1, <1>t DEF ApproveCommit, TypeOK
<1>3. /\ a \in Applications /\ application[a] \in ApplicationRow
      /\ application' = [application EXCEPT ![a] =
           [application[a] EXCEPT !.status = "approved", !.seller = s]]
  <2> DEFINE b == tx[r].application
  <2>1. /\ b \in Applications /\ application[b] \in ApplicationRow
        /\ application' = [application EXCEPT ![b] =
             [application[b] EXCEPT !.status = "approved", !.seller = s]]
    BY <1>1, <1>t, WrittenRows
  <2> QED BY <2>1, <1>2
<1>4. application'[a].status = "approved"
  BY <1>3, <1>t DEF TypeOK, ApplicationRow
<1>5. application[a].status \in Undecided /\ KycComplete(a)
  BY <1>1, <1>2, <1>t DEF ApproveCommit, Fresh, Allowed, OnApplication
<1> QED BY <1>4, <1>5 DEF KycComplete

(***************************************************************************)
(* Without overlap a seller appears exactly when an undecided application  *)
(* whose documents are all approved is approved.                           *)
(***************************************************************************)
THEOREM ApprovalsSeeDocuments == Spec => ApprovalSeesDocuments
BY StepSeesDocuments, InvHolds, PTL DEF Spec, ApprovalSeesDocuments

\* What a revision replaces when no other request is under way.
LEMMA StepLeavesApproved ==
  IInv /\ SerialInv /\ [Next]_vars =>
    [\A d \in Documents : ~overlap /\ document[d] # None /\ document[d].status = "approved"
       => document'[d].content = document[d].content]_vars
<1> SUFFICES ASSUME IInv, SerialInv, [Next]_vars,
                    NEW d \in Documents, ~overlap, document[d] # None, document[d].status = "approved"
    PROVE  document'[d].content = document[d].content
  OBVIOUS
<1>t. /\ TypeOK /\ Reads /\ Fresh
      /\ document \in [Documents -> DocumentRow \cup {None}] /\ document[d] \in DocumentRow
  BY DEF IInv, SerialInv, TypeOK
<1>1. CASE UNCHANGED document
  BY <1>1
<1>2. ASSUME NEW r \in Requests, NEW e \in Documents, NEW content \in Contents,
             AddCommit(r, e, content)
      PROVE  document'[d] = document[d]
  BY <1>2, <1>t DEF AddCommit
<1>3. ASSUME NEW r \in Requests, NEW content \in Contents, ReviseCommit(r, content)
      PROVE  document'[d] = document[d]
  BY <1>3, <1>t DEF ReviseCommit, Fresh
<1>4. ASSUME NEW e \in Documents, NEW decision \in {"approved", "rejected"},
             DocumentReview(e, decision)
      PROVE  document'[d].content = document[d].content
  BY <1>4, <1>t DEF DocumentReview, DocumentRow
<1>5. ASSUME NEW r \in Requests, NEW s \in Sellers, ApproveCommit(r, s)
      PROVE  document'[d].content = document[d].content
  <2>1. document'[d] = document[d] \/ document'[d] = [document[d] EXCEPT !.seller = s]
    BY <1>5 DEF ApproveCommit
  <2> QED BY <2>1, <1>t DEF DocumentRow
<1>6. ASSUME ~(\E r \in Requests, s \in Sellers : ApproveCommit(r, s)),
             ~(\E r \in Requests, content \in Contents :
                 ReviseCommit(r, content) \/ \E e \in Documents : AddCommit(r, e, content)),
             ~(\E e \in Documents, decision \in {"approved", "rejected"} : DocumentReview(e, decision))
      PROVE  UNCHANGED document
  BY <1>6, NextIsSteps DEF Steps, vars, rows, ApplicationCreate, ApplicationUpdate, ApplicationSubmit,
     ApplicationReject, ApplicationApprove, DocumentAdd, ReadsApplication, Begins, UpdateCommit,
     SubmitCommit, RejectCommit, DocumentsChecked, DocumentUpdate, SellerCommit, SellerSuspend,
     SellerReactivate, ReadsSeller, Abort
<1> QED BY <1>1, <1>2, <1>3, <1>4, <1>5, <1>6

(***************************************************************************)
(* Without overlap a document that counts as approved keeps the content    *)
(* its reviewer saw.                                                       *)
(***************************************************************************)
THEOREM ApprovedDocumentsStand == Spec => ApprovedDocumentStands
BY StepLeavesApproved, InvHolds, PTL DEF Spec, ApprovedDocumentStands
=============================================================================
