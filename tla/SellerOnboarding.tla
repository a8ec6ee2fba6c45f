-------------------------- MODULE SellerOnboarding --------------------------
(***************************************************************************)
(* Seller applications, their KYC documents and the sellers that approvals *)
(* make (operational-runtime.ts, marketplace handlers).                    *)
(*                                                                         *)
(* A handler checks rows it has selected and then writes them blindly: two *)
(* steps, or three where two statements read.  Document reviews check only *)
(* that the document exists, which never changes, and are one step.        *)
(* review_status always changes with status and is left out, and so are    *)
(* the events and the module flag, read before the transaction.            *)
(***************************************************************************)
EXTENDS Naturals, FiniteSets

CONSTANTS Applications, Documents, Sellers,  \* ids of rows
          Requests,   \* requests under way at once
          Contents,   \* what applicants write in applications and documents
          None        \* no row, no link

ASSUME OnboardingAssumption == None \notin Applications \cup Sellers

VARIABLES application, document, seller,  \* the three tables
          tx,                             \* what each request has read
          overlap                         \* whether requests overlap; never changes

rows == <<application, document, seller>>
vars == <<rows, tx, overlap>>

Undecided == {"submitted", "under_review"}
Editable == {"draft"} \cup Undecided
ApplicationRow ==
  [status : Editable \cup {"approved", "rejected", "cancelled"}, content : Contents,
   seller : Sellers \cup {None}, submitted : BOOLEAN]
DocumentRow ==
  [status : {"pending", "approved", "rejected", "needs_update"}, content : Contents,
   application : Applications, seller : Sellers \cup {None}]
\* The application of a seller is known from its seller_created event.
SellerRow == [status : {"approved", "suspended"}, content : Contents, application : Applications]

ASSUME RowAssumption == None \notin ApplicationRow \cup DocumentRow \cup SellerRow

Idle == [step |-> "idle"]
Work ==
  {Idle}
    \cup [step : {"edit", "submit", "approve", "approving", "reject", "add"},
          application : Applications, seen : ApplicationRow]
    \cup [step : {"revise"}, document : Documents]
    \cup [step : {"suspend", "reactivate"}, seller : Sellers]

TypeOK ==
  /\ application \in [Applications -> ApplicationRow \cup {None}]
  /\ document \in [Documents -> DocumentRow \cup {None}]
  /\ seller \in [Sellers -> SellerRow \cup {None}]
  /\ tx \in [Requests -> Work]
  /\ overlap \in BOOLEAN

Init ==
  /\ application = [a \in Applications |-> None]
  /\ document = [d \in Documents |-> None]
  /\ seller = [s \in Sellers |-> None]
  /\ tx = [r \in Requests |-> Idle]
  /\ overlap \in BOOLEAN

Quiet == overlap \/ \A q \in Requests : tx[q] = Idle
Begins(r, work) ==
  /\ tx[r] = Idle /\ Quiet
  /\ tx' = [tx EXCEPT ![r] = work]
  /\ UNCHANGED <<rows, overlap>>
Commits(r) == tx' = [tx EXCEPT ![r] = Idle] /\ UNCHANGED overlap

Abort(r) ==
  /\ tx[r] # Idle
  /\ Commits(r)
  /\ UNCHANGED rows
-----------------------------------------------------------------------------
\* The SELECT with which the handlers of an application start.
ReadsApplication(r, a, step, allowed) ==
  /\ application[a] # None
  /\ application[a].status \in allowed
  /\ Begins(r, [step |-> step, application |-> a, seen |-> application[a]])

ApplicationCreate(a, content) ==
  /\ Quiet
  /\ application[a] = None
  /\ application' = [application EXCEPT ![a] =
       [status |-> "draft", content |-> content, seller |-> None, submitted |-> FALSE]]
  /\ UNCHANGED <<document, seller, tx, overlap>>

ApplicationUpdate(r, a) == ReadsApplication(r, a, "edit", {"draft"})
UpdateCommit(r, content) ==
  /\ tx[r].step = "edit"
  /\ application' = [application EXCEPT ![tx[r].application].content = content]
  /\ Commits(r)
  /\ UNCHANGED <<document, seller>>

ApplicationSubmit(r, a) == ReadsApplication(r, a, "submit", {"draft"})
\* Mutant: submitted_at is forgotten.
SubmitCommitUndated(r) ==
  /\ tx[r].step = "submit"
  /\ application' = [application EXCEPT ![tx[r].application].status = "submitted"]
  /\ Commits(r)
  /\ UNCHANGED <<document, seller>>
SubmitCommit(r) ==
  /\ tx[r].step = "submit"
  /\ application' = [application EXCEPT ![tx[r].application].status = "submitted",
                                        ![tx[r].application].submitted = TRUE]
  /\ Commits(r)
  /\ UNCHANGED <<document, seller>>

\* Mutant: decisions are open to a second decision.
ApplicationRejectAnytime(r, a) ==
  ReadsApplication(r, a, "reject", Editable \cup {"rejected", "approved"})
ApplicationReject(r, a) == ReadsApplication(r, a, "reject", Editable \cup {"rejected"})
RejectCommit(r) ==
  /\ tx[r].step = "reject"
  /\ application' = [application EXCEPT ![tx[r].application].status = "rejected"]
  /\ Commits(r)
  /\ UNCHANGED <<document, seller>>
-----------------------------------------------------------------------------
(***************************************************************************)
(* Approval: read the application, read its documents, insert or revive    *)
(* the seller, link application and documents to it.                       *)
(***************************************************************************)
DocumentsOf(a) == {d \in Documents : document[d] # None /\ document[d].application = a}
\* Mutant: an application without documents passes.
KycCompleteWhenEmpty(a) == \A d \in DocumentsOf(a) : document[d].status = "approved"
KycComplete(a) ==
  /\ DocumentsOf(a) # {}
  /\ \A d \in DocumentsOf(a) : document[d].status = "approved"

ApplicationApprove(r, a) == ReadsApplication(r, a, "approve", Undecided)

DocumentsChecked(r) ==
  /\ tx[r].step = "approve"
  /\ KycComplete(tx[r].application)
  /\ tx' = [tx EXCEPT ![r].step = "approving"]
  /\ UNCHANGED <<rows, overlap>>

\* Mutant: only the seller and its documents are written.
ApproveCommitUnlinked(r, s) ==
  /\ tx[r].step = "approving"
  /\ IF tx[r].seen.seller = None THEN seller[s] = None ELSE s = tx[r].seen.seller
  /\ LET a == tx[r].application IN
     /\ seller' = [seller EXCEPT ![s] =
          [status |-> "approved", content |-> tx[r].seen.content, application |-> a]]
     /\ application' = [application EXCEPT ![a].status = "approved"]
     /\ document' = [d \in Documents |->
          IF d \in DocumentsOf(a) THEN [document[d] EXCEPT !.seller = s] ELSE document[d]]
  /\ Commits(r)

ApproveCommit(r, s) ==
  /\ tx[r].step = "approving"
  /\ IF tx[r].seen.seller = None THEN seller[s] = None ELSE s = tx[r].seen.seller
  /\ LET a == tx[r].application IN
     /\ seller' = [seller EXCEPT ![s] =
          [status |-> "approved", content |-> tx[r].seen.content, application |-> a]]
     /\ application' = [application EXCEPT ![a].status = "approved", ![a].seller = s]
     /\ document' = [d \in Documents |->
          IF d \in DocumentsOf(a) THEN [document[d] EXCEPT !.seller = s] ELSE document[d]]
  /\ Commits(r)
-----------------------------------------------------------------------------
DocumentAdd(r, a) == ReadsApplication(r, a, "add", Editable)
AddCommit(r, d, content) ==
  /\ tx[r].step = "add"
  /\ document[d] = None
  /\ document' = [document EXCEPT ![d] =
       [status |-> "pending", content |-> content,
        application |-> tx[r].application, seller |-> tx[r].seen.seller]]
  /\ Commits(r)
  /\ UNCHANGED <<application, seller>>

\* Mutant: approved documents are open to edits.
DocumentUpdateAnytime(r, d) ==
  document[d] # None /\ Begins(r, [step |-> "revise", document |-> d])
DocumentUpdate(r, d) ==
  /\ document[d] # None /\ document[d].status # "approved"
  /\ Begins(r, [step |-> "revise", document |-> d])
\* The status is decided by the row as it is when it is written.
ReviseCommit(r, content) ==
  /\ tx[r].step = "revise"
  /\ document' = [document EXCEPT
       ![tx[r].document].content = content,
       ![tx[r].document].status = IF @ = "rejected" THEN "needs_update" ELSE @]
  /\ Commits(r)
  /\ UNCHANGED <<application, seller>>

DocumentReview(d, decision) ==
  /\ Quiet
  /\ document[d] # None
  /\ document' = [document EXCEPT ![d].status = decision]
  /\ UNCHANGED <<application, seller, tx, overlap>>
-----------------------------------------------------------------------------
ReadsSeller(r, s, step, status) ==
  /\ seller[s] # None /\ seller[s].status = status
  /\ Begins(r, [step |-> step, seller |-> s])
SellerSuspend(r, s) == ReadsSeller(r, s, "suspend", "approved")
SellerReactivate(r, s) == ReadsSeller(r, s, "reactivate", "suspended")
\* Mutant: a status the table does not allow.
SellerCommitActive(r) ==
  /\ tx[r].step \in {"suspend", "reactivate"}
  /\ seller' = [seller EXCEPT ![tx[r].seller].status =
                  IF tx[r].step = "suspend" THEN "suspended" ELSE "active"]
  /\ Commits(r)
  /\ UNCHANGED <<application, document>>

SellerCommit(r) ==
  /\ tx[r].step \in {"suspend", "reactivate"}
  /\ seller' = [seller EXCEPT ![tx[r].seller].status =
                  IF tx[r].step = "suspend" THEN "suspended" ELSE "approved"]
  /\ Commits(r)
  /\ UNCHANGED <<application, document>>

Next ==
  \/ \E a \in Applications, content \in Contents : ApplicationCreate(a, content)
  \/ \E r \in Requests, a \in Applications :
       ApplicationUpdate(r, a) \/ ApplicationSubmit(r, a) \/ ApplicationReject(r, a)
         \/ ApplicationApprove(r, a) \/ DocumentAdd(r, a)
  \/ \E r \in Requests, content \in Contents :
       UpdateCommit(r, content) \/ ReviseCommit(r, content)
         \/ \E d \in Documents : AddCommit(r, d, content)
  \/ \E r \in Requests : SubmitCommit(r) \/ RejectCommit(r) \/ DocumentsChecked(r) \/ SellerCommit(r)
  \/ \E r \in Requests, d \in Documents : DocumentUpdate(r, d)
  \/ \E d \in Documents, decision \in {"approved", "rejected"} : DocumentReview(d, decision)
  \/ \E r \in Requests, s \in Sellers :
       ApproveCommit(r, s) \/ SellerSuspend(r, s) \/ SellerReactivate(r, s)
  \/ \E r \in Requests : Abort(r)

Spec == Init /\ [][Next]_vars
-----------------------------------------------------------------------------
(***************************************************************************)
(* Whatever overlaps, an approved application points at a seller made from *)
(* it.  Two approvals of one application, or a submit that returns one to  *)
(* the queue after its approval, leave no dangling link.                   *)
(***************************************************************************)
ApprovedHasSeller ==
  \A a \in Applications : application[a] # None =>
    /\ application[a].status = "approved" => application[a].seller # None
    /\ application[a].seller # None =>
         seller[application[a].seller] # None /\ seller[application[a].seller].application = a

(***************************************************************************)
(* Whatever overlaps, every seller comes from an application that was      *)
(* submitted and has documents ("seller_application_kyc_incomplete").      *)
(***************************************************************************)
SellersWereSubmitted ==
  \A s \in Sellers : seller[s] # None =>
    application[seller[s].application].submitted /\ DocumentsOf(seller[s].application) # {}

(***************************************************************************)
(* Without overlap, a seller appears exactly when an application with      *)
(* documents, all approved at that moment, is approved.  A review that     *)
(* overlaps can reject a document between the check and the insert.        *)
(***************************************************************************)
ApprovalSeesDocuments ==
  [][\A s \in Sellers : ~overlap /\ seller[s] = None /\ seller'[s] # None =>
       LET a == seller'[s].application IN
       /\ application[a].status \in Undecided /\ application'[a].status = "approved"
       /\ DocumentsOf(a) # {} /\ \A d \in DocumentsOf(a) : document[d].status = "approved"]_vars

(***************************************************************************)
(* Without overlap, one application makes one seller, with the application *)
(* as it then stands and stays, and all its documents belong to that       *)
(* seller.                                                                 *)
(***************************************************************************)
OneSellerEach ==
  \A s \in Sellers : ~overlap /\ seller[s] # None =>
    LET a == seller[s].application IN
    /\ application[a].status = "approved" /\ application[a].seller = s
    /\ application[a].content = seller[s].content
    /\ \A d \in DocumentsOf(a) : document[d].seller = s

(***************************************************************************)
(* "seller_kyc_document_not_editable": without overlap, what a reviewer    *)
(* approved is never replaced while it counts as approved.                 *)
(***************************************************************************)
ApprovedDocumentStands ==
  [][\A d \in Documents : ~overlap /\ document[d] # None /\ document[d].status = "approved"
       => document'[d].content = document[d].content]_vars
=============================================================================
