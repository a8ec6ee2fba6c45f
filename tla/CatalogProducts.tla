-------------------------- MODULE CatalogProducts --------------------------
(***************************************************************************)
(* The catalog handlers of gateway-api/src/http/operational-runtime.ts: a  *)
(* product is written, moderated and queued for synchronisation with       *)
(* Medusa; categories form a tree.  Each mutation asks first, outside its  *)
(* transaction, whether the catalog module is enabled.  Titles, prices and *)
(* the other columns that decide nothing are left out; a row's id is       *)
(* chosen by the caller of the action.                                     *)
(***************************************************************************)
EXTENDS GatewayRequests, Naturals, FiniteSets

CONSTANTS
  Products, Variants, Categories,
  Stocks,          \* stock_quantity of a variant
  Nobody,          \* a null column
  MaxJobs          \* bound: synchronisation jobs of a behaviour

Sellers == {Nobody, "seller"}

(* What decides in a row of catalog_products; reason: whether rejection_reason is set. *)
ProductRow ==
  [status : {"draft", "active", "inactive", "archived"},
   moderation : {"pending_review", "approved", "rejected"},
   sync : {"not_synced", "queued"}, reason : BOOLEAN,
   seller : Sellers, category : Categories \union {Nobody}]

ASSUME CatalogAssumption ==
  /\ IsFiniteSet(Variants)
  /\ Nobody \notin ProductRow \union (Products \X Stocks)
  /\ Nobody \notin Categories /\ "absent" \notin Categories \union {Nobody}

VARIABLES
  product,         \* catalog_products, or Nobody
  stock,           \* catalog_product_variants: variant -> <<product, stock>>, or Nobody
  parent,          \* catalog_categories: category -> parent_key, or "absent"
  syncJobs,        \* payloads of catalog_medusa_sync_jobs, all queued
  catalogOn,       \* platform_modules.is_enabled of catalog
  sellerApproved,  \* marketplace_sellers.status = 'approved' of the seller
  subtreesMoved,   \* ghost: a category with children was given a parent
  cleaned          \* ghost: the category that a demo cleanup has deleted

catalogRows == <<product, stock, parent, syncJobs>>
catalogRest == <<catalogOn, sellerApproved, subtreesMoved, cleaned>>
catalogVars == <<catalogRows, catalogRest, work, overlap>>

Draft(seller, category) ==
  [status |-> "draft", moderation |-> "pending_review", sync |-> "not_synced", reason |-> FALSE,
   seller |-> seller, category |-> category]
Created == {p \in Products : product[p] # Nobody}
VariantsOf(p) == {v \in Variants : stock[v] # Nobody /\ stock[v][1] = p}
Known == {c \in Categories : parent[c] # "absent"}
Children(c) == {d \in Categories : parent[d] = c}

CatalogInit ==
  /\ product = [p \in Products |-> Nobody]
  /\ stock = [v \in Variants |-> Nobody]
  /\ parent \in [Categories -> {"absent", Nobody}]
  /\ syncJobs = {}
  /\ catalogOn \in BOOLEAN
  /\ sellerApproved \in BOOLEAN
  /\ subtreesMoved = FALSE
  /\ cleaned = {}
-----------------------------------------------------------------------------
(* requireCatalogMutation, and the reads that follow it; or 409 and nothing. *)
Mutation(r, read) == catalogOn /\ Begins(r, read) /\ UNCHANGED <<catalogRows, catalogRest>>

\* Mutant: the seller is looked up, not whether it is approved.
SellerExists(s) == TRUE

(* approvedSellerExists, for a body or a row that names a seller. *)
SellerAcceptable(s) == s = Nobody \/ sellerApproved
(* categoryExists, for a body or a row that names a category. *)
CategoryAcceptable(c) == c = Nobody \/ c \in Known

(* handleCatalogProductCreate *)
ProductCreateBegin(r, p, seller, category) ==
  /\ p \notin Created /\ \A q \in Requests : work[q].op = "write" => work[q].product # p
  /\ SellerAcceptable(seller) /\ CategoryAcceptable(category)
  /\ Mutation(r, [op |-> "write", product |-> p, row |-> Draft(seller, category)])

(* handleCatalogProductUpdate: columns the body does not name are written back as *)
(* they were read, and checked like named ones.                                   *)
ProductUpdateBegin(r, p, seller, category) ==
  /\ p \in Created
  /\ SellerAcceptable(seller) /\ CategoryAcceptable(category)
  /\ Mutation(r, [op |-> "write", product |-> p,
                  row |-> [product[p] EXCEPT !.seller = seller, !.category = category]])

(* INSERT, or UPDATE of all columns but the three statuses (nothing in this        *)
(* repository sets sync_status to synced, which the UPDATE would reset).           *)
ProductWrite(r) ==
  /\ work[r].op = "write"
  /\ LET p == work[r].product
         row == work[r].row IN
     product' = [product EXCEPT ![p] =
                   IF @ = Nobody THEN row
                   ELSE [@ EXCEPT !.seller = row.seller, !.category = row.category]]
  /\ Ends(r)
  /\ UNCHANGED <<stock, parent, syncJobs, catalogRest>>

(* handleCatalogProductSubmit, the one moderation step that looks at the row. *)
ProductSubmitBegin(r, p) ==
  /\ p \in Created /\ product[p].status # "archived"
  /\ Mutation(r, [op |-> "submit", product |-> p])

(* handleCatalogProductApprove, handleCatalogProductReject, handleCatalogProductArchive *)
ProductModerationBegin(r, p, verdict) ==
  /\ p \in Created
  /\ Mutation(r, [op |-> verdict, product |-> p])

Moderated(r) == product[work[r].product]
ProductModerated(r, op, row) ==
  /\ work[r].op = op
  /\ product' = [product EXCEPT ![work[r].product] = row]
  /\ Ends(r)
  /\ UNCHANGED <<stock, parent, syncJobs, catalogRest>>

ProductSubmit(r) ==
  ProductModerated(r, "submit", [Moderated(r) EXCEPT !.moderation = "pending_review", !.reason = FALSE])

ProductApprove(r) ==
  ProductModerated(r, "approve",
    [Moderated(r) EXCEPT !.status = "active", !.moderation = "approved", !.reason = FALSE])

ProductReject(r) ==
  ProductModerated(r, "reject",
    [Moderated(r) EXCEPT !.status = "inactive", !.moderation = "rejected", !.reason = TRUE])

ProductArchive(r) == ProductModerated(r, "archive", [Moderated(r) EXCEPT !.status = "archived"])
-----------------------------------------------------------------------------
(* handleCatalogVariantCreate *)
VariantCreateBegin(r, p, v, quantity) ==
  /\ p \in Created
  /\ stock[v] = Nobody /\ \A q \in Requests : work[q].op = "variant" => work[q].variant # v
  /\ Mutation(r, [op |-> "variant", variant |-> v, stock |-> <<p, quantity>>])

(* handleCatalogVariantUpdate *)
VariantUpdateBegin(r, v, quantity) ==
  /\ stock[v] # Nobody
  /\ Mutation(r, [op |-> "variant", variant |-> v, stock |-> [stock[v] EXCEPT ![2] = quantity]])

VariantWrite(r) ==
  /\ work[r].op = "variant"
  /\ stock' = [stock EXCEPT ![work[r].variant] = work[r].stock]
  /\ Ends(r)
  /\ UNCHANGED <<product, parent, syncJobs, catalogRest>>
-----------------------------------------------------------------------------
(* handleCatalogCategoryCreate *)
CategoryCreateBegin(r, c, above) ==
  /\ c \notin Known /\ CategoryAcceptable(above)
  /\ Mutation(r, [op |-> "category", category |-> c, above |-> above,
                  new |-> TRUE, moved |-> FALSE])

\* Mutant: a category may be its own parent.
CategoryUpdateBeginSelf(r, c, above) ==
  /\ c \in Known /\ CategoryAcceptable(above)
  /\ Mutation(r, [op |-> "category", category |-> c, above |-> above,
                  new |-> FALSE, moved |-> above # parent[c] /\ Children(c) # {}])

(* handleCatalogCategoryUpdate: of the ways to close a circle only the shortest is *)
(* refused.                                                                        *)
CategoryUpdateBegin(r, c, above) ==
  /\ c \in Known /\ CategoryAcceptable(above)
  /\ above # c
  /\ Mutation(r, [op |-> "category", category |-> c, above |-> above,
                  new |-> FALSE, moved |-> above # parent[c] /\ Children(c) # {}])

(* category_key is UNIQUE, parent_key a foreign key; an UPDATE of no row throws. *)
CategoryWrite(r) ==
  /\ work[r].op = "category"
  /\ work[r].new <=> work[r].category \notin Known
  /\ CategoryAcceptable(work[r].above)
  /\ parent' = [parent EXCEPT ![work[r].category] = work[r].above]
  /\ subtreesMoved' = (subtreesMoved \/ work[r].moved)
  /\ Ends(r)
  /\ UNCHANGED <<product, stock, syncJobs, catalogOn, sellerApproved, cleaned>>
-----------------------------------------------------------------------------
(* handleCatalogQueueMedusaSync: outside the transaction, catalogMedusaHealth is *)
(* waited for.  A failed check ends in 503.                                      *)
SyncBegin(r, p) ==
  /\ p \in Created
  /\ Mutation(r, [op |-> "health", product |-> p])

(* findCatalogProduct, with its number of variants; one that is not approved is refused. *)
SyncReadsProduct(r) ==
  /\ work[r].op = "health"
  /\ LET p == work[r].product IN
     /\ product[p].moderation = "approved"
     /\ GoesOn(r, [op |-> "variants", product |-> p, announced |-> Cardinality(VariantsOf(p))])
  /\ UNCHANGED <<catalogRows, catalogRest>>

(* catalogVariants *)
SyncReadsVariants(r) ==
  /\ work[r].op = "variants"
  /\ GoesOn(r, [op |-> "snapshot", product |-> work[r].product, announced |-> work[r].announced,
                carried |-> VariantsOf(work[r].product)])
  /\ UNCHANGED <<catalogRows, catalogRest>>

Queued(r) ==
  /\ work[r].op = "snapshot"
  /\ Cardinality(syncJobs) < MaxJobs
  /\ syncJobs' = syncJobs \union
       {[job |-> Cardinality(syncJobs), product |-> work[r].product,
         announced |-> work[r].announced, carried |-> work[r].carried]}
  /\ Ends(r)
  /\ UNCHANGED <<stock, parent, catalogRest>>

\* Mutant: the product is not told.
SyncQueuedJobOnly(r) == Queued(r) /\ UNCHANGED product

SyncQueued(r) ==
  /\ Queued(r)
  /\ product' = [product EXCEPT ![work[r].product].sync = "queued"]

(* 404, 409, 422 after a read, 503 of Medusa, or an exception. *)
CatalogAbort(r) == Aborts(r) /\ UNCHANGED <<catalogRows, catalogRest>>
-----------------------------------------------------------------------------
(* Other components: handleDemoSeed and handleDemoCleanup switch the module,   *)
(* handleMarketplaceSellerSuspend and ...Reactivate the seller.                *)
ModuleSwitched(r) ==
  /\ AtOnce(r)
  /\ catalogOn' = ~catalogOn
  /\ UNCHANGED <<catalogRows, sellerApproved, subtreesMoved, cleaned>>

SellerReviewed(r) ==
  /\ AtOnce(r)
  /\ sellerApproved' = ~sellerApproved
  /\ UNCHANGED <<catalogRows, catalogOn, subtreesMoved, cleaned>>

(* handleDemoCleanup deletes the demo category: its children lose their parent    *)
(* (ON DELETE SET NULL), its products keep its key.  Once in a behaviour.         *)
CategoryCleaned(r, c) ==
  /\ AtOnce(r)
  /\ c \in Known /\ cleaned = {}
  /\ cleaned' = {c}
  /\ parent' = [d \in Categories |->
                  IF d = c THEN "absent" ELSE IF parent[d] = c THEN Nobody ELSE parent[d]]
  /\ UNCHANGED <<product, stock, syncJobs, catalogOn, sellerApproved, subtreesMoved>>

CatalogNext ==
  \E r \in Requests :
    \/ \E p \in Products, s \in Sellers, c \in Categories \union {Nobody} :
         ProductCreateBegin(r, p, s, c) \/ ProductUpdateBegin(r, p, s, c)
    \/ \E p \in Products :
         \/ ProductSubmitBegin(r, p) \/ SyncBegin(r, p)
         \/ \E verdict \in {"approve", "reject", "archive"} : ProductModerationBegin(r, p, verdict)
    \/ ProductWrite(r) \/ ProductSubmit(r) \/ ProductApprove(r) \/ ProductReject(r)
    \/ ProductArchive(r)
    \/ \E v \in Variants, q \in Stocks :
         VariantUpdateBegin(r, v, q) \/ \E p \in Products : VariantCreateBegin(r, p, v, q)
    \/ VariantWrite(r)
    \/ \E c \in Categories, above \in Categories \union {Nobody} :
         CategoryCreateBegin(r, c, above) \/ CategoryUpdateBegin(r, c, above)
    \/ CategoryWrite(r) \/ \E c \in Categories : CategoryCleaned(r, c)
    \/ SyncReadsProduct(r) \/ SyncReadsVariants(r) \/ SyncQueued(r)
    \/ CatalogAbort(r)
    \/ ModuleSwitched(r) \/ SellerReviewed(r)
-----------------------------------------------------------------------------
(* What a product says of itself is one story, whichever handlers interleave: approved  *)
(* means on sale or archived, rejected not on sale, and a reason is kept exactly for a  *)
(* rejection; it shows that it is queued exactly when a job of it exists; and a job     *)
(* carries at least the variants that its product record announces, although different *)
(* statements read the two.                                                             *)
ProductTellsTruth ==
  /\ \A p \in Created :
       /\ product[p].moderation = "approved" => product[p].status \in {"active", "archived"}
       /\ product[p].moderation = "rejected" => product[p].status \in {"inactive", "archived"}
       /\ product[p].reason <=> product[p].moderation = "rejected"
       /\ product[p].sync = "queued" <=> \E j \in syncJobs : j.product = p
  /\ \A j \in syncJobs : j.announced <= Cardinality(j.carried)

(* No set of categories holds the parents of all its members: nobody is its own ancestor. *)
Forest == \A S \in SUBSET Known : S # {} => \E c \in S : parent[c] \notin S

(* References resolve, except of products in the category that a demo cleanup deleted; *)
(* and with requests one at a time the categories are a forest until a category that   *)
(* has children is moved (the code then asks for no more than that it is not moved     *)
(* below itself).                                                                      *)
CategoriesHoldTogether ==
  /\ \A c \in Known : parent[c] \in Known \union {Nobody}
  /\ \A p \in Created : product[p].category \in Known \union {Nobody} \union cleaned
  /\ ~overlap /\ ~subtreesMoved => Forest

(* With requests one at a time nothing in the catalog changes while the module is     *)
(* disabled (but by a cleanup), and no write leaves a product with a seller that is  *)
(* not approved at that moment.                                                      *)
CatalogGated ==
  [][~overlap =>
       /\ catalogRows' # catalogRows => catalogOn \/ cleaned' # cleaned
       /\ \A p \in Products : product'[p] # Nobody /\ product'[p] # product[p]
            /\ (product[p] = Nobody \/ product[p].seller # product'[p].seller)
            => product'[p].seller = Nobody \/ sellerApproved]_catalogVars
=============================================================================
