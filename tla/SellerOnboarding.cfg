SPECIFICATION Spec
CONSTANTS
  Applications = {a1}
  Documents = {d1, d2}
  Sellers = {s1, s2}
  Requests = {r1, r2, r3}
  Contents = {x, y}
  None = None
SYMMETRY Ids
INVARIANTS TypeOK ApprovedHasSeller SellersWereSubmitted OneSellerEach
PROPERTIES ApprovalSeesDocuments ApprovedDocumentStands
CHECK_DEADLOCK FALSE
