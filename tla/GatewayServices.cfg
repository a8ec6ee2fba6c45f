SPECIFICATION Spec
CONSTANTS
  a = a
  b = b
  Requests = {r1, r2}
  Products = {p1}
  Variants = {v1}
  Categories = {c1, c2, c3}
  Stocks = {0}
  Nobody = Nobody
  MaxJobs = 1
  Credentials = {k1}
  Payloads = {a, b}
  Schemas <- MCSchemas
  Providers = {stripe, iyzico}
  RetryCounts <- MCRetryCounts
  NaN = NaN
  MaxRetries = 2
  Unset = Unset
  Clients = {t1}
  Self = Self
  Checks = {h1}
  Limit = 2
  Window = 2
  Attempts = 2
  MaxNow = 5
  Sockets = {s1}
  Tenants = {acme, globex}
  Workspaces = {shop, back}
  Families = {orders}
  TokenEnds <- MCTokenEnds
  MaxClock = 2
  Rows = {row1, row2}
  NoRow = NoRow
  Calls = {call1, call2}
  MaxChanges = 2
  Boots = {boot1, boot2}
  PoolMax = 2
  ProviderRows = 2
INVARIANTS
  ProductTellsTruth CategoriesHoldTogether VaultSpeaksOfStored LimiterBounds ListensInScope
  PanelsComeToRest OneAdministrator ManifestWithinReach PoolServes
PROPERTY CatalogGated
SYMMETRY Symmetry
CHECK_DEADLOCK FALSE
