# Formal model of Commerce OS

TLA+ specifications of the stateful core of this repository, TLC runs that check them on
small instances, and TLAPS proofs of their safety properties for every size of instance. All paths below are under `src/`; `OR`
is `apps/gateway-api/src/http/operational-runtime.ts`, where nearly every handler lives.

## 1. The system

One Node.js gateway (`apps/gateway-api`) serves JSON over HTTP and keeps all its state in
PostgreSQL. A Next.js server (`apps/central-admin`) sits between an administrator's browser and
the gateway and keeps the session in cookies. Other services answer health checks, except the
realtime gateway, which holds WebSocket presence in memory.

Every handler that writes runs in `db.transaction` (`runtime/db.ts:50-87`): BEGIN, the handler's
statements, COMMIT, and ROLLBACK on an exception. The isolation level is PostgreSQL's default,
READ COMMITTED, and no statement in the repository says `FOR UPDATE`. A handler therefore reads,
decides in JavaScript, and writes blindly; anything another request commits in between is unseen.
That is the one hazard most of this project is about.

| Component | State | Operations | Hard behaviour | Correct when |
|---|---|---|---|---|
| Authentication (`OR` 700-731, 1551-2056; `auth-verifier.ts`) | sessions, refresh families, refresh tokens, signed access tokens | login, refresh, logout, revoke, the check of protected calls | rotation racing rotation, logout and reuse detection; late commits; clocks | closed stays closed; a family is one tree of rotations; reuse closes the family |
| Session client (`gateway-session.ts`, API routes, pages) | three cookies per browser, requests under way and their calls | sign-in, sign-out, fetch with one refresh and one retry | answers out of order or lost, several calls of one request in parallel, pages that may not write cookies | cookies name one session; every request is answered; an honest browser is not flagged |
| Orders (`OR` 4815-5472) | order row, items, returns, refunds, sync jobs | create, PATCH, confirm, cancel, paid, fulfilled, item create and update, return and refund create and review, queue sync | recomputed totals from stale snapshots, write skew of refund approvals, confirm against cancel, columns that round on their own | amounts add up within the rounding of one write; totals and payment status follow the rows they summarise |
| Marketplace sellers and KYC (`OR` 3336-4100) | applications, KYC documents, sellers | create, update, submit, approve, reject, suspend, reactivate; document create, update, approve, reject | two approvals, documents that change under an approval | an approved seller has approved documents |
| Catalog (`OR` 4111-4800) | products, variants, categories, sync jobs | create, update, moderate, archive, queue sync | blind moderation over moderation; a snapshot from two statements; category cycles; a flag read before the transaction | a product's three statuses tell one story; the tree is a tree; nothing is written while the module is off |
| Modules, plugins, themes (`OR` 2094-2700, 5514-5890) | flags, settings, one theme per tenant | enable, disable, activate, deactivate, assign, settings | dependencies that are disabled under an enable; settings that arrive after another assignment | what is switched on stands on enabled modules |
| Integration vault (`OR` 2716-3330) | encrypted credentials, health rows, policies | create, update, delete, test, policy update | a test verdict over a newer payload; lost updates; NaN | what is shown of a credential is about the payload stored |
| Bridges and outbox (`OR` 1506, 5928-6120, 6469-6545) | sync jobs, event outbox, tenants | queue a bridge job, create a tenant | retries, keys shared by two bridges | every job has its event, and one |
| Demo mode (`OR` 6550-7011) | marked rows in every business table, recorded module flags | seed, cleanup | repeated and alternating runs, rows edited in between, cascades | cleanup restores what seed changed, and leaves no marked row |
| Request pipeline (`server.ts`, `rate-limit.ts`, `retry.ts`, `health-matrix.ts`) | rate-limit windows | admit, health matrix with retried probes | window boundary; the gateway probes itself through its own limiter | limits hold wherever a window is laid; the gateway refuses its own probe only for a reason |
| Database access (`db.ts`) | a pool of 6 connections and its queue | query, transaction | Promise.all of more queries than connections, timeouts, failures | no connection is lost, nobody waits on himself |
| Realtime (`services/realtime/src/server.ts`) | presence map, subscriptions | upgrade, message, close | token checked only at upgrade; messages after the transport's end | channels stay inside tenant and workspace |
| Bootstrap (`scripts/platform-bootstrap.ts`) | administrator's rows, the registry's manifest | a run, its retry in the container | overlapping runs, no unique constraint, a commit whose answer is lost | one password, one grant; a manifest that can be enabled |
| Panels (`central-admin/src/components`) | list, selection, details, busy flag per panel | load, select, change | answers out of order, lost calls | the panel comes to show what the server has |

Interactions: browser → panel → session client → gateway → pool → database. The gateway's feature
handlers read the module flags (`platform_modules`); catalog and orders read the sellers of the
marketplace; bootstrap writes the flags' rows, the registry and demo mode the flags; demo cleanup
deletes rows of every other component. Sync jobs and the outbox are written and never consumed in
this repository.

## 2. Modules and what they correspond to

| Module | Models | Checked by |
|---|---|---|
| `SessionContract` | the promise about a sign-in: rights that only shrink, work admitted only while its right exists | as the property `KeepsContract` |
| `AuthSessions` | the gateway's authentication handlers over the rows of `auth_core` | `MCAuthSessions` |
| `AuthSessionsProofs` | theorems about `AuthSessions` | TLAPS |
| `AdminSession` | the session client, composed with `AuthSessions` (it EXTENDS it and conjoins its actions) | `MCAdminSession` |
| `AdminSessionProofs` | theorems about the two together | TLAPS |
| `CommerceOrders` | one order with its items, return, refunds and Medusa sync jobs | `MCCommerceOrders` |
| `CommerceOrdersProofs` | theorems about `CommerceOrders` | TLAPS |
| `SumTheorems` | what the sums of the community modules' folds add up to, shared by the proofs | TLAPS |
| `SellerOnboarding` | seller applications, KYC documents, sellers | `MCSellerOnboarding` |
| `SellerOnboardingProofs` | theorems about `SellerOnboarding` | TLAPS |
| `CommandQueue` | the promise to clients that retry: each command carried out and announced once | as the property `KeepsPromise` |
| `CommandRetries` | bridge jobs, tenant creation, order creation and the event outbox under retries | `MCCommandRetries` |
| `CommandRetriesProofs` | theorems about `CommandRetries` | TLAPS |
| `PlatformManifest` | the modules, plugins, themes and providers that bootstrap writes, with what each requires | by the two modules that use it |
| `GatewayRequests` | what handlers share: reads, then a write; requests that overlap or come one at a time | by the modules that extend it |
| `ModuleRegistry` | the flags, theme assignments and their settings | in `DemoMode` |
| `DemoMode` | seed and cleanup over the registry and over rows that other handlers edit | `MCDemoMode` |
| `DemoModeProofs` | theorems about `DemoMode` and the registry in it | TLAPS |
| `CatalogProducts` | products, moderation, variants, the category tree, sync jobs | in `GatewayServices` |
| `IntegrationVault` | credentials, their tests, resilience policies | in `GatewayServices` |
| `RequestPipeline` | the rate limiter and the health matrix that passes it | in `GatewayServices` |
| `RealtimePresence` | sockets, presence, subscriptions | in `GatewayServices` |
| `AdminPanels` | the fetch handlers of sixteen panels | in `GatewayServices` |
| `PlatformBootstrap` | overlapping and repeated bootstrap runs, then operators who enable modules | in `GatewayServices` |
| `ConnectionPool` | the connection pool under the handlers' demands | in `GatewayServices` |
| `GatewayServices` | the seven of them side by side | `MCGatewayServices` |
| `GatewayServicesProofs` | theorems about each of the seven | TLAPS |

The database modules share one shape. A handler that selects, checks and then writes is two
actions or three: `...Begin` (or the operation's own name) is what its statements read, kept in `tx[r]`; `...Commit`
is its writes with COMMIT; `Abort` is the rollback. What it does not re-check at the commit is not a guard of
the commit. A handler whose reads cannot go stale is one action.

### AuthSessions

`session`, `family` and `token` are the rows of `auth_core.sessions`, `refresh_token_families` and
`refresh_tokens`; `issueSession` makes one family per session, so a family is named by its session.
`account` is what login reads about a principal and nothing modelled ever changes. `accessEnds` is when
the last access token signed for a session expires; older ones expire earlier, so it decides whether
somebody may still present a valid JWT. `tx` is what each request has read and not committed.

A refresh is two steps. `RefreshBegin` is the SELECT (the answer is decided there, from that row
alone); `RefreshCommit` is UPDATE used_at, INSERT and COMMIT, and `ReuseCommit` is the update of the
family. Every guard of the handler is in `Refreshable`; note what is not: the session's 12-hour
expiry, and the workspace grant. `Abort` is the rollback. Login is one step: what it writes nobody
sees before, and nothing it reads changes. Logout and revoke are three: `Logout` and `SessionRevoke`
are the SELECT, `RevokeScan` is the three UPDATEs, of which the last determines the token rows to be
revoked (`doomed`), and `RevokeCommit` shows what they wrote to the others. In between everybody still reads the
session as active, so refreshes, even a chain of them, commit tokens that the revocation
does not know. From `RevokeScan` on the rows of session and family are locked (`Closing`): a second
revocation and a `ReuseCommit` wait. The locks on the token rows are left out; they would only take orders away.
`CallBegin` is `hasActiveJwtSession`; `CallEnd` is the end of the handler behind it, which runs on another
connection. Refused requests change nothing and are not actions.

### AdminSession

`jar` is the browser's cookies, `page[p]` a request the Next.js server works on with a copy of them, and
`call[q]` one of its calls to the gateway, as the request `q` of `AuthSessions`; `Home` says whose it is. A request of
kind `route` or `signout` makes one call. Those of kind `page` and `dashboard` ask `/v1/auth/me` first and, when
that is answered with a 2xx, make all their calls in one `Promise.all` (`CallsInParallel`:
`app/api/runtime/dashboard/route.ts:9-21`, `getDashboardRuntime` in `runtime-data.ts:68-96`). A page that starts with two
parallel calls, as `app/orders/page.tsx:11` does, is one whose first call changed nothing.

Each call is `gatewayFetchWithRefresh`: call, 401, refresh, retry, once (`CallServed`, `CallRefused`, `RefreshSent`,
`RefreshAnswered`). It reads the cookies when it is sent and again when it refreshes, so parallel calls see what
the others have written by then. What a request wrote reaches the browser with its answer (`Delivered`); a page
rendered on the server may not write cookies (`allowCookieMutation: false`) and loses the tokens it was
given. Sign-out clears the cookies whatever its call came to (`Settled`).

A browser with the habit `any` opens what it likes and loses what can be lost: `FetchThrows` is a
fetch to the gateway that rejects, whatever the gateway did with it, and `Dropped` an answer that does not reach the
browser. Next.js answers 500 as soon as one of the parallel fetches rejects, here when the others have ended: their cookies go
nowhere either way. One with the habit `careful` uses routes of one call, one at a time, and loses nothing.

### CommerceOrders

`order`, `item`, `goods` (the return), `refund` and `job` are rows of the five tables; orders never touch each other, so one is enough.
PATCH writes every column back, from the body or from what it read (`Patched`). An item write
inserts or updates its line and then recomputes the totals in an UPDATE with a subquery: `tx[r].rows` is
what that subquery saw, and `ItemCommit` puts the sums over the order row *as it is when its lock
is granted*, which is what READ COMMITTED does. A refund approval sums the approved refunds it
sees (`RefundApprove`) and commits later; a sync request takes the order from one SELECT and the items from
the next (`SyncBegin`, `SyncCommit`). A return is created, reviewed in any order and as often as
somebody likes (`ReturnReview` has no guard in the code); it changes nothing else of the order, and a
refund may name it whatever its verdict.

Columns count units of the fourth decimal, bodies carry `Parts` of a unit, and `Rounded` is what `numeric(18, 4)` keeps,
of each column on its own. Create and PATCH compute the total from what they hold (the body's parts, or the row's
units) and then round it like the rest (`Created`, `Patched`); a line's total comes from the unrounded
price and quantity, while the recompute multiplies the quantity by the price that was kept (`Line`). The stored total
therefore differs from the sum of the stored parts; `AmountsAddUp` says by how much at most, and that
no sequence of writes adds one error to another.

### SellerOnboarding

`application`, `document`, `seller` are the three tables. Approval reads the application (`ApplicationApprove`), then its
documents (`DocumentsChecked`), then writes seller, application and documents (`ApproveCommit`): it
inserts a seller, or revives the one the application was already linked to. A document's edit decides its
new status from the row as it is (the UPDATE's CASE), not as it was read. `overlap`, chosen in
the initial state, says whether requests overlap in a behaviour, so that one run checks both what
survives overlap and what holds without it.

### CommandRetries

A client sends a command up to three times (`docs/retry-strategy.md`); copies work in any order, fail, or lose
their answers. `KeyOf` is the idempotency key of a copy: the header's, or one with a random UUID. `QueueJob` upserts the job in its
bridge's table and adds the event under the same key unless the outbox has one. `CreateTenant` and `TenantConflict`
are the two outcomes of tenant creation; `CreateOrder` inserts under a random id.

### GatewayRequests, ModuleRegistry, DemoMode

`work[r]` is what request `r` has read and not yet used; `Begins`, `GoesOn`, `Ends`, `Aborts` and
`AtOnce` are the ways a handler moves through it. `overlap` has the same role as in
`SellerOnboarding`. The registry's handlers compare, in JavaScript, the required modules with the
enabled ones they have read (`NoneMissing`), then write one flag. `Disable` never asks who depends on
the module: only `is_core` stops it. A tenant's `settings` are known by the theme they were written for.

`DemoMode` adds `rows` (absent, marked, or real) and `recorded`, the flags the latest seed found. A
seed inserts with fixed ids, so a leftover row makes it fail. A cleanup deletes order rows first
(`CleanupBegin`, from when they are locked), the others as they are later (`CleanupCommit`), with
what hangs from them ON DELETE CASCADE, drops the schema, and restores the record. `MetadataReplaced`
and `RowAdded` are what ordinary PATCH and POST handlers do: where a body carries metadata (`Bodies`: orders,
items, documents) it is stored as it is, so it may drop the mark, put it back, or put it on a row that no seed
inserted. The same goes for the settings of a theme: a cleanup may take the assignment of a real tenant of the demo slug
with it. `TenantReserved` is that tenant.

### CatalogProducts

A mutation checks the flag, the seller and the category before its write (`Mutation`, `...Begin`) and then writes
blindly (`ProductModerated` and the rest): of the moderation steps only submit looks at the row. A sync
waits for Medusa, reads the product, then its variants, and then queues (`SyncBegin` to `SyncQueued`). That
the tree is a tree is `Forest`: no set of categories holds the parents of all its members. `ModuleSwitched`,
`SellerReviewed` and `CategoryCleaned` are the steps of the other components that it must live with.

### IntegrationVault

A payload stands for what is encrypted, a summary for the payload it was computed from. `judged` is the
payload the last test looked at, so that verdict and payload can be compared. `SchemaReplaced` is a bootstrap of
another release, without which no stored payload could become invalid. `UnderTest` is the foreign key of the
test's event, which makes a delete wait.

### RequestPipeline, RealtimePresence, ConnectionPool

`PassesLimiter` is `checkRateLimit`; `MatrixRequested` passes it once for its caller and
`SelfProbe` again for the gateway's own `/health` call, up to `Attempts` times (`Reports` is `withRetry`). A probe
that reaches the limiter is answered, refused (`http_429`) or given up after 3 s; one that does not (refused connection, a
`gatewayUrl` that is wrong) fails or is answered by somebody else, who is assumed not to limit. `admitted` counts what
was let through at each time, to compare with sliding windows.

`socket` is the transport, `presence` the map of the code; between `TransportEnds` and
`CloseHandled` messages that had arrived are still handled.

In `ConnectionPool` a handler is a sequence of phases, each asking for so many connections at once;
the sets `...Reads` list them by handler, and `WriteHandlers` and `DemoWrites` the ones with a
transaction, which keeps its connection from `begin` to `commit`. `HandOut` is the library's queue. A request
that failed leaves the other queries of its `Promise.all` running, as the code does.

### AdminPanels

A panel is a record: which rows a button changes, what is loaded afterwards on success and on
refusal, whether one flag disables all buttons or each its own row. `call[t]` is the fetch a handler
awaits; several handlers interleave at their awaits. `stored` and `list` count changes on the server and in
the list shown. `FetchThrows` is a rejected fetch, which no handler catches. A refused change may have altered
the rows all the same (`Serve`): a credential's test commits its verdict before it answers 422 (`OR` 3092-3100), a demo seed or
cleanup reads its status after COMMIT, and the BFF answers 500 when the gateway's answer is lost. `missed` remembers
that until rows are loaded again (`Shown`).

### PlatformBootstrap, PlatformManifest

A run is one transaction; `BootReads` waits for the row of tenant `platform`, which every run upserts
before it reads anything, and holds it until commit. `Again` is the second attempt inside the container.
After that `OperatorsEnable` enables, round by round, what `Dependencies` allows.

### GatewayServices

`scene` chooses the component a behaviour is about; the others stand still. They meet each
other in the code only by steps that their own modules contain, so that one run can check seven
without multiplying their states.

## 3. Runs

| Run | Instance | Shows |
|---|---|---|
| `auth_safety` | 2 sessions, 4 tokens, 2 requests, clock to 3 | type, `ClosedSessionHasDeadFamily`, `RotationTree`, `UndetectedReuseBounded`, `LeftBehindOnlyShrinks`, `RevocationIsFinal`, and `KeepsContract` (refinement of `SessionContract`) |
| `auth_overlap` | 1 session, 2 requests | `ReusedTokenClosesFamily` is violated (finding 1) |
| `admin_races` | 2 sessions, 3 tokens, 2 requests of every kind with 2 calls and 1, browsers of both habits | `CookiesOfOneSession`, `HonestBrowserNeverFlagged` |
| `admin_answers` | 1 session, 3 tokens, 1 request of every kind with 2 calls, another device, losses, fairness | `EveryPageAnswers`, `ClosedSessionDrains` |
| `admin_mfa` | one sign-in | `NoFakeSignIn` is violated (finding 2) |
| `orders` | 2 items, 2 refunds, a return, 1 job, 2 requests, amounts in fifths of a unit | type, `AmountsAddUp`, `JobsOfConfirmedOrders` under overlap too; `TotalsFollowItems`, `PaymentFollowsRefunds`, `CancelledUntilPatched` one request at a time |
| `sellers` | 1 application, 2 documents, 2 sellers, 3 requests | type, `ApprovedHasSeller`, `SellersWereSubmitted` under overlap; `OneSellerEach`, `ApprovalSeesDocuments`, `ApprovedDocumentStands` without |
| `retries_keyed` | 2 commands of every kind, 3 sends each, no key used twice | type, `AnswersAreTrue`, `JobsAreAnnounced`, and `KeepsPromise` (refinement of `CommandQueue`) |
| `retries_orders` | 1 order creation, 3 sends | `NoDuplicates` is violated (finding 3) |
| `registry` | 5 modules of the manifest, 1 plugin, 2 themes, 1 request, every seeded row, every row that a body can mark, and three added ones | `RegistryAgrees`, `DemoIsWhole`, `ActivatedOnEnabledModules` |
| `demo_boundary` | the same, 1 request | `CleanupDeletesOnlyDemo` is violated (finding 4) |
| `services` | each scene as below | `ProductTellsTruth`, `CategoriesHoldTogether`, `CatalogGated`, `VaultSpeaksOfStored`, `LimiterBounds`, `ListensInScope`, `PanelsComeToRest`, `OneAdministrator`, `ManifestWithinReach`, `PoolServes` |

Bounds. `MaxTime` bounds the clock, and the lifetimes 1 < 2 < 3 keep the order of 15 minutes,
12 hours and 30 days, so every order of expiries happens. Two requests are enough for most races here:
each is between one stale read and one commit; sellers get three, for two approvals and what happens between them.
Four tokens allow a login, a rotation, a second rotation of the same token and a rotation of its successor. Two calls
stand for the four or five that the dashboard makes in parallel: what they race for is one token. `Alone` in
`MCAdminSession` looks at parallel calls while the browser's other request is closed; two pages that overlap with
a call each are looked at in full. In `orders` a unit has five parts, and a price of 12 with a tax of 2
and a discount of 3 are 2.4, 0.4 and 0.6 units: kept as 2, 0 and 1, their total as 2 (2.2), so that a row adds up
only within its rounding. With shippings of 0 and 4 and the bodies of PATCH a discount stays under and exceeds the rest, and refunds
fall short of, equal and exceed the total.
`Bounded` in `MCCommerceOrders` splits the run: what holds under overlap is looked at with one item, what holds
without it with two items and two refunds, or with a return. `MaxAttempts` is 3 in the document; six keys give
each of two commands a fresh random key at every send.

In `registry` requests come one at a time, as its properties ask. The slice of the manifest has dependencies between its modules (seller_kyc on
marketplace, extension on orders), and a module that is not core, which the manifest has not but the table allows. In
`services`: the product scene has a product, a variant and two requests; the category scene has three
categories, enough for a circle that is not direct; the vault two payloads and two schemas; the limiter a limit of 2 in a window of 2 over
five instants, so that a window can be laid across two of the code's; the socket two tenants and two workspaces; panels two rows, two
handlers under way and two changes; bootstrap two runs of two attempts. The pool has 2 connections for the code's 6 and its
provider list 2 providers (3 queries each), so that several handlers ask for more than there is, as
`handleControlCenter` (7 of 6) does in the code; each handler's demands are the code's.

Once the clock, the ids and the attempts are used up
the instance stops, which the gateway does not: these configurations say `CHECK_DEADLOCK FALSE`.
Symmetry is used only where no liveness is checked.

Fairness. `FairAdminSpec` says that a request under way ends: a query on a pooled connection
answers or fails, `db.transaction` then commits or rolls back, and the Next.js handler around it
goes on (`PoolServes` says that no circle of waiting for connections can prevent it). A revocation that waits for a
row lock waits for a request that ends. `FairSpec` says the same of the gateway alone. Nothing is assumed of browsers, clocks or users.

### What the runs found

1. Reuse detection is not atomic with rotation (`OR` 1812-1826). Two refreshes that read the same
   unused token are both accepted, and the family stays active; `packages/auth-core/src/index.ts:281-283`
   promises otherwise. `UndetectedReuseBounded` says how much can slip through.
2. The sign-in route treats every 2xx as a session (`app/api/auth/login/route.ts:32`), the 202 of an
   MFA challenge too: it answers `ok` and stores undefined tokens.
   `docs/operational-runtime-phase-report.md:57` says MFA paths never report a fake success.
3. Order creation reads no idempotency key (`OR` 5007-5057), so a retry after a lost answer makes a
   second order; `docs/retry-strategy.md:13-14` says retries must not. The other create handlers of
   commerce, catalog and marketplace insert in the same way.
4. Demo cleanup deletes unmarked rows (`OR` 6941-7011): it drops the schema `tenant_demo_market` whoever made it, and
   the deletes of marked orders and products cascade to items and variants that were added to them;
   `docs/ui-reality-check.md:13` says it deletes only what is marked.

Observations no document contradicts:

- An honest browser is taken for a thief as soon as a page refreshes for it, the dashboard's parallel calls
  refresh one token together, two of its routes
  overlap, or an answer is lost (each condition of a careful browser is needed); a refresh still
  succeeds after the session's 12 hours are over, although every protected call is then refused; any
  failure of a refresh, a 503 too, signs the browser out.
- Tokens inserted between a revocation's UPDATE of the token rows and its COMMIT keep `revoked_at IS NULL`, as many as
  refreshes fit in between. They are harmless: session and family are revoked, and a refresh asks for both.
- The stored total of an order differs from the sum of its stored parts by up to two units of the fourth decimal
  after create or PATCH, by more after a line of many pieces with a price of more than four decimals.
- With overlap, the last three properties of `orders` fail: two item writes miss each other's line, two refund
  approvals both say `partially_refunded`, a confirm overwrites a cancellation.
- With overlap, the three serial properties of `sellers` fail too: two approvals make two sellers, a document
  is rejected between the check and the insert, an edit replaces what was just approved.
- A key used for a job of each bridge leaves the second job without an event (set `KeysApart` to FALSE
  and check `JobsAreAnnounced`): the job tables are unique per bridge, the outbox is not.
- A tenant creation whose answer was lost is refused (409) to its own retry; a retried bridge job is answered with a fresh
  `eventId` that is not in the outbox, because the insert did nothing.
- With overlap, `ActivatedOnEnabledModules`, `CatalogGated` and the parts of `RegistryAgrees`, `CategoriesHoldTogether` and
  `VaultSpeaksOfStored` that say `~overlap` fail: each check is made on what was read, and the write does not repeat it.
- `platform-bootstrap.ts` marks all 26 modules as core, so `handleModuleDisable` refuses every one of them: in practice only a
  demo cleanup switches a module off.
- A category with children can be moved below itself; the code refuses only the direct self-reference.
- A product that is approved and archived can still be queued for Medusa; nothing in the repository sets
  `sync_status` to `synced`. A refund may name, and be approved for, a return that was rejected.
- A demo order whose metadata is replaced outlives every cleanup, and its fixed id makes every later seed fail; a real
  order, item or document whose body says `demo: true` is deleted by the next cleanup.
- Demo seed and cleanup commit before they read the status they answer with: a failure there is reported as an error.
- Handlers of catalog, orders and marketplace are returned, not awaited, by their route, so that the `try`
  around it never sees their errors: an unavailable store is a 500 there, a 503 elsewhere.
- A policy body with a number that is no integer passes the range check as NaN and ends in a 500, not a 422.
- Nothing unique protects an administrator's password and grant; what keeps overlapping bootstraps apart
  is the row lock of an unrelated upsert (make it DO NOTHING and `OneAdministrator` fails).
- After a credential test that fails, the vault panel keeps showing the status from before: the handler commits
  `invalid` and answers 422, and the panel refreshes nothing on a refusal (`integration-vault-panel.tsx:201-206`).
- In the panels with a flag per row an older answer re-enables the button of a newer change, and a
  rejected fetch leaves a button disabled until the page is loaded again.
- `pg.Pool` has no error listener: an idle connection that breaks would end the process.

## 4. Proofs

Every invariant and action property of the passing runs is a theorem of its specification, and so are both
refinements. The theorems hold for every value of the constants that satisfies the modules' named assumptions:

| Assumption | Why the code justifies it |
|---|---|
| `LifetimesAssumption` | access tokens live shorter than sessions, and these than refresh tokens (15 minutes, 12 hours, 30 days) |
| `NoneAssumption`, both `RowAssumption`s, `CommandAssumption`, `VaultAssumption`, `CatalogAssumption`, `OnboardingAssumption`, `PanelsAssumption` | the value that stands for NULL, or for no row, is not a row or a key; a tenant command always has a key (`tenant-onboarding:<id>` at least), and the largest number of retries (10) is not below the default of 2 |
| `BrowserAssumption`, `HomeAssumption` | what a browser opens is a page, the dashboard, a route or a sign-out; every call is made for one request or by another device |
| `RegistryAssumption` | what a module, plugin or theme requires are modules |
| `RequestsAssumption`, `PoolAssumption` | at any time finitely many requests are under way, and the pool has at least one connection |
| `OrderAssumption` | items and refunds of an order are finitely many; amounts are not negative, refunds not zero, as the handlers check; a unit has a whole number of parts and a line a largest quantity; a PATCH body has the columns and the values that `Patched` accepts |
| `PipelineAssumption` | limit, window and number of attempts are at least 1 |
| `DemoAssumption` | the manifest's modules that demo mode enables, and those bootstrap enables, are core and closed under dependencies, and the demo theme requires modules that demo mode enables; only orders, items and documents have a PATCH that replaces metadata; what an administrator adds is another order, item or variant. That the whole manifest is closed in this way is the lemma `ManifestClosed` |

Three theorems about `CommandRetries` have the hypothesis `KeysApart`, that no key is used by two commands. It is no
assumption of the module because the code does not enforce it: section 3 says what happens otherwise.
Where a property says `~overlap`, so does its theorem; it holds of behaviours in which requests come one at a time.

### How the invariants are found

A handler writes from what it has read. An invariant of the rows is therefore never inductive as it stands: it needs, for
every request under way, what the read still guarantees at the commit. The proofs have two kinds of it.

- *With overlap*, what can be said of a read is only what nobody undoes. A submitted application stays submitted; a
  row that exists stays; lines that add up, add up in any mixture of old and new lines; variants are never
  deleted, so a job carries at least those announced. The conjuncts are called `Reads`, `ReadsHold` or `Links`.
- *Without overlap*, whoever is under way is alone (`Alone`), and what he has read is still the table (`Fresh`,
  `ReadsStand`, `SerialReads`). Only with this do the checks of the handlers mean something at their commit.

### What is proved

**AuthSessionsProofs.** `TypeCorrect`, `ClosedSessionsStayDead`, `RevocationStaysFinal`, `RotationTreeHolds`,
`ImplementsContract`, `ReuseStaysBounded`, `LeftBehindShrinks`. `IInv` is `TypeOK`, `ClosedSessionHasDeadFamily` and
`Links`: a session has an owner and a family exactly when it was opened; tokens and requests under way point at
opened sessions; the token a request read belongs to the session it read with it; and no token expires
later than one issued now would. Without the links nothing says that the row a commit marks used is of the family whose
new row it inserts, or that the family a reuse closes was ever opened. `RotationTreeHolds` adds the tree itself and
that a row not yet inserted is not used. `NextIsSteps` names the actions, one lemma per kind of write (`RowUpdates`,
`RotatedRows`, `ClosedRows`) says what a step does to the rows, and each preservation proof splits on the
actions. The refinement maps a session's status and its family's to a phase; login opens, reuse
detection fades, logout and revocation close, and a request between its read and its commit is admitted work.
The last two count. The rotations of one token that are done, together with the requests that may still add one, are
never more than the requests there are (`SuccessorsBounded`), because a commit turns a request into a row, and after the first
commit no new request of that kind begins. In the same way the unrevoked rows of a closed session and the refreshes
under way for it only get fewer (`StepLeftBehind`); there are finitely many rows at any time (`RowsCounted`).

**AdminSessionProofs.** `CookiesStayOfOneSession`, for any number of parallel calls: `AdminInv` adds that an access token
never outlives one signed now (`AccessBounded`), and the property says of every request and every call what it says of the
browser, since their cookies come back with the answer. `CarefulNeverFlagged`: a careful browser has one request of one call
at a time, which holds an unused refresh token, and its own is unused until that request has a newer one for it
(`CarefulInv`). `AdminUsesSessions`: composed with the session client, the gateway does only what `AuthSessions`
allows, so all of its theorems hold in the composition.

**CommerceOrdersProofs.** `TypeCorrect`, `AmountsAlwaysAddUp`, `JobsStayConfirmed`; without overlap
`TotalsAlwaysFollowItems`, `PaymentAlwaysFollowsRefunds`, `CancelledStaysUntilPatched`. Any number of items and refunds and
any amounts: that no amount becomes negative (`TypeCorrect`) and that the total is the sum of its parts within the rounding
of one write need that sums are linear, which comes from `SumTheorems`, and how far rounding each of several amounts
can be from rounding their sum (`SumsRounded`, `LineRounded`). Each line is off by at most `LineSlack`; lines that are
so keep the sum of their slacks in any mixture, so it does not matter which of them a recompute saw. And PATCH adds up
anew from the columns it keeps, whatever their total was, so errors never accumulate.

**SellerOnboardingProofs.** `TypeCorrect`, `ApprovedKeepsSeller`, `SellersStaySubmitted`; without overlap
`OneSellerHolds`, `ApprovalsSeeDocuments`, `ApprovedDocumentsStand`. `IInv` adds that who is in review or approved was
submitted (`Submitted`), that sellers have an application (`SellersHaveSource`) and `Reads`.

**CommandRetriesProofs.** `TypeCorrect`; with keys apart `JobsStayAnnounced`, `AnswersStayTrue`, `ImplementsQueue`. `IInv`
says where rows can stand: a job and its event under their command's key or a random key that no command mentions
(`Placed`), both or neither (`Together`); while every copy is still worked on nothing has happened
(`Untouched`). In the refinement a command is done when its first row stands; later copies stutter, for under
its key they find its own row.

**DemoModeProofs.** `TypeCorrect`; without overlap `RegistryStaysClosed`, `DemoStaysWhole`, `ActivatedStandsOnEnabled`, for
every manifest that satisfies `DemoAssumption`. A cleanup may put back an *old* record of flags, recorded before later
enables. That this leaves the demo modules standing on enabled ones needs that every record ever made is closed under
dependencies (`RecordClosed`), which in turn needs the flags closed when a seed records them (`FlagsClosed`). That nothing
marked outlives the demo tenant needs that no order row is marked between the deletes of a cleanup and its COMMIT (`Stands`).

**SumTheorems.** The folds of the community modules are recursive functions. Their sums are reasoned about without
induction: a claim about all subsets of a finite set that were false would be false of a smallest subset (`SmallestSubset`, from
the library's well-founded minimum), and `TotalStep` takes one element from that. `TotalLinear`, `TotalPart`,
`TotalGrows`, `TotalCovers` and `TotalBumped` are what the other proofs cite.

**GatewayServicesProofs.** A behaviour is about one scene: `SceneSteps` says that a step is of that component and leaves the
others alone. What an invariant says of a component's tables holds always; what it says of the requests under
way, which three scenes share, holds in its scene.

| Theorem | Invariant | Beyond the property |
|---|---|---|
| `ConnectionsStayInScope` | `RealtimeInv` | types |
| `AdministratorStaysOne` | `BootInv` | who holds the tenant's row is alone, and what he has read of the administrator is still so |
| `ManifestStaysWithinReach` | `FlagsOfManifest` | flags are of modules of the manifest; the rest is about the manifest alone (`EveryModuleWithinReach` follows its dependencies from the modules without any) |
| `VaultStaysTruthful` | `VaultInv` | an update carries a payload with its own summary; a row under test is not deleted, and without overlap is the row that was read |
| `ProductsStayTruthful`, `CategoriesStayTogether`, `CatalogStaysGated` | `CatalogInv` | jobs are of products that exist; announced variants exist or are carried; a variant is created once; without overlap module and seller are as checked, and a category that gets another parent and is not known to be moved has no children |
| `LimiterStaysBounded` | `PipelineInv` | `Fits`: the running window admitted as many as its bucket counts, the whole of the one before at most the limit, so that a window laid across both admits at most twice the limit; a check that reports `http_429` has seen a full window |
| `PanelsAlwaysComeToRest` | `PanelsInv` | the law each of the panels obeys (`PanelsSound`: who changes a row reloads it), and how the one call of a patient operator stands to what is shown (`Settles`); rows are fresh unless a refused change has altered them (`Fresh`) |
| `PoolAlwaysServes` | `PoolInv` | `Behaves`: who keeps a connection waits for no other; connections free, running and kept are the pool's |

The last one is for a pool of any size and any finite number of requests of every handler. Its hardest step is `HandOut`: as many
leave the queue as there are free connections, and what each request gets is the number of its places among
them; that these numbers add up to the number handed out is shown by a smallest prefix of the queue for which they would not.

### What is only model-checked

- Liveness: `EveryPageAnswers` and `ClosedSessionDrains`. Fairness and ENABLED are outside the prover's reach.
- The four properties that runs find violated.

## 5. Plan

Done: every component with state of its own has a module, and every safety property that the runs check is proved.
Next:

1. Abstract specifications of the components that have none: a product's life as its statuses show it, and the
   pool as a counter of connections, with the existing invariants as their refinement proofs.
2. Type correctness of the seven modules in `GatewayServices` as theorems of their own.

## 6. Not modelled

- Read-only handlers, but for what they ask of the pool; audit, activity and event rows, and the
  password-reset row (written, never read by a decision); module and plugin settings (stored whole by one statement, read by nothing).
- Loss of a database connection: a COMMIT without acknowledgement (in the bootstrap it is modelled), a ROLLBACK that throws, the
  pool's `error` event.
- The error of JavaScript's own sums, which is a small part of a unit below 2^43 units (a unit is 0.0001). An amount
  beyond `numeric(18,4)` makes its statement fail, which is `Abort`.
- JWT encoding, hashing and encryption beyond the fact they establish; parsing of bodies and environment.
- Static contracts, topology and navigation tables, rendering, and the services that keep no state.

`PROJECT.json` lists every component with its status, and every hazard with the properties that cover
it or the reason why none does.
