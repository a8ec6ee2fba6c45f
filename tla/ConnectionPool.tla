--------------------------- MODULE ConnectionPool ---------------------------
(***************************************************************************)
(* The pool of PostgreSQL connections that all handlers of the gateway     *)
(* share (gateway-api/src/runtime/db.ts): a query takes a connection for   *)
(* itself, a transaction keeps one from BEGIN to COMMIT, and who finds     *)
(* none free waits in a queue, at most connectionTimeoutMillis.            *)
(*                                                                         *)
(* A handler is what it asks of the pool: phases, each of which asks for a *)
(* number of connections at once (1 for an await, more for a Promise.all). *)
(* Handlers that return early stop after any phase.  Statements fail and   *)
(* waits time out; the connections themselves are not lost.                *)
(***************************************************************************)
EXTENDS GatewayRequests, Naturals, Sequences, FiniteSets, FiniteSetsExt

CONSTANTS
  PoolMax,         \* connections of the pool: 6
  ProviderRows     \* bound: integration providers in the database

ASSUME PoolAssumption == PoolMax \in Nat \ {0} /\ ProviderRows \in Nat /\ IsFiniteSet(Requests)

VARIABLES
  free,            \* connections nobody uses
  waiting,         \* who waits for a connection, first come first served
  progress             \* what each request does

poolVars == <<free, waiting, progress>>

Query(n) == [asks |-> n, does |-> "query"]
Reads(counts) == [i \in DOMAIN counts |-> Query(counts[i])]

\* Mutant: a statement of the callback goes to input.db instead of the client.
TransactionAskingPool == <<[asks |-> 1, does |-> "begin"], [asks |-> 1, does |-> "commit"]>>
(* One connection; the callback's statements and COMMIT run on it. *)
Transaction == <<[asks |-> 1, does |-> "begin"], [asks |-> 0, does |-> "commit"]>>
-----------------------------------------------------------------------------
(* The queries of the handlers without a transaction, for a caller with a JWT: 1 for *)
(* the session first where it is checked.                                            *)
SessionReads == {<<1>>}                                      \* me, sessions
ActivityReads == {<<1>>}
ResetRequests == {<<1>>}                                     \* one INSERT
ModuleReads == {<<1, 1>>, <<1, 1, 1>>}                       \* list; detail, events
PluginReads == {<<1, 2>>, <<1, 1, 1>>}                       \* list; detail, events
ProviderReads == {<<1, 1, 3 * ProviderRows>>, <<1, 1, 3>>}   \* list: 3 of every provider; detail
CredentialReads == {<<1, 1>>}
ProviderHealthReads == {<<1, 1, 1>>}
ProviderEventReads == {<<1, 1, 1>>}
SellerReads == {<<1, 2>>, <<1, 1, 3>>, <<1, 1, 1>>}          \* lists; detail; application
KycReads == {<<1, 1, 1>>, <<1, 1>>}                          \* events, documents; all documents
ProductReads == {<<1, 2>>, <<1, 1, 3>>}                      \* list; detail
VariantReads == {<<1, 1, 1>>}
CategoryReads == {<<1, 2>>}
ProductEventReads == {<<1, 1, 1>>, <<1, 1>>}                 \* events; sync jobs
OrderReads == {<<1, 2>>, <<1, 1, 5>>}                        \* list; detail
OrderItemReads == {<<1, 1, 1>>}
OrderEventReads == {<<1, 1, 1>>}                             \* events, returns
RefundReads == {<<1, 1, 1>>}
OrderJobReads == {<<1, 1>>}
ThemeReads == {<<1, 2>>, <<1, 1>>, <<1, 1, 1>>}              \* list; industries; detail
TenantThemeReads == {<<1, 1, 3>>}
ThemeEventReads == {<<1, 1, 1>>}
TenantReads == {<<1>>, <<1, 6>>}                             \* registry; detail
WorkspaceReads == {<<1, 1, 1>>}
ControlCenterReads == {<<7>>}
RuntimeReads == {<<1, 1>>, <<1>>}                            \* queue; audit
BridgeReads == {<<1>>}
DemoReads == {<<1, 4>>}
OdooReads == {<<1, 3>>}
AiReads == {<<1>>}

PlainHandlers == {Reads(counts) : counts \in UNION {
  SessionReads, ActivityReads, ResetRequests, ModuleReads, PluginReads, ProviderReads,
  CredentialReads, ProviderHealthReads, ProviderEventReads, SellerReads, KycReads, ProductReads,
  VariantReads, CategoryReads, ProductEventReads, OrderReads, OrderItemReads, OrderEventReads,
  RefundReads, OrderJobReads, ThemeReads, TenantThemeReads, ThemeEventReads, TenantReads,
  WorkspaceReads, ControlCenterReads, RuntimeReads, BridgeReads, DemoReads, OdooReads, AiReads}}

(* Login, refresh, logout and bridge jobs check no session first; the registry and *)
(* the vault do; marketplace, catalog and orders read the module flag too, and a   *)
(* sync its row.                                                                   *)
WriteHandlers == {Reads(counts) \o Transaction : counts \in {<<>>, <<1>>, <<1, 1>>, <<1, 1, 1>>}}
(* Refused for the module or for Medusa, which is recorded outside a transaction. *)
RefusedHandlers == {Reads(<<1, 1, 1>>), Reads(<<1, 1, 1, 1>>)}
(* handleDemoSeed and handleDemoCleanup: demoStatusPayload follows the transaction. *)
DemoWrites == Reads(<<1>>) \o Transaction \o Reads(<<4>>)

Handlers == PlainHandlers \union WriteHandlers \union RefusedHandlers \union {DemoWrites}
-----------------------------------------------------------------------------
Over == [handler |-> <<>>, at |-> 0, running |-> 0, kept |-> FALSE,
         committed |-> FALSE, answer |-> "ok"]

PoolInit == free = PoolMax /\ waiting = <<>> /\ progress = [r \in Requests |-> Over]

Waits(r) == \E i \in DOMAIN waiting : waiting[i] = r
Phase(r) == progress[r].handler[progress[r].at]

(* pulseQueue: connections go to the queue's head while there are any. *)
HandOut(then, connections, queue) ==
  LET n == IF Len(queue) < connections THEN Len(queue) ELSE connections
      served(r) == Cardinality({i \in 1 .. n : queue[i] = r}) IN
  /\ progress' = [r \in Requests |-> [then[r] EXCEPT !.running = @ + served(r)]]
  /\ free' = connections - n
  /\ waiting' = SubSeq(queue, n + 1, Len(queue))

AskFor(c, r, n) == HandOut([progress EXCEPT ![r] = c], free, waiting \o [i \in 1 .. n |-> r])
GiveBack(c, r, n) == HandOut([progress EXCEPT ![r] = c], free + n, waiting)

Arrives(r, handler) ==
  /\ progress[r].answer # "none" /\ progress[r].running = 0 /\ ~Waits(r)
  /\ AskFor([Over EXCEPT !.handler = handler, !.at = 1, !.answer = "none"], r, handler[1].asks)

(* A query is done, also one whose request has been answered. *)
QueryDone(r) ==
  /\ progress[r].running > 0
  /\ LET c == [progress[r] EXCEPT !.running = @ - 1] IN
     IF progress[r].answer = "none" /\ Phase(r).does = "begin"
     THEN /\ progress' = [progress EXCEPT ![r] = [c EXCEPT !.kept = TRUE]]
          /\ UNCHANGED <<free, waiting>>
     ELSE GiveBack(c, r, 1)

(* The phase is done: COMMIT and release, or the next phase. *)
Ready(r) == progress[r].answer = "none" /\ progress[r].running = 0 /\ ~Waits(r)
Committed(r) ==
  /\ Ready(r) /\ Phase(r).does = "commit" /\ progress[r].kept
  /\ GiveBack([progress[r] EXCEPT !.kept = FALSE, !.committed = TRUE], r, 1)

Continues(r) ==
  /\ Ready(r) /\ (Phase(r).does = "commit" => ~progress[r].kept)
  /\ progress[r].at < Len(progress[r].handler)
  /\ LET next == progress[r].at + 1 IN
     AskFor([progress[r] EXCEPT !.at = next], r, progress[r].handler[next].asks)

AnswersOk(r) ==
  /\ Ready(r) /\ ~progress[r].kept
  /\ progress' = [progress EXCEPT ![r].answer = "ok"]
  /\ UNCHANGED <<free, waiting>>

(* A statement throws: the answer is 500, 503 or an empty state; a transaction rolls *)
(* back and releases, the other queries of a Promise.all go on.                      *)
Throws(r) ==
  /\ progress[r].running > 0 \/ (progress[r].kept /\ ~Waits(r))
  /\ LET n == IF progress[r].kept THEN 1 ELSE 0
         m == IF progress[r].running > 0 THEN 1 ELSE 0 IN
     GiveBack([progress[r] EXCEPT !.running = @ - m, !.kept = FALSE,
                              !.answer = IF @ = "none" THEN "error" ELSE @], r, n + m)

(* connectionTimeoutMillis of who waits longest. *)
TimesOut ==
  /\ waiting # <<>>
  /\ LET r == Head(waiting)
         n == IF progress[r].kept THEN 1 ELSE 0 IN
     HandOut([progress EXCEPT ![r].kept = FALSE,
                              ![r].answer = IF @ = "none" THEN "error" ELSE @],
             free + n, Tail(waiting))

PoolNext ==
  \/ TimesOut
  \/ \E r \in Requests :
       \/ \E handler \in Handlers : Arrives(r, handler)
       \/ QueryDone(r) \/ Committed(r) \/ Continues(r) \/ AnswersOk(r) \/ Throws(r)
-----------------------------------------------------------------------------
(* The pool never stands still while somebody waits, whichever handlers meet in it    *)
(* and although several ask for more connections than there are: all connections are  *)
(* then in use, and at least one by a request that does not itself wait.  No          *)
(* connection is lost to a failure.  And an error means that nothing was written,     *)
(* but for a demo seed or cleanup whose status query failed after its COMMIT.         *)
PoolServes ==
  /\ free + MapThenSumSet(LAMBDA r : progress[r].running, Requests)
       + Cardinality({r \in Requests : progress[r].kept}) = PoolMax
  /\ waiting # <<>> =>
       /\ free = 0
       /\ \E r \in Requests : progress[r].running > 0 \/ (progress[r].kept /\ ~Waits(r))
  /\ \A r \in Requests :
       /\ progress[r].answer # "none" => ~progress[r].kept
       /\ progress[r].answer = "error" /\ progress[r].committed => progress[r].handler = DemoWrites
=============================================================================
