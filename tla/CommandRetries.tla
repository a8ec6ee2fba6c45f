--------------------------- MODULE CommandRetries ---------------------------
(***************************************************************************)
(* Commands that queue work, sent by clients that retry: bridge jobs for   *)
(* Odoo and Medusa (handleBridgeJob), tenant onboarding                    *)
(* (handleTenantCreate), and the create handlers of commerce, which insert *)
(* a row under a random id (handleCommerceOrderCreate stands for them).    *)
(*                                                                         *)
(* Each handler is one transaction.  The unique indexes on (tenant,        *)
(* idempotency key) make transactions with one key wait for each other, so *)
(* a handler is one step.  Everything here is within one tenant.           *)
(***************************************************************************)
EXTENDS Naturals, FiniteSets

CONSTANTS Commands,     \* what clients want done, once each
          Shapes,       \* what a command may be: [kind, operation, key]
          Keys,         \* idempotency keys
          MaxAttempts,  \* sends of one command: 3 (docs/retry-strategy.md)
          KeysApart,    \* whether clients never use a key for two commands
          None          \* no key, no row

Bridges == {"odoo", "medusa"}
Kinds == Bridges \cup {"tenant", "order"}
JobRow == [operation : {s.operation : s \in Shapes}, payload : Commands]

ASSUME CommandAssumption ==
  /\ \A shape \in Shapes :
       /\ shape.kind \in Kinds /\ shape.key \in Keys \cup {None}
       /\ shape.kind = "tenant" => shape.key # None  \* at least "tenant-onboarding:<id>"
  /\ MaxAttempts \in Nat \ {0}
  /\ None \notin Keys \cup Commands /\ None \notin JobRow
  /\ KeysApart \in BOOLEAN

VARIABLES command,   \* the shape of each command; never changes
          sent,      \* how often the client sent it
          working,   \* copies of it the gateway works on
          told,      \* what the client knows
          job,       \* rows of odoo_sync_jobs and medusa_orchestration_jobs
          outbox,    \* rows of event_outbox, by idempotency key
          tenant,    \* the command that made the tenant's row
          orders     \* rows of commerce_orders made for a command

clientVars == <<sent, working, told>>
vars == <<command, clientVars, job, outbox, tenant, orders>>

TypeOK ==
  /\ command \in [Commands -> Shapes]
  /\ sent \in [Commands -> 0 .. MaxAttempts]
  /\ working \in [Commands -> 0 .. MaxAttempts]
  /\ told \in [Commands -> {"nothing", "accepted", "refused"}]
  /\ job \in [Bridges \X Keys -> JobRow \cup {None}]
  /\ outbox \in [Keys -> Commands \cup {None}]
  /\ tenant \in Commands \cup {None}
  /\ orders \in [Commands -> 0 .. MaxAttempts]

Init ==
  /\ command \in [Commands -> Shapes]
  /\ KeysApart => \A c, d \in Commands :
       c # d /\ command[c].key # None => command[c].key # command[d].key
  /\ sent = [c \in Commands |-> 0]
  /\ working = [c \in Commands |-> 0]
  /\ told = [c \in Commands |-> "nothing"]
  /\ job = [x \in Bridges \X Keys |-> None]
  /\ outbox = [k \in Keys |-> None]
  /\ tenant = None
  /\ orders = [c \in Commands |-> 0]

\* The client sends, and sends again while it has no answer.
Send(c) ==
  /\ told[c] = "nothing" /\ sent[c] < MaxAttempts
  /\ sent' = [sent EXCEPT ![c] = @ + 1]
  /\ working' = [working EXCEPT ![c] = @ + 1]
  /\ UNCHANGED <<command, told, job, outbox, tenant, orders>>

\* One copy is finished; its answer arrives or is lost.
Finishes(c, answer) ==
  /\ working[c] > 0
  /\ working' = [working EXCEPT ![c] = @ - 1]
  /\ \/ told' = [told EXCEPT ![c] = IF @ = "accepted" THEN @ ELSE answer]
     \/ UNCHANGED told
  /\ UNCHANGED <<command, sent>>

Mentioned == {k \in Keys : \E d \in Commands : command[d].key = k}
Taken == {k \in Keys : outbox[k] # None \/ \E b \in Bridges : job[<<b, k>>] # None}

\* The header's key, or a key with a random UUID when the header is missing.
KeyOf(c) == IF command[c].key # None THEN {command[c].key} ELSE Keys \ (Mentioned \cup Taken)

\* createOutboxEvent: ON CONFLICT DO NOTHING.
Announces(c, k) == outbox' = [outbox EXCEPT ![k] = IF @ = None THEN c ELSE @]

\* Mutant: the event is left to a later step.
QueueJobSilently(c) ==
  /\ command[c].kind \in Bridges
  /\ \E k \in KeyOf(c) :
       job' = [job EXCEPT ![<<command[c].kind, k>>] =
                 [operation |-> command[c].operation, payload |-> c]]
  /\ Finishes(c, "accepted")
  /\ UNCHANGED <<outbox, tenant, orders>>

\* Mutant: the operation is left out of the inserted row.
QueueJobWithoutOperation(c) ==
  /\ command[c].kind \in Bridges
  /\ \E k \in KeyOf(c) :
       /\ job' = [job EXCEPT ![<<command[c].kind, k>>] = [operation |-> None, payload |-> c]]
       /\ Announces(c, k)
  /\ Finishes(c, "accepted")
  /\ UNCHANGED <<tenant, orders>>

\* On a conflict the job keeps its operation and takes the new payload.
QueueJob(c) ==
  /\ command[c].kind \in Bridges
  /\ \E k \in KeyOf(c) :
       /\ job' = [job EXCEPT ![<<command[c].kind, k>>] =
                    [operation |-> IF @ = None THEN command[c].operation ELSE @.operation,
                     payload |-> c]]
       /\ Announces(c, k)
  /\ Finishes(c, "accepted")
  /\ UNCHANGED <<tenant, orders>>

\* Mutant: an existing tenant is overwritten.
CreateTenantUnchecked(c) ==
  /\ command[c].kind = "tenant"
  /\ tenant' = c
  /\ \E k \in KeyOf(c) : Announces(c, k)
  /\ Finishes(c, "accepted")
  /\ UNCHANGED <<job, orders>>

CreateTenant(c) ==
  /\ command[c].kind = "tenant"
  /\ tenant = None
  /\ tenant' = c
  /\ \E k \in KeyOf(c) : Announces(c, k)
  /\ Finishes(c, "accepted")
  /\ UNCHANGED <<job, orders>>

\* 409 tenant_slug_conflict, to a retry too.
TenantConflict(c) ==
  /\ command[c].kind = "tenant"
  /\ tenant # None
  /\ Finishes(c, "refused")
  /\ UNCHANGED <<job, outbox, tenant, orders>>

CreateOrder(c) ==
  /\ command[c].kind = "order"
  /\ orders' = [orders EXCEPT ![c] = @ + 1]
  /\ Finishes(c, "accepted")
  /\ UNCHANGED <<job, outbox, tenant>>

\* The transaction rolls back, or the copy never reaches the gateway.
Fails(c) ==
  /\ working[c] > 0
  /\ working' = [working EXCEPT ![c] = @ - 1]
  /\ UNCHANGED <<command, sent, told, job, outbox, tenant, orders>>

Next == \E c \in Commands :
  \/ Send(c) \/ Fails(c)
  \/ QueueJob(c) \/ CreateTenant(c) \/ TenantConflict(c) \/ CreateOrder(c)

Spec == Init /\ [][Next]_vars
-----------------------------------------------------------------------------
JobsOf(c) == {x \in Bridges \X Keys : job[x] # None /\ job[x].payload = c}
EventsOf(c) == {k \in Keys : outbox[k] = c}
Rows(c) == Cardinality(JobsOf(c)) + (IF tenant = c THEN 1 ELSE 0) + orders[c]

(***************************************************************************)
(* "Retries must not create duplicate ERP documents, orders, ... or sync   *)
(* checkpoints" (docs/retry-strategy.md): a command has at most one row,   *)
(* however often it is sent and whichever answers are lost.  An order gets *)
(* a row for every copy that arrives.                                      *)
(***************************************************************************)
NoDuplicates == \A c \in Commands : Rows(c) <= 1

\* Bridge jobs and tenants under a key.
Keyed == {c \in Commands : command[c].kind # "order" /\ command[c].key # None}

(***************************************************************************)
(* Every bridge job "goes to the job table and to the event outbox"        *)
(* (docs/operational-runtime-phase-report.md): beside each job stands an   *)
(* event of a command for the same bridge and operation.                   *)
(***************************************************************************)
JobsAreAnnounced ==
  \A b \in Bridges, k \in Keys : job[<<b, k>>] # None =>
    /\ outbox[k] # None
    /\ command[outbox[k]].kind = b
    /\ command[outbox[k]].operation = job[<<b, k>>].operation

(***************************************************************************)
(* A bridge job or tenant under a key has at most one row, however often   *)
(* it is sent.  A client that sends a command once can believe what it is  *)
(* told: accepted means one row, refused means none.  With retries it cannot: a  *)
(* tenant whose first answer was lost is refused to the client that made   *)
(* it; and one that shares a key may find its payload replaced.            *)
(***************************************************************************)
AnswersAreTrue ==
  \A c \in Commands :
    /\ c \in Keyed => Rows(c) <= 1
    /\ sent[c] = 1 /\ told[c] = "accepted" => Rows(c) = 1
    /\ sent[c] = 1 /\ told[c] = "refused" => Rows(c) = 0

(***************************************************************************)
(* Clients that name a bridge job or a tenant by a key of its own get the  *)
(* exactly-once queue of CommandQueue, however often they send it.         *)
(***************************************************************************)
Promise == INSTANCE CommandQueue WITH
  accepted <- {c \in Keyed : Rows(c) > 0},
  announced <- {c \in Keyed : EventsOf(c) # {}},
  confirmed <- {c \in Keyed : told[c] = "accepted"}
KeepsPromise == Promise!Queue
=============================================================================
