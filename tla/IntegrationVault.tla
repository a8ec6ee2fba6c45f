-------------------------- MODULE IntegrationVault --------------------------
(***************************************************************************)
(* The integration vault of gateway-api/src/http/operational-runtime.ts:   *)
(* credentials are stored encrypted with a masked summary, tested against  *)
(* their provider's schema (no network probe exists), renamed, replaced    *)
(* and deleted; each provider has a resilience policy.  A payload is an    *)
(* abstract value: what AES-GCM encrypts, it decrypts to, and a summary is *)
(* known by the payload it was computed from.                              *)
(***************************************************************************)
EXTENDS GatewayRequests, Naturals

CONSTANTS
  Credentials, Payloads,
  Schemas,         \* what successive releases of a provider's schema accept
  Providers,
  RetryCounts,     \* retry_count a body may carry
  NaN,             \* what 1.5, "x" or {} are read as
  MaxRetries,      \* 10 in the code
  Unset            \* a null column, an absent row, or a field a body does not name

(* A row of platform_integration_credentials, with the payload its last test judged. *)
CredentialRow ==
  [payload : Payloads, mask : Payloads, status : {"configured", "invalid"},
   test : {Unset, "config_invalid", "adapter_not_configured"},
   error : {Unset, "credential_schema_invalid", "network_adapter_not_configured"},
   judged : Payloads \union {Unset}]

(* The policy a provider starts with has 2 retries and no fallback. *)
ASSUME VaultAssumption ==
  /\ MaxRetries \in Nat /\ 2 <= MaxRetries
  /\ Unset \notin Providers
  /\ Unset \notin CredentialRow

VARIABLES
  credential,      \* platform_integration_credentials: a row, or Unset
  accepted,        \* the payloads the provider's credential_schema accepts
  policy           \* platform_provider_resilience_policies

vaultRows == <<credential, accepted, policy>>
vaultVars == <<vaultRows, work, overlap>>

VaultInit ==
  /\ credential = [c \in Credentials |-> Unset]
  /\ accepted = Payloads
  /\ policy = [p \in Providers |-> [retries |-> 2, fallback |-> Unset]]

Stored(c) == credential[c] # Unset
VaultReads(r, read) == Begins(r, read) /\ UNCHANGED vaultRows
(* The event a test inserts refers to the credential: its row cannot be deleted   *)
(* until the test commits.                                                        *)
UnderTest(c) == \E q \in Requests : work[q].op = "test" /\ work[q].key = c
-----------------------------------------------------------------------------
(* handleIntegrationCredentialCreate: a payload its provider's schema accepts. *)
CredentialCreateBegin(r, c, body) ==
  /\ ~Stored(c) /\ \A q \in Requests : work[q].op = "create" => work[q].key # c
  /\ body \in accepted
  /\ VaultReads(r, [op |-> "create", key |-> c, body |-> body])

CredentialCreate(r) ==
  /\ work[r].op = "create"
  /\ credential' = [credential EXCEPT ![work[r].key] =
       [payload |-> work[r].body, mask |-> work[r].body, status |-> "configured",
        test |-> Unset, error |-> Unset, judged |-> Unset]]
  /\ Ends(r)
  /\ UNCHANGED <<accepted, policy>>

(* handleIntegrationCredentialUpdate: without credentials in the body (a new label) *)
(* payload and summary are written back as they were read.                          *)
CredentialUpdateBegin(r, c, body) ==
  /\ Stored(c)
  /\ body # Unset => body \in accepted
  /\ VaultReads(r, [op |-> "update", key |-> c,
       payload |-> IF body = Unset THEN credential[c].payload ELSE body,
       mask |-> IF body = Unset THEN credential[c].mask ELSE body])

\* Mutant: the error of the previous payload's test is kept.
CredentialUpdateKeepsError(r) ==
  /\ work[r].op = "update" /\ Stored(work[r].key)
  /\ credential' = [credential EXCEPT ![work[r].key] =
       [@ EXCEPT !.payload = work[r].payload, !.mask = work[r].mask, !.status = "configured"]]
  /\ Ends(r)
  /\ UNCHANGED <<accepted, policy>>

(* A row deleted meanwhile makes the request fail. *)
CredentialUpdate(r) ==
  /\ work[r].op = "update" /\ Stored(work[r].key)
  /\ credential' = [credential EXCEPT ![work[r].key] =
       [@ EXCEPT !.payload = work[r].payload, !.mask = work[r].mask,
                 !.status = "configured", !.error = Unset]]
  /\ Ends(r)
  /\ UNCHANGED <<accepted, policy>>

(* handleIntegrationCredentialDelete *)
CredentialDelete(r, c) ==
  /\ AtOnce(r)
  /\ Stored(c) /\ ~UnderTest(c)
  /\ credential' = [credential EXCEPT ![c] = Unset]
  /\ UNCHANGED <<accepted, policy>>

(* handleIntegrationCredentialTest: decrypts and validates what it has read ...    *)
CredentialTestBegin(r, c) ==
  /\ Stored(c)
  /\ VaultReads(r, [op |-> "test", key |-> c, payload |-> credential[c].payload,
                    valid |-> credential[c].payload \in accepted])

(* ... and writes its verdict on the row, whatever that holds by then. *)
Judged(r) == [credential[work[r].key] EXCEPT !.judged = work[r].payload]

CredentialFoundInvalid(r) ==
  /\ work[r].op = "test" /\ ~work[r].valid
  /\ credential' = [credential EXCEPT ![work[r].key] =
       [Judged(r) EXCEPT !.status = "invalid", !.test = "config_invalid",
                         !.error = "credential_schema_invalid"]]
  /\ Ends(r)
  /\ UNCHANGED <<accepted, policy>>

CredentialFoundValid(r) ==
  /\ work[r].op = "test" /\ work[r].valid
  /\ credential' = [credential EXCEPT ![work[r].key] =
       [Judged(r) EXCEPT !.status = "configured", !.test = "adapter_not_configured",
                         !.error = "network_adapter_not_configured"]]
  /\ Ends(r)
  /\ UNCHANGED <<accepted, policy>>
-----------------------------------------------------------------------------
(* handleIntegrationProviderResiliencePolicyUpdate: a field that is not named      *)
(* keeps its value, except the fallback, which is cleared.  NaN passes every       *)
(* comparison of the handler.                                                      *)
PolicyUpdateBegin(r, p, retries, fallback) ==
  /\ retries \in {Unset, NaN} \union (0 .. MaxRetries)
  /\ fallback # p
  /\ VaultReads(r, [op |-> "policy", key |-> p, fallback |-> fallback,
                    retries |-> IF retries = Unset THEN policy[p].retries ELSE retries])

(* The column is an integer: NaN ends in an exception (500, not 422). *)
PolicyUpdate(r) ==
  /\ work[r].op = "policy" /\ work[r].retries # NaN
  /\ policy' = [policy EXCEPT ![work[r].key] =
                  [retries |-> work[r].retries, fallback |-> work[r].fallback]]
  /\ Ends(r)
  /\ UNCHANGED <<credential, accepted>>

VaultAbort(r) == Aborts(r) /\ UNCHANGED vaultRows

(* platform-bootstrap.ts of another release overwrites credential_schema. *)
SchemaReplaced(r, payloads) ==
  /\ AtOnce(r)
  /\ accepted' = payloads
  /\ UNCHANGED <<credential, policy>>

VaultNext ==
  \E r \in Requests :
    \/ \E c \in Credentials, body \in Payloads : CredentialCreateBegin(r, c, body)
    \/ \E c \in Credentials, body \in Payloads \union {Unset} : CredentialUpdateBegin(r, c, body)
    \/ \E c \in Credentials : CredentialDelete(r, c) \/ CredentialTestBegin(r, c)
    \/ CredentialCreate(r) \/ CredentialUpdate(r)
    \/ CredentialFoundInvalid(r) \/ CredentialFoundValid(r)
    \/ \E p \in Providers, n \in RetryCounts \union {Unset}, f \in Providers \union {Unset} :
         PolicyUpdateBegin(r, p, n, f)
    \/ PolicyUpdate(r)
    \/ VaultAbort(r)
    \/ \E payloads \in Schemas : SchemaReplaced(r, payloads)
-----------------------------------------------------------------------------
(* What the vault shows of a credential is about the payload it stores: the summary *)
(* always; with requests one at a time also last_error, so that a secret that was   *)
(* replaced is not shown with the verdict on its predecessor.  (A test that         *)
(* overlaps a replacement does that: OR:3085.)  A row is "invalid" only with the    *)
(* error that says why.  Policies stay inside the bounds and never fall back on     *)
(* themselves.                                                                      *)
VaultSpeaksOfStored ==
  /\ \A c \in Credentials : Stored(c) =>
       /\ credential[c].mask = credential[c].payload
       /\ credential[c].status = "invalid" => credential[c].error = "credential_schema_invalid"
       /\ ~overlap /\ credential[c].error # Unset => credential[c].judged = credential[c].payload
  /\ \A p \in Providers : policy[p].retries \in 0 .. MaxRetries /\ policy[p].fallback # p
=============================================================================
