-------------------------- MODULE RequestPipeline --------------------------
(***************************************************************************)
(* The front of the gateway: every request passes the rate limiter of      *)
(* runtime/rate-limit.ts before server.ts routes it, the gateway's own     *)
(* health probe included.  GET /runtime/health-matrix (health-matrix.ts)   *)
(* probes all services, this gateway among them, with one retry            *)
(* (retry.ts); its probes come from the gateway's own address.             *)
(***************************************************************************)
EXTENDS Functions, Naturals

CONSTANTS
  Clients,         \* rate limit keys: tenant header and remote address
  Self,            \* the key of the gateway's own requests
  Checks,          \* health matrix requests that may be under way
  Limit, Window,   \* rateLimitMaxRequests, rateLimitWindowMs
  Attempts,        \* of withRetry: 2 in health-matrix.ts
  MaxNow           \* bound on time

ASSUME PipelineAssumption ==
  Limit \in Nat \ {0} /\ Window \in Nat \ {0} /\ Attempts \in Nat \ {0} /\ MaxNow \in Nat

VARIABLES
  now,
  bucket,          \* buckets of rate-limit.ts
  admitted,        \* ghost: how many requests of a key were admitted at each time
  check            \* health matrix requests: attempts of the self probe, its result

pipelineVars == <<now, bucket, admitted, check>>

Keys == Clients \union {Self}
NoBucket == [count |-> 0, resetAt |-> 0]
NotChecking == [attempt |-> 0, result |-> "none"]

PipelineInit ==
  /\ now = 0
  /\ bucket = [k \in Keys |-> NoBucket]
  /\ admitted = [k \in Keys |-> [t \in 0 .. MaxNow |-> 0]]
  /\ check = [c \in Checks |-> NotChecking]
-----------------------------------------------------------------------------
(* A map entry that is missing or whose window has ended is replaced. *)
Expired(k) == bucket[k].resetAt <= now
Counted(k) ==
  IF Expired(k) THEN [count |-> 1, resetAt |-> now + Window]
  ELSE [bucket[k] EXCEPT !.count = @ + 1]

\* Mutant: the limit is compared before the request is counted.
AllowedBefore(k) == Expired(k) \/ bucket[k].count <= Limit
Allowed(k) == Counted(k).count <= Limit

(* checkRateLimit.  Refused requests count too, up to a bound that tells no more *)
(* apart.                                                                        *)
PassesLimiter(k) ==
  /\ bucket' = [bucket EXCEPT ![k] = IF @.count > Limit /\ ~Expired(k) THEN @ ELSE Counted(k)]
  /\ admitted' = IF Allowed(k) THEN [admitted EXCEPT ![k][now] = @ + 1] ELSE admitted
  /\ UNCHANGED now

(* A request that server.ts answers without calling itself, or refuses with 429. *)
RequestArrives(k) == k \in Clients /\ PassesLimiter(k) /\ UNCHANGED check

MatrixRequested(k, c) ==
  /\ k \in Clients /\ Allowed(k) /\ check[c].attempt = 0
  /\ PassesLimiter(k)
  /\ check' = [check EXCEPT ![c] = [attempt |-> 1, result |-> "none"]]

(* withRetry: an attempt that failed is made again, the last one's error is reported. *)
Reports(c, outcome) ==
  check' = [check EXCEPT ![c] =
    IF outcome # "ok" /\ @.attempt < Attempts THEN [@ EXCEPT !.attempt = check[c].attempt + 1]
    ELSE [@ EXCEPT !.result = outcome]]

(* checkService of the gateway itself: GET gatewayUrl/health.  The probe reaches the  *)
(* limiter and is answered, or is given up after 3 s with "failed"; or it never gets   *)
(* there (refused, a wrong URL, whose server may answer too); http_429 is this         *)
(* limiter's answer only.                                                              *)
SelfProbe(c) ==
  /\ check[c].attempt > 0 /\ check[c].result = "none"
  /\ \/ /\ PassesLimiter(Self)
        /\ \E outcome \in {IF Allowed(Self) THEN "ok" ELSE "http_429", "failed"} : Reports(c, outcome)
     \/ /\ UNCHANGED <<now, bucket, admitted>>
        /\ \E outcome \in {"ok", "failed"} : Reports(c, outcome)

MatrixAnswered(c) ==
  /\ check[c].result # "none"
  /\ check' = [check EXCEPT ![c] = NotChecking]
  /\ UNCHANGED <<now, bucket, admitted>>

TimePasses ==
  /\ now < MaxNow
  /\ now' = now + 1
  /\ UNCHANGED <<bucket, admitted, check>>

PipelineNext ==
  \/ \E k \in Clients : RequestArrives(k) \/ \E c \in Checks : MatrixRequested(k, c)
  \/ \E c \in Checks : SelfProbe(c) \/ MatrixAnswered(c)
  \/ TimePasses
-----------------------------------------------------------------------------
AdmittedDuring(k, from, to) ==
  SumFunctionOnSet(admitted[k], {t \in 0 .. MaxNow : from <= t /\ t < to})

(* Of one key at most Limit requests are admitted in the window that is running, at  *)
(* most twice as many in any window wherever it is laid, and a key is never refused  *)
(* for longer than a window (refused requests do not push its end back).  The gateway  *)
(* reports that it refused its own probe only after Limit of them in one window.       *)
LimiterBounds ==
  /\ \A k \in Keys :
       /\ ~Expired(k) => AdmittedDuring(k, bucket[k].resetAt - Window, bucket[k].resetAt)
                           = (IF bucket[k].count < Limit THEN bucket[k].count ELSE Limit)
       /\ \A t \in 0 .. MaxNow : AdmittedDuring(k, t, t + Window) <= 2 * Limit
       /\ bucket[k].resetAt <= now + Window
  /\ \A c \in Checks : check[c].result = "http_429" =>
       \E t \in 0 .. MaxNow : AdmittedDuring(Self, t, t + Window) >= Limit

=============================================================================
