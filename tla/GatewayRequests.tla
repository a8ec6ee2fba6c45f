-------------------------- MODULE GatewayRequests --------------------------
(***************************************************************************)
(* What the handlers of operational-runtime.ts share: a request reads, in  *)
(* one or more steps, and then writes and commits (runtime/db.ts,          *)
(* transaction, at READ COMMITTED).  Between its steps other requests run, *)
(* unless the behaviour is one of requests one at a time.                  *)
(***************************************************************************)
CONSTANT Requests        \* requests the gateway may be working on at once

VARIABLES
  work,       \* what each request has read and not yet used
  overlap     \* whether requests overlap in this behaviour

Idle == [op |-> "idle"]

RequestsInit ==
  /\ work = [r \in Requests |-> Idle]
  /\ overlap \in BOOLEAN

Free(r) == work[r] = Idle /\ (overlap \/ \A q \in Requests : work[q] = Idle)
Begins(r, read) == Free(r) /\ work' = [work EXCEPT ![r] = read] /\ UNCHANGED overlap
GoesOn(r, read) == work' = [work EXCEPT ![r] = read] /\ UNCHANGED overlap
Ends(r) == work' = [work EXCEPT ![r] = Idle] /\ UNCHANGED overlap

(* ROLLBACK: any statement may throw, and nothing was written. *)
Aborts(r) == work[r] # Idle /\ Ends(r)
(* A handler whose reads and write no other handler can come between. *)
AtOnce(r) == Free(r) /\ UNCHANGED <<work, overlap>>
=============================================================================
