--------------------------- MODULE SessionContract ---------------------------
(***************************************************************************)
(* What the gateway promises about a sign-in, without tokens, families,    *)
(* clocks or transactions.  A session is opened once.  It loses the right  *)
(* to refresh and then the right to call, or both at once, and never gets  *)
(* either back.  Work is admitted only while the right exists; what was    *)
(* admitted before the right was lost may still finish.                    *)
(***************************************************************************)
CONSTANTS Sessions, Requests, None

VARIABLES phase,     \* the rights of each session
          admitted   \* what each request was admitted to do, and for which session

contractVars == <<phase, admitted>>

Idle == [kind |-> "idle", session |-> None]
Work == {Idle} \cup [kind : {"refresh", "call"}, session : Sessions]

ContractInit ==
  /\ phase = [s \in Sessions |-> "unopened"]
  /\ admitted = [r \in Requests |-> Idle]

Open(s) ==
  /\ phase[s] = "unopened"
  /\ phase' = [phase EXCEPT ![s] = "open"]
  /\ UNCHANGED admitted

\* The refresh family is dead, the session row still answers protected calls.
Fade(s) ==
  /\ phase[s] = "open"
  /\ phase' = [phase EXCEPT ![s] = "fading"]
  /\ UNCHANGED admitted

Close(s) ==
  /\ phase[s] \in {"open", "fading"}
  /\ phase' = [phase EXCEPT ![s] = "closed"]
  /\ UNCHANGED admitted

Admit(r, s, kind) ==
  /\ admitted[r] = Idle
  /\ phase[s] \in IF kind = "refresh" THEN {"open"} ELSE {"open", "fading"}
  /\ admitted' = [admitted EXCEPT ![r] = [kind |-> kind, session |-> s]]
  /\ UNCHANGED phase

Finish(r) ==
  /\ admitted[r] # Idle
  /\ admitted' = [admitted EXCEPT ![r] = Idle]
  /\ UNCHANGED phase

ContractNext ==
  \/ \E s \in Sessions : Open(s) \/ Fade(s) \/ Close(s)
  \/ \E r \in Requests : Finish(r)
  \/ \E r \in Requests, s \in Sessions, kind \in {"refresh", "call"} : Admit(r, s, kind)

Contract == ContractInit /\ [][ContractNext]_contractVars
=============================================================================
