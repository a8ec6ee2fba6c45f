---------------------------- MODULE AuthSessions ----------------------------
(***************************************************************************)
(* Sign-in, refresh-token rotation, reuse detection, logout and session    *)
(* revocation of the gateway (operational-runtime.ts), over the rows of    *)
(* auth_core in PostgreSQL.                                                 *)
(*                                                                         *)
(* Transactions run at READ COMMITTED and no statement locks what it       *)
(* reads: a refresh decides on the row its SELECT returned (RefreshBegin)  *)
(* and writes blindly later (RefreshCommit, ReuseCommit); everything       *)
(* other requests commit in between goes unseen.  Logout and revoke update *)
(* three tables one after the other and show nothing of it before their    *)
(* COMMIT.  issueSession creates a session and its family together, so a   *)
(* family is named by its session.                                         *)
(***************************************************************************)
EXTENDS Naturals, FiniteSets

CONSTANTS Accounts,     \* a principal within one tenant and workspace
          Sessions,     \* ids of sessions, and of their refresh families
          Tokens,       \* ids of refresh-token rows
          Requests,     \* requests the gateway works on at the same time
          None,         \* no account, session or token
          AccessTTL, SessionTTL, RefreshTTL,  \* 900 s, 12 h, 30 d
          GrantEnds,    \* when workspace grants may expire
          MaxTime       \* bound on the clock

ASSUME LifetimesAssumption ==
  /\ {AccessTTL, SessionTTL, RefreshTTL, MaxTime} \subseteq Nat
  /\ 0 < AccessTTL /\ AccessTTL < SessionTTL /\ SessionTTL < RefreshTTL
  /\ GrantEnds \subseteq Nat
ASSUME NoneAssumption == None \notin Accounts \cup Sessions \cup Tokens
ASSUME RequestsAssumption == IsFiniteSet(Requests)  \* a pool of connections serves them

VARIABLES now,         \* the clock of the gateway and of the database
          account,     \* principals, credentials, grants, devices, factors
          session,     \* auth_core.sessions
          family,      \* auth_core.refresh_token_families.status
          token,       \* auth_core.refresh_tokens
          accessEnds,  \* when the last access token signed for a session expires
          tx           \* what each request has read and not yet committed

rows == <<session, family, token>>
vars == <<now, account, session, family, token, accessEnds, tx>>

AccountState == [active : BOOLEAN, verified : BOOLEAN, trusted : BOOLEAN,
                 factor : BOOLEAN, grantEnds : GrantEnds]
SessionRow == [status : {"none", "active", "revoked"},
               owner : Accounts \cup {None}, ends : Nat]
FamilyStatus == {"none", "active", "revoked", "reused"}
TokenRow == [family : Sessions \cup {None}, previous : Tokens \cup {None},
             used : BOOLEAN, revoked : BOOLEAN, ends : Nat]
Idle == [step |-> "idle", session |-> None, token |-> None]
Transaction == {Idle} \cup [step : {"rotate", "reuse"}, session : Sessions, token : Tokens]
                      \cup [step : {"call"}, session : Sessions, token : {None}]
                      \cup [step : {"revoke", "close"}, session : Sessions, token : {None},
                            doomed : SUBSET Tokens]

TypeOK ==
  /\ now \in Nat
  /\ account \in [Accounts -> AccountState]
  /\ session \in [Sessions -> SessionRow]
  /\ family \in [Sessions -> FamilyStatus]
  /\ token \in [Tokens -> TokenRow]
  /\ accessEnds \in [Sessions -> Nat]
  /\ tx \in [Requests -> Transaction]

Init ==
  /\ now = 0
  /\ account \in [Accounts -> AccountState]
  /\ session = [s \in Sessions |-> [status |-> "none", owner |-> None, ends |-> 0]]
  /\ family = [s \in Sessions |-> "none"]
  /\ token = [t \in Tokens |-> [family |-> None, previous |-> None, used |-> FALSE,
                                revoked |-> FALSE, ends |-> 0]]
  /\ accessEnds = [s \in Sessions |-> 0]
  /\ tx = [r \in Requests |-> Idle]

Issued(t) == token[t].family # None
FreshToken(s, previous) ==
  [family |-> s, previous |-> previous, used |-> FALSE, revoked |-> FALSE,
   ends |-> now + RefreshTTL]
-----------------------------------------------------------------------------
(***************************************************************************)
(* Login: every check of handleLogin, in one transaction with the inserts  *)
(* of issueSession.  A refused or challenged login creates no session; its *)
(* activity and challenge rows are not modelled (nothing reads them).      *)
(***************************************************************************)
PassesLoginChecks(a) ==
  /\ account[a].active
  /\ account[a].verified
  /\ now < account[a].grantEnds
  /\ account[a].trusted

Login(a, s, t) ==
  /\ PassesLoginChecks(a)
  /\ ~account[a].factor       \* a verified factor gets a challenge (202) instead
  /\ session[s].status = "none"
  /\ ~Issued(t)
  /\ session' = [session EXCEPT ![s] = [status |-> "active", owner |-> a,
                                        ends |-> now + SessionTTL]]
  /\ family' = [family EXCEPT ![s] = "active"]
  /\ token' = [token EXCEPT ![t] = FreshToken(s, None)]
  /\ accessEnds' = [accessEnds EXCEPT ![s] = now + AccessTTL]
  /\ UNCHANGED <<now, account, tx>>

(***************************************************************************)
(* Refresh.  The SELECT joins token, family and ACTIVE session; the answer *)
(* of the handler is decided by that row alone.  It looks neither at the   *)
(* session's own expiry nor at the grant's.                                *)
(***************************************************************************)
\* Mutant: neither the session's nor the family's status is looked at.
RefreshableWhenClosed(t) == Issued(t) /\ ~token[t].revoked /\ now < token[t].ends

Refreshable(t) ==
  /\ Issued(t)
  /\ session[token[t].family].status = "active"
  /\ family[token[t].family] = "active"
  /\ ~token[t].revoked
  /\ now < token[t].ends

\* Mutant: used_at is not looked at.
RefreshBeginIgnoringUse(r, t) ==
  /\ tx[r] = Idle
  /\ Refreshable(t)
  /\ tx' = [tx EXCEPT ![r] = [step |-> "rotate", session |-> token[t].family, token |-> t]]
  /\ UNCHANGED <<now, account, rows, accessEnds>>

RefreshBegin(r, t) ==
  /\ tx[r] = Idle
  /\ Refreshable(t)
  /\ tx' = [tx EXCEPT ![r] = [step |-> IF token[t].used THEN "reuse" ELSE "rotate",
                              session |-> token[t].family, token |-> t]]
  /\ UNCHANGED <<now, account, rows, accessEnds>>

\* Mutant: the rotated row is not marked used.
RefreshCommitKeepingUnused(r, n) ==
  /\ tx[r].step = "rotate"
  /\ ~Issued(n)
  /\ token' = [token EXCEPT ![n] = FreshToken(tx[r].session, tx[r].token)]
  /\ accessEnds' = [accessEnds EXCEPT ![tx[r].session] = now + AccessTTL]
  /\ tx' = [tx EXCEPT ![r] = Idle]
  /\ UNCHANGED <<now, account, session, family>>

\* Mutant: rotation writes the family back as it was when it was read.
RefreshCommitRestoringFamily(r, n) ==
  /\ tx[r].step = "rotate"
  /\ ~Issued(n)
  /\ token' = [token EXCEPT ![tx[r].token].used = TRUE,
                            ![n] = FreshToken(tx[r].session, tx[r].token)]
  /\ family' = [family EXCEPT ![tx[r].session] = "active"]
  /\ accessEnds' = [accessEnds EXCEPT ![tx[r].session] = now + AccessTTL]
  /\ tx' = [tx EXCEPT ![r] = Idle]
  /\ UNCHANGED <<now, account, session>>

\* UPDATE used_at, INSERT the successor, sign an access token, COMMIT.
RefreshCommit(r, n) ==
  /\ tx[r].step = "rotate"
  /\ ~Issued(n)
  /\ token' = [token EXCEPT ![tx[r].token].used = TRUE,
                            ![n] = FreshToken(tx[r].session, tx[r].token)]
  /\ accessEnds' = [accessEnds EXCEPT ![tx[r].session] = now + AccessTTL]
  /\ tx' = [tx EXCEPT ![r] = Idle]
  /\ UNCHANGED <<now, account, session, family>>

\* Mutant: the family gets 'rotated', a status only auth_core.sessions allows.
ReuseCommitRotated(r) ==
  /\ tx[r].step = "reuse"
  /\ family' = [family EXCEPT ![tx[r].session] = "rotated"]
  /\ tx' = [tx EXCEPT ![r] = Idle]
  /\ UNCHANGED <<now, account, session, token, accessEnds>>

\* A logout or revoke has updated the rows of session and family: it locks them until COMMIT.
Closing(s) == \E r \in Requests : tx[r].step = "close" /\ tx[r].session = s

\* The used token's family becomes 'reused'; its session and tokens stay as they are.
ReuseCommit(r) ==
  /\ tx[r].step = "reuse"
  /\ ~Closing(tx[r].session)
  /\ family' = [family EXCEPT ![tx[r].session] = "reused"]
  /\ tx' = [tx EXCEPT ![r] = Idle]
  /\ UNCHANGED <<now, account, session, token, accessEnds>>

\* ROLLBACK: a failed statement, a lost connection, or the gateway's death.
Abort(r) ==
  /\ tx[r] # Idle
  /\ tx' = [tx EXCEPT ![r] = Idle]
  /\ UNCHANGED <<now, account, rows, accessEnds>>
-----------------------------------------------------------------------------
(***************************************************************************)
(* Logout and session revocation.  Both need only a JWT that is still      *)
(* valid, not an active session, and both close any one session of the     *)
(* caller's account, whatever its status.  Between the statements, and     *)
(* until COMMIT, every other request still reads the session as active.    *)
(***************************************************************************)
HoldsJwt(s) == session[s].status # "none" /\ now < accessEnds[s]
Revoking(step, target, doomed) ==
  [step |-> step, session |-> target, token |-> None, doomed |-> doomed]

\* The SELECT reads columns that never change.
Logout(r, s, target) ==
  /\ tx[r] = Idle
  /\ HoldsJwt(s)
  /\ session[target].owner = session[s].owner
  /\ tx' = [tx EXCEPT ![r] = Revoking("revoke", target, {})]
  /\ UNCHANGED <<now, account, rows, accessEnds>>

SessionRevoke(r, s, target) ==
  /\ tx[r] = Idle
  /\ HoldsJwt(s)
  /\ session[target].owner = session[s].owner
  /\ tx' = [tx EXCEPT ![r] = Revoking("revoke", target, {})]
  /\ UNCHANGED <<now, account, rows, accessEnds>>

(***************************************************************************)
(* The first two UPDATEs take the row locks of session and family; the     *)
(* third, on refresh_tokens, works on the rows that were committed when it *)
(* began.  A row inserted after that escapes it.                           *)
(***************************************************************************)
RevokeScan(r) ==
  /\ tx[r].step = "revoke"
  /\ ~Closing(tx[r].session)
  /\ tx' = [tx EXCEPT ![r] = Revoking("close", tx[r].session,
              {t \in Tokens : token[t].family = tx[r].session /\ ~token[t].revoked})]
  /\ UNCHANGED <<now, account, rows, accessEnds>>

\* Mutant: the refresh family is forgotten.
CloseRowsButFamily(r) ==
  /\ session' = [session EXCEPT ![tx[r].session].status = "revoked"]
  /\ token' = [t \in Tokens |-> IF t \in tx[r].doomed
                                THEN [token[t] EXCEPT !.revoked = TRUE]
                                ELSE token[t]]
  /\ UNCHANGED family

\* What the three UPDATEs change, seen by the others at once.
CloseRows(r) ==
  /\ session' = [session EXCEPT ![tx[r].session].status = "revoked"]
  /\ family' = [family EXCEPT ![tx[r].session] = "revoked"]
  /\ token' = [t \in Tokens |-> IF t \in tx[r].doomed
                                THEN [token[t] EXCEPT !.revoked = TRUE]
                                ELSE token[t]]

RevokeCommit(r) ==
  /\ tx[r].step = "close"
  /\ CloseRows(r)
  /\ tx' = [tx EXCEPT ![r] = Idle]
  /\ UNCHANGED <<now, account, accessEnds>>

(***************************************************************************)
(* A protected call: hasActiveJwtSession, then, on another connection, the *)
(* handler's own work.                                                     *)
(***************************************************************************)
\* Mutant: a valid JWT is enough.
CallAdmittedByJwt(s) == HoldsJwt(s)
CallAdmitted(s) == HoldsJwt(s) /\ session[s].status = "active" /\ now < session[s].ends

CallBegin(r, s) ==
  /\ tx[r] = Idle
  /\ CallAdmitted(s)
  /\ tx' = [tx EXCEPT ![r] = [step |-> "call", session |-> s, token |-> None]]
  /\ UNCHANGED <<now, account, rows, accessEnds>>

CallEnd(r) ==
  /\ tx[r].step = "call"
  /\ tx' = [tx EXCEPT ![r] = Idle]
  /\ UNCHANGED <<now, account, rows, accessEnds>>

Tick ==
  /\ now < MaxTime
  /\ now' = now + 1
  /\ UNCHANGED <<account, rows, accessEnds, tx>>

Next ==
  \/ \E a \in Accounts, s \in Sessions, t \in Tokens : Login(a, s, t)
  \/ \E r \in Requests, t \in Tokens : RefreshBegin(r, t) \/ RefreshCommit(r, t)
  \/ \E r \in Requests : ReuseCommit(r) \/ Abort(r) \/ CallEnd(r)
  \/ \E r \in Requests, s, target \in Sessions : Logout(r, s, target) \/ SessionRevoke(r, s, target)
  \/ \E r \in Requests : RevokeScan(r) \/ RevokeCommit(r)
  \/ \E r \in Requests, s \in Sessions : CallBegin(r, s)
  \/ Tick

Spec == Init /\ [][Next]_vars

(***************************************************************************)
(* Every query on a pooled connection answers or fails, and the handler    *)
(* then commits or rolls back: a request that is under way ends.           *)
(***************************************************************************)
RequestEnds(r) ==
  \/ \E n \in Tokens : RefreshCommit(r, n)
  \/ ReuseCommit(r) \/ RevokeCommit(r) \/ CallEnd(r) \/ Abort(r)
Fairness == \A r \in Requests : WF_vars(RevokeScan(r) \/ RequestEnds(r))
FairSpec == Spec /\ Fairness
-----------------------------------------------------------------------------
Successors(t) == {n \in Tokens : Issued(n) /\ token[n].previous = t}

(***************************************************************************)
(* A revoked session has no active refresh family, whichever of logout,    *)
(* session revoke and reuse detection wrote last: the three blind updates  *)
(* of the same family row may land in any order.                           *)
(***************************************************************************)
ClosedSessionHasDeadFamily ==
  \A s \in Sessions : session[s].status = "revoked" => family[s] \in {"revoked", "reused"}

(***************************************************************************)
(* previous_token_id links the rows of a family into one tree rooted at    *)
(* the token of the login: a row is used exactly when it has a successor,  *)
(* and a successor stays in its family and expires no earlier.  It is what *)
(* makes "this token was used" mean "it was rotated".                      *)
(***************************************************************************)
RotationTree ==
  /\ \A t \in Tokens : token[t].used <=> Successors(t) # {}
  /\ \A t \in Tokens : \A n \in Successors(t) :
       token[n].family = token[t].family /\ token[t].ends <= token[n].ends
  /\ \A s \in Sessions : session[s].status # "none" =>
       \E t \in Tokens : \A u \in Tokens :
         u = t <=> token[u].family = s /\ token[u].previous = None

(***************************************************************************)
(* A revocation revokes the token rows that it sees; those inserted while  *)
(* it ran stay behind.  They are the last of their session: the unrevoked  *)
(* rows of a closed session, with the rotations that may still add one,    *)
(* only get fewer, so nothing that was read before COMMIT is refreshed     *)
(* after it and no revocation revives a row.  How many stay behind has no  *)
(* bound: a chain of refreshes may run between the UPDATE and the COMMIT.  *)
(***************************************************************************)
LeftBehind(s) ==
  Cardinality({t \in Tokens : token[t].family = s /\ ~token[t].revoked})
    + Cardinality({r \in Requests : tx[r].step = "rotate" /\ tx[r].session = s})
LeftBehindOnlyShrinks ==
  [][\A s \in Sessions : session[s].status = "revoked" => LeftBehind(s)' <= LeftBehind(s)]_vars

(***************************************************************************)
(* Reuse detection notices every refresh that starts after a rotation has  *)
(* committed: the rotations of one token, done or still to commit, are no  *)
(* more than the requests that can overlap.  With one request at a time a  *)
(* token is rotated at most once.                                          *)
(***************************************************************************)
UndetectedReuseBounded ==
  \A t \in Tokens :
    Cardinality(Successors(t))
      + Cardinality({r \in Requests : tx[r].step = "rotate" /\ tx[r].token = t})
    <= Cardinality(Requests)

(***************************************************************************)
(* "revokeFamilyOnReuse" (auth-core): once a token was rotated twice its   *)
(* family is not active.  Two refreshes that read the same unused row are  *)
(* both accepted and nothing notices.                                      *)
(***************************************************************************)
ReusedTokenClosesFamily ==
  \A t \in Tokens : Cardinality(Successors(t)) > 1 => family[token[t].family] # "active"

(***************************************************************************)
(* No interleaving of logout, revoke, reuse detection and late commits     *)
(* brings a session or a family back.                                      *)
(***************************************************************************)
RevocationIsFinal ==
  [][\A s \in Sessions :
       /\ session[s].status = "revoked" => session'[s].status = "revoked"
       /\ family[s] \in {"revoked", "reused"} => family'[s] \in {"revoked", "reused"}]_vars

(***************************************************************************)
(* The promise of SessionContract: a request enters only while its session *)
(* has the right it asks for, and the rights only shrink.                  *)
(***************************************************************************)
Phase(s) ==
  CASE session[s].status = "none" -> "unopened"
    [] session[s].status = "revoked" -> "closed"
    [] session[s].status = "active" /\ family[s] = "active" -> "open"
    [] OTHER -> "fading"
Admitted(r) ==
  [kind |-> CASE tx[r].step = "rotate" -> "refresh"
              [] tx[r].step = "call" -> "call"
              [] OTHER -> "idle",
   session |-> IF tx[r].step \in {"rotate", "call"} THEN tx[r].session ELSE None]
Promise == INSTANCE SessionContract WITH
  phase <- [s \in Sessions |-> Phase(s)],
  admitted <- [r \in Requests |-> Admitted(r)]
KeepsContract == Promise!Contract

(***************************************************************************)
(* After a session is closed, the refreshes and calls admitted for it      *)
(* drain and none enters again: from some point on nothing runs on its     *)
(* behalf (closing it once more is not its own work).                      *)
(***************************************************************************)
ClosedSessionDrains ==
  \A s \in Sessions :
    session[s].status = "revoked"
      ~> [](\A r \in Requests : tx[r].session = s => tx[r].step \in {"revoke", "close"})
=============================================================================
