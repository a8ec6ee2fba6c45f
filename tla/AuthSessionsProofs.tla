------------------------- MODULE AuthSessionsProofs -------------------------
(***************************************************************************)
(* Theorems about AuthSessions for every set of accounts, sessions, tokens *)
(* and requests, and for every choice of lifetimes.                        *)
(***************************************************************************)
EXTENDS AuthSessions, FiniteSetTheorems, TLAPS

\* Every step of Next, named once: a lemma about Next has one case per action.
Steps ==
  \/ \E a \in Accounts, s \in Sessions, t \in Tokens : Login(a, s, t)
  \/ \E r \in Requests, t \in Tokens : RefreshBegin(r, t)
  \/ \E r \in Requests, n \in Tokens : RefreshCommit(r, n)
  \/ \E r \in Requests : ReuseCommit(r)
  \/ \E r \in Requests : Abort(r)
  \/ \E r \in Requests : CallEnd(r)
  \/ \E r \in Requests, s, target \in Sessions : Logout(r, s, target)
  \/ \E r \in Requests, s, target \in Sessions : SessionRevoke(r, s, target)
  \/ \E r \in Requests : RevokeScan(r)
  \/ \E r \in Requests : RevokeCommit(r)
  \/ \E r \in Requests, s \in Sessions : CallBegin(r, s)
  \/ Tick

\* Next is the disjunction of the steps, whatever its grouping.
LEMMA NextIsSteps == Next => Steps
BY DEF Next, Steps

-----------------------------------------------------------------------------
\* Marking a refresh_tokens row used or revoked keeps it a row.
LEMMA RowUpdates ==
  ASSUME NEW row \in TokenRow
  PROVE  /\ [row EXCEPT !.used = TRUE] \in TokenRow
         /\ [row EXCEPT !.revoked = TRUE] \in TokenRow
BY DEF TokenRow

\* What RefreshCommit does to each row of refresh_tokens.
LEMMA RotatedRows ==
  ASSUME TypeOK, NEW r \in Requests, NEW n \in Tokens, RefreshCommit(r, n)
  PROVE  /\ tx[r].session \in Sessions /\ tx[r].token \in Tokens
         /\ token' = [t \in Tokens |->
                        IF t = n THEN FreshToken(tx[r].session, tx[r].token)
                        ELSE IF t = tx[r].token THEN [token[t] EXCEPT !.used = TRUE]
                        ELSE token[t]]
<1>1. tx[r] \in [step : {"rotate", "reuse"}, session : Sessions, token : Tokens]
  BY DEF RefreshCommit, Idle, TypeOK, Transaction
<1>2. tx[r].session \in Sessions /\ tx[r].token \in Tokens
  BY <1>1
<1> DEFINE fresh == FreshToken(tx[r].session, tx[r].token)
<1> DEFINE p == tx[r].token
<1>3. token' = [token EXCEPT ![p].used = TRUE, ![n] = fresh]
  BY DEF RefreshCommit
<1>4. token \in [Tokens -> TokenRow]
  BY DEF TypeOK
<1> HIDE DEF fresh, p
<1>5. token' = [t \in Tokens |-> IF t = n THEN fresh
                                 ELSE IF t = p THEN [token[t] EXCEPT !.used = TRUE]
                                 ELSE token[t]]
  BY <1>3, <1>4
<1> QED BY <1>2, <1>5 DEF fresh, p

\* What logout and session revoke do before their COMMIT: note which session, and which rows.
Prepares(r) ==
  /\ tx[r].step \in {"idle", "revoke"}
  /\ \E step \in {"revoke", "close"}, target \in Sessions, doomed \in SUBSET Tokens :
       tx' = [tx EXCEPT ![r] = Revoking(step, target, doomed)]
  /\ UNCHANGED <<now, account, rows, accessEnds>>

LEMMA PreparesOnly ==
  ASSUME TypeOK, NEW r \in Requests,
         \/ \E s, target \in Sessions : Logout(r, s, target) \/ SessionRevoke(r, s, target)
         \/ RevokeScan(r)
  PROVE  Prepares(r)
<1>1. ASSUME NEW s \in Sessions, NEW target \in Sessions,
             Logout(r, s, target) \/ SessionRevoke(r, s, target)
      PROVE  Prepares(r)
  BY <1>1 DEF Logout, SessionRevoke, Prepares, Idle
<1>2. ASSUME RevokeScan(r) PROVE Prepares(r)
  <2>1. tx[r].step = "revoke" /\ tx[r].session \in Sessions
    BY <1>2 DEF RevokeScan, TypeOK, Transaction, Idle
  <2>2. {t \in Tokens : token[t].family = tx[r].session /\ ~token[t].revoked} \in SUBSET Tokens
    OBVIOUS
  <2> QED BY <1>2, <2>1, <2>2 DEF RevokeScan, Prepares
<1> QED BY <1>1, <1>2

\* The request that prepares, and every other one, after that.
LEMMA PreparedTx ==
  ASSUME TypeOK, NEW r \in Requests, Prepares(r)
  PROVE  /\ tx'[r].step \in {"revoke", "close"} /\ tx'[r].session \in Sessions
         /\ tx'[r] \in Transaction
         /\ \A q \in Requests : q # r => tx'[q] = tx[q]
BY DEF Prepares, Revoking, TypeOK, Transaction

\* What their COMMIT does to each row.
LEMMA ClosedRows ==
  ASSUME TypeOK, NEW r \in Requests, RevokeCommit(r)
  PROVE  /\ tx[r].session \in Sessions /\ tx[r] # Idle
         /\ \A t \in Tokens : /\ token'[t].family = token[t].family
                               /\ token'[t].previous = token[t].previous
                               /\ token'[t].used = token[t].used
                               /\ token'[t].ends = token[t].ends
         /\ \A u \in Sessions :
              /\ session'[u].owner = session[u].owner
              /\ session'[u].status = IF u = tx[r].session THEN "revoked" ELSE session[u].status
              /\ family'[u] = IF u = tx[r].session THEN "revoked" ELSE family[u]
         /\ \A q \in Requests : tx'[q] = IF q = r THEN Idle ELSE tx[q]
         /\ UNCHANGED <<now, account, accessEnds>>
<1> DEFINE target == tx[r].session
           doomed == tx[r].doomed
<1>0. target \in Sessions /\ tx[r] # Idle
  BY DEF RevokeCommit, TypeOK, Transaction, Idle
<1>1. \A t \in Tokens : /\ token'[t].family = token[t].family
                        /\ token'[t].previous = token[t].previous
                        /\ token'[t].used = token[t].used
                        /\ token'[t].ends = token[t].ends
  <2>1. /\ token' = [t \in Tokens |-> IF t \in doomed THEN [token[t] EXCEPT !.revoked = TRUE]
                                      ELSE token[t]]
        /\ \A t \in Tokens : token[t] \in TokenRow
    BY DEF RevokeCommit, CloseRows, TypeOK
  <2> HIDE DEF doomed
  <2> QED BY <2>1 DEF TokenRow
<1>2. ASSUME NEW u \in Sessions
      PROVE  /\ session'[u].owner = session[u].owner
             /\ session'[u].status = IF u = target THEN "revoked" ELSE session[u].status
  <2>1. session \in [Sessions -> SessionRow] /\ session[u] \in SessionRow
    BY DEF TypeOK
  <2>2. session' = [session EXCEPT ![target].status = "revoked"]
    BY DEF RevokeCommit, CloseRows
  <2> HIDE DEF target
  <2>3. CASE u = target
    BY <2>1, <2>2, <2>3 DEF SessionRow
  <2>4. CASE u # target
    BY <2>1, <2>2, <2>4
  <2> QED BY <2>3, <2>4
<1>3. \A u \in Sessions : family'[u] = IF u = target THEN "revoked" ELSE family[u]
  BY <1>0 DEF RevokeCommit, CloseRows, TypeOK
<1>4. /\ \A q \in Requests : tx'[q] = IF q = r THEN Idle ELSE tx[q]
      /\ UNCHANGED <<now, account, accessEnds>>
  BY DEF RevokeCommit, TypeOK
<1> QED BY <1>0, <1>1, <1>2, <1>3, <1>4

\* It revives no row.
LEMMA ClosedStayRevoked ==
  ASSUME TypeOK, NEW r \in Requests, RevokeCommit(r), NEW t \in Tokens, token[t].revoked
  PROVE  token'[t].revoked
BY DEF RevokeCommit, CloseRows, TypeOK, TokenRow

\* Every handler step writes well-typed rows.
LEMMA TypeStep == TypeOK /\ [Next]_vars => TypeOK'
<1> SUFFICES ASSUME TypeOK, [Next]_vars PROVE TypeOK'
  OBVIOUS
<1> USE LifetimesAssumption, NoneAssumption DEF TypeOK, SessionRow, FamilyStatus, TokenRow, Transaction
<1>1. ASSUME NEW a \in Accounts, NEW s \in Sessions, NEW t \in Tokens, Login(a, s, t)
      PROVE TypeOK'
  BY <1>1 DEF Login, FreshToken
<1>2. ASSUME NEW r \in Requests, NEW t \in Tokens, RefreshBegin(r, t)
      PROVE TypeOK'
  BY <1>2 DEF RefreshBegin, Refreshable, Issued, rows
<1>3. ASSUME NEW r \in Requests, NEW n \in Tokens, RefreshCommit(r, n)
      PROVE TypeOK'
  <2>1. tx[r] \in [step : {"rotate", "reuse"}, session : Sessions, token : Tokens]
    BY <1>3 DEF RefreshCommit, Idle
  <2>2. token' \in [Tokens -> TokenRow]
    <3>1. FreshToken(tx[r].session, tx[r].token) \in TokenRow
      BY <2>1 DEF FreshToken
    <3>2. \A t \in Tokens : [token[t] EXCEPT !.used = TRUE] \in TokenRow
      BY RowUpdates
    <3> HIDE DEF TokenRow
    <3> QED BY <1>3, <3>1, <3>2, RotatedRows
  <2>3. accessEnds' \in [Sessions -> Nat]
    BY <1>3, <2>1 DEF RefreshCommit
  <2>4. tx' \in [Requests -> Transaction]
    BY <1>3 DEF RefreshCommit
  <2> QED BY <1>3, <2>2, <2>3, <2>4 DEF RefreshCommit
<1>4. ASSUME NEW r \in Requests, ReuseCommit(r)
      PROVE TypeOK'
  BY <1>4 DEF ReuseCommit
<1>5. ASSUME NEW r \in Requests, Abort(r) \/ CallEnd(r)
      PROVE TypeOK'
  BY <1>5 DEF Abort, CallEnd, rows
<1>6. ASSUME NEW r \in Requests, RevokeCommit(r)
      PROVE TypeOK'
  <2>1. tx[r].session \in Sessions /\ UNCHANGED <<now, account, accessEnds>>
    BY <1>6, ClosedRows
  <2>2. token' \in [Tokens -> TokenRow]
    <3>1. \A t \in Tokens : [token[t] EXCEPT !.revoked = TRUE] \in TokenRow
      BY RowUpdates
    <3> HIDE DEF TokenRow
    <3> QED BY <1>6, <3>1 DEF RevokeCommit, CloseRows
  <2>3. session' \in [Sessions -> SessionRow] /\ family' \in [Sessions -> FamilyStatus]
    <3>1. /\ session' = [session EXCEPT ![tx[r].session].status = "revoked"]
          /\ family' = [family EXCEPT ![tx[r].session] = "revoked"]
      BY <1>6 DEF RevokeCommit, CloseRows
    <3>2. \A row \in SessionRow : [row EXCEPT !.status = "revoked"] \in SessionRow
      OBVIOUS
    <3> HIDE DEF SessionRow
    <3> QED BY <3>1, <3>2, <2>1
  <2>4. tx' \in [Requests -> Transaction]
    BY <1>6 DEF RevokeCommit
  <2> QED BY <2>1, <2>2, <2>3, <2>4
<1>10. ASSUME NEW r \in Requests,
              \/ \E s, target \in Sessions : Logout(r, s, target) \/ SessionRevoke(r, s, target)
              \/ RevokeScan(r)
       PROVE TypeOK'
  <2>1. Prepares(r)
    BY <1>10, PreparesOnly
  <2> HIDE DEF Transaction, TypeOK
  <2>2. tx' \in [Requests -> Transaction]
    BY <2>1, PreparedTx DEF Prepares, TypeOK
  <2> QED BY <2>1, <2>2 DEF Prepares, rows, TypeOK
<1>7. ASSUME NEW r \in Requests, NEW s \in Sessions, CallBegin(r, s)
      PROVE TypeOK'
  BY <1>7 DEF CallBegin, rows
<1>8. ASSUME Tick PROVE TypeOK'
  BY <1>8 DEF Tick, rows
<1>9. CASE UNCHANGED vars
  BY <1>9 DEF vars, rows
<1> QED
  BY <1>1, <1>2, <1>3, <1>4, <1>5, <1>6, <1>7, <1>8, <1>9, <1>10, NextIsSteps DEF Steps

-----------------------------------------------------------------------------
(***************************************************************************)
(* The inductive invariant.  Rows point at rows that exist: a session has  *)
(* an owner and a family exactly when it was opened, a token's family and  *)
(* a transaction's session were opened, the token a transaction read       *)
(* belongs to that session, and a token never expires later than one       *)
(* issued now would.                                                       *)
(***************************************************************************)
Links ==
  /\ \A s \in Sessions : session[s].status = "none" <=> session[s].owner = None
  /\ \A s \in Sessions : session[s].status = "none" <=> family[s] = "none"
  /\ \A t \in Tokens : Issued(t) => session[token[t].family].status # "none"
  /\ \A r \in Requests : tx[r] # Idle => session[tx[r].session].status # "none"
  /\ \A r \in Requests : tx[r].step \in {"rotate", "reuse"}
                           => token[tx[r].token].family = tx[r].session
  /\ \A t \in Tokens : token[t].ends <= now + RefreshTTL

IInv == TypeOK /\ Links /\ ClosedSessionHasDeadFamily

\* The empty tables satisfy the inductive invariant.
LEMMA InitIInv == Init => IInv
BY LifetimesAssumption, NoneAssumption
   DEF Init, IInv, TypeOK, SessionRow, FamilyStatus, TokenRow, Transaction,
       Links, ClosedSessionHasDeadFamily, Issued, Idle

\* Every step preserves it: a case per action, over both of its untyped conjuncts.
LEMMA StepIInv == IInv /\ [Next]_vars => IInv'
<1> SUFFICES ASSUME IInv, [Next]_vars PROVE Links' /\ ClosedSessionHasDeadFamily'
  BY TypeStep DEF IInv
<1>t. TypeOK /\ TypeOK'
  BY TypeStep DEF IInv
<1> USE LifetimesAssumption, NoneAssumption
<1> USE DEF IInv, Links, ClosedSessionHasDeadFamily, Issued
<1>1. ASSUME NEW a \in Accounts, NEW s \in Sessions, NEW t \in Tokens, Login(a, s, t)
      PROVE Links' /\ ClosedSessionHasDeadFamily'
  BY <1>1, <1>t DEF Login, FreshToken, TypeOK, SessionRow, TokenRow, Transaction, Idle
<1>2. ASSUME NEW r \in Requests, NEW t \in Tokens, RefreshBegin(r, t)
      PROVE Links' /\ ClosedSessionHasDeadFamily'
  BY <1>2, <1>t DEF RefreshBegin, Refreshable, rows, TypeOK, Transaction, TokenRow
<1>3. ASSUME NEW r \in Requests, NEW n \in Tokens, RefreshCommit(r, n)
      PROVE Links' /\ ClosedSessionHasDeadFamily'
  <2>1. /\ UNCHANGED <<now, session, family>>
        /\ tx' = [tx EXCEPT ![r] = Idle]
        /\ token[n].family = None
    BY <1>3 DEF RefreshCommit
  <2>2. /\ tx[r].session \in Sessions
        /\ session[tx[r].session].status # "none"
    <3>1. tx[r] # Idle
      BY <1>3 DEF RefreshCommit, Idle
    <3>2. tx[r].session \in Sessions
      BY <1>3, <1>t, RotatedRows
    <3> QED BY <3>1, <3>2
  <2>3. \A t \in Tokens :
          /\ token'[t].family = IF t = n THEN tx[r].session ELSE token[t].family
          /\ token'[t].ends = IF t = n THEN now + RefreshTTL ELSE token[t].ends
    BY <1>3, <1>t, RotatedRows DEF FreshToken, TypeOK, TokenRow
  <2>4. \A q \in Requests : tx'[q] = IF q = r THEN Idle ELSE tx[q]
    BY <2>1, <1>t DEF TypeOK
  <2>5. \A q \in Requests : tx[q].step \in {"rotate", "reuse"} =>
          tx[q].session \in Sessions /\ tx[q].token \in Tokens
    BY <1>t DEF TypeOK, Transaction, Idle
  <2>6. \A q \in Requests : tx'[q].step \in {"rotate", "reuse"}
                              => token'[tx'[q].token].family = tx'[q].session
    BY <2>1, <2>3, <2>4, <2>5 DEF Idle
  <2>7. \A t \in Tokens : token'[t].family # None => session[token'[t].family].status # "none"
    BY <2>2, <2>3
  <2>8. \A t \in Tokens : token'[t].ends <= now + RefreshTTL
    BY <2>3, <1>t DEF TypeOK
  <2> QED BY <2>1, <2>4, <2>6, <2>7, <2>8
<1>4. ASSUME NEW r \in Requests, ReuseCommit(r)
      PROVE Links' /\ ClosedSessionHasDeadFamily'
  BY <1>4, <1>t DEF ReuseCommit, TypeOK, Transaction, TokenRow, Idle
<1>5. ASSUME NEW r \in Requests, Abort(r) \/ CallEnd(r)
      PROVE Links' /\ ClosedSessionHasDeadFamily'
  BY <1>5, <1>t DEF Abort, CallEnd, rows, TypeOK, Idle
<1>6. ASSUME NEW r \in Requests, RevokeCommit(r)
      PROVE Links' /\ ClosedSessionHasDeadFamily'
  <2> DEFINE target == tx[r].session
  <2>1. /\ target \in Sessions /\ tx[r] # Idle /\ UNCHANGED <<now, account, accessEnds>>
        /\ \A t \in Tokens : token'[t].family = token[t].family /\ token'[t].ends = token[t].ends
        /\ \A u \in Sessions :
             /\ session'[u].owner = session[u].owner
             /\ session'[u].status = IF u = target THEN "revoked" ELSE session[u].status
             /\ family'[u] = IF u = target THEN "revoked" ELSE family[u]
        /\ \A q \in Requests : tx'[q] = IF q = r THEN Idle ELSE tx[q]
    BY <1>6, <1>t, ClosedRows
  <2>2. session[target].status # "none"
    BY <2>1
  <2>4. \A q \in Requests :
          /\ tx[q] # Idle => tx[q].session \in Sessions
          /\ tx[q].step \in {"rotate", "reuse"} => tx[q].token \in Tokens
    BY <1>t DEF TypeOK, Transaction, Idle
  <2>5. \A t \in Tokens : Issued(t) => token[t].family \in Sessions
    BY <1>t DEF TypeOK, TokenRow
  <2> HIDE DEF target
  <2>6. Links'
    <3>1. \A q \in Requests : tx'[q].step \in {"rotate", "reuse"}
                               => token'[tx'[q].token].family = tx'[q].session
      BY <2>1, <2>4 DEF Idle
    <3> QED BY <2>1, <2>2, <2>4, <2>5, <3>1
  <2>7. ClosedSessionHasDeadFamily'
    BY <2>1
  <2> QED BY <2>6, <2>7
<1>10. ASSUME NEW r \in Requests,
              \/ \E s, target \in Sessions : Logout(r, s, target) \/ SessionRevoke(r, s, target)
              \/ RevokeScan(r)
       PROVE Links' /\ ClosedSessionHasDeadFamily'
  <2>1. Prepares(r)
    BY <1>10, <1>t, PreparesOnly
  <2>2. /\ tx'[r].step \in {"revoke", "close"} /\ UNCHANGED <<now, session, family, token>>
        /\ \A q \in Requests : q # r => tx'[q] = tx[q]
    BY <2>1, <1>t, PreparedTx DEF Prepares, rows
  <2>3. session[tx'[r].session].status # "none"
    <3>1. CASE RevokeScan(r)
      BY <3>1, <1>t DEF RevokeScan, Revoking, TypeOK, Idle
    <3>2. ASSUME NEW s \in Sessions, NEW target \in Sessions,
                 Logout(r, s, target) \/ SessionRevoke(r, s, target)
          PROVE session[tx'[r].session].status # "none"
      <4>1. tx'[r].session = target /\ session[target].owner = session[s].owner
            /\ session[s].status # "none"
        BY <3>2, <1>t DEF Logout, SessionRevoke, Revoking, TypeOK, HoldsJwt
      <4> QED BY <4>1
    <3> QED BY <1>10, <3>1, <3>2
  <2> QED BY <2>2, <2>3
<1>7. ASSUME NEW r \in Requests, NEW s \in Sessions, CallBegin(r, s)
      PROVE Links' /\ ClosedSessionHasDeadFamily'
  BY <1>7, <1>t DEF CallBegin, CallAdmitted, HoldsJwt, rows, TypeOK
<1>8. ASSUME Tick PROVE Links' /\ ClosedSessionHasDeadFamily'
  BY <1>8, <1>t DEF Tick, rows, TypeOK, TokenRow
<1>9. CASE UNCHANGED vars
  BY <1>9 DEF vars, rows
<1> QED
  BY <1>1, <1>2, <1>3, <1>4, <1>5, <1>6, <1>7, <1>8, <1>9, <1>10, NextIsSteps DEF Steps

(***************************************************************************)
(* The inductive invariant holds in every reachable state: all rows, and   *)
(* what the requests under way have read, point at rows that exist.        *)
(***************************************************************************)
THEOREM IInvHolds == Spec => []IInv
BY InitIInv, StepIInv, PTL DEF Spec

\* Every reachable state of the auth_core rows is well typed.
THEOREM TypeCorrect == Spec => []TypeOK
BY IInvHolds, PTL DEF IInv

\* A revoked session never has an active family, whichever handler wrote last.
THEOREM ClosedSessionsStayDead == Spec => []ClosedSessionHasDeadFamily
BY IInvHolds, PTL DEF IInv

-----------------------------------------------------------------------------
\* One step of any handler keeps a revoked session revoked and a dead family dead.
LEMMA StepIsFinal ==
  ASSUME IInv, [Next]_vars, NEW s \in Sessions
  PROVE  /\ session[s].status = "revoked" => session'[s].status = "revoked"
         /\ family[s] \in {"revoked", "reused"} => family'[s] \in {"revoked", "reused"}
<1> DEFINE Final == /\ session[s].status = "revoked" => session'[s].status = "revoked"
                    /\ family[s] \in {"revoked", "reused"} => family'[s] \in {"revoked", "reused"}
<1>t. TypeOK
  BY DEF IInv
<1>1. ASSUME NEW a \in Accounts, NEW u \in Sessions, NEW t \in Tokens, Login(a, u, t)
      PROVE Final
  BY <1>1, <1>t DEF Login, TypeOK, IInv, Links
<1>2. ASSUME UNCHANGED <<session, family>>
      PROVE Final
  BY <1>2
<1>3. ASSUME NEW r \in Requests, NEW t \in Tokens, RefreshBegin(r, t) \/ RefreshCommit(r, t)
      PROVE Final
  BY <1>2, <1>3 DEF RefreshBegin, RefreshCommit, rows
<1>4. ASSUME NEW r \in Requests, ReuseCommit(r)
      PROVE Final
  BY <1>4, <1>t DEF ReuseCommit, TypeOK
<1>5. ASSUME NEW r \in Requests, RevokeCommit(r)
      PROVE Final
  BY <1>5, <1>t, ClosedRows
<1>8. ASSUME NEW r \in Requests,
             \/ \E u, target \in Sessions : Logout(r, u, target) \/ SessionRevoke(r, u, target)
             \/ RevokeScan(r)
      PROVE Final
  BY <1>2, <1>8, <1>t, PreparesOnly DEF Prepares, rows
<1>6. ASSUME NEW r \in Requests, Abort(r) \/ CallEnd(r) \/ \E u \in Sessions : CallBegin(r, u)
      PROVE Final
  BY <1>2, <1>6 DEF Abort, CallEnd, CallBegin, rows
<1>7. ASSUME Tick \/ UNCHANGED vars PROVE Final
  BY <1>2, <1>7 DEF Tick, vars, rows
<1> QED
  BY <1>1, <1>3, <1>4, <1>5, <1>6, <1>7, <1>8, NextIsSteps DEF Steps

(***************************************************************************)
(* No step brings a revoked session or a dead family back, in any          *)
(* interleaving of logouts, revocations, reuse detection and late commits. *)
(***************************************************************************)
THEOREM RevocationStaysFinal == Spec => RevocationIsFinal
<1>1. IInv /\ [Next]_vars =>
        [\A s \in Sessions :
          /\ session[s].status = "revoked" => session'[s].status = "revoked"
          /\ family[s] \in {"revoked", "reused"} => family'[s] \in {"revoked", "reused"}]_vars
  BY StepIsFinal
<1> QED
  BY <1>1, IInvHolds, PTL DEF Spec, RevocationIsFinal
-----------------------------------------------------------------------------
\* Empty tables and idle requests are an initial state of the contract.
LEMMA InitKeepsContract == Init => Promise!ContractInit
BY DEF Init, Promise!ContractInit, Promise!Idle, Phase, Admitted, Idle

\* A step that leaves the rows of sessions and families alone leaves every phase alone.
LEMMA PhasesFrom ==
  ASSUME UNCHANGED <<session, family>>
  PROVE  \A s \in Sessions : Phase(s)' = Phase(s)
BY DEF Phase

\* Every handler step is a step of the contract, or leaves rights and work alone.
LEMMA StepKeepsContract ==
  IInv /\ [Next]_vars => [Promise!ContractNext]_(Promise!contractVars)
<1> SUFFICES ASSUME IInv, [Next]_vars PROVE [Promise!ContractNext]_(Promise!contractVars)
  OBVIOUS
<1>t. TypeOK
  BY DEF IInv
<1> DEFINE phase == [s \in Sessions |-> Phase(s)]
           admitted == [r \in Requests |-> Admitted(r)]
<1> USE DEF Promise!ContractNext, Promise!contractVars, Promise!Idle
<1>1. ASSUME NEW a \in Accounts, NEW s \in Sessions, NEW t \in Tokens, Login(a, s, t)
      PROVE Promise!Open(s)
  <2>1. \A r \in Requests : Admitted(r)' = Admitted(r)
    BY <1>1 DEF Login, Admitted
  <2>2. Phase(s) = "unopened" /\ Phase(s)' = "open"
    BY <1>1, <1>t DEF Login, Phase, TypeOK
  <2>3. \A u \in Sessions : u # s => Phase(u)' = Phase(u)
    BY <1>1, <1>t DEF Login, Phase, TypeOK
  <2> QED BY <2>1, <2>2, <2>3 DEF Promise!Open
<1>2. ASSUME NEW r \in Requests, NEW t \in Tokens, RefreshBegin(r, t)
      PROVE [Promise!ContractNext]_(Promise!contractVars)
  <2>1. PICK s \in Sessions : s = token[t].family /\ Phase(s) = "open" /\ tx[r] = Idle
    BY <1>2, <1>t DEF RefreshBegin, Refreshable, Issued, Phase, TypeOK, TokenRow
  <2>2. \A u \in Sessions : Phase(u)' = Phase(u)
    BY <1>2, PhasesFrom DEF RefreshBegin, rows
  <2>3. \A q \in Requests : q # r => Admitted(q)' = Admitted(q)
    BY <1>2, <1>t DEF RefreshBegin, Admitted, TypeOK
  <2>4. Admitted(r) = Promise!Idle
    BY <2>1 DEF Idle, Admitted
  <2>5. CASE token[t].used
    <3>1. Admitted(r)' = Promise!Idle
      BY <1>2, <1>t, <2>5 DEF RefreshBegin, Admitted, TypeOK
    <3> QED BY <2>2, <2>3, <2>4, <3>1
  <2>6. CASE ~token[t].used
    <3>1. Admitted(r)' = [kind |-> "refresh", session |-> s]
      BY <1>2, <1>t, <2>1, <2>6 DEF RefreshBegin, Admitted, TypeOK
    <3>2. Promise!Admit(r, s, "refresh")
      BY <2>1, <2>2, <2>3, <2>4, <3>1 DEF Promise!Admit
    <3> QED BY <2>1, <3>2
  <2> QED BY <2>5, <2>6
<1>3. ASSUME NEW r \in Requests, \/ \E n \in Tokens : RefreshCommit(r, n)
                                 \/ CallEnd(r)
                                 \/ tx[r].step \in {"rotate", "call"} /\ Abort(r)
      PROVE Promise!Finish(r)
  <2>1. /\ tx[r].step \in {"rotate", "call"}
        /\ tx' = [tx EXCEPT ![r] = Idle]
        /\ UNCHANGED <<session, family>>
    BY <1>3, <1>t DEF RefreshCommit, CallEnd, Abort, rows, TypeOK, Transaction
  <2>2. \A u \in Sessions : Phase(u)' = Phase(u)
    BY <2>1, PhasesFrom
  <2>3. \A q \in Requests : q # r => Admitted(q)' = Admitted(q)
    BY <2>1, <1>t DEF Admitted, TypeOK
  <2>4. Admitted(r) # Promise!Idle /\ Admitted(r)' = Promise!Idle
    BY <2>1, <1>t DEF Admitted, TypeOK, Idle
  <2> QED BY <2>2, <2>3, <2>4 DEF Promise!Finish
<1>4. ASSUME NEW r \in Requests, ReuseCommit(r)
      PROVE [Promise!ContractNext]_(Promise!contractVars)
  <2>1. PICK s \in Sessions : s = tx[r].session /\ tx[r].step = "reuse"
    BY <1>4, <1>t DEF ReuseCommit, TypeOK, Transaction, Idle
  <2>2. \A q \in Requests : Admitted(q)' = Admitted(q)
    BY <1>4, <1>t DEF ReuseCommit, Admitted, TypeOK, Idle
  <2>3. \A u \in Sessions : u # s => Phase(u)' = Phase(u)
    BY <1>4, <1>t, <2>1 DEF ReuseCommit, Phase, TypeOK
  <2>4. CASE Phase(s) = "open"
    <3>1. Phase(s)' = "fading"
      BY <1>4, <1>t, <2>1, <2>4 DEF ReuseCommit, Phase, TypeOK
    <3>2. Promise!Fade(s)
      BY <2>1, <2>2, <2>3, <2>4, <3>1 DEF Promise!Fade
    <3> QED BY <2>1, <3>2
  <2>5. CASE Phase(s) # "open"
    <3>1. Phase(s)' = Phase(s)
      BY <1>4, <1>t, <2>1, <2>5 DEF ReuseCommit, Phase, TypeOK
    <3> QED BY <2>2, <2>3, <3>1
  <2> QED BY <2>4, <2>5
<1>5. ASSUME NEW r \in Requests, tx[r].step \notin {"rotate", "call"}, Abort(r)
      PROVE UNCHANGED Promise!contractVars
  <2>1. \A q \in Requests : Admitted(q)' = Admitted(q)
    BY <1>5, <1>t DEF Abort, Admitted, TypeOK, Idle
  <2>2. \A u \in Sessions : Phase(u)' = Phase(u)
    BY <1>5, PhasesFrom DEF Abort, rows
  <2> QED BY <2>1, <2>2
<1>6. ASSUME NEW r \in Requests, RevokeCommit(r)
      PROVE [Promise!ContractNext]_(Promise!contractVars)
  <2>1. PICK s \in Sessions :
          /\ s = tx[r].session /\ session[s].status # "none" /\ tx[r].step = "close"
          /\ \A q \in Requests : tx'[q] = IF q = r THEN Idle ELSE tx[q]
    BY <1>6, <1>t, ClosedRows DEF RevokeCommit, IInv, Links
  <2>2. \A q \in Requests : Admitted(q)' = Admitted(q)
    BY <2>1 DEF Admitted, Idle
  <2>3. \A v \in Sessions : v # s => Phase(v)' = Phase(v)
    BY <1>6, <2>1, <1>t, ClosedRows DEF Phase
  <2>4. Phase(s)' = "closed"
    BY <1>6, <2>1, <1>t, ClosedRows DEF Phase
  <2>5. CASE session[s].status = "active"
    <3>1. Phase(s) \in {"open", "fading"}
      BY <2>5 DEF Phase
    <3>2. Promise!Close(s)
      BY <2>2, <2>3, <2>4, <3>1 DEF Promise!Close
    <3> QED BY <3>2
  <2>6. CASE session[s].status = "revoked"
    <3>1. Phase(s) = "closed"
      BY <2>6 DEF Phase
    <3> QED BY <2>2, <2>3, <2>4, <3>1
  <2> QED BY <2>1, <2>5, <2>6, <1>t DEF TypeOK, SessionRow
<1>9. ASSUME NEW r \in Requests,
             \/ \E u, target \in Sessions : Logout(r, u, target) \/ SessionRevoke(r, u, target)
             \/ RevokeScan(r)
      PROVE UNCHANGED Promise!contractVars
  <2>1. Prepares(r)
    BY <1>9, <1>t, PreparesOnly
  <2>2. \A u \in Sessions : Phase(u)' = Phase(u)
    BY <2>1, PhasesFrom DEF Prepares, rows
  <2>3. \A q \in Requests : Admitted(q)' = Admitted(q)
    <3>1. Admitted(r)' = Admitted(r)
      BY <2>1, <1>t, PreparedTx DEF Prepares, Admitted
    <3>2. \A q \in Requests : q # r => Admitted(q)' = Admitted(q)
      BY <2>1, <1>t, PreparedTx DEF Admitted
    <3> QED BY <3>1, <3>2
  <2> QED BY <2>2, <2>3
<1>7. ASSUME NEW r \in Requests, NEW s \in Sessions, CallBegin(r, s)
      PROVE Promise!Admit(r, s, "call")
  <2>1. \A u \in Sessions : Phase(u)' = Phase(u)
    BY <1>7, PhasesFrom DEF CallBegin, rows
  <2>2. \A q \in Requests : q # r => Admitted(q)' = Admitted(q)
    BY <1>7, <1>t DEF CallBegin, Admitted, TypeOK
  <2>3. Admitted(r) = Promise!Idle /\ Admitted(r)' = [kind |-> "call", session |-> s]
    BY <1>7, <1>t DEF CallBegin, Admitted, TypeOK, Idle
  <2>4. Phase(s) \in {"open", "fading"}
    BY <1>7 DEF CallBegin, CallAdmitted, Phase
  <2> QED BY <2>1, <2>2, <2>3, <2>4 DEF Promise!Admit
<1>8. ASSUME Tick \/ UNCHANGED vars
      PROVE UNCHANGED Promise!contractVars
  BY <1>8 DEF Tick, vars, rows, Phase, Admitted
<1> QED
  BY <1>1, <1>2, <1>3, <1>4, <1>5, <1>6, <1>7, <1>8, <1>9, NextIsSteps DEF Steps

(***************************************************************************)
(* AuthSessions implements SessionContract: rights only shrink, and work   *)
(* enters only while its session has the right it needs.                   *)
(***************************************************************************)
THEOREM ImplementsContract == Spec => KeepsContract
BY InitKeepsContract, StepKeepsContract, IInvHolds, PTL DEF Spec, KeepsContract, Promise!Contract

-----------------------------------------------------------------------------
(***************************************************************************)
(* The rotation tree.  To be inductive RotationTree needs IInv (the token  *)
(* a refresh read is in its family) and that a row not yet inserted is     *)
(* not used.                                                               *)
(***************************************************************************)
UnissuedUnused == \A t \in Tokens : ~Issued(t) => ~token[t].used
TreeInv == RotationTree /\ UnissuedUnused

\* Steps that only touch revoked flags, families and the clock keep the tree.
LEMMA SameTree ==
  ASSUME TreeInv,
         \A t \in Tokens : /\ token'[t].family = token[t].family
                           /\ token'[t].previous = token[t].previous
                           /\ token'[t].used = token[t].used
                           /\ token'[t].ends = token[t].ends,
         \A s \in Sessions : session'[s].status # "none" => session[s].status # "none"
  PROVE  TreeInv'
<1>1. \A t \in Tokens : Successors(t)' = Successors(t)
  BY DEF Successors, Issued
<1>2. UnissuedUnused'
  BY DEF TreeInv, UnissuedUnused, Issued
<1>3. \A t \in Tokens : (token'[t].used <=> Successors(t)' # {})
  BY <1>1 DEF TreeInv, RotationTree
<1>4. \A t \in Tokens : \A n \in Successors(t)' :
        token'[n].family = token'[t].family /\ token'[t].ends <= token'[n].ends
  BY <1>1 DEF TreeInv, RotationTree, Successors
<1>5. \A s \in Sessions : session'[s].status # "none" =>
        \E t \in Tokens : \A u \in Tokens :
          u = t <=> token'[u].family = s /\ token'[u].previous = None
  BY DEF TreeInv, RotationTree
<1> QED BY <1>2, <1>3, <1>4, <1>5 DEF TreeInv, RotationTree

\* Login starts a tree of one token.
LEMMA LoginTree ==
  ASSUME IInv, TreeInv, NEW a \in Accounts, NEW s \in Sessions, NEW t \in Tokens, Login(a, s, t)
  PROVE  TreeInv'
<1> USE NoneAssumption
<1>1. /\ token' = [token EXCEPT ![t] = FreshToken(s, None)]
      /\ token \in [Tokens -> TokenRow] /\ session \in [Sessions -> SessionRow]
      /\ session[s].status = "none" /\ ~Issued(t) /\ ~token[t].used
      /\ session' = [session EXCEPT ![s] = [status |-> "active", owner |-> a,
                                            ends |-> now + SessionTTL]]
  BY DEF Login, IInv, TypeOK, TreeInv, UnissuedUnused
<1>2. /\ \A u \in Tokens : u # t => token'[u] = token[u]
      /\ token'[t].family = s /\ token'[t].previous = None /\ token'[t].used = FALSE
      /\ \A v \in Sessions : v # s => session'[v] = session[v]
  BY <1>1 DEF FreshToken
<1>3. \A u \in Tokens : Successors(u)' = Successors(u)
  BY <1>1, <1>2 DEF Successors, Issued
<1>4. \A u \in Tokens : token'[u].used = token[u].used
  BY <1>1, <1>2 DEF TokenRow
<1>5. UnissuedUnused'
  BY <1>1, <1>2 DEF TreeInv, UnissuedUnused, Issued
<1>6. \A u \in Tokens : (token'[u].used <=> Successors(u)' # {})
  BY <1>3, <1>4 DEF TreeInv, RotationTree
<1>7. \A u \in Tokens : \A n \in Successors(u)' :
        token'[n].family = token'[u].family /\ token'[u].ends <= token'[n].ends
  <2> SUFFICES ASSUME NEW u \in Tokens, NEW n \in Successors(u)
               PROVE token'[n].family = token'[u].family /\ token'[u].ends <= token'[n].ends
    BY <1>3
  <2>1. n \in Tokens /\ n # t /\ token[u].used
    BY <1>1 DEF Successors, TreeInv, RotationTree
  <2>2. u # t
    BY <2>1, <1>1
  <2> QED BY <2>1, <2>2, <1>2 DEF TreeInv, RotationTree
<1>8. ASSUME NEW v \in Sessions, session'[v].status # "none"
      PROVE \E r \in Tokens : \A u \in Tokens :
              u = r <=> token'[u].family = v /\ token'[u].previous = None
  <2>1. CASE v = s
    <3>1. \A u \in Tokens : u # t => token[u].family # s
      BY <1>1 DEF IInv, Links, Issued
    <3> QED BY <2>1, <3>1, <1>2
  <2>2. CASE v # s
    <3>1. PICK r \in Tokens : \A u \in Tokens :
            u = r <=> token[u].family = v /\ token[u].previous = None
      BY <2>2, <1>2, <1>8 DEF TreeInv, RotationTree
    <3>2. r # t
      BY <3>1, <1>1 DEF Issued
    <3> QED BY <3>1, <3>2, <2>2, <1>2
  <2> QED BY <2>1, <2>2
<1> QED BY <1>5, <1>6, <1>7, <1>8 DEF TreeInv, RotationTree

\* The commit of a refresh hangs one new token under the one it marks used.
LEMMA RotateTree ==
  ASSUME IInv, TreeInv, NEW r \in Requests, NEW n \in Tokens, RefreshCommit(r, n)
  PROVE  TreeInv'
<1> USE NoneAssumption
<1>t. TypeOK
  BY DEF IInv
<1>1. PICK p \in Tokens, s \in Sessions :
        /\ p = tx[r].token /\ s = tx[r].session /\ token[p].family = s
        /\ token[p].ends <= now + RefreshTTL /\ n # p
  <2>1. tx[r].session \in Sessions /\ tx[r].token \in Tokens /\ tx[r].step = "rotate"
    BY RotatedRows, <1>t DEF RefreshCommit
  <2>2. token[tx[r].token].family = tx[r].session /\ token[tx[r].token].ends <= now + RefreshTTL
    BY <2>1 DEF IInv, Links
  <2>3. ~Issued(n)
    BY DEF RefreshCommit
  <2>4. n # tx[r].token
    BY <2>1, <2>2, <2>3 DEF Issued
  <2> QED BY <2>1, <2>2, <2>4
<1>2. ~Issued(n) /\ ~token[n].used /\ UNCHANGED session
  BY DEF RefreshCommit, TreeInv, UnissuedUnused
<1>3. /\ \A u \in Tokens : u # n /\ u # p => token'[u] = token[u]
      /\ token'[n] = FreshToken(s, p)
      /\ token'[p] = [token[p] EXCEPT !.used = TRUE]
  <2>1. token' = [t \in Tokens |-> IF t = n THEN FreshToken(s, p)
                                 ELSE IF t = p THEN [token[t] EXCEPT !.used = TRUE]
                                 ELSE token[t]]
    BY <1>1, <1>t, RotatedRows
  <2> QED BY <2>1, <1>1
<1>4. /\ token'[n].family = s /\ token'[n].previous = p /\ token'[n].used = FALSE
      /\ token'[n].ends = now + RefreshTTL
      /\ token'[p].family = s /\ token'[p].previous = token[p].previous
      /\ token'[p].used = TRUE /\ token'[p].ends = token[p].ends
  BY <1>1, <1>3, <1>t DEF FreshToken, TypeOK, TokenRow
<1>5. \A u \in Tokens : u # n => /\ token'[u].family = token[u].family
                                 /\ token'[u].previous = token[u].previous
                                 /\ token'[u].ends = token[u].ends
  BY <1>1, <1>3, <1>4
<1>6. \A u \in Tokens : Successors(u)' = IF u = p THEN Successors(u) \cup {n} ELSE Successors(u)
  BY <1>1, <1>2, <1>4, <1>5 DEF Successors, Issued
<1>7. Successors(n) = {}
  BY <1>2 DEF TreeInv, RotationTree
<1>8. UnissuedUnused'
  <2>1. ASSUME NEW u \in Tokens, token'[u].family = None PROVE ~token'[u].used
    <3>1. u # n /\ u # p
      BY <1>4, <2>1
    <3> QED BY <3>1, <2>1, <1>3 DEF TreeInv, UnissuedUnused, Issued
  <2> QED BY <2>1 DEF UnissuedUnused, Issued
<1>9. ASSUME NEW u \in Tokens PROVE token'[u].used <=> Successors(u)' # {}
  <2>1. CASE u = n
    BY <2>1, <1>1, <1>4, <1>6, <1>7
  <2>2. CASE u = p
    BY <2>2, <1>4, <1>6
  <2>3. CASE u # n /\ u # p
    BY <2>3, <1>3, <1>6 DEF TreeInv, RotationTree
  <2> QED BY <2>1, <2>2, <2>3
<1>10. \A u \in Tokens : \A m \in Successors(u)' :
         token'[m].family = token'[u].family /\ token'[u].ends <= token'[m].ends
  <2> SUFFICES ASSUME NEW u \in Tokens, NEW m \in Successors(u)'
               PROVE token'[m].family = token'[u].family /\ token'[u].ends <= token'[m].ends
    OBVIOUS
  <2>1. CASE m = n
    <3>1. u = p
      BY <2>1, <1>4 DEF Successors
    <3> QED BY <3>1, <2>1, <1>1, <1>4
  <2>2. CASE m # n
    <3>1. m \in Successors(u) /\ m \in Tokens /\ u # n
      BY <2>2, <1>6, <1>7 DEF Successors
    <3> QED BY <2>2, <3>1, <1>5 DEF TreeInv, RotationTree
  <2> QED BY <2>1, <2>2
<1>11. \A v \in Sessions : session'[v].status # "none" =>
         \E t \in Tokens : \A u \in Tokens :
           u = t <=> token'[u].family = v /\ token'[u].previous = None
  <2> SUFFICES ASSUME NEW v \in Sessions, session[v].status # "none"
               PROVE \E t \in Tokens : \A u \in Tokens :
                       u = t <=> token'[u].family = v /\ token'[u].previous = None
    BY <1>2
  <2>1. PICK t \in Tokens : \A u \in Tokens :
          u = t <=> token[u].family = v /\ token[u].previous = None
    BY DEF TreeInv, RotationTree
  <2>2. t # n
    BY <2>1, <1>2 DEF Issued
  <2> QED BY <2>1, <2>2, <1>4, <1>5
<1> QED BY <1>8, <1>9, <1>10, <1>11 DEF TreeInv, RotationTree

\* Every handler step keeps the tree.
LEMMA StepTree == IInv /\ TreeInv /\ [Next]_vars => TreeInv'
<1> SUFFICES ASSUME IInv, TreeInv, [Next]_vars PROVE TreeInv'
  OBVIOUS
<1>t. TypeOK
  BY DEF IInv
<1>1. ASSUME UNCHANGED <<session, token>> PROVE TreeInv'
  BY <1>1, SameTree
<1>2. ASSUME NEW r \in Requests, RevokeCommit(r)
      PROVE TreeInv'
  <2>1. \A t \in Tokens : /\ token'[t].family = token[t].family
                          /\ token'[t].previous = token[t].previous
                          /\ token'[t].used = token[t].used
                          /\ token'[t].ends = token[t].ends
    BY <1>2, <1>t, ClosedRows
  <2>2. \A s \in Sessions : session'[s].status # "none" => session[s].status # "none"
    BY <1>2, <1>t, ClosedRows DEF IInv, Links
  <2> QED BY <2>1, <2>2, SameTree
<1>6. ASSUME NEW r \in Requests,
             \/ \E u, target \in Sessions : Logout(r, u, target) \/ SessionRevoke(r, u, target)
             \/ RevokeScan(r)
      PROVE TreeInv'
  BY <1>1, <1>6, <1>t, PreparesOnly DEF Prepares, rows
<1>3. ASSUME NEW r \in Requests, NEW t \in Tokens, RefreshBegin(r, t) PROVE TreeInv'
  BY <1>1, <1>3 DEF RefreshBegin, rows
<1>4. ASSUME NEW r \in Requests,
             ReuseCommit(r) \/ Abort(r) \/ CallEnd(r) \/ \E s \in Sessions : CallBegin(r, s)
      PROVE TreeInv'
  BY <1>1, <1>4 DEF ReuseCommit, Abort, CallEnd, CallBegin, rows
<1>5. ASSUME Tick \/ UNCHANGED vars PROVE TreeInv'
  BY <1>1, <1>5 DEF Tick, vars, rows
<1> QED
  BY <1>2, <1>3, <1>4, <1>5, <1>6, LoginTree, RotateTree, NextIsSteps DEF Steps

(***************************************************************************)
(* Refresh tokens of a family always form one tree rooted at the login,    *)
(* in which exactly the used tokens have successors.                       *)
(***************************************************************************)
THEOREM RotationTreeHolds == Spec => []RotationTree
<1>1. Init => TreeInv
  BY NoneAssumption DEF Init, TreeInv, RotationTree, UnissuedUnused, Successors, Issued
<1> QED BY <1>1, StepTree, IInvHolds, PTL DEF Spec, TreeInv

-----------------------------------------------------------------------------
(***************************************************************************)
(* Counting.  A refresh that reads an unused token finds no successor of   *)
(* it, and none begins on a closed session: from then on each commit turns *)
(* a request under way into a row, so that the sum of both never grows.    *)
(* There are finitely many rows at any time.                               *)
(***************************************************************************)
RotatingToken(t) == {r \in Requests : tx[r].step = "rotate" /\ tx[r].token = t}
RotatingSession(s) == {r \in Requests : tx[r].step = "rotate" /\ tx[r].session = s}
Unrevoked(s) == {t \in Tokens : token[t].family = s /\ ~token[t].revoked}

SuccessorsBounded == \A t \in Tokens :
  /\ IsFiniteSet(Successors(t))
  /\ Cardinality(Successors(t)) + Cardinality(RotatingToken(t)) <= Cardinality(Requests)
RowsCounted == IsFiniteSet({t \in Tokens : Issued(t)})

\* A set of requests has no more members than there are requests.
LEMMA RequestsCounted ==
  /\ Cardinality(Requests) \in Nat
  /\ \A S \in SUBSET Requests : /\ IsFiniteSet(S) /\ Cardinality(S) \in Nat
                                /\ Cardinality(S) <= Cardinality(Requests)
BY RequestsAssumption, FS_Subset, FS_CardinalityType

\* Fewer rows and fewer requests than a bound allows stay within it.
LEMMA Fewer ==
  ASSUME NEW A, NEW R, R \subseteq Requests, IsFiniteSet(A),
         Cardinality(A) + Cardinality(R) <= Cardinality(Requests),
         NEW B, B \subseteq A, NEW Q, Q \subseteq R
  PROVE  IsFiniteSet(B) /\ Cardinality(B) + Cardinality(Q) <= Cardinality(Requests)
<1>1. /\ IsFiniteSet(B) /\ Cardinality(B) \in Nat /\ Cardinality(A) \in Nat
      /\ Cardinality(B) <= Cardinality(A)
  BY FS_Subset, FS_CardinalityType
<1>2. IsFiniteSet(R) /\ Cardinality(R) \in Nat
  BY RequestsCounted
<1>3. Cardinality(Q) \in Nat /\ Cardinality(Q) <= Cardinality(R)
  BY <1>2, FS_Subset, FS_CardinalityType
<1> QED BY <1>1, <1>2, <1>3, RequestsCounted

\* A request that turns into a row leaves the sum within the bound.
LEMMA OneForOne ==
  ASSUME NEW A, NEW R, R \subseteq Requests, IsFiniteSet(A),
         Cardinality(A) + Cardinality(R) <= Cardinality(Requests), NEW n, NEW r \in R
  PROVE  /\ IsFiniteSet(A \cup {n}) /\ R \ {r} \subseteq Requests
         /\ Cardinality(A \cup {n}) + Cardinality(R \ {r}) <= Cardinality(Requests)
<1>1. /\ IsFiniteSet(A \cup {n}) /\ Cardinality(A \cup {n}) \in Nat /\ Cardinality(A) \in Nat
      /\ Cardinality(A \cup {n}) <= Cardinality(A) + 1
  <2>1. Cardinality(A) \in Nat
    BY FS_CardinalityType
  <2>2. IsFiniteSet(A \cup {n}) /\ (\/ Cardinality(A \cup {n}) = Cardinality(A)
                                    \/ Cardinality(A \cup {n}) = Cardinality(A) + 1)
    BY FS_AddElement
  <2> QED BY <2>1, <2>2
<1>2. /\ IsFiniteSet(R) /\ Cardinality(R) \in Nat
      /\ IsFiniteSet(R \ {r}) /\ Cardinality(R \ {r}) = Cardinality(R) - 1
  BY RequestsCounted, FS_RemoveElement
<1> QED BY <1>1, <1>2, RequestsCounted

\* A bound on requests alone.
LEMMA NoRows ==
  ASSUME NEW A, A = {}, NEW R, R \subseteq Requests
  PROVE  IsFiniteSet(A) /\ Cardinality(A) + Cardinality(R) <= Cardinality(Requests)
<1>1. IsFiniteSet(A) /\ Cardinality(A) = 0
  BY FS_EmptySet
<1> QED BY <1>1, RequestsCounted

\* Reuse that nobody notices stays bounded.
LEMMA StepSuccessors ==
  IInv /\ TreeInv /\ SuccessorsBounded /\ [Next]_vars => SuccessorsBounded'
<1> SUFFICES ASSUME IInv, TreeInv, SuccessorsBounded, [Next]_vars, NEW t \in Tokens
             PROVE  /\ IsFiniteSet(Successors(t)')
                    /\ Cardinality(Successors(t)') + Cardinality(RotatingToken(t)')
                         <= Cardinality(Requests)
  BY DEF SuccessorsBounded
<1> DEFINE A == Successors(t)
           R == RotatingToken(t)
           B == Successors(t)'
           Q == RotatingToken(t)'
<1>t. TypeOK /\ UnissuedUnused /\ RotationTree
  BY DEF IInv, TreeInv
<1>0. /\ R \subseteq Requests /\ Q \subseteq Requests /\ IsFiniteSet(A)
      /\ Cardinality(A) + Cardinality(R) <= Cardinality(Requests)
  BY DEF SuccessorsBounded, RotatingToken
<1>f. ASSUME B \subseteq A, Q \subseteq R
      PROVE  IsFiniteSet(B) /\ Cardinality(B) + Cardinality(Q) <= Cardinality(Requests)
  <2> HIDE DEF A, R, B, Q
  <2> QED BY <1>0, <1>f, Fewer
<1>n. ASSUME B = {}
      PROVE  IsFiniteSet(B) /\ Cardinality(B) + Cardinality(Q) <= Cardinality(Requests)
  <2> HIDE DEF A, R, B, Q
  <2> QED BY <1>0, <1>n, NoRows
<1>1. ASSUME NEW a \in Accounts, NEW s \in Sessions, NEW l \in Tokens, Login(a, s, l)
      PROVE  B \subseteq A /\ Q \subseteq R
  BY <1>1, <1>t, NoneAssumption
    DEF Login, FreshToken, TypeOK, Successors, Issued, RotatingToken
<1>2. ASSUME NEW r \in Requests, NEW l \in Tokens, RefreshBegin(r, l)
      PROVE  (B \subseteq A /\ Q \subseteq R) \/ B = {}
  <2>1. UNCHANGED token /\ B = A
    BY <1>2 DEF RefreshBegin, rows, Successors, Issued
  <2>2. CASE token[l].used \/ l # t
    <3>1. Q \subseteq R
      BY <1>2, <1>t, <2>2 DEF RefreshBegin, RotatingToken, TypeOK
    <3> QED BY <2>1, <3>1
  <2>3. CASE ~token[l].used /\ l = t
    BY <1>t, <2>1, <2>3 DEF RotationTree
  <2> QED BY <2>2, <2>3
<1>3. ASSUME NEW r \in Requests, NEW n \in Tokens, RefreshCommit(r, n)
      PROVE  \/ B \subseteq A /\ Q \subseteq R
             \/ r \in R /\ B \subseteq A \cup {n} /\ Q \subseteq R \ {r}
  <2> DEFINE p == tx[r].token
  <2>1. /\ p \in Tokens /\ tx[r].step = "rotate" /\ tx' = [tx EXCEPT ![r] = Idle] /\ ~Issued(n)
    BY <1>3, <1>t, RotatedRows DEF RefreshCommit
  <2>2. Q = R \ {r}
    BY <2>1, <1>t DEF RotatingToken, Idle, TypeOK
  <2>3. \A m \in Tokens : /\ m # n => /\ token'[m].family = token[m].family
                                      /\ token'[m].previous = token[m].previous
                          /\ m = n => token'[m].previous = p
    BY <1>3, <1>t, RotatedRows DEF FreshToken, TypeOK, TokenRow
  <2>4. CASE p = t
    BY <2>1, <2>2, <2>3, <2>4 DEF RotatingToken, Successors, Issued
  <2>5. CASE p # t
    BY <2>2, <2>3, <2>5 DEF Successors, Issued
  <2> QED BY <2>4, <2>5
<1>4. ASSUME NEW r \in Requests,
             ReuseCommit(r) \/ Abort(r) \/ CallEnd(r) \/ \E s \in Sessions : CallBegin(r, s)
      PROVE  B \subseteq A /\ Q \subseteq R
  BY <1>4, <1>t DEF ReuseCommit, Abort, CallEnd, CallBegin, rows, Idle, TypeOK,
                    Successors, Issued, RotatingToken
<1>5. ASSUME NEW r \in Requests, RevokeCommit(r)
      PROVE  B \subseteq A /\ Q \subseteq R
  BY <1>5, <1>t, ClosedRows DEF Successors, Issued, RotatingToken, Idle
<1>9. ASSUME NEW r \in Requests,
             \/ \E u, target \in Sessions : Logout(r, u, target) \/ SessionRevoke(r, u, target)
             \/ RevokeScan(r)
      PROVE  B \subseteq A /\ Q \subseteq R
  <2>1. Prepares(r)
    BY <1>9, <1>t, PreparesOnly
  <2> QED BY <2>1, <1>t, PreparedTx DEF Prepares, rows, Successors, Issued, RotatingToken
<1>6. ASSUME Tick \/ UNCHANGED vars PROVE B \subseteq A /\ Q \subseteq R
  BY <1>6 DEF Tick, vars, rows, Successors, Issued, RotatingToken
<1> HIDE DEF A, R, B, Q
<1>7. ASSUME NEW r \in Requests, NEW n \in Tokens, RefreshCommit(r, n)
      PROVE  IsFiniteSet(B) /\ Cardinality(B) + Cardinality(Q) <= Cardinality(Requests)
  <2>1. CASE B \subseteq A /\ Q \subseteq R
    BY <2>1, <1>f
  <2>2. CASE r \in R /\ B \subseteq A \cup {n} /\ Q \subseteq R \ {r}
    <3> DEFINE A1 == A \cup {n}
               R1 == R \ {r}
    <3>1. /\ B \subseteq A1 /\ Q \subseteq R1 /\ R1 \subseteq Requests /\ IsFiniteSet(A1)
          /\ Cardinality(A1) + Cardinality(R1) <= Cardinality(Requests)
      BY <1>0, <2>2, OneForOne
    <3> HIDE DEF A1, R1
    <3> QED BY <3>1, Fewer
  <2> QED BY <1>3, <1>7, <2>1, <2>2
<1>8. IsFiniteSet(B) /\ Cardinality(B) + Cardinality(Q) <= Cardinality(Requests)
  <2>1. Steps \/ UNCHANGED vars
    BY NextIsSteps
  <2> QED BY <2>1, <1>1, <1>2, <1>4, <1>5, <1>6, <1>7, <1>9, <1>f, <1>n DEF Steps
<1> QED BY <1>8 DEF B, Q

\* No step inserts more than one row.
LEMMA StepRows == IInv /\ RowsCounted /\ [Next]_vars => RowsCounted'
<1> SUFFICES ASSUME IInv, RowsCounted, [Next]_vars PROVE RowsCounted'
  OBVIOUS
<1> DEFINE A == {t \in Tokens : Issued(t)}
           B == {t \in Tokens : Issued(t)'}
<1>t. TypeOK
  BY DEF IInv
<1>a. ASSUME NEW n, B \subseteq A \cup {n} PROVE RowsCounted'
  <2>1. IsFiniteSet(A \cup {n})
    BY FS_AddElement DEF RowsCounted
  <2>2. IsFiniteSet(B)
    BY <2>1, <1>a, FS_Subset
  <2> QED BY <2>2 DEF RowsCounted
<1>b. ASSUME \A t \in Tokens : token'[t].family = token[t].family PROVE RowsCounted'
  <2>1. B = A
    BY <1>b DEF Issued
  <2> QED BY <2>1 DEF RowsCounted
<1>1. ASSUME NEW a \in Accounts, NEW s \in Sessions, NEW t \in Tokens, Login(a, s, t)
      PROVE  RowsCounted'
  <2>1. B \subseteq A \cup {t}
    BY <1>1, <1>t DEF Login, Issued, TypeOK
  <2> QED BY <2>1, <1>a
<1>2. ASSUME NEW r \in Requests, NEW n \in Tokens, RefreshCommit(r, n) PROVE RowsCounted'
  <2>1. B \subseteq A \cup {n}
    BY <1>2, <1>t, RotatedRows DEF Issued, TypeOK, TokenRow
  <2> QED BY <2>1, <1>a
<1>3. ASSUME NEW r \in Requests, RevokeCommit(r) PROVE RowsCounted'
  BY <1>3, <1>b, <1>t, ClosedRows
<1>4. ASSUME UNCHANGED token PROVE RowsCounted'
  BY <1>4, <1>b
<1>5. ASSUME NEW r \in Requests,
             \/ \E u, target \in Sessions : Logout(r, u, target) \/ SessionRevoke(r, u, target)
             \/ RevokeScan(r)
      PROVE  RowsCounted'
  BY <1>4, <1>5, <1>t, PreparesOnly DEF Prepares, rows
<1>6. ASSUME NEW r \in Requests,
             \/ \E t \in Tokens : RefreshBegin(r, t)
             \/ ReuseCommit(r) \/ Abort(r) \/ CallEnd(r) \/ \E u \in Sessions : CallBegin(r, u)
      PROVE  RowsCounted'
  BY <1>4, <1>6 DEF RefreshBegin, ReuseCommit, Abort, CallEnd, CallBegin, rows
<1>7. ASSUME Tick \/ UNCHANGED vars PROVE RowsCounted'
  BY <1>4, <1>7 DEF Tick, vars, rows
<1> HIDE DEF A, B
<1> QED BY <1>1, <1>2, <1>3, <1>5, <1>6, <1>7, NextIsSteps DEF Steps

\* The rows that a revocation leaves behind, and the rotations that may add one, get fewer.
LEMMA StepLeftBehind ==
  ASSUME IInv, RowsCounted, [Next]_vars, NEW s \in Sessions, session[s].status = "revoked"
  PROVE  LeftBehind(s)' <= LeftBehind(s)
<1> DEFINE A == Unrevoked(s)
           R == RotatingSession(s)
           B == Unrevoked(s)'
           Q == RotatingSession(s)'
           Fewer2 == Cardinality(B) + Cardinality(Q) <= Cardinality(A) + Cardinality(R)
<1>t. TypeOK /\ Links
  BY DEF IInv
<1>0. R \subseteq Requests /\ IsFiniteSet(A) /\ Cardinality(A) \in Nat
  <2>1. A \subseteq {t \in Tokens : Issued(t)}
    BY <1>t, NoneAssumption DEF Unrevoked, Issued
  <2> QED BY <2>1, FS_Subset, FS_CardinalityType DEF RowsCounted, RotatingSession
<1>f. ASSUME B \subseteq A, Q \subseteq R PROVE Fewer2
  <2> HIDE DEF A, R, B, Q
  <2>1. Cardinality(B) \in Nat /\ Cardinality(B) <= Cardinality(A)
    BY <1>0, <1>f, FS_Subset, FS_CardinalityType
  <2>2. IsFiniteSet(R) /\ Cardinality(R) \in Nat
    BY <1>0, RequestsCounted
  <2>3. Cardinality(Q) \in Nat /\ Cardinality(Q) <= Cardinality(R)
    BY <1>f, <2>2, FS_Subset, FS_CardinalityType
  <2> QED BY <1>0, <2>1, <2>2, <2>3
<1>1. ASSUME NEW a \in Accounts, NEW u \in Sessions, NEW l \in Tokens, Login(a, u, l)
      PROVE  B \subseteq A /\ Q \subseteq R
  BY <1>1, <1>t, NoneAssumption
    DEF Login, FreshToken, TypeOK, Unrevoked, RotatingSession
<1>2. ASSUME NEW r \in Requests, NEW l \in Tokens, RefreshBegin(r, l)
      PROVE  B \subseteq A /\ Q \subseteq R
  <2>1. /\ token' = token /\ session[token[l].family].status = "active"
        /\ tx' = [tx EXCEPT ![r] = [step |-> IF token[l].used THEN "reuse" ELSE "rotate",
                                    session |-> token[l].family, token |-> l]]
    BY <1>2 DEF RefreshBegin, Refreshable, rows
  <2>2. token[l].family # s
    BY <2>1
  <2>3. \A q \in Requests : tx'[q] = tx[q] \/ tx'[q].session # s
    BY <2>1, <2>2, <1>t DEF TypeOK
  <2> QED BY <2>1, <2>3 DEF Unrevoked, RotatingSession
<1>3. ASSUME NEW r \in Requests, NEW n \in Tokens, RefreshCommit(r, n)
      PROVE  \/ B \subseteq A /\ Q \subseteq R
             \/ r \in R /\ B \subseteq A \cup {n} /\ Q \subseteq R \ {r}
  <2>1. tx[r].step = "rotate" /\ tx' = [tx EXCEPT ![r] = Idle]
    BY <1>3, <1>t, RotatedRows DEF RefreshCommit
  <2>2. Q = R \ {r}
    BY <2>1, <1>t DEF RotatingSession, Idle, TypeOK
  <2>3. \A m \in Tokens : /\ m # n => /\ token'[m].family = token[m].family
                                      /\ token'[m].revoked = token[m].revoked
                          /\ m = n => token'[m].family = tx[r].session
    BY <1>3, <1>t, RotatedRows DEF FreshToken, TypeOK, TokenRow
  <2>4. CASE tx[r].session = s
    BY <2>1, <2>2, <2>3, <2>4 DEF RotatingSession, Unrevoked
  <2>5. CASE tx[r].session # s
    BY <2>1, <2>2, <2>3, <2>5 DEF Unrevoked
  <2> QED BY <2>4, <2>5
<1>4. ASSUME NEW r \in Requests,
             ReuseCommit(r) \/ Abort(r) \/ CallEnd(r) \/ \E u \in Sessions : CallBegin(r, u)
      PROVE  B \subseteq A /\ Q \subseteq R
  BY <1>4, <1>t DEF ReuseCommit, Abort, CallEnd, CallBegin, rows, Idle, TypeOK,
                    Unrevoked, RotatingSession
<1>5. ASSUME NEW r \in Requests, RevokeCommit(r) PROVE B \subseteq A /\ Q \subseteq R
  <2>1. B \subseteq A
    BY <1>5, <1>t, ClosedRows, ClosedStayRevoked DEF Unrevoked
  <2>2. Q \subseteq R
    BY <1>5, <1>t, ClosedRows DEF RotatingSession, Idle
  <2> QED BY <2>1, <2>2
<1>9. ASSUME NEW r \in Requests,
             \/ \E u, target \in Sessions : Logout(r, u, target) \/ SessionRevoke(r, u, target)
             \/ RevokeScan(r)
      PROVE  B \subseteq A /\ Q \subseteq R
  <2>1. Prepares(r)
    BY <1>9, <1>t, PreparesOnly
  <2> QED BY <2>1, <1>t, PreparedTx DEF Prepares, rows, Unrevoked, RotatingSession
<1>6. ASSUME Tick \/ UNCHANGED vars PROVE B \subseteq A /\ Q \subseteq R
  BY <1>6 DEF Tick, vars, rows, Unrevoked, RotatingSession
<1>7. ASSUME NEW r \in Requests, NEW n \in Tokens, RefreshCommit(r, n) PROVE Fewer2
  <2>1. CASE B \subseteq A /\ Q \subseteq R
    BY <2>1, <1>f
  <2>2. CASE r \in R /\ B \subseteq A \cup {n} /\ Q \subseteq R \ {r}
    <3> HIDE DEF A, R, B, Q
    <3>1. /\ IsFiniteSet(A \cup {n}) /\ Cardinality(A \cup {n}) \in Nat
          /\ Cardinality(A \cup {n}) <= Cardinality(A) + 1
      <4>1. IsFiniteSet(A \cup {n}) /\ (\/ Cardinality(A \cup {n}) = Cardinality(A)
                                        \/ Cardinality(A \cup {n}) = Cardinality(A) + 1)
        BY <1>0, FS_AddElement
      <4> QED BY <1>0, <4>1
    <3>2. /\ IsFiniteSet(R) /\ Cardinality(R) \in Nat
          /\ IsFiniteSet(R \ {r}) /\ Cardinality(R \ {r}) = Cardinality(R) - 1
      BY <1>0, <2>2, RequestsCounted, FS_RemoveElement
    <3>3. Cardinality(B) \in Nat /\ Cardinality(B) <= Cardinality(A \cup {n})
      BY <2>2, <3>1, FS_Subset, FS_CardinalityType
    <3>4. Cardinality(Q) \in Nat /\ Cardinality(Q) <= Cardinality(R \ {r})
      BY <2>2, <3>2, FS_Subset, FS_CardinalityType
    <3> QED BY <1>0, <3>1, <3>2, <3>3, <3>4
  <2> QED BY <1>3, <1>7, <2>1, <2>2
<1> HIDE DEF Fewer2, A, R, B, Q
<1>8. Fewer2
  <2>1. Steps \/ UNCHANGED vars
    BY NextIsSteps
  <2> QED BY <2>1, <1>1, <1>2, <1>4, <1>5, <1>6, <1>7, <1>9, <1>f DEF Steps
<1> QED BY <1>8 DEF Fewer2, A, R, B, Q, LeftBehind, Unrevoked, RotatingSession

\* Before any session exists there is nothing to count.
LEMMA InitCounts == Init => SuccessorsBounded /\ RowsCounted
<1> SUFFICES ASSUME Init PROVE SuccessorsBounded /\ RowsCounted
  OBVIOUS
<1>1. \A t \in Tokens : Successors(t) = {} /\ RotatingToken(t) \subseteq Requests
  BY DEF Init, Successors, Issued, RotatingToken
<1>2. {t \in Tokens : Issued(t)} = {}
  BY DEF Init, Issued
<1>3. SuccessorsBounded
  BY <1>1, NoRows DEF SuccessorsBounded
<1> QED BY <1>2, <1>3, FS_EmptySet DEF RowsCounted

(***************************************************************************)
(* The rotations of one token that reuse detection does not see are no     *)
(* more than the requests that can be under way at once.                   *)
(***************************************************************************)
THEOREM ReuseStaysBounded == Spec => []UndetectedReuseBounded
<1>1. SuccessorsBounded => UndetectedReuseBounded
  BY DEF SuccessorsBounded, UndetectedReuseBounded, RotatingToken
<1>2. Init => TreeInv
  BY NoneAssumption DEF Init, TreeInv, RotationTree, UnissuedUnused, Successors, Issued
<1> QED BY <1>1, <1>2, InitCounts, StepSuccessors, StepTree, IInvHolds, PTL DEF Spec

(***************************************************************************)
(* What a revocation leaves behind only gets less: no refresh begins on a  *)
(* closed session, and no later revocation revives a row.                  *)
(***************************************************************************)
THEOREM LeftBehindShrinks == Spec => LeftBehindOnlyShrinks
<1>1. IInv /\ RowsCounted /\ [Next]_vars =>
        [\A s \in Sessions : session[s].status = "revoked"
                               => LeftBehind(s)' <= LeftBehind(s)]_vars
  BY StepLeftBehind
<1> QED BY <1>1, InitCounts, StepRows, IInvHolds, PTL DEF Spec, LeftBehindOnlyShrinks
=============================================================================
