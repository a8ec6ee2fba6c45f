------------------------- MODULE AdminSessionProofs -------------------------
(***************************************************************************)
(* Theorems about the central-admin server and the gateway together, for   *)
(* every set of accounts, sessions, tokens, pages and requests, every      *)
(* choice of lifetimes, every number of parallel calls and every behaviour *)
(* of the browser.                                                         *)
(***************************************************************************)
EXTENDS AdminSession, AuthSessionsProofs

\* Every step of AdminNext, named once: a lemma about it has one case per action.
CallSteps(q) ==
  \/ CallServed(q) \/ SignOutServed(q) \/ SignOutScans(q) \/ CallAnswered(q) \/ CallRefused(q)
  \/ RefreshRefused(q) \/ RefreshSent(q) \/ RefreshFailed(q) \/ FetchThrows(q)

AdminSteps ==
  \/ \E a \in Accounts, s \in Sessions, t \in Tokens : SignIn(a, s, t)
  \/ \E a \in Accounts : SignInChallenged(a)
  \/ \E a \in Accounts : SignInRefused(a)
  \/ \E q \in Requests, kind \in Kinds : Home[q] \in Pages /\ OpenPage(Home[q], q, kind)
  \/ \E p \in Pages : CallsInParallel(p)
  \/ \E p \in Pages : Answer(p)
  \/ \E p \in Pages : Delivered(p)
  \/ \E p \in Pages : Dropped(p)
  \/ \E q \in Requests : Home[q] \in Pages /\ CallSteps(q)
  \/ \E q \in Requests, n \in Tokens : Home[q] \in Pages /\ RefreshAnswered(q, n)
  \/ Elsewhere

\* AdminNext is the disjunction of the steps, whatever its grouping.
LEMMA AdminNextIsSteps == AdminNext => AdminSteps
BY DEF AdminNext, AdminSteps, PageProgress, CallProgress, CallSteps, CallsOf, OpenPage

-----------------------------------------------------------------------------
(***************************************************************************)
(* The inductive invariant: what the cookies are, and that the access      *)
(* token of a session never outlives one signed for it now.                *)
(***************************************************************************)
Cookies == [session : Sessions \cup {None}, refresh : Tokens \cup {None}, accessEnds : Nat]
PageRec == [at : {"closed", "calling", "failing", "answered"},
            kind : {"none"} \cup PageKinds, cookies : Cookies, dirty : BOOLEAN, more : BOOLEAN]
CallRec == [at : {"free", "call", "served", "refresh", "rotating", "retry"}, cookies : Cookies]
Refreshing(c) == c.at \in {"refresh", "rotating"}

AdminTypeOK ==
  /\ jar \in Cookies /\ page \in [Pages -> PageRec] /\ call \in [Requests -> CallRec]
  /\ \A q \in Requests : Refreshing(call[q]) => call[q].cookies.refresh # None
AccessBounded == \A s \in Sessions : accessEnds[s] <= now + AccessTTL

AdminInv == IInv /\ AdminTypeOK /\ AccessBounded /\ CookiesOfOneSession

(***************************************************************************)
(* The invariant of a careful browser: one request of one call at a time,  *)
(* which holds an unused refresh token; the browser's own is unused too    *)
(* until that request has a newer one for it.                              *)
(***************************************************************************)
Unspent(c) == c.refresh # None => ~token[c.refresh].used
CarefulInv == habit = "careful" =>
  /\ \A s \in Sessions : family[s] # "reused"
  /\ \A q \in Requests : /\ tx[q].step # "reuse" /\ Unspent(call[q].cookies)
                         /\ call[q] # Free => Home[q] \in Pages /\ page[Home[q]].at = "calling"
  /\ \A p \in Pages : /\ page[p].kind \notin Several /\ ~page[p].more /\ page[p].at # "failing"
                      /\ Unspent(page[p].cookies)
  /\ \A q, r \in Requests : call[q] # Free /\ call[r] # Free => q = r
  /\ \A o, p \in Pages : page[o] # Closed /\ page[p] # Closed => o = p
  /\ Unspent(jar) \/ \E p \in Pages : page[p].dirty

-----------------------------------------------------------------------------
\* The cookies that a page and a call carry.
LEMMA Carried ==
  ASSUME AdminTypeOK
  PROVE  /\ \A p \in Pages : page[p] \in PageRec /\ page[p].cookies \in Cookies
         /\ \A q \in Requests : /\ call[q] \in CallRec /\ call[q].cookies \in Cookies
                                /\ call[q].cookies.session \in Sessions \cup {None}
                                /\ call[q].cookies.refresh \in Tokens \cup {None}
BY DEF AdminTypeOK, PageRec, CallRec, Cookies

\* Ends and scans of requests are steps of the gateway.
LEMMA EndsAreSteps ==
  ASSUME NEW q \in Requests, RequestEnds(q) \/ RevokeScan(q)
  PROVE  Steps
BY DEF RequestEnds, Steps

\* What the admin server and the browser make the gateway do, the gateway could do.
LEMMA GatewayStep == AdminTypeOK /\ [AdminNext]_allVars => [Next]_vars
<1> SUFFICES ASSUME AdminTypeOK, AdminNext, ~UNCHANGED vars PROVE Steps
  BY DEF Steps, Next, allVars
<1>1. ASSUME NEW a \in Accounts, NEW s \in Sessions, NEW t \in Tokens, SignIn(a, s, t) PROVE Steps
  BY <1>1 DEF SignIn, Steps
<1>2. ASSUME NEW q \in Requests, CallSteps(q) PROVE Steps
  <2>1. CASE CallServed(q)
    <3>1. call[q].cookies.session \in Sessions /\ CallBegin(q, call[q].cookies.session)
      BY <2>1, Carried DEF CallServed, JwtAccepted
    <3> QED BY <3>1 DEF Steps
  <2>2. CASE SignOutServed(q)
    <3> DEFINE s == call[q].cookies.session
    <3>1. s \in Sessions /\ Logout(q, s, s)
      BY <2>2, Carried DEF SignOutServed, JwtAccepted
    <3> HIDE DEF s
    <3> QED BY <3>1 DEF Steps
  <2>3. CASE SignOutScans(q) \/ CallAnswered(q) \/ RefreshFailed(q) \/ FetchThrows(q)
    <3>1. RequestEnds(q) \/ RevokeScan(q)
      BY <2>3 DEF SignOutScans, CallAnswered, RefreshFailed, FetchThrows, RequestEnds
    <3> QED BY <3>1, EndsAreSteps
  <2>4. CASE RefreshSent(q)
    <3>1. call[q].cookies.refresh \in Tokens /\ RefreshBegin(q, call[q].cookies.refresh)
      BY <2>4, Carried DEF RefreshSent, AdminTypeOK, Refreshing
    <3> QED BY <3>1 DEF Steps
  <2> QED BY <1>2, <2>1, <2>2, <2>3, <2>4 DEF CallSteps, CallRefused, RefreshRefused
<1>3. ASSUME NEW q \in Requests, NEW n \in Tokens, RefreshAnswered(q, n) PROVE Steps
  BY <1>3 DEF RefreshAnswered, Steps
<1>4. ASSUME Elsewhere PROVE Steps
  <2>1. CASE Tick
    BY <2>1 DEF Steps
  <2>2. ASSUME NEW q \in Requests, NEW s \in Sessions, NEW target \in Sessions,
               SessionRevoke(q, s, target)
        PROVE  Steps
    BY <2>2 DEF Steps
  <2>3. ASSUME NEW q \in Requests, RevokeScan(q) \/ RevokeCommit(q) \/ Abort(q) PROVE Steps
    BY <2>3 DEF Steps
  <2> QED BY <1>4, <2>1, <2>2, <2>3 DEF Elsewhere, CallsOf
<1>5. AdminSteps
  BY AdminNextIsSteps
<1> QED
  BY <1>1, <1>2, <1>3, <1>4, <1>5
    DEF AdminSteps, SignInChallenged, SignInRefused, OpenPage, CallsInParallel, Answer,
        Delivered, Dropped

\* An issued token stays in its family, and access tokens of a session only get to last longer.
LEMMA Grows ==
  ASSUME IInv, AccessBounded, [Next]_vars
  PROVE  /\ AccessBounded'
         /\ \A t \in Tokens : token[t].family # None => token'[t].family = token[t].family
         /\ \A s \in Sessions : session[s].status # "none" => accessEnds[s] <= accessEnds'[s]
<1> DEFINE Goal == /\ AccessBounded'
                   /\ \A t \in Tokens : token[t].family # None => token'[t].family = token[t].family
                   /\ \A s \in Sessions : session[s].status # "none" => accessEnds[s] <= accessEnds'[s]
<1>t. TypeOK
  BY DEF IInv
<1> USE LifetimesAssumption, NoneAssumption
<1>u. ASSUME UNCHANGED <<now, accessEnds>>,
             \A t \in Tokens : token[t].family # None => token'[t].family = token[t].family
      PROVE  Goal
  BY <1>t, <1>u DEF AccessBounded, TypeOK
<1>1. ASSUME NEW a \in Accounts, NEW s \in Sessions, NEW t \in Tokens, Login(a, s, t) PROVE Goal
  BY <1>1, <1>t DEF Login, Issued, AccessBounded, TypeOK
<1>2. ASSUME NEW r \in Requests, NEW n \in Tokens, RefreshCommit(r, n) PROVE Goal
  <2>1. \A t \in Tokens : token[t].family # None => token'[t].family = token[t].family
    BY <1>2, <1>t, RotatedRows DEF RefreshCommit, Issued, TypeOK, TokenRow
  <2>2. /\ tx[r].session \in Sessions /\ now' = now
        /\ accessEnds' = [accessEnds EXCEPT ![tx[r].session] = now + AccessTTL]
    BY <1>2, <1>t, RotatedRows DEF RefreshCommit
  <2> QED BY <2>1, <2>2, <1>t DEF AccessBounded, TypeOK
<1>3. ASSUME NEW r \in Requests, RevokeCommit(r) PROVE Goal
  <2>1. UNCHANGED <<now, accessEnds>>
    BY <1>3, <1>t, ClosedRows
  <2>2. \A t \in Tokens : token'[t].family = token[t].family
    BY <1>3, <1>t, ClosedRows
  <2> QED BY <2>1, <2>2, <1>u
<1>7. ASSUME NEW r \in Requests,
             \/ \E s, target \in Sessions : Logout(r, s, target) \/ SessionRevoke(r, s, target)
             \/ RevokeScan(r)
      PROVE  Goal
  BY <1>7, <1>t, <1>u, PreparesOnly DEF Prepares, rows
<1>4. ASSUME Tick PROVE Goal
  <2>1. /\ now' = now + 1 /\ now \in Nat /\ AccessTTL \in Nat /\ UNCHANGED <<token, accessEnds>>
        /\ accessEnds \in [Sessions -> Nat]
    BY <1>4, <1>t DEF Tick, rows, TypeOK
  <2>2. AccessBounded'
    BY <2>1 DEF AccessBounded
  <2>3. \A s \in Sessions : accessEnds[s] \in Nat /\ accessEnds'[s] = accessEnds[s]
    BY <2>1
  <2>4. \A s \in Sessions : accessEnds[s] <= accessEnds'[s]
    BY <2>3
  <2>5. \A t \in Tokens : token'[t].family = token[t].family
    BY <2>1
  <2> QED BY <2>2, <2>4, <2>5
<1>5. ASSUME NEW r \in Requests,
             \/ \E t \in Tokens : RefreshBegin(r, t)
             \/ ReuseCommit(r) \/ Abort(r) \/ CallEnd(r)
             \/ \E s \in Sessions : CallBegin(r, s)
      PROVE  Goal
  BY <1>5, <1>u DEF RefreshBegin, ReuseCommit, Abort, CallEnd, CallBegin, rows
<1>6. ASSUME UNCHANGED vars PROVE Goal
  BY <1>6, <1>u DEF vars
<1> HIDE DEF Goal
<1>8. Goal
  <2>1. Steps \/ UNCHANGED vars
    BY NextIsSteps
  <2> QED BY <2>1, <1>1, <1>2, <1>3, <1>4, <1>5, <1>6, <1>7 DEF Steps
<1> QED BY <1>8 DEF Goal

-----------------------------------------------------------------------------
\* What is true of cookies after a step.
RightAfter(c) ==
  /\ c \in Cookies
  /\ c.session = None <=> c.refresh = None
  /\ c.session # None => /\ token'[c.refresh].family = c.session
                         /\ c.accessEnds <= accessEnds'[c.session]

\* Cookies of one session stay cookies of one session, whatever the gateway does.
LEMMA StillRight ==
  ASSUME AdminInv, [Next]_vars, NEW c \in Cookies, NamesOneSession(c)
  PROVE  RightAfter(c)
<1>1. IInv /\ TypeOK /\ TypeOK' /\ AccessBounded
  BY TypeStep DEF AdminInv, IInv
<1>2. c.session \in Sessions \cup {None} /\ c.refresh \in Tokens \cup {None} /\ c.accessEnds \in Nat
  BY DEF Cookies
<1>3. CASE c.session = None
  BY <1>3 DEF NamesOneSession, RightAfter
<1>4. CASE c.session # None
  <2>1. /\ c.session \in Sessions /\ c.refresh \in Tokens
        /\ token[c.refresh].family = c.session /\ c.accessEnds <= accessEnds[c.session]
    BY <1>2, <1>4 DEF NamesOneSession
  <2>2. session[c.session].status # "none"
    BY <1>1, <2>1, <1>4 DEF IInv, Links, Issued
  <2>3. /\ token'[c.refresh].family = c.session
        /\ accessEnds[c.session] <= accessEnds'[c.session]
    BY <1>1, <2>1, <2>2, <1>4, Grows
  <2>4. accessEnds[c.session] \in Nat /\ accessEnds'[c.session] \in Nat
    BY <1>1, <2>1 DEF TypeOK
  <2>5. c.accessEnds <= accessEnds'[c.session]
    BY <1>2, <2>1, <2>3, <2>4
  <2> QED BY <2>1, <2>3, <2>5, NoneAssumption DEF RightAfter
<1> QED BY <1>3, <1>4

\* No cookies at all are right.
LEMMA NoneRight == RightAfter(NoCookies) /\ NoCookies \in Cookies
BY DEF RightAfter, NoCookies, Cookies

\* A step after which every cookie is one that is right.
LEMMA KeepsRight ==
  ASSUME AdminInv, [Next]_vars, RightAfter(jar'),
         page' \in [Pages -> PageRec], \A p \in Pages : RightAfter(page'[p].cookies),
         call' \in [Requests -> CallRec],
         \A q \in Requests : /\ RightAfter(call'[q].cookies)
                             /\ Refreshing(call'[q]) => call'[q].cookies.refresh # None
  PROVE  AdminInv'
<1>1. AdminTypeOK'
  BY DEF AdminTypeOK, RightAfter, Refreshing
<1>2. CookiesOfOneSession'
  BY DEF CookiesOfOneSession, NamesOneSession, RightAfter
<1>3. IInv' /\ AccessBounded'
  BY StepIInv, Grows DEF AdminInv
<1> QED BY <1>1, <1>2, <1>3 DEF AdminInv

\* Every cookie before a step is right after it.
LEMMA AllRight ==
  ASSUME AdminInv, [Next]_vars
  PROVE  /\ RightAfter(jar)
         /\ \A p \in Pages : RightAfter(page[p].cookies)
         /\ \A q \in Requests : RightAfter(call[q].cookies)
<1>1. AdminTypeOK /\ CookiesOfOneSession
  BY DEF AdminInv
<1>2. jar \in Cookies /\ NamesOneSession(jar)
  BY <1>1 DEF AdminTypeOK, CookiesOfOneSession
<1>3. \A p \in Pages : page[p].cookies \in Cookies /\ NamesOneSession(page[p].cookies)
  BY <1>1, Carried DEF CookiesOfOneSession
<1>4. \A q \in Requests : call[q].cookies \in Cookies /\ NamesOneSession(call[q].cookies)
  BY <1>1, Carried DEF CookiesOfOneSession
<1> QED BY <1>2, <1>3, <1>4, StillRight

-----------------------------------------------------------------------------
(***************************************************************************)
(* What a step of one call leaves: a page record that differs at most in   *)
(* being out of cookies, and a call that holds the page's or its own.      *)
(***************************************************************************)
MovedTo(q, rec, c) ==
  LET old == page[Home[q]]
  IN  /\ page' = [page EXCEPT ![Home[q]] = rec] /\ call' = [call EXCEPT ![q] = c]
      /\ rec.kind = old.kind
      /\ rec.at = old.at \/ habit = "any"
      /\ rec.more = old.more \/ rec.more = FALSE
      /\ \/ rec.cookies = old.cookies /\ rec.dirty = old.dirty
         \/ rec.cookies = NoCookies /\ rec.dirty = TRUE
      /\ c.cookies \in {call[q].cookies, NoCookies, old.cookies}
      /\ Refreshing(c) => c.cookies.refresh # None
      /\ call[q].at # "free"
      /\ jar' = jar /\ habit' = habit
MovedOn(q) == \E rec \in PageRec, c \in CallRec : MovedTo(q, rec, c)

\* The records of pages that the steps write.
LEMMA PageRecords ==
  ASSUME NEW rec \in PageRec
  PROVE  /\ [rec EXCEPT !.more = FALSE] \in PageRec
         /\ [rec EXCEPT !.more = FALSE].kind = rec.kind /\ [rec EXCEPT !.more = FALSE].at = rec.at
         /\ [rec EXCEPT !.more = FALSE].more = FALSE
         /\ [rec EXCEPT !.more = FALSE].cookies = rec.cookies
         /\ [rec EXCEPT !.more = FALSE].dirty = rec.dirty
BY DEF PageRec

LEMMA FreeRight == Free \in CallRec /\ Free.cookies = NoCookies /\ ~Refreshing(Free) /\ Free.at = "free"
BY NoneRight DEF Free, CallRec, Refreshing

LEMMA MovesOn ==
  ASSUME AdminTypeOK, NEW q \in Requests, Home[q] \in Pages, call[q].at # "free",
         NEW to \in {"served", "rotating"}, Moves(q, to),
         to = "rotating" => call[q].cookies.refresh # None
  PROVE  MovedOn(q)
<1> DEFINE c == [call[q] EXCEPT !.at = to]
           rec == page[Home[q]]
<1>1. c \in CallRec /\ c.cookies = call[q].cookies /\ c.at = to
  BY Carried DEF CallRec
<1>2. rec \in PageRec
  BY Carried
<1>3. page' = [page EXCEPT ![Home[q]] = rec] /\ call' = [call EXCEPT ![q] = c]
      /\ jar' = jar /\ habit' = habit
  BY DEF Moves, AdminTypeOK
<1> HIDE DEF c
<1>4. MovedTo(q, rec, c)
  BY <1>1, <1>3 DEF MovedTo, Refreshing
<1> QED BY <1>1, <1>2, <1>4 DEF MovedOn

LEMMA RespondedOn ==
  ASSUME AdminTypeOK, NEW q \in Requests, Home[q] \in Pages, call[q].at # "free",
         Responded(q, TRUE) \/ Responded(q, FALSE)
  PROVE  MovedOn(q)
<1> DEFINE old == page[Home[q]]
           rec == [old EXCEPT !.more = FALSE]
<1>0. old \in PageRec /\ page \in [Pages -> PageRec]
  BY Carried DEF AdminTypeOK
<1>1. rec \in PageRec /\ rec.kind = old.kind /\ rec.at = old.at /\ rec.more = FALSE
      /\ rec.cookies = old.cookies /\ rec.dirty = old.dirty
  BY <1>0, PageRecords
<1>2. call' = [call EXCEPT ![q] = Free] /\ jar' = jar /\ habit' = habit
  BY DEF Responded
<1>3. page' = page \/ page' = [page EXCEPT ![Home[q]].more = FALSE]
  BY DEF Responded
<1>4. CASE page' = page
  <2>1. page' = [page EXCEPT ![Home[q]] = old]
    BY <1>0, <1>4
  <2>2. MovedTo(q, old, Free)
    BY <1>2, <2>1, FreeRight DEF MovedTo
  <2> QED BY <1>0, <2>2, FreeRight DEF MovedOn
<1>5. CASE page' = [page EXCEPT ![Home[q]].more = FALSE]
  <2>1. page' = [page EXCEPT ![Home[q]] = rec]
    BY <1>0, <1>5
  <2> HIDE DEF rec
  <2>2. MovedTo(q, rec, Free)
    BY <1>1, <1>2, <2>1, FreeRight DEF MovedTo
  <2> QED BY <1>1, <2>2, FreeRight DEF MovedOn
<1> QED BY <1>3, <1>4, <1>5

LEMMA GivenUpOn ==
  ASSUME AdminTypeOK, NEW q \in Requests, Home[q] \in Pages, call[q].at # "free", GivenUp(q)
  PROVE  MovedOn(q)
<1> DEFINE old == page[Home[q]]
<1>0. old \in PageRec /\ page \in [Pages -> PageRec]
  BY Carried DEF AdminTypeOK
<1>2. call' = [call EXCEPT ![q] = Free] /\ jar' = jar /\ habit' = habit
  BY DEF GivenUp
<1>3. CASE WritesCookies(Home[q])
  <2> DEFINE rec == [old EXCEPT !.cookies = NoCookies, !.dirty = TRUE, !.more = FALSE]
  <2>1. rec \in PageRec /\ rec.kind = old.kind /\ rec.at = old.at /\ rec.more = FALSE
        /\ rec.cookies = NoCookies /\ rec.dirty = TRUE
    BY <1>0, NoneRight DEF PageRec
  <2>2. page' = [page EXCEPT ![Home[q]] = rec]
    BY <1>3 DEF GivenUp
  <2> HIDE DEF rec
  <2>3. MovedTo(q, rec, Free)
    BY <1>2, <2>1, <2>2, FreeRight DEF MovedTo
  <2> QED BY <2>1, <2>3, FreeRight DEF MovedOn
<1>4. CASE ~WritesCookies(Home[q])
  <2> DEFINE rec == [old EXCEPT !.more = FALSE]
  <2>1. rec \in PageRec /\ rec.kind = old.kind /\ rec.at = old.at /\ rec.more = FALSE
        /\ rec.cookies = old.cookies /\ rec.dirty = old.dirty
    BY <1>0, PageRecords
  <2>2. page' = [page EXCEPT ![Home[q]] = rec]
    BY <1>4 DEF GivenUp
  <2> HIDE DEF rec
  <2>3. MovedTo(q, rec, Free)
    BY <1>2, <2>1, <2>2, FreeRight DEF MovedTo
  <2> QED BY <2>1, <2>3, FreeRight DEF MovedOn
<1> QED BY <1>3, <1>4

LEMMA CallMoves ==
  ASSUME AdminInv, NEW q \in Requests, Home[q] \in Pages, CallSteps(q)
  PROVE  MovedOn(q)
<1>t. AdminTypeOK
  BY DEF AdminInv
<1>1. CASE CallServed(q) \/ SignOutServed(q)
  <2>1. call[q].at # "free" /\ Moves(q, "served")
    BY <1>1 DEF CallServed, SignOutServed, Calling
  <2> QED BY <1>t, <2>1, MovesOn
<1>2. CASE RefreshSent(q)
  <2>1. call[q].at # "free" /\ Moves(q, "rotating") /\ call[q].cookies.refresh # None
    BY <1>2, <1>t DEF RefreshSent, AdminTypeOK, Refreshing
  <2> QED BY <1>t, <2>1, MovesOn
<1>3. CASE CallAnswered(q)
  BY <1>3, <1>t, RespondedOn DEF CallAnswered
<1>4. CASE RefreshRefused(q) \/ RefreshFailed(q)
  BY <1>4, <1>t, GivenUpOn DEF RefreshRefused, RefreshFailed
<1>5. CASE SignOutScans(q)
  <2>1. page' = [page EXCEPT ![Home[q]] = page[Home[q]]] /\ call' = [call EXCEPT ![q] = call[q]]
        /\ jar' = jar /\ habit' = habit /\ call[q].at = "served"
    BY <1>5, <1>t DEF SignOutScans, adminVars, AdminTypeOK
  <2>2. MovedTo(q, page[Home[q]], call[q])
    BY <2>1 DEF MovedTo, Refreshing
  <2> QED BY <1>t, <2>2, Carried DEF MovedOn
<1>6. CASE CallRefused(q)
  <2>1. call[q].at # "free"
    BY <1>6 DEF CallRefused, Calling
  <2>2. CASE Responded(q, FALSE)
    BY <1>t, <2>1, <2>2, RespondedOn
  <2>3. CASE /\ page[Home[q]].cookies.refresh # None
             /\ call' = [call EXCEPT ![q] = [at |-> "refresh", cookies |-> page[Home[q]].cookies]]
             /\ UNCHANGED <<jar, page, signIn, habit>>
    <3> DEFINE c == [at |-> "refresh", cookies |-> page[Home[q]].cookies]
    <3>1. c \in CallRec /\ c.cookies = page[Home[q]].cookies /\ page[Home[q]] \in PageRec
      BY <1>t, Carried DEF CallRec
    <3>2. page' = [page EXCEPT ![Home[q]] = page[Home[q]]] /\ call' = [call EXCEPT ![q] = c]
      BY <1>t, <2>3 DEF AdminTypeOK
    <3> HIDE DEF c
    <3>3. MovedTo(q, page[Home[q]], c)
      BY <2>1, <2>3, <3>1, <3>2 DEF MovedTo
    <3> QED BY <3>1, <3>3 DEF MovedOn
  <2> QED BY <1>6, <2>2, <2>3 DEF CallRefused
<1>7. CASE FetchThrows(q)
  <2> DEFINE old == page[Home[q]]
             rec == [old EXCEPT !.at = "failing", !.more = FALSE]
  <2>1. old \in PageRec /\ page \in [Pages -> PageRec]
    BY <1>t, Carried DEF AdminTypeOK
  <2>2. rec \in PageRec /\ rec.kind = old.kind /\ rec.more = FALSE
        /\ rec.cookies = old.cookies /\ rec.dirty = old.dirty
    BY <2>1 DEF PageRec
  <2>3. page' = [page EXCEPT ![Home[q]] = rec]
    BY <1>7, <2>1 DEF FetchThrows
  <2>4. call' = [call EXCEPT ![q] = Free] /\ jar' = jar /\ habit' = habit /\ habit = "any"
        /\ call[q].at # "free"
    BY <1>7 DEF FetchThrows, Calling
  <2> HIDE DEF rec
  <2>5. MovedTo(q, rec, Free)
    BY <2>2, <2>3, <2>4, FreeRight DEF MovedTo
  <2> QED BY <2>2, <2>5, FreeRight DEF MovedOn
<1> QED BY <1>1, <1>2, <1>3, <1>4, <1>5, <1>6, <1>7 DEF CallSteps

\* The answer of a refresh: new cookies for a route and its retry, a 401 for a page.
NewCookies(q, n) == [session |-> tx[q].session, refresh |-> n, accessEnds |-> now + AccessTTL]
Renewed(q, n) == [page[Home[q]] EXCEPT !.cookies = NewCookies(q, n), !.dirty = TRUE]
Retry(q, n) == [at |-> "retry", cookies |-> NewCookies(q, n)]

LEMMA RenewedPage ==
  ASSUME AdminInv, NEW q \in Requests, Home[q] \in Pages, NEW n \in Tokens,
         RefreshAnswered(q, n), WritesCookies(Home[q])
  PROVE  /\ page' = [page EXCEPT ![Home[q]] = Renewed(q, n)]
         /\ call' = [call EXCEPT ![q] = Retry(q, n)]
         /\ Renewed(q, n) \in PageRec /\ Renewed(q, n).cookies = NewCookies(q, n)
         /\ Renewed(q, n).dirty = TRUE /\ Renewed(q, n).kind = page[Home[q]].kind
         /\ Renewed(q, n).at = page[Home[q]].at /\ Renewed(q, n).more = page[Home[q]].more
         /\ Retry(q, n) \in CallRec /\ Retry(q, n).cookies = NewCookies(q, n)
         /\ NewCookies(q, n).refresh = n
         /\ UNCHANGED <<jar, signIn, habit>>
<1>1. /\ page \in [Pages -> PageRec] /\ page[Home[q]] \in PageRec /\ TypeOK
      /\ tx[q].session \in Sessions /\ now + AccessTTL \in Nat
  <2>1. TypeOK /\ AdminTypeOK
    BY DEF AdminInv, IInv
  <2> QED BY <2>1, Carried, RotatedRows, LifetimesAssumption
         DEF RefreshAnswered, TypeOK, AdminTypeOK
<1> DEFINE new == NewCookies(q, n)
<1>2. new \in Cookies /\ new.refresh = n
  BY <1>1 DEF Cookies, NewCookies
<1>3. /\ call' = [call EXCEPT ![q] = [at |-> "retry", cookies |-> new]]
      /\ page' = [page EXCEPT ![Home[q]].cookies = new, ![Home[q]].dirty = TRUE]
      /\ UNCHANGED <<jar, signIn, habit>>
  BY DEF RefreshAnswered, NewCookies
<1> HIDE DEF new
<1>4. page' = [page EXCEPT ![Home[q]] = [page[Home[q]] EXCEPT !.cookies = new, !.dirty = TRUE]]
  BY <1>1, <1>3
<1> DEFINE rec == [page[Home[q]] EXCEPT !.cookies = new, !.dirty = TRUE]
<1>5. /\ rec \in PageRec /\ rec.cookies = new /\ rec.dirty = TRUE /\ rec.kind = page[Home[q]].kind
      /\ rec.at = page[Home[q]].at /\ rec.more = page[Home[q]].more
  BY <1>1, <1>2 DEF PageRec
<1>6. [at |-> "retry", cookies |-> new] \in CallRec
  BY <1>2 DEF CallRec
<1>7. rec = Renewed(q, n) /\ [at |-> "retry", cookies |-> new] = Retry(q, n) /\ new = NewCookies(q, n)
  BY DEF Renewed, Retry, new
<1>8. rec \in PageRec /\ page' = [page EXCEPT ![Home[q]] = rec]
  BY <1>4, <1>5
<1> HIDE DEF rec
<1>9. page' = [page EXCEPT ![Home[q]] = Renewed(q, n)] /\ Renewed(q, n) \in PageRec
  BY <1>7, <1>8
<1>10. call' = [call EXCEPT ![q] = Retry(q, n)] /\ Retry(q, n) \in CallRec
  BY <1>3, <1>6, <1>7
<1>11. /\ Renewed(q, n).cookies = NewCookies(q, n)
       /\ Renewed(q, n).dirty = TRUE /\ Renewed(q, n).kind = page[Home[q]].kind
       /\ Renewed(q, n).at = page[Home[q]].at /\ Renewed(q, n).more = page[Home[q]].more
  BY <1>5, <1>7
<1>12. Retry(q, n).cookies = NewCookies(q, n) /\ NewCookies(q, n).refresh = n
  BY DEF Retry, NewCookies
<1> QED BY <1>3, <1>9, <1>10, <1>11, <1>12

\* The rows after a refresh: the old token is used, the new one is not and is of the same session.
LEMMA RenewedRows ==
  ASSUME AdminInv, NEW r \in Requests, NEW n \in Tokens, RefreshCommit(r, n)
  PROVE  /\ token'[n].family = tx[r].session /\ ~token'[n].used
         /\ \A t \in Tokens : t # n /\ t # tx[r].token => token'[t].used = token[t].used
         /\ accessEnds'[tx[r].session] = now + AccessTTL /\ UNCHANGED family
         /\ \A q \in Requests : tx'[q] = IF q = r THEN Idle ELSE tx[q]
<1>1. TypeOK
  BY DEF AdminInv, IInv
<1>2. /\ tx[r].session \in Sessions /\ tx[r].token \in Tokens
      /\ token' = [t \in Tokens |->
                        IF t = n THEN FreshToken(tx[r].session, tx[r].token)
                        ELSE IF t = tx[r].token THEN [token[t] EXCEPT !.used = TRUE]
                        ELSE token[t]]
  BY <1>1, RotatedRows
<1>3. token'[n] = FreshToken(tx[r].session, tx[r].token)
  BY <1>2
<1>4. token'[n].family = tx[r].session /\ ~token'[n].used
  BY <1>3 DEF FreshToken
<1>5. \A t \in Tokens : t # n /\ t # tx[r].token => token'[t] = token[t]
  BY <1>2
<1>6. /\ accessEnds'[tx[r].session] = now + AccessTTL /\ UNCHANGED family
      /\ \A q \in Requests : tx'[q] = IF q = r THEN Idle ELSE tx[q]
  BY <1>1, <1>2 DEF RefreshCommit, TypeOK
<1> QED BY <1>4, <1>5, <1>6

\* The page record of an answer.
LEMMA SettledPage ==
  ASSUME AdminTypeOK, NEW p \in Pages
  PROVE  /\ Settled(p) \in PageRec /\ Settled(p).kind = page[p].kind
         /\ Settled(p).at = "answered" /\ Settled(p).more = page[p].more
         /\ \/ Settled(p).cookies = page[p].cookies /\ Settled(p).dirty = page[p].dirty
            \/ Settled(p).cookies = NoCookies /\ Settled(p).dirty = TRUE
            \/ Settled(p).cookies = page[p].cookies /\ page[p].at = "failing"
<1>1. page[p] \in PageRec
  BY Carried
<1>2. CASE page[p].kind = "signout"
  <2>1. Settled(p) = [page[p] EXCEPT !.at = "answered", !.cookies = NoCookies, !.dirty = TRUE]
    BY <1>2 DEF Settled
  <2> QED BY <1>1, <2>1, NoneRight DEF PageRec
<1>3. CASE page[p].kind # "signout" /\ page[p].at = "failing"
  <2>1. Settled(p) = [page[p] EXCEPT !.at = "answered", !.dirty = FALSE]
    BY <1>3 DEF Settled
  <2> QED BY <1>1, <1>3, <2>1 DEF PageRec
<1>4. CASE page[p].kind # "signout" /\ page[p].at # "failing"
  <2>1. Settled(p) = [page[p] EXCEPT !.at = "answered"]
    BY <1>4 DEF Settled
  <2> QED BY <1>1, <2>1 DEF PageRec
<1> QED BY <1>2, <1>3, <1>4

-----------------------------------------------------------------------------
\* The inductive invariant is kept by every step.
LEMMA StepAdminInv == AdminInv /\ [AdminNext]_allVars => AdminInv'
<1> SUFFICES ASSUME AdminInv, [AdminNext]_allVars PROVE AdminInv'
  OBVIOUS
<1>t. AdminTypeOK /\ TypeOK /\ [Next]_vars
  BY GatewayStep DEF AdminInv, IInv
<1>r. /\ RightAfter(jar)
      /\ \A p \in Pages : RightAfter(page[p].cookies)
      /\ \A q \in Requests : /\ RightAfter(call[q].cookies)
                             /\ Refreshing(call[q]) => call[q].cookies.refresh # None
  BY <1>t, AllRight DEF AdminTypeOK
<1>y. page \in [Pages -> PageRec] /\ call \in [Requests -> CallRec]
  BY <1>t DEF AdminTypeOK
<1>u. ASSUME RightAfter(jar'), page' = page, call' = call PROVE AdminInv'
  BY <1>t, <1>r, <1>y, <1>u, KeepsRight
\* One page gets another record, and no call is made.
<1>p. ASSUME NEW p \in Pages, NEW rec \in PageRec, page' = [page EXCEPT ![p] = rec],
             RightAfter(rec.cookies), RightAfter(jar'), call' = call
      PROVE  AdminInv'
  <2>1. page' \in [Pages -> PageRec] /\ \A o \in Pages : RightAfter(page'[o].cookies)
    BY <1>r, <1>y, <1>p
  <2> QED BY <1>t, <1>r, <1>y, <1>p, <2>1, KeepsRight
\* One page and one call of it get other records.
<1>m. ASSUME NEW p \in Pages, NEW rec \in PageRec, page' = [page EXCEPT ![p] = rec],
             RightAfter(rec.cookies), RightAfter(jar'),
             NEW q \in Requests, NEW c \in CallRec, call' = [call EXCEPT ![q] = c],
             RightAfter(c.cookies), Refreshing(c) => c.cookies.refresh # None
      PROVE  AdminInv'
  <2>1. page' \in [Pages -> PageRec] /\ \A o \in Pages : RightAfter(page'[o].cookies)
    BY <1>r, <1>y, <1>m
  <2>2. /\ call' \in [Requests -> CallRec]
        /\ \A x \in Requests : call'[x] = IF x = q THEN c ELSE call[x]
    BY <1>y, <1>m
  <2>3. \A x \in Requests : /\ RightAfter(call'[x].cookies)
                            /\ Refreshing(call'[x]) => call'[x].cookies.refresh # None
    BY <1>r, <1>m, <2>2
  <2> QED BY <1>t, <1>m, <2>1, <2>2, <2>3, KeepsRight
<1>1. ASSUME NEW a \in Accounts, NEW s \in Sessions, NEW t \in Tokens, SignIn(a, s, t)
      PROVE  AdminInv'
  <2>1. /\ Login(a, s, t) /\ page' = page /\ call' = call
        /\ jar' = [session |-> s, refresh |-> t, accessEnds |-> now + AccessTTL]
    BY <1>1 DEF SignIn
  <2>2. token'[t].family = s /\ accessEnds'[s] = now + AccessTTL /\ now + AccessTTL \in Nat
    BY <1>t, <2>1, LifetimesAssumption DEF Login, FreshToken, TypeOK
  <2>3. RightAfter(jar')
    BY <2>1, <2>2, NoneAssumption DEF RightAfter, Cookies
  <2> QED BY <2>1, <2>3, <1>u
<1>2. ASSUME NEW a \in Accounts, SignInChallenged(a) \/ SignInRefused(a) PROVE AdminInv'
  BY <1>2, <1>r, <1>u, NoneRight DEF SignInChallenged, SignInRefused
<1>3. ASSUME NEW q \in Requests, NEW kind \in Kinds, Home[q] \in Pages, OpenPage(Home[q], q, kind)
      PROVE  AdminInv'
  <2> DEFINE rec == [at |-> "calling", kind |-> kind, cookies |-> jar, dirty |-> FALSE,
                     more |-> kind \in Several]
  <2>1. page' = [page EXCEPT ![Home[q]] = rec] /\ call' = [call EXCEPT ![q] = Sent(jar)]
        /\ jar' = jar
    BY <1>3 DEF OpenPage
  <2>2. rec \in PageRec /\ rec.cookies = jar
    BY <1>t, BrowserAssumption DEF AdminTypeOK, PageRec
  <2>3. Sent(jar) \in CallRec /\ Sent(jar).cookies = jar /\ ~Refreshing(Sent(jar))
    BY <1>t DEF Sent, CallRec, AdminTypeOK, Refreshing
  <2> HIDE DEF rec
  <2> QED BY <1>3, <1>r, <1>m, <2>1, <2>2, <2>3
<1>4. ASSUME NEW p \in Pages, CallsInParallel(p) PROVE AdminInv'
  <2> DEFINE rec == [page[p] EXCEPT !.more = FALSE]
             sent == Sent(page[p].cookies)
  <2>1. rec \in PageRec /\ rec.cookies = page[p].cookies
    BY <1>t, Carried, PageRecords
  <2>2. sent \in CallRec /\ sent.cookies = page[p].cookies /\ ~Refreshing(sent)
    BY <1>t, Carried DEF Sent, CallRec, Refreshing
  <2>3. page' = [page EXCEPT ![p] = rec] /\ jar' = jar
        /\ call' = [q \in Requests |-> IF Home[q] = p THEN sent ELSE call[q]]
    BY <1>4, <1>y DEF CallsInParallel
  <2> HIDE DEF rec, sent
  <2>4. page' \in [Pages -> PageRec] /\ \A o \in Pages : RightAfter(page'[o].cookies)
    BY <1>r, <1>y, <2>1, <2>3
  <2>5. call' \in [Requests -> CallRec]
    BY <1>y, <2>2, <2>3
  <2>6. \A x \in Requests : /\ RightAfter(call'[x].cookies)
                            /\ Refreshing(call'[x]) => call'[x].cookies.refresh # None
    BY <1>r, <2>2, <2>3
  <2> QED BY <1>t, <1>r, <2>3, <2>4, <2>5, <2>6, KeepsRight
<1>5. ASSUME NEW p \in Pages, Answer(p) PROVE AdminInv'
  <2>1. page' = [page EXCEPT ![p] = Settled(p)] /\ call' = call /\ jar' = jar
    BY <1>5 DEF Answer
  <2>2. Settled(p) \in PageRec /\ RightAfter(Settled(p).cookies)
    BY <1>t, <1>r, SettledPage, NoneRight
  <2> QED BY <1>r, <1>p, <2>1, <2>2
<1>6. ASSUME NEW p \in Pages, Delivered(p) \/ Dropped(p) PROVE AdminInv'
  <2>1. RightAfter(jar') /\ page' = [page EXCEPT ![p] = Closed] /\ call' = call
    BY <1>r, <1>6 DEF Delivered, Dropped
  <2>2. Closed \in PageRec /\ Closed.cookies = NoCookies
    BY NoneRight DEF Closed, PageRec
  <2> QED BY <1>p, <2>1, <2>2, NoneRight
<1>7. ASSUME NEW q \in Requests, Home[q] \in Pages, CallSteps(q) PROVE AdminInv'
  <2>1. PICK rec \in PageRec, c \in CallRec : MovedTo(q, rec, c)
    BY <1>7, CallMoves DEF MovedOn
  <2>2. RightAfter(rec.cookies) /\ RightAfter(c.cookies)
    BY <1>r, <1>7, <2>1, NoneRight DEF MovedTo
  <2> QED BY <1>r, <1>m, <1>7, <2>1, <2>2 DEF MovedTo
<1>8. ASSUME NEW q \in Requests, NEW n \in Tokens, Home[q] \in Pages, RefreshAnswered(q, n)
      PROVE  AdminInv'
  <2>1. CASE WritesCookies(Home[q])
    <3> DEFINE rec == Renewed(q, n)
               c == Retry(q, n)
    <3>1. /\ page' = [page EXCEPT ![Home[q]] = rec] /\ call' = [call EXCEPT ![q] = c]
          /\ rec \in PageRec /\ c \in CallRec /\ jar' = jar
          /\ rec.cookies = NewCookies(q, n) /\ c.cookies = NewCookies(q, n)
      BY <1>8, <2>1, RenewedPage
    <3>2. RefreshCommit(q, n)
      BY <1>8 DEF RefreshAnswered
    <3>3. token'[n].family = tx[q].session /\ accessEnds'[tx[q].session] = now + AccessTTL
      BY <3>2, RenewedRows
    <3>4. now + AccessTTL \in Nat /\ tx[q].session \in Sessions
      BY <1>t, <3>2, RotatedRows, LifetimesAssumption DEF TypeOK
    <3>5. RightAfter(NewCookies(q, n))
      BY <3>3, <3>4, NoneAssumption DEF RightAfter, Cookies, NewCookies
    <3>6. ~Refreshing(c)
      BY DEF Retry, Refreshing
    <3> HIDE DEF rec, c
    <3> QED BY <1>r, <1>m, <1>8, <3>1, <3>5, <3>6
  <2>2. CASE ~WritesCookies(Home[q])
    <3>1. call[q].at # "free" /\ Responded(q, FALSE)
      BY <1>8, <2>2 DEF RefreshAnswered
    <3>2. PICK rec \in PageRec, c \in CallRec : MovedTo(q, rec, c)
      BY <1>t, <1>8, <3>1, RespondedOn DEF MovedOn
    <3>3. RightAfter(rec.cookies) /\ RightAfter(c.cookies)
      BY <1>r, <1>8, <3>2, NoneRight DEF MovedTo
    <3> QED BY <1>r, <1>m, <1>8, <3>2, <3>3 DEF MovedTo
  <2> QED BY <2>1, <2>2
<1>9. ASSUME Elsewhere PROVE AdminInv'
  BY <1>9, <1>r, <1>u DEF Elsewhere, adminVars
<1>10. CASE UNCHANGED allVars
  BY <1>10, <1>r, <1>u DEF allVars, adminVars
<1> QED
  BY AdminNextIsSteps, <1>1, <1>2, <1>3, <1>4, <1>5, <1>6, <1>7, <1>8, <1>9, <1>10 DEF AdminSteps

\* A browser that has never signed in satisfies it.
LEMMA InitAdminInv == AdminInit => AdminInv
<1> SUFFICES ASSUME AdminInit PROVE AdminInv
  OBVIOUS
<1>1. IInv
  BY InitIInv DEF AdminInit
<1>2. NoCookies \in Cookies /\ NamesOneSession(NoCookies)
  BY DEF NoCookies, Cookies, NamesOneSession
<1>3. /\ page = [p \in Pages |-> Closed] /\ call = [q \in Requests |-> Free] /\ jar = NoCookies
      /\ Closed \in PageRec /\ Closed.cookies = NoCookies
  BY <1>2 DEF AdminInit, Closed, PageRec
<1>4. AdminTypeOK /\ CookiesOfOneSession
  BY <1>2, <1>3, FreeRight DEF AdminTypeOK, CookiesOfOneSession
<1>5. AccessBounded
  BY LifetimesAssumption DEF AdminInit, Init, AccessBounded
<1> QED BY <1>1, <1>4, <1>5 DEF AdminInv

LEMMA AdminInvHolds == AdminSpec => []AdminInv
BY InitAdminInv, StepAdminInv, PTL DEF AdminSpec

(***************************************************************************)
(* The access and the refresh cookie belong to the same session, in the    *)
(* browser, in every request under way and in every call of it.           *)
(***************************************************************************)
THEOREM CookiesStayOfOneSession == AdminSpec => []CookiesOfOneSession
BY AdminInvHolds, PTL DEF AdminInv

(***************************************************************************)
(* The admin server and its browser ask of the gateway only what           *)
(* AuthSessions allows, so that every theorem about Spec holds with them.  *)
(***************************************************************************)
THEOREM AdminUsesSessions == AdminSpec => Spec
<1>1. AdminInit => Init
  BY DEF AdminInit
<1>2. AdminInv /\ [AdminNext]_allVars => [Next]_vars
  BY GatewayStep DEF AdminInv
<1> QED BY <1>1, <1>2, AdminInvHolds, PTL DEF AdminSpec, Spec

-----------------------------------------------------------------------------
\* A step of the gateway after which nothing is reused and no more tokens are used.
Calm ==
  /\ \A s \in Sessions : family'[s] # "reused"
  /\ \A r \in Requests : tx'[r].step # "reuse"
  /\ \A t \in Tokens : token'[t].used => token[t].used
NothingReused ==
  /\ \A s \in Sessions : family[s] # "reused"
  /\ \A r \in Requests : tx[r].step # "reuse"

\* Steps of the gateway that are not about refreshing.
LEMMA OthersCalm ==
  ASSUME AdminInv, NothingReused,
         \/ \E a \in Accounts, s \in Sessions, t \in Tokens : Login(a, s, t)
         \/ \E r \in Requests : \/ Abort(r) \/ CallEnd(r) \/ RevokeScan(r) \/ RevokeCommit(r)
                                \/ \E s \in Sessions : CallBegin(r, s)
                                \/ \E s, target \in Sessions :
                                     Logout(r, s, target) \/ SessionRevoke(r, s, target)
         \/ Tick
         \/ UNCHANGED vars
  PROVE  Calm
<1>t. TypeOK
  BY DEF AdminInv, IInv
<1> USE DEF NothingReused
<1>1. ASSUME NEW a \in Accounts, NEW s \in Sessions, NEW t \in Tokens, Login(a, s, t) PROVE Calm
  <2>1. /\ token' = [token EXCEPT ![t] = FreshToken(s, None)] /\ token \in [Tokens -> TokenRow]
        /\ family' = [family EXCEPT ![s] = "active"] /\ family \in [Sessions -> FamilyStatus]
        /\ tx' = tx
    BY <1>1, <1>t DEF Login, TypeOK
  <2>2. FreshToken(s, None).used = FALSE
    BY DEF FreshToken
  <2>3. \A x \in Tokens : token'[x].used => token[x].used
    BY <2>1, <2>2
  <2> QED BY <2>1, <2>3 DEF Calm
<1>2. ASSUME NEW r \in Requests, Abort(r) \/ CallEnd(r) \/ \E s \in Sessions : CallBegin(r, s)
      PROVE  Calm
  BY <1>2, <1>t DEF Abort, CallEnd, CallBegin, rows, Idle, TypeOK, Calm
<1>3. ASSUME NEW r \in Requests,
             \/ \E s, target \in Sessions : Logout(r, s, target) \/ SessionRevoke(r, s, target)
             \/ RevokeScan(r)
      PROVE  Calm
  <2>1. Prepares(r)
    BY <1>3, <1>t, PreparesOnly
  <2>2. tx'[r].step # "reuse" /\ \A q \in Requests : q # r => tx'[q] = tx[q]
    BY <1>t, <2>1, PreparedTx
  <2> QED BY <2>1, <2>2 DEF Prepares, rows, Calm
<1>4. ASSUME NEW r \in Requests, RevokeCommit(r) PROVE Calm
  <2>1. \A u \in Sessions : family'[u] = IF u = tx[r].session THEN "revoked" ELSE family[u]
    BY <1>4, <1>t, ClosedRows
  <2>2. \A t \in Tokens : token'[t].used = token[t].used
    BY <1>4, <1>t, ClosedRows
  <2>3. \A q \in Requests : tx'[q] = IF q = r THEN Idle ELSE tx[q]
    BY <1>4, <1>t, ClosedRows
  <2> QED BY <2>1, <2>2, <2>3 DEF Calm, Idle
<1>5. ASSUME Tick \/ UNCHANGED vars PROVE Calm
  BY <1>5 DEF Tick, vars, rows, Calm
<1> QED BY <1>1, <1>2, <1>3, <1>4, <1>5

\* Steps of one call of a careful browser: the refreshes among them present unused tokens.
LEMMA CallsCalm ==
  ASSUME AdminInv, CarefulInv, habit = "careful",
         NEW q \in Requests, Home[q] \in Pages, CallSteps(q)
  PROVE  Calm
<1>t. AdminTypeOK /\ TypeOK
  BY DEF AdminInv, IInv
<1>i. NothingReused /\ Unspent(call[q].cookies)
  BY DEF CarefulInv, NothingReused
<1>1. CASE CallServed(q)
  <2>1. call[q].cookies.session \in Sessions /\ CallBegin(q, call[q].cookies.session)
    BY <1>1, <1>t, Carried DEF CallServed, JwtAccepted
  <2> QED BY <1>i, <2>1, OthersCalm
<1>2. CASE SignOutServed(q)
  <2> DEFINE s == call[q].cookies.session
  <2>1. s \in Sessions /\ Logout(q, s, s)
    BY <1>2, <1>t, Carried DEF SignOutServed, JwtAccepted
  <2> HIDE DEF s
  <2> QED BY <1>i, <2>1, OthersCalm
<1>3. CASE SignOutScans(q) \/ CallAnswered(q) \/ CallRefused(q) \/ RefreshRefused(q)
  <2>1. RevokeScan(q) \/ CallEnd(q) \/ RevokeCommit(q) \/ Abort(q) \/ UNCHANGED vars
    BY <1>3 DEF SignOutScans, CallAnswered, CallRefused, RefreshRefused
  <2> QED BY <1>i, <2>1, OthersCalm
<1>4. CASE RefreshSent(q)
  <2> DEFINE t == call[q].cookies.refresh
  <2>1. RefreshBegin(q, t) /\ t \in Tokens /\ ~token[t].used
    BY <1>4, <1>i, <1>t, Carried, NoneAssumption DEF RefreshSent, AdminTypeOK, Refreshing, Unspent
  <2> HIDE DEF t
  <2> QED BY <1>i, <1>t, <2>1 DEF RefreshBegin, rows, TypeOK, Calm, NothingReused
<1>5. CASE RefreshFailed(q)
  <2>1. Abort(q)
    BY <1>5, <1>i DEF RefreshFailed, ReuseCommit, NothingReused
  <2> QED BY <1>i, <2>1, OthersCalm
<1>6. CASE FetchThrows(q)
  BY <1>6 DEF FetchThrows
<1> QED BY <1>1, <1>2, <1>3, <1>4, <1>5, <1>6 DEF CallSteps

\* No step changes how the browser behaves.
LEMMA HabitStays == AdminTypeOK /\ [AdminNext]_allVars => habit' = habit
<1> SUFFICES ASSUME AdminTypeOK, [AdminNext]_allVars PROVE habit' = habit
  OBVIOUS
<1>1. ASSUME NEW q \in Requests, CallSteps(q) PROVE habit' = habit
  BY <1>1 DEF CallSteps, CallServed, SignOutServed, SignOutScans, CallAnswered, CallRefused,
     RefreshRefused, RefreshSent, RefreshFailed, FetchThrows, Moves, Responded, GivenUp, adminVars
<1>2. ASSUME NEW q \in Requests, NEW n \in Tokens, RefreshAnswered(q, n) PROVE habit' = habit
  BY <1>2 DEF RefreshAnswered, Responded
<1> QED
  BY AdminNextIsSteps, <1>1, <1>2
     DEF AdminSteps, SignIn, SignInChallenged, SignInRefused, OpenPage, CallsInParallel, Answer,
         Delivered, Dropped, Elsewhere, adminVars, allVars

\* What is true of cookies after a step, when their refresh token is still unused.
UnspentAfter(c) == c.refresh # None => ~token'[c.refresh].used

\* A careful browser stays careful, and the gateway takes none of its refreshes for a reuse.
LEMMA StepCareful == AdminInv /\ CarefulInv /\ [AdminNext]_allVars => CarefulInv'
<1> SUFFICES ASSUME AdminInv, CarefulInv, [AdminNext]_allVars, habit' = "careful"
             PROVE  CarefulInv'
  BY DEF CarefulInv
<1>t. AdminTypeOK /\ TypeOK
  BY DEF AdminInv, IInv
<1>h. habit = "careful"
  BY <1>t, HabitStays
<1>i. /\ NothingReused
      /\ \A q \in Requests : /\ Unspent(call[q].cookies)
                             /\ call[q] # Free => Home[q] \in Pages /\ page[Home[q]].at = "calling"
      /\ \A p \in Pages : /\ page[p].kind \notin Several /\ ~page[p].more /\ page[p].at # "failing"
                          /\ Unspent(page[p].cookies)
      /\ \A q, r \in Requests : call[q] # Free /\ call[r] # Free => q = r
      /\ \A o, p \in Pages : page[o] # Closed /\ page[p] # Closed => o = p
      /\ Unspent(jar) \/ \E p \in Pages : page[p].dirty
  BY <1>h DEF CarefulInv, NothingReused
<1>c. /\ Closed.kind \notin Several /\ Closed.cookies = NoCookies /\ Closed.dirty = FALSE
      /\ Closed.at = "closed" /\ Closed.more = FALSE /\ NoCookies.refresh = None
      /\ Free.at = "free" /\ Free.cookies = NoCookies
  BY DEF Closed, NoCookies, Free, Several
<1>y. /\ page \in [Pages -> PageRec] /\ call \in [Requests -> CallRec] /\ jar \in Cookies
      /\ \A p \in Pages : page[p].cookies \in Cookies
      /\ \A q \in Requests : call[q].cookies \in Cookies
  BY <1>t, Carried DEF AdminTypeOK
<1>n. UnspentAfter(NoCookies)
  BY <1>c DEF UnspentAfter
\* What the browser and the admin server hold stays unspent in a calm step.
<1>s. ASSUME Calm
      PROVE  /\ \A p \in Pages : UnspentAfter(page[p].cookies)
             /\ \A q \in Requests : UnspentAfter(call[q].cookies)
             /\ Unspent(jar) => UnspentAfter(jar)
  <2>1. \A c \in Cookies : c.refresh \in Tokens \cup {None}
    BY DEF Cookies
  <2>2. \A c \in Cookies : Unspent(c) => UnspentAfter(c)
    BY <1>s, <2>1 DEF Unspent, UnspentAfter, Calm
  <2> QED BY <1>i, <1>y, <2>2
\* The invariant after a step, from what the step leaves.
<1>z. ASSUME Calm \/ \A s \in Sessions : family'[s] # "reused",
             \A q \in Requests : tx'[q].step # "reuse" /\ UnspentAfter(call'[q].cookies),
             \A q \in Requests : call'[q] # Free => Home[q] \in Pages /\ page'[Home[q]].at = "calling",
             \A p \in Pages : /\ page'[p].kind \notin Several /\ ~page'[p].more
                              /\ page'[p].at # "failing" /\ UnspentAfter(page'[p].cookies),
             \A q, r \in Requests : call'[q] # Free /\ call'[r] # Free => q = r,
             \A o, p \in Pages : page'[o] # Closed /\ page'[p] # Closed => o = p,
             UnspentAfter(jar') \/ \E p \in Pages : page'[p].dirty
      PROVE  CarefulInv'
  BY <1>z DEF CarefulInv, Unspent, UnspentAfter, Calm
<1>u. ASSUME Calm, page' = page, call' = call, UnspentAfter(jar') \/ jar' = jar
      PROVE  CarefulInv'
  <2>1. UnspentAfter(jar') \/ \E p \in Pages : page'[p].dirty
    BY <1>i, <1>s, <1>u
  <2>2. \A q \in Requests : tx'[q].step # "reuse"
    BY <1>u DEF Calm
  <2> QED BY <1>i, <1>s, <1>u, <1>z, <2>1, <2>2
\* No call is under way, and at most one page is open after the step.
<1>q. ASSUME UNCHANGED <<family, tx>>, Calm, NEW p \in Pages, NEW rec,
             page' = [page EXCEPT ![p] = rec], page[p] # Closed,
             rec.kind \notin Several, ~rec.more, rec.at # "failing", UnspentAfter(rec.cookies),
             \A q \in Requests : call[q] = Free, call' = call,
             UnspentAfter(jar') \/ \E o \in Pages : page'[o].dirty
      PROVE  CarefulInv'
  <2>1. \A o \in Pages : page'[o] = IF o = p THEN rec ELSE page[o]
    BY <1>y, <1>q
  <2>2. \A o \in Pages : /\ page'[o].kind \notin Several /\ ~page'[o].more
                         /\ page'[o].at # "failing" /\ UnspentAfter(page'[o].cookies)
    BY <1>i, <1>s, <1>q, <2>1
  <2>3. \A o, x \in Pages : page'[o] # Closed /\ page'[x] # Closed => o = x
    BY <1>i, <1>q, <2>1
  <2>4. \A q \in Requests : tx'[q].step # "reuse" /\ UnspentAfter(call'[q].cookies)
    BY <1>s, <1>q DEF Calm
  <2> QED BY <1>q, <1>z, <2>2, <2>3, <2>4
\* One call of the page moves, and the page stays at it.
<1>m. ASSUME NEW q \in Requests, NEW rec, NEW c, Home[q] \in Pages, call[q] # Free,
             page' = [page EXCEPT ![Home[q]] = rec], call' = [call EXCEPT ![q] = c],
             rec.kind \notin Several, ~rec.more, rec.at = page[Home[q]].at,
             UnspentAfter(rec.cookies), UnspentAfter(c.cookies),
             \A p \in Pages : p # Home[q] => UnspentAfter(page[p].cookies),
             \A x \in Requests : x # q => UnspentAfter(call[x].cookies),
             \A s \in Sessions : family'[s] # "reused", \A x \in Requests : tx'[x].step # "reuse",
             UnspentAfter(jar') \/ \E o \in Pages : page'[o].dirty
      PROVE  CarefulInv'
  <2>0. page[Home[q]].at = "calling" /\ page[Home[q]] # Closed
    BY <1>i, <1>m, <1>c
  <2>1. \A o \in Pages : page'[o] = IF o = Home[q] THEN rec ELSE page[o]
    BY <1>y, <1>m
  <2>2. \A x \in Requests : call'[x] = IF x = q THEN c ELSE call[x]
    BY <1>y, <1>m
  <2>3. \A o \in Pages : /\ page'[o].kind \notin Several /\ ~page'[o].more
                         /\ page'[o].at # "failing" /\ UnspentAfter(page'[o].cookies)
    BY <1>i, <1>m, <2>0, <2>1
  <2>4. \A o, x \in Pages : page'[o] # Closed /\ page'[x] # Closed => o = x
    BY <1>i, <1>m, <2>0, <2>1
  <2>5. \A x \in Requests : tx'[x].step # "reuse" /\ UnspentAfter(call'[x].cookies)
    BY <1>m, <2>2
  <2>6. \A x \in Requests : call[x] # Free => x = q
    BY <1>i, <1>m
  <2>7. \A x, r \in Requests : call'[x] # Free /\ call'[r] # Free => x = r
    BY <2>2, <2>6
  <2>8. \A x \in Requests : call'[x] # Free => Home[x] \in Pages /\ page'[Home[x]].at = "calling"
    BY <1>m, <2>0, <2>1, <2>2, <2>6
  <2> QED BY <1>m, <1>z, <2>3, <2>4, <2>5, <2>7, <2>8
<1>1. ASSUME NEW a \in Accounts, NEW s \in Sessions, NEW t \in Tokens, SignIn(a, s, t)
      PROVE  CarefulInv'
  <2>1. Login(a, s, t) /\ page' = page /\ call' = call /\ jar'.refresh = t
    BY <1>1 DEF SignIn
  <2>2. ~token'[t].used
    BY <1>t, <2>1 DEF Login, FreshToken, TypeOK
  <2>3. Calm
    BY <1>i, <2>1, OthersCalm
  <2> QED BY <1>u, <2>1, <2>2, <2>3 DEF UnspentAfter
<1>2. ASSUME NEW a \in Accounts, SignInChallenged(a) \/ SignInRefused(a) PROVE CarefulInv'
  <2>1. UNCHANGED vars /\ page' = page /\ call' = call /\ (jar' = jar \/ jar' = NoCookies)
    BY <1>2 DEF SignInChallenged, SignInRefused
  <2>2. Calm
    BY <1>i, <2>1, OthersCalm
  <2> QED BY <1>n, <1>u, <2>1, <2>2
<1>3. ASSUME NEW q \in Requests, NEW kind \in Kinds, Home[q] \in Pages, OpenPage(Home[q], q, kind)
      PROVE  CarefulInv'
  <2> DEFINE rec == [at |-> "calling", kind |-> kind, cookies |-> jar, dirty |-> FALSE,
                     more |-> kind \in Several]
             c == Sent(jar)
  <2>1. /\ page' = [page EXCEPT ![Home[q]] = rec] /\ call' = [call EXCEPT ![q] = c]
        /\ UNCHANGED <<vars, jar>> /\ kind \notin Several /\ \A o \in Pages : page[o] = Closed
    BY <1>h, <1>3 DEF OpenPage
  <2>2. Calm
    BY <1>i, <2>1, OthersCalm
  <2>3. UnspentAfter(jar) /\ jar' = jar
    BY <1>c, <1>i, <1>s, <2>1, <2>2
  <2>4. /\ rec.cookies = jar /\ rec.kind \notin Several /\ ~rec.more /\ rec.at = "calling"
        /\ c.cookies = jar
    BY <2>1 DEF Sent
  <2> HIDE DEF rec, c
  <2>5. \A o \in Pages : page'[o] = IF o = Home[q] THEN rec ELSE Closed
    BY <1>y, <2>1
  <2>6. \A x \in Requests : call[x] = Free
    BY <1>c, <1>i, <2>1
  <2>7. \A x \in Requests : call'[x] = IF x = q THEN c ELSE Free
    BY <1>y, <2>1, <2>6
  <2>8. \A o \in Pages : /\ page'[o].kind \notin Several /\ ~page'[o].more
                         /\ page'[o].at # "failing" /\ UnspentAfter(page'[o].cookies)
    BY <1>c, <1>n, <2>3, <2>4, <2>5
  <2>9. \A x \in Requests : /\ tx'[x].step # "reuse" /\ UnspentAfter(call'[x].cookies)
                            /\ call'[x] # Free => Home[x] \in Pages /\ page'[Home[x]].at = "calling"
    BY <1>3, <1>c, <1>n, <2>2, <2>3, <2>4, <2>5, <2>7 DEF Calm
  <2> QED BY <1>z, <2>2, <2>3, <2>5, <2>7, <2>8, <2>9
<1>4. ASSUME NEW p \in Pages, CallsInParallel(p) PROVE CarefulInv'
  BY <1>4, <1>i DEF CallsInParallel
\* While a page is open, every call is its.
<1>f. ASSUME NEW p \in Pages, page[p] # Closed, Quiet(p) \/ page[p].at # "calling"
      PROVE  \A q \in Requests : call[q] = Free
  <2> SUFFICES ASSUME NEW q \in Requests, call[q] # Free PROVE FALSE
    OBVIOUS
  <2>1. Home[q] \in Pages /\ page[Home[q]].at = "calling"
    BY <1>i
  <2>2. Home[q] = p
    BY <1>c, <1>f, <1>i, <2>1
  <2> QED BY <1>f, <2>1, <2>2 DEF Quiet, CallsOf
<1>5. ASSUME NEW p \in Pages, Answer(p) PROVE CarefulInv'
  <2> DEFINE rec == Settled(p)
  <2>1. /\ page' = [page EXCEPT ![p] = rec] /\ call' = call /\ UNCHANGED <<vars, jar>>
        /\ page[p] # Closed /\ Quiet(p)
    BY <1>c, <1>5 DEF Answer
  <2>2. Calm
    BY <1>i, <2>1, OthersCalm
  <2>3. /\ rec.kind \notin Several /\ ~rec.more /\ rec.at # "failing"
        /\ \/ rec.cookies = page[p].cookies /\ rec.dirty = page[p].dirty
           \/ rec.cookies = NoCookies /\ rec.dirty = TRUE
    BY <1>i, <1>t, SettledPage
  <2> HIDE DEF rec
  <2>4. UnspentAfter(rec.cookies)
    BY <1>n, <1>s, <2>2, <2>3
  <2>5. \A o \in Pages : page[o].dirty => page'[o].dirty
    BY <1>y, <2>1, <2>3
  <2>6. UnspentAfter(jar') \/ \E o \in Pages : page'[o].dirty
    BY <1>i, <1>s, <2>1, <2>2, <2>5
  <2>7. UNCHANGED <<family, tx>>
    BY <2>1 DEF vars
  <2> QED BY <1>f, <1>q, <2>1, <2>2, <2>3, <2>4, <2>6, <2>7
<1>6. ASSUME NEW p \in Pages, Delivered(p) \/ Dropped(p) PROVE CarefulInv'
  <2>1. /\ page[p] # Closed /\ page[p].at = "answered" /\ UNCHANGED vars
        /\ page' = [page EXCEPT ![p] = Closed] /\ call' = call
        /\ jar' = IF page[p].dirty THEN page[p].cookies ELSE jar
    BY <1>c, <1>h, <1>6 DEF Delivered, Dropped
  <2>2. Calm /\ UNCHANGED <<family, tx>>
    BY <1>i, <2>1, OthersCalm DEF vars
  <2>3. \A o \in Pages : o # p => ~page[o].dirty
    BY <1>c, <1>i, <2>1
  <2>4. UnspentAfter(jar')
    BY <1>i, <1>s, <2>1, <2>2, <2>3
  <2>5. \A q \in Requests : call[q] = Free
    BY <1>f, <2>1
  <2>6. /\ Closed.kind \notin Several /\ ~Closed.more /\ Closed.at # "failing"
        /\ UnspentAfter(Closed.cookies)
    BY <1>c, <1>n
  <2> QED BY <1>q, <2>1, <2>2, <2>4, <2>5, <2>6
<1>7. ASSUME NEW q \in Requests, Home[q] \in Pages, CallSteps(q) PROVE CarefulInv'
  <2>1. Calm
    BY <1>7, <1>h, CallsCalm
  <2>2. PICK rec \in PageRec, c \in CallRec : MovedTo(q, rec, c)
    BY <1>7, CallMoves DEF MovedOn
  <2>3. /\ page' = [page EXCEPT ![Home[q]] = rec] /\ call' = [call EXCEPT ![q] = c]
        /\ rec.kind = page[Home[q]].kind /\ rec.at = page[Home[q]].at
        /\ rec.more = page[Home[q]].more \/ rec.more = FALSE
        /\ \/ rec.cookies = page[Home[q]].cookies /\ rec.dirty = page[Home[q]].dirty
           \/ rec.cookies = NoCookies /\ rec.dirty = TRUE
        /\ c.cookies \in {call[q].cookies, NoCookies, page[Home[q]].cookies}
        /\ call[q].at # "free" /\ jar' = jar
    BY <1>h, <2>2 DEF MovedTo
  <2>4. UnspentAfter(rec.cookies) /\ UnspentAfter(c.cookies)
    BY <1>7, <1>n, <1>s, <2>1, <2>3
  <2>5. \A o \in Pages : page[o].dirty => page'[o].dirty
    BY <1>y, <1>7, <2>3
  <2>6. UnspentAfter(jar') \/ \E o \in Pages : page'[o].dirty
    BY <1>i, <1>s, <2>1, <2>3, <2>5
  <2>7. call[q] # Free /\ rec.kind \notin Several /\ ~rec.more
    BY <1>7, <1>c, <1>i, <2>3
  <2> QED BY <1>7, <1>m, <1>s, <2>1, <2>3, <2>4, <2>6, <2>7 DEF Calm
<1>8. ASSUME NEW q \in Requests, NEW n \in Tokens, Home[q] \in Pages, RefreshAnswered(q, n)
      PROVE  CarefulInv'
  <2>1. WritesCookies(Home[q]) /\ RefreshCommit(q, n) /\ call[q] # Free
    BY <1>8, <1>c, <1>i DEF WritesCookies, Several, RefreshAnswered
  <2> DEFINE rec == Renewed(q, n)
             c == Retry(q, n)
  <2>a. /\ page' = [page EXCEPT ![Home[q]] = rec] /\ call' = [call EXCEPT ![q] = c]
        /\ rec.dirty = TRUE /\ rec.kind = page[Home[q]].kind
        /\ rec.at = page[Home[q]].at /\ rec.more = page[Home[q]].more
        /\ rec.cookies = NewCookies(q, n) /\ c.cookies = NewCookies(q, n)
    BY <1>8, <2>1, RenewedPage
  <2>b. NewCookies(q, n).refresh = n
    BY DEF NewCookies
  <2> HIDE DEF rec, c
  <2>2. /\ page' = [page EXCEPT ![Home[q]] = rec] /\ call' = [call EXCEPT ![q] = c]
        /\ rec.dirty = TRUE /\ rec.kind = page[Home[q]].kind
        /\ rec.at = page[Home[q]].at /\ rec.more = page[Home[q]].more
        /\ rec.cookies.refresh = n /\ c.cookies.refresh = n
    BY <2>a, <2>b
  <2>3. /\ ~token'[n].used /\ UNCHANGED family
        /\ \A x \in Requests : tx'[x] = IF x = q THEN Idle ELSE tx[x]
    BY <2>1, RenewedRows
  <2>4. UnspentAfter(rec.cookies) /\ UnspentAfter(c.cookies)
    BY <2>2, <2>3 DEF UnspentAfter
  <2>5. \A p \in Pages : p # Home[q] => page[p] = Closed
    BY <1>8, <1>c, <1>i, <2>1
  <2>6. \A x \in Requests : x # q => call[x] = Free
    BY <1>i, <2>1
  <2>7. \A s \in Sessions : family'[s] # "reused"
    BY <1>i, <2>3 DEF NothingReused
  <2>8. \A x \in Requests : tx'[x].step # "reuse"
    BY <1>i, <2>3 DEF NothingReused, Idle
  <2>9. page'[Home[q]].dirty
    BY <1>8, <1>y, <2>2
  <2>10. /\ \A p \in Pages : p # Home[q] => UnspentAfter(page[p].cookies)
         /\ \A x \in Requests : x # q => UnspentAfter(call[x].cookies)
    BY <1>c, <1>n, <2>5, <2>6
  <2>11. rec.kind \notin Several /\ ~rec.more
    BY <1>8, <1>i, <2>2
  <2> QED BY <1>8, <1>m, <2>1, <2>2, <2>4, <2>7, <2>8, <2>9, <2>10, <2>11
<1>9. ASSUME Elsewhere \/ UNCHANGED allVars PROVE CarefulInv'
  <2>1. page' = page /\ call' = call /\ jar' = jar
    BY <1>9 DEF Elsewhere, adminVars, allVars
  <2>2. Calm
    BY <1>i, <1>9, OthersCalm DEF Elsewhere, allVars, CallsOf
  <2> QED BY <1>u, <2>1, <2>2
<1> QED
  BY AdminNextIsSteps, <1>1, <1>2, <1>3, <1>4, <1>5, <1>6, <1>7, <1>8, <1>9 DEF AdminSteps

\* A careful browser starts with nothing to lose.
LEMMA InitCareful == AdminInit => CarefulInv
<1> SUFFICES ASSUME AdminInit PROVE CarefulInv
  OBVIOUS
<1>1. /\ \A p \in Pages : page[p] = Closed
      /\ \A q \in Requests : tx[q] = Idle /\ call[q] = Free
  BY DEF AdminInit, Init
<1>2. jar = NoCookies /\ \A s \in Sessions : family[s] = "none"
  BY DEF AdminInit, Init
<1>3. /\ Closed.kind \notin Several /\ ~Closed.more /\ Closed.at # "failing"
      /\ Closed.cookies.refresh = None /\ Free.cookies.refresh = None
      /\ NoCookies.refresh = None /\ Idle.step # "reuse"
  BY DEF Closed, NoCookies, Idle, Several, Free
<1>4. \A q \in Requests : tx[q].step # "reuse" /\ Unspent(call[q].cookies)
  BY <1>1, <1>3 DEF Unspent
<1>5. \A p \in Pages : /\ page[p].kind \notin Several /\ ~page[p].more /\ page[p].at # "failing"
                       /\ Unspent(page[p].cookies)
  BY <1>1, <1>3 DEF Unspent
<1>6. Unspent(jar)
  BY <1>2, <1>3 DEF Unspent
<1> QED BY <1>1, <1>2, <1>4, <1>5, <1>6 DEF CarefulInv

(***************************************************************************)
(* A browser that opens routes of one call only, one at a time, and loses  *)
(* no answer, is never taken for a token thief, and between requests it    *)
(* holds an unused token: whatever else happens to the account.            *)
(***************************************************************************)
THEOREM CarefulNeverFlagged == AdminSpec => []HonestBrowserNeverFlagged
<1>1. CarefulInv => HonestBrowserNeverFlagged
  BY DEF CarefulInv, HonestBrowserNeverFlagged, Unspent, Closed
<1> QED BY <1>1, InitCareful, StepCareful, AdminInvHolds, PTL DEF AdminSpec
=============================================================================
