---------------------------- MODULE AdminSession ----------------------------
(***************************************************************************)
(* The central-admin server between one browser and the gateway            *)
(* (gateway-session.ts and the pages and API routes that call it).         *)
(*                                                                         *)
(* A request to it carries a copy of the browser's cookies and makes calls *)
(* to the gateway: one, or one and then several in parallel.  Each call    *)
(* reads the cookies when it is sent; on a 401 it refreshes once and is    *)
(* sent again.  An API route may write cookies, which its other calls see  *)
(* and which reach the browser with its answer; a server-rendered page may *)
(* not (allowCookieMutation: false), so it drops the tokens it was given.  *)
(* Composed with AuthSessions: call q of this module is request q of the   *)
(* gateway.                                                                *)
(***************************************************************************)
EXTENDS AuthSessions

CONSTANTS Pages,   \* what the browser may have open at the same time
          Home,    \* whose call a request of the gateway is: a page's, or another device's
          Kinds,   \* what the browser opens: subset of PageKinds
          Habits   \* how browsers behave: subset of {"any", "careful"}

PageKinds == {"page", "dashboard", "route", "signout"}
ASSUME BrowserAssumption == Kinds \subseteq PageKinds /\ Habits \subseteq {"any", "careful"}
ASSUME HomeAssumption == None \notin Pages /\ Home \in [Requests -> Pages \cup {None}]

VARIABLES jar,     \* the browser's cookies
          page,    \* the requests the admin server works on
          call,    \* their calls to the gateway
          signIn,  \* what the last sign-in told the browser
          habit    \* never changes; careful: one call at a time, nothing lost

adminVars == <<jar, page, call, signIn, habit>>
allVars == <<vars, adminVars>>

NoCookies == [session |-> None, refresh |-> None, accessEnds |-> 0]
Closed == [at |-> "closed", kind |-> "none", cookies |-> NoCookies, dirty |-> FALSE,
           more |-> FALSE]
Free == [at |-> "free", cookies |-> NoCookies]
Sent(cookies) == [at |-> "call", cookies |-> cookies]

CallsOf(p) == {q \in Requests : Home[q] = p}
Quiet(p) == \A q \in CallsOf(p) : call[q] = Free

AdminInit ==
  /\ Init
  /\ jar = NoCookies
  /\ page = [p \in Pages |-> Closed]
  /\ call = [q \in Requests |-> Free]
  /\ signIn = "none"
  /\ habit \in Habits
-----------------------------------------------------------------------------
(***************************************************************************)
(* POST /api/auth/login.  Any 2xx of the gateway counts as success, the    *)
(* 202 of an MFA challenge too: then the tokens are undefined and the      *)
(* cookies are written empty.  The access cookie outlives its token in no  *)
(* way that matters, so a dropped one and an expired one are the same.     *)
(***************************************************************************)
SignIn(a, s, t) ==
  /\ Login(a, s, t)
  /\ jar' = [session |-> s, refresh |-> t, accessEnds |-> now + AccessTTL]
  /\ signIn' = "ok"
  /\ UNCHANGED <<page, call, habit>>

SignInChallenged(a) ==
  /\ PassesLoginChecks(a)
  /\ account[a].factor
  /\ jar' = NoCookies
  /\ signIn' = "ok"
  /\ UNCHANGED <<vars, page, call, habit>>

SignInRefused(a) ==
  /\ ~PassesLoginChecks(a)
  /\ signIn' = "refused"
  /\ UNCHANGED <<vars, jar, page, call, habit>>

(***************************************************************************)
(* A page and the dashboard's route ask for /v1/auth/me and, when that is  *)
(* answered with a 2xx, make all their calls in one Promise.all.  Every    *)
(* other route makes one call.                                             *)
(***************************************************************************)
Several == {"page", "dashboard"}

OpenPage(p, q, kind) ==
  /\ page[p] = Closed /\ Home[q] = p
  /\ habit = "careful" => kind \notin Several /\ \A o \in Pages : page[o] = Closed
  /\ page' = [page EXCEPT ![p] = [at |-> "calling", kind |-> kind, cookies |-> jar,
                                  dirty |-> FALSE, more |-> kind \in Several]]
  /\ call' = [call EXCEPT ![q] = Sent(jar)]
  /\ UNCHANGED <<vars, jar, signIn, habit>>

CallsInParallel(p) ==
  /\ page[p].at = "calling" /\ page[p].more
  /\ Quiet(p)
  /\ page' = [page EXCEPT ![p].more = FALSE]
  /\ call' = [q \in Requests |-> IF Home[q] = p THEN Sent(page[p].cookies) ELSE call[q]]
  /\ UNCHANGED <<vars, jar, signIn, habit>>

\* All is settled.  The logout route clears the cookies whatever the gateway said; the 500
\* of a route in which a fetch threw carries none.
Settled(p) ==
  CASE page[p].kind = "signout" ->
         [page[p] EXCEPT !.at = "answered", !.cookies = NoCookies, !.dirty = TRUE]
    [] page[p].kind # "signout" /\ page[p].at = "failing" ->
         [page[p] EXCEPT !.at = "answered", !.dirty = FALSE]
    [] OTHER -> [page[p] EXCEPT !.at = "answered"]

Answer(p) ==
  /\ page[p].at \in {"calling", "failing"} /\ ~page[p].more
  /\ Quiet(p)
  /\ page' = [page EXCEPT ![p] = Settled(p)]
  /\ UNCHANGED <<vars, jar, call, signIn, habit>>
-----------------------------------------------------------------------------
Moves(q, to) ==
  /\ call' = [call EXCEPT ![q].at = to]
  /\ UNCHANGED <<jar, page, signIn, habit>>

\* Mutant: the API routes, too, call it with allowCookieMutation: false.
RoutesDropCookies(p) == page[p].kind = "signout"
WritesCookies(p) == page[p].kind # "page"

\* The call has its response: it is over, and the page goes on after an ok only.
Responded(q, ok) ==
  /\ call' = [call EXCEPT ![q] = Free]
  /\ page' = IF ok THEN page ELSE [page EXCEPT ![Home[q]].more = FALSE]
  /\ UNCHANGED <<jar, signIn, habit>>

\* The refresh got nothing: the call keeps its 401, and a route forgets its cookies.
GivenUp(q) ==
  /\ call' = [call EXCEPT ![q] = Free]
  /\ page' = [page EXCEPT ![Home[q]] =
                IF WritesCookies(Home[q])
                THEN [page[Home[q]] EXCEPT !.cookies = NoCookies, !.dirty = TRUE, !.more = FALSE]
                ELSE [page[Home[q]] EXCEPT !.more = FALSE]]
  /\ UNCHANGED <<jar, signIn, habit>>

IsSignOut(q) == page[Home[q]].kind = "signout"
Calling(q) == call[q].at \in {"call", "retry"}
JwtAccepted(q) == call[q].cookies.session # None /\ now < call[q].cookies.accessEnds

CallServed(q) ==
  /\ Calling(q) /\ ~IsSignOut(q)
  /\ JwtAccepted(q)
  /\ CallBegin(q, call[q].cookies.session)
  /\ Moves(q, "served")

SignOutServed(q) ==
  /\ Calling(q) /\ IsSignOut(q)
  /\ JwtAccepted(q)
  /\ Logout(q, call[q].cookies.session, call[q].cookies.session)
  /\ Moves(q, "served")

SignOutScans(q) ==
  /\ call[q].at = "served"
  /\ RevokeScan(q)
  /\ UNCHANGED adminVars

CallAnswered(q) ==
  /\ call[q].at = "served"
  /\ \/ (CallEnd(q) \/ RevokeCommit(q)) /\ Responded(q, TRUE)
     \/ Abort(q) /\ Responded(q, FALSE)

\* What the gateway asks of a call; logout asks for the JWT alone.
CallPasses(q) ==
  IF IsSignOut(q) THEN JwtAccepted(q)
  ELSE JwtAccepted(q) /\ CallAdmitted(call[q].cookies.session)

\* 401: refresh on the first try, with the token that the page holds now; give it back on
\* the second.
CallRefused(q) ==
  /\ Calling(q)
  /\ ~CallPasses(q)
  /\ IF call[q].at = "call" /\ page[Home[q]].cookies.refresh # None
     THEN /\ call' = [call EXCEPT ![q] = [at |-> "refresh", cookies |-> page[Home[q]].cookies]]
          /\ UNCHANGED <<jar, page, signIn, habit>>
     ELSE Responded(q, FALSE)
  /\ UNCHANGED vars
-----------------------------------------------------------------------------
\* Mutant: a refused refresh is followed by another try.
RefreshRefusedRetrying(q) ==
  /\ call[q].at = "refresh"
  /\ ~Refreshable(call[q].cookies.refresh)
  /\ Moves(q, "call")
  /\ UNCHANGED vars

\* refreshSession: any answer but 2xx clears the cookies of a route.
RefreshRefused(q) ==
  /\ call[q].at = "refresh"
  /\ ~Refreshable(call[q].cookies.refresh)
  /\ GivenUp(q)
  /\ UNCHANGED vars

RefreshSent(q) ==
  /\ call[q].at = "refresh"
  /\ RefreshBegin(q, call[q].cookies.refresh)
  /\ Moves(q, "rotating")

RefreshFailed(q) ==
  /\ call[q].at = "rotating"
  /\ ReuseCommit(q) \/ Abort(q)
  /\ GivenUp(q)

\* Mutant: the new refresh token is put beside whatever the browser holds by then.
RefreshAnsweredIntoJar(q, n) ==
  /\ call[q].at = "rotating"
  /\ RefreshCommit(q, n)
  /\ IF WritesCookies(Home[q])
     THEN LET new == [jar EXCEPT !.refresh = n]
          IN  /\ call' = [call EXCEPT ![q] = [at |-> "retry", cookies |-> new]]
              /\ page' = [page EXCEPT ![Home[q]].cookies = new, ![Home[q]].dirty = TRUE]
              /\ UNCHANGED <<jar, signIn, habit>>
     ELSE Responded(q, FALSE)

\* A route stores the new tokens and retries; a page drops them and keeps its 401.
RefreshAnswered(q, n) ==
  /\ call[q].at = "rotating"
  /\ RefreshCommit(q, n)
  /\ IF WritesCookies(Home[q])
     THEN LET new == [session |-> tx[q].session, refresh |-> n, accessEnds |-> now + AccessTTL]
          IN  /\ call' = [call EXCEPT ![q] = [at |-> "retry", cookies |-> new]]
              /\ page' = [page EXCEPT ![Home[q]].cookies = new, ![Home[q]].dirty = TRUE]
              /\ UNCHANGED <<jar, signIn, habit>>
     ELSE Responded(q, FALSE)

(***************************************************************************)
(* fetch throws, whatever the gateway did with the request: new tokens are *)
(* gone, and the route ends with an error while its other calls run on     *)
(* (its answer waits for them here).  The logout route catches it.         *)
(***************************************************************************)
FetchThrows(q) ==
  /\ habit = "any"
  /\ \/ Calling(q) /\ UNCHANGED vars
     \/ call[q].at \in {"served", "rotating"} /\ RequestEnds(q)
  /\ call' = [call EXCEPT ![q] = Free]
  /\ page' = [page EXCEPT ![Home[q]].at = "failing", ![Home[q]].more = FALSE]
  /\ UNCHANGED <<jar, signIn, habit>>
-----------------------------------------------------------------------------
\* The answer reaches the browser with its Set-Cookie headers, or does not.
Delivered(p) ==
  /\ page[p].at = "answered"
  /\ jar' = IF page[p].dirty THEN page[p].cookies ELSE jar
  /\ page' = [page EXCEPT ![p] = Closed]
  /\ UNCHANGED <<vars, call, signIn, habit>>

Dropped(p) ==
  /\ habit = "any"
  /\ page[p].at = "answered"
  /\ page' = [page EXCEPT ![p] = Closed]
  /\ UNCHANGED <<vars, jar, call, signIn, habit>>

\* Another device of the same account, and time.
Elsewhere ==
  /\ \/ Tick
     \/ \E q \in CallsOf(None) :
          \/ \E s, target \in Sessions : SessionRevoke(q, s, target)
          \/ RevokeScan(q) \/ RevokeCommit(q) \/ Abort(q)
  /\ UNCHANGED adminVars

CallProgress(q) ==
  \/ CallServed(q) \/ CallAnswered(q) \/ SignOutServed(q) \/ SignOutScans(q)
  \/ CallRefused(q)
  \/ RefreshRefused(q) \/ RefreshSent(q) \/ RefreshFailed(q)
  \/ \E n \in Tokens : RefreshAnswered(q, n)
  \/ FetchThrows(q)

PageProgress(p) == CallsInParallel(p) \/ Answer(p) \/ Delivered(p) \/ Dropped(p)

AdminNext ==
  \/ \E a \in Accounts, s \in Sessions, t \in Tokens : SignIn(a, s, t)
  \/ \E a \in Accounts : SignInChallenged(a) \/ SignInRefused(a)
  \/ \E p \in Pages, kind \in Kinds : \E q \in CallsOf(p) : OpenPage(p, q, kind)
  \/ \E p \in Pages : PageProgress(p) \/ \E q \in CallsOf(p) : CallProgress(q)
  \/ Elsewhere

AdminSpec == AdminInit /\ [][AdminNext]_allVars
\* fetch to the gateway settles and Next.js finishes the request.
FairAdminSpec ==
  /\ AdminSpec
  /\ \A p \in Pages : WF_allVars(PageProgress(p))
  /\ \A q \in Requests : WF_allVars(Home[q] # None /\ CallProgress(q))
-----------------------------------------------------------------------------
NamesOneSession(c) ==
  /\ c.session = None <=> c.refresh = None
  /\ c.session # None => /\ token[c.refresh].family = c.session
                         /\ c.accessEnds <= accessEnds[c.session]

(***************************************************************************)
(* The access and the refresh cookie always belong to the same session, in *)
(* the browser, in every request under way and in every call of it, even   *)
(* when an answer of an earlier session arrives after a new sign-in or     *)
(* after a sign-out, or parallel calls of one request refresh together.    *)
(***************************************************************************)
CookiesOfOneSession ==
  /\ NamesOneSession(jar)
  /\ \A p \in Pages : NamesOneSession(page[p].cookies)
  /\ \A q \in Requests : NamesOneSession(call[q].cookies)

(***************************************************************************)
(* A browser that uses routes of one call only, one at a time, and loses   *)
(* no answer, is never taken for a token thief, and between requests it    *)
(* always holds a token that was not used.  Each condition is needed: a    *)
(* page that refreshes, the parallel calls of the dashboard's route, two   *)
(* overlapping routes, or a lost answer each make a refresh a reuse.       *)
(***************************************************************************)
HonestBrowserNeverFlagged ==
  habit = "careful" =>
    /\ \A s \in Sessions : family[s] # "reused"
    /\ (\A p \in Pages : page[p] = Closed) /\ jar.refresh # None
         => ~token[jar.refresh].used

(***************************************************************************)
(* "MFA ... fake success is not returned" (operational-runtime-phase-      *)
(* report.md): a sign-in that is reported as successful leaves the browser *)
(* with a refresh token.                                                   *)
(***************************************************************************)
NoFakeSignIn ==
  [][signIn # "ok" /\ signIn' = "ok" => jar'.refresh # None]_allVars

(***************************************************************************)
(* A request never circles between 401 and refresh, in none of its calls:  *)
(* it is answered.                                                         *)
(***************************************************************************)
EveryPageAnswers == \A p \in Pages : page[p].at = "calling" ~> page[p].at = "closed"
=============================================================================
