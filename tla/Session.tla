------------------------------ MODULE Session ------------------------------
(***************************************************************************)
(* Signing in and staying signed in: req() of the web client and its       *)
(* refresh after a 401 (web/src/lib/api.ts), the silent sign-in through a  *)
(* hidden iframe (lib/silentAuth.ts), the SessionKeepalive, the login      *)
(* page, and the gateway's handlers (internal/auth).  Browser tabs share   *)
(* the cookies and nothing else.                                           *)
(***************************************************************************)
EXTENDS Naturals, FiniteSets

CONSTANTS
  Tab,
  Req,        \* calls of req(), each in one tab
  TabOf,      \* the tab of each
  MaxEvents \* bound: sessions that expire, IdP sessions that
              \* end, and refreshes of SessionKeepalives, together

ASSUME SessionAssumption ==
  TabOf \in [Req -> Tab] /\ MaxEvents \in Nat

VARIABLES
  session, token,  \* the cookies: is there a session that is not over, and
                   \* whether the refresh token is the last one handed out
  sso, rotates,    \* the IdP: is the user signed in there, are tokens used once
  pc, ok, tries,   \* each call: where it is, how it will be answered, fetches
  executed,        \* how often a service has carried it out
  refreshing,      \* each tab's refresh: none, under way, or its answer
  silent,          \* its silent sign-in: none, under way, or under way and the
                   \* cookies have been renewed
  flights,         \* answers of /api/auth/oidc/refresh on their way
  keepalive,       \* each tab's SessionKeepalive
  page,            \* "app" or "login"
  events,
  excuse           \* history variable: what can take a user to the login page

cookies == <<session, token>>
idpVars == <<sso, rotates>>
callVars == <<pc, ok, tries, executed>>
vars == <<cookies, idpVars, callVars, refreshing, silent, flights, keepalive,
          page, events, excuse>>

Promise == {"none", "running", "yes"}
Excuse == {"expired", "signedOut", "raced", "failed"}
\* The answers: new cookies, cookies to clear, or an error that leaves them alone.
Token == {"none", "last", "used"}
Flight == [tab: Tab, for: {"401", "keepalive"},
           answer: {"issued", "revoked", "failed"}, token: Token]
Calls(t) == {r \in Req : TabOf[r] = t}

TypeOK ==
  /\ session \in BOOLEAN /\ token \in Token
  /\ sso \in BOOLEAN /\ rotates \in BOOLEAN
  /\ pc \in [Req -> {"idle", "sent", "waiting", "ended"}]
  /\ ok \in [Req -> {"yes", "401", "lost"}]
  /\ tries \in [Req -> 0..2] /\ executed \in [Req -> Nat]
  /\ refreshing \in [Tab -> Promise] /\ silent \in [Tab -> {"none", "running", "renewed"}]
  /\ flights \subseteq Flight
  /\ keepalive \in [Tab -> {"timer", "asking", "refreshing"}]
  /\ page \in [Tab -> {"app", "login"}]
  /\ events \in 0..MaxEvents
  /\ excuse \subseteq Excuse

\* A user has signed in through the IdP and opened the tabs; the IdP's own
\* session may be over since.
Init ==
  /\ session = TRUE /\ token = "last"
  /\ sso \in BOOLEAN /\ rotates \in BOOLEAN
  /\ pc = [r \in Req |-> "idle"] /\ ok = [r \in Req |-> "yes"]
  /\ tries = [r \in Req |-> 0] /\ executed = [r \in Req |-> 0]
  /\ refreshing = [t \in Tab |-> "none"] /\ silent = [t \in Tab |-> "none"]
  /\ flights = {}
  /\ keepalive = [t \in Tab |-> "asking"]
  /\ page = [t \in Tab |-> "app"]
  /\ events = 0 /\ excuse = IF sso THEN {} ELSE {"signedOut"}

----------------------------------------------------------------------------
(***************************************************************************)
(* The gateway and the IdP.                                                *)
(***************************************************************************)
\* A token is handed out: if they are used once, it is the only good one.
UsedUp(tok) == IF rotates /\ tok = "last" THEN "used" ELSE tok
HandOut(F) == {[f EXCEPT !.token = UsedUp(@)] : f \in F}

\* handleRefresh, with the token of the cookie sent, and what it answers.  An
\* IdP that does not know the token, or the user any more, makes the gateway
\* clear both cookies; without a token, or an IdP, it just fails.  What excuses a
\* tab: its token was used up by somebody else, or its refresh failed.
Refresh(t, why) ==
  LET Answers(a, tok) == [tab |-> t, for |-> why, answer |-> a, token |-> tok]
      Own(f) == f.tab = t /\ f.for = "401"
  IN \/ /\ token = "last" /\ sso
        /\ token' = UsedUp(token)
        /\ flights' = HandOut(flights) \cup {Answers("issued", "last")}
        /\ UNCHANGED excuse
     \/ /\ token # "none" /\ ~(token = "last" /\ sso)
        /\ flights' = flights \cup {Answers("revoked", "none")}
        /\ excuse' = IF sso /\ (why = "401" => ~ \E f \in flights: Own(f))
                     THEN excuse \cup {"raced"} ELSE excuse
        /\ UNCHANGED token
     \/ /\ flights' = flights \cup {Answers("failed", "none")}
        /\ excuse' = IF token # "none" /\ why = "401"
                     THEN excuse \cup {"failed"} ELSE excuse
        /\ UNCHANGED token

\* Mutant: whatever goes wrong clears the cookies.
CookiesOrNone(f) ==
  /\ session' = (f.answer = "issued")
  /\ token' = f.token

\* An answer arrives, and the browser does to its cookies what it says.
Cookies(f) ==
  /\ session' = (f.answer = "issued" \/ (f.answer = "failed" /\ session))
  /\ token' = IF f.answer = "failed" THEN token ELSE f.token

Expire ==
  /\ events < MaxEvents
  /\ events' = events + 1
  /\ session /\ session' = FALSE
  /\ excuse' = IF \E t \in Tab: refreshing[t] = "yes"
               THEN excuse \cup {"expired"} ELSE excuse
  /\ UNCHANGED <<token, idpVars, callVars, refreshing, silent, flights, keepalive, page>>

SignOutAtIdp ==
  /\ events < MaxEvents
  /\ events' = events + 1
  /\ sso /\ sso' = FALSE
  /\ excuse' = excuse \cup {"signedOut"}
  /\ UNCHANGED <<cookies, rotates, callVars, refreshing, silent,
                 flights, keepalive, page>>

----------------------------------------------------------------------------
(***************************************************************************)
(* req().                                                                  *)
(***************************************************************************)
\* doFetch for the calls in R: the gateway lets a call through if it has a
\* session.  Its answer can get lost (or the call, which is the milder case).
FetchAll(R) ==
  /\ pc' = [r \in Req |-> IF r \in R THEN "sent" ELSE pc[r]]
  /\ tries' = [r \in Req |-> IF r \in R THEN tries[r] + 1 ELSE tries[r]]
  /\ \E lost \in SUBSET R:
       /\ ok' = [r \in Req |->
            IF r \notin R THEN ok[r]
            ELSE IF r \in lost THEN "lost"
            ELSE IF session' THEN "yes" ELSE "401"]
       /\ executed' = [r \in Req |->
            IF r \in R /\ session' THEN executed[r] + 1 ELSE executed[r]]

Fetch(r) ==
  /\ pc[r] = "idle" /\ page[TabOf[r]] = "app"
  /\ UNCHANGED <<cookies, idpVars, refreshing, silent, flights, keepalive, page,
                 events, excuse>>
  /\ FetchAll({r})

\* The calls in R have ended: nothing of them matters any more.
End(R) ==
  /\ pc' = [r \in Req |-> IF r \in R THEN "ended" ELSE pc[r]]
  /\ ok' = [r \in Req |-> IF r \in R THEN "yes" ELSE ok[r]]
  /\ tries' = [r \in Req |-> IF r \in R THEN 0 ELSE tries[r]]
  /\ UNCHANGED executed

\* The page of a tab is left: its calls end, its promises and timers are gone.
Leave(t, F) ==
  /\ flights' = {f \in F : f.tab # t}
  /\ page' = [page EXCEPT ![t] = "login"]
  /\ End(Calls(t))
  /\ refreshing' = [refreshing EXCEPT ![t] = "none"]
  /\ silent' = [silent EXCEPT ![t] = "none"]
  /\ keepalive' = [keepalive EXCEPT ![t] = "timer"]

\* The answer arrives.
Answered(r) ==
  /\ pc[r] = "sent" /\ ok[r] # "401"
  /\ End({r})
  /\ UNCHANGED <<cookies, idpVars, refreshing, silent, flights, keepalive, page,
                 events, excuse>>

\* Mutant: each call that is refused asks for a refresh of its own.
RefusedAlone(r) ==
  LET t == TabOf[r] IN
  /\ pc[r] = "sent" /\ ok[r] = "401" /\ tries[r] = 1
  /\ pc' = [pc EXCEPT ![r] = "waiting"]
  /\ refreshing' = [refreshing EXCEPT ![t] = "running"]
  /\ Refresh(t, "401")
  /\ UNCHANGED <<session, idpVars, ok, tries, executed, silent, keepalive, page,
                 events>>

\* tryRefresh: joins the refresh under way, or takes the answer of one that has
\* just ended, or starts one.
TryRefresh(r) ==
  LET t == TabOf[r] IN
  /\ \/ /\ refreshing[t] = "none"
        /\ refreshing' = [refreshing EXCEPT ![t] = "running"]
        /\ pc' = [pc EXCEPT ![r] = "waiting"]
        /\ Refresh(t, "401")
        /\ UNCHANGED <<session, ok, tries, executed, silent, keepalive, page>>
     \/ /\ refreshing[t] = "running"
        /\ pc' = [pc EXCEPT ![r] = "waiting"]
        /\ UNCHANGED <<cookies, excuse, ok, tries, executed, refreshing, silent,
                       flights, keepalive, page>>
     \/ /\ refreshing[t] = "yes"
        /\ UNCHANGED <<cookies, excuse, refreshing, silent, flights, keepalive, page>>
        /\ FetchAll({r})
  /\ UNCHANGED <<idpVars, events>>

\* The first 401.
Refused(r) ==
  /\ pc[r] = "sent" /\ ok[r] = "401" /\ tries[r] = 1
  /\ TryRefresh(r)

\* The second 401: off to the login page.
RefusedAgain(r) ==
  /\ pc[r] = "sent" /\ ok[r] = "401" /\ tries[r] = 2
  /\ Leave(TabOf[r], flights)
  /\ UNCHANGED <<cookies, idpVars, events, excuse>>

\* tryRefresh ends, and with it every wait for it: the calls are made again, or
\* the tab goes to the login page.  F are the flights.
Settle(t, good, F) ==
  IF good
    THEN /\ refreshing' = [refreshing EXCEPT ![t] = "yes"]
         /\ FetchAll({r \in Calls(t) : pc[r] = "waiting"})
         /\ flights' = F
         /\ UNCHANGED <<keepalive, page>>
    ELSE Leave(t, F)

\* The refresh has answered: if it failed, sign in silently.
RefreshEnds(f) ==
  LET t == f.tab
      F == flights \ {f}
  IN /\ f \in flights /\ f.for = "401"
     /\ Cookies(f)
     /\ \/ /\ f.answer = "issued"
           /\ Settle(t, TRUE, F) /\ UNCHANGED silent
        \/ /\ f.answer # "issued"
           /\ silent' = [silent EXCEPT ![t] = "running"]
           /\ flights' = F
           /\ UNCHANGED <<callVars, refreshing, keepalive, page>>
     /\ UNCHANGED <<idpVars, events, excuse>>

\* The iframe has gone through the IdP, if the user is signed in there, and come
\* back to the callback, whose cookies the browser takes.  The page that comes with
\* them should post a message, but its headers forbid the iframe to show it and its
\* script to run.
SilentRenews(t) ==
  /\ silent[t] = "running" /\ sso
  /\ session' = TRUE /\ token' = "last"
  /\ flights' = HandOut(flights)
  /\ silent' = [silent EXCEPT ![t] = "renewed"]
  /\ UNCHANGED <<idpVars, callVars, refreshing, keepalive, page, events, excuse>>

\* Mutant: there is no time-out.
SilentHangs(t) ==
  /\ silent[t] # "none"
  /\ UNCHANGED vars

\* No message has come in 8 s: the silent sign-in has failed.
SilentEnds(t) ==
  /\ silent[t] # "none"
  /\ Settle(t, FALSE, flights)
  /\ UNCHANGED <<cookies, idpVars, events, excuse>>

\* The timer (0 s) that forgets a refresh that ended well.
Forget(t) ==
  /\ refreshing[t] = "yes"
  /\ refreshing' = [refreshing EXCEPT ![t] = "none"]
  /\ UNCHANGED <<cookies, idpVars, callVars, silent, flights, keepalive, page,
                 events, excuse>>

----------------------------------------------------------------------------
(***************************************************************************)
(* SessionKeepalive.                                                       *)
(***************************************************************************)
\* Its timer fires, or another page of the app is shown, which starts it anew.
Tick(t) ==
  /\ page[t] = "app"
  /\ keepalive' = [keepalive EXCEPT ![t] = "asking"]
  /\ keepalive[t] # "asking"
  /\ UNCHANGED <<cookies, idpVars, callVars, refreshing, silent, flights, page,
                 events, excuse>>

\* /api/auth/me has answered: the session is about to expire, or not, or over.
Asked(t) ==
  /\ page[t] = "app" /\ keepalive[t] = "asking"
  /\ \/ /\ session
        /\ events < MaxEvents /\ events' = events + 1
        /\ keepalive' = [keepalive EXCEPT ![t] = "refreshing"]
        /\ Refresh(t, "keepalive")
     \/ /\ keepalive' = [keepalive EXCEPT ![t] = "timer"]
        /\ UNCHANGED <<token, excuse, flights, events>>
  /\ UNCHANGED <<session, idpVars, callVars, refreshing, silent, page>>

KeptAlive(f) ==
  /\ f \in flights /\ f.for = "keepalive"
  /\ flights' = flights \ {f}
  /\ Cookies(f)
  /\ keepalive' = [keepalive EXCEPT ![f.tab] =
                     IF @ = "refreshing" THEN "timer" ELSE @]
  /\ UNCHANGED <<idpVars, callVars, refreshing, silent, page, events, excuse>>

\* The user signs in on the login page, which loads the page anew.
SignIn(t) ==
  /\ page[t] = "login"
  /\ session' = TRUE /\ token' = "last" /\ sso' = TRUE
  /\ flights' = HandOut(flights)
  /\ page' = [page EXCEPT ![t] = "app"]
  /\ keepalive' = [keepalive EXCEPT ![t] = "asking"]
  /\ UNCHANGED <<rotates, callVars, refreshing, silent, events, excuse>>

Next ==
  \/ \E r \in Req: Fetch(r) \/ Answered(r) \/ Refused(r) \/ RefusedAgain(r)
  \/ \E f \in flights: RefreshEnds(f) \/ KeptAlive(f)
  \/ \E t \in Tab:
       SilentRenews(t) \/ SilentEnds(t) \/ Forget(t) \/ Tick(t) \/ Asked(t)
       \/ SignIn(t)
  \/ Expire \/ SignOutAtIdp

\* Calls are answered or lost, and timers fire.
Spec ==
  /\ Init /\ [][Next]_vars
  /\ \A r \in Req: WF_vars(Answered(r) \/ Refused(r) \/ RefusedAgain(r))
  /\ \A t \in Tab: /\ WF_vars(\E f \in flights: f.tab = t /\ RefreshEnds(f))
                   /\ WF_vars(SilentEnds(t))

----------------------------------------------------------------------------
\* A call that is made again after a 401 is carried out at most once.
AtMostOnce == \A r \in Req: executed[r] <= 1

\* "multiple parallel 401s share a single refresh round-trip rather than racing
\* the IdP" (api.ts): in a tab, at most one refresh on account of a 401.
OneRefreshPerTab ==
  \A t \in Tab: Cardinality({f \in flights : f.tab = t /\ f.for = "401"}) <= 1

\* Both, of variables that keep their types.
CallsOnce == TypeOK /\ AtMostOnce /\ OneRefreshPerTab

\* A tab is sent to the login page only if the user's session at the IdP ended,
\* or a session expired right after it was renewed, or the tab's refresh could not
\* be made (no gateway, no IdP), or used a token that somebody else had used up:
\* another tab, or a SessionKeepalive.  The silent sign-in spares it none of these.
SentToLoginForCause ==
  [][\A t \in Tab: page[t] = "app" /\ page'[t] = "login" => excuse' # {}]_vars

\* Every call ends, also those that wait for somebody else's refresh.
CallsEnd == \A r \in Req: pc[r] = "sent" ~> pc[r] = "ended"
============================================================================
