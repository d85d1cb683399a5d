-------------------------- MODULE WebClientProofs --------------------------
(***************************************************************************)
(* What a tab of the web client keeps, for any number of tabs, calls,      *)
(* keys, revisions and requests.  Its session: a call is carried out at    *)
(* most once, a tab has at most one refresh under way on account of a 401, *)
(* and none is sent to the login page without a cause.  Its key browser: a *)
(* page at rest shows its own writes, and a poll leaves the editor alone.  *)
(***************************************************************************)
EXTENDS Session, KeyBrowser, FiniteSetTheorems, TLAPS

----------------------------------------------------------------------------
(***************************************************************************)
(* A call that is going to be made, or made again, has not been carried    *)
(* out.  A refresh whose answer is on its way is the one its tab waits     *)
(* for, and what is waiting waits for that tab's refresh.                  *)
(***************************************************************************)
CallOK(r) ==
  /\ pc[r] = "idle" => executed[r] = 0 /\ tries[r] = 0
  /\ pc[r] = "sent" => tries[r] \in 1..2 /\ (ok[r] = "401" => executed[r] = 0)
  /\ pc[r] = "waiting" => executed[r] = 0 /\ tries[r] = 1
  /\ executed[r] <= 1

CallsOK == \A r \in Req: CallOK(r)

FlightsOK(F, running, signing) ==
  /\ \A f \in F: f.for = "401" =>
       running[f.tab] = "running" /\ signing[f.tab] = "none"
  /\ \A f, g \in F: f.for = "401" /\ g.for = "401" /\ f.tab = g.tab => f = g

SigningOK == \A t \in Tab: silent[t] # "none" => refreshing[t] = "running"

Inv == TypeOK /\ CallsOK /\ FlightsOK(flights, refreshing, silent) /\ SigningOK

LEMMA InvHolds == Inv => CallsOnce
<1> SUFFICES ASSUME Inv PROVE CallsOnce
  OBVIOUS
<1>1. AtMostOnce
  BY DEF Inv, CallsOK, CallOK, AtMostOnce
<1>2. ASSUME NEW t \in Tab
      PROVE  Cardinality({f \in flights : f.tab = t /\ f.for = "401"}) <= 1
  <2> DEFINE S == {f \in flights : f.tab = t /\ f.for = "401"}
  <2>1. CASE S = {}
    BY <2>1, FS_EmptySet
  <2>2. CASE S # {}
    <3>1. PICK f \in flights: f.tab = t /\ f.for = "401"
      BY <2>2
    <3>2. S = {f}
      BY <3>1 DEF Inv, FlightsOK
    <3> QED
      BY <3>2, FS_Singleton
  <2> QED
    BY <2>1, <2>2
<1> QED
  BY <1>1, <1>2 DEF CallsOnce, OneRefreshPerTab, Inv

LEMMA SessionInitOK == Init => Inv
<1> SUFFICES ASSUME Init PROVE Inv
  OBVIOUS
<1>a. /\ pc = [r \in Req |-> "idle"] /\ ok = [r \in Req |-> "yes"]
      /\ tries = [r \in Req |-> 0] /\ executed = [r \in Req |-> 0]
  BY Zenon DEF Init
<1>b. /\ refreshing = [t \in Tab |-> "none"] /\ silent = [t \in Tab |-> "none"]
      /\ keepalive = [t \in Tab |-> "asking"] /\ page = [t \in Tab |-> "app"]
  BY Zenon DEF Init
<1>c. token = "last" /\ flights = {} /\ events = 0
  BY Zenon DEF Init
<1>e. excuse = {} \/ excuse = {"signedOut"}
  BY Zenon DEF Init
<1>d. session \in BOOLEAN /\ sso \in BOOLEAN /\ rotates \in BOOLEAN
  BY Zenon DEF Init
<1>1. TypeOK
  <2>1. /\ session \in BOOLEAN /\ token \in Token /\ sso \in BOOLEAN /\ rotates \in BOOLEAN
        /\ flights \subseteq Flight /\ events \in 0..MaxEvents
        /\ excuse \subseteq Excuse
    <3>1. events \in 0..MaxEvents /\ token \in Token /\ flights \subseteq Flight
      BY <1>c, SessionAssumption DEF Token
    <3>2. excuse \subseteq Excuse
      BY <1>e DEF Excuse
    <3> QED
      BY <1>d, <3>1, <3>2
  <2>2. /\ pc \in [Req -> {"idle", "sent", "waiting", "ended"}]
        /\ ok \in [Req -> {"yes", "401", "lost"}]
        /\ tries \in [Req -> 0..2] /\ executed \in [Req -> Nat]
    BY <1>a
  <2>3. /\ refreshing \in [Tab -> Promise]
        /\ silent \in [Tab -> {"none", "running", "renewed"}]
        /\ keepalive \in [Tab -> {"timer", "asking", "refreshing"}]
        /\ page \in [Tab -> {"app", "login"}]
    BY <1>b DEF Promise
  <2> QED
    BY <2>1, <2>2, <2>3 DEF TypeOK
<1>2. CallsOK
  BY <1>a DEF CallsOK, CallOK
<1>3. FlightsOK(flights, refreshing, silent)
  BY <1>c DEF FlightsOK
<1>4. SigningOK
  BY <1>b DEF SigningOK
<1> QED
  BY <1>1, <1>2, <1>3, <1>4 DEF Inv

----------------------------------------------------------------------------
\* Handing out a token changes no flight but for its token.
LEMMA HandedOut ==
  ASSUME NEW F, F \subseteq Flight
  PROVE  /\ HandOut(F) \subseteq Flight
         /\ \A running, signing:
              FlightsOK(F, running, signing) => FlightsOK(HandOut(F), running, signing)
<1>1. \A f \in F: /\ [f EXCEPT !.token = UsedUp(@)] \in Flight
                  /\ [f EXCEPT !.token = UsedUp(@)].tab = f.tab
                  /\ [f EXCEPT !.token = UsedUp(@)].for = f.for
  BY DEF Flight, UsedUp, Token
<1>2. ASSUME NEW h \in HandOut(F)
      PROVE  \E f \in F: h = [f EXCEPT !.token = UsedUp(@)] /\ h.tab = f.tab /\ h.for = f.for
  BY <1>1 DEF HandOut
<1>3. HandOut(F) \subseteq Flight
  BY <1>1 DEF HandOut
<1>4. ASSUME NEW running, NEW signing, FlightsOK(F, running, signing)
      PROVE  FlightsOK(HandOut(F), running, signing)
  <2>1. \A h \in HandOut(F): h.for = "401" =>
          running[h.tab] = "running" /\ signing[h.tab] = "none"
    BY <1>2, <1>4 DEF FlightsOK
  <2>2. ASSUME NEW h \in HandOut(F), NEW i \in HandOut(F),
               h.for = "401", i.for = "401", h.tab = i.tab
        PROVE  h = i
    <3>1. PICK f \in F: h = [f EXCEPT !.token = UsedUp(@)] /\ h.tab = f.tab /\ h.for = f.for
      BY <1>2
    <3>2. PICK g \in F: i = [g EXCEPT !.token = UsedUp(@)] /\ i.tab = g.tab /\ i.for = g.for
      BY <1>2
    <3>3. f = g
      BY <1>4, <2>2, <3>1, <3>2 DEF FlightsOK
    <3> QED
      BY <3>1, <3>2, <3>3
  <2> QED
    BY <2>1, <2>2 DEF FlightsOK
<1> QED
  BY <1>3, <1>4

\* A refresh sends one flight, and gives nobody a second one.
LEMMA RefreshOK ==
  ASSUME Inv, NEW t \in Tab, NEW why \in {"401", "keepalive"}, Refresh(t, why)
  PROVE  /\ token' \in Token
         /\ flights' \subseteq Flight
         /\ excuse' \subseteq Excuse
         /\ \E F \in SUBSET Flight, f \in Flight:
              /\ flights' = F \cup {f} /\ f.tab = t /\ f.for = why
              /\ FlightsOK(F, refreshing, silent)
<1> DEFINE Answers(a, tok) == [tab |-> t, for |-> why, answer |-> a, token |-> tok]
<1>1. /\ flights \subseteq Flight /\ token \in Token
      /\ excuse \subseteq Excuse
      /\ FlightsOK(flights, refreshing, silent)
  BY DEF Inv, TypeOK
<1>2. HandOut(flights) \subseteq Flight /\ FlightsOK(HandOut(flights), refreshing, silent)
  BY <1>1, HandedOut
<1>3. \A a \in {"issued", "revoked", "failed"}, tok \in Token:
        Answers(a, tok) \in Flight /\ Answers(a, tok).tab = t /\ Answers(a, tok).for = why
  BY DEF Flight
<1>4. UsedUp(token) \in Token /\ "last" \in Token /\ "none" \in Token
  BY <1>1 DEF UsedUp, Token
<1> HIDE DEF Answers
<1>5. CASE flights' = HandOut(flights) \cup {Answers("issued", "last")}
           /\ token' = UsedUp(token) /\ UNCHANGED excuse
  BY <1>1, <1>2, <1>3, <1>4, <1>5
<1>6. CASE flights' = flights \cup {Answers("revoked", "none")}
           /\ (excuse' = excuse \cup {"raced"} \/ excuse' = excuse) /\ UNCHANGED token
  BY <1>1, <1>3, <1>4, <1>6 DEF Excuse
<1>7. CASE flights' = flights \cup {Answers("failed", "none")}
           /\ (excuse' = excuse \cup {"failed"} \/ excuse' = excuse) /\ UNCHANGED token
  BY <1>1, <1>3, <1>4, <1>7 DEF Excuse
<1> QED
  BY <1>5, <1>6, <1>7 DEF Refresh, Answers

\* Calls that were not carried out are made; each has a try left.
LEMMA FetchAllOK ==
  ASSUME Inv, NEW R \in SUBSET Req, FetchAll(R), session' \in BOOLEAN,
         \A r \in R: executed[r] = 0 /\ tries[r] \in 0..1
  PROVE  /\ CallsOK'
         /\ pc' \in [Req -> {"idle", "sent", "waiting", "ended"}]
         /\ ok' \in [Req -> {"yes", "401", "lost"}]
         /\ tries' \in [Req -> 0..2] /\ executed' \in [Req -> Nat]
         /\ \A r \in Req \ R: pc'[r] = pc[r]
         /\ \A r \in R: pc'[r] = "sent"
<1>1. PICK lost \in SUBSET R:
        /\ ok' = [r \in Req |->
             IF r \notin R THEN ok[r]
             ELSE IF r \in lost THEN "lost"
             ELSE IF session' THEN "yes" ELSE "401"]
        /\ executed' = [r \in Req |->
             IF r \in R /\ session' THEN executed[r] + 1 ELSE executed[r]]
  BY DEF FetchAll
<1>2. /\ pc' = [r \in Req |-> IF r \in R THEN "sent" ELSE pc[r]]
      /\ tries' = [r \in Req |-> IF r \in R THEN tries[r] + 1 ELSE tries[r]]
  BY DEF FetchAll
<1>3. /\ pc \in [Req -> {"idle", "sent", "waiting", "ended"}]
      /\ ok \in [Req -> {"yes", "401", "lost"}]
      /\ tries \in [Req -> 0..2] /\ executed \in [Req -> Nat]
      /\ \A r \in Req: CallOK(r)
  BY DEF Inv, TypeOK, CallsOK
<1>4. \A r \in Req: CallOK(r)'
  BY <1>1, <1>2, <1>3 DEF CallOK
<1>5. /\ pc' \in [Req -> {"idle", "sent", "waiting", "ended"}]
      /\ ok' \in [Req -> {"yes", "401", "lost"}]
      /\ \A r \in Req \ R: pc'[r] = pc[r]
      /\ \A r \in R: pc'[r] = "sent"
  BY <1>1, <1>2, <1>3
<1>6. tries' \in [Req -> 0..2] /\ executed' \in [Req -> Nat]
  BY <1>1, <1>2, <1>3
<1> QED
  BY <1>4, <1>5, <1>6 DEF CallsOK

LEMMA EndOK ==
  ASSUME Inv, NEW R \in SUBSET Req, End(R)
  PROVE  /\ CallsOK'
         /\ pc' \in [Req -> {"idle", "sent", "waiting", "ended"}]
         /\ ok' \in [Req -> {"yes", "401", "lost"}]
         /\ tries' \in [Req -> 0..2] /\ executed' \in [Req -> Nat]
<1>1. /\ pc \in [Req -> {"idle", "sent", "waiting", "ended"}]
      /\ ok \in [Req -> {"yes", "401", "lost"}]
      /\ tries \in [Req -> 0..2] /\ executed \in [Req -> Nat]
      /\ \A r \in Req: CallOK(r)
  BY DEF Inv, TypeOK, CallsOK
<1>2. /\ pc' = [r \in Req |-> IF r \in R THEN "ended" ELSE pc[r]]
      /\ ok' = [r \in Req |-> IF r \in R THEN "yes" ELSE ok[r]]
      /\ tries' = [r \in Req |-> IF r \in R THEN 0 ELSE tries[r]]
      /\ executed' = executed
  BY DEF End
<1>3. \A r \in Req: CallOK(r)'
  BY <1>1, <1>2 DEF CallOK
<1>4. /\ pc' \in [Req -> {"idle", "sent", "waiting", "ended"}]
      /\ ok' \in [Req -> {"yes", "401", "lost"}]
      /\ tries' \in [Req -> 0..2] /\ executed' \in [Req -> Nat]
  BY <1>1, <1>2
<1> QED
  BY <1>3, <1>4 DEF CallsOK

----------------------------------------------------------------------------
\* The page of a tab is left.
LEMMA LeaveOK ==
  ASSUME Inv, NEW t \in Tab, NEW F \in SUBSET Flight, FlightsOK(F, refreshing, silent),
         Leave(t, F), session' \in BOOLEAN, token' \in Token,
         UNCHANGED <<idpVars, events, excuse>>
  PROVE  Inv'
<1>1. /\ CallsOK'
      /\ pc' \in [Req -> {"idle", "sent", "waiting", "ended"}]
      /\ ok' \in [Req -> {"yes", "401", "lost"}]
      /\ tries' \in [Req -> 0..2] /\ executed' \in [Req -> Nat]
  BY EndOK DEF Leave, Calls
<1>2. /\ flights' = {f \in F : f.tab # t}
      /\ page' = [page EXCEPT ![t] = "login"]
      /\ refreshing' = [refreshing EXCEPT ![t] = "none"]
      /\ silent' = [silent EXCEPT ![t] = "none"]
      /\ keepalive' = [keepalive EXCEPT ![t] = "timer"]
  BY DEF Leave
<1>3. TypeOK'
  <2>1. /\ refreshing' \in [Tab -> Promise]
        /\ silent' \in [Tab -> {"none", "running", "renewed"}]
        /\ keepalive' \in [Tab -> {"timer", "asking", "refreshing"}]
        /\ page' \in [Tab -> {"app", "login"}]
    BY <1>2 DEF Inv, TypeOK, Promise
  <2>2. /\ session' \in BOOLEAN /\ token' \in Token
        /\ sso' \in BOOLEAN /\ rotates' \in BOOLEAN
        /\ flights' \subseteq Flight /\ events' \in 0..MaxEvents
        /\ excuse' \subseteq Excuse
    BY <1>2 DEF Inv, TypeOK, idpVars
  <2> QED
    BY <1>1, <2>1, <2>2 DEF TypeOK
<1>4. FlightsOK(flights, refreshing, silent)'
  <2>1. \A f \in F: f.tab \in Tab
    BY DEF Flight
  <2>2. \A f \in flights': f \in F /\ f.tab # t /\ f.tab \in Tab
    BY <1>2, <2>1
  <2>3. \A u \in Tab \ {t}: refreshing'[u] = refreshing[u] /\ silent'[u] = silent[u]
    BY <1>2 DEF Inv, TypeOK
  <2> QED
    BY <2>2, <2>3 DEF FlightsOK
<1>5. SigningOK'
  BY <1>2 DEF Inv, TypeOK, SigningOK
<1> QED
  BY <1>1, <1>3, <1>4, <1>5 DEF Inv

\* A refresh brings a session: what waits is made again.
LEMMA SettleOK ==
  ASSUME Inv, NEW t \in Tab, NEW F \in SUBSET Flight, Settle(t, TRUE, F),
         FlightsOK(F, refreshing, silent),
         \A f \in F: f.tab # t \/ f.for # "401",
         session' \in BOOLEAN, token' \in Token,
         silent' = silent, silent[t] = "none",
         UNCHANGED <<idpVars, events, excuse>>
  PROVE  Inv'
<1>1. /\ refreshing' = [refreshing EXCEPT ![t] = "yes"]
      /\ FetchAll({r \in Calls(t) : pc[r] = "waiting"})
      /\ flights' = F /\ keepalive' = keepalive /\ page' = page
  BY DEF Settle
<1>2. /\ CallsOK'
      /\ pc' \in [Req -> {"idle", "sent", "waiting", "ended"}]
      /\ ok' \in [Req -> {"yes", "401", "lost"}]
      /\ tries' \in [Req -> 0..2] /\ executed' \in [Req -> Nat]
  <2> DEFINE R == {r \in Calls(t) : pc[r] = "waiting"}
  <2>1. R \in SUBSET Req
    BY DEF Calls
  <2>2. \A r \in R: executed[r] = 0 /\ tries[r] \in 0..1
    BY DEF Inv, CallsOK, CallOK, Calls
  <2>3. FetchAll(R)
    BY <1>1
  <2> HIDE DEF R
  <2> QED
    BY <2>1, <2>2, <2>3, FetchAllOK
<1>3. TypeOK'
  <2>1. /\ refreshing' \in [Tab -> Promise]
        /\ silent' \in [Tab -> {"none", "running", "renewed"}]
        /\ keepalive' \in [Tab -> {"timer", "asking", "refreshing"}]
        /\ page' \in [Tab -> {"app", "login"}]
    BY <1>1 DEF Inv, TypeOK, Promise
  <2>2. /\ session' \in BOOLEAN /\ token' \in Token
        /\ sso' \in BOOLEAN /\ rotates' \in BOOLEAN
        /\ flights' \subseteq Flight /\ events' \in 0..MaxEvents
        /\ excuse' \subseteq Excuse
    BY <1>1 DEF Inv, TypeOK, idpVars
  <2> QED
    BY <1>2, <2>1, <2>2 DEF TypeOK
<1>4. FlightsOK(flights, refreshing, silent)'
  <2>1. \A f \in F: f.tab \in Tab
    BY DEF Flight
  <2>2. \A u \in Tab \ {t}: refreshing'[u] = refreshing[u] /\ silent'[u] = silent[u]
    BY <1>1 DEF Inv, TypeOK
  <2>3. \A f \in F: f.for = "401" => f.tab \in Tab \ {t}
    BY <2>1
  <2>4. flights' = F
    BY <1>1
  <2> QED
    BY <2>2, <2>3, <2>4 DEF FlightsOK
<1>5. SigningOK'
  BY <1>1 DEF Inv, TypeOK, SigningOK
<1> QED
  BY <1>2, <1>3, <1>4, <1>5 DEF Inv

----------------------------------------------------------------------------
\* The steps.
LEMMA FetchOK == ASSUME Inv, NEW r \in Req, Fetch(r) PROVE Inv'
<1>1. /\ CallsOK'
      /\ pc' \in [Req -> {"idle", "sent", "waiting", "ended"}]
      /\ ok' \in [Req -> {"yes", "401", "lost"}]
      /\ tries' \in [Req -> 0..2] /\ executed' \in [Req -> Nat]
  <2>1. executed[r] = 0 /\ tries[r] = 0
    BY DEF Fetch, Inv, CallsOK, CallOK
  <2>2. session' \in BOOLEAN /\ FetchAll({r})
    BY DEF Fetch, cookies, Inv, TypeOK
  <2>3. {r} \in SUBSET Req /\ \A q \in {r}: executed[q] = 0 /\ tries[q] \in 0..1
    BY <2>1
  <2> QED
    BY <2>2, <2>3, FetchAllOK
<1>2. UNCHANGED <<session, token, sso, rotates, refreshing, silent, flights, keepalive, page,
                  events, excuse>>
  BY DEF Fetch, cookies, idpVars
<1> QED
  BY <1>1, <1>2 DEF Inv, TypeOK, FlightsOK, SigningOK

LEMMA AnsweredOK == ASSUME Inv, NEW r \in Req, Answered(r) PROVE Inv'
<1>1. /\ CallsOK'
      /\ pc' \in [Req -> {"idle", "sent", "waiting", "ended"}]
      /\ ok' \in [Req -> {"yes", "401", "lost"}]
      /\ tries' \in [Req -> 0..2] /\ executed' \in [Req -> Nat]
  BY EndOK DEF Answered
<1>2. UNCHANGED <<session, token, sso, rotates, refreshing, silent, flights, keepalive, page,
                  events, excuse>>
  BY DEF Answered, cookies, idpVars
<1> QED
  BY <1>1, <1>2 DEF Inv, TypeOK, FlightsOK, SigningOK

\* A call that is refused waits, or is made again at once.
LEMMA RefusedOK == ASSUME Inv, NEW r \in Req, Refused(r) PROVE Inv'
<1> DEFINE t == TabOf[r]
<1>1. /\ t \in Tab /\ pc[r] = "sent" /\ executed[r] = 0 /\ tries[r] = 1
      /\ UNCHANGED <<sso, rotates, events>>
  BY SessionAssumption DEF Refused, TryRefresh, idpVars, Inv, CallsOK, CallOK
<1>2. ASSUME pc' = [pc EXCEPT ![r] = "waiting"], UNCHANGED <<ok, tries, executed>>
      PROVE  /\ CallsOK'
             /\ pc' \in [Req -> {"idle", "sent", "waiting", "ended"}]
  BY <1>1, <1>2 DEF Inv, TypeOK, CallsOK, CallOK
<1>3. CASE /\ refreshing[t] = "none"
           /\ refreshing' = [refreshing EXCEPT ![t] = "running"]
           /\ pc' = [pc EXCEPT ![r] = "waiting"]
           /\ Refresh(t, "401")
           /\ UNCHANGED <<session, ok, tries, executed, silent, keepalive, page>>
  <2>1. PICK F \in SUBSET Flight, f \in Flight:
          /\ flights' = F \cup {f} /\ f.tab = t /\ f.for = "401"
          /\ FlightsOK(F, refreshing, silent)
    BY <1>1, <1>3, RefreshOK
  <2>2. /\ token' \in Token
        /\ flights' \subseteq Flight
        /\ excuse' \subseteq Excuse
    BY <1>1, <1>3, RefreshOK
  <2>3. refreshing' \in [Tab -> Promise]
    BY <1>3 DEF Inv, TypeOK, Promise
  <2>4. TypeOK'
    BY <1>1, <1>2, <1>3, <2>2, <2>3 DEF Inv, TypeOK
  <2>5. FlightsOK(flights, refreshing, silent)'
    <3>1. \A g \in F: g.for = "401" => g.tab # t
      BY <1>3, <2>1 DEF FlightsOK
    <3>2. \A g \in F: g.tab \in Tab
      BY DEF Flight
    <3>3. \A g \in F: g.for = "401" => refreshing'[g.tab] = refreshing[g.tab]
      BY <1>3, <3>1, <3>2 DEF Inv, TypeOK
    <3>4. refreshing'[t] = "running"
      BY <1>1, <1>3 DEF Inv, TypeOK
    <3>5. silent'[t] = "none"
      BY <1>1, <1>3 DEF Inv, SigningOK
    <3> QED
      BY <1>3, <2>1, <3>1, <3>3, <3>4, <3>5 DEF FlightsOK
  <2>6. SigningOK'
    <3>1. /\ refreshing \in [Tab -> Promise]
          /\ \A u \in Tab: silent[u] # "none" => refreshing[u] = "running"
      BY DEF Inv, TypeOK, SigningOK
    <3> QED
      BY <1>1, <1>3, <3>1 DEF SigningOK
  <2> QED
    BY <1>2, <1>3, <2>4, <2>5, <2>6 DEF Inv
<1>4. CASE /\ pc' = [pc EXCEPT ![r] = "waiting"]
           /\ UNCHANGED <<session, token, excuse, ok, tries, executed, refreshing, silent,
                          flights, keepalive, page>>
  BY <1>1, <1>2, <1>4 DEF Inv, TypeOK, FlightsOK, SigningOK
<1>5. CASE /\ FetchAll({r})
           /\ UNCHANGED <<session, token, excuse, refreshing, silent, flights, keepalive, page>>
  <2>1. session' \in BOOLEAN
    BY <1>5 DEF Inv, TypeOK
  <2>2. {r} \in SUBSET Req /\ \A q \in {r}: executed[q] = 0 /\ tries[q] \in 0..1
    BY <1>1
  <2>3. /\ CallsOK'
        /\ pc' \in [Req -> {"idle", "sent", "waiting", "ended"}]
        /\ ok' \in [Req -> {"yes", "401", "lost"}]
        /\ tries' \in [Req -> 0..2] /\ executed' \in [Req -> Nat]
    BY <1>5, <2>1, <2>2, FetchAllOK
  <2> QED
    BY <1>1, <1>5, <2>3 DEF Inv, TypeOK, FlightsOK, SigningOK
<1> QED
  BY <1>3, <1>4, <1>5 DEF Refused, TryRefresh, cookies

LEMMA RefusedAgainOK == ASSUME Inv, NEW r \in Req, RefusedAgain(r) PROVE Inv'
<1>1. /\ flights \in SUBSET Flight /\ FlightsOK(flights, refreshing, silent)
      /\ session \in BOOLEAN /\ token \in Token /\ TabOf[r] \in Tab
  BY SessionAssumption DEF Inv, TypeOK
<1>2. /\ Leave(TabOf[r], flights) /\ session' = session /\ token' = token
      /\ UNCHANGED <<idpVars, events, excuse>>
  BY DEF RefusedAgain, cookies
<1> QED
  BY <1>1, <1>2, LeaveOK

\* What an answer does to the cookies.
LEMMA CookiesOK ==
  ASSUME Inv, NEW f \in flights, Cookies(f)
  PROVE  session' \in BOOLEAN /\ token' \in Token
BY DEF Inv, TypeOK, Cookies, Flight

LEMMA RefreshEndsOK == ASSUME Inv, NEW f \in flights, RefreshEnds(f) PROVE Inv'
<1> DEFINE t == f.tab
           F == flights \ {f}
<1>1. /\ t \in Tab /\ F \in SUBSET Flight /\ f.for = "401"
      /\ refreshing[t] = "running" /\ silent[t] = "none"
      /\ FlightsOK(F, refreshing, silent)
      /\ \A g \in F: g.tab # t \/ g.for # "401"
  BY DEF RefreshEnds, Inv, TypeOK, FlightsOK, Flight
<1>2. session' \in BOOLEAN /\ token' \in Token
  BY CookiesOK DEF RefreshEnds
<1>3. UNCHANGED <<idpVars, events, excuse>>
  BY DEF RefreshEnds
<1>4. CASE Settle(t, TRUE, F) /\ UNCHANGED silent
  <2> HIDE DEF t, F
  <2> QED
    BY <1>1, <1>2, <1>3, <1>4, SettleOK
<1>5. CASE /\ silent' = [silent EXCEPT ![t] = "running"]
           /\ flights' = F
           /\ UNCHANGED <<callVars, refreshing, keepalive, page>>
  <2>1. UNCHANGED <<sso, rotates, events, pc, ok, tries, executed, refreshing, keepalive, page>>
    BY <1>3, <1>5 DEF idpVars, callVars
  <2>2. excuse' \subseteq Excuse
    BY <1>3 DEF Inv, TypeOK
  <2>3. silent' \in [Tab -> {"none", "running", "renewed"}]
    BY <1>5 DEF Inv, TypeOK
  <2>4. TypeOK'
    <3>1. flights' \subseteq Flight
      BY <1>1, <1>5
    <3>2. UNCHANGED <<sso, rotates, events, pc, ok, tries, executed, refreshing, keepalive, page>>
      BY <2>1
    <3> HIDE DEF t, F
    <3> QED
      BY <1>2, <2>2, <2>3, <3>1, <3>2 DEF Inv, TypeOK
  <2>5. CallsOK'
    BY <2>1 DEF Inv, CallsOK, CallOK
  <2>6. FlightsOK(flights, refreshing, silent)'
    <3>1. \A g \in F: g.tab \in Tab
      BY <1>1 DEF Flight
    <3>2. \A g \in F: g.for = "401" => silent'[g.tab] = silent[g.tab]
      BY <1>1, <1>5, <3>1 DEF Inv, TypeOK
    <3> QED
      BY <1>1, <1>5, <2>1, <3>2 DEF FlightsOK
  <2>7. SigningOK'
    <3>1. silent \in [Tab -> {"none", "running", "renewed"}]
      BY DEF Inv, TypeOK
    <3> HIDE DEF t
    <3>2. \A u \in Tab \ {t}: silent'[u] = silent[u]
      BY <1>5, <3>1
    <3> QED
      BY <1>1, <2>1, <3>2 DEF Inv, SigningOK
  <2> QED
    BY <2>4, <2>5, <2>6, <2>7 DEF Inv
<1> QED
  BY <1>4, <1>5 DEF RefreshEnds

LEMMA SilentRenewsOK == ASSUME Inv, NEW t \in Tab, SilentRenews(t) PROVE Inv'
<1>1. /\ silent[t] = "running"
      /\ session' = TRUE /\ token' = "last" /\ flights' = HandOut(flights)
      /\ silent' = [silent EXCEPT ![t] = "renewed"]
      /\ UNCHANGED <<sso, rotates, pc, ok, tries, executed, refreshing, keepalive, page,
                     events, excuse>>
  BY DEF SilentRenews, idpVars, callVars
<1>2. /\ flights' \subseteq Flight /\ FlightsOK(flights', refreshing, silent)
  BY <1>1, HandedOut DEF Inv, TypeOK
<1>3. /\ silent \in [Tab -> {"none", "running", "renewed"}]
      /\ silent' \in [Tab -> {"none", "running", "renewed"}]
  BY <1>1 DEF Inv, TypeOK
<1>4. \A u \in Tab: silent'[u] = "none" <=> silent[u] = "none"
  BY <1>1, <1>3
<1>5. TypeOK'
  BY <1>1, <1>2, <1>3 DEF Inv, TypeOK, Token
<1>6. FlightsOK(flights, refreshing, silent)'
  <2>1. \A f \in flights': f.tab \in Tab
    BY <1>2 DEF Flight
  <2> QED
    BY <1>1, <1>2, <1>4, <2>1 DEF FlightsOK
<1>7. CallsOK'
  BY <1>1 DEF Inv, CallsOK, CallOK
<1>8. SigningOK'
  BY <1>1, <1>4 DEF Inv, SigningOK
<1> QED
  BY <1>5, <1>6, <1>7, <1>8 DEF Inv

LEMMA SilentEndsOK == ASSUME Inv, NEW t \in Tab, SilentEnds(t) PROVE Inv'
<1>1. /\ UNCHANGED <<idpVars, events, excuse>>
      /\ flights \in SUBSET Flight /\ FlightsOK(flights, refreshing, silent)
  BY DEF SilentEnds, Inv, TypeOK
<1>2. /\ Leave(t, flights)
      /\ session' \in BOOLEAN /\ token' \in Token
  BY DEF SilentEnds, Settle, cookies, Inv, TypeOK
<1> QED
  BY <1>1, <1>2, LeaveOK

----------------------------------------------------------------------------
\* Steps that leave the calls and the flights alone.
LEMMA CallsStay ==
  ASSUME Inv, UNCHANGED <<callVars, flights, refreshing, silent>>, SigningOK', TypeOK'
  PROVE  Inv'
<1>1. \A f \in flights: f.tab \in Tab
  <2>1. flights \subseteq Flight
    BY Zenon DEF Inv, TypeOK
  <2> QED
    BY <2>1 DEF Flight
<1>2. FlightsOK(flights, refreshing, silent)'
  BY <1>1 DEF Inv, FlightsOK
<1>3. CallsOK'
  BY DEF Inv, callVars, CallsOK, CallOK
<1> QED
  BY <1>2, <1>3 DEF Inv

LEMMA EventOK == Inv /\ (Expire \/ SignOutAtIdp) => Inv'
<1> SUFFICES ASSUME Inv, Expire \/ SignOutAtIdp PROVE Inv'
  OBVIOUS
<1>1. UNCHANGED <<callVars, flights, refreshing, silent, token, rotates, keepalive, page>>
  BY DEF Expire, SignOutAtIdp, cookies, idpVars
<1>2. session' \in BOOLEAN /\ sso' \in BOOLEAN
  BY Zenon DEF Expire, SignOutAtIdp, cookies, idpVars, Inv, TypeOK
<1>3. events' \in 0..MaxEvents
  <2>1. events < MaxEvents /\ events' = events + 1
    BY DEF Expire, SignOutAtIdp
  <2>2. events \in 0..MaxEvents /\ MaxEvents \in Nat
    BY Zenon, SessionAssumption DEF Inv, TypeOK
  <2> QED
    BY <2>1, <2>2
<1>4. excuse' \subseteq Excuse
  <2>1. excuse \subseteq Excuse
    BY DEF Inv, TypeOK
  <2>2. \/ excuse' = excuse \/ excuse' = excuse \cup {"expired"}
        \/ excuse' = excuse \cup {"signedOut"}
    BY Zenon DEF Expire, SignOutAtIdp
  <2> QED
    BY <2>1, <2>2 DEF Excuse
<1>5. TypeOK'
  BY <1>1, <1>2, <1>3, <1>4 DEF Inv, TypeOK, callVars
<1>6. SigningOK'
  BY <1>1 DEF Inv, SigningOK
<1> QED
  BY <1>1, <1>5, <1>6, CallsStay

LEMMA ForgetOK == ASSUME Inv, NEW t \in Tab, Forget(t) PROVE Inv'
<1>1. /\ UNCHANGED <<session, token, sso, rotates, callVars, silent, flights, keepalive, page,
                     events, excuse>>
      /\ refreshing[t] = "yes" /\ refreshing' = [refreshing EXCEPT ![t] = "none"]
  BY DEF Forget, cookies, idpVars
<1>2. \A u \in Tab \ {t}: refreshing'[u] = refreshing[u]
  BY <1>1 DEF Inv, TypeOK
<1>3. refreshing' \in [Tab -> Promise]
  BY <1>1 DEF Inv, TypeOK, Promise
<1>4. TypeOK'
  BY <1>1, <1>3 DEF Inv, TypeOK, callVars
<1>5. FlightsOK(flights, refreshing, silent)'
  <2>1. \A f \in flights: f.tab \in Tab
    BY DEF Inv, TypeOK, Flight
  <2>2. \A f \in flights: f.for = "401" => refreshing'[f.tab] = "running"
    BY <1>1, <1>2, <2>1 DEF Inv, FlightsOK
  <2> QED
    BY <1>1, <2>2 DEF Inv, FlightsOK
<1>6. SigningOK'
  BY <1>1, <1>2 DEF Inv, SigningOK
<1>7. CallsOK'
  BY <1>1 DEF Inv, CallsOK, CallOK, callVars
<1> QED
  BY <1>4, <1>5, <1>6, <1>7 DEF Inv

LEMMA TickOK == ASSUME Inv, NEW t \in Tab, Tick(t) PROVE Inv'
<1>1. UNCHANGED <<session, token, sso, rotates, callVars, flights, refreshing, silent, page,
                  events, excuse>>
  BY DEF Tick, cookies, idpVars
<1>2. keepalive' \in [Tab -> {"timer", "asking", "refreshing"}]
  BY DEF Tick, Inv, TypeOK
<1>3. TypeOK' /\ SigningOK'
  BY <1>1, <1>2 DEF Inv, TypeOK, SigningOK, callVars
<1> QED
  BY <1>1, <1>3, CallsStay

\* The keep-alive's refresh is on account of no 401.
LEMMA AskedOK == ASSUME Inv, NEW t \in Tab, Asked(t) PROVE Inv'
<1>1. UNCHANGED <<session, sso, rotates, callVars, refreshing, silent, page>>
  BY DEF Asked, idpVars
<1>2. CASE /\ events < MaxEvents /\ events' = events + 1
           /\ keepalive' = [keepalive EXCEPT ![t] = "refreshing"]
           /\ Refresh(t, "keepalive")
  <2>1. /\ token' \in Token
        /\ flights' \subseteq Flight
        /\ excuse' \subseteq Excuse
    BY <1>2, RefreshOK
  <2>2. PICK F \in SUBSET Flight, f \in Flight:
          /\ flights' = F \cup {f} /\ f.tab = t /\ f.for = "keepalive"
          /\ FlightsOK(F, refreshing, silent)
    BY <1>2, RefreshOK
  <2>3. keepalive' \in [Tab -> {"timer", "asking", "refreshing"}]
    BY <1>2 DEF Inv, TypeOK
  <2>4. events' \in 0..MaxEvents
    <3>1. events \in 0..MaxEvents /\ MaxEvents \in Nat
      BY Zenon, SessionAssumption DEF Inv, TypeOK
    <3> QED
      BY <1>2, <3>1
  <2>5. TypeOK'
    BY <1>1, <2>1, <2>3, <2>4 DEF Inv, TypeOK, callVars
  <2>6. FlightsOK(flights, refreshing, silent)'
    BY <1>1, <2>2 DEF FlightsOK
  <2>7. CallsOK' /\ SigningOK'
    BY <1>1 DEF Inv, CallsOK, CallOK, callVars, SigningOK
  <2> QED
    BY <2>5, <2>6, <2>7 DEF Inv
<1>3. CASE /\ keepalive' = [keepalive EXCEPT ![t] = "timer"]
           /\ UNCHANGED <<token, excuse, flights, events>>
  <2>1. keepalive' \in [Tab -> {"timer", "asking", "refreshing"}]
    BY <1>3 DEF Inv, TypeOK
  <2>2. TypeOK' /\ SigningOK'
    BY <1>1, <1>3, <2>1 DEF Inv, TypeOK, SigningOK, callVars
  <2> QED
    BY <1>1, <1>3, <2>2, CallsStay
<1> QED
  BY <1>2, <1>3 DEF Asked

LEMMA KeptAliveOK == ASSUME Inv, NEW f \in flights, KeptAlive(f) PROVE Inv'
<1>1. /\ UNCHANGED <<sso, rotates, callVars, refreshing, silent, page, events, excuse>>
      /\ flights' = flights \ {f}
      /\ keepalive' = [keepalive EXCEPT ![f.tab] =
                         IF @ = "refreshing" THEN "timer" ELSE @]
  BY DEF KeptAlive, idpVars
<1>2. session' \in BOOLEAN /\ token' \in Token
  BY CookiesOK DEF KeptAlive
<1>3. keepalive' \in [Tab -> {"timer", "asking", "refreshing"}]
  BY <1>1 DEF Inv, TypeOK
<1>4. TypeOK'
  BY <1>1, <1>2, <1>3 DEF Inv, TypeOK, callVars
<1>5. FlightsOK(flights, refreshing, silent)'
  BY <1>1 DEF Inv, FlightsOK
<1>6. CallsOK' /\ SigningOK'
  BY <1>1 DEF Inv, CallsOK, CallOK, callVars, SigningOK
<1> QED
  BY <1>4, <1>5, <1>6 DEF Inv

LEMMA SignInOK == ASSUME Inv, NEW t \in Tab, SignIn(t) PROVE Inv'
<1>1. /\ UNCHANGED <<rotates, callVars, refreshing, silent, events, excuse>>
      /\ token' = "last" /\ flights' = HandOut(flights)
      /\ page' = [page EXCEPT ![t] = "app"]
      /\ keepalive' = [keepalive EXCEPT ![t] = "asking"]
  BY DEF SignIn
<1>2. session' \in BOOLEAN /\ sso' \in BOOLEAN
  BY Zenon DEF SignIn
<1>3. flights' \subseteq Flight /\ FlightsOK(flights', refreshing, silent)
  BY <1>1, HandedOut DEF Inv, TypeOK
<1>4. /\ page' \in [Tab -> {"app", "login"}]
      /\ keepalive' \in [Tab -> {"timer", "asking", "refreshing"}]
  BY <1>1 DEF Inv, TypeOK
<1>5. token' \in Token
  BY <1>1 DEF Token
<1>6. TypeOK'
  BY <1>1, <1>2, <1>3, <1>4, <1>5 DEF Inv, TypeOK, callVars
<1>7. FlightsOK(flights, refreshing, silent)'
  BY <1>1, <1>3 DEF FlightsOK
<1>8. CallsOK' /\ SigningOK'
  BY <1>1 DEF Inv, CallsOK, CallOK, callVars, SigningOK
<1> QED
  BY <1>6, <1>7, <1>8 DEF Inv

----------------------------------------------------------------------------
LEMMA NextOK == Inv /\ [Next]_vars => Inv'
<1> SUFFICES ASSUME Inv, [Next]_vars PROVE Inv'
  OBVIOUS
<1>1. CASE UNCHANGED vars
  BY <1>1
  DEF vars, cookies, idpVars, callVars, Inv, TypeOK, CallsOK, CallOK, FlightsOK, SigningOK
<1>2. ASSUME NEW r \in Req, Fetch(r) \/ Answered(r) \/ Refused(r) \/ RefusedAgain(r)
      PROVE  Inv'
  BY <1>2, FetchOK, AnsweredOK, RefusedOK, RefusedAgainOK
<1>3. ASSUME NEW f \in flights, RefreshEnds(f) \/ KeptAlive(f) PROVE Inv'
  BY <1>3, RefreshEndsOK, KeptAliveOK
<1>4. ASSUME NEW t \in Tab,
             \/ SilentRenews(t) \/ SilentEnds(t) \/ Forget(t)
             \/ Tick(t) \/ Asked(t) \/ SignIn(t)
      PROVE  Inv'
  BY <1>4, SilentRenewsOK, SilentEndsOK, ForgetOK, TickOK, AskedOK, SignInOK
<1>5. CASE Expire \/ SignOutAtIdp
  BY <1>5, EventOK
<1> QED
  BY <1>1, <1>2, <1>3, <1>4, <1>5 DEF Next

\* A call is carried out at most once, though it is made again after a refresh, and the calls of a tab that were refused share one refresh.
THEOREM CalledOnce == Spec => []CallsOnce
BY SessionInitOK, NextOK, InvHolds, PTL DEF Spec

----------------------------------------------------------------------------
(***************************************************************************)
(* While nothing has happened that excuses it, the IdP knows the user, no  *)
(* answer says otherwise, every refresh on account of a 401 is granted, so *)
(* that no tab signs in silently; the token a tab has is the last one, who *)
(* has just renewed the session has one, and a call made again was made    *)
(* with a session.                                                         *)
(***************************************************************************)
Good(f) ==
  /\ f.answer # "revoked"
  /\ f.for = "401" => f.answer = "issued"
  /\ f.answer = "issued" => f.token # "none"

Unexcused ==
  /\ sso /\ token # "none"
  /\ \A f \in flights: Good(f)
  /\ \A t \in Tab: silent[t] = "none" /\ (refreshing[t] = "yes" => session)
  /\ \A r \in Req: pc[r] = "sent" /\ tries[r] = 2 => ok[r] # "401"

CauseInv == Inv /\ (excuse = {} => Unexcused)

LEMMA CauseInitOK == Init => CauseInv
<1> SUFFICES ASSUME Init PROVE CauseInv
  OBVIOUS
<1>1. (excuse = {} => sso) /\ token # "none"
  BY DEF Init
<1>2. flights = {} /\ \A r \in Req: pc[r] = "idle"
  BY DEF Init
<1>3. \A t \in Tab: refreshing[t] = "none" /\ silent[t] = "none"
  BY DEF Init
<1> QED
  BY <1>1, <1>2, <1>3, SessionInitOK DEF CauseInv, Unexcused

\* Nothing that excuses is ever forgotten.
LEMMA ExcuseGrows == [Next]_vars => excuse \subseteq excuse'
<1> SUFFICES ASSUME [Next]_vars PROVE excuse \subseteq excuse'
  OBVIOUS
<1>1. CASE UNCHANGED vars
  BY <1>1 DEF vars
<1>2. ASSUME NEW r \in Req, Fetch(r) \/ Answered(r) \/ Refused(r) \/ RefusedAgain(r)
      PROVE  excuse \subseteq excuse'
  BY <1>2 DEF Fetch, Answered, Refused, TryRefresh, Refresh, RefusedAgain
<1>3. ASSUME NEW f \in flights, RefreshEnds(f) \/ KeptAlive(f) PROVE excuse \subseteq excuse'
  BY <1>3 DEF RefreshEnds, KeptAlive
<1>4. ASSUME NEW t \in Tab,
             \/ SilentRenews(t) \/ SilentEnds(t) \/ Forget(t)
             \/ Tick(t) \/ Asked(t) \/ SignIn(t)
      PROVE  excuse \subseteq excuse'
  BY <1>4 DEF SilentRenews, SilentEnds, Forget, Tick, Asked, Refresh, SignIn
<1>5. CASE Expire \/ SignOutAtIdp
  BY <1>5 DEF Expire, SignOutAtIdp
<1> QED
  BY <1>1, <1>2, <1>3, <1>4, <1>5 DEF Next

\* Calls that are made again, in the presence of a session, are not refused.
LEMMA FetchAllUnexcused ==
  ASSUME Inv, NEW R \in SUBSET Req, FetchAll(R), session' \/ \A r \in R: tries[r] = 0,
         \A r \in Req: pc[r] = "sent" /\ tries[r] = 2 => ok[r] # "401"
  PROVE  \A r \in Req: pc'[r] = "sent" /\ tries'[r] = 2 => ok'[r] # "401"
<1>1. PICK lost \in SUBSET R:
        ok' = [r \in Req |->
             IF r \notin R THEN ok[r]
             ELSE IF r \in lost THEN "lost"
             ELSE IF session' THEN "yes" ELSE "401"]
  BY DEF FetchAll
<1>2. /\ pc' = [r \in Req |-> IF r \in R THEN "sent" ELSE pc[r]]
      /\ tries' = [r \in Req |-> IF r \in R THEN tries[r] + 1 ELSE tries[r]]
  BY DEF FetchAll
<1>3. ASSUME NEW r \in R, ~session' PROVE tries'[r] # 2
  BY <1>2, <1>3
<1>4. ASSUME NEW r \in R, session' PROVE ok'[r] # "401"
  BY <1>1, <1>4
<1>5. ASSUME NEW r \in Req \ R PROVE pc'[r] = pc[r] /\ tries'[r] = tries[r] /\ ok'[r] = ok[r]
  BY <1>1, <1>2
<1> QED
  BY <1>3, <1>4, <1>5

\* Tokens that are handed out leave the answers as they are.
LEMMA HandOutUnexcused ==
  ASSUME flights \subseteq Flight, Unexcused
  PROVE  \A f \in HandOut(flights): Good(f)
<1>1. ASSUME NEW f \in flights PROVE Good([f EXCEPT !.token = UsedUp(@)])
  <2>1. f \in Flight /\ Good(f)
    BY DEF Unexcused
  <2> QED
    BY <2>1 DEF Flight, Good, UsedUp
<1> QED
  BY <1>1 DEF HandOut

\* Without an excuse, a refresh is not told that the user is gone, and one on
\* account of a 401 does not fail.
LEMMA RefreshUnexcused ==
  ASSUME Inv, Unexcused, NEW t \in Tab, NEW why \in {"401", "keepalive"}, Refresh(t, why),
         why = "401" => refreshing[t] # "running",
         excuse' = {}
  PROVE  token' # "none" /\ \A f \in flights': Good(f)
<1>1. \A f \in HandOut(flights): Good(f)
  BY HandOutUnexcused DEF Inv, TypeOK
<1>2. sso /\ token # "none" /\ \A f \in flights: Good(f)
  BY DEF Unexcused
<1>3. why = "401" => ~ \E f \in flights: f.tab = t /\ f.for = "401"
  BY DEF Inv, FlightsOK
<1>4. UsedUp(token) # "none"
  BY <1>2 DEF UsedUp
<1> DEFINE Answers(a, tok) == [tab |-> t, for |-> why, answer |-> a, token |-> tok]
<1>5. Good(Answers("issued", "last")) /\ (why # "401" => Good(Answers("failed", "none")))
  BY DEF Good
<1> HIDE DEF Answers
<1>6. CASE token' = UsedUp(token) /\ flights' = HandOut(flights) \cup {Answers("issued", "last")}
  BY <1>1, <1>4, <1>5, <1>6
<1>7. CASE flights' = flights \cup {Answers("failed", "none")} /\ token' = token
           /\ excuse' = IF token # "none" /\ why = "401"
                        THEN excuse \cup {"failed"} ELSE excuse
  BY <1>2, <1>5, <1>7
<1> QED
  BY <1>2, <1>3, <1>6, <1>7 DEF Refresh, Answers

\* The steps.
LEMMA CallUnexcused ==
  ASSUME Inv, Unexcused, excuse' = {}, NEW r \in Req,
         Fetch(r) \/ Answered(r) \/ Refused(r) \/ RefusedAgain(r)
  PROVE  Unexcused'
<1> DEFINE Again(o, p, n) == \A q \in Req: p[q] = "sent" /\ n[q] = 2 => o[q] # "401"
<1>1. /\ Again(ok, pc, tries) /\ TabOf[r] \in Tab /\ refreshing \in [Tab -> Promise]
      /\ session \in BOOLEAN
  BY SessionAssumption DEF Inv, TypeOK, Unexcused
<1>2. CASE Fetch(r)
  <2>1. UNCHANGED <<session, token, sso, flights, refreshing, silent>> /\ FetchAll({r})
    BY <1>2 DEF Fetch, cookies, idpVars
  <2>2. tries[r] = 0
    BY <1>2 DEF Fetch, Inv, CallsOK, CallOK
  <2>3. Again(ok', pc', tries')
    BY <1>1, <2>1, <2>2, FetchAllUnexcused
  <2> QED
    BY <2>1, <2>3 DEF Unexcused
<1>3. CASE Answered(r)
  <2>1. UNCHANGED <<session, token, sso, flights, refreshing, silent>> /\ End({r})
    BY <1>3 DEF Answered, cookies, idpVars
  <2>2. Again(ok', pc', tries')
    BY <1>1, <2>1 DEF End
  <2> QED
    BY <2>1, <2>2 DEF Unexcused
<1>4. CASE Refused(r)
  <2> DEFINE t == TabOf[r]
  <2>0. tries[r] = 1 /\ TryRefresh(r) /\ sso' = sso
    BY <1>4 DEF Refused, TryRefresh, idpVars
  <2>1. CASE /\ refreshing[t] = "none"
             /\ refreshing' = [refreshing EXCEPT ![t] = "running"]
             /\ pc' = [pc EXCEPT ![r] = "waiting"]
             /\ Refresh(t, "401")
             /\ UNCHANGED <<session, ok, tries, silent>>
    <3>1. token' # "none" /\ \A f \in flights': Good(f)
      BY <1>1, <2>1, RefreshUnexcused
    <3>2. \A u \in Tab: refreshing'[u] = "yes" => refreshing[u] = "yes"
      BY <1>1, <2>1
    <3>3. Again(ok', pc', tries')
      BY <1>1, <2>1 DEF Inv, TypeOK
    <3> QED
      BY <2>0, <2>1, <3>1, <3>2, <3>3 DEF Unexcused
  <2>2. CASE /\ pc' = [pc EXCEPT ![r] = "waiting"]
             /\ UNCHANGED <<session, token, ok, tries, refreshing, silent, flights>>
    <3>1. Again(ok', pc', tries')
      BY <1>1, <2>2 DEF Inv, TypeOK
    <3> QED
      BY <2>0, <2>2, <3>1 DEF Unexcused
  <2>3. CASE /\ refreshing[t] = "yes" /\ FetchAll({r})
             /\ UNCHANGED <<session, token, refreshing, silent, flights>>
    <3>1. session'
      BY <1>1, <2>3 DEF Unexcused
    <3>2. Again(ok', pc', tries')
      BY <1>1, <2>3, <3>1, FetchAllUnexcused
    <3> QED
      BY <2>0, <2>3, <3>2 DEF Unexcused
  <2> QED
    BY <2>0, <2>1, <2>2, <2>3 DEF TryRefresh, cookies
<1>5. ~RefusedAgain(r)
  BY <1>1 DEF RefusedAgain
<1> QED
  BY <1>2, <1>3, <1>4, <1>5

\* A refresh that ends well leaves its tab a session.
LEMMA SettleUnexcused ==
  ASSUME Inv, Unexcused, NEW t \in Tab, NEW F, Settle(t, TRUE, F), session', token' # "none",
         UNCHANGED <<sso, silent>>, \A f \in F: Good(f)
  PROVE  Unexcused'
<1>1. /\ refreshing' = [refreshing EXCEPT ![t] = "yes"]
      /\ FetchAll({r \in Calls(t) : pc[r] = "waiting"}) /\ flights' = F
  BY DEF Settle
<1> DEFINE R == {r \in Calls(t) : pc[r] = "waiting"}
<1>2. R \in SUBSET Req /\ FetchAll(R)
  BY <1>1 DEF Calls
<1> HIDE DEF R
<1>3. \A r \in Req: pc[r] = "sent" /\ tries[r] = 2 => ok[r] # "401"
  BY DEF Unexcused
<1>4. \A r \in Req: pc'[r] = "sent" /\ tries'[r] = 2 => ok'[r] # "401"
  BY <1>2, <1>3, FetchAllUnexcused
<1> QED
  BY <1>1, <1>4 DEF Unexcused

LEMMA AnswerUnexcused ==
  ASSUME Inv, Unexcused, excuse' = {}, NEW f \in flights, RefreshEnds(f) \/ KeptAlive(f)
  PROVE  Unexcused'
<1> DEFINE t == f.tab
           F == flights \ {f}
<1>1. /\ t \in Tab /\ f.answer \in {"issued", "failed"} /\ Good(f)
      /\ \A g \in F: Good(g)
  BY DEF Inv, TypeOK, Flight, Unexcused, Good
<1>2. Cookies(f) /\ sso' = sso
  BY DEF RefreshEnds, KeptAlive, idpVars
<1>3. (session => session') /\ token' # "none"
  BY <1>1, <1>2 DEF Cookies, Good, Unexcused
<1>4. CASE RefreshEnds(f)
  <2>1. f.answer = "issued"
    BY <1>1, <1>4 DEF RefreshEnds, Good
  <2>2. Settle(t, TRUE, F) /\ UNCHANGED silent /\ session'
    BY <1>2, <1>4, <2>1 DEF RefreshEnds, Cookies
  <2> HIDE DEF t, F
  <2> QED
    BY <1>1, <1>2, <1>3, <2>2, SettleUnexcused
<1>5. CASE KeptAlive(f)
  <2>1. UNCHANGED <<pc, ok, tries, refreshing, silent>> /\ flights' = F
    BY <1>5 DEF KeptAlive, callVars
  <2> QED
    BY <1>1, <1>2, <1>3, <2>1 DEF Unexcused
<1> QED
  BY <1>4, <1>5

LEMMA TabUnexcused ==
  ASSUME Inv, Unexcused, excuse = {}, excuse' = {}, NEW t \in Tab,
         \/ SilentRenews(t) \/ SilentEnds(t) \/ Forget(t)
         \/ Tick(t) \/ Asked(t) \/ SignIn(t)
  PROVE  Unexcused'
<1>1. \A f \in HandOut(flights): Good(f)
  BY HandOutUnexcused DEF Inv, TypeOK
<1>2. refreshing \in [Tab -> Promise]
  BY DEF Inv, TypeOK
<1>3. ~SilentRenews(t) /\ ~SilentEnds(t)
  BY DEF Unexcused, SilentRenews, SilentEnds
<1>4. CASE Forget(t)
  <2>1. UNCHANGED <<session, token, sso, pc, ok, tries, flights, silent>>
    BY <1>4 DEF Forget, cookies, idpVars, callVars
  <2>2. \A u \in Tab: refreshing'[u] = "yes" => refreshing[u] = "yes"
    BY <1>2, <1>4 DEF Forget
  <2> QED
    BY <2>1, <2>2 DEF Unexcused
<1>5. CASE Tick(t)
  BY <1>5 DEF Tick, cookies, idpVars, callVars, Unexcused
<1>6. CASE Asked(t)
  <2>1. UNCHANGED <<session, sso, pc, ok, tries, refreshing, silent>>
    BY <1>6 DEF Asked, idpVars, callVars
  <2>2. CASE Refresh(t, "keepalive")
    <3>1. token' # "none" /\ \A f \in flights': Good(f)
      BY <2>2, RefreshUnexcused
    <3> QED
      BY <2>1, <3>1 DEF Unexcused
  <2>3. CASE flights' = flights /\ token' = token
    BY <2>1, <2>3 DEF Unexcused
  <2> QED
    BY <1>6, <2>2, <2>3 DEF Asked
<1>7. CASE SignIn(t)
  <2>1. /\ session' = TRUE /\ token' = "last" /\ sso' = TRUE /\ flights' = HandOut(flights)
        /\ UNCHANGED <<pc, ok, tries, refreshing, silent>>
    BY <1>7 DEF SignIn, callVars
  <2> QED
    BY <1>1, <2>1 DEF Unexcused
<1> QED
  BY <1>3, <1>4, <1>5, <1>6, <1>7

LEMMA CauseNextOK == CauseInv /\ [Next]_vars => CauseInv'
<1> SUFFICES ASSUME CauseInv, [Next]_vars PROVE CauseInv'
  OBVIOUS
<1>1. Inv /\ Inv'
  BY NextOK DEF CauseInv
<1>2. ASSUME excuse' = {} PROVE Unexcused'
  <2>1. excuse = {} /\ Unexcused
    BY <1>2, ExcuseGrows DEF CauseInv
  <2>2. CASE UNCHANGED vars
    BY <2>1, <2>2 DEF vars, cookies, idpVars, callVars, Unexcused
  <2>3. ASSUME NEW r \in Req, Fetch(r) \/ Answered(r) \/ Refused(r) \/ RefusedAgain(r)
        PROVE  Unexcused'
    BY <1>1, <1>2, <2>1, <2>3, CallUnexcused
  <2>4. ASSUME NEW f \in flights, RefreshEnds(f) \/ KeptAlive(f) PROVE Unexcused'
    BY <1>1, <1>2, <2>1, <2>4, AnswerUnexcused
  <2>5. ASSUME NEW t \in Tab,
               \/ SilentRenews(t) \/ SilentEnds(t) \/ Forget(t)
             \/ Tick(t) \/ Asked(t) \/ SignIn(t)
        PROVE  Unexcused'
    BY <1>1, <1>2, <2>1, <2>5, TabUnexcused
  <2>6. CASE Expire
    <3>1. ~ \E t \in Tab: refreshing[t] = "yes"
      BY <1>2, <2>6 DEF Expire
    <3> QED
      BY <2>1, <2>6, <3>1 DEF Expire, idpVars, callVars, Unexcused
  <2>7. ~SignOutAtIdp
    BY <1>2 DEF SignOutAtIdp
  <2> QED
    BY <2>2, <2>3, <2>4, <2>5, <2>6, <2>7 DEF Next
<1> QED
  BY <1>1, <1>2 DEF CauseInv

\* A tab goes to the login page in two steps only: a call refused twice, and a
\* silent sign-in that failed.
LEMMA LeavingHasCause ==
  ASSUME CauseInv, [Next]_vars, NEW t \in Tab, page[t] = "app", page'[t] = "login"
  PROVE  excuse' # {}
<1> SUFFICES ASSUME excuse' = {} PROVE FALSE
  OBVIOUS
<1>1. Inv /\ Unexcused /\ excuse = {}
  BY ExcuseGrows DEF CauseInv
<1>2. page \in [Tab -> {"app", "login"}] /\ page' # page
  BY <1>1 DEF Inv, TypeOK
<1>3. ~UNCHANGED vars
  BY <1>2 DEF vars
<1>4. ASSUME NEW r \in Req, Fetch(r) \/ Answered(r) \/ Refused(r) \/ RefusedAgain(r)
      PROVE  FALSE
  <2>1. ~RefusedAgain(r)
    BY <1>1 DEF RefusedAgain, Unexcused
  <2> QED
    BY <1>2, <1>4, <2>1 DEF Fetch, Answered, Refused, TryRefresh
<1>5. ASSUME NEW f \in flights, RefreshEnds(f) \/ KeptAlive(f) PROVE FALSE
  BY <1>2, <1>5 DEF RefreshEnds, Settle, KeptAlive
<1>6. ASSUME NEW u \in Tab, SilentRenews(u) \/ SilentEnds(u) PROVE FALSE
  BY <1>1, <1>6 DEF SilentRenews, SilentEnds, Unexcused
<1>7. ASSUME NEW u \in Tab, Forget(u) \/ Tick(u) \/ Asked(u) PROVE FALSE
  BY <1>2, <1>7 DEF Forget, Tick, Asked
<1>8. ASSUME NEW u \in Tab, SignIn(u) PROVE FALSE
  <2>1. page' = [page EXCEPT ![u] = "app"]
    BY <1>8 DEF SignIn
  <2> QED
    BY <1>2, <2>1
<1>9. CASE Expire \/ SignOutAtIdp
  BY <1>2, <1>9 DEF Expire, SignOutAtIdp
<1> QED
  BY <1>3, <1>4, <1>5, <1>6, <1>7, <1>8, <1>9 DEF Next

\* A tab is sent to the login page only if the user's session at the IdP ended, a
\* session expired right after it was renewed, or the tab's refresh could not be made
\* or used a token that somebody else had used up.
THEOREM SentForCause == Spec => SentToLoginForCause
<1>1. CauseInv /\ [Next]_vars =>
        [\A t \in Tab: page[t] = "app" /\ page'[t] = "login" => excuse' # {}]_vars
  BY LeavingHasCause
<1>2. Spec => []CauseInv
  BY CauseInitOK, CauseNextOK, PTL DEF Spec
<1>3. Spec => [][Next]_vars
  BY PTL DEF Spec
<1> QED
  BY <1>1, <1>2, <1>3, PTL DEF SentToLoginForCause

----------------------------------------------------------------------------
(***************************************************************************)
(* A list that is fresh was read after all of the page's writes it was     *)
(* told of, and nothing has been changed ahead in it.  What has been read  *)
(* and not shown yet is fresh: an answer that tells of a write starts the  *)
(* fetch again.  A page whose fetch has ended well shows a fresh list, or  *)
(* has changed it for a request whose end will have it read again.         *)
(***************************************************************************)
Fresh(list) == list.loaded /\ list.ahead = {} /\ list.at >= kbAcked
Due == kbPut.at # "idle" \/ kbDelete.at # "idle" \/ kbBulk.at # "idle"

EditorState == [sel: KbKey \cup {None}, key: KbKey \cup {None},
                base: 0..KbMaxRev, decoded: KbKey \cup {None}]

StoreOK == kbStore \in [KbKey -> 0..KbMaxRev] /\ kbRev \in 0..KbMaxRev
ListOK == kbList \in List
ReadOK ==
  /\ kbFetch.at \in {"none", "sent", "read"} /\ kbFetch.list \in List
  /\ kbFetch.at = "read" => Fresh(kbFetch.list)
RestOK ==
  /\ kbFailed \in BOOLEAN
  /\ kbFetch.at = "none" /\ ~kbFailed => Fresh(kbList) \/ Due
\* The draft is about the selected key while that key has a row.
EditorOK ==
  /\ kbEditor \in EditorState
  /\ kbEditor.sel # None /\ kbList.rows[kbEditor.sel] # NoRow => kbEditor.key = kbEditor.sel
\* What is answered tells of a revision the store has reached.
RequestOK(q) == q \in Request /\ (q.at = "ok" => q.base <= kbRev)
RequestsOK ==
  /\ RequestOK(kbPut) /\ RequestOK(kbK8s) /\ RequestOK(kbDelete) /\ RequestOK(kbBulk)
  /\ kbSent \in 0..KbMaxRequests
AckedOK == kbAcked \in 0..KbMaxRev /\ kbAcked <= kbRev

BrowserInv ==
  StoreOK /\ ListOK /\ ReadOK /\ RestOK /\ EditorOK /\ RequestsOK /\ AckedOK

LEMMA InvParts ==
  ASSUME BrowserInv
  PROVE  StoreOK /\ ListOK /\ ReadOK /\ RestOK /\ EditorOK /\ RequestsOK /\ AckedOK
BY DEF BrowserInv

LEMMA InvNext ==
  ASSUME StoreOK', ListOK', ReadOK', RestOK', EditorOK', RequestsOK', AckedOK'
  PROVE  BrowserInv'
BY DEF BrowserInv

----------------------------------------------------------------------------
(***************************************************************************)
(* Types.                                                                  *)
(***************************************************************************)
LEMMA Bounds ==
  /\ KbMaxRev \in Nat /\ 0 \in 0..KbMaxRev /\ 1 \in 0..KbMaxRev
  /\ NoRow \in NoRow..KbMaxRev /\ 0 \in NoRow..KbMaxRev
  /\ \A n \in 0..KbMaxRev: n \in NoRow..KbMaxRev
  /\ \A n \in NoRow..KbMaxRev: n # NoRow => n \in 0..KbMaxRev
  /\ 0 \in 0..KbMaxRequests
BY KeyBrowserAssumption DEF NoRow

LEMMA NextRev ==
  ASSUME NEW r \in 0..KbMaxRev, r < KbMaxRev
  PROVE  r + 1 \in 0..KbMaxRev /\ r <= r + 1
BY KeyBrowserAssumption

LEMMA NextSent ==
  ASSUME NEW n \in 0..KbMaxRequests, n < KbMaxRequests
  PROVE  n + 1 \in 0..KbMaxRequests
BY KeyBrowserAssumption

LEMMA NoListOK == NoList \in List /\ \A k \in KbKey: NoList.rows[k] = NoRow
<1>1. [k \in KbKey |-> NoRow] \in [KbKey -> NoRow..KbMaxRev]
  BY Bounds
<1> QED
  BY <1>1, Bounds DEF NoList, List

LEMMA FetchValues ==
  /\ NoFetch.at = "none" /\ NoFetch.list \in List
  /\ Fetching.at = "sent" /\ Fetching.list \in List
BY NoListOK DEF NoFetch, Fetching

LEMMA IdleOK == Idle \in Request /\ Idle.at = "idle"
<1>1. Idle.snap \in List
  BY NoListOK DEF Idle
<1> QED
  BY <1>1, Bounds DEF Idle, Request

LEMMA NoEditorOK == NoEditor \in EditorState /\ NoEditor.sel = None
BY Bounds DEF NoEditor, EditorState

LEMMA ListFields ==
  ASSUME NEW list \in List
  PROVE  /\ list.rows \in [KbKey -> NoRow..KbMaxRev] /\ list.loaded \in BOOLEAN
         /\ list.at \in 0..KbMaxRev /\ list.ahead \subseteq KbKey
BY DEF List

LEMMA RequestFields ==
  ASSUME NEW q \in Request
  PROVE  /\ q.keys \subseteq KbKey /\ q.base \in 0..KbMaxRev /\ q.snap \in List
         /\ q.at \in {"idle", "sent", "ok", "conflict", "error"}
BY DEF Request

LEMMA EditorFields ==
  ASSUME NEW ed \in EditorState
  PROVE  /\ ed.sel \in KbKey \cup {None} /\ ed.key \in KbKey \cup {None}
         /\ ed.base \in 0..KbMaxRev /\ ed.decoded \in KbKey \cup {None}
BY DEF EditorState

LEMMA RowFields ==
  ASSUME ListOK, NEW k
  PROVE  Row(k) # NoRow => k \in KbKey /\ Row(k) \in 0..KbMaxRev /\ Row(k) = kbList.rows[k]
BY Bounds, ListFields DEF Row, ListOK

\* The effect leaves a draft that is about the selected key, if that has a row.
LEMMA FollowOK ==
  ASSUME NEW list \in List, NEW ed \in EditorState, NEW e, e = Follow(list, ed)
  PROVE  /\ e \in EditorState
         /\ e.sel # None /\ list.rows[e.sel] # NoRow => e.key = e.sel
<1>1. CASE ed.sel # None /\ ed.key # ed.sel /\ list.rows[ed.sel] # NoRow
  <2>1. e = [ed EXCEPT !.key = ed.sel, !.base = list.rows[ed.sel], !.decoded = None]
    BY <1>1 DEF Follow
  <2>2. ed.sel \in KbKey /\ list.rows[ed.sel] \in 0..KbMaxRev
    BY <1>1, EditorFields, ListFields, Bounds
  <2>3. e \in EditorState
    BY <2>1, <2>2 DEF EditorState
  <2>4. e.key = e.sel
    BY <2>1 DEF EditorState
  <2> QED
    BY <2>3, <2>4
<1>2. CASE ~(ed.sel # None /\ ed.key # ed.sel /\ list.rows[ed.sel] # NoRow)
  BY <1>2 DEF Follow
<1> QED
  BY <1>1, <1>2

LEMMA ShownOK ==
  ASSUME NEW list \in List, NEW ed \in EditorState,
         kbList' = list, kbEditor' = Follow(list, ed)
  PROVE  ListOK' /\ EditorOK'
<1>1. PICK e: e = Follow(list, ed)
  OBVIOUS
<1>2. /\ e \in EditorState
      /\ e.sel # None /\ list.rows[e.sel] # NoRow => e.key = e.sel
  BY <1>1, FollowOK
<1>3. kbEditor' = e
  BY <1>1
<1> QED
  BY <1>2, <1>3 DEF ListOK, EditorOK

----------------------------------------------------------------------------
(***************************************************************************)
(* Steps that leave parts of the page alone.                               *)
(***************************************************************************)
LEMMA ServerSame ==
  ASSUME BrowserInv, UNCHANGED <<kbServer, kbAcked>>
  PROVE  StoreOK' /\ AckedOK' /\ kbRev' = kbRev
BY InvParts DEF StoreOK, AckedOK, kbServer

LEMMA RequestsSame ==
  ASSUME BrowserInv, UNCHANGED kbRequests, kbRev' = kbRev
  PROVE  RequestsOK' /\ (Due <=> Due')
BY InvParts DEF RequestsOK, RequestOK, kbRequests, Due

LEMMA ViewSame ==
  ASSUME BrowserInv, UNCHANGED <<kbList, kbEditor>>
  PROVE  ListOK' /\ EditorOK'
BY InvParts DEF ListOK, EditorOK

LEMMA FetchSame ==
  ASSUME BrowserInv, UNCHANGED <<kbFetch, kbFailed, kbAcked>>
  PROVE  ReadOK' /\ (UNCHANGED kbList /\ (Due => Due') => RestOK')
<1>1. ReadOK'
  BY InvParts DEF ReadOK, Fresh
<1>2. UNCHANGED kbList /\ (Due => Due') => RestOK'
  BY InvParts DEF RestOK, Fresh
<1> QED
  BY <1>1, <1>2

\* A fetch that has begun anew, and none.
LEMMA FetchBegins ==
  ASSUME kbFetch' = Fetching, kbFailed' \in BOOLEAN
  PROVE  ReadOK' /\ RestOK'
BY FetchValues DEF ReadOK, RestOK

LEMMA BrowserInitOK == KeyBrowserInit => BrowserInv
<1> SUFFICES ASSUME KeyBrowserInit PROVE BrowserInv
  OBVIOUS
<1>1. StoreOK
  BY Bounds DEF KeyBrowserInit, StoreOK
<1>2. ListOK /\ EditorOK
  BY NoListOK, NoEditorOK DEF KeyBrowserInit, ListOK, EditorOK
<1>3. ReadOK /\ RestOK
  BY FetchValues DEF KeyBrowserInit, ReadOK, RestOK
<1>4. RequestsOK
  BY IdleOK, Bounds DEF KeyBrowserInit, RequestsOK, RequestOK
<1>5. AckedOK
  BY Bounds DEF KeyBrowserInit, AckedOK
<1> QED
  BY <1>1, <1>2, <1>3, <1>4, <1>5 DEF BrowserInv
----------------------------------------------------------------------------
(***************************************************************************)
(* The list and the editor.                                                *)
(***************************************************************************)
LEMMA PollsOK == BrowserInv /\ (Refetch \/ RangeRead \/ FetchFails) => BrowserInv'
<1> SUFFICES ASSUME BrowserInv, Refetch \/ RangeRead \/ FetchFails PROVE BrowserInv'
  OBVIOUS
<1>1. /\ UNCHANGED <<kbServer, kbAcked, kbList, kbEditor>> /\ UNCHANGED kbRequests
  BY DEF Refetch, RangeRead, FetchFails
<1>2. StoreOK' /\ AckedOK' /\ ListOK' /\ EditorOK' /\ RequestsOK'
  BY <1>1, ServerSame, ViewSame, RequestsSame
<1>3. CASE Refetch
  <2>1. ReadOK' /\ RestOK'
    BY <1>3, FetchBegins, InvParts DEF Refetch, RestOK
  <2> QED
    BY <1>2, <2>1, InvNext
<1>4. CASE RangeRead
  <2> DEFINE rows == [k \in KbKey |-> IF kbStore[k] = 0 THEN NoRow ELSE kbStore[k]]
             list == [loaded |-> TRUE, at |-> kbRev, ahead |-> {}, rows |-> rows]
  <2>1. kbFetch' = [at |-> "read", list |-> list] /\ UNCHANGED kbFailed
    BY <1>4 DEF RangeRead
  <2>2. rows \in [KbKey -> NoRow..KbMaxRev]
    <3>1. \A k \in KbKey: kbStore[k] \in NoRow..KbMaxRev
      BY InvParts, Bounds DEF StoreOK
    <3> QED
      BY <3>1, Bounds
  <2>3. list \in List
    <3> HIDE DEF rows
    <3> QED
      BY <2>2, InvParts DEF List, StoreOK
  <2>4. list.loaded /\ list.ahead = {} /\ list.at >= kbAcked'
    BY <1>1, InvParts DEF AckedOK, StoreOK
  <2> HIDE DEF list
  <2>5. ReadOK'
    BY <2>1, <2>3, <2>4 DEF ReadOK, Fresh
  <2>6. RestOK'
    BY <2>1, InvParts DEF RestOK
  <2> QED
    BY <1>2, <2>5, <2>6, InvNext
<1>5. CASE FetchFails
  <2>1. ReadOK' /\ RestOK'
    BY <1>5, FetchValues DEF FetchFails, ReadOK, RestOK
  <2> QED
    BY <1>2, <2>1, InvNext
<1> QED
  BY <1>3, <1>4, <1>5

LEMMA FetchedOK == BrowserInv /\ Fetched => BrowserInv'
<1> SUFFICES ASSUME BrowserInv, Fetched PROVE BrowserInv'
  OBVIOUS
<1>1. /\ kbFetch.at = "read" /\ kbFetch' = NoFetch /\ kbFailed' = FALSE
      /\ kbList' = kbFetch.list /\ kbEditor' = Follow(kbFetch.list, kbEditor)
      /\ UNCHANGED <<kbServer, kbAcked>> /\ UNCHANGED kbRequests
  BY DEF Fetched, Shows
<1>2. StoreOK' /\ AckedOK' /\ RequestsOK'
  BY <1>1, ServerSame, RequestsSame
<1>3. kbFetch.list \in List /\ Fresh(kbFetch.list) /\ kbEditor \in EditorState
  BY <1>1, InvParts DEF ReadOK, EditorOK
<1>4. ListOK' /\ EditorOK'
  BY <1>1, <1>3, ShownOK
<1>5. ReadOK' /\ RestOK'
  BY <1>1, <1>3, FetchValues DEF ReadOK, RestOK, Fresh
<1> QED
  BY <1>2, <1>4, <1>5, InvNext

LEMMA OtherQueryOK == BrowserInv /\ OtherQuery => BrowserInv'
<1> SUFFICES ASSUME BrowserInv, OtherQuery PROVE BrowserInv'
  OBVIOUS
<1>1. /\ kbList' = NoList /\ kbFetch' = Fetching /\ kbFailed' = FALSE
      /\ UNCHANGED <<kbServer, kbAcked>> /\ UNCHANGED kbRequests /\ kbEditor' = kbEditor
  BY DEF OtherQuery
<1>2. StoreOK' /\ AckedOK' /\ RequestsOK'
  BY <1>1, ServerSame, RequestsSame
<1>3. ReadOK' /\ RestOK'
  BY <1>1, FetchBegins
<1>4. ListOK' /\ EditorOK'
  <2>1. kbEditor \in EditorState
    BY InvParts DEF EditorOK
  <2>2. kbEditor.sel # None => NoList.rows[kbEditor.sel] = NoRow
    BY <2>1, EditorFields, NoListOK
  <2> QED
    BY <1>1, <2>1, <2>2, NoListOK DEF ListOK, EditorOK
<1> QED
  BY <1>2, <1>3, <1>4, InvNext

\* A change of the editor alone.
LEMMA EditsOK ==
  ASSUME BrowserInv, NEW ed \in EditorState, Edits(ed),
         ed.sel # None /\ kbList.rows[ed.sel] # NoRow => ed.key = ed.sel
  PROVE  BrowserInv'
<1>1. /\ kbEditor' = ed /\ UNCHANGED <<kbServer, kbAcked>> /\ UNCHANGED kbRequests
      /\ UNCHANGED <<kbFetch, kbFailed, kbAcked>> /\ kbList' = kbList
  BY DEF Edits
<1>2. StoreOK' /\ AckedOK' /\ RequestsOK' /\ (Due <=> Due')
  BY <1>1, ServerSame, RequestsSame
<1>3. ReadOK' /\ RestOK'
  BY <1>1, <1>2, FetchSame
<1>4. ListOK' /\ EditorOK'
  BY <1>1, InvParts DEF ListOK, EditorOK
<1> QED
  BY <1>2, <1>3, <1>4, InvNext

LEMMA EditorStepsOK ==
  ASSUME BrowserInv,
         \/ \E k \in KbKey: SelectRow(k) \/ NewDraft(k) \/ Rename(k)
         \/ EditDecoded \/ Reload \/ CancelNew
  PROVE  BrowserInv'
<1>1. /\ kbEditor \in EditorState /\ ListOK /\ kbList \in List
      /\ kbEditor.sel # None /\ kbList.rows[kbEditor.sel] # NoRow => kbEditor.key = kbEditor.sel
  BY InvParts DEF EditorOK, ListOK
<1>2. ASSUME NEW k \in KbKey, SelectRow(k) PROVE BrowserInv'
  <2>1. PICK ed: ed = [kbEditor EXCEPT !.sel = k, !.key = k, !.base = Row(k)]
    OBVIOUS
  <2>2. Row(k) \in 0..KbMaxRev
    BY <1>1, <1>2, RowFields DEF SelectRow
  <2>3. ed \in EditorState /\ ed.key = ed.sel
    BY <1>1, <2>1, <2>2 DEF EditorState
  <2> QED
    BY <1>2, <2>1, <2>3, EditsOK DEF SelectRow
<1>3. ASSUME NEW from \in EditorState, Edits(Follow(kbList, from)) PROVE BrowserInv'
  <2>1. PICK ed: ed = Follow(kbList, from)
    OBVIOUS
  <2>2. ed \in EditorState /\ (ed.sel # None /\ kbList.rows[ed.sel] # NoRow => ed.key = ed.sel)
    BY <1>1, <2>1, FollowOK
  <2> QED
    BY <1>3, <2>1, <2>2, EditsOK
<1>4. ASSUME NEW k \in KbKey, NewDraft(k) \/ Rename(k) PROVE BrowserInv'
  <2>1. [kbEditor EXCEPT !.sel = k, !.key = k] \in EditorState
    BY <1>1 DEF EditorState
  <2>2. [kbEditor EXCEPT !.key = k] \in EditorState
    BY <1>1 DEF EditorState
  <2> QED
    BY <1>3, <1>4, <2>1, <2>2 DEF NewDraft, Rename
<1>5. CASE EditDecoded
  <2>1. PICK ed: ed = [kbEditor EXCEPT !.decoded = kbEditor.sel]
    OBVIOUS
  <2>2. ed \in EditorState /\ ed.sel = kbEditor.sel /\ ed.key = kbEditor.key
    BY <1>1, <2>1 DEF EditorState
  <2> QED
    BY <1>1, <1>5, <2>1, <2>2, EditsOK DEF EditDecoded
<1>6. CASE Reload
  <2>1. PICK ed: ed = [kbEditor EXCEPT !.key = kbEditor.sel, !.base = Row(kbEditor.sel)]
    OBVIOUS
  <2>2. Row(kbEditor.sel) \in 0..KbMaxRev
    BY <1>1, <1>6, RowFields DEF Reload, StaleBase
  <2>3. ed \in EditorState /\ ed.key = ed.sel
    BY <1>1, <2>1, <2>2 DEF EditorState
  <2> QED
    BY <1>6, <2>1, <2>3, EditsOK DEF Reload
<1>7. CASE CancelNew
  <2>1. PICK ed: ed = [kbEditor EXCEPT !.sel = None, !.key = None]
    OBVIOUS
  <2>2. ed \in EditorState /\ ed.sel = None
    BY <1>1, <2>1 DEF EditorState
  <2> QED
    BY <1>7, <2>1, <2>2, EditsOK DEF CancelNew
<1> QED
  BY <1>2, <1>4, <1>5, <1>6, <1>7

----------------------------------------------------------------------------
(***************************************************************************)
(* Requests.                                                               *)
(***************************************************************************)
LEMMA SendOK ==
  ASSUME BrowserInv, NEW K \in SUBSET KbKey, NEW b \in 0..KbMaxRev, NEW q, q = Send(K, b)
  PROVE  q \in Request /\ q.at = "sent" /\ [q EXCEPT !.snap = NoList] \in Request
         /\ [q EXCEPT !.snap = NoList].at = "sent"
<1>1. kbList \in List
  BY InvParts DEF ListOK
<1>2. q = [at |-> "sent", keys |-> K, base |-> b, snap |-> kbList]
  BY DEF Send
<1>3. q \in Request /\ q.at = "sent"
  BY <1>1, <1>2 DEF Request
<1>4. [q EXCEPT !.snap = NoList] \in Request /\ [q EXCEPT !.snap = NoList].at = "sent"
  BY <1>3, NoListOK DEF Request
<1> QED
  BY <1>3, <1>4

LEMMA CountsOK == BrowserInv /\ Counts => kbSent' \in 0..KbMaxRequests
BY InvParts, NextSent DEF Counts, RequestsOK

\* A request that changes the list ahead of its answer is due to have it read.
LEMMA AheadOK ==
  ASSUME BrowserInv, NEW rows \in [KbKey -> NoRow..KbMaxRev], NEW K \in SUBSET KbKey,
         Ahead(rows, K), UNCHANGED <<kbServer, kbAcked>>, UNCHANGED kbFailed,
         RequestsOK', Due'
  PROVE  BrowserInv'
<1>1. StoreOK' /\ AckedOK'
  BY ServerSame
<1>2. ReadOK' /\ RestOK'
  BY FetchValues, InvParts DEF Ahead, ReadOK, RestOK
<1>3. CASE kbList.loaded
  <2>1. PICK list: list = [kbList EXCEPT !.rows = rows, !.ahead = kbList.ahead \cup K]
    OBVIOUS
  <2>2. list \in List
    BY <2>1, InvParts DEF ListOK, List
  <2>3. kbList' = list /\ kbEditor' = Follow(list, kbEditor)
    BY <1>3, <2>1 DEF Ahead, Shows
  <2>4. ListOK' /\ EditorOK'
    BY <2>2, <2>3, ShownOK, InvParts DEF EditorOK
  <2> QED
    BY <1>1, <1>2, <2>4, InvNext
<1>4. CASE ~kbList.loaded
  <2>1. ListOK' /\ EditorOK'
    BY <1>4, ViewSame DEF Ahead
  <2> QED
    BY <1>1, <1>2, <2>1, InvNext
<1> QED
  BY <1>3, <1>4

LEMMA WithoutOK == ASSUME BrowserInv, NEW K PROVE Without(K) \in [KbKey -> NoRow..KbMaxRev]
BY InvParts, ListFields, Bounds DEF Without, ListOK

LEMMA PutK8sOK == BrowserInv /\ PutK8s => BrowserInv'
<1> SUFFICES ASSUME BrowserInv, PutK8s PROVE BrowserInv'
  OBVIOUS
<1>1. /\ UNCHANGED <<kbServer, kbAcked>> /\ UNCHANGED <<kbList, kbEditor>>
      /\ UNCHANGED <<kbFetch, kbFailed, kbAcked>> /\ UNCHANGED <<kbPut, kbDelete, kbBulk>>
      /\ Counts /\ kbEditor.key # None
      /\ kbK8s' = [Send({kbEditor.key}, kbEditor.base) EXCEPT !.snap = NoList]
  BY DEF PutK8s
<1>2. {kbEditor.key} \in SUBSET KbKey /\ kbEditor.base \in 0..KbMaxRev
  BY <1>1, InvParts, EditorFields DEF EditorOK
<1>3. kbK8s' \in Request /\ kbK8s'.at = "sent"
  BY <1>1, <1>2, SendOK
<1>4. StoreOK' /\ AckedOK' /\ kbRev' = kbRev /\ ListOK' /\ EditorOK'
  BY <1>1, ServerSame, ViewSame
<1>5. RequestsOK'
  BY <1>1, <1>3, <1>4, CountsOK, InvParts DEF RequestsOK, RequestOK
<1>6. ReadOK' /\ RestOK'
  <2>1. Due => Due'
    BY <1>1 DEF Due
  <2> QED
    BY <1>1, <2>1, FetchSame
<1> QED
  BY <1>4, <1>5, <1>6, InvNext

LEMMA PutCASOK == BrowserInv /\ PutCAS => BrowserInv'
<1> SUFFICES ASSUME BrowserInv, PutCAS PROVE BrowserInv'
  OBVIOUS
<1>1. PICK k: k = kbEditor.key
  OBVIOUS
<1>2. PICK rows: rows = [kbList.rows EXCEPT ![k] = IF @ = NoRow THEN 0 ELSE @]
  OBVIOUS
<1>3. /\ k # None /\ Counts /\ kbPut' = Send({k}, kbEditor.base) /\ Ahead(rows, {k})
      /\ UNCHANGED <<kbServer, kbAcked>> /\ UNCHANGED kbFailed
      /\ UNCHANGED <<kbK8s, kbDelete, kbBulk>>
  BY <1>1, <1>2 DEF PutCAS
<1>4. k \in KbKey /\ kbEditor.base \in 0..KbMaxRev
  BY <1>1, <1>3, InvParts, EditorFields DEF EditorOK
<1>5. rows \in [KbKey -> NoRow..KbMaxRev]
  BY <1>2, InvParts, ListFields, Bounds DEF ListOK
<1>6. {k} \in SUBSET KbKey
  BY <1>4
<1>7. kbPut' \in Request /\ kbPut'.at = "sent"
  BY <1>3, <1>4, <1>6, SendOK
<1>8. RequestsOK' /\ Due'
  BY <1>3, <1>7, CountsOK, ServerSame, InvParts DEF RequestsOK, RequestOK, Due
<1> QED
  BY <1>3, <1>5, <1>6, <1>8, AheadOK

LEMMA DeletesOK ==
  ASSUME BrowserInv, NEW K \in SUBSET KbKey, BulkDelete(K) \/ \E k \in KbKey: K = {k} /\ DeleteKey(k)
  PROVE  BrowserInv'
<1>1. /\ Counts /\ Ahead(Without(K), K) /\ UNCHANGED <<kbServer, kbAcked>> /\ UNCHANGED kbFailed
      /\ UNCHANGED <<kbPut, kbK8s>>
      /\ \/ kbBulk' = Send(K, 0) /\ UNCHANGED kbDelete
         \/ kbDelete' = Send(K, 0) /\ UNCHANGED kbBulk
  BY DEF BulkDelete, DeleteKey
<1>2. PICK q: q = Send(K, 0)
  OBVIOUS
<1>3. q \in Request /\ q.at = "sent"
  BY <1>2, Bounds, SendOK
<1>4. RequestsOK' /\ Due'
  BY <1>1, <1>2, <1>3, CountsOK, ServerSame, InvParts DEF RequestsOK, RequestOK, Due
<1> QED
  BY <1>1, <1>4, WithoutOK, AheadOK

LEMMA MountedOK == BrowserInv /\ PutConflicts => BrowserInv'
<1> SUFFICES ASSUME BrowserInv, PutConflicts PROVE BrowserInv'
  OBVIOUS
<1>1. /\ kbList' = NoList /\ kbFetch' = Fetching /\ kbFailed' = FALSE /\ kbEditor' = NoEditor
      /\ kbPut' = Idle /\ kbK8s' = Idle /\ kbDelete' = Idle /\ kbBulk' = Idle
      /\ UNCHANGED <<kbServer, kbAcked>> /\ kbSent' = kbSent
  BY DEF PutConflicts, Mounted
<1>2. StoreOK' /\ AckedOK'
  BY <1>1, ServerSame
<1>3. ReadOK' /\ RestOK'
  BY <1>1, FetchBegins
<1>4. ListOK' /\ EditorOK'
  BY <1>1, NoListOK, NoEditorOK DEF ListOK, EditorOK
<1>5. RequestsOK'
  BY <1>1, IdleOK, InvParts DEF RequestsOK, RequestOK
<1> QED
  BY <1>2, <1>3, <1>4, <1>5, InvNext
----------------------------------------------------------------------------
(***************************************************************************)
(* The service, and its answers.                                           *)
(***************************************************************************)
ServerMoves == StoreOK' /\ kbRev <= kbRev'

LEMMA WritesMove == ASSUME BrowserInv, NEW k \in KbKey, Writes(k) PROVE ServerMoves
<1>1. PICK r: r = kbRev + 1
  OBVIOUS
<1>2. r \in 0..KbMaxRev /\ kbRev <= r
  BY <1>1, InvParts, NextRev DEF Writes, StoreOK
<1>3. kbRev' = r /\ kbStore' = [kbStore EXCEPT ![k] = r]
  BY <1>1 DEF Writes
<1> QED
  BY <1>2, <1>3, InvParts DEF ServerMoves, StoreOK

LEMMA ServerRests == BrowserInv /\ UNCHANGED kbServer => ServerMoves
BY InvParts DEF kbServer, ServerMoves, StoreOK

LEMMA DeletesMove == ASSUME BrowserInv, NEW K, Deletes(K) PROVE ServerMoves
<1>1. CASE UNCHANGED kbServer
  BY <1>1, ServerRests
<1>2. CASE /\ kbRev < KbMaxRev /\ kbRev' = kbRev + 1
           /\ kbStore' = [k \in KbKey |-> IF k \in K THEN 0 ELSE kbStore[k]]
  <2>1. PICK r: r = kbRev + 1
    OBVIOUS
  <2>2. r \in 0..KbMaxRev /\ kbRev <= r /\ kbRev' = r
    BY <1>2, <2>1, InvParts, NextRev DEF StoreOK
  <2>3. kbStore' \in [KbKey -> 0..KbMaxRev]
    BY <1>2, InvParts, Bounds DEF StoreOK
  <2> QED
    BY <2>2, <2>3 DEF ServerMoves, StoreOK
<1> QED
  BY <1>1, <1>2 DEF Deletes

\* What is left of a request tells of the revision the store is at.
LEMMA ReplyOK ==
  ASSUME NEW q \in Request, NEW outcome \in {"ok", "conflict", "error"}, StoreOK',
         NEW r, r = Reply(q, outcome)
  PROVE  r \in Request /\ r.at = outcome /\ (r.at = "ok" => r.base = kbRev')
<1>1. PICK n \in 0..KbMaxRev: n = kbRev'
  BY DEF StoreOK
<1>2. CASE outcome = "error"
  <2>1. r = [q EXCEPT !.at = "error", !.keys = {}, !.base = 0]
    BY <1>2 DEF Reply
  <2> QED
    BY <1>2, <2>1, Bounds DEF Request
<1>3. CASE outcome # "error"
  <2>1. r = [Idle EXCEPT !.at = outcome, !.base = n]
    BY <1>1, <1>3 DEF Reply
  <2>2. r \in Request /\ r.at = outcome /\ r.base = n
    BY <2>1, IdleOK DEF Request
  <2> QED
    BY <1>1, <2>2
<1> QED
  BY <1>2, <1>3

LEMMA RequestStays == ASSUME NEW q, RequestOK(q), ServerMoves, StoreOK PROVE
  q \in Request /\ (q.at = "ok" => q.base <= kbRev')
BY RequestFields DEF RequestOK, ServerMoves, StoreOK

LEMMA AckedStays == ASSUME BrowserInv, ServerMoves, UNCHANGED kbAcked PROVE AckedOK'
BY InvParts DEF AckedOK, ServerMoves, StoreOK

LEMMA ServeOK == BrowserInv /\ Serve => BrowserInv'
<1> SUFFICES ASSUME BrowserInv, Serve PROVE BrowserInv'
  OBVIOUS
<1>1. /\ RequestOK(kbPut) /\ RequestOK(kbK8s) /\ RequestOK(kbDelete) /\ RequestOK(kbBulk)
      /\ StoreOK /\ kbSent \in 0..KbMaxRequests
  BY InvParts DEF RequestsOK
<1>2. PICK outcome \in {"ok", "conflict", "error"}:
        \/ /\ kbPut.at = "sent" /\ SavesCAS(kbPut, outcome) /\ kbPut' = Reply(kbPut, outcome)
           /\ UNCHANGED <<kbK8s, kbDelete, kbBulk>>
        \/ /\ kbK8s.at = "sent" /\ SavesK8s(kbK8s, outcome) /\ kbK8s' = Reply(kbK8s, outcome)
           /\ UNCHANGED <<kbPut, kbDelete, kbBulk>>
        \/ /\ kbDelete.at = "sent" /\ Removes(kbDelete, outcome)
           /\ kbDelete' = Reply(kbDelete, outcome)
           /\ UNCHANGED <<kbPut, kbK8s, kbBulk>>
        \/ /\ kbBulk.at = "sent" /\ Removes(kbBulk, outcome)
           /\ kbBulk' = Reply(kbBulk, outcome)
           /\ UNCHANGED <<kbPut, kbK8s, kbDelete>>
  BY DEF Serve
<1>3. UNCHANGED <<kbList, kbEditor>> /\ UNCHANGED <<kbFetch, kbFailed, kbAcked>>
      /\ UNCHANGED <<kbSent, kbAcked>>
  BY DEF Serve
<1>4. ServerMoves
  <2>1. ASSUME NEW q \in Request, SavesCAS(q, outcome) \/ SavesK8s(q, outcome) PROVE ServerMoves
    BY <2>1, WritesMove, ServerRests, RequestFields DEF SavesCAS, SavesK8s
  <2>2. ASSUME NEW q, Removes(q, outcome) PROVE ServerMoves
    BY <2>2, DeletesMove, ServerRests DEF Removes
  <2> QED
    BY <1>1, <1>2, <2>1, <2>2 DEF RequestOK
<1>5. StoreOK' /\ AckedOK'
  BY <1>3, <1>4, AckedStays DEF ServerMoves
<1>6. kbRev' \in 0..KbMaxRev
  BY <1>5 DEF StoreOK
<1>7. ASSUME NEW q, RequestOK(q), NEW r, r = Reply(q, outcome)
      PROVE  r \in Request /\ r.at = outcome /\ (r.at = "ok" => r.base <= kbRev')
  <2>1. r \in Request /\ r.at = outcome /\ (r.at = "ok" => r.base = kbRev')
    BY <1>2, <1>5, <1>7, ReplyOK DEF RequestOK
  <2> QED
    BY <1>6, <2>1
<1>8. ASSUME NEW q, RequestOK(q) PROVE q \in Request /\ (q.at = "ok" => q.base <= kbRev')
  BY <1>1, <1>4, <1>8, RequestStays
<1>9. RequestsOK' /\ (Due => Due')
  <2>1. ASSUME NEW q, RequestOK(q), NEW r, r = Reply(q, outcome) PROVE r.at # "idle"
    BY <1>2, <1>7, <2>1
  <2>2. Due => Due'
    BY <1>1, <1>2, <2>1 DEF Due
  <2>3. RequestsOK'
    BY <1>1, <1>2, <1>3, <1>7, <1>8 DEF RequestsOK, RequestOK
  <2> QED
    BY <2>2, <2>3
<1>10. ListOK' /\ EditorOK' /\ ReadOK' /\ RestOK'
  BY <1>3, <1>9, ViewSame, FetchSame
<1> QED
  BY <1>5, <1>9, <1>10, InvNext

LEMMA AcknowledgeOK ==
  ASSUME BrowserInv, NEW q, RequestOK(q), Acknowledge(q), UNCHANGED kbServer
  PROVE  StoreOK' /\ AckedOK' /\ kbRev' = kbRev
         /\ (kbAcked' # kbAcked => q.at = "ok" /\ kbList.loaded)
<1>1. StoreOK' /\ kbRev' = kbRev
  BY InvParts DEF kbServer, StoreOK
<1>2. AckedOK'
  BY <1>1, InvParts, RequestFields DEF RequestOK, Acknowledge, AckedOK
<1> QED
  BY <1>1, <1>2 DEF Acknowledge

LEMMA InvalidateOK ==
  ASSUME BrowserInv, NEW list, Invalidate(list), kbAcked' # kbAcked => list.loaded
  PROVE  ReadOK' /\ RestOK'
<1>1. /\ kbFailed' = FALSE
      /\ \/ kbFetch' = Fetching
         \/ kbFetch' = kbFetch /\ kbFetch.at # "none" /\ kbAcked' = kbAcked
  BY DEF Invalidate
<1>2. CASE kbFetch' = Fetching
  BY <1>1, <1>2, FetchBegins
<1>3. CASE kbFetch' = kbFetch /\ kbFetch.at # "none" /\ kbAcked' = kbAcked
  BY <1>1, <1>3, InvParts DEF ReadOK, RestOK, Fresh
<1> QED
  BY <1>1, <1>2, <1>3

\* A request that changed the list ends.
LEMMA EndsOK ==
  ASSUME BrowserInv, NEW q, RequestOK(q), NEW ed \in EditorState, q.at \in {"ok", "error"},
         Acknowledge(q), Settles(q, ed), UNCHANGED kbServer, RequestsOK'
  PROVE  BrowserInv'
<1>1. PICK list: list = IF q.at = "error" /\ q.snap.loaded THEN q.snap ELSE kbList
  OBVIOUS
<1>2. kbList' = list /\ kbEditor' = Follow(list, ed) /\ Invalidate(list)
  BY <1>1 DEF Settles
<1>3. list \in List
  BY <1>1, InvParts, RequestFields DEF RequestOK, ListOK
<1>4. StoreOK' /\ AckedOK' /\ (kbAcked' # kbAcked => q.at = "ok" /\ kbList.loaded)
  BY AcknowledgeOK
<1>5. ListOK' /\ EditorOK'
  BY <1>2, <1>3, ShownOK
<1>6. kbAcked' # kbAcked => list.loaded
  BY <1>1, <1>4
<1>7. ReadOK' /\ RestOK'
  BY <1>2, <1>6, InvalidateOK
<1> QED
  BY <1>4, <1>5, <1>7, InvNext

LEMMA RequestEndsOK ==
  ASSUME BrowserInv, PutEnds \/ DeleteEnds \/ BulkEnds
  PROVE  BrowserInv'
<1>1. /\ RequestOK(kbPut) /\ RequestOK(kbK8s) /\ RequestOK(kbDelete) /\ RequestOK(kbBulk)
      /\ kbEditor \in EditorState
  BY InvParts DEF RequestsOK, EditorOK
<1>2. UNCHANGED kbServer /\ kbRev' = kbRev /\ kbSent' = kbSent
  BY DEF PutEnds, DeleteEnds, BulkEnds, kbServer
<1>3. RequestsOK'
  BY <1>2, IdleOK, InvParts DEF RequestsOK, RequestOK, PutEnds, DeleteEnds, BulkEnds
<1>4. CASE PutEnds
  BY <1>1, <1>2, <1>3, <1>4, EndsOK DEF PutEnds
<1>5. CASE DeleteEnds
  <2>1. PICK ed: ed = IF kbDelete.at = "error" THEN kbEditor
                      ELSE [kbEditor EXCEPT !.sel = None, !.key = None]
    OBVIOUS
  <2>2. ed \in EditorState
    BY <1>1, <2>1 DEF EditorState
  <2> QED
    BY <1>1, <1>2, <1>3, <1>5, <2>1, <2>2, EndsOK DEF DeleteEnds
<1>6. CASE BulkEnds
  BY <1>1, <1>2, <1>3, <1>6, EndsOK DEF BulkEnds
<1> QED
  BY <1>4, <1>5, <1>6

LEMMA K8sEndsOK == BrowserInv /\ K8sEnds => BrowserInv'
<1> SUFFICES ASSUME BrowserInv, K8sEnds PROVE BrowserInv'
  OBVIOUS
<1>1. /\ kbK8s' = Idle /\ Acknowledge(kbK8s) /\ UNCHANGED kbServer /\ UNCHANGED kbList
      /\ UNCHANGED <<kbPut, kbDelete, kbBulk, kbSent>>
  BY DEF K8sEnds
<1>2. /\ StoreOK' /\ AckedOK' /\ kbRev' = kbRev
      /\ (kbAcked' # kbAcked => kbK8s.at = "ok" /\ kbList.loaded)
  BY <1>1, AcknowledgeOK, InvParts DEF RequestsOK
<1>3. RequestsOK' /\ (Due => Due')
  BY <1>1, <1>2, IdleOK, InvParts DEF RequestsOK, RequestOK, Due
<1>4. CASE kbK8s.at = "ok"
  <2>1. kbEditor' = [kbEditor EXCEPT !.decoded = None] /\ Invalidate(kbList)
    BY <1>4 DEF K8sEnds
  <2>2. ReadOK' /\ RestOK'
    BY <1>2, <2>1, InvalidateOK
  <2>3. /\ kbEditor' \in EditorState /\ kbEditor'.sel = kbEditor.sel
        /\ kbEditor'.key = kbEditor.key
    BY <2>1, InvParts DEF EditorOK, EditorState
  <2>4. ListOK' /\ EditorOK'
    BY <1>1, <2>3, InvParts DEF ListOK, EditorOK
  <2> QED
    BY <1>2, <1>3, <2>2, <2>4, InvNext
<1>5. CASE kbK8s.at # "ok"
  <2>1. UNCHANGED <<kbFetch, kbFailed, kbAcked>> /\ UNCHANGED <<kbList, kbEditor>>
    BY <1>1, <1>2, <1>5 DEF K8sEnds
  <2>2. ReadOK' /\ RestOK' /\ ListOK' /\ EditorOK'
    BY <1>3, <2>1, FetchSame, ViewSame
  <2> QED
    BY <1>2, <1>3, <2>2, InvNext
<1> QED
  BY <1>4, <1>5

LEMMA OthersOK == BrowserInv /\ Others => BrowserInv'
<1> SUFFICES ASSUME BrowserInv, Others PROVE BrowserInv'
  OBVIOUS
<1>1. /\ UNCHANGED <<kbList, kbEditor>> /\ UNCHANGED <<kbFetch, kbFailed, kbAcked>>
      /\ UNCHANGED <<kbPut, kbK8s, kbDelete, kbBulk, kbSent>>
  BY DEF Others, kbRequests
<1>2. ServerMoves
  BY WritesMove, DeletesMove DEF Others
<1>3. StoreOK' /\ AckedOK'
  BY <1>1, <1>2, AckedStays DEF ServerMoves
<1>4. RequestsOK' /\ (Due => Due')
  <2>1. ASSUME NEW q, RequestOK(q) PROVE q \in Request /\ (q.at = "ok" => q.base <= kbRev')
    BY <1>2, <2>1, RequestStays, InvParts
  <2> QED
    BY <1>1, <2>1, InvParts DEF RequestsOK, RequestOK, Due
<1>5. ListOK' /\ EditorOK' /\ ReadOK' /\ RestOK'
  BY <1>1, <1>4, ViewSame, FetchSame
<1> QED
  BY <1>3, <1>4, <1>5, InvNext

----------------------------------------------------------------------------
(***************************************************************************)
(* The theorems.                                                           *)
(***************************************************************************)
LEMMA BrowserStepOK == BrowserInv /\ [KeyBrowserNext]_kbVars => BrowserInv'
<1> SUFFICES ASSUME BrowserInv, [KeyBrowserNext]_kbVars PROVE BrowserInv'
  OBVIOUS
<1>1. CASE UNCHANGED kbVars
  <2>1. /\ UNCHANGED <<kbServer, kbAcked>> /\ UNCHANGED <<kbList, kbEditor>>
        /\ UNCHANGED <<kbFetch, kbFailed, kbAcked>> /\ UNCHANGED kbRequests
    BY <1>1 DEF kbVars
  <2>2. StoreOK' /\ AckedOK' /\ RequestsOK' /\ (Due <=> Due') /\ ListOK' /\ EditorOK'
    BY <2>1, ServerSame, RequestsSame, ViewSame
  <2>3. ReadOK' /\ RestOK'
    BY <2>1, <2>2, FetchSame
  <2> QED
    BY <2>2, <2>3, InvNext
<1>2. ASSUME NEW k \in KbKey, DeleteKey(k) PROVE BrowserInv'
  <2>1. {k} \in SUBSET KbKey
    OBVIOUS
  <2> QED
    BY <1>2, <2>1, DeletesOK
<1> QED
  BY <1>1, <1>2, PollsOK, FetchedOK, OtherQueryOK, EditorStepsOK, PutK8sOK, PutCASOK,
     DeletesOK, ServeOK, RequestEndsOK, MountedOK, K8sEndsOK, OthersOK
  DEF KeyBrowserNext

LEMMA InvTypes == BrowserInv => KeyBrowserTypeOK
BY InvParts
DEF KeyBrowserTypeOK, StoreOK, ListOK, ReadOK, RestOK, EditorOK, EditorState, RequestsOK,
    RequestOK, AckedOK

\* However requests, polls and failures overlap, a page at rest shows the store as
\* it was after all of the page's own writes that it was told of.
THEOREM OwnWritesShown == KeyBrowserSpec => []KeyBrowserInv
<1>1. BrowserInv => OwnWritesShow
  BY InvParts DEF OwnWritesShow, RestOK, ReadOK, Fresh, Due
<1>2. BrowserInv => KeyBrowserInv
  BY <1>1, InvTypes DEF KeyBrowserInv
<1> QED
  BY <1>2, BrowserInitOK, BrowserStepOK, PTL DEF KeyBrowserSpec

\* A poll changes the editor only when its draft is not about the selected key and
\* that key has just turned up in the list.
THEOREM PollsSpare == KeyBrowserSpec => PollsSpareTheEditor
<1>1. BrowserInv /\ [KeyBrowserNext]_kbVars
        => [Fetched /\ kbEditor' # kbEditor
              => kbEditor.key # kbEditor.sel /\ Row(kbEditor.sel) = NoRow]_kbVars
  <2> SUFFICES ASSUME BrowserInv, Fetched, kbEditor' # kbEditor
               PROVE  kbEditor.key # kbEditor.sel /\ Row(kbEditor.sel) = NoRow
    OBVIOUS
  <2>1. kbEditor' = Follow(kbFetch.list, kbEditor)
    BY DEF Fetched, Shows
  <2>2. kbEditor.sel # None /\ kbEditor.key # kbEditor.sel
    BY <2>1 DEF Follow
  <2>3. kbList.rows[kbEditor.sel] = NoRow
    BY <2>2, InvParts DEF EditorOK
  <2> QED
    BY <2>2, <2>3 DEF Row
<1> QED
  BY <1>1, BrowserInitOK, BrowserStepOK, PTL DEF KeyBrowserSpec, PollsSpareTheEditor
============================================================================
