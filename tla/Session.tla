------------------------------ MODULE Session ------------------------------
(***************************************************************************)
(* One account in one browser: the token pair in localStorage that all its *)
(* tabs share (session.ts), the requests that refresh it behind a 401      *)
(* (api-client.ts), the sign-in state of each tab (auth-context.tsx) and   *)
(* the allow-list of refresh tokens in Redis (token.service.ts).  A pair   *)
(* is known by its number; 0 is no pair.  rotate() is three Redis commands *)
(* and so three steps; saving and clearing are synchronous.                *)
(* X_<fault> is X with one mistake.                                        *)
(***************************************************************************)
EXTENDS Naturals, FiniteSets, Sequences

CONSTANTS
    Tabs,
    Requests,  \* slots for the requests in flight, of all tabs
    NoTab,     \* the client of a request whose tab has closed or given up
    Faults,    \* subset of {"network", "server", "close"}
    MaxPairs   \* bound: pairs ever issued

ASSUME SessionAssumption ==
    /\ IsFiniteSet(Requests)
    /\ NoTab \notin Tabs
    /\ MaxPairs \in Nat

VARIABLES
    allow,      \* refresh:<user>:<jti>, the refresh tokens that are good
    parent,     \* parent[n]: the token pair n was issued for, 0 for a sign-in
    expired,    \* the access tokens past their 15 minutes
    store,      \* the pair in localStorage
    person,     \* TRUE: a user is cached in localStorage
    tab,        \* tab[t]: the auth state of a tab
    req,        \* the requests
    abandoned   \* history: stored tokens spent for a client that had gone

server == <<allow, parent>>
browser == <<store, person>>
vars == <<allow, parent, expired, store, person, tab, req, abandoned>>

Issued == 1 .. Len(parent)
Pairs == 0 .. Len(parent)

Stages == {"idle", "sent", "ok", "401", "error", "get", "del", "issue", "reply", "refused", "failed"}

Idle == [pc |-> "idle", tab |-> NoTab, kind |-> "call", retry |-> FALSE,
         pass |-> 0, body |-> 0, token |-> 0, fresh |-> 0]

TypeOK ==
    /\ parent \in Seq(Nat)
    /\ \A n \in Issued : parent[n] < n
    /\ allow \subseteq Issued
    /\ expired \subseteq Issued
    /\ store \in Pairs
    /\ person \in BOOLEAN
    /\ tab \in [Tabs -> {"closed", "loading", "out", "in"}]
    /\ req \in [Requests -> [pc : Stages, tab : Tabs \cup {NoTab},
                             kind : {"me", "call", "login", "logout"},
                             retry : BOOLEAN, pass : Pairs, body : Pairs,
                             token : Pairs, fresh : Pairs]]
    /\ abandoned \subseteq Issued

Init ==
    /\ allow = {} /\ parent = <<>> /\ expired = {}
    /\ store = 0 /\ person = FALSE
    /\ tab = [t \in Tabs |-> "closed"]
    /\ req = [r \in Requests |-> Idle]
    /\ abandoned = {}

-----------------------------------------------------------------------------
(* Sending.  Every request may issue one pair at most.                     *)

Busy == {r \in Requests : req[r].pc # "idle"}

Send(t, kind, body) ==
    /\ Len(parent) + Cardinality(Busy) < MaxPairs
    /\ \E r \in Requests \ Busy :
           req' = [req EXCEPT ![r] =
               [Idle EXCEPT !.pc = IF kind = "login" THEN "issue" ELSE "sent",
                            !.tab = t, !.kind = kind, !.pass = store, !.body = body]]

\* The provider mounts: with a token it asks for /users/me, else the cached
\* user is all there is.
OpenTab(t) ==
    /\ tab[t] = "closed"
    /\ \/ /\ store # 0
          /\ Send(t, "me", 0)
          /\ tab' = [tab EXCEPT ![t] = "loading"]
       \/ /\ store = 0
          /\ tab' = [tab EXCEPT ![t] = IF person THEN "in" ELSE "out"]
          /\ UNCHANGED req
    /\ UNCHANGED <<server, expired, browser, abandoned>>

\* Either form asks for a pair of tokens; what it asks of the account is the
\* business of Accounts.  The two pages are there for whoever opens them,
\* signed in or still loading.
Enter(t) ==
    /\ tab[t] # "closed"
    /\ Send(t, "login", 0)
    /\ UNCHANGED <<server, expired, browser, tab, abandoned>>

Login(t) == Enter(t)
Register(t) == Enter(t)

Call(t) ==
    /\ tab[t] = "in"
    /\ Send(t, "call", 0)
    /\ UNCHANGED <<server, expired, browser, tab, abandoned>>

\* logout(): the token is read now, and again nowhere.
Logout(t) ==
    /\ tab[t] = "in"
    /\ \/ /\ store # 0
          /\ Send(t, "logout", store)
          /\ UNCHANGED <<browser, tab>>
       \/ /\ store = 0
          /\ store' = 0 /\ person' = FALSE
          /\ tab' = [tab EXCEPT ![t] = "out"]
          /\ UNCHANGED req
    /\ UNCHANGED <<server, expired, abandoned>>

-----------------------------------------------------------------------------
(* The server                                                              *)

At(r, pc) == req[r].pc = pc
Goto(r, pc) == req' = [req EXCEPT ![r].pc = pc]
Answer(r, pc) == req' = [req EXCEPT ![r].pc = pc, ![r].pass = 0]

\* The guard reads the access token alone; only logout has an effect here.
Serve(r) ==
    /\ At(r, "sent")
    /\ \/ /\ req[r].pass \in Issued \ expired
          /\ Answer(r, "ok")
          /\ allow' = IF req[r].kind = "logout" THEN allow \ {req[r].body} ELSE allow
       \/ /\ req[r].pass \notin Issued \ expired
          /\ Answer(r, "401")
          /\ UNCHANGED allow
    /\ UNCHANGED <<parent, expired, browser, tab, abandoned>>

\* The server cannot answer as it should: a 5xx, a 429, a body that does not
\* parse, before the request had an effect or between two steps of a refresh.
ServerError(r) ==
    /\ "server" \in Faults
    /\ \/ /\ req[r].pc \in (IF req[r].kind = "login" THEN {"issue"} ELSE {"sent"})
          /\ Answer(r, "error")
       \/ /\ req[r].pc \in {"get", "del", "issue"} /\ req[r].kind # "login"
          /\ Goto(r, "failed")
    /\ UNCHANGED <<server, expired, browser, tab, abandoned>>

\* rotate: GET ...
ReadToken(r) ==
    /\ At(r, "get")
    /\ Goto(r, IF req[r].token \in allow THEN "del" ELSE "refused")
    /\ UNCHANGED <<server, expired, browser, tab, abandoned>>

\* Variant: the token stays good.
Consume_keeps(r) ==
    /\ At(r, "del")
    /\ Goto(r, "issue")
    /\ UNCHANGED <<server, expired, browser, tab, abandoned>>

\* ... DEL ...
Consume(r) ==
    /\ At(r, "del")
    /\ allow' = allow \ {req[r].token}
    /\ Goto(r, "issue")
    /\ UNCHANGED <<parent, expired, browser, tab, abandoned>>

\* Variant: the pair is answered and not recorded.
Issue_unrecorded(r) ==
    /\ At(r, "issue")
    /\ req' = [req EXCEPT ![r].pc = "reply", ![r].fresh = Len(parent) + 1]
    /\ UNCHANGED <<server, expired, browser, tab, abandoned>>

\* ... and issueTokens: SET.
Issue(r) ==
    LET n == Len(parent) + 1
    IN  /\ At(r, "issue")
        /\ parent' = Append(parent, req[r].token)
        /\ allow' = allow \cup {n}
        /\ req' = [req EXCEPT ![r].pc = "reply", ![r].fresh = n]
        /\ UNCHANGED <<expired, browser, tab, abandoned>>

\* Fifteen minutes go by for an access token.
Expire(n) ==
    /\ n \in Issued \ expired
    /\ expired' = expired \cup {n}
    /\ UNCHANGED <<server, browser, tab, req, abandoned>>

-----------------------------------------------------------------------------
(* The client, when an answer is there                                     *)

Live(r) == req[r].tab # NoTab

\* session.clear()
Clear == store' = 0 /\ person' = FALSE

\* Variant: hydrate clears the session and goes on loading.
Thrown_unheard(r) ==
    IF req[r].kind \in {"me", "logout"} THEN Clear /\ UNCHANGED tab ELSE UNCHANGED <<browser, tab>>

\* What follows for the tab when the call of api.* throws: hydrate's catch
\* and logout clear the session, the others only show the error.
Thrown(r) ==
    IF req[r].kind \in {"me", "logout"}
    THEN Clear /\ tab' = [tab EXCEPT ![req[r].tab] = "out"]
    ELSE UNCHANGED <<browser, tab>>

Finish(r) ==
    /\ Live(r) /\ At(r, "ok")
    /\ \/ /\ req[r].kind = "me"
          /\ person' = TRUE
          /\ tab' = [tab EXCEPT ![req[r].tab] = "in"]
          /\ UNCHANGED store
       \/ /\ req[r].kind = "logout"
          /\ Thrown(r)
       \/ /\ req[r].kind = "call"
          /\ UNCHANGED <<browser, tab>>
    /\ req' = [req EXCEPT ![r] = Idle]
    /\ UNCHANGED <<server, expired, abandoned>>

\* Variant: an expired access token is not refreshed.
MayRefresh_never(r) == FALSE

MayRefresh(r) == ~req[r].retry /\ store # 0

\* 401: refresh with the token that is in the store by now ...
Refresh(r) ==
    /\ Live(r) /\ At(r, "401")
    /\ MayRefresh(r)
    /\ req' = [req EXCEPT ![r].pc = "get", ![r].token = store]
    /\ UNCHANGED <<server, expired, browser, tab, abandoned>>

\* ... unless this is the retry, or there is none.  Another error throws at
\* once.
GiveUp(r) ==
    /\ Live(r)
    /\ At(r, "error") \/ (At(r, "401") /\ ~MayRefresh(r))
    /\ Thrown(r)
    /\ req' = [req EXCEPT ![r] = Idle]
    /\ UNCHANGED <<server, expired, abandoned>>

\* The new pair arrives: a sign-in is over, a request is sent once more.  A
\* tab that is still checking its old session goes on loading.
Save(r) ==
    /\ Live(r) /\ At(r, "reply")
    /\ store' = req[r].fresh
    /\ \/ /\ req[r].kind = "login"
          /\ person' = TRUE
          /\ tab' = [tab EXCEPT ![req[r].tab] = IF @ = "loading" THEN @ ELSE "in"]
          /\ req' = [req EXCEPT ![r] = Idle]
       \/ /\ req[r].kind # "login"
          /\ req' = [req EXCEPT ![r].pc = "sent", ![r].retry = TRUE,
                                ![r].pass = req[r].fresh,
                                ![r].token = 0, ![r].fresh = 0]
          /\ UNCHANGED <<person, tab>>
    /\ UNCHANGED <<server, expired, abandoned>>

\* The session is cleared and the call throws: hydrate's catch and logout go
\* on to sign their tab out, any other tab is not told.
SignOut(r) ==
    /\ Clear
    /\ tab' = IF req[r].kind \in {"me", "logout"}
              THEN [tab EXCEPT ![req[r].tab] = "out"] ELSE tab

\* The refresh was refused or failed; the catch does not ask which.
Refused(r) ==
    /\ Live(r) /\ req[r].pc \in {"refused", "failed"}
    /\ SignOut(r)
    /\ req' = [req EXCEPT ![r] = Idle]
    /\ UNCHANGED <<server, expired, abandoned>>

Refreshing == {"get", "del", "issue", "reply", "refused", "failed"}

\* fetch rejects: the catch of the refresh clears the session.  The request
\* may still be under way in the server.
Lose(r) ==
    /\ "network" \in Faults
    /\ Live(r) /\ req[r].pc # "idle"
    /\ IF req[r].pc \in Refreshing /\ req[r].kind # "login"
       THEN SignOut(r) ELSE Thrown(r)
    /\ req' = [req EXCEPT ![r].tab = NoTab]
    /\ UNCHANGED <<server, expired, abandoned>>

\* A tab closes or reloads: what it was waiting for has no reader.
CloseTab(t) ==
    /\ "close" \in Faults
    /\ tab[t] # "closed"
    /\ tab' = [tab EXCEPT ![t] = "closed"]
    /\ req' = [r \in Requests |->
                  IF req[r].tab = t THEN [req[r] EXCEPT !.tab = NoTab] ELSE req[r]]
    /\ UNCHANGED <<server, expired, browser, abandoned>>

\* The token this request has already spent.
Spent(r) ==
    CASE req[r].pc \in {"issue", "reply"} -> {req[r].token}
      [] req[r].pc = "failed" -> {req[r].token} \ allow
      [] req[r].pc = "ok" /\ req[r].kind = "logout" -> {req[r].body}
      [] OTHER -> {}

\* A request without a reader ends where it is: it never arrived, the server
\* went down over it, or its answer is dropped.
Drop(r) ==
    /\ ~Live(r) /\ req[r].pc # "idle"
    /\ abandoned' = abandoned \cup ((Spent(r) \cap {store}) \ {0})
    /\ req' = [req EXCEPT ![r] = Idle]
    /\ UNCHANGED <<server, expired, browser, tab>>

-----------------------------------------------------------------------------
Step(r) ==
    \/ Serve(r) \/ ReadToken(r) \/ Consume(r) \/ Issue(r)
    \/ Finish(r) \/ Refresh(r) \/ GiveUp(r) \/ Save(r) \/ Refused(r)

Next ==
    \/ \E t \in Tabs : OpenTab(t) \/ Login(t) \/ Register(t) \/ Call(t) \/ Logout(t) \/ CloseTab(t)
    \/ \E r \in Requests : Step(r) \/ ServerError(r) \/ Lose(r) \/ Drop(r)
    \/ \E n \in Issued : Expire(n)

Spec == Init /\ [][Next]_vars

\* The event loops of browser and server run, and Redis answers: a request
\* that is not lost is served and its answer is read.
FairSpec == Spec /\ \A r \in Requests : WF_vars(Step(r))

-----------------------------------------------------------------------------
(* Properties                                                              *)

Children(t) == {n \in Issued : parent[n] = t}

\* rotate() takes a refresh token once: when a pair has been issued for a
\* token, the token is off the allow-list for good, and the pairs issued for
\* it are no more than the requests that had read it before (GET and DEL are
\* two commands; token.service.ts:68-84).
SingleUse ==
    \A t \in Issued :
        /\ Children(t) # {} => t \notin allow
        /\ Cardinality(Children(t)) <= Cardinality(Requests)

\* The browser never sits on a spent refresh token: the one it stores is good,
\* or a request that spent it is still to store another or clear the session,
\* or the tab that spent it was closed before the answer (api-client.ts:96-109
\* against token.service.ts:68-84).
StoreIsLive ==
    \/ store = 0
    \/ store \in allow \cup abandoned
    \/ \E r \in Requests : store \in Spent(r)

ThrowsAway == store \in allow /\ store' = 0

\* The request whose call returns or throws in this step.
Ends(r) == Live(r) /\ ~Live(r)'

\* What entitles a request to throw a good session away.
Cause(r) ==
    \/ req[r].kind = "logout"
    \/ req[r].kind = "me" /\ (At(r, "error") \/ (At(r, "401") /\ req[r].retry))
    \/ At(r, "failed")
    \/ At(r, "refused") /\ req[r].token # store
    \/ /\ req'[r].pc # "idle"
       /\ req[r].kind = "me" \/ (req[r].kind # "login" /\ req[r].pc \in Refreshing)

\* A session with a good refresh token is thrown away in these cases only, and
\* by the request whose own answer it was: its user signed out; the check of
\* the cached session got any error that is not a first 401, be it a server's
\* that is down (auth-context.tsx:56-59); a refresh got an error of the server,
\* or was refused for an older token than the one stored by now (api-client.ts
\* 103-109); or the network failed one of these two.  A call of the application
\* that fails without a refresh, or a sign-in, never costs a session, and a
\* refresh with the stored token is refused only when that token is spent
\* (token.service.ts:68-84).
SignedOutForACause ==
    [][ThrowsAway => \E r \in Requests : Ends(r) /\ Cause(r)]_vars

\* A tab does not stay on "Loading...": the check of the cached session comes
\* to an end, with at most one refresh (auth-context.tsx:45-64, api-client.ts
\* 96-100).
LoadingEnds == \A t \in Tabs : tab[t] = "loading" ~> tab[t] # "loading"

=============================================================================
