---------------------------- MODULE SessionProofs -----------------------------
(***************************************************************************)
(* Theorems about Session, for any tabs, any finite number of requests and *)
(* any faults.                                                             *)
(***************************************************************************)
EXTENDS Session, FiniteSetTheorems, TLAPS

USE SessionAssumption

Kinds == {"me", "call", "login", "logout"}

Request == [pc : Stages, tab : Tabs \cup {NoTab}, kind : Kinds, retry : BOOLEAN,
            pass : Pairs, body : Pairs, token : Pairs, fresh : Pairs]

(* The type invariant in parts.                                            *)

ServerType ==
    /\ parent \in Seq(Nat)
    /\ \A n \in Issued : parent[n] < n
    /\ allow \subseteq Issued /\ expired \subseteq Issued /\ abandoned \subseteq Issued

BrowserType ==
    store \in Pairs /\ person \in BOOLEAN /\ tab \in [Tabs -> {"closed", "loading", "out", "in"}]

RequestType == req \in [Requests -> Request]

Typed == ServerType /\ BrowserType /\ RequestType

\* The type invariant is its parts.
LEMMA TypeInParts == TypeOK <=> Typed
BY DEF TypeOK, Typed, ServerType, BrowserType, RequestType, Request, Kinds

\* The pairs issued so far are numbered from 1, and 0 is none.
LEMMA PairsKnown ==
  ASSUME Typed
  PROVE  /\ Len(parent) \in Nat /\ Issued \subseteq Nat /\ 0 \notin Issued /\ Pairs = Issued \cup {0}
         /\ 0 \in Pairs /\ store \in Pairs /\ allow \subseteq Issued
BY DEF Typed, ServerType, BrowserType, Issued, Pairs

\* A request that has not begun has its type.
LEMMA IdleRequest ==
  ASSUME Typed
  PROVE  Idle \in Request /\ Idle.pc = "idle" /\ Idle.tab = NoTab
BY PairsKnown DEF Idle, Request, Stages, Kinds

\* A request moves on and leaves the others alone.
LEMMA Puts ==
  ASSUME RequestType, NEW r \in Requests, NEW q \in Request, req' = [req EXCEPT ![r] = q],
         UNCHANGED parent
  PROVE  RequestType' /\ req'[r] = q /\ \A s \in Requests \ {r} : req'[s] = req[s]
BY DEF RequestType, Request, Pairs

\* While no pair is issued, the pairs stay the same.
LEMMA SamePairs ==
  ASSUME UNCHANGED parent
  PROVE  Issued' = Issued /\ Pairs' = Pairs
BY DEF Issued, Pairs

-----------------------------------------------------------------------------
(* Every request is of its type after every step.                          *)

\* A tab sends a request that was idle.
LEMMA Sends ==
  ASSUME Typed, NEW t \in Tabs, NEW kind \in Kinds, NEW body \in Pairs, Send(t, kind, body),
         UNCHANGED parent
  PROVE  \E r \in Requests :
             /\ RequestType' /\ \A s \in Requests \ {r} : req'[s] = req[s]
             /\ req[r].pc = "idle" /\ req'[r].pc = (IF kind = "login" THEN "issue" ELSE "sent")
             /\ req'[r].kind = kind /\ req'[r].body = body
             /\ req'[r].token = 0 /\ req'[r].fresh = 0 /\ req'[r].tab = t
<1> DEFINE q == [Idle EXCEPT !.pc = IF kind = "login" THEN "issue" ELSE "sent",
                             !.tab = t, !.kind = kind, !.pass = store, !.body = body]
<1>1. PICK r \in Requests \ Busy : req' = [req EXCEPT ![r] = q]
  BY DEF Send
<1>2. q \in Request
  BY PairsKnown DEF Idle, Request, Stages
<1>3. /\ q.pc = (IF kind = "login" THEN "issue" ELSE "sent") /\ q.kind = kind /\ q.body = body
      /\ q.token = 0 /\ q.fresh = 0 /\ q.tab = t
  BY DEF Idle
<1>4. RequestType' /\ req'[r] = q /\ \A s \in Requests \ {r} : req'[s] = req[s]
  BY <1>1, <1>2, Puts DEF Typed
<1>5. req[r].pc = "idle"
  BY <1>1 DEF Busy
<1> QED
  BY <1>1, <1>3, <1>4, <1>5

\* A step of one request keeps the type of all.
LEMMA Moves ==
  ASSUME Typed, NEW r \in Requests, UNCHANGED parent,
         \/ req' = [req EXCEPT ![r] = Idle]
         \/ \E pc \in Stages : Goto(r, pc) \/ Answer(r, pc)
         \/ req' = [req EXCEPT ![r].pc = "get", ![r].token = store]
         \/ req' = [req EXCEPT ![r].tab = NoTab]
         \/ req' = [req EXCEPT ![r].pc = "sent", ![r].retry = TRUE, ![r].pass = req[r].fresh,
                               ![r].token = 0, ![r].fresh = 0]
  PROVE  RequestType'
<1>0. req \in [Requests -> Request]
  BY DEF Typed, RequestType
<1>1. req[r] \in Request
  BY DEF Typed, RequestType
<1>2. CASE req' = [req EXCEPT ![r] = Idle]
  BY <1>2, IdleRequest, Puts DEF Typed
<1>3. ASSUME NEW pc \in Stages, Goto(r, pc) PROVE RequestType'
  <2>1. [req[r] EXCEPT !.pc = pc] \in Request
    BY <1>1 DEF Request
  <2> QED
    BY <1>3, <2>1, Puts DEF Goto, Typed
<1>4. ASSUME NEW pc \in Stages, Answer(r, pc) PROVE RequestType'
  <2>1. [req[r] EXCEPT !.pc = pc, !.pass = 0] \in Request
    BY <1>1, PairsKnown DEF Request
  <2>2. req' = [req EXCEPT ![r] = [req[r] EXCEPT !.pc = pc, !.pass = 0]]
    BY <1>0, <1>4 DEF Answer
  <2> QED
    BY <2>1, <2>2, Puts DEF Typed
<1>5. CASE req' = [req EXCEPT ![r].pc = "get", ![r].token = store]
  <2>1. [req[r] EXCEPT !.pc = "get", !.token = store] \in Request
    BY <1>1, PairsKnown DEF Request, Stages
  <2>2. req' = [req EXCEPT ![r] = [req[r] EXCEPT !.pc = "get", !.token = store]]
    BY <1>0, <1>5
  <2> QED
    BY <2>1, <2>2, Puts DEF Typed
<1>6. CASE req' = [req EXCEPT ![r].tab = NoTab]
  <2>1. [req[r] EXCEPT !.tab = NoTab] \in Request
    BY <1>1 DEF Request
  <2> QED
    BY <1>6, <2>1, Puts DEF Typed
<1>7. CASE req' = [req EXCEPT ![r].pc = "sent", ![r].retry = TRUE, ![r].pass = req[r].fresh,
                              ![r].token = 0, ![r].fresh = 0]
  <2>1. [req[r] EXCEPT !.pc = "sent", !.retry = TRUE, !.pass = req[r].fresh, !.token = 0, !.fresh = 0]
        \in Request
    BY <1>1, PairsKnown DEF Request, Stages
  <2>2. req' = [req EXCEPT ![r] = [req[r] EXCEPT !.pc = "sent", !.retry = TRUE, !.pass = req[r].fresh,
                                                 !.token = 0, !.fresh = 0]]
    BY <1>0, <1>7
  <2> QED
    BY <2>1, <2>2, Puts DEF Typed
<1> QED
  BY <1>2, <1>3, <1>4, <1>5, <1>6, <1>7

\* The requests of a closed tab go on without it.
LEMMA Closes ==
  ASSUME Typed, NEW t \in Tabs, CloseTab(t)
  PROVE  /\ RequestType'
         /\ \A r \in Requests : req'[r] = req[r] \/ req'[r] = [req[r] EXCEPT !.tab = NoTab]
<1>1. \A r \in Requests : req'[r] = req[r] \/ req'[r] = [req[r] EXCEPT !.tab = NoTab]
  BY DEF CloseTab
<1>2. \A r \in Requests : req'[r] \in Request
  <2> SUFFICES ASSUME NEW r \in Requests PROVE req'[r] \in Request
    OBVIOUS
  <2>1. req[r] \in Request
    BY DEF Typed, RequestType
  <2>2. [req[r] EXCEPT !.tab = NoTab] \in Request
    BY <2>1 DEF Request
  <2> QED
    BY <1>1, <2>1, <2>2
<1>3. req' = [r \in Requests |-> req'[r]]
  BY DEF CloseTab
<1>4. UNCHANGED parent
  BY DEF CloseTab, server
<1>5. Request' = Request
  BY <1>4, SamePairs DEF Request
<1> QED
  BY <1>1, <1>2, <1>3, <1>5 DEF RequestType

\* A new pair has the next number.
LEMMA Issues ==
  ASSUME Typed, NEW r \in Requests, Issue(r)
  PROVE  LET n == Len(parent) + 1 IN
         /\ RequestType' /\ Issued' = Issued \cup {n} /\ n \notin Pairs /\ n \in Nat
         /\ parent' \in Seq(Nat) /\ parent'[n] = req[r].token
         /\ \A m \in Issued : parent'[m] = parent[m]
         /\ req'[r].pc = "reply" /\ req'[r].fresh = n /\ req'[r].token = req[r].token
         /\ req'[r].body = req[r].body /\ req'[r].kind = req[r].kind
         /\ \A s \in Requests \ {r} : req'[s] = req[s]
         /\ allow' = allow \cup {n}
<1> DEFINE n == Len(parent) + 1
<1>1. /\ parent' = Append(parent, req[r].token) /\ allow' = allow \cup {n}
      /\ req' = [req EXCEPT ![r].pc = "reply", ![r].fresh = n]
  BY DEF Issue
<1>2. req \in [Requests -> Request] /\ req[r].token \in Nat /\ Len(parent) \in Nat
  BY PairsKnown DEF Typed, RequestType, Request, Pairs
<1>3. /\ parent' \in Seq(Nat) /\ Len(parent') = n /\ parent'[n] = req[r].token
      /\ \A m \in Issued : parent'[m] = parent[m]
  BY <1>1, <1>2 DEF Typed, ServerType, Issued
<1>4. Issued' = Issued \cup {n} /\ Pairs' = Pairs \cup {n} /\ n \notin Pairs
  BY <1>2, <1>3 DEF Issued, Pairs
<1>5. [req[r] EXCEPT !.pc = "reply", !.fresh = n] \in Request'
  BY <1>2, <1>4 DEF Request, Stages
<1>6. Request \subseteq Request'
  BY <1>4 DEF Request
<1>7. req' \in [Requests -> Request']
  BY <1>1, <1>2, <1>5, <1>6
<1>8. /\ req'[r].pc = "reply" /\ req'[r].fresh = n /\ req'[r].token = req[r].token
      /\ req'[r].body = req[r].body /\ req'[r].kind = req[r].kind
      /\ \A s \in Requests \ {r} : req'[s] = req[s]
  BY <1>1, <1>2 DEF Request
<1>9. RequestType'
  BY <1>7 DEF RequestType
<1>10. allow' = allow \cup {n} /\ n \in Nat
  BY <1>1, <1>2
<1> HIDE DEF n
<1> QED
  BY <1>3, <1>4, <1>8, <1>9, <1>10 DEF n

\* What a request without an effect on the server leaves.
LEMMA ServerStays ==
  ASSUME Typed, UNCHANGED <<server, expired, abandoned>>
  PROVE  ServerType' /\ Issued' = Issued /\ Pairs' = Pairs /\ UNCHANGED parent
BY DEF Typed, ServerType, server, Issued, Pairs

\* A tab goes back to the sign-in page, its state typed.
LEMMA Thrower ==
  ASSUME Typed, NEW r \in Requests, Live(r), Thrown(r) \/ SignOut(r), Pairs' = Pairs
  PROVE  BrowserType'
<1>1. req[r].tab \in Tabs
  BY DEF Typed, RequestType, Request, Live
<1>2. 0 \in Pairs
  BY PairsKnown
<1> QED
  BY <1>1, <1>2 DEF Typed, BrowserType, Thrown, SignOut, Clear, browser

\* Every step keeps the types.
LEMMA TypedStays == Typed /\ [Next]_vars => Typed'
<1> SUFFICES ASSUME Typed, [Next]_vars PROVE Typed'
  OBVIOUS
<1>0. Len(parent) \in Nat /\ 0 \in Pairs /\ store \in Pairs
  BY PairsKnown
<1>1. CASE UNCHANGED vars
  BY <1>1 DEF vars, server, browser, Typed, ServerType, BrowserType, RequestType, Request, Issued, Pairs
<1>2. ASSUME NEW t \in Tabs, OpenTab(t) \/ Enter(t) \/ Call(t) \/ Logout(t) PROVE Typed'
  <2>1. ServerType' /\ Pairs' = Pairs /\ UNCHANGED parent
    BY <1>2, ServerStays DEF OpenTab, Enter, Call, Logout
  <2>2. UNCHANGED req \/ \E kind \in Kinds, body \in Pairs : Send(t, kind, body)
    BY <1>0, <1>2 DEF OpenTab, Enter, Call, Logout, Kinds
  <2>3. RequestType'
    <3>1. CASE UNCHANGED req
      BY <2>1, <3>1 DEF Typed, RequestType, Request
    <3>2. ASSUME NEW kind \in Kinds, NEW body \in Pairs, Send(t, kind, body) PROVE RequestType'
      BY <2>1, <3>2, Sends
    <3> QED
      BY <2>2, <3>1, <3>2
  <2>4. BrowserType'
    BY <1>0, <1>2, <2>1 DEF OpenTab, Enter, Call, Logout, Typed, BrowserType, browser
  <2> QED
    BY <2>1, <2>3, <2>4 DEF Typed
<1>3. ASSUME NEW t \in Tabs, CloseTab(t) PROVE Typed'
  <2>1. ServerType' /\ Pairs' = Pairs
    BY <1>3, ServerStays DEF CloseTab
  <2>2. BrowserType'
    BY <1>3, <2>1 DEF CloseTab, Typed, BrowserType, browser
  <2> QED
    BY <1>3, <2>1, <2>2, Closes DEF Typed
<1>4. ASSUME NEW r \in Requests, Serve(r) \/ ServerError(r) \/ ReadToken(r) \/ Consume(r) \/ Refresh(r)
      PROVE  Typed'
  <2>1. UNCHANGED parent /\ UNCHANGED expired /\ UNCHANGED abandoned /\ allow' \subseteq allow
    BY <1>4 DEF Serve, ServerError, ReadToken, Consume, Refresh, server
  <2>2. ServerType' /\ Pairs' = Pairs
    BY <2>1 DEF Typed, ServerType, Issued, Pairs
  <2>3. RequestType'
    <3>1. \/ \E pc \in Stages : Goto(r, pc) \/ Answer(r, pc)
          \/ req' = [req EXCEPT ![r].pc = "get", ![r].token = store]
      BY <1>4 DEF Serve, ServerError, ReadToken, Consume, Refresh, Stages
    <3> QED
      BY <2>1, <3>1, Moves
  <2>4. BrowserType'
    BY <1>4, <2>2 DEF Serve, ServerError, ReadToken, Consume, Refresh, Typed, BrowserType, browser
  <2> QED
    BY <2>2, <2>3, <2>4 DEF Typed
<1>5. ASSUME NEW r \in Requests, Issue(r) PROVE Typed'
  <2> DEFINE n == Len(parent) + 1
  <2>1. req[r].token \in Pairs
    BY DEF Typed, RequestType, Request
  <2>2. ServerType'
    <3>1. UNCHANGED <<expired, abandoned>>
      BY <1>5 DEF Issue
    <3>2. \A m \in Issued' : parent'[m] < m
      BY <1>0, <1>5, <2>1, Issues DEF Typed, ServerType, Pairs
    <3> QED
      BY <1>5, <3>1, <3>2, Issues DEF Typed, ServerType
  <2>3. BrowserType'
    BY <1>5, Issues, PairsKnown DEF Issue, browser, Typed, BrowserType, Pairs, Issued
  <2> QED
    BY <1>5, <2>2, <2>3, Issues DEF Typed
<1>6. ASSUME NEW r \in Requests, Finish(r) \/ GiveUp(r) \/ Refused(r) \/ Lose(r) \/ Drop(r)
      PROVE  Typed'
  <2>1. UNCHANGED <<server, expired>>
    BY <1>6 DEF Finish, GiveUp, Refused, Lose, Drop
  <2>2. UNCHANGED parent /\ Pairs' = Pairs /\ Issued' = Issued
    BY <2>1, SamePairs DEF server
  <2>3. abandoned' \subseteq Issued
    <3>1. CASE UNCHANGED abandoned
      BY <3>1 DEF Typed, ServerType
    <3>2. CASE Drop(r)
      BY <3>2, PairsKnown DEF Drop, Typed, ServerType
    <3> QED
      BY <1>6, <3>1, <3>2 DEF Finish, GiveUp, Refused, Lose
  <2>4. ServerType'
    BY <2>1, <2>2, <2>3 DEF Typed, ServerType, server
  <2>5. RequestType'
    BY <1>6, <2>2, Moves DEF Finish, GiveUp, Refused, Lose, Drop
  <2>6. BrowserType'
    <3>1. CASE UNCHANGED <<browser, tab>>
      BY <2>2, <3>1 DEF Typed, BrowserType, browser
    <3>2. CASE Live(r) /\ (Thrown(r) \/ SignOut(r))
      BY <2>2, <3>2, Thrower
    <3>3. CASE Finish(r)
      <4>1. req[r].tab \in Tabs
        BY <3>3 DEF Finish, Live, Typed, RequestType, Request
      <4> QED
        BY <2>2, <3>1, <3>2, <3>3, <4>1 DEF Finish, Typed, BrowserType
    <3> QED
      BY <1>6, <3>1, <3>2, <3>3 DEF GiveUp, Refused, Lose, Drop
  <2> QED
    BY <2>4, <2>5, <2>6 DEF Typed
<1>7. ASSUME NEW r \in Requests, Save(r) PROVE Typed'
  <2>1. req[r].tab \in Tabs /\ req[r].fresh \in Pairs
    BY <1>7 DEF Save, Live, Typed, RequestType, Request
  <2>2. ServerType' /\ Pairs' = Pairs /\ UNCHANGED parent
    BY <1>7, ServerStays DEF Save
  <2>3. RequestType'
    BY <1>7, <2>2, Moves DEF Save
  <2>4. BrowserType'
    BY <1>7, <2>1, <2>2 DEF Save, Typed, BrowserType
  <2> QED
    BY <2>2, <2>3, <2>4 DEF Typed
<1>8. ASSUME NEW n \in Issued, Expire(n) PROVE Typed'
  BY <1>8 DEF Expire, server, browser, Typed, ServerType, BrowserType, RequestType, Request, Issued, Pairs
<1> QED
  BY <1>1, <1>2, <1>3, <1>4, <1>5, <1>6, <1>7, <1>8 DEF Next, Step, Login, Register

\* The types hold at first.
LEMMA TypedStarts == Init => Typed
<1> SUFFICES ASSUME Init PROVE Typed
  OBVIOUS
<1>1. Issued = {} /\ 0 \in Pairs
  BY DEF Init, Issued, Pairs
<1>2. ServerType /\ BrowserType
  <2>1. parent \in Seq(Nat)
    BY DEF Init
  <2> QED
    BY <1>1, <2>1 DEF Init, ServerType, BrowserType
<1>3. Idle \in Request
  BY <1>1 DEF Idle, Request, Stages, Kinds
<1> QED
  BY <1>2, <1>3 DEF Init, Typed, RequestType

\* Every variable keeps its type; a pair is issued for an older one.
THEOREM TypeCorrect == Spec => []TypeOK
BY TypedStarts, TypedStays, TypeInParts, PTL DEF Spec

-----------------------------------------------------------------------------
(* What the steps do to the tokens                                         *)

Others(r) == \A s \in Requests \ {r} : req'[s] = req[s]

\* The same request, whoever waits for it.
Same(r) ==
    /\ req'[r].pc = req[r].pc /\ req'[r].kind = req[r].kind /\ req'[r].body = req[r].body
    /\ req'[r].token = req[r].token /\ req'[r].fresh = req[r].fresh

\* A request that is none any more.
Over(r) == req'[r] = Idle /\ Others(r)

\* What serving a request does.
LEMMA ServeMoves ==
  ASSUME Typed, NEW r \in Requests, Serve(r)
  PROVE  /\ Others(r) /\ req[r].pc = "sent" /\ req'[r].kind = req[r].kind
         /\ req'[r].body = req[r].body /\ req'[r].token = req[r].token
         /\ UNCHANGED <<parent, store, abandoned>>
         /\ \/ req'[r].pc \in {"ok", "401"} /\ allow' = allow
            \/ req'[r].pc = "ok" /\ req[r].kind = "logout" /\ allow' = allow \ {req[r].body}
BY DEF Typed, RequestType, Request, Serve, Answer, At, Others, browser

\* What an error of the server does.
LEMMA ServerErrorMoves ==
  ASSUME Typed, NEW r \in Requests, ServerError(r)
  PROVE  /\ Others(r) /\ req'[r].pc \in {"error", "failed"} /\ req'[r].kind = req[r].kind
         /\ req'[r].body = req[r].body /\ req'[r].token = req[r].token
         /\ UNCHANGED <<parent, store, abandoned, allow>>
         /\ \/ req[r].pc = "sent" /\ req[r].kind # "login"
            \/ req[r].pc = "issue" /\ req[r].kind = "login" /\ req'[r].pc = "error"
            \/ req[r].pc \in {"get", "del", "issue"} /\ req[r].kind # "login" /\ req'[r].pc = "failed"
BY DEF Typed, RequestType, Request, ServerError, Goto, Answer, Others, browser, server

\* What reading the stored token does.
LEMMA ReadTokenMoves ==
  ASSUME Typed, NEW r \in Requests, ReadToken(r)
  PROVE  /\ Others(r) /\ req[r].pc = "get" /\ req'[r].kind = req[r].kind
         /\ req'[r].body = req[r].body /\ req'[r].token = req[r].token
         /\ UNCHANGED <<parent, store, abandoned, allow>>
         /\ \/ req'[r].pc = "del" /\ req[r].token \in allow
            \/ req'[r].pc = "refused" /\ req[r].token \notin allow
BY DEF Typed, RequestType, Request, ReadToken, Goto, At, Others, browser, server

\* What taking a token off the list does.
LEMMA ConsumeMoves ==
  ASSUME Typed, NEW r \in Requests, Consume(r)
  PROVE  /\ Others(r) /\ req[r].pc = "del" /\ req'[r].pc = "issue" /\ req'[r].kind = req[r].kind
         /\ req'[r].body = req[r].body /\ req'[r].token = req[r].token
         /\ UNCHANGED <<parent, store, abandoned>> /\ allow' = allow \ {req[r].token}
BY DEF Typed, RequestType, Request, Consume, Goto, At, Others, browser

\* What starting a refresh does.
LEMMA RefreshMoves ==
  ASSUME Typed, NEW r \in Requests, Refresh(r)
  PROVE  /\ Others(r) /\ req[r].pc = "401" /\ req'[r].pc = "get" /\ req'[r].token = store
         /\ req'[r].body = req[r].body /\ req'[r].kind = req[r].kind
         /\ UNCHANGED <<parent, store, abandoned, allow>>
BY DEF Typed, RequestType, Request, Refresh, At, Others, browser, server

\* What saving a new pair does.
LEMMA SaveMoves ==
  ASSUME Typed, NEW r \in Requests, Save(r)
  PROVE  /\ Others(r) /\ req[r].pc = "reply" /\ store' = req[r].fresh
         /\ req'[r].pc \in {"idle", "sent"} /\ req'[r].body \in {0, req[r].body} /\ req'[r].token = 0
         /\ req'[r].kind # "login"
         /\ UNCHANGED <<parent, abandoned, allow>>
BY DEF Typed, RequestType, Request, Save, At, Others, server, Idle

\* What issuing a pair does.
LEMMA IssueMoves ==
  ASSUME Typed, NEW r \in Requests, Issue(r)
  PROVE  /\ Others(r) /\ req[r].pc = "issue" /\ UNCHANGED <<store, abandoned>>
BY Issues DEF Issue, At, Others, browser

\* The store is cleared, or stays.
LEMMA ThrowMoves ==
  ASSUME NEW r \in Requests, Thrown(r) \/ SignOut(r)
  PROVE  store' \in {0, store}
BY DEF Thrown, SignOut, Clear, browser

\* What the end of a request does.
LEMMA EndMoves ==
  ASSUME Typed, NEW r \in Requests, Finish(r) \/ GiveUp(r) \/ Refused(r) \/ Drop(r)
  PROVE  /\ Over(r) /\ UNCHANGED <<parent, allow>> /\ store' \in {0, store}
         /\ Drop(r) \/ UNCHANGED abandoned
<1>1. Over(r) /\ UNCHANGED <<parent, allow>>
  BY DEF Typed, RequestType, Finish, GiveUp, Refused, Drop, Over, Others, server
<1>2. store' \in {0, store}
  BY ThrowMoves DEF Finish, GiveUp, Refused, Drop, browser
<1> QED
  BY <1>1, <1>2 DEF Finish, GiveUp, Refused

\* What losing an answer does: to the server nothing.
LEMMA ClientMoves ==
  ASSUME Typed, NEW r \in Requests, Lose(r)
  PROVE  /\ \A s \in Requests : Same(s)
         /\ UNCHANGED <<parent, allow, abandoned>> /\ store' \in {0, store}
<1>1. \A s \in Requests : Same(s)
  BY DEF Typed, RequestType, Request, Lose, Same
<1>2. store' \in {0, store}
  BY ThrowMoves DEF Lose
<1> QED
  BY <1>1, <1>2 DEF Lose, server

\* What closing a tab does.
LEMMA CloseMoves ==
  ASSUME Typed, NEW t \in Tabs, CloseTab(t)
  PROVE  (\A s \in Requests : Same(s)) /\ UNCHANGED <<parent, allow, abandoned, store>>
BY Closes DEF Typed, RequestType, Request, CloseTab, Same, server, browser

\* What opening a tab and sending its requests do.
LEMMA OpenMoves ==
  ASSUME Typed, NEW t \in Tabs, OpenTab(t) \/ Enter(t) \/ Call(t) \/ Logout(t)
  PROVE  /\ UNCHANGED <<parent, allow, abandoned, store>>
         /\ \/ UNCHANGED req
            \/ \E r \in Requests :
                   /\ Others(r) /\ req[r].pc = "idle" /\ req'[r].pc \in {"issue", "sent"}
                   /\ req'[r].body \in {0, store} /\ req'[r].token = 0
                   /\ req'[r].kind = "login" => req'[r].pc = "issue"
<1>1. UNCHANGED <<parent, allow, abandoned>> /\ 0 \in Pairs /\ store \in Pairs
  BY PairsKnown DEF OpenTab, Enter, Call, Logout, server
<1>2. UNCHANGED store
  BY DEF OpenTab, Enter, Call, Logout, browser
<1>3. UNCHANGED req \/ \E kind \in Kinds, body \in {0, store} : Send(t, kind, body)
  BY DEF OpenTab, Enter, Call, Logout, Kinds
<1>4. ASSUME NEW kind \in Kinds, NEW body \in {0, store}, Send(t, kind, body)
      PROVE  \E r \in Requests :
                 /\ Others(r) /\ req[r].pc = "idle" /\ req'[r].pc \in {"issue", "sent"}
                 /\ req'[r].body \in {0, store} /\ req'[r].token = 0
                 /\ req'[r].kind = "login" => req'[r].pc = "issue"
  <2>1. PICK r \in Requests :
            /\ \A s \in Requests \ {r} : req'[s] = req[s]
            /\ req[r].pc = "idle" /\ req'[r].pc = (IF kind = "login" THEN "issue" ELSE "sent")
            /\ req'[r].body = body /\ req'[r].token = 0 /\ req'[r].kind = kind
    BY <1>1, <1>4, Sends
  <2> QED
    BY <2>1 DEF Others
<1> QED
  BY <1>1, <1>2, <1>3, <1>4

\* Every step is one of these.
LEMMA Steps ==
  ASSUME [Next]_vars
  PROVE  \/ UNCHANGED <<parent, allow, abandoned, store, req>>
         \/ \E t \in Tabs : OpenTab(t) \/ Enter(t) \/ Call(t) \/ Logout(t)
         \/ \E t \in Tabs : CloseTab(t)
         \/ \E r \in Requests : \/ Serve(r) \/ ServerError(r) \/ ReadToken(r) \/ Consume(r)
                                \/ Issue(r) \/ Refresh(r) \/ Save(r) \/ Lose(r)
                                \/ Finish(r) \/ GiveUp(r) \/ Refused(r) \/ Drop(r)
BY DEF Next, Step, Login, Register, Expire, vars, server, browser

-----------------------------------------------------------------------------
(* The invariants of the tokens                                            *)

\* A token that was taken off the list, or not found there, is not on it.
TokensSpent == \A r \in Requests : req[r].pc \in {"issue", "refused"} => req[r].token \notin allow

\* A pair that is on its way to the browser is good, and nobody else has it.
NewPairs ==
    \A r \in Requests : req[r].pc = "reply" =>
        /\ req[r].fresh \in allow /\ req[r].fresh # store
        /\ \A s \in Requests : /\ req[s].token # req[r].fresh /\ req[s].body # req[r].fresh
                               /\ s # r /\ req[s].pc = "reply" => req[s].fresh # req[r].fresh

\* A pair is issued for a token that is off the list, and the list takes no
\* token back.
Childless == \A n \in Issued : parent[n] \notin allow

\* A sign-in spends no token.
SigningIn ==
    \A r \in Requests : req[r].kind = "login" =>
        req[r].pc \in {"idle", "issue", "reply", "error"} /\ req[r].token = 0

TokenInv == Typed /\ TokensSpent /\ NewPairs /\ Childless /\ SigningIn

\* Every step keeps a sign-in without a token.
LEMMA SigningInStays == TokenInv /\ [Next]_vars => SigningIn'
<1> SUFFICES ASSUME TokenInv, [Next]_vars, NEW s \in Requests, req'[s].kind = "login"
             PROVE  req'[s].pc \in {"idle", "issue", "reply", "error"} /\ req'[s].token = 0
  BY DEF SigningIn
<1> DEFINE Kept == req'[s].pc \in {"idle", "issue", "reply", "error"} /\ req'[s].token = 0
<1>0. Typed /\ SigningIn
  BY DEF TokenInv
<1>1. CASE UNCHANGED <<parent, allow, abandoned, store, req>>
  BY <1>0, <1>1 DEF SigningIn
<1>2. ASSUME NEW t \in Tabs, OpenTab(t) \/ Enter(t) \/ Call(t) \/ Logout(t) PROVE Kept
  BY <1>0, <1>2, OpenMoves DEF SigningIn, Others
<1>3. ASSUME NEW t \in Tabs, CloseTab(t) PROVE Kept
  BY <1>0, <1>3, CloseMoves DEF SigningIn, Same
<1>4. ASSUME NEW r \in Requests, Serve(r) PROVE Kept
  BY <1>0, <1>4, ServeMoves DEF SigningIn, Others
<1>5. ASSUME NEW r \in Requests, ServerError(r) PROVE Kept
  BY <1>0, <1>5, ServerErrorMoves DEF SigningIn, Others
<1>6. ASSUME NEW r \in Requests, ReadToken(r) PROVE Kept
  BY <1>0, <1>6, ReadTokenMoves DEF SigningIn, Others
<1>7. ASSUME NEW r \in Requests, Consume(r) PROVE Kept
  BY <1>0, <1>7, ConsumeMoves DEF SigningIn, Others
<1>8. ASSUME NEW r \in Requests, Issue(r) PROVE Kept
  BY <1>0, <1>8, Issues, IssueMoves DEF SigningIn, Others
<1>9. ASSUME NEW r \in Requests, Refresh(r) PROVE Kept
  BY <1>0, <1>9, RefreshMoves DEF SigningIn, Others
<1>10. ASSUME NEW r \in Requests, Save(r) PROVE Kept
  BY <1>0, <1>10, SaveMoves DEF SigningIn, Others
<1>11. ASSUME NEW r \in Requests, Lose(r) PROVE Kept
  BY <1>0, <1>11, ClientMoves DEF SigningIn, Same
<1>12. ASSUME NEW r \in Requests, Finish(r) \/ GiveUp(r) \/ Refused(r) \/ Drop(r) PROVE Kept
  BY <1>0, <1>12, EndMoves DEF SigningIn, Over, Others, Idle
<1> QED
  BY <1>1, <1>2, <1>3, <1>4, <1>5, <1>6, <1>7, <1>8, <1>9, <1>10, <1>11, <1>12, Steps

\* Every step keeps a spent token off the list.
LEMMA TokensSpentStays == TokenInv /\ [Next]_vars => TokensSpent'
<1> SUFFICES ASSUME TokenInv, [Next]_vars, NEW s \in Requests,
                    req'[s].pc \in {"issue", "refused"}, req'[s].token \in allow'
             PROVE  FALSE
  BY DEF TokensSpent
<1>0. Typed /\ TokensSpent /\ req[s].token \in Pairs /\ 0 \notin allow
  BY PairsKnown DEF TokenInv, Typed, RequestType, Request
<1>1. CASE UNCHANGED <<parent, allow, abandoned, store, req>>
  BY <1>0, <1>1 DEF TokensSpent
<1>2. ASSUME NEW t \in Tabs, OpenTab(t) \/ Enter(t) \/ Call(t) \/ Logout(t) PROVE FALSE
  BY <1>0, <1>2, OpenMoves DEF TokensSpent, Others
<1>3. ASSUME NEW t \in Tabs, CloseTab(t) PROVE FALSE
  BY <1>0, <1>3, CloseMoves DEF TokensSpent, Same
<1>4. ASSUME NEW r \in Requests, Serve(r) PROVE FALSE
  BY <1>0, <1>4, ServeMoves DEF TokensSpent, Others
<1>5. ASSUME NEW r \in Requests, ReadToken(r) PROVE FALSE
  BY <1>0, <1>5, ReadTokenMoves DEF TokensSpent, Others
<1>6. ASSUME NEW r \in Requests, Consume(r) PROVE FALSE
  BY <1>0, <1>6, ConsumeMoves DEF TokensSpent, Others
<1>7. ASSUME NEW r \in Requests, Issue(r) PROVE FALSE
  BY <1>0, <1>7, Issues, IssueMoves DEF TokensSpent, Others
<1>8. ASSUME NEW r \in Requests, Refresh(r) PROVE FALSE
  BY <1>0, <1>8, RefreshMoves DEF TokensSpent, Others
<1>9. ASSUME NEW r \in Requests, Save(r) PROVE FALSE
  BY <1>0, <1>9, SaveMoves DEF TokensSpent, Others
<1>10. ASSUME NEW r \in Requests, Lose(r) PROVE FALSE
  BY <1>0, <1>10, ClientMoves DEF TokensSpent, Same
<1>11. ASSUME NEW r \in Requests, Finish(r) \/ GiveUp(r) \/ Refused(r) \/ Drop(r) PROVE FALSE
  BY <1>0, <1>11, EndMoves DEF TokensSpent, Over, Others, Idle
<1>12. ASSUME NEW r \in Requests, ServerError(r) PROVE FALSE
  BY <1>0, <1>12, ServerErrorMoves DEF TokensSpent, Others
<1> QED
  BY <1>1, <1>2, <1>3, <1>4, <1>5, <1>6, <1>7, <1>8, <1>9, <1>10, <1>11, <1>12, Steps

\* Every step keeps the tokens on the list without successors.
LEMMA ChildlessStays == TokenInv /\ [Next]_vars => Childless'
<1> SUFFICES ASSUME TokenInv, [Next]_vars PROVE Childless'
  OBVIOUS
<1>0. Typed /\ TokensSpent /\ Childless
  BY DEF TokenInv
<1>1. CASE UNCHANGED parent /\ allow' \subseteq allow
  BY <1>0, <1>1, SamePairs DEF Childless
<1>2. ASSUME NEW r \in Requests, Issue(r) PROVE Childless'
  <2> DEFINE new == Len(parent) + 1
  <2>1. req[r].token \in Pairs /\ req[r].token \notin allow
    BY <1>0, <1>2, IssueMoves DEF Typed, RequestType, Request, TokensSpent
  <2>2. /\ Issued' = Issued \cup {new} /\ allow' = allow \cup {new} /\ new \notin Pairs
        /\ parent'[new] = req[r].token /\ \A m \in Issued : parent'[m] = parent[m]
    BY <1>0, <1>2, Issues
  <2>3. \A m \in Issued : parent[m] \in Pairs
    <3> SUFFICES ASSUME NEW m \in Issued PROVE parent[m] \in Pairs
      OBVIOUS
    <3>1. parent[m] \in Nat /\ parent[m] < m /\ m \in 1 .. Len(parent) /\ Len(parent) \in Nat
      BY <1>0 DEF Typed, ServerType, Issued
    <3> QED
      BY <3>1 DEF Pairs
  <2> HIDE DEF new
  <2> QED
    BY <1>0, <2>1, <2>2, <2>3 DEF Childless
<1>3. ASSUME NEW t \in Tabs, OpenTab(t) \/ Enter(t) \/ Call(t) \/ Logout(t) \/ CloseTab(t)
      PROVE  Childless'
  BY <1>0, <1>1, <1>3, OpenMoves, CloseMoves
<1>4. ASSUME NEW r \in Requests,
             \/ Serve(r) \/ ServerError(r) \/ ReadToken(r) \/ Consume(r) \/ Refresh(r)
             \/ Save(r) \/ Lose(r)
             \/ Finish(r) \/ GiveUp(r) \/ Refused(r) \/ Drop(r)
      PROVE  Childless'
  <2>1. UNCHANGED parent
    BY <1>0, <1>4, ServeMoves, ServerErrorMoves, ReadTokenMoves, ConsumeMoves, RefreshMoves,
       SaveMoves, ClientMoves, EndMoves
  <2>2. allow' \subseteq allow
    BY <1>0, <1>4, ServeMoves, ServerErrorMoves, ReadTokenMoves, ConsumeMoves, RefreshMoves,
       SaveMoves, ClientMoves, EndMoves
  <2> QED
    BY <1>1, <2>1, <2>2
<1>5. CASE UNCHANGED <<parent, allow, abandoned, store, req>>
  BY <1>1, <1>5
<1> QED
  BY <1>2, <1>3, <1>4, <1>5, Steps

\* A pair that is being handed out is on the list and in nobody else's hands.
LEMMA Apart ==
  ASSUME NewPairs, NEW r \in Requests, req[r].pc = "reply", NEW s \in Requests
  PROVE  /\ req[r].fresh \in allow /\ req[r].fresh # store
         /\ req[s].token # req[r].fresh /\ req[s].body # req[r].fresh
         /\ s # r /\ req[s].pc = "reply" => req[s].fresh # req[r].fresh
BY Zenon DEF NewPairs

\* A pair on its way stays unknown to the others, whatever they do.
LEMMA StillNew ==
  ASSUME TokenInv, NEW r \in Requests, req[r].pc = "reply", req'[r] = req[r] \/ Same(r),
         req[r].fresh \in allow', store' # req[r].fresh,
         \A s \in Requests \ {r} :
             /\ req'[s].token \in {0, store, req[s].token} /\ req'[s].body \in {0, store, req[s].body}
             /\ req'[s].pc = "reply" => req'[s].fresh # req[r].fresh
  PROVE  /\ req'[r].fresh \in allow' /\ req'[r].fresh # store'
         /\ \A s \in Requests : /\ req'[s].token # req'[r].fresh /\ req'[s].body # req'[r].fresh
                                /\ s # r /\ req'[s].pc = "reply" => req'[s].fresh # req'[r].fresh
<1>1. /\ req'[r].fresh = req[r].fresh /\ req'[r].token = req[r].token /\ req'[r].body = req[r].body
      /\ req[r].fresh \in allow /\ 0 \notin allow /\ req[r].fresh # store
  BY PairsKnown DEF Same, TokenInv, NewPairs
<1>2. ASSUME NEW s \in Requests
      PROVE  /\ req'[s].token # req'[r].fresh /\ req'[s].body # req'[r].fresh
             /\ s # r /\ req'[s].pc = "reply" => req'[s].fresh # req'[r].fresh
  <2>1. req[s].token # req[r].fresh /\ req[s].body # req[r].fresh
    BY Apart DEF TokenInv
  <2>2. CASE s = r
    BY <1>1, <2>1, <2>2
  <2>3. CASE s # r
    BY <1>1, <2>1, <2>3
  <2> QED
    BY <2>2, <2>3
<1> QED
  BY <1>1, <1>2

\* Every step keeps the new pairs apart.
LEMMA NewPairsStays == TokenInv /\ [Next]_vars => NewPairs'
<1> DEFINE Kept(r) ==
        /\ req'[r].fresh \in allow' /\ req'[r].fresh # store'
        /\ \A s \in Requests : /\ req'[s].token # req'[r].fresh /\ req'[s].body # req'[r].fresh
                               /\ s # r /\ req'[s].pc = "reply" => req'[s].fresh # req'[r].fresh
<1> SUFFICES ASSUME TokenInv, [Next]_vars, NEW r \in Requests, req'[r].pc = "reply" PROVE Kept(r)
  BY DEF NewPairs
<1>0. /\ Typed /\ NewPairs /\ 0 \notin allow /\ store \in Pairs /\ allow \subseteq Pairs
      /\ \A s \in Requests : /\ req[s].token \in Pairs /\ req[s].body \in Pairs
                             /\ req[s].fresh \in Pairs
  BY PairsKnown DEF TokenInv, Typed, RequestType, Request
<1>1. CASE UNCHANGED <<parent, allow, abandoned, store, req>>
  BY <1>0, <1>1 DEF NewPairs
<1>2. ASSUME \A s \in Requests : Same(s), UNCHANGED allow, store' \in {0, store} PROVE Kept(r)
  <2>1. req[r].pc = "reply"
    BY <1>2 DEF Same
  <2>2. \A s \in Requests \ {r} :
            /\ req'[s].token \in {0, store, req[s].token} /\ req'[s].body \in {0, store, req[s].body}
            /\ req'[s].pc = "reply" => req'[s].fresh # req[r].fresh
    BY <1>0, <1>2, <2>1, Apart DEF Same
  <2> QED
    BY <1>0, <1>2, <2>1, <2>2, StillNew DEF NewPairs
\* another request takes the step
<1>3. ASSUME NEW a \in Requests \ {r}, Others(a),
             req[r].fresh \in allow', store' # req[r].fresh,
             req'[a].token \in {0, store, req[a].token}, req'[a].body \in {0, store, req[a].body},
             req'[a].pc = "reply" => req'[a].fresh # req[r].fresh
      PROVE  Kept(r)
  <2>1. req[r].pc = "reply" /\ req'[r] = req[r]
    BY <1>3 DEF Others
  <2>2. \A s \in Requests \ {r} :
            /\ req'[s].token \in {0, store, req[s].token} /\ req'[s].body \in {0, store, req[s].body}
            /\ req'[s].pc = "reply" => req'[s].fresh # req[r].fresh
    BY <1>0, <1>3, <2>1, Apart DEF Others
  <2> HIDE DEF Kept
  <2> QED
    BY <1>3, <2>1, <2>2, StillNew DEF Kept
<1>4. ASSUME NEW a \in Requests \ {r}, Others(a)
      PROVE  /\ req[r].fresh \in allow /\ req[r].fresh # store /\ req[r].fresh # 0
             /\ req[a].token # req[r].fresh /\ req[a].body # req[r].fresh
             /\ req[a].pc = "reply" => req[a].fresh # req[r].fresh
  <2>1. req[r].pc = "reply"
    BY <1>4 DEF Others
  <2> QED
    BY <1>0, <1>4, <2>1, Apart
<1> HIDE DEF Kept
<1>5. ASSUME NEW t \in Tabs, OpenTab(t) \/ Enter(t) \/ Call(t) \/ Logout(t) PROVE Kept(r)
  <2>1. CASE UNCHANGED req
    BY <1>0, <1>5, <2>1, OpenMoves DEF NewPairs, Kept
  <2>2. ASSUME NEW a \in Requests, Others(a), req[a].pc = "idle", req'[a].pc \in {"issue", "sent"},
               req'[a].body \in {0, store}, req'[a].token = 0
        PROVE  Kept(r)
    <3>1. a # r /\ UNCHANGED <<allow, store>>
      BY <1>0, <1>5, <2>2, OpenMoves
    <3> QED
      BY <1>3, <1>4, <2>2, <3>1
  <2> QED
    BY <1>0, <1>5, <2>1, <2>2, OpenMoves
<1>6. ASSUME NEW a \in Requests, Serve(a) PROVE Kept(r)
  BY <1>0, <1>3, <1>4, <1>6, ServeMoves
<1>7. ASSUME NEW a \in Requests, ReadToken(a) PROVE Kept(r)
  BY <1>0, <1>3, <1>4, <1>7, ReadTokenMoves
<1>8. ASSUME NEW a \in Requests, Consume(a) PROVE Kept(r)
  BY <1>0, <1>3, <1>4, <1>8, ConsumeMoves
<1>9. ASSUME NEW a \in Requests, Refresh(a) PROVE Kept(r)
  BY <1>0, <1>3, <1>4, <1>9, RefreshMoves
<1>10. ASSUME NEW a \in Requests, Save(a) PROVE Kept(r)
  BY <1>0, <1>3, <1>4, <1>10, SaveMoves
<1>11. ASSUME NEW a \in Requests, Finish(a) \/ GiveUp(a) \/ Refused(a) \/ Drop(a) PROVE Kept(r)
  <2>1. Others(a) /\ req'[a] = Idle /\ UNCHANGED allow /\ store' \in {0, store}
    BY <1>0, <1>11, EndMoves DEF Over
  <2>2. Idle.pc = "idle" /\ Idle.token = 0 /\ Idle.body = 0
    BY DEF Idle
  <2> QED
    BY <1>3, <1>4, <2>1, <2>2
<1>12. ASSUME NEW a \in Requests, Issue(a) PROVE Kept(r)
  <2>1. /\ Others(a) /\ UNCHANGED store /\ allow' = allow \cup {Len(parent) + 1}
        /\ req'[a].fresh = Len(parent) + 1 /\ Len(parent) + 1 \notin Pairs
        /\ req'[a].token = req[a].token /\ req'[a].body = req[a].body
    BY <1>0, <1>12, Issues, IssueMoves
  <2>2. CASE a # r
    BY <1>0, <1>3, <1>4, <2>1, <2>2
  <2>3. CASE a = r
    BY <1>0, <2>1, <2>3 DEF Kept, Others
  <2> QED
    BY <2>2, <2>3
<1>13. ASSUME NEW a \in Requests, Lose(a) PROVE Kept(r)
  BY <1>0, <1>2, <1>13, ClientMoves
<1>14. ASSUME NEW t \in Tabs, CloseTab(t) PROVE Kept(r)
  BY <1>0, <1>2, <1>14, CloseMoves
<1>15. ASSUME NEW a \in Requests, ServerError(a) PROVE Kept(r)
  BY <1>0, <1>3, <1>4, <1>15, ServerErrorMoves
<1> QED
  BY <1>1, <1>5, <1>6, <1>7, <1>8, <1>9, <1>10, <1>11, <1>12, <1>13, <1>14, <1>15, Steps

\* The inductive invariant on tokens holds throughout.
LEMMA TokenInvAlways == Spec => []TokenInv
<1>1. Init => TokenInv
  <2> SUFFICES ASSUME Init PROVE TokenInv
    OBVIOUS
  <2>1. Issued = {} /\ \A r \in Requests : req[r].pc = "idle"
    BY DEF Init, Issued, Idle
  <2> QED
    BY <2>1, TypedStarts DEF Init, Idle, TokenInv, TokensSpent, NewPairs, Childless, SigningIn
<1>2. TokenInv /\ [Next]_vars => TokenInv'
  BY TypedStays, TokensSpentStays, NewPairsStays, ChildlessStays, SigningInStays DEF TokenInv
<1> QED
  BY <1>1, <1>2, PTL DEF Spec

-----------------------------------------------------------------------------
(* The session in the browser                                              *)

\* The token a request has spent, by the stage it is at.
LEMMA SpentBy ==
  ASSUME NEW r \in Requests
  PROVE  /\ req[r].pc \in {"issue", "reply"} => Spent(r) = {req[r].token}
         /\ req[r].pc = "ok" /\ req[r].kind = "logout" => Spent(r) = {req[r].body}
         /\ req[r].pc = "failed" => Spent(r) = {req[r].token} \ allow
         /\ req[r].pc \notin {"issue", "reply", "failed"} /\ ~(req[r].pc = "ok" /\ req[r].kind = "logout") =>
                Spent(r) = {}
BY DEF Spent

\* A request that does not move has spent what it had, as long as the list
\* gets no more than a new pair.
LEMMA SpentBySame ==
  ASSUME Typed, NEW r \in Requests, Same(r) \/ req'[r] = req[r], allow' \cap Pairs \subseteq allow
  PROVE  Spent(r) \subseteq Spent(r)'
<1>1. req[r].token \in Pairs
  BY DEF Typed, RequestType, Request
<1> QED
  BY <1>1 DEF Spent, Same

\* Every step keeps the stored token on the list, or accounted for.
LEMMA StoreIsLiveStays == TokenInv /\ StoreIsLive /\ [Next]_vars => StoreIsLive'
<1> DEFINE Kept == \/ store' = 0 \/ store' \in allow' \cup abandoned'
                   \/ \E s \in Requests : store' \in Spent(s)'
<1> SUFFICES ASSUME TokenInv, StoreIsLive, [Next]_vars, store' # 0 PROVE Kept
  BY DEF StoreIsLive
<1>0. Typed /\ NewPairs
  BY DEF TokenInv
<1>1. CASE UNCHANGED <<parent, allow, abandoned, store, req>>
  BY <1>1 DEF StoreIsLive, Spent
\* nobody but request a moves, and it had spent nothing else than it has now
<1>2. ASSUME NEW a \in Requests, Others(a), UNCHANGED abandoned,
             store' = store, Spent(a) \ {0} \subseteq Spent(a)',
             allow' \cap Pairs \subseteq allow, allow \subseteq allow' \cup Spent(a)'
      PROVE  Kept
  <2>1. store \in allow \cup abandoned \/ \E s \in Requests : store \in Spent(s)
    BY <1>2 DEF StoreIsLive
  <2>2. \A s \in Requests \ {a} : Spent(s) \subseteq Spent(s)'
    BY <1>0, <1>2, SpentBySame DEF Others
  <2> QED
    BY <1>2, <2>1, <2>2
<1>3. ASSUME \A s \in Requests : Same(s), UNCHANGED <<allow, abandoned>>, store' \in {0, store}
      PROVE  Kept
  BY <1>0, <1>3, SpentBySame DEF StoreIsLive
<1> HIDE DEF Kept
<1>4. ASSUME NEW t \in Tabs, OpenTab(t) \/ Enter(t) \/ Call(t) \/ Logout(t) PROVE Kept
  <2>1. CASE UNCHANGED req
    BY <1>0, <1>4, <2>1, OpenMoves DEF StoreIsLive, Kept, Spent
  <2>2. ASSUME NEW a \in Requests, Others(a), req[a].pc = "idle", req'[a].pc \in {"issue", "sent"},
               req'[a].token = 0
        PROVE  Kept
    <3>1. Spent(a) = {} /\ UNCHANGED <<abandoned, store, allow>>
      BY <1>0, <1>4, <2>2, SpentBy, OpenMoves
    <3> QED
      BY <1>2, <2>2, <3>1
  <2> QED
    BY <1>0, <1>4, <2>1, <2>2, OpenMoves
<1>5. ASSUME NEW a \in Requests, Serve(a) PROVE Kept
  <2>1. Others(a) /\ UNCHANGED <<abandoned, store>> /\ Spent(a) = {}
    BY <1>0, <1>5, ServeMoves, SpentBy
  <2>2. allow' = allow \/ (Spent(a)' = {req[a].body} /\ allow' = allow \ {req[a].body})
    BY <1>0, <1>5, ServeMoves DEF Spent
  <2> QED
    BY <1>2, <2>1, <2>2
<1>6. ASSUME NEW a \in Requests, ReadToken(a) PROVE Kept
  <2>1. Others(a) /\ UNCHANGED <<abandoned, store, allow>> /\ Spent(a) = {}
    BY <1>0, <1>6, ReadTokenMoves, SpentBy
  <2> QED
    BY <1>2, <2>1
<1>7. ASSUME NEW a \in Requests, Consume(a) PROVE Kept
  <2>1. Others(a) /\ UNCHANGED <<abandoned, store>> /\ Spent(a) = {}
    BY <1>0, <1>7, ConsumeMoves, SpentBy
  <2>2. Spent(a)' = {req[a].token} /\ allow' = allow \ {req[a].token}
    BY <1>0, <1>7, ConsumeMoves DEF Spent
  <2> QED
    BY <1>2, <2>1, <2>2
<1>8. ASSUME NEW a \in Requests, Issue(a) PROVE Kept
  <2>1. Others(a) /\ UNCHANGED <<abandoned, store>> /\ Spent(a) = {req[a].token}
    BY <1>0, <1>8, IssueMoves, SpentBy
  <2>2. Spent(a)' = {req[a].token} /\ allow \subseteq allow' /\ allow' \cap Pairs \subseteq allow
    BY <1>0, <1>8, Issues DEF Spent
  <2> QED
    BY <1>2, <2>1, <2>2
<1>9. ASSUME NEW a \in Requests, Refresh(a) PROVE Kept
  <2>1. Others(a) /\ UNCHANGED <<abandoned, store, allow>> /\ Spent(a) = {}
    BY <1>0, <1>9, RefreshMoves, SpentBy
  <2> QED
    BY <1>2, <2>1
<1>10. ASSUME NEW a \in Requests, Save(a) PROVE Kept
  <2>1. store' \in allow'
    BY <1>0, <1>10, SaveMoves, Apart
  <2> QED
    BY <2>1 DEF Kept
<1>11. ASSUME NEW a \in Requests, Lose(a) PROVE Kept
  BY <1>0, <1>3, <1>11, ClientMoves
<1>12. ASSUME NEW t \in Tabs, CloseTab(t) PROVE Kept
  BY <1>0, <1>3, <1>12, CloseMoves
\* a request that ends clears the store of what it has spent, or says so
<1>13. ASSUME NEW a \in Requests, Finish(a) \/ GiveUp(a) \/ Refused(a) \/ Drop(a) PROVE Kept
  <2>1. Others(a) /\ UNCHANGED allow /\ store' = store
    BY <1>0, <1>13, EndMoves DEF Over
  <2>2. store \notin Spent(a) \/ (Drop(a) /\ store \in abandoned')
    <3>1. CASE Drop(a)
      BY <2>1, <3>1 DEF Drop
    <3>2. CASE GiveUp(a)
      BY <3>2, SpentBy DEF GiveUp, At
    <3>4. CASE Refused(a)
      BY <2>1, <3>4 DEF Refused, SignOut, Clear
    <3>3. CASE Finish(a)
      <4>1. req[a].pc = "ok" /\ (req[a].kind = "logout" => store' = 0)
        BY <3>3 DEF Finish, At, Thrown, Clear
      <4> QED
        BY <2>1, <4>1, SpentBy
    <3> QED
      BY <1>13, <3>1, <3>2, <3>3, <3>4
  <2>3. abandoned \subseteq abandoned'
    BY <1>0, <1>13, EndMoves DEF Drop
  <2>4. \A s \in Requests \ {a} : Spent(s) \subseteq Spent(s)'
    BY <1>0, <2>1, SpentBySame DEF Others
  <2> QED
    BY <2>1, <2>2, <2>3, <2>4 DEF StoreIsLive, Kept
<1>14. ASSUME NEW a \in Requests, ServerError(a) PROVE Kept
  <2>1. Others(a) /\ UNCHANGED <<abandoned, store, allow>>
    BY <1>0, <1>14, ServerErrorMoves
  <2>2. CASE req[a].pc = "issue" /\ req[a].kind = "login"
    <3>1. Spent(a) = {0}
      BY <2>2, SpentBy DEF TokenInv, SigningIn
    <3> QED
      BY <1>2, <2>1, <3>1
  <2>3. CASE req[a].pc = "issue" /\ req[a].kind # "login"
    <3>1. Spent(a) = {req[a].token} /\ req[a].token \notin allow
      BY <2>3, SpentBy DEF TokenInv, TokensSpent
    <3>2. Spent(a)' = {req[a].token} \ allow
      BY <1>0, <1>14, <2>1, <2>3, ServerErrorMoves DEF Spent
    <3> QED
      BY <1>2, <2>1, <3>1, <3>2
  <2>4. CASE req[a].pc \in {"sent", "get", "del"}
    <3>1. Spent(a) = {}
      BY <2>4, SpentBy
    <3> QED
      BY <1>2, <2>1, <3>1
  <2> QED
    BY <1>0, <1>14, <2>2, <2>3, <2>4, ServerErrorMoves
<1> QED
  BY <1>1, <1>4, <1>5, <1>6, <1>7, <1>8, <1>9, <1>10, <1>11, <1>12, <1>13, <1>14, Steps DEF Kept

\* The refresh token in the browser is good, or somebody is about to replace
\* it, or who spent it has gone (api-client.ts:96-109).
THEOREM BrowserHasGoodToken == Spec => []StoreIsLive
<1>1. Init => StoreIsLive
  BY DEF Init, StoreIsLive
<1> QED
  BY <1>1, TokenInvAlways, StoreIsLiveStays, PTL DEF Spec

\* A good session is thrown away by the request whose answer was a sign-out, an
\* error of hydrate's check, a failed refresh or one that came too late, and by
\* none other (api-client.ts:96-112, auth-context.tsx:45-64 and 84-91).
THEOREM OnlyForACause == Spec => SignedOutForACause
<1>1. ASSUME TokenInv, [Next]_vars, ThrowsAway
      PROVE  \E r \in Requests : Ends(r) /\ Cause(r)
  <2>0. Typed /\ NewPairs /\ store # 0 /\ store' = 0 /\ store \in allow
    BY <1>1, PairsKnown DEF TokenInv, ThrowsAway
  <2>1. PICK r \in Requests :
            Save(r) \/ Lose(r) \/ Finish(r) \/ GiveUp(r) \/ Refused(r) \/ Drop(r)
    BY <1>1, <2>0, Steps, OpenMoves, CloseMoves, ServeMoves, ServerErrorMoves, ReadTokenMoves,
       ConsumeMoves, IssueMoves, RefreshMoves
  <2>2. ASSUME Save(r) \/ Drop(r) PROVE FALSE
    <3>1. CASE Save(r)
      BY <2>0, <3>1, SaveMoves, Apart, PairsKnown
    <3>2. CASE Drop(r)
      BY <2>0, <3>2 DEF Drop, browser
    <3> QED
      BY <2>2, <3>1, <3>2
  <2>3. req \in [Requests -> Request]
    BY <2>0 DEF Typed, RequestType
  <2>4. CASE Lose(r)
    <3>1. Live(r) /\ req'[r] = [req[r] EXCEPT !.tab = NoTab] /\ req[r].pc # "idle"
      BY <2>3, <2>4 DEF Lose
    <3>2. Ends(r) /\ req'[r].pc # "idle"
      BY <2>3, <3>1 DEF Ends, Live, Request
    <3>3. req[r].kind \in {"me", "logout"} \/ (req[r].kind # "login" /\ req[r].pc \in Refreshing)
      BY <2>0, <2>4 DEF Lose, Thrown, browser
    <3> QED
      BY <3>2, <3>3 DEF Cause
  <2>5. ASSUME Finish(r) \/ GiveUp(r) \/ Refused(r) PROVE Ends(r)
    <3>1. Live(r) /\ req'[r] = Idle
      BY <2>3, <2>5 DEF Finish, GiveUp, Refused
    <3> QED
      BY <3>1 DEF Ends, Live, Idle
  <2>6. CASE Finish(r)
    <3>1. req[r].kind = "logout"
      BY <2>0, <2>6 DEF Finish, browser
    <3> QED
      BY <2>5, <2>6, <3>1 DEF Cause
  <2>7. CASE GiveUp(r)
    <3>1. req[r].kind \in {"me", "logout"} /\ (At(r, "error") \/ (At(r, "401") /\ req[r].retry))
      BY <2>0, <2>7 DEF GiveUp, Thrown, MayRefresh, browser
    <3> QED
      BY <2>5, <2>7, <3>1 DEF Cause
  <2>8. CASE Refused(r)
    <3>1. At(r, "failed") \/ (At(r, "refused") /\ req[r].token # store)
      BY <1>1, <2>0, <2>8 DEF Refused, At, TokenInv, TokensSpent
    <3> QED
      BY <2>5, <2>8, <3>1 DEF Cause
  <2> QED
    BY <2>1, <2>2, <2>4, <2>6, <2>7, <2>8
<1>2. TokenInv /\ [Next]_vars => [ThrowsAway => \E r \in Requests : Ends(r) /\ Cause(r)]_vars
  BY <1>1
<1> QED
  BY <1>2, TokenInvAlways, PTL DEF Spec, SignedOutForACause
-----------------------------------------------------------------------------
(* The pairs of one token                                                  *)

\* The requests that have read a token off the list and issue a pair for it.
Holding(t) == {r \in Requests : req[r].pc \in {"del", "issue"} /\ req[r].token = t}

\* What was issued for a spent token, and what is about to be: a request each.
Shares ==
    \A t \in Issued : t \notin allow =>
        Cardinality(Children(t)) + Cardinality(Holding(t)) <= Cardinality(Requests)

\* The successors of a token can be counted.
LEMMA Counts ==
  ASSUME Typed, NEW t
  PROVE  /\ IsFiniteSet(Issued) /\ IsFiniteSet(Children(t)) /\ Cardinality(Children(t)) \in Nat
         /\ IsFiniteSet(Holding(t)) /\ Cardinality(Holding(t)) \in Nat
         /\ Cardinality(Holding(t)) <= Cardinality(Requests) /\ Cardinality(Requests) \in Nat
<1>1. IsFiniteSet(Issued)
  BY PairsKnown, FS_Interval DEF Issued
<1>2. Children(t) \subseteq Issued /\ Holding(t) \subseteq Requests
  BY DEF Children, Holding
<1> QED
  BY <1>1, <1>2, FS_Subset, FS_CardinalityType

\* A token that leaves the list has no pair yet; of one that had left it
\* before, nobody new takes hold.
LEMMA SharesKept ==
  ASSUME TokenInv, Typed', Shares, UNCHANGED parent,
         \A t \in Issued : t \notin allow /\ t \notin allow' => Holding(t)' \subseteq Holding(t)
  PROVE  Shares'
<1> SUFFICES ASSUME NEW t \in Issued, t \notin allow'
             PROVE  Cardinality(Children(t)') + Cardinality(Holding(t)') <= Cardinality(Requests)
  BY SamePairs DEF Shares
<1>0. Children(t)' = Children(t) /\ Typed
  BY SamePairs DEF Children, TokenInv
<1>1. /\ Cardinality(Holding(t)') \in Nat /\ Cardinality(Holding(t)') <= Cardinality(Requests)
      /\ Cardinality(Holding(t)) \in Nat /\ IsFiniteSet(Holding(t))
      /\ Cardinality(Children(t)) \in Nat /\ Cardinality(Requests) \in Nat
  <2>1. Holding(t)' \subseteq Requests
    BY DEF Holding
  <2> QED
    BY <1>0, <2>1, Counts, FS_Subset, FS_CardinalityType
<1>2. CASE t \in allow
  <2>1. Children(t) = {}
    BY <1>2 DEF Children, TokenInv, Childless
  <2> QED
    BY <1>0, <1>1, <2>1, FS_EmptySet
<1>3. CASE t \notin allow
  <2>1. Cardinality(Holding(t)') <= Cardinality(Holding(t))
    BY <1>1, <1>3, FS_Subset
  <2>2. Cardinality(Children(t)) + Cardinality(Holding(t)) <= Cardinality(Requests)
    BY <1>3 DEF Shares
  <2> QED
    BY <1>0, <1>1, <2>1, <2>2
<1> QED
  BY <1>2, <1>3

\* Who issues a pair gives up its share for it.
LEMMA SharesIssued ==
  ASSUME TokenInv, Shares, NEW r \in Requests, Issue(r)
  PROVE  Shares'
<1> DEFINE new == Len(parent) + 1
<1>0. Typed /\ Childless
  BY DEF TokenInv
<1>1. /\ Issued' = Issued \cup {new} /\ allow' = allow \cup {new} /\ new \notin Pairs
      /\ parent'[new] = req[r].token /\ \A m \in Issued : parent'[m] = parent[m]
      /\ req'[r].pc = "reply" /\ req[r].pc = "issue" /\ Others(r)
  BY <1>0, Issues, IssueMoves
<1> HIDE DEF new
<1> SUFFICES ASSUME NEW t \in Issued, t \notin allow
             PROVE  Cardinality(Children(t)') + Cardinality(Holding(t)') <= Cardinality(Requests)
  BY <1>1 DEF Shares
<1>2. new \notin Issued
  BY <1>0, <1>1, PairsKnown
<1>3. Holding(t)' = Holding(t) \ {r}
  BY <1>1 DEF Holding, Others
<1>4. /\ Cardinality(Children(t)) + Cardinality(Holding(t)) <= Cardinality(Requests)
      /\ IsFiniteSet(Children(t)) /\ Cardinality(Children(t)) \in Nat
      /\ IsFiniteSet(Holding(t)) /\ Cardinality(Holding(t)) \in Nat /\ Cardinality(Requests) \in Nat
  BY <1>0, Counts DEF Shares
<1>5. CASE req[r].token = t
  <2>1. Children(t)' = Children(t) \cup {new} /\ new \notin Children(t)
    BY <1>1, <1>2, <1>5 DEF Children
  <2>2. r \in Holding(t)
    BY <1>1, <1>5 DEF Holding
  <2>3. Cardinality(Children(t)') = Cardinality(Children(t)) + 1
    BY <1>4, <2>1, FS_AddElement
  <2>4. Cardinality(Holding(t)') = Cardinality(Holding(t)) - 1
    BY <1>3, <1>4, <2>2, FS_RemoveElement
  <2> QED
    BY <1>4, <2>3, <2>4
<1>6. CASE req[r].token # t
  <2>1. Children(t)' = Children(t)
    BY <1>1, <1>2, <1>6 DEF Children
  <2>2. Holding(t)' = Holding(t)
    BY <1>3, <1>6 DEF Holding
  <2> QED
    BY <1>4, <2>1, <2>2
<1> QED
  BY <1>5, <1>6

\* Every step keeps the successors of a spent token within the number of requests.
LEMMA SharesStays == TokenInv /\ Typed' /\ Shares /\ [Next]_vars => Shares'
<1> SUFFICES ASSUME TokenInv, Typed', Shares, [Next]_vars PROVE Shares'
  OBVIOUS
<1>0. Typed /\ 0 \notin Issued
  BY PairsKnown DEF TokenInv
<1> DEFINE Takes(s, t) == req'[s].pc \in {"del", "issue"} /\ req'[s].token = t
           Took(s, t) == req[s].pc \in {"del", "issue"} /\ req[s].token = t
<1>1. ASSUME UNCHANGED parent,
             \A s \in Requests, t \in Issued : t \notin allow /\ Takes(s, t) => Took(s, t)
      PROVE  Shares'
  BY <1>1, SharesKept DEF Holding
<1>2. CASE UNCHANGED <<parent, allow, abandoned, store, req>>
  BY <1>1, <1>2
<1>3. ASSUME NEW t \in Tabs, OpenTab(t) \/ Enter(t) \/ Call(t) \/ Logout(t) PROVE Shares'
  BY <1>0, <1>1, <1>3, OpenMoves DEF Others
<1>4. ASSUME NEW t \in Tabs, CloseTab(t) PROVE Shares'
  BY <1>0, <1>1, <1>4, CloseMoves DEF Same
<1>5. ASSUME NEW r \in Requests, Serve(r) PROVE Shares'
  BY <1>0, <1>1, <1>5, ServeMoves DEF Others
<1>6. ASSUME NEW r \in Requests, ReadToken(r) PROVE Shares'
  BY <1>0, <1>1, <1>6, ReadTokenMoves DEF Others
<1>7. ASSUME NEW r \in Requests, Consume(r) PROVE Shares'
  BY <1>0, <1>1, <1>7, ConsumeMoves DEF Others
<1>8. ASSUME NEW r \in Requests, Refresh(r) PROVE Shares'
  BY <1>0, <1>1, <1>8, RefreshMoves DEF Others
<1>9. ASSUME NEW r \in Requests, Save(r) PROVE Shares'
  BY <1>0, <1>1, <1>9, SaveMoves DEF Others
<1>10. ASSUME NEW r \in Requests, Lose(r) PROVE Shares'
  BY <1>0, <1>1, <1>10, ClientMoves DEF Same
<1>11. ASSUME NEW r \in Requests, Finish(r) \/ GiveUp(r) \/ Refused(r) \/ Drop(r) PROVE Shares'
  BY <1>0, <1>1, <1>11, EndMoves DEF Over, Others, Idle
<1>12. ASSUME NEW r \in Requests, Issue(r) PROVE Shares'
  BY <1>12, SharesIssued
<1>13. ASSUME NEW r \in Requests, ServerError(r) PROVE Shares'
  BY <1>0, <1>1, <1>13, ServerErrorMoves DEF Others
<1> QED
  BY <1>2, <1>3, <1>4, <1>5, <1>6, <1>7, <1>8, <1>9, <1>10, <1>11, <1>12, <1>13, Steps

\* A refresh token that has a successor is off the list for good, and has no
\* more successors than there are requests at a time (token.service.ts:68-84).
THEOREM SpentOnce == Spec => []SingleUse
<1>1. Init => Shares
  BY DEF Init, Shares, Issued
<1>2. TokenInv /\ Shares => SingleUse
  <2> SUFFICES ASSUME TokenInv, Shares, NEW t \in Issued
               PROVE  /\ Children(t) # {} => t \notin allow
                      /\ Cardinality(Children(t)) <= Cardinality(Requests)
    BY DEF SingleUse
  <2>1. Children(t) # {} => t \notin allow
    BY DEF Children, TokenInv, Childless
  <2>2. Cardinality(Children(t)) \in Nat /\ Cardinality(Holding(t)) \in Nat /\ Cardinality(Requests) \in Nat
    BY Counts DEF TokenInv
  <2>3. CASE t \in allow
    BY <2>1, <2>2, <2>3, FS_EmptySet
  <2>4. CASE t \notin allow
    <3>1. Cardinality(Children(t)) + Cardinality(Holding(t)) <= Cardinality(Requests)
      BY <2>4 DEF Shares
    <3> QED
      BY <2>1, <2>2, <3>1
  <2> QED
    BY <2>1, <2>3, <2>4
<1>3. TokenInv => Typed
  BY DEF TokenInv
<1> QED
  BY <1>1, <1>2, <1>3, TokenInvAlways, SharesStays, PTL DEF Spec
=============================================================================
