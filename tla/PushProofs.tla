----------------------------- MODULE PushProofs ------------------------------
(***************************************************************************)
(* Theorems about Push, for any users, browsers, phones, endpoints, calls  *)
(* and faults.  The inductive invariant is PushInv.                        *)
(***************************************************************************)
EXTENDS Push, TLAPS

Minted == 1 .. Len(minted)

(***************************************************************************)
(* An endpoint that is alive rings for the account of its browser, unless  *)
(* the browser changed hands since.                                        *)
(***************************************************************************)
RowRight ==
    \A e \in Minted :
        row[e] # None /\ Alive(e) => signed[minted[e]] = row[e] \/ e \in passed

\* So does a push on its way,
SentRight ==
    \A n \in sent :
        /\ n.end \in Minted
        /\ Alive(n.end) => signed[minted[n.end]] = calls[n.call].to \/ n.end \in passed

\* and the phone a user is reached on.
PhoneRight ==
    \A u \in Users : fcm[u] # None => signed[fcm[u]] = u \/ fcm[u] \in passed

\* A phone's notifications are its own, a browser's came by an endpoint.
NoteRight ==
    /\ \A d \in Devices : RightBell(d)
    /\ \A b \in Browsers : \A n \in notes[b] : n.end # 0
    /\ \A ph \in Phones : \A n \in notes[ph] : n.end = 0

\* What the request of the switch has made sure of, at each of its places.
Posting(b) ==
    At(b, "post") \/ At(b, "reply") =>
        /\ job[b].end # 0 /\ minted[job[b].end] = b
        /\ sub[b] \in {0, job[b].end}
        /\ job[b].user # None /\ sub[b] # 0 => job[b].user = signed[b] \/ sub[b] \in passed

\* At rest the server knows every subscription that no fault made odd, so that
\* "on" may be read off the browser alone.
Rest(b) ==
    /\ At(b, "reply") /\ sub[b] # 0 => row[sub[b]] # None
    /\ (At(b, "idle") \/ At(b, "ask")) /\ sub[b] \notin odd \cup {0} => row[sub[b]] # None

JobRight == \A b \in Browsers : Posting(b) /\ Rest(b)

(***************************************************************************)
(* What an open page goes by: it waits for its own request or for none,    *)
(* unless it is stale, and its switch stands where the request will find   *)
(* the subscription.                                                       *)
(***************************************************************************)
Waits(b) ==
    /\ job[b].shown => panel[b] = IF job[b].at \in {"ask", "post", "reply"} THEN "disabled" ELSE "enabled"
    /\ At(b, "idle") => ~job[b].shown
    /\ panel[b] # "closed" /\ b \notin stale => At(b, "idle") \/ job[b].shown

Shows(b) ==
    b \notin stale =>
        /\ panel[b] = "disabled" /\ (At(b, "idle") \/ At(b, "ask")) => sub[b] \in odd \cup {0}
        /\ panel[b] = "enabled" => sub[b] # 0
        /\ panel[b] = "denied"  => sub[b] = 0
        /\ job[b].shown /\ (At(b, "post") \/ At(b, "reply")) => sub[b] # 0

PageRight == \A b \in Browsers : Waits(b) /\ Shows(b)

PushInv == PageRight /\ TypeOK /\ RowRight /\ SentRight /\ PhoneRight /\ NoteRight /\ JobRight

Panels == {"closed", "enabled", "disabled", "denied"}

Job == [at : {"idle", "ask", "post", "reply", "unpost", "drop"},
        end : 0 .. Len(minted), user : Users \cup {None}, shown : BOOLEAN]

\* The end of a request leaves the other browsers alone.
LEMMA OverFacts ==
  ASSUME job \in [Browsers -> Job], panel \in [Browsers -> Panels], NEW b \in Browsers,
         NEW state \in Panels, Over(b, state)
  PROVE  /\ job' \in [Browsers -> Job] /\ panel' \in [Browsers -> Panels]
         /\ job'[b] = Idle /\ panel'[b] = IF job[b].shown THEN state ELSE panel[b]
         /\ \A a \in Browsers \ {b} : job'[a] = job[a] /\ panel'[a] = panel[a]
<1>1. Idle \in Job
  BY 0 \in 0 .. Len(minted) DEF Idle, Job
<1> QED
  BY <1>1 DEF Over

\* A sequence with one element replaced.
LEMMA Put ==
  ASSUME NEW S, NEW s \in Seq(S), NEW i \in DOMAIN s, NEW v \in S
  PROVE  /\ [s EXCEPT ![i] = v] \in Seq(S)
         /\ DOMAIN [s EXCEPT ![i] = v] = DOMAIN s /\ s[i] \in S
  OBVIOUS

\* A call rings for a user.
LEMMA Callees ==
  ASSUME calls \in Seq([to : Users, at : {"push", "fcm", "done"}])
  PROVE  \A c \in DOMAIN calls : calls[c].to \in Users
<1> DEFINE S == [to : Users, at : {"push", "fcm", "done"}]
<1>1. calls \in Seq(S)
  OBVIOUS
<1>2. \A c \in DOMAIN calls : calls[c] \in S
  <2> HIDE DEF S
  <2> QED
    BY <1>1
<1> QED
  BY <1>2

\* A call that moves on keeps its callee, and the others stay.
LEMMA CallMoved ==
  ASSUME calls \in Seq([to : Users, at : {"push", "fcm", "done"}]), NEW c \in DOMAIN calls,
         NEW at \in {"fcm", "done"}, calls' = [calls EXCEPT ![c].at = at]
  PROVE  /\ calls' \in Seq([to : Users, at : {"push", "fcm", "done"}])
         /\ DOMAIN calls' = DOMAIN calls
         /\ \A d \in DOMAIN calls : calls'[d].to = calls[d].to
<1> DEFINE S == [to : Users, at : {"push", "fcm", "done"}]
           v == [calls[c] EXCEPT !.at = at]
<1>1. calls \in Seq(S) /\ calls' = [calls EXCEPT ![c] = v]
  OBVIOUS
<1>2. calls[c] \in S
  <2> HIDE DEF S
  <2> QED
    BY <1>1
<1>3. v \in S /\ v.to = calls[c].to
  BY <1>2
<1> HIDE DEF v, S
<1>4. /\ calls' \in Seq(S) /\ DOMAIN calls' = DOMAIN calls
      /\ calls'[c] = v /\ \A d \in DOMAIN calls \ {c} : calls'[d] = calls[d]
  BY <1>1, <1>3, Put
<1> QED
  BY <1>3, <1>4 DEF S

\* Every step keeps the types.
LEMMA TypeStays == TypeOK /\ [Next]_vars => TypeOK'
<1> SUFFICES ASSUME TypeOK, [Next]_vars PROVE TypeOK'
  OBVIOUS
<1> USE PushAssumption
<1>0. Len(minted) \in Nat /\ Len(calls) \in Nat
  BY DEF TypeOK
<1>a. job \in [Browsers -> Job] /\ panel \in [Browsers -> Panels]
  BY DEF TypeOK, Job, Panels
<1>b. odd \subseteq Endpoints /\ \A e \in Browsers : {sub[e]} \ {0} \subseteq Endpoints
  BY <1>0 DEF TypeOK, Endpoints
<1>1. ASSUME NEW d \in Devices, NEW u \in Users, SignIn(d, u) PROVE TypeOK'
  BY <1>0, <1>1 DEF SignIn, TypeOK, switch, ringing, Devices, Endpoints, Note, Idle, At
<1>2. ASSUME NEW d \in Devices, SignOut(d) PROVE TypeOK'
  <2>1. passed' \subseteq Endpoints \cup Phones
    BY <1>0, <1>2 DEF SignOut, TypeOK, Devices, Endpoints, Note
  <2>2. CASE d \in Phones
    BY <1>2, <2>1, <2>2 DEF SignOut, TypeOK, ringing, Devices, Endpoints, Note
  <2>3. CASE d \in Browsers
    <3>1. /\ job' = [job EXCEPT ![d] = [job[d] EXCEPT !.shown = FALSE]]
          /\ panel' = [panel EXCEPT ![d] = "closed"]
      BY <1>2, <2>3 DEF SignOut
    <3>2. job' \in [Browsers -> Job]
      BY <1>a, <2>3, <3>1 DEF Job
    <3>3. panel' \in [Browsers -> Panels]
      BY <1>a, <3>1 DEF Panels
    <3> QED
      BY <1>2, <2>1, <3>2, <3>3 DEF SignOut, TypeOK, ringing, Devices, Endpoints, Note, Job, Panels
  <2> QED
    BY <2>2, <2>3 DEF Devices
<1>3. ASSUME NEW ph \in Phones, SendToken(ph) PROVE TypeOK'
  BY <1>0, <1>3 DEF SendToken, TypeOK, switch, ringing, Devices, Endpoints, Note, Idle, At
<1>4. ASSUME NEW ph \in Phones, NEW n \in notes[ph], OpenApp(ph, n) PROVE TypeOK'
  BY <1>0, <1>4 DEF OpenApp, Cleared, TypeOK, switch, ringing, Devices, Endpoints, Note, Idle, At
<1>5. ASSUME NEW b \in Browsers, OpenSettings(b) PROVE TypeOK'
  BY <1>0, <1>5 DEF OpenSettings, TypeOK, switch, ringing, Devices, Endpoints, Note, Idle, At
<1>6. ASSUME NEW b \in Browsers, LeaveSettings(b) PROVE TypeOK'
  <2>1. job' \in [Browsers -> Job]
    BY <1>a, <1>6 DEF LeaveSettings, Job
  <2> QED
    BY <1>6, <2>1 DEF LeaveSettings, TypeOK, ringing, Endpoints, Note, Job
<1>7. ASSUME NEW b \in Browsers, Enable(b) PROVE TypeOK'
  <2>1. job' \in [Browsers -> Job]
    BY <1>a, <1>7 DEF Enable, Press, Job, Idle
  <2> QED
    BY <1>7, <2>1 DEF Enable, Press, TypeOK, ringing, Endpoints, Note, Job
<1>8. ASSUME NEW b \in Browsers, Disable(b) PROVE TypeOK'
  <2>1. job' \in [Browsers -> Job]
    BY <1>a, <1>8 DEF Disable, Press, Job, Idle
  <2> QED
    BY <1>8, <2>1 DEF Disable, Press, TypeOK, ringing, Endpoints, Note, Job
<1>9. ASSUME NEW b \in Browsers, NotAsked(b) PROVE TypeOK'
  <2>1. job' \in [Browsers -> Job] /\ panel' \in [Browsers -> Panels]
    BY <1>a, <1>9, OverFacts DEF NotAsked, Panels
  <2>2. UNCHANGED <<signed, minted, stale, fcm, calls, sent, notes, passed>>
    BY <1>9 DEF NotAsked, ringing
  <2>3. odd' \subseteq Endpoints
    BY <1>b, <1>9 DEF NotAsked
  <2>4. /\ UNCHANGED <<blocked, row>> /\ sub' \in [Browsers -> 0 .. Len(minted)]
        /\ \A a \in Browsers : sub'[a] \in {0, sub[a]}
    <3>1. UNCHANGED <<blocked, row>> /\ (UNCHANGED sub \/ sub' = [sub EXCEPT ![b] = 0])
      BY <1>9 DEF NotAsked
    <3>2. sub \in [Browsers -> 0 .. Len(minted)]
      BY DEF TypeOK
    <3> QED
      BY <1>0, <3>1, <3>2
  <2> QED
    BY <2>1, <2>2, <2>3, <2>4 DEF TypeOK, Endpoints, Note, Job, Panels
<1>10. ASSUME NEW b \in Browsers, Refused(b) PROVE TypeOK'
  BY <1>0, <1>10 DEF Refused, Over, TypeOK, switch, ringing, Devices, Endpoints, Note, Idle, At
<1>11. ASSUME NEW b \in Browsers, Subscribe(b) PROVE TypeOK'
  <2>1. /\ minted' \in Seq(Browsers) /\ Len(minted') \in Nat /\ Len(minted') <= MaxEnds
        /\ Len(minted') >= Len(minted) /\ \A e \in 1 .. Len(minted) : minted'[e] = minted[e]
        /\ sub' \in [Browsers -> 0 .. Len(minted')]
        /\ \A a \in Browsers : sub'[a] # 0 => minted'[sub'[a]] = a /\ a \notin blocked
    <3>1. CASE UNCHANGED <<sub, minted>>
      BY <1>0, <3>1 DEF TypeOK
    <3>2. CASE /\ Len(minted) < MaxEnds /\ minted' = Append(minted, b)
               /\ sub' = [sub EXCEPT ![b] = Len(minted) + 1] /\ b \notin blocked
      BY <1>0, <3>2 DEF TypeOK
    <3> QED
      BY <1>11, <3>1, <3>2 DEF Subscribe
  <2>2. job' \in [Browsers -> Job]'
    <3>1. sub'[b] \in 0 .. Len(minted') /\ signed[b] \in Users \cup {None}
      BY <2>1 DEF TypeOK, Devices
    <3>2. ASSUME NEW a \in Browsers PROVE job[a] \in Job'
      BY <1>0, <1>a, <2>1 DEF Job
    <3>3. job' = [job EXCEPT ![b] = [job[b] EXCEPT !.at = "post", !.end = sub'[b], !.user = signed[b]]]
      BY <1>11 DEF Subscribe
    <3>4. job'[b] \in Job' /\ DOMAIN job' = Browsers
      BY <1>a, <3>1, <3>2, <3>3 DEF Job
    <3> QED
      BY <1>a, <3>2, <3>3, <3>4
  <2> QED
    <3>1. \A e \in Endpoints : e > Len(minted') => row'[e] = None
      BY <1>0, <1>11, <2>1 DEF Subscribe, TypeOK, Endpoints
    <3>2. /\ signed \in [Devices -> Users \cup {None}] /\ blocked \subseteq Browsers
          /\ panel \in [Browsers -> {"closed", "enabled", "disabled", "denied"}]
          /\ row \in [Endpoints -> Users \cup {None}] /\ fcm \in [Users -> Phones \cup {None}]
          /\ calls \in Seq([to : Users, at : {"push", "fcm", "done"}])
          /\ sent \subseteq Note /\ notes \in [Devices -> SUBSET Note]
          /\ odd \subseteq Endpoints /\ passed \subseteq Endpoints \cup Phones /\ stale \subseteq Browsers
      BY DEF TypeOK
    <3>3. /\ UNCHANGED <<signed, blocked, panel, row, fcm, calls, sent, notes, odd, passed, stale>>
          /\ Note' = Note
      BY <1>11 DEF Subscribe, ringing, Note
    <3> HIDE DEF Subscribe
    <3> QED
      BY <2>1, <2>2, <3>1, <3>2, <3>3 DEF TypeOK, Job
<1>12. ASSUME NEW b \in Browsers, Post(b) PROVE TypeOK'
  <2>1. job' \in [Browsers -> Job]
    BY <1>a, <1>12 DEF Post, Job
  <2>2. job[b].end \in 0 .. Len(minted) /\ job[b].user \in Users
    BY <1>a, <1>12 DEF Post, Job
  <2>3. row' \in [Endpoints -> Users \cup {None}] /\ \A e \in Endpoints : e > Len(minted) => row'[e] = None
    <3>1. row \in [Endpoints -> Users \cup {None}] /\ \A e \in Endpoints : e > Len(minted) => row[e] = None
      BY DEF TypeOK
    <3>2. row' = [row EXCEPT ![job[b].end] = job[b].user]
      BY <1>12 DEF Post
    <3>3. ASSUME NEW e \in Endpoints, e > Len(minted) PROVE row'[e] = None
      BY <1>0, <2>2, <3>1, <3>2, <3>3
    <3> QED
      BY <2>2, <3>1, <3>2, <3>3
  <2> QED
    BY <1>12, <2>1, <2>3 DEF Post, TypeOK, ringing, Endpoints, Note, Job
<1>13. ASSUME NEW b \in Browsers, NotPosted(b) PROVE TypeOK'
  <2>1. job' \in [Browsers -> Job] /\ panel' \in [Browsers -> Panels]
    BY <1>a, <1>13, OverFacts DEF NotPosted, Panels
  <2>2. UNCHANGED <<signed, minted, stale, fcm, calls, sent, notes, passed>>
    BY <1>13 DEF NotPosted, ringing
  <2>3. odd' \subseteq Endpoints
    BY <1>b, <1>13 DEF NotPosted, Doubted
  <2>4. /\ UNCHANGED <<blocked, row>> /\ sub' \in [Browsers -> 0 .. Len(minted)]
        /\ \A a \in Browsers : sub'[a] \in {0, sub[a]}
    <3>1. UNCHANGED <<blocked, row>> /\ (UNCHANGED sub \/ sub' = [sub EXCEPT ![b] = 0])
      BY <1>13 DEF NotPosted
    <3>2. sub \in [Browsers -> 0 .. Len(minted)]
      BY DEF TypeOK
    <3> QED
      BY <1>0, <3>1, <3>2
  <2> QED
    BY <2>1, <2>2, <2>3, <2>4 DEF TypeOK, Endpoints, Note, Job, Panels
<1>14. ASSUME NEW b \in Browsers, Posted(b) PROVE TypeOK'
  <2>1. job' \in [Browsers -> Job] /\ panel' \in [Browsers -> Panels]
    BY <1>a, <1>14, OverFacts DEF Posted, Panels
  <2>2. UNCHANGED <<signed, minted, stale, fcm, calls, sent, notes, passed>>
    BY <1>14 DEF Posted, ringing
  <2>3. odd' \subseteq Endpoints
    BY <1>b, <1>14 DEF Posted, Doubted
  <2>4. /\ UNCHANGED <<blocked, row>> /\ sub' \in [Browsers -> 0 .. Len(minted)]
        /\ \A a \in Browsers : sub'[a] \in {0, sub[a]}
    <3>1. UNCHANGED <<blocked, row>> /\ (UNCHANGED sub \/ sub' = [sub EXCEPT ![b] = 0])
      BY <1>14 DEF Posted
    <3>2. sub \in [Browsers -> 0 .. Len(minted)]
      BY DEF TypeOK
    <3> QED
      BY <1>0, <3>1, <3>2
  <2> QED
    BY <2>1, <2>2, <2>3, <2>4 DEF TypeOK, Endpoints, Note, Job, Panels
<1>15. ASSUME NEW b \in Browsers, Unpost(b) PROVE TypeOK'
  <2>1. UNCHANGED <<signed, minted, stale, fcm, calls, sent, notes, passed, blocked, sub, odd>>
    BY <1>15 DEF Unpost, ringing
  <2>2. CASE Over(b, "disabled") /\ UNCHANGED row
    <3>1. job' \in [Browsers -> Job] /\ panel' \in [Browsers -> Panels]
      BY <1>a, <2>2, OverFacts DEF Panels
    <3> QED
      BY <2>1, <2>2, <3>1 DEF TypeOK, Endpoints, Note, Job, Panels
  <2>3. CASE sub[b] # 0 /\ UNCHANGED panel
    <3>1. job' \in [Browsers -> Job]
      <4>1. /\ job' = [job EXCEPT ![b] = [job[b] EXCEPT !.at = "drop", !.end = sub[b]]]
            /\ sub[b] \in 0 .. Len(minted)
        BY <1>15, <2>3 DEF Unpost, TypeOK
      <4> QED
        BY <1>a, <4>1 DEF Job
    <3>2. row' \in [Endpoints -> Users \cup {None}] /\ \A e \in Endpoints : e > Len(minted) => row'[e] = None
      BY <1>0, <1>15, <2>3 DEF Unpost, TypeOK
    <3> QED
      BY <2>1, <2>3, <3>1, <3>2 DEF TypeOK, Endpoints, Note, Job
  <2> QED
    BY <1>15, <2>2, <2>3 DEF Unpost
<1>16. ASSUME NEW b \in Browsers, Drop(b) PROVE TypeOK'
  <2>1. job' \in [Browsers -> Job] /\ panel' \in [Browsers -> Panels]
    BY <1>a, <1>16, OverFacts DEF Drop, Panels
  <2>2. UNCHANGED <<signed, minted, stale, fcm, calls, sent, notes, passed>>
    BY <1>16 DEF Drop, ringing
  <2>3. odd' \subseteq Endpoints
    BY <1>b, <1>16 DEF Drop, Doubted
  <2>4. /\ UNCHANGED <<blocked, row>> /\ sub' \in [Browsers -> 0 .. Len(minted)]
        /\ \A a \in Browsers : sub'[a] \in {0, sub[a]}
    <3>1. UNCHANGED <<blocked, row>> /\ (UNCHANGED sub \/ sub' = [sub EXCEPT ![b] = 0])
      BY <1>16 DEF Drop
    <3>2. sub \in [Browsers -> 0 .. Len(minted)]
      BY DEF TypeOK
    <3> QED
      BY <1>0, <3>1, <3>2
  <2> QED
    BY <2>1, <2>2, <2>3, <2>4 DEF TypeOK, Endpoints, Note, Job, Panels
<1>17. ASSUME NEW b \in Browsers, Block(b) PROVE TypeOK'
  <2>1. blocked' \subseteq Browsers /\ sub' \in [Browsers -> 0 .. Len(minted)]
    BY <1>0, <1>17 DEF Block, TypeOK
  <2>2. \A a \in Browsers : sub'[a] # 0 => minted[sub'[a]] = a /\ a \notin blocked'
    BY <1>0, <1>17 DEF Block, TypeOK
  <2> QED
    BY <1>17, <2>1, <2>2 DEF Block, TypeOK, ringing, Endpoints, Note
<1>18. ASSUME NEW b \in Browsers, NEW n \in notes[b], Tap(b, n) PROVE TypeOK'
  BY <1>0, <1>18 DEF Tap, Cleared, TypeOK, switch, ringing, Devices, Endpoints, Note, Idle, At
<1>19. ASSUME NEW u \in Users, Invite(u) PROVE TypeOK'
  BY <1>0, <1>19 DEF Invite, TypeOK, switch, ringing, Devices, Endpoints, Note, Idle, At
<1>20. ASSUME NEW c \in DOMAIN calls, PushOut(c) PROVE TypeOK'
  <2>1. calls' \in Seq([to : Users, at : {"push", "fcm", "done"}]) /\ DOMAIN calls' = DOMAIN calls
    BY <1>20, CallMoved DEF PushOut, TypeOK
  <2>2. sent' \subseteq Note
    BY <1>20 DEF PushOut, TypeOK, Note
  <2> QED
    BY <1>20, <2>1, <2>2 DEF PushOut, TypeOK, switch, Note
<1>21. ASSUME NEW c \in DOMAIN calls, FcmOut(c) PROVE TypeOK'
  <2>1. calls' \in Seq([to : Users, at : {"push", "fcm", "done"}]) /\ DOMAIN calls' = DOMAIN calls
    BY <1>21, CallMoved DEF FcmOut, TypeOK
  <2>2. notes' \in [Devices -> SUBSET Note]
    BY <1>21 DEF FcmOut, SendCall, OnMessage, TypeOK, Note
  <2> QED
    BY <1>21, <2>1, <2>2 DEF FcmOut, TypeOK, switch, Note
<1>22. ASSUME NEW n \in sent, Arrive(n) PROVE TypeOK'
  <2>1. notes' \in [Devices -> SUBSET Note]
    BY <1>22 DEF Arrive, TypeOK, Note
  <2> QED
    BY <1>22, <2>1 DEF Arrive, TypeOK, switch, Note
<1>23. ASSUME NEW n \in sent, Prune(n) PROVE TypeOK'
  BY <1>0, <1>23 DEF Prune, TypeOK, switch, ringing, Devices, Endpoints, Note, Idle, At
<1>24. ASSUME NEW n \in sent, Lapse(n) PROVE TypeOK'
  BY <1>0, <1>24 DEF Lapse, TypeOK, switch, ringing, Devices, Endpoints, Note, Idle, At
<1>25. CASE UNCHANGED vars
  BY <1>0, <1>25 DEF vars, TypeOK, switch, ringing, Devices, Endpoints, Note, Idle, At
<1> QED
  BY <1>1, <1>2, <1>3, <1>4, <1>5, <1>6, <1>7, <1>8, <1>9, <1>10, <1>11, <1>12, <1>13, <1>14, <1>15, <1>16, <1>17, <1>18, <1>19, <1>20, <1>21, <1>22, <1>23, <1>24, <1>25 DEF Next


\* An endpoint that is alive rings for the account of its browser, or the
\* browser changed hands.
LEMMA RowStays == TypeOK /\ RowRight /\ JobRight /\ [Next]_vars => RowRight'
<1> SUFFICES ASSUME TypeOK, RowRight, JobRight, [Next]_vars PROVE RowRight'
  OBVIOUS
<1> USE PushAssumption
<1>0. /\ Len(minted) \in Nat /\ Len(calls) \in Nat
      /\ minted \in Seq(Browsers) /\ row \in [Endpoints -> Users \cup {None}]
      /\ signed \in [Devices -> Users \cup {None}] /\ sub \in [Browsers -> 0 .. Len(minted)]
      /\ \A e \in Endpoints : e > Len(minted) => row[e] = None
      /\ \A e \in Minted : e \in Endpoints /\ minted[e] \in Browsers
      /\ \A b \in Browsers : sub[b] # 0 => minted[sub[b]] = b
  BY DEF TypeOK, Minted, Endpoints
<1>c. Minted \subseteq Endpoints
  BY <1>0 DEF Minted, Endpoints, TypeOK
<1>1. ASSUME NEW d \in Devices, NEW u \in Users, SignIn(d, u) PROVE RowRight'
  BY <1>0, <1>1 DEF SignIn, RowRight, Alive, Minted, switch, ringing, Devices
<1>2. ASSUME NEW d \in Devices, SignOut(d) PROVE RowRight'
  BY <1>0, <1>2 DEF SignOut, RowRight, Alive, Minted, switch, ringing, Devices
<1>3. ASSUME NEW ph \in Phones, SendToken(ph) PROVE RowRight'
  BY <1>0, <1>3 DEF SendToken, RowRight, Alive, Minted, switch, ringing, Devices
<1>4. ASSUME NEW ph \in Phones, NEW n \in notes[ph], OpenApp(ph, n) PROVE RowRight'
  BY <1>0, <1>4 DEF OpenApp, Cleared, RowRight, Alive, Minted, switch, ringing, Devices
<1>5. ASSUME NEW b \in Browsers, OpenSettings(b) PROVE RowRight'
  BY <1>0, <1>5 DEF OpenSettings, RowRight, Alive, Minted, switch, ringing, Devices
<1>6. ASSUME NEW b \in Browsers, LeaveSettings(b) PROVE RowRight'
  BY <1>0, <1>6 DEF LeaveSettings, RowRight, Alive, Minted, switch, ringing, Devices
<1>7. ASSUME NEW b \in Browsers, Enable(b) PROVE RowRight'
  BY <1>0, <1>7 DEF Enable, Press, RowRight, Alive, Minted, switch, ringing, Devices
<1>8. ASSUME NEW b \in Browsers, Disable(b) PROVE RowRight'
  BY <1>0, <1>8 DEF Disable, Press, RowRight, Alive, Minted, switch, ringing, Devices
<1>9. ASSUME NEW b \in Browsers, NotAsked(b) PROVE RowRight'
  BY <1>0, <1>9 DEF NotAsked, Over, RowRight, Alive, Minted, switch, ringing, Devices
<1>10. ASSUME NEW b \in Browsers, Refused(b) PROVE RowRight'
  BY <1>0, <1>10 DEF Refused, Over, RowRight, Alive, Minted, switch, ringing, Devices
<1>11. ASSUME NEW b \in Browsers, Subscribe(b) PROVE RowRight'
  <2>1. ASSUME NEW e \in Minted', row'[e] # None PROVE e \in Minted /\ minted'[e] = minted[e]
    BY <1>0, <1>11, <2>1 DEF Subscribe, Minted, Endpoints
  <2>2. ASSUME NEW e \in Minted, minted'[e] = minted[e], sub'[minted[e]] = e PROVE sub[minted[e]] = e
    BY <1>0, <1>11, <2>2 DEF Subscribe, Minted
  <2> QED
    BY <1>11, <2>1, <2>2 DEF Subscribe, RowRight, Alive
<1>12. ASSUME NEW b \in Browsers, Post(b) PROVE RowRight'
  <2>1. /\ job[b].end \in Minted /\ job[b].end # 0 /\ minted[job[b].end] = b
        /\ sub[b] = job[b].end => job[b].user = signed[b] \/ sub[b] \in passed
    BY <1>12 DEF Post, JobRight, Posting, At, TypeOK, Minted
  <2>2. row' = [row EXCEPT ![job[b].end] = job[b].user] /\ UNCHANGED <<minted, sub, signed, passed>>
    BY <1>12 DEF Post
  <2>3. ASSUME NEW e \in Minted, row'[e] # None, sub[minted[e]] = e
        PROVE  signed[minted[e]] = row'[e] \/ e \in passed
    <3>1. row'[e] = IF e = job[b].end THEN job[b].user ELSE row[e]
      <4>1. row \in [Endpoints -> Users \cup {None}] /\ e \in Endpoints
        BY <1>c, <2>3 DEF TypeOK
      <4> QED
        BY <2>2, <4>1
    <3>2. CASE e = job[b].end
      BY <2>1, <2>3, <3>1, <3>2
    <3>3. CASE e # job[b].end
      BY <2>3, <3>1, <3>3 DEF RowRight, Alive
    <3> QED
      BY <3>2, <3>3
  <2> QED
    BY <2>2, <2>3 DEF RowRight, Alive, Minted
<1>13. ASSUME NEW b \in Browsers, NotPosted(b) PROVE RowRight'
  BY <1>0, <1>13 DEF NotPosted, Over, Doubted, RowRight, Alive, Minted, switch, ringing, Devices
<1>14. ASSUME NEW b \in Browsers, Posted(b) PROVE RowRight'
  BY <1>0, <1>14 DEF Posted, Over, Doubted, RowRight, Alive, Minted, switch, ringing, Devices
<1>15. ASSUME NEW b \in Browsers, Unpost(b) PROVE RowRight'
  <2>1. \A e \in Minted : row'[e] \in {None, row[e]}
    <3>1. CASE UNCHANGED row
      BY <3>1
    <3>2. CASE row' = [row EXCEPT ![sub[b]] = None]
      BY <1>0, <3>2
    <3> QED
      BY <1>15, <3>1, <3>2 DEF Unpost
  <2> QED
    BY <1>15, <2>1 DEF Unpost, RowRight, Alive, Minted, ringing
<1>16. ASSUME NEW b \in Browsers, Drop(b) PROVE RowRight'
  BY <1>0, <1>16 DEF Drop, Over, Doubted, RowRight, Alive, Minted, switch, ringing, Devices
<1>17. ASSUME NEW b \in Browsers, Block(b) PROVE RowRight'
  BY <1>0, <1>17 DEF Block, RowRight, Alive, Minted, switch, ringing, Devices
<1>18. ASSUME NEW b \in Browsers, NEW n \in notes[b], Tap(b, n) PROVE RowRight'
  BY <1>0, <1>18 DEF Tap, Cleared, RowRight, Alive, Minted, switch, ringing, Devices
<1>19. ASSUME NEW u \in Users, Invite(u) PROVE RowRight'
  BY <1>0, <1>19 DEF Invite, RowRight, Alive, Minted, switch, ringing, Devices
<1>20. ASSUME NEW c \in DOMAIN calls, PushOut(c) PROVE RowRight'
  BY <1>0, <1>20 DEF PushOut, RowRight, Alive, Minted, switch, ringing, Devices
<1>21. ASSUME NEW c \in DOMAIN calls, FcmOut(c) PROVE RowRight'
  BY <1>0, <1>21 DEF FcmOut, SendCall, OnMessage, RowRight, Alive, Minted, switch, ringing, Devices
<1>22. ASSUME NEW n \in sent, Arrive(n) PROVE RowRight'
  BY <1>0, <1>22 DEF Arrive, RowRight, Alive, Minted, switch, ringing, Devices
<1>23. ASSUME NEW n \in sent, Prune(n) PROVE RowRight'
  BY <1>0, <1>23 DEF Prune, RowRight, Alive, Minted, switch, ringing, Devices
<1>24. ASSUME NEW n \in sent, Lapse(n) PROVE RowRight'
  BY <1>0, <1>24 DEF Lapse, RowRight, Alive, Minted, switch, ringing, Devices
<1>25. CASE UNCHANGED vars
  BY <1>0, <1>25 DEF vars, RowRight, Alive, Minted, switch, ringing, Devices
<1> QED
  BY <1>1, <1>2, <1>3, <1>4, <1>5, <1>6, <1>7, <1>8, <1>9, <1>10, <1>11, <1>12, <1>13, <1>14, <1>15, <1>16, <1>17, <1>18, <1>19, <1>20, <1>21, <1>22, <1>23, <1>24, <1>25 DEF Next


\* A push on its way rings for the account of its browser, likewise.
LEMMA SentStays == TypeOK /\ RowRight /\ SentRight /\ [Next]_vars => SentRight'
<1> SUFFICES ASSUME TypeOK, RowRight, SentRight, [Next]_vars PROVE SentRight'
  OBVIOUS
<1> USE PushAssumption
<1>0. /\ Len(minted) \in Nat /\ Len(calls) \in Nat
      /\ minted \in Seq(Browsers)
      /\ signed \in [Devices -> Users \cup {None}] /\ sub \in [Browsers -> 0 .. Len(minted)]
      /\ \A e \in Minted : minted[e] \in Browsers
      /\ \A b \in Browsers : sub[b] # 0 => minted[sub[b]] = b
  BY DEF TypeOK, Minted
<1>c. \A n \in sent : n.call \in DOMAIN calls
  BY DEF TypeOK, Note
<1>d. \A c \in DOMAIN calls : calls[c].to \in Users
  BY Callees DEF TypeOK
<1>1. ASSUME NEW d \in Devices, NEW u \in Users, SignIn(d, u) PROVE SentRight'
  BY <1>0, <1>c, <1>d, <1>1 DEF SignIn, SentRight, Alive, Minted, switch, ringing, Devices
<1>2. ASSUME NEW d \in Devices, SignOut(d) PROVE SentRight'
  BY <1>0, <1>2 DEF SignOut, SentRight, Alive, Minted, switch, ringing, Devices
<1>3. ASSUME NEW ph \in Phones, SendToken(ph) PROVE SentRight'
  BY <1>0, <1>3 DEF SendToken, SentRight, Alive, Minted, switch, ringing, Devices
<1>4. ASSUME NEW ph \in Phones, NEW n \in notes[ph], OpenApp(ph, n) PROVE SentRight'
  BY <1>0, <1>4 DEF OpenApp, Cleared, SentRight, Alive, Minted, switch, ringing, Devices
<1>5. ASSUME NEW b \in Browsers, OpenSettings(b) PROVE SentRight'
  BY <1>0, <1>5 DEF OpenSettings, SentRight, Alive, Minted, switch, ringing, Devices
<1>6. ASSUME NEW b \in Browsers, LeaveSettings(b) PROVE SentRight'
  BY <1>0, <1>6 DEF LeaveSettings, SentRight, Alive, Minted, switch, ringing, Devices
<1>7. ASSUME NEW b \in Browsers, Enable(b) PROVE SentRight'
  BY <1>0, <1>7 DEF Enable, Press, SentRight, Alive, Minted, switch, ringing, Devices
<1>8. ASSUME NEW b \in Browsers, Disable(b) PROVE SentRight'
  BY <1>0, <1>8 DEF Disable, Press, SentRight, Alive, Minted, switch, ringing, Devices
<1>9. ASSUME NEW b \in Browsers, NotAsked(b) PROVE SentRight'
  BY <1>0, <1>9 DEF NotAsked, Over, SentRight, Alive, Minted, switch, ringing, Devices
<1>10. ASSUME NEW b \in Browsers, Refused(b) PROVE SentRight'
  BY <1>0, <1>10 DEF Refused, Over, SentRight, Alive, Minted, switch, ringing, Devices
<1>11. ASSUME NEW b \in Browsers, Subscribe(b) PROVE SentRight'
  <2>1. \A e \in Minted : e \in Minted' /\ minted'[e] = minted[e]
    BY <1>0, <1>11 DEF Subscribe, Minted
  <2>2. ASSUME NEW e \in Minted, sub'[minted[e]] = e PROVE sub[minted[e]] = e
    BY <1>0, <1>11, <2>2 DEF Subscribe, Minted
  <2> QED
    BY <1>11, <2>1, <2>2 DEF Subscribe, SentRight, Alive, ringing
<1>12. ASSUME NEW b \in Browsers, Post(b) PROVE SentRight'
  BY <1>0, <1>12 DEF Post, SentRight, Alive, Minted, switch, ringing, Devices
<1>13. ASSUME NEW b \in Browsers, NotPosted(b) PROVE SentRight'
  BY <1>0, <1>13 DEF NotPosted, Over, Doubted, SentRight, Alive, Minted, switch, ringing, Devices
<1>14. ASSUME NEW b \in Browsers, Posted(b) PROVE SentRight'
  BY <1>0, <1>14 DEF Posted, Over, Doubted, SentRight, Alive, Minted, switch, ringing, Devices
<1>15. ASSUME NEW b \in Browsers, Unpost(b) PROVE SentRight'
  BY <1>0, <1>15 DEF Unpost, Over, SentRight, Alive, Minted, switch, ringing, Devices
<1>16. ASSUME NEW b \in Browsers, Drop(b) PROVE SentRight'
  BY <1>0, <1>16 DEF Drop, Over, Doubted, SentRight, Alive, Minted, switch, ringing, Devices
<1>17. ASSUME NEW b \in Browsers, Block(b) PROVE SentRight'
  BY <1>0, <1>17 DEF Block, SentRight, Alive, Minted, switch, ringing, Devices
<1>18. ASSUME NEW b \in Browsers, NEW n \in notes[b], Tap(b, n) PROVE SentRight'
  BY <1>0, <1>18 DEF Tap, Cleared, SentRight, Alive, Minted, switch, ringing, Devices
<1>19. ASSUME NEW u \in Users, Invite(u) PROVE SentRight'
  <2>1. \A c \in DOMAIN calls : calls'[c] = calls[c]
    BY <1>0, <1>19 DEF Invite, TypeOK
  <2> QED
    BY <1>0, <1>c, <1>19, <2>1 DEF Invite, SentRight, Alive, Minted, switch
<1>20. ASSUME NEW c \in DOMAIN calls, PushOut(c) PROVE SentRight'
  <2>1. /\ UNCHANGED <<minted, sub, signed, passed>>
        /\ sent' = sent \cup {[call |-> c, end |-> e] : e \in {x \in Endpoints : row[x] = calls[c].to}}
    BY <1>20 DEF PushOut, switch
  <2>2. \A d \in DOMAIN calls : calls'[d].to = calls[d].to
    BY <1>20, CallMoved DEF PushOut, TypeOK
  <2>3. ASSUME NEW n \in sent'
        PROVE  n.end \in Minted /\ (Alive(n.end) => signed[minted[n.end]] = calls'[n.call].to \/ n.end \in passed)
    <3>1. CASE n \in sent
      BY <1>c, <2>2, <3>1 DEF SentRight
    <3>2. CASE n \notin sent
      <4>1. n.call = c /\ n.end \in Endpoints /\ row[n.end] = calls[c].to
        BY <2>1, <2>3, <3>2
      <4>2. calls[c].to # None
        BY <1>d
      <4>3. n.end \in Minted
        BY <4>1, <4>2 DEF Minted, Endpoints, TypeOK
      <4> QED
        BY <2>2, <4>1, <4>2, <4>3 DEF RowRight
    <3> QED
      BY <3>1, <3>2
  <2> QED
    BY <2>1, <2>3 DEF SentRight, Alive, Minted
<1>21. ASSUME NEW c \in DOMAIN calls, FcmOut(c) PROVE SentRight'
  <2>1. \A d \in DOMAIN calls : calls'[d].to = calls[d].to
    BY <1>21, CallMoved DEF FcmOut, TypeOK
  <2> QED
    BY <1>0, <1>c, <1>21, <2>1 DEF FcmOut, SentRight, Alive, Minted, switch
<1>22. ASSUME NEW n \in sent, Arrive(n) PROVE SentRight'
  BY <1>0, <1>22 DEF Arrive, SentRight, Alive, Minted, switch, ringing, Devices
<1>23. ASSUME NEW n \in sent, Prune(n) PROVE SentRight'
  BY <1>0, <1>23 DEF Prune, SentRight, Alive, Minted, switch, ringing, Devices
<1>24. ASSUME NEW n \in sent, Lapse(n) PROVE SentRight'
  BY <1>0, <1>24 DEF Lapse, SentRight, Alive, Minted, switch, ringing, Devices
<1>25. CASE UNCHANGED vars
  BY <1>0, <1>25 DEF vars, SentRight, Alive, Minted, switch, ringing, Devices
<1> QED
  BY <1>1, <1>2, <1>3, <1>4, <1>5, <1>6, <1>7, <1>8, <1>9, <1>10, <1>11, <1>12, <1>13, <1>14, <1>15, <1>16, <1>17, <1>18, <1>19, <1>20, <1>21, <1>22, <1>23, <1>24, <1>25 DEF Next


\* So does the phone a user is reached on.
LEMMA PhoneStays == TypeOK /\ PhoneRight /\ [Next]_vars => PhoneRight'
<1> SUFFICES ASSUME TypeOK, PhoneRight, [Next]_vars PROVE PhoneRight'
  OBVIOUS
<1> USE PushAssumption
<1>0. /\ signed \in [Devices -> Users \cup {None}] /\ fcm \in [Users -> Phones \cup {None}]
  BY DEF TypeOK
<1>1. ASSUME NEW d \in Devices, NEW u \in Users, SignIn(d, u) PROVE PhoneRight'
  BY <1>0, <1>1 DEF SignIn, PhoneRight, switch, ringing, Devices
<1>2. ASSUME NEW d \in Devices, SignOut(d) PROVE PhoneRight'
  BY <1>0, <1>2 DEF SignOut, PhoneRight, switch, ringing, Devices
<1>3. ASSUME NEW ph \in Phones, SendToken(ph) PROVE PhoneRight'
  BY <1>0, <1>3 DEF SendToken, PhoneRight, switch, ringing, Devices
<1>4. ASSUME NEW ph \in Phones, NEW n \in notes[ph], OpenApp(ph, n) PROVE PhoneRight'
  BY <1>0, <1>4 DEF OpenApp, Cleared, PhoneRight, switch, ringing, Devices
<1>5. ASSUME NEW b \in Browsers, OpenSettings(b) PROVE PhoneRight'
  BY <1>0, <1>5 DEF OpenSettings, PhoneRight, switch, ringing, Devices
<1>6. ASSUME NEW b \in Browsers, LeaveSettings(b) PROVE PhoneRight'
  BY <1>0, <1>6 DEF LeaveSettings, PhoneRight, switch, ringing, Devices
<1>7. ASSUME NEW b \in Browsers, Enable(b) PROVE PhoneRight'
  BY <1>0, <1>7 DEF Enable, Press, PhoneRight, switch, ringing, Devices
<1>8. ASSUME NEW b \in Browsers, Disable(b) PROVE PhoneRight'
  BY <1>0, <1>8 DEF Disable, Press, PhoneRight, switch, ringing, Devices
<1>9. ASSUME NEW b \in Browsers, NotAsked(b) PROVE PhoneRight'
  BY <1>0, <1>9 DEF NotAsked, Over, PhoneRight, switch, ringing, Devices
<1>10. ASSUME NEW b \in Browsers, Refused(b) PROVE PhoneRight'
  BY <1>0, <1>10 DEF Refused, Over, PhoneRight, switch, ringing, Devices
<1>11. ASSUME NEW b \in Browsers, Subscribe(b) PROVE PhoneRight'
  BY <1>0, <1>11 DEF Subscribe, PhoneRight, switch, ringing, Devices
<1>12. ASSUME NEW b \in Browsers, Post(b) PROVE PhoneRight'
  BY <1>0, <1>12 DEF Post, PhoneRight, switch, ringing, Devices
<1>13. ASSUME NEW b \in Browsers, NotPosted(b) PROVE PhoneRight'
  BY <1>0, <1>13 DEF NotPosted, Over, Doubted, PhoneRight, switch, ringing, Devices
<1>14. ASSUME NEW b \in Browsers, Posted(b) PROVE PhoneRight'
  BY <1>0, <1>14 DEF Posted, Over, Doubted, PhoneRight, switch, ringing, Devices
<1>15. ASSUME NEW b \in Browsers, Unpost(b) PROVE PhoneRight'
  BY <1>0, <1>15 DEF Unpost, Over, PhoneRight, switch, ringing, Devices
<1>16. ASSUME NEW b \in Browsers, Drop(b) PROVE PhoneRight'
  BY <1>0, <1>16 DEF Drop, Over, Doubted, PhoneRight, switch, ringing, Devices
<1>17. ASSUME NEW b \in Browsers, Block(b) PROVE PhoneRight'
  BY <1>0, <1>17 DEF Block, PhoneRight, switch, ringing, Devices
<1>18. ASSUME NEW b \in Browsers, NEW n \in notes[b], Tap(b, n) PROVE PhoneRight'
  BY <1>0, <1>18 DEF Tap, Cleared, PhoneRight, switch, ringing, Devices
<1>19. ASSUME NEW u \in Users, Invite(u) PROVE PhoneRight'
  BY <1>0, <1>19 DEF Invite, PhoneRight, switch, ringing, Devices
<1>20. ASSUME NEW c \in DOMAIN calls, PushOut(c) PROVE PhoneRight'
  BY <1>0, <1>20 DEF PushOut, PhoneRight, switch, ringing, Devices
<1>21. ASSUME NEW c \in DOMAIN calls, FcmOut(c) PROVE PhoneRight'
  BY <1>0, <1>21 DEF FcmOut, SendCall, OnMessage, PhoneRight, switch, ringing, Devices
<1>22. ASSUME NEW n \in sent, Arrive(n) PROVE PhoneRight'
  BY <1>0, <1>22 DEF Arrive, PhoneRight, switch, ringing, Devices
<1>23. ASSUME NEW n \in sent, Prune(n) PROVE PhoneRight'
  BY <1>0, <1>23 DEF Prune, PhoneRight, switch, ringing, Devices
<1>24. ASSUME NEW n \in sent, Lapse(n) PROVE PhoneRight'
  BY <1>0, <1>24 DEF Lapse, PhoneRight, switch, ringing, Devices
<1>25. CASE UNCHANGED vars
  BY <1>0, <1>25 DEF vars, PhoneRight, switch, ringing, Devices
<1> QED
  BY <1>1, <1>2, <1>3, <1>4, <1>5, <1>6, <1>7, <1>8, <1>9, <1>10, <1>11, <1>12, <1>13, <1>14, <1>15, <1>16, <1>17, <1>18, <1>19, <1>20, <1>21, <1>22, <1>23, <1>24, <1>25 DEF Next


\* A notification rings for the account of its device, likewise.
LEMMA NoteStays == TypeOK /\ SentRight /\ PhoneRight /\ NoteRight /\ [Next]_vars => NoteRight'
<1> SUFFICES ASSUME TypeOK, SentRight, PhoneRight, NoteRight, [Next]_vars PROVE NoteRight'
  OBVIOUS
<1> USE PushAssumption
<1>0. /\ signed \in [Devices -> Users \cup {None}] /\ notes \in [Devices -> SUBSET Note]
      /\ sub \in [Browsers -> 0 .. Len(minted)] /\ Browsers \cap Phones = {}
  BY DEF TypeOK
<1>c. \A d \in Devices : \A n \in notes[d] : n.call \in DOMAIN calls
  BY <1>0 DEF Note
<1>d. \A c \in DOMAIN calls : calls[c].to \in Users
  BY Callees DEF TypeOK
<1>1. ASSUME NEW d \in Devices, NEW u \in Users, SignIn(d, u) PROVE NoteRight'
  BY <1>0, <1>c, <1>d, <1>1 DEF SignIn, NoteRight, RightBell, switch, ringing
<1>2. ASSUME NEW d \in Devices, SignOut(d) PROVE NoteRight'
  <2>1. /\ passed \subseteq passed' /\ signed' = [signed EXCEPT ![d] = None] /\ UNCHANGED <<calls, notes>>
        /\ d \in Phones => d \in passed'
        /\ d \notin Phones => \A n \in notes[d] : n.end # 0 => n.end \in passed'
    BY <1>2 DEF SignOut, ringing
  <2>2. ASSUME NEW e \in Devices PROVE RightBell(e)'
    <3>1. CASE e # d
      BY <1>0, <2>1, <2>2, <3>1 DEF NoteRight, RightBell
    <3>2. CASE e = d
      BY <2>1, <2>2, <3>2 DEF NoteRight, RightBell, Devices
    <3> QED
      BY <3>1, <3>2
  <2> QED
    BY <2>1, <2>2 DEF NoteRight
<1>3. ASSUME NEW ph \in Phones, SendToken(ph) PROVE NoteRight'
  BY <1>0, <1>3 DEF SendToken, NoteRight, RightBell, switch, ringing, Devices
<1>4. ASSUME NEW ph \in Phones, NEW n \in notes[ph], OpenApp(ph, n) PROVE NoteRight'
  BY <1>0, <1>4 DEF OpenApp, Cleared, NoteRight, RightBell, switch, ringing, Devices
<1>5. ASSUME NEW b \in Browsers, OpenSettings(b) PROVE NoteRight'
  BY <1>0, <1>5 DEF OpenSettings, NoteRight, RightBell, switch, ringing, Devices
<1>6. ASSUME NEW b \in Browsers, LeaveSettings(b) PROVE NoteRight'
  BY <1>0, <1>6 DEF LeaveSettings, NoteRight, RightBell, switch, ringing, Devices
<1>7. ASSUME NEW b \in Browsers, Enable(b) PROVE NoteRight'
  BY <1>0, <1>7 DEF Enable, Press, NoteRight, RightBell, switch, ringing, Devices
<1>8. ASSUME NEW b \in Browsers, Disable(b) PROVE NoteRight'
  BY <1>0, <1>8 DEF Disable, Press, NoteRight, RightBell, switch, ringing, Devices
<1>9. ASSUME NEW b \in Browsers, NotAsked(b) PROVE NoteRight'
  BY <1>0, <1>9 DEF NotAsked, Over, NoteRight, RightBell, switch, ringing, Devices
<1>10. ASSUME NEW b \in Browsers, Refused(b) PROVE NoteRight'
  BY <1>0, <1>10 DEF Refused, Over, NoteRight, RightBell, switch, ringing, Devices
<1>11. ASSUME NEW b \in Browsers, Subscribe(b) PROVE NoteRight'
  BY <1>0, <1>11 DEF Subscribe, NoteRight, RightBell, switch, ringing, Devices
<1>12. ASSUME NEW b \in Browsers, Post(b) PROVE NoteRight'
  BY <1>0, <1>12 DEF Post, NoteRight, RightBell, switch, ringing, Devices
<1>13. ASSUME NEW b \in Browsers, NotPosted(b) PROVE NoteRight'
  BY <1>0, <1>13 DEF NotPosted, Over, Doubted, NoteRight, RightBell, switch, ringing, Devices
<1>14. ASSUME NEW b \in Browsers, Posted(b) PROVE NoteRight'
  BY <1>0, <1>14 DEF Posted, Over, Doubted, NoteRight, RightBell, switch, ringing, Devices
<1>15. ASSUME NEW b \in Browsers, Unpost(b) PROVE NoteRight'
  BY <1>0, <1>15 DEF Unpost, Over, NoteRight, RightBell, switch, ringing, Devices
<1>16. ASSUME NEW b \in Browsers, Drop(b) PROVE NoteRight'
  BY <1>0, <1>16 DEF Drop, Over, Doubted, NoteRight, RightBell, switch, ringing, Devices
<1>17. ASSUME NEW b \in Browsers, Block(b) PROVE NoteRight'
  BY <1>0, <1>17 DEF Block, NoteRight, RightBell, switch, ringing, Devices
<1>18. ASSUME NEW b \in Browsers, NEW n \in notes[b], Tap(b, n) PROVE NoteRight'
  BY <1>0, <1>18 DEF Tap, Cleared, NoteRight, RightBell, switch, ringing, Devices
<1>19. ASSUME NEW u \in Users, Invite(u) PROVE NoteRight'
  <2>1. \A c \in DOMAIN calls : calls'[c] = calls[c]
    BY <1>19 DEF Invite, TypeOK
  <2> QED
    BY <1>0, <1>c, <1>19, <2>1 DEF Invite, NoteRight, RightBell, switch
<1>20. ASSUME NEW c \in DOMAIN calls, PushOut(c) PROVE NoteRight'
  <2>1. \A d \in DOMAIN calls : calls'[d].to = calls[d].to
    BY <1>20, CallMoved DEF PushOut, TypeOK
  <2> QED
    BY <1>0, <1>c, <1>20, <2>1 DEF PushOut, NoteRight, RightBell, switch
<1>21. ASSUME NEW c \in DOMAIN calls, FcmOut(c) PROVE NoteRight'
  <2>1. \A d \in DOMAIN calls : calls'[d].to = calls[d].to
    BY <1>21, CallMoved DEF FcmOut, TypeOK
  <2>2. UNCHANGED <<signed, passed>>
    BY <1>21 DEF FcmOut
  <2>3. CASE UNCHANGED notes
    BY <1>c, <2>1, <2>2, <2>3 DEF NoteRight, RightBell
  <2>4. ASSUME NEW ph \in Phones, ph = fcm[calls[c].to], ph # None, OnMessage(ph, c) PROVE NoteRight'
    <3>1. notes' = [notes EXCEPT ![ph] = @ \cup {[call |-> c, end |-> 0]}]
      BY <2>4 DEF OnMessage
    <3>2. signed[ph] = calls[c].to \/ ph \in passed
      BY <1>d, <2>4 DEF PhoneRight
    <3>3. ASSUME NEW e \in Devices, NEW n \in notes'[e]
          PROVE  n \in notes[e] \/ (e = ph /\ n = [call |-> c, end |-> 0])
      BY <1>0, <3>1, <3>3
    <3>4. ASSUME NEW e \in Devices PROVE RightBell(e)'
      BY <1>c, <2>1, <2>2, <3>2, <3>3, <3>4 DEF NoteRight, RightBell
    <3>5. ph \in Devices /\ ph \notin Browsers
      BY <1>0, <2>4 DEF Devices
    <3>6. \A b \in Browsers : \A n \in notes'[b] : n.end # 0
      BY <3>3, <3>5 DEF NoteRight, Devices
    <3>7. \A e \in Phones : \A n \in notes'[e] : n.end = 0
      BY <3>3 DEF NoteRight, Devices
    <3> QED
      BY <3>4, <3>6, <3>7 DEF NoteRight
  <2>5. fcm[calls[c].to] \in Phones \cup {None}
    BY <1>d DEF TypeOK
  <2> QED
    BY <1>21, <2>3, <2>4, <2>5 DEF FcmOut, SendCall
<1>22. ASSUME NEW n \in sent, Arrive(n) PROVE NoteRight'
  <2>1. UNCHANGED <<signed, calls, passed>>
    BY <1>22 DEF Arrive
  <2>2. /\ minted[n.end] \in Browsers /\ n.end # 0
        /\ signed[minted[n.end]] = calls[n.call].to \/ n.end \in passed
    BY <1>22 DEF Arrive, SentRight, Minted, TypeOK
  <2>3. CASE UNCHANGED notes
    BY <2>1, <2>3 DEF NoteRight, RightBell
  <2>4. CASE notes' = [notes EXCEPT ![minted[n.end]] = @ \cup {n}]
    <3>1. ASSUME NEW e \in Devices, NEW m \in notes'[e]
          PROVE  m \in notes[e] \/ (e = minted[n.end] /\ m = n)
      BY <1>0, <2>4, <3>1
    <3>2. \A e \in Devices : RightBell(e)'
      BY <2>1, <2>2, <3>1 DEF NoteRight, RightBell
    <3>3. \A b \in Browsers : \A m \in notes'[b] : m.end # 0
      BY <2>2, <3>1 DEF NoteRight, Devices
    <3>4. \A e \in Phones : \A m \in notes'[e] : m.end = 0
      BY <1>0, <2>2, <3>1 DEF NoteRight, Devices
    <3> QED
      BY <3>2, <3>3, <3>4 DEF NoteRight
  <2> QED
    BY <1>22, <2>3, <2>4 DEF Arrive
<1>23. ASSUME NEW n \in sent, Prune(n) PROVE NoteRight'
  BY <1>0, <1>23 DEF Prune, NoteRight, RightBell, switch, ringing, Devices
<1>24. ASSUME NEW n \in sent, Lapse(n) PROVE NoteRight'
  BY <1>0, <1>24 DEF Lapse, NoteRight, RightBell, switch, ringing, Devices
<1>25. CASE UNCHANGED vars
  BY <1>0, <1>25 DEF vars, NoteRight, RightBell, switch, ringing, Devices
<1> QED
  BY <1>1, <1>2, <1>3, <1>4, <1>5, <1>6, <1>7, <1>8, <1>9, <1>10, <1>11, <1>12, <1>13, <1>14, <1>15, <1>16, <1>17, <1>18, <1>19, <1>20, <1>21, <1>22, <1>23, <1>24, <1>25 DEF Next


\* What a browser's request has made sure of stays so while its subscription,
\* its row and the fault that may have made it odd stay.
LEMMA Untouched ==
  ASSUME JobRight, NEW a \in Browsers,
         job'[a] = job[a], sub'[a] = sub[a], panel'[a] = panel[a],
         signed'[a] = signed[a], passed \subseteq passed',
         sub[a] # 0 => (row'[sub[a]] = None <=> row[sub[a]] = None),
         sub[a] # 0 => (sub[a] \in odd' <=> sub[a] \in odd),
         job[a].end # 0 => minted'[job[a].end] = minted[job[a].end]
  PROVE  Posting(a)' /\ Rest(a)'
<1>1. Posting(a) /\ Rest(a)
  BY DEF JobRight
<1> QED
  BY <1>1 DEF Posting, Rest, At

\* A request that is over leaves nothing to make sure of.
LEMMA AtRest ==
  ASSUME NEW b \in Browsers, job'[b] = Idle,
         sub'[b] \notin odd' \cup {0} => row'[sub'[b]] # None
  PROVE  Posting(b)' /\ Rest(b)'
<1>1. job'[b].at = "idle"
  BY DEF Idle
<1> QED
  BY <1>1 DEF Posting, Rest, At

\* The request of a switch: its end is the browser's, and the server knows it.
LEMMA JobStays == TypeOK /\ RowRight /\ JobRight /\ [Next]_vars => JobRight'
<1> SUFFICES ASSUME TypeOK, RowRight, JobRight, [Next]_vars PROVE JobRight'
  OBVIOUS
<1> USE PushAssumption
<1>0. /\ Len(minted) \in Nat
      /\ job \in [Browsers -> Job] /\ panel \in [Browsers -> Panels]
      /\ sub \in [Browsers -> 0 .. Len(minted)]
      /\ \A b \in Browsers : sub[b] # 0 => minted[sub[b]] = b
  BY DEF TypeOK, Job, Panels
<1>c. \A b \in Browsers : sub[b] # 0 => sub[b] \in Endpoints
  BY <1>0 DEF TypeOK, Endpoints
<1>s. signed \in [Devices -> Users \cup {None}] /\ row \in [Endpoints -> Users \cup {None}] /\ Browsers \subseteq Devices
  BY DEF TypeOK, Devices
<1>g. \A b \in Browsers : Posting(b) /\ Rest(b)
  BY DEF JobRight
<1>1. ASSUME NEW d \in Devices, NEW u \in Users, SignIn(d, u) PROVE JobRight'
  <2>1. ASSUME NEW a \in Browsers PROVE Posting(a)' /\ Rest(a)'
    BY <1>s, <1>g, <1>1 DEF SignIn, switch, Posting, Rest, At, Idle
  <2> QED
    BY <2>1 DEF JobRight
<1>2. ASSUME NEW d \in Devices, SignOut(d) PROVE JobRight'
  <2>0. /\ UNCHANGED <<sub, minted, row, odd>> /\ signed' = [signed EXCEPT ![d] = None]
        /\ passed \subseteq passed'
        /\ d \notin Phones => {sub[d]} \ {0} \subseteq passed'
        /\ \A a \in Browsers : a # d => job'[a] = job[a] /\ panel'[a] = panel[a]
    BY <1>0, <1>2 DEF SignOut
  <2>1. ASSUME NEW a \in Browsers, a # d PROVE Posting(a)' /\ Rest(a)'
    BY <1>s, <2>0, <2>1, Untouched
  <2>2. ASSUME d \in Browsers PROVE Posting(d)' /\ Rest(d)'
    <3>1. /\ d \notin Phones /\ panel'[d] = "closed"
          /\ job' = [job EXCEPT ![d] = [job[d] EXCEPT !.shown = FALSE]]
      BY <1>0, <1>2, <2>2 DEF SignOut
    <3>2. /\ job[d] \in Job /\ job'[d] = [job[d] EXCEPT !.shown = FALSE]
      BY <1>0, <2>2, <3>1
    <3>3. /\ job'[d].at = job[d].at /\ job'[d].end = job[d].end /\ job'[d].user = job[d].user
      BY <3>2 DEF Job, Idle, At
    <3> QED
      BY <1>g, <2>0, <2>2, <3>1, <3>3 DEF Posting, Rest, At
  <2> QED
    BY <2>1, <2>2 DEF JobRight
<1>3. ASSUME NEW ph \in Phones, SendToken(ph) PROVE JobRight'
  <2>1. ASSUME NEW a \in Browsers PROVE Posting(a)' /\ Rest(a)'
    BY <1>0, <1>c, <1>s, <1>g, <1>3, <2>1, Untouched DEF SendToken, switch
  <2> QED
    BY <2>1 DEF JobRight
<1>4. ASSUME NEW ph \in Phones, NEW n \in notes[ph], OpenApp(ph, n) PROVE JobRight'
  <2>1. ASSUME NEW a \in Browsers PROVE Posting(a)' /\ Rest(a)'
    BY <1>0, <1>c, <1>s, <1>g, <1>4, <2>1, Untouched DEF OpenApp, Cleared, switch
  <2> QED
    BY <2>1 DEF JobRight
<1>5. ASSUME NEW b \in Browsers, OpenSettings(b) PROVE JobRight'
  <2>1. ASSUME NEW a \in Browsers, a # b PROVE Posting(a)' /\ Rest(a)'
    <3>1. job'[a] = job[a] /\ sub'[a] = sub[a] /\ panel'[a] = panel[a]
      BY <1>0, <1>5, <2>1 DEF OpenSettings
    <3>2. signed' = signed /\ passed' = passed
      BY <1>5, <2>1 DEF OpenSettings
    <3>3. sub[a] # 0 => (row'[sub[a]] = None <=> row[sub[a]] = None)
      BY <1>5, <2>1 DEF OpenSettings
    <3>4. sub[a] # 0 => (sub[a] \in odd' <=> sub[a] \in odd)
      BY <1>5, <2>1 DEF OpenSettings
    <3>5. job[a].end # 0 => minted'[job[a].end] = minted[job[a].end]
      BY <1>5, <2>1 DEF OpenSettings
    <3> QED
      BY <3>1, <3>2, <3>3, <3>4, <3>5, Untouched
  <2>2. Posting(b)' /\ Rest(b)'
    BY <1>0, <1>g, <1>5 DEF OpenSettings, Posting, Rest, At, Idle
  <2> QED
    BY <2>1, <2>2 DEF JobRight
<1>6. ASSUME NEW b \in Browsers, LeaveSettings(b) PROVE JobRight'
  <2>1. ASSUME NEW a \in Browsers, a # b PROVE Posting(a)' /\ Rest(a)'
    <3>1. job'[a] = job[a] /\ sub'[a] = sub[a] /\ panel'[a] = panel[a]
      BY <1>0, <1>6, <2>1 DEF LeaveSettings
    <3>2. signed' = signed /\ passed' = passed
      BY <1>6, <2>1 DEF LeaveSettings
    <3>3. sub[a] # 0 => (row'[sub[a]] = None <=> row[sub[a]] = None)
      BY <1>6, <2>1 DEF LeaveSettings
    <3>4. sub[a] # 0 => (sub[a] \in odd' <=> sub[a] \in odd)
      BY <1>6, <2>1 DEF LeaveSettings
    <3>5. job[a].end # 0 => minted'[job[a].end] = minted[job[a].end]
      BY <1>6, <2>1 DEF LeaveSettings
    <3> QED
      BY <3>1, <3>2, <3>3, <3>4, <3>5, Untouched
  <2>2. Posting(b)' /\ Rest(b)'
    <3>1. /\ panel'[b] = "closed" /\ UNCHANGED <<signed, minted, sub, row, odd, passed>>
          /\ job' = [job EXCEPT ![b] = [job[b] EXCEPT !.shown = FALSE]]
      BY <1>0, <1>6 DEF LeaveSettings
    <3>2. /\ job[b] \in Job /\ job'[b] = [job[b] EXCEPT !.shown = FALSE]
      BY <1>0, <3>1
    <3>3. /\ job'[b].at = job[b].at /\ job'[b].end = job[b].end /\ job'[b].user = job[b].user
      BY <3>2 DEF Job, Idle, At
    <3> QED
      BY <1>g, <3>1, <3>3 DEF Posting, Rest, At
  <2> QED
    BY <2>1, <2>2 DEF JobRight
<1>7. ASSUME NEW b \in Browsers, Enable(b) PROVE JobRight'
  <2>1. ASSUME NEW a \in Browsers, a # b PROVE Posting(a)' /\ Rest(a)'
    <3>1. job'[a] = job[a] /\ sub'[a] = sub[a] /\ panel'[a] = panel[a]
      BY <1>0, <1>7, <2>1 DEF Enable, Press
    <3>2. signed' = signed /\ passed' = passed
      BY <1>7, <2>1 DEF Enable, Press
    <3>3. sub[a] # 0 => (row'[sub[a]] = None <=> row[sub[a]] = None)
      BY <1>7, <2>1 DEF Enable, Press
    <3>4. sub[a] # 0 => (sub[a] \in odd' <=> sub[a] \in odd)
      BY <1>7, <2>1 DEF Enable, Press
    <3>5. job[a].end # 0 => minted'[job[a].end] = minted[job[a].end]
      BY <1>7, <2>1 DEF Enable, Press
    <3> QED
      BY <3>1, <3>2, <3>3, <3>4, <3>5, Untouched
  <2>2. Posting(b)' /\ Rest(b)'
    BY <1>0, <1>g, <1>7 DEF Enable, Press, Posting, Rest, At, Idle
  <2> QED
    BY <2>1, <2>2 DEF JobRight
<1>8. ASSUME NEW b \in Browsers, Disable(b) PROVE JobRight'
  <2>1. ASSUME NEW a \in Browsers, a # b PROVE Posting(a)' /\ Rest(a)'
    <3>1. job'[a] = job[a] /\ sub'[a] = sub[a] /\ panel'[a] = panel[a]
      BY <1>0, <1>8, <2>1 DEF Disable, Press
    <3>2. signed' = signed /\ passed' = passed
      BY <1>8, <2>1 DEF Disable, Press
    <3>3. sub[a] # 0 => (row'[sub[a]] = None <=> row[sub[a]] = None)
      BY <1>8, <2>1 DEF Disable, Press
    <3>4. sub[a] # 0 => (sub[a] \in odd' <=> sub[a] \in odd)
      BY <1>8, <2>1 DEF Disable, Press
    <3>5. job[a].end # 0 => minted'[job[a].end] = minted[job[a].end]
      BY <1>8, <2>1 DEF Disable, Press
    <3> QED
      BY <3>1, <3>2, <3>3, <3>4, <3>5, Untouched
  <2>2. Posting(b)' /\ Rest(b)'
    BY <1>0, <1>g, <1>8 DEF Disable, Press, Posting, Rest, At, Idle
  <2> QED
    BY <2>1, <2>2 DEF JobRight
<1>9. ASSUME NEW b \in Browsers, NotAsked(b) PROVE JobRight'
  <2>1. ASSUME NEW a \in Browsers, a # b PROVE Posting(a)' /\ Rest(a)'
    <3>1. job'[a] = job[a] /\ sub'[a] = sub[a] /\ panel'[a] = panel[a]
      BY <1>0, <1>9, <2>1, OverFacts DEF NotAsked, Panels
    <3>2. signed' = signed /\ passed' = passed
      BY <1>9, <2>1 DEF NotAsked
    <3>3. sub[a] # 0 => (row'[sub[a]] = None <=> row[sub[a]] = None)
      BY <1>9, <2>1 DEF NotAsked
    <3>4. sub[a] # 0 => (sub[a] \in odd' <=> sub[a] \in odd)
      BY <1>9, <2>1 DEF NotAsked
    <3>5. job[a].end # 0 => minted'[job[a].end] = minted[job[a].end]
      BY <1>9, <2>1 DEF NotAsked
    <3> QED
      BY <3>1, <3>2, <3>3, <3>4, <3>5, Untouched
  <2>2. Posting(b)' /\ Rest(b)'
    <3>1. job'[b] = Idle
      BY <1>0, <1>9, OverFacts DEF NotAsked, Panels
    <3>2. odd' = odd
      BY <1>0, <1>g, <1>9, OverFacts DEF NotAsked, Panels, Doubted, Rest, At
    <3>3. sub'[b] \notin odd' \cup {0} => row'[sub'[b]] # None
      BY <1>g, <3>1, <3>2, <1>9 DEF NotAsked, Rest, At
    <3> QED
      BY <3>1, <3>3, AtRest
  <2> QED
    BY <2>1, <2>2 DEF JobRight
<1>10. ASSUME NEW b \in Browsers, Refused(b) PROVE JobRight'
  <2>1. ASSUME NEW a \in Browsers, a # b PROVE Posting(a)' /\ Rest(a)'
    <3>1. job'[a] = job[a] /\ sub'[a] = sub[a] /\ panel'[a] = panel[a]
      BY <1>0, <1>10, <2>1, OverFacts DEF Refused, Panels
    <3>2. signed' = signed /\ passed' = passed
      BY <1>10, <2>1 DEF Refused
    <3>3. sub[a] # 0 => (row'[sub[a]] = None <=> row[sub[a]] = None)
      BY <1>10, <2>1 DEF Refused
    <3>4. sub[a] # 0 => (sub[a] \in odd' <=> sub[a] \in odd)
      BY <1>10, <2>1 DEF Refused
    <3>5. job[a].end # 0 => minted'[job[a].end] = minted[job[a].end]
      BY <1>10, <2>1 DEF Refused
    <3> QED
      BY <3>1, <3>2, <3>3, <3>4, <3>5, Untouched
  <2>2. Posting(b)' /\ Rest(b)'
    <3>1. job'[b] = Idle
      BY <1>0, <1>10, OverFacts DEF Refused, Panels
    <3>2. odd' = odd /\ sub[b] = 0
      BY <1>0, <1>g, <1>10, OverFacts DEF Refused, Panels, Doubted, Rest, At
    <3>3. sub'[b] \notin odd' \cup {0} => row'[sub'[b]] # None
      BY <3>1, <3>2, <1>10 DEF Refused
    <3> QED
      BY <3>1, <3>3, AtRest
  <2> QED
    BY <2>1, <2>2 DEF JobRight
<1>11. ASSUME NEW b \in Browsers, Subscribe(b) PROVE JobRight'
  <2>1. ASSUME NEW a \in Browsers, a # b PROVE Posting(a)' /\ Rest(a)'
    <3>1. job'[a] = job[a] /\ sub'[a] = sub[a] /\ panel'[a] = panel[a]
      BY <1>0, <1>11, <2>1 DEF Subscribe
    <3>2. signed' = signed /\ passed' = passed
      BY <1>11, <2>1 DEF Subscribe
    <3>3. sub[a] # 0 => (row'[sub[a]] = None <=> row[sub[a]] = None)
      BY <1>11, <2>1 DEF Subscribe
    <3>4. sub[a] # 0 => (sub[a] \in odd' <=> sub[a] \in odd)
      BY <1>11, <2>1 DEF Subscribe
    <3>5. job[a].end # 0 => minted'[job[a].end] = minted[job[a].end]
      <4>1. UNCHANGED minted \/ minted' = Append(minted, b)
        BY <1>11 DEF Subscribe
      <4>2. job[a].end \in 0 .. Len(minted) /\ minted \in Seq(Browsers)
        BY <1>0, <2>1 DEF Job, TypeOK
      <4>3. ASSUME job[a].end # 0, minted' = Append(minted, b) PROVE minted'[job[a].end] = minted[job[a].end]
        <5> DEFINE e == job[a].end
        <5>1. e \in 1 .. Len(minted) /\ minted' = Append(minted, b)
          BY <1>0, <4>2, <4>3
        <5> HIDE DEF e
        <5>2. minted'[e] = minted[e]
          BY <4>2, <5>1
        <5> QED
          BY <5>2 DEF e
      <4> QED
        BY <4>1, <4>3
    <3> QED
      BY <3>1, <3>2, <3>3, <3>4, <3>5, Untouched
  <2>2. Posting(b)' /\ Rest(b)'
    <3>1. /\ job' = [job EXCEPT ![b] = [job[b] EXCEPT !.at = "post", !.end = sub'[b], !.user = signed[b]]]
          /\ signed' = signed
      BY <1>11 DEF Subscribe
    <3>2. job[b] \in Job /\ job'[b] = [job[b] EXCEPT !.at = "post", !.end = sub'[b], !.user = signed[b]]
      BY <1>0, <3>1
    <3>3. job'[b].at = "post" /\ job'[b].end = sub'[b] /\ job'[b].user = signed[b]
      BY <3>2 DEF Job
    <3>4. sub'[b] # 0 /\ minted'[sub'[b]] = b
      BY <1>0, <1>11 DEF Subscribe, TypeOK
    <3>5. Idle.at = "idle"
      BY DEF Idle
    <3> QED
      BY <3>1, <3>3, <3>4, <3>5 DEF Posting, Rest, At
  <2> QED
    BY <2>1, <2>2 DEF JobRight
<1>12. ASSUME NEW b \in Browsers, Post(b) PROVE JobRight'
  <2>1. ASSUME NEW a \in Browsers, a # b PROVE Posting(a)' /\ Rest(a)'
    <3>1. job'[a] = job[a] /\ sub'[a] = sub[a] /\ panel'[a] = panel[a]
      BY <1>0, <1>12, <2>1 DEF Post
    <3>2. signed' = signed /\ passed' = passed
      BY <1>12, <2>1 DEF Post
    <3>3. sub[a] # 0 => (row'[sub[a]] = None <=> row[sub[a]] = None)
      BY <1>0, <1>s, <1>g, <1>12, <2>1 DEF Post, Posting, At
    <3>4. sub[a] # 0 => (sub[a] \in odd' <=> sub[a] \in odd)
      BY <1>12, <2>1 DEF Post
    <3>5. job[a].end # 0 => minted'[job[a].end] = minted[job[a].end]
      BY <1>12, <2>1 DEF Post
    <3> QED
      BY <3>1, <3>2, <3>3, <3>4, <3>5, Untouched
  <2>2. Posting(b)' /\ Rest(b)'
    BY <1>0, <1>c, <1>s, <1>g, <1>12 DEF Post, Job, Posting, Rest, At, Idle
  <2> QED
    BY <2>1, <2>2 DEF JobRight
<1>13. ASSUME NEW b \in Browsers, NotPosted(b) PROVE JobRight'
  <2>1. ASSUME NEW a \in Browsers, a # b PROVE Posting(a)' /\ Rest(a)'
    <3>1. job'[a] = job[a] /\ sub'[a] = sub[a] /\ panel'[a] = panel[a]
      BY <1>0, <1>13, <2>1, OverFacts DEF NotPosted, Panels
    <3>2. signed' = signed /\ passed' = passed
      BY <1>13, <2>1 DEF NotPosted
    <3>3. sub[a] # 0 => (row'[sub[a]] = None <=> row[sub[a]] = None)
      BY <1>13, <2>1 DEF NotPosted
    <3>4. sub[a] # 0 => (sub[a] \in odd' <=> sub[a] \in odd)
      BY <1>0, <1>13, <2>1 DEF NotPosted, Doubted
    <3>5. job[a].end # 0 => minted'[job[a].end] = minted[job[a].end]
      BY <1>13, <2>1 DEF NotPosted
    <3> QED
      BY <3>1, <3>2, <3>3, <3>4, <3>5, Untouched
  <2>2. Posting(b)' /\ Rest(b)'
    <3>1. job'[b] = Idle
      BY <1>0, <1>13, OverFacts DEF NotPosted, Panels
    <3>2. {sub[b]} \ {0} \subseteq odd'
      BY <1>0, <1>g, <1>13, OverFacts DEF NotPosted, Panels, Doubted, Rest, At
    <3>3. sub'[b] \notin odd' \cup {0} => row'[sub'[b]] # None
      BY <3>1, <3>2, <1>13 DEF NotPosted
    <3> QED
      BY <3>1, <3>3, AtRest
  <2> QED
    BY <2>1, <2>2 DEF JobRight
<1>14. ASSUME NEW b \in Browsers, Posted(b) PROVE JobRight'
  <2>1. ASSUME NEW a \in Browsers, a # b PROVE Posting(a)' /\ Rest(a)'
    <3>1. job'[a] = job[a] /\ sub'[a] = sub[a] /\ panel'[a] = panel[a]
      BY <1>0, <1>14, <2>1, OverFacts DEF Posted, Panels
    <3>2. signed' = signed /\ passed' = passed
      BY <1>14, <2>1 DEF Posted
    <3>3. sub[a] # 0 => (row'[sub[a]] = None <=> row[sub[a]] = None)
      BY <1>14, <2>1 DEF Posted
    <3>4. sub[a] # 0 => (sub[a] \in odd' <=> sub[a] \in odd)
      BY <1>0, <1>g, <1>14, <2>1 DEF Posted, Doubted, Posting, At
    <3>5. job[a].end # 0 => minted'[job[a].end] = minted[job[a].end]
      BY <1>14, <2>1 DEF Posted
    <3> QED
      BY <3>1, <3>2, <3>3, <3>4, <3>5, Untouched
  <2>2. Posting(b)' /\ Rest(b)'
    <3>1. job'[b] = Idle
      BY <1>0, <1>14, OverFacts DEF Posted, Panels
    <3>2. sub[b] # 0 => row[sub[b]] # None
      BY <1>0, <1>g, <1>14, OverFacts DEF Posted, Panels, Doubted, Rest, At
    <3>3. sub'[b] \notin odd' \cup {0} => row'[sub'[b]] # None
      BY <3>1, <3>2, <1>14 DEF Posted
    <3> QED
      BY <3>1, <3>3, AtRest
  <2> QED
    BY <2>1, <2>2 DEF JobRight
<1>15. ASSUME NEW b \in Browsers, Unpost(b) PROVE JobRight'
  <2>1. ASSUME NEW a \in Browsers, a # b PROVE Posting(a)' /\ Rest(a)'
    <3>1. job'[a] = job[a] /\ sub'[a] = sub[a] /\ panel'[a] = panel[a]
      BY <1>0, <1>15, <2>1, OverFacts DEF Unpost, Panels
    <3>2. signed' = signed /\ passed' = passed
      BY <1>15, <2>1 DEF Unpost
    <3>3. sub[a] # 0 => (row'[sub[a]] = None <=> row[sub[a]] = None)
      BY <1>0, <1>c, <1>s, <1>15, <2>1 DEF Unpost
    <3>4. sub[a] # 0 => (sub[a] \in odd' <=> sub[a] \in odd)
      BY <1>15, <2>1 DEF Unpost
    <3>5. job[a].end # 0 => minted'[job[a].end] = minted[job[a].end]
      BY <1>15, <2>1 DEF Unpost
    <3> QED
      BY <3>1, <3>2, <3>3, <3>4, <3>5, Untouched
  <2>2. Posting(b)' /\ Rest(b)'
    <3>1. CASE sub[b] = 0 /\ Over(b, "disabled")
      <4>1. job'[b] = Idle
        BY <1>0, <3>1, OverFacts DEF Panels
      <4> QED
        BY <1>15, <3>1, <4>1, AtRest DEF Unpost
    <3>2. CASE sub[b] # 0 /\ job' = [job EXCEPT ![b] = [job[b] EXCEPT !.at = "drop", !.end = sub[b]]]
      <4>1. job'[b] = [job[b] EXCEPT !.at = "drop", !.end = sub[b]] /\ job[b] \in Job
        BY <1>0, <3>2
      <4>2. job'[b].at = "drop" /\ Idle.at = "idle"
        BY <4>1 DEF Job, Idle
      <4> QED
        BY <4>2 DEF Posting, Rest, At
    <3> QED
      BY <1>15, <3>1, <3>2 DEF Unpost
  <2> QED
    BY <2>1, <2>2 DEF JobRight
<1>16. ASSUME NEW b \in Browsers, Drop(b) PROVE JobRight'
  <2>1. ASSUME NEW a \in Browsers, a # b PROVE Posting(a)' /\ Rest(a)'
    <3>1. job'[a] = job[a] /\ sub'[a] = sub[a] /\ panel'[a] = panel[a]
      BY <1>0, <1>16, <2>1, OverFacts DEF Drop, Panels
    <3>2. signed' = signed /\ passed' = passed
      BY <1>16, <2>1 DEF Drop
    <3>3. sub[a] # 0 => (row'[sub[a]] = None <=> row[sub[a]] = None)
      BY <1>16, <2>1 DEF Drop
    <3>4. sub[a] # 0 => (sub[a] \in odd' <=> sub[a] \in odd)
      BY <1>0, <1>16, <2>1 DEF Drop, Doubted
    <3>5. job[a].end # 0 => minted'[job[a].end] = minted[job[a].end]
      BY <1>16, <2>1 DEF Drop
    <3> QED
      BY <3>1, <3>2, <3>3, <3>4, <3>5, Untouched
  <2>2. Posting(b)' /\ Rest(b)'
    <3>1. job'[b] = Idle
      BY <1>0, <1>16, OverFacts DEF Drop, Panels
    <3>2. sub'[b] = 0 \/ (sub'[b] = sub[b] /\ {sub[b]} \ {0} \subseteq odd')
      BY <1>0, <1>g, <1>16, OverFacts DEF Drop, Panels, Doubted, Rest, At
    <3>3. sub'[b] \notin odd' \cup {0} => row'[sub'[b]] # None
      BY <3>1, <3>2, <1>16 DEF Drop
    <3> QED
      BY <3>1, <3>3, AtRest
  <2> QED
    BY <2>1, <2>2 DEF JobRight
<1>17. ASSUME NEW b \in Browsers, Block(b) PROVE JobRight'
  <2>1. ASSUME NEW a \in Browsers, a # b PROVE Posting(a)' /\ Rest(a)'
    <3>1. job'[a] = job[a] /\ sub'[a] = sub[a] /\ panel'[a] = panel[a]
      BY <1>0, <1>17, <2>1 DEF Block
    <3>2. signed' = signed /\ passed' = passed
      BY <1>17, <2>1 DEF Block
    <3>3. sub[a] # 0 => (row'[sub[a]] = None <=> row[sub[a]] = None)
      BY <1>17, <2>1 DEF Block
    <3>4. sub[a] # 0 => (sub[a] \in odd' <=> sub[a] \in odd)
      BY <1>0, <1>17, <2>1 DEF Block
    <3>5. job[a].end # 0 => minted'[job[a].end] = minted[job[a].end]
      BY <1>17, <2>1 DEF Block
    <3> QED
      BY <3>1, <3>2, <3>3, <3>4, <3>5, Untouched
  <2>2. Posting(b)' /\ Rest(b)'
    BY <1>0, <1>g, <1>17 DEF Block, Posting, Rest, At, Idle
  <2> QED
    BY <2>1, <2>2 DEF JobRight
<1>18. ASSUME NEW b \in Browsers, NEW n \in notes[b], Tap(b, n) PROVE JobRight'
  <2>1. ASSUME NEW a \in Browsers PROVE Posting(a)' /\ Rest(a)'
    BY <1>0, <1>c, <1>s, <1>g, <1>18, <2>1, Untouched DEF Tap, Cleared, switch
  <2> QED
    BY <2>1 DEF JobRight
<1>19. ASSUME NEW u \in Users, Invite(u) PROVE JobRight'
  <2>1. ASSUME NEW a \in Browsers PROVE Posting(a)' /\ Rest(a)'
    BY <1>0, <1>c, <1>s, <1>g, <1>19, <2>1, Untouched DEF Invite, switch
  <2> QED
    BY <2>1 DEF JobRight
<1>20. ASSUME NEW c \in DOMAIN calls, PushOut(c) PROVE JobRight'
  <2>1. ASSUME NEW a \in Browsers PROVE Posting(a)' /\ Rest(a)'
    BY <1>0, <1>c, <1>s, <1>g, <1>20, <2>1, Untouched DEF PushOut, switch
  <2> QED
    BY <2>1 DEF JobRight
<1>21. ASSUME NEW c \in DOMAIN calls, FcmOut(c) PROVE JobRight'
  <2>1. ASSUME NEW a \in Browsers PROVE Posting(a)' /\ Rest(a)'
    BY <1>0, <1>c, <1>s, <1>g, <1>21, <2>1, Untouched DEF FcmOut, switch
  <2> QED
    BY <2>1 DEF JobRight
<1>22. ASSUME NEW n \in sent, Arrive(n) PROVE JobRight'
  <2>1. ASSUME NEW a \in Browsers PROVE Posting(a)' /\ Rest(a)'
    BY <1>0, <1>c, <1>s, <1>g, <1>22, <2>1, Untouched DEF Arrive, switch
  <2> QED
    BY <2>1 DEF JobRight
<1>23. ASSUME NEW n \in sent, Prune(n) PROVE JobRight'
  <2>1. ASSUME NEW a \in Browsers PROVE Posting(a)' /\ Rest(a)'
    <3>1. sub[a] # 0 => row'[sub[a]] = row[sub[a]]
      BY <1>0, <1>c, <1>s, <1>23 DEF Prune, Alive
    <3> QED
      BY <1>23, <3>1, Untouched DEF Prune, switch
  <2> QED
    BY <2>1 DEF JobRight
<1>24. ASSUME NEW n \in sent, Lapse(n) PROVE JobRight'
  <2>1. ASSUME NEW a \in Browsers PROVE Posting(a)' /\ Rest(a)'
    BY <1>0, <1>c, <1>s, <1>g, <1>24, <2>1, Untouched DEF Lapse, switch
  <2> QED
    BY <2>1 DEF JobRight
<1>25. CASE UNCHANGED vars
  BY <1>0, <1>25 DEF vars, JobRight, Posting, Rest, At, switch
<1> QED
  BY <1>1, <1>2, <1>3, <1>4, <1>5, <1>6, <1>7, <1>8, <1>9, <1>10, <1>11, <1>12, <1>13, <1>14, <1>15, <1>16, <1>17, <1>18, <1>19, <1>20, <1>21, <1>22, <1>23, <1>24, <1>25 DEF Next


\* A page stays right while nothing it goes by moves.
LEMMA Undisturbed ==
  ASSUME PageRight, NEW a \in Browsers,
         job'[a] = job[a], sub'[a] = sub[a], panel'[a] = panel[a], a \in stale' <=> a \in stale,
         sub[a] # 0 => (sub[a] \in odd' <=> sub[a] \in odd)
  PROVE  Waits(a)' /\ Shows(a)'
<1>1. Waits(a) /\ Shows(a)
  BY DEF PageRight
<1> QED
  BY <1>1 DEF Waits, Shows, At

\* The end of a request: its own page shows what there is, another is stale.
LEMMA Told ==
  ASSUME PageRight, NEW b \in Browsers, NEW state \in {"enabled", "disabled", "denied"},
         job'[b] = Idle, panel'[b] = (IF job[b].shown THEN state ELSE panel[b]), UNCHANGED stale,
         ~At(b, "idle"),
         job[b].shown /\ b \notin stale =>
             /\ state = "disabled" => sub'[b] \in odd' \cup {0}
             /\ state = "enabled" => sub'[b] # 0
             /\ state = "denied" => sub'[b] = 0
  PROVE  Waits(b)' /\ Shows(b)'
<1>1. Waits(b) /\ Shows(b)
  BY DEF PageRight
<1>2. job'[b].at = "idle" /\ job'[b].shown = FALSE
  BY DEF Idle
<1> QED
  BY <1>1, <1>2 DEF Waits, Shows, At

\* Every page but a stale one shows what its browser has.
LEMMA PageStays == TypeOK /\ JobRight /\ PageRight /\ [Next]_vars => PageRight'
<1> SUFFICES ASSUME TypeOK, JobRight, PageRight, [Next]_vars PROVE PageRight'
  OBVIOUS
<1> USE PushAssumption
<1>0. /\ Len(minted) \in Nat
      /\ job \in [Browsers -> Job] /\ panel \in [Browsers -> Panels]
      /\ sub \in [Browsers -> 0 .. Len(minted)]
      /\ \A b \in Browsers : sub[b] # 0 => minted[sub[b]] = b /\ b \notin blocked
  BY DEF TypeOK, Job, Panels
<1>g. \A b \in Browsers : Posting(b) /\ Rest(b) /\ Waits(b) /\ Shows(b)
  BY DEF JobRight, PageRight
<1>w. ASSUME NEW b \in Browsers, \A a \in Browsers \ {b} : Waits(a)' /\ Shows(a)', Waits(b)' /\ Shows(b)'
      PROVE  PageRight'
  BY <1>w DEF PageRight
<1>u. Idle.at = "idle" /\ Idle.shown = FALSE
  BY DEF Idle
<1>1. ASSUME NEW d \in Devices, NEW u \in Users, SignIn(d, u) PROVE PageRight'
  <2>1. UNCHANGED <<job, sub, panel, stale, odd>>
    BY <1>1 DEF SignIn, switch
  <2>2. \A a \in Browsers : Waits(a)' /\ Shows(a)'
    BY <2>1, Undisturbed
  <2> QED
    BY <2>2 DEF PageRight
<1>2. ASSUME NEW d \in Devices, SignOut(d) PROVE PageRight'
  <2>1. \A a \in Browsers \ {d} : job'[a] = job[a] /\ panel'[a] = panel[a]
    BY <1>0, <1>2 DEF SignOut
  <2>2. UNCHANGED <<sub, stale, odd>>
    BY <1>2 DEF SignOut
  <2>3. \A a \in Browsers \ {d} : Waits(a)' /\ Shows(a)'
    BY <2>1, <2>2, Undisturbed
  <2>4. ASSUME d \in Browsers PROVE Waits(d)' /\ Shows(d)'
    <3>1. /\ d \notin Phones /\ panel'[d] = "closed"
          /\ job' = [job EXCEPT ![d] = [job[d] EXCEPT !.shown = FALSE]]
      BY <1>0, <1>2, <2>4 DEF SignOut
    <3>2. job[d] \in Job /\ job'[d] = [job[d] EXCEPT !.shown = FALSE]
      BY <1>0, <2>4, <3>1
    <3>3. job'[d].shown = FALSE
      BY <3>2 DEF Job
    <3> QED
      BY <3>1, <3>3 DEF Waits, Shows
  <2> QED
    BY <2>3, <2>4 DEF PageRight
<1>3. ASSUME NEW ph \in Phones, SendToken(ph) PROVE PageRight'
  <2>1. UNCHANGED <<job, sub, panel, stale, odd>>
    BY <1>3 DEF SendToken, switch
  <2>2. \A a \in Browsers : Waits(a)' /\ Shows(a)'
    BY <2>1, Undisturbed
  <2> QED
    BY <2>2 DEF PageRight
<1>4. ASSUME NEW ph \in Phones, NEW n \in notes[ph], OpenApp(ph, n) PROVE PageRight'
  <2>1. UNCHANGED <<job, sub, panel, stale, odd>>
    BY <1>4 DEF OpenApp, Cleared, switch
  <2>2. \A a \in Browsers : Waits(a)' /\ Shows(a)'
    BY <2>1, Undisturbed
  <2> QED
    BY <2>2 DEF PageRight
<1>5. ASSUME NEW b \in Browsers, OpenSettings(b) PROVE PageRight'
  <2>1. ASSUME NEW a \in Browsers \ {b} PROVE Waits(a)' /\ Shows(a)'
    <3>1. job'[a] = job[a] /\ sub'[a] = sub[a] /\ panel'[a] = panel[a]
      BY <1>0, <1>5, <2>1 DEF OpenSettings
    <3>2. a \in stale' <=> a \in stale
      BY <1>5, <2>1 DEF OpenSettings
    <3>3. sub[a] # 0 => (sub[a] \in odd' <=> sub[a] \in odd)
      BY <1>0, <1>g, <1>5, <2>1 DEF OpenSettings, Doubted, Posting, At
    <3> QED
      BY <3>1, <3>2, <3>3, Undisturbed
  <2>2. Waits(b)' /\ Shows(b)'
    <3>1. UNCHANGED <<job, sub, odd>> /\ panel'[b] \in {"denied", "enabled", "disabled"}
      BY <1>0, <1>5 DEF OpenSettings
    <3>2. /\ panel'[b] = "disabled" => sub[b] = 0
          /\ panel'[b] = "enabled" => sub[b] # 0
          /\ panel'[b] = "denied" => sub[b] = 0
      BY <1>0, <1>5 DEF OpenSettings
    <3>3. b \notin stale' => job[b] = Idle
      BY <1>5 DEF OpenSettings
    <3>4. ~job[b].shown
      BY <1>g, <1>5 DEF OpenSettings, Waits
    <3> QED
      BY <1>u, <3>1, <3>2, <3>3, <3>4 DEF Waits, Shows, At
  <2> QED
    BY <1>w, <2>1, <2>2
<1>6. ASSUME NEW b \in Browsers, LeaveSettings(b) PROVE PageRight'
  <2>1. ASSUME NEW a \in Browsers \ {b} PROVE Waits(a)' /\ Shows(a)'
    <3>1. job'[a] = job[a] /\ sub'[a] = sub[a] /\ panel'[a] = panel[a]
      BY <1>0, <1>6, <2>1 DEF LeaveSettings
    <3>2. a \in stale' <=> a \in stale
      BY <1>6, <2>1 DEF LeaveSettings
    <3>3. sub[a] # 0 => (sub[a] \in odd' <=> sub[a] \in odd)
      BY <1>0, <1>g, <1>6, <2>1 DEF LeaveSettings, Doubted, Posting, At
    <3> QED
      BY <3>1, <3>2, <3>3, Undisturbed
  <2>2. Waits(b)' /\ Shows(b)'
    <3>1. panel'[b] = "closed" /\ job' = [job EXCEPT ![b] = [job[b] EXCEPT !.shown = FALSE]]
      BY <1>0, <1>6 DEF LeaveSettings
    <3>2. job[b] \in Job /\ job'[b] = [job[b] EXCEPT !.shown = FALSE]
      BY <1>0, <3>1
    <3>3. job'[b].shown = FALSE
      BY <3>2 DEF Job
    <3> QED
      BY <3>1, <3>3 DEF Waits, Shows
  <2> QED
    BY <1>w, <2>1, <2>2
<1>7. ASSUME NEW b \in Browsers, Enable(b) PROVE PageRight'
  <2>1. ASSUME NEW a \in Browsers \ {b} PROVE Waits(a)' /\ Shows(a)'
    <3>1. job'[a] = job[a] /\ sub'[a] = sub[a] /\ panel'[a] = panel[a]
      BY <1>0, <1>7, <2>1 DEF Enable, Press
    <3>2. a \in stale' <=> a \in stale
      BY <1>7, <2>1 DEF Enable, Press
    <3>3. sub[a] # 0 => (sub[a] \in odd' <=> sub[a] \in odd)
      BY <1>0, <1>g, <1>7, <2>1 DEF Enable, Press, Doubted, Posting, At
    <3> QED
      BY <3>1, <3>2, <3>3, Undisturbed
  <2>2. Waits(b)' /\ Shows(b)'
    <3>1. UNCHANGED <<panel, sub, odd, stale>> /\ job[b] = Idle /\ panel[b] = "disabled"
      BY <1>7 DEF Enable, Press
    <3>2. job'[b] = [Idle EXCEPT !.at = "ask", !.shown = TRUE]
      BY <1>0, <1>7 DEF Enable, Press
    <3>3. job'[b].at = "ask" /\ job'[b].shown = TRUE
      BY <3>2 DEF Idle
    <3> QED
      BY <1>g, <1>u, <3>1, <3>3 DEF Waits, Shows, At
  <2> QED
    BY <1>w, <2>1, <2>2
<1>8. ASSUME NEW b \in Browsers, Disable(b) PROVE PageRight'
  <2>1. ASSUME NEW a \in Browsers \ {b} PROVE Waits(a)' /\ Shows(a)'
    <3>1. job'[a] = job[a] /\ sub'[a] = sub[a] /\ panel'[a] = panel[a]
      BY <1>0, <1>8, <2>1 DEF Disable, Press
    <3>2. a \in stale' <=> a \in stale
      BY <1>8, <2>1 DEF Disable, Press
    <3>3. sub[a] # 0 => (sub[a] \in odd' <=> sub[a] \in odd)
      BY <1>0, <1>g, <1>8, <2>1 DEF Disable, Press, Doubted, Posting, At
    <3> QED
      BY <3>1, <3>2, <3>3, Undisturbed
  <2>2. Waits(b)' /\ Shows(b)'
    <3>1. UNCHANGED <<panel, sub, odd, stale>> /\ job[b] = Idle /\ panel[b] = "enabled"
      BY <1>8 DEF Disable, Press
    <3>2. job'[b] = [Idle EXCEPT !.at = "unpost", !.shown = TRUE]
      BY <1>0, <1>8 DEF Disable, Press
    <3>3. job'[b].at = "unpost" /\ job'[b].shown = TRUE
      BY <3>2 DEF Idle
    <3> QED
      BY <1>g, <1>u, <3>1, <3>3 DEF Waits, Shows, At
  <2> QED
    BY <1>w, <2>1, <2>2
<1>9. ASSUME NEW b \in Browsers, NotAsked(b) PROVE PageRight'
  <2>1. ASSUME NEW a \in Browsers \ {b} PROVE Waits(a)' /\ Shows(a)'
    <3>1. job'[a] = job[a] /\ sub'[a] = sub[a] /\ panel'[a] = panel[a]
      BY <1>0, <1>9, <2>1, OverFacts DEF NotAsked, Panels
    <3>2. a \in stale' <=> a \in stale
      BY <1>9, <2>1 DEF NotAsked
    <3>3. sub[a] # 0 => (sub[a] \in odd' <=> sub[a] \in odd)
      BY <1>0, <1>g, <1>9, <2>1 DEF NotAsked, Doubted, Posting, At
    <3> QED
      BY <3>1, <3>2, <3>3, Undisturbed
  <2>2. Waits(b)' /\ Shows(b)'
    <3>1. UNCHANGED <<sub, odd, stale>> /\ job[b].at = "ask"
      BY <1>9 DEF NotAsked, At
    <3>2. CASE sub[b] = 0 /\ Over(b, "disabled")
      <4>1. job'[b] = Idle /\ panel'[b] = IF job[b].shown THEN "disabled" ELSE panel[b]
        BY <1>0, <3>2, OverFacts DEF Panels
      <4> QED
        BY <3>1, <3>2, <4>1, Told DEF At
    <3>3. CASE Over(b, panel[b])
      <4>1. job'[b] = Idle /\ panel'[b] = panel[b]
        BY <1>0, <3>3, OverFacts
      <4> QED
        BY <1>g, <1>u, <3>1, <4>1 DEF Waits, Shows, At
    <3> QED
      BY <1>9, <3>2, <3>3 DEF NotAsked
  <2> QED
    BY <1>w, <2>1, <2>2
<1>10. ASSUME NEW b \in Browsers, Refused(b) PROVE PageRight'
  <2>1. ASSUME NEW a \in Browsers \ {b} PROVE Waits(a)' /\ Shows(a)'
    <3>1. job'[a] = job[a] /\ sub'[a] = sub[a] /\ panel'[a] = panel[a]
      BY <1>0, <1>10, <2>1, OverFacts DEF Refused, Panels
    <3>2. a \in stale' <=> a \in stale
      BY <1>10, <2>1 DEF Refused
    <3>3. sub[a] # 0 => (sub[a] \in odd' <=> sub[a] \in odd)
      BY <1>0, <1>g, <1>10, <2>1 DEF Refused, Doubted, Posting, At
    <3> QED
      BY <3>1, <3>2, <3>3, Undisturbed
  <2>2. Waits(b)' /\ Shows(b)'
    <3>1. UNCHANGED <<sub, stale>> /\ job[b].at = "ask" /\ Over(b, "denied") /\ sub[b] = 0
      BY <1>10 DEF Refused, At
    <3>2. job'[b] = Idle /\ panel'[b] = IF job[b].shown THEN "denied" ELSE panel[b]
      BY <1>0, <3>1, OverFacts DEF Panels
    <3> QED
      BY <3>1, <3>2, Told DEF At
  <2> QED
    BY <1>w, <2>1, <2>2
<1>11. ASSUME NEW b \in Browsers, Subscribe(b) PROVE PageRight'
  <2>1. ASSUME NEW a \in Browsers \ {b} PROVE Waits(a)' /\ Shows(a)'
    <3>1. job'[a] = job[a] /\ sub'[a] = sub[a] /\ panel'[a] = panel[a]
      BY <1>0, <1>11, <2>1 DEF Subscribe
    <3>2. a \in stale' <=> a \in stale
      BY <1>11, <2>1 DEF Subscribe
    <3>3. sub[a] # 0 => (sub[a] \in odd' <=> sub[a] \in odd)
      BY <1>0, <1>g, <1>11, <2>1 DEF Subscribe, Doubted, Posting, At
    <3> QED
      BY <3>1, <3>2, <3>3, Undisturbed
  <2>2. Waits(b)' /\ Shows(b)'
    <3>1. /\ job' = [job EXCEPT ![b] = [job[b] EXCEPT !.at = "post", !.end = sub'[b], !.user = signed[b]]]
          /\ UNCHANGED <<panel, odd, stale>> /\ job[b].at = "ask"
      BY <1>11 DEF Subscribe, At
    <3>2. job[b] \in Job /\ job'[b] = [job[b] EXCEPT !.at = "post", !.end = sub'[b], !.user = signed[b]]
      BY <1>0, <3>1
    <3>3. job'[b].at = "post" /\ job'[b].shown = job[b].shown
      BY <3>2 DEF Job
    <3>4. sub'[b] # 0
      BY <1>0, <1>11 DEF Subscribe
    <3> QED
      BY <1>g, <3>1, <3>3, <3>4 DEF Waits, Shows, At
  <2> QED
    BY <1>w, <2>1, <2>2
<1>12. ASSUME NEW b \in Browsers, Post(b) PROVE PageRight'
  <2>1. ASSUME NEW a \in Browsers \ {b} PROVE Waits(a)' /\ Shows(a)'
    <3>1. job'[a] = job[a] /\ sub'[a] = sub[a] /\ panel'[a] = panel[a]
      BY <1>0, <1>12, <2>1 DEF Post
    <3>2. a \in stale' <=> a \in stale
      BY <1>12, <2>1 DEF Post
    <3>3. sub[a] # 0 => (sub[a] \in odd' <=> sub[a] \in odd)
      BY <1>0, <1>g, <1>12, <2>1 DEF Post, Doubted, Posting, At
    <3> QED
      BY <3>1, <3>2, <3>3, Undisturbed
  <2>2. Waits(b)' /\ Shows(b)'
    <3>1. /\ job' = [job EXCEPT ![b] = [job[b] EXCEPT !.at = "reply"]]
          /\ UNCHANGED <<panel, sub, odd, stale>> /\ job[b].at = "post"
      BY <1>12 DEF Post, At
    <3>2. job[b] \in Job /\ job'[b] = [job[b] EXCEPT !.at = "reply"]
      BY <1>0, <3>1
    <3>3. job'[b].at = "reply" /\ job'[b].shown = job[b].shown
      BY <3>2 DEF Job
    <3> QED
      BY <1>g, <3>1, <3>3 DEF Waits, Shows, At
  <2> QED
    BY <1>w, <2>1, <2>2
<1>13. ASSUME NEW b \in Browsers, NotPosted(b) PROVE PageRight'
  <2>1. ASSUME NEW a \in Browsers \ {b} PROVE Waits(a)' /\ Shows(a)'
    <3>1. job'[a] = job[a] /\ sub'[a] = sub[a] /\ panel'[a] = panel[a]
      BY <1>0, <1>13, <2>1, OverFacts DEF NotPosted, Panels
    <3>2. a \in stale' <=> a \in stale
      BY <1>13, <2>1 DEF NotPosted
    <3>3. sub[a] # 0 => (sub[a] \in odd' <=> sub[a] \in odd)
      BY <1>0, <1>g, <1>13, <2>1 DEF NotPosted, Doubted, Posting, At
    <3> QED
      BY <3>1, <3>2, <3>3, Undisturbed
  <2>2. Waits(b)' /\ Shows(b)'
    <3>1. /\ UNCHANGED <<sub, stale>> /\ job[b].at \in {"post", "reply"}
          /\ Over(b, panel[b]) /\ {sub[b]} \ {0} \subseteq odd'
      BY <1>13 DEF NotPosted, At, Doubted
    <3>2. job'[b] = Idle /\ panel'[b] = panel[b]
      BY <1>0, <3>1, OverFacts
    <3> QED
      BY <1>g, <1>u, <3>1, <3>2 DEF Waits, Shows, At
  <2> QED
    BY <1>w, <2>1, <2>2
<1>14. ASSUME NEW b \in Browsers, Posted(b) PROVE PageRight'
  <2>1. ASSUME NEW a \in Browsers \ {b} PROVE Waits(a)' /\ Shows(a)'
    <3>1. job'[a] = job[a] /\ sub'[a] = sub[a] /\ panel'[a] = panel[a]
      BY <1>0, <1>14, <2>1, OverFacts DEF Posted, Panels
    <3>2. a \in stale' <=> a \in stale
      BY <1>14, <2>1 DEF Posted
    <3>3. sub[a] # 0 => (sub[a] \in odd' <=> sub[a] \in odd)
      BY <1>0, <1>g, <1>14, <2>1 DEF Posted, Doubted, Posting, At
    <3> QED
      BY <3>1, <3>2, <3>3, Undisturbed
  <2>2. Waits(b)' /\ Shows(b)'
    <3>1. UNCHANGED <<sub, stale>> /\ job[b].at = "reply" /\ Over(b, "enabled")
      BY <1>14 DEF Posted, At
    <3>2. job'[b] = Idle /\ panel'[b] = IF job[b].shown THEN "enabled" ELSE panel[b]
      BY <1>0, <3>1, OverFacts DEF Panels
    <3>3. job[b].shown /\ b \notin stale => sub[b] # 0
      BY <1>g, <3>1 DEF Shows, At
    <3> QED
      BY <3>1, <3>2, <3>3, Told DEF At
  <2> QED
    BY <1>w, <2>1, <2>2
<1>15. ASSUME NEW b \in Browsers, Unpost(b) PROVE PageRight'
  <2>1. ASSUME NEW a \in Browsers \ {b} PROVE Waits(a)' /\ Shows(a)'
    <3>1. job'[a] = job[a] /\ sub'[a] = sub[a] /\ panel'[a] = panel[a]
      BY <1>0, <1>15, <2>1, OverFacts DEF Unpost, Panels
    <3>2. a \in stale' <=> a \in stale
      BY <1>15, <2>1 DEF Unpost
    <3>3. sub[a] # 0 => (sub[a] \in odd' <=> sub[a] \in odd)
      BY <1>0, <1>g, <1>15, <2>1 DEF Unpost, Doubted, Posting, At
    <3> QED
      BY <3>1, <3>2, <3>3, Undisturbed
  <2>2. Waits(b)' /\ Shows(b)'
    <3>1. UNCHANGED <<sub, odd, stale>> /\ job[b].at = "unpost"
      BY <1>15 DEF Unpost, At
    <3>2. CASE sub[b] = 0 /\ Over(b, "disabled")
      <4>1. job'[b] = Idle /\ panel'[b] = IF job[b].shown THEN "disabled" ELSE panel[b]
        BY <1>0, <3>2, OverFacts DEF Panels
      <4> QED
        BY <3>1, <3>2, <4>1, Told DEF At
    <3>3. CASE /\ sub[b] # 0 /\ UNCHANGED panel
               /\ job' = [job EXCEPT ![b] = [job[b] EXCEPT !.at = "drop", !.end = sub[b]]]
      <4>1. job'[b] = [job[b] EXCEPT !.at = "drop", !.end = sub[b]] /\ job[b] \in Job
        BY <1>0, <3>3
      <4>2. job'[b].at = "drop" /\ job'[b].shown = job[b].shown
        BY <4>1 DEF Job
      <4> QED
        BY <1>g, <3>1, <3>3, <4>2 DEF Waits, Shows, At
    <3> QED
      BY <1>15, <3>2, <3>3 DEF Unpost
  <2> QED
    BY <1>w, <2>1, <2>2
<1>16. ASSUME NEW b \in Browsers, Drop(b) PROVE PageRight'
  <2>1. ASSUME NEW a \in Browsers \ {b} PROVE Waits(a)' /\ Shows(a)'
    <3>1. job'[a] = job[a] /\ sub'[a] = sub[a] /\ panel'[a] = panel[a]
      BY <1>0, <1>16, <2>1, OverFacts DEF Drop, Panels
    <3>2. a \in stale' <=> a \in stale
      BY <1>16, <2>1 DEF Drop
    <3>3. sub[a] # 0 => (sub[a] \in odd' <=> sub[a] \in odd)
      BY <1>0, <1>g, <1>16, <2>1 DEF Drop, Doubted, Posting, At
    <3> QED
      BY <3>1, <3>2, <3>3, Undisturbed
  <2>2. Waits(b)' /\ Shows(b)'
    <3>1. /\ UNCHANGED stale /\ job[b].at = "drop" /\ Over(b, "disabled")
          /\ sub'[b] \in odd' \cup {0}
      BY <1>0, <1>16 DEF Drop, At, Doubted
    <3>2. job'[b] = Idle /\ panel'[b] = IF job[b].shown THEN "disabled" ELSE panel[b]
      BY <1>0, <3>1, OverFacts DEF Panels
    <3> QED
      BY <3>1, <3>2, Told DEF At
  <2> QED
    BY <1>w, <2>1, <2>2
<1>17. ASSUME NEW b \in Browsers, Block(b) PROVE PageRight'
  <2>1. ASSUME NEW a \in Browsers \ {b} PROVE Waits(a)' /\ Shows(a)'
    <3>1. job'[a] = job[a] /\ sub'[a] = sub[a] /\ panel'[a] = panel[a]
      BY <1>0, <1>17, <2>1 DEF Block
    <3>2. a \in stale' <=> a \in stale
      BY <1>17, <2>1 DEF Block
    <3>3. sub[a] # 0 => (sub[a] \in odd' <=> sub[a] \in odd)
      BY <1>0, <1>g, <1>17, <2>1 DEF Block, Doubted, Posting, At
    <3> QED
      BY <3>1, <3>2, <3>3, Undisturbed
  <2>2. Waits(b)' /\ Shows(b)'
    <3>1. UNCHANGED <<panel, job>> /\ sub'[b] = 0 /\ (panel[b] # "closed" => b \in stale')
      BY <1>0, <1>17 DEF Block
    <3> QED
      BY <1>g, <3>1 DEF Waits, Shows, At
  <2> QED
    BY <1>w, <2>1, <2>2
<1>18. ASSUME NEW b \in Browsers, NEW n \in notes[b], Tap(b, n) PROVE PageRight'
  <2>1. UNCHANGED <<job, sub, panel, stale, odd>>
    BY <1>18 DEF Tap, Cleared, switch
  <2>2. \A a \in Browsers : Waits(a)' /\ Shows(a)'
    BY <2>1, Undisturbed
  <2> QED
    BY <2>2 DEF PageRight
<1>19. ASSUME NEW u \in Users, Invite(u) PROVE PageRight'
  <2>1. UNCHANGED <<job, sub, panel, stale, odd>>
    BY <1>19 DEF Invite, switch
  <2>2. \A a \in Browsers : Waits(a)' /\ Shows(a)'
    BY <2>1, Undisturbed
  <2> QED
    BY <2>2 DEF PageRight
<1>20. ASSUME NEW c \in DOMAIN calls, PushOut(c) PROVE PageRight'
  <2>1. UNCHANGED <<job, sub, panel, stale, odd>>
    BY <1>20 DEF PushOut, switch
  <2>2. \A a \in Browsers : Waits(a)' /\ Shows(a)'
    BY <2>1, Undisturbed
  <2> QED
    BY <2>2 DEF PageRight
<1>21. ASSUME NEW c \in DOMAIN calls, FcmOut(c) PROVE PageRight'
  <2>1. UNCHANGED <<job, sub, panel, stale, odd>>
    BY <1>21 DEF FcmOut, switch
  <2>2. \A a \in Browsers : Waits(a)' /\ Shows(a)'
    BY <2>1, Undisturbed
  <2> QED
    BY <2>2 DEF PageRight
<1>22. ASSUME NEW n \in sent, Arrive(n) PROVE PageRight'
  <2>1. UNCHANGED <<job, sub, panel, stale, odd>>
    BY <1>22 DEF Arrive, switch
  <2>2. \A a \in Browsers : Waits(a)' /\ Shows(a)'
    BY <2>1, Undisturbed
  <2> QED
    BY <2>2 DEF PageRight
<1>23. ASSUME NEW n \in sent, Prune(n) PROVE PageRight'
  <2>1. UNCHANGED <<job, sub, panel, stale, odd>>
    BY <1>23 DEF Prune, switch
  <2>2. \A a \in Browsers : Waits(a)' /\ Shows(a)'
    BY <2>1, Undisturbed
  <2> QED
    BY <2>2 DEF PageRight
<1>24. ASSUME NEW n \in sent, Lapse(n) PROVE PageRight'
  <2>1. UNCHANGED <<job, sub, panel, stale, odd>>
    BY <1>24 DEF Lapse, switch
  <2>2. \A a \in Browsers : Waits(a)' /\ Shows(a)'
    BY <2>1, Undisturbed
  <2> QED
    BY <2>2 DEF PageRight
<1>25. CASE UNCHANGED vars
  BY <1>g, <1>25 DEF vars, PageRight, Waits, Shows, At, switch
<1> QED
  BY <1>1, <1>2, <1>3, <1>4, <1>5, <1>6, <1>7, <1>8, <1>9, <1>10, <1>11, <1>12, <1>13, <1>14, <1>15, <1>16, <1>17, <1>18, <1>19, <1>20, <1>21, <1>22, <1>23, <1>24, <1>25 DEF Next

\* Every reachable state is of the declared types: no endpoint is counted twice,
\* a subscription is its browser's own, and none outlives a permission that was
\* withdrawn (Push.TypeOK).
THEOREM TypeCorrect == Spec => []TypeOK
<1>1. Init => TypeOK
  BY PushAssumption DEF Init, TypeOK, Note, Idle, Devices, Endpoints
<1>2. TypeOK /\ [Next]_vars => TypeOK'
  BY TypeStays
<1> QED
  BY <1>1, <1>2, PTL DEF Spec

\* The invariant the switch rests on.
LEMMA PushInvariant == Spec => []PushInv
<1>1. Init => PushInv
  <2> SUFFICES ASSUME Init PROVE PushInv
    OBVIOUS
  <2>1. TypeOK
    BY PushAssumption DEF Init, TypeOK, Note, Idle, Devices, Endpoints
  <2>2. RowRight /\ SentRight /\ PhoneRight /\ NoteRight
    BY DEF Init, RowRight, SentRight, PhoneRight, NoteRight, RightBell, Minted, Devices
  <2>3. JobRight
    BY DEF Init, JobRight, Posting, Rest, At, Idle
  <2>4. PageRight
    BY DEF Init, PageRight, Waits, Shows, At, Idle
  <2> QED
    BY <2>1, <2>2, <2>3, <2>4 DEF PushInv
<1>2. PushInv /\ [Next]_vars => PushInv'
  BY TypeStays, RowStays, SentStays, PhoneStays, NoteStays, JobStays, PageStays DEF PushInv
<1> QED
  BY <1>1, <1>2, PTL DEF Spec

\* The settings switch says what there is, although the page asks the browser
\* only (push.ts:43-49): "on", the browser has a subscription that the server
\* rings for the account signed in; "off" or "blocked", it has none.  A
\* notification rings for the account of its device.  But for a subscription of
\* which a request failed, a device that changed hands (settings/page.tsx:72-75),
\* and a page that is older than what it shows.
THEOREM SwitchIsHonest == Spec => []SwitchTellsTheTruth
<1>1. PushInv => SwitchTellsTheTruth
  <2> SUFFICES ASSUME PushInv PROVE SwitchTellsTheTruth
    OBVIOUS
  <2>1. ASSUME NEW b \in Browsers, job[b] = Idle, b \notin stale PROVE Honest(b)
    <3>1. At(b, "idle")
      BY <2>1 DEF At, Idle
    <3>2. /\ panel[b] = "enabled" => sub[b] # 0
          /\ panel[b] = "disabled" => sub[b] \in odd \cup {0}
          /\ panel[b] = "denied" => sub[b] = 0
      BY <2>1, <3>1 DEF PushInv, PageRight, Shows
    <3>3. ASSUME sub[b] \notin odd \cup {0}
          PROVE  row[sub[b]] # None /\ (row[sub[b]] = signed[b] \/ sub[b] \in passed)
      <4>1. row[sub[b]] # None
        BY <3>1, <3>3 DEF PushInv, JobRight, Rest
      <4>2. sub[b] \in Minted /\ minted[sub[b]] = b
        BY <2>1, <3>3 DEF PushInv, TypeOK, Minted
      <4> QED
        BY <4>1, <4>2 DEF PushInv, RowRight, Alive
    <3> QED
      BY <3>2, <3>3 DEF Honest
  <2>2. \A b \in Browsers : job[b] = Idle => Honest(b)
    BY <2>1 DEF Honest
  <2> QED
    BY <2>2 DEF PushInv, NoteRight, SwitchTellsTheTruth
<1> QED
  BY <1>1, PushInvariant, PTL
=============================================================================
