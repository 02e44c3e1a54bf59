-------------------------------- MODULE Push ---------------------------------
(***************************************************************************)
(* Ringing a user whose app is closed: the settings switch that subscribes *)
(* a browser to Web Push (settings page, lib/push.ts), the rows the server *)
(* keeps (push.service.ts, push.repository.ts), the token of the Android   *)
(* app (native-fcm.ts), the two ways onCallInvite rings by, and what the   *)
(* service worker and the Android service show.  An endpoint is minted by  *)
(* the browser's push service and dies with its subscription.              *)
(* X_<fault> is X with one mistake.                                        *)
(***************************************************************************)
EXTENDS Naturals, Sequences, FiniteSets

CONSTANTS
    Users,
    Browsers, Phones,
    None,
    Faults,     \* subset of {"network"}: a request or its answer may be lost
    MaxEnds,    \* bound: endpoints ever minted
    MaxCalls    \* bound: calls that ring

Devices == Browsers \cup Phones
Endpoints == 1 .. MaxEnds

ASSUME PushAssumption ==
    /\ None \notin Users /\ Browsers \cap Phones = {}
    /\ Faults \subseteq {"network"} /\ MaxEnds \in Nat /\ MaxCalls \in Nat

VARIABLES
    signed,    \* signed[d]: whose account device d is in
    blocked,   \* Notification.permission: the browsers where it is denied
    sub,       \* sub[b]: the endpoint of the browser's subscription, 0 none
    panel,     \* panel[b]: what the settings page shows
    job,       \* job[b]: the request of the switch, where it is
    minted,    \* minted[e]: the browser endpoint e was minted for
    row,       \* row[e]: push_subscriptions, the user that e rings for
    fcm,       \* fcm[u]: User.fcmToken
    calls,     \* calls[c]: [to, at], how far onCallInvite is
    sent,      \* web pushes on their way
    notes,     \* notes[d]: the notifications on device d
    odd,       \* history: subscriptions whose request failed or was lost
    stale,     \* history: browsers whose page is older than what it shows
    passed     \* history: endpoints and phones of a device that changed hands

switch == <<blocked, sub, panel, job, minted, odd, stale>>
ringing == <<calls, sent, notes>>
vars == <<signed, switch, row, fcm, ringing, passed>>

Idle == [at |-> "idle", end |-> 0, user |-> None, shown |-> FALSE]

Note == [call : DOMAIN calls, end : {0} \cup Endpoints]

TypeOK ==
    /\ signed \in [Devices -> Users \cup {None}]
    /\ blocked \subseteq Browsers
    /\ minted \in Seq(Browsers) /\ Len(minted) <= MaxEnds
    /\ sub \in [Browsers -> 0 .. Len(minted)]
    /\ \A b \in Browsers : sub[b] # 0 => minted[sub[b]] = b /\ b \notin blocked
    /\ panel \in [Browsers -> {"closed", "enabled", "disabled", "denied"}]
    /\ job \in [Browsers -> [at : {"idle", "ask", "post", "reply", "unpost", "drop"},
                             end : 0 .. Len(minted), user : Users \cup {None}, shown : BOOLEAN]]
    /\ row \in [Endpoints -> Users \cup {None}]
    /\ \A e \in Endpoints : e > Len(minted) => row[e] = None
    /\ fcm \in [Users -> Phones \cup {None}]
    /\ calls \in Seq([to : Users, at : {"push", "fcm", "done"}])
    /\ sent \subseteq Note
    /\ notes \in [Devices -> SUBSET Note]
    /\ odd \subseteq Endpoints /\ stale \subseteq Browsers
    /\ passed \subseteq Endpoints \cup Phones

Init ==
    /\ signed = [d \in Devices |-> None] /\ blocked = {}
    /\ sub = [b \in Browsers |-> 0] /\ panel = [b \in Browsers |-> "closed"]
    /\ job = [b \in Browsers |-> Idle] /\ minted = <<>>
    /\ row = [e \in Endpoints |-> None] /\ fcm = [u \in Users |-> None]
    /\ calls = <<>> /\ sent = {} /\ notes = [d \in Devices |-> {}]
    /\ odd = {} /\ stale = {} /\ passed = {}

-----------------------------------------------------------------------------
(* Accounts                                                                *)

SignIn(d, u) ==
    /\ signed[d] = None
    /\ signed' = [signed EXCEPT ![d] = u]
    /\ UNCHANGED <<switch, row, fcm, ringing, passed>>

\* Neither the subscription nor the token is given up (settings/page.tsx:72-75).
SignOut(d) ==
    /\ signed[d] # None
    /\ signed' = [signed EXCEPT ![d] = None]
    /\ passed' = passed \cup IF d \in Phones THEN {d}
                            ELSE ({sub[d]} \cup {n.end : n \in notes[d]}) \ {0}
    /\ IF d \in Phones THEN UNCHANGED <<panel, job>>
       ELSE /\ panel' = [panel EXCEPT ![d] = "closed"]
            /\ job' = [job EXCEPT ![d].shown = FALSE]
    /\ UNCHANGED <<blocked, sub, minted, stale, row, fcm, ringing, odd>>

\* registerNativeFcm, with every socket; the last device wins.
SendToken(ph) ==
    /\ signed[ph] # None
    /\ fcm' = [fcm EXCEPT ![signed[ph]] = ph]
    /\ UNCHANGED <<signed, switch, row, ringing, passed>>

-----------------------------------------------------------------------------
(* The switch                                                              *)

\* getPushState: the browser's word alone.  It is old already when a request
\* of an earlier page is still on its way.
OpenSettings(b) ==
    /\ signed[b] # None /\ panel[b] = "closed"
    /\ panel' = [panel EXCEPT ![b] = IF b \in blocked THEN "denied"
                                     ELSE IF sub[b] # 0 THEN "enabled" ELSE "disabled"]
    /\ stale' = IF job[b] = Idle THEN stale \ {b} ELSE stale \cup {b}
    /\ UNCHANGED <<signed, blocked, sub, job, minted, row, fcm, ringing, odd, passed>>

\* What the page asked for goes on without it.
LeaveSettings(b) ==
    /\ panel[b] # "closed"
    /\ panel' = [panel EXCEPT ![b] = "closed"]
    /\ job' = [job EXCEPT ![b].shown = FALSE]
    /\ UNCHANGED <<signed, blocked, sub, minted, stale, row, fcm, ringing, odd, passed>>

\* One request at a time of a browser (a page that was left aside).
Press(b, state, at) ==
    /\ panel[b] = state /\ job[b] = Idle
    /\ job' = [job EXCEPT ![b] = [Idle EXCEPT !.at = at, !.shown = TRUE]]
    /\ UNCHANGED <<signed, blocked, sub, panel, minted, stale, row, fcm, ringing, odd, passed>>

Enable(b)  == Press(b, "disabled", "ask")
Disable(b) == Press(b, "enabled", "unpost")

\* The request of b is over; the page that made it, if still open, shows so.
Over(b, state) ==
    /\ job' = [job EXCEPT ![b] = Idle]
    /\ panel' = IF job[b].shown THEN [panel EXCEPT ![b] = state] ELSE panel

At(b, at) == job[b].at = at

Doubted(b) == odd \cup ({sub[b]} \ {0})

\* The key could not be fetched, or the user would not decide.
NotAsked(b) ==
    /\ At(b, "ask")
    /\ \/ "network" \in Faults /\ Over(b, panel[b])
       \/ b \notin blocked /\ sub[b] = 0 /\ Over(b, "disabled")
    /\ UNCHANGED <<signed, blocked, sub, minted, stale, row, fcm, ringing, odd, passed>>

Refused(b) ==
    /\ At(b, "ask") /\ sub[b] = 0
    /\ blocked' = blocked \cup {b}
    /\ Over(b, "denied")
    /\ UNCHANGED <<signed, sub, minted, stale, row, fcm, ringing, odd, passed>>

\* Variant: whatever the user answered.
Subscribe_unasked(b) ==
    /\ At(b, "ask") /\ sub[b] = 0 /\ Len(minted) < MaxEnds
    /\ minted' = Append(minted, b)
    /\ sub' = [sub EXCEPT ![b] = Len(minted) + 1]
    /\ job' = [job EXCEPT ![b].at = "post", ![b].end = sub'[b], ![b].user = signed[b]]
    /\ UNCHANGED <<signed, blocked, panel, row, fcm, ringing, odd, stale, passed>>

\* Allowed: subscribe unless there is a subscription, and post it.
Subscribe(b) ==
    /\ At(b, "ask") /\ b \notin blocked
    /\ \/ sub[b] # 0 /\ UNCHANGED <<sub, minted>>
       \/ /\ sub[b] = 0 /\ Len(minted) < MaxEnds
          /\ minted' = Append(minted, b)
          /\ sub' = [sub EXCEPT ![b] = Len(minted) + 1]
    /\ job' = [job EXCEPT ![b].at = "post", ![b].end = sub'[b], ![b].user = signed[b]]
    /\ UNCHANGED <<signed, blocked, panel, row, fcm, ringing, odd, stale, passed>>

\* saveSubscription: the endpoint is the caller's now, whosever it was.
Post(b) ==
    /\ At(b, "post") /\ job[b].user # None
    /\ row' = [row EXCEPT ![job[b].end] = job[b].user]
    /\ job' = [job EXCEPT ![b].at = "reply"]
    /\ UNCHANGED <<signed, blocked, sub, panel, minted, stale, fcm, ringing, odd, passed>>

\* "Couldn't enable": whether the server knows the endpoint is not known.
NotPosted(b) ==
    /\ At(b, "post") \/ At(b, "reply")
    /\ "network" \in Faults \/ job[b].user = None
    /\ Over(b, panel[b])
    /\ odd' = Doubted(b)
    /\ UNCHANGED <<signed, blocked, sub, minted, stale, row, fcm, ringing, passed>>

Posted(b) ==
    /\ At(b, "reply")
    /\ Over(b, "enabled")
    /\ odd' = odd \ {job[b].end}
    /\ UNCHANGED <<signed, blocked, sub, minted, stale, row, fcm, ringing, passed>>

\* The row goes, of whichever user it is; an error is ignored.
Unpost(b) ==
    /\ At(b, "unpost")
    /\ \/ /\ sub[b] = 0
          /\ Over(b, "disabled") /\ UNCHANGED row
       \/ /\ sub[b] # 0
          /\ \/ signed[b] # None /\ row' = [row EXCEPT ![sub[b]] = None]
             \/ ("network" \in Faults \/ signed[b] = None) /\ UNCHANGED row
          /\ job' = [job EXCEPT ![b].at = "drop", ![b].end = sub[b]]
          /\ UNCHANGED panel
    /\ UNCHANGED <<signed, blocked, sub, minted, stale, fcm, ringing, odd, passed>>

\* Variant: the row is all that is dropped.
Drop_keeps(b) ==
    /\ At(b, "drop")
    /\ Over(b, "disabled")
    /\ UNCHANGED <<signed, blocked, sub, minted, stale, row, fcm, ringing, odd, passed>>

\* The subscription goes too; when neither goes, the switch says "off" all the
\* same.
Drop(b) ==
    /\ At(b, "drop")
    /\ \/ sub' = [sub EXCEPT ![b] = 0] /\ odd' = odd \ {sub[b]}
       \/ /\ "network" \in Faults /\ UNCHANGED sub
          /\ odd' = Doubted(b)
    /\ Over(b, "disabled")
    /\ UNCHANGED <<signed, blocked, minted, stale, row, fcm, ringing, passed>>

\* Notifications are blocked in the browser's settings, or allowed again: the
\* subscription dies, the open page and the server are not told.
Block(b) ==
    /\ \/ b \notin blocked /\ blocked' = blocked \cup {b}
       \/ b \in blocked /\ blocked' = blocked \ {b}
    /\ sub' = [sub EXCEPT ![b] = 0] /\ odd' = odd \ {sub[b]}
    /\ stale' = IF panel[b] = "closed" THEN stale ELSE stale \cup {b}
    /\ UNCHANGED <<signed, panel, job, minted, row, fcm, ringing, passed>>

-----------------------------------------------------------------------------
(* A call rings                                                            *)

Invite(u) ==
    /\ Len(calls) < MaxCalls
    /\ calls' = Append(calls, [to |-> u, at |-> "push"])
    /\ UNCHANGED <<signed, switch, row, fcm, sent, notes, passed>>

\* sendCallNotification: a push to every endpoint of the callee.
PushOut(c) ==
    /\ calls[c].at = "push"
    /\ calls' = [calls EXCEPT ![c].at = "fcm"]
    /\ sent' = sent \cup {[call |-> c, end |-> e] : e \in {x \in Endpoints : row[x] = calls[c].to}}
    /\ UNCHANGED <<signed, switch, row, fcm, notes, passed>>

\* onMessageReceived: the phone wakes up and shows the call in any case.
OnMessage(ph, c) == notes' = [notes EXCEPT ![ph] = @ \cup {[call |-> c, end |-> 0]}]

\* A stale token, or no Firebase: only a line in the log.
SendCall(ph, c) == OnMessage(ph, c) \/ UNCHANGED notes

\* ringNative, when the web pushes have been answered: to the latest phone.
FcmOut(c) ==
    /\ calls[c].at = "fcm"
    /\ calls' = [calls EXCEPT ![c].at = "done"]
    /\ LET ph == fcm[calls[c].to]
       IN  IF ph = None THEN UNCHANGED notes ELSE SendCall(ph, c)
    /\ UNCHANGED <<signed, switch, row, fcm, sent, passed>>

Alive(e) == sub[minted[e]] = e

\* The service worker: a notification, unless the app is in the foreground.
Arrive(n) ==
    LET b == minted[n.end]
    IN  /\ Alive(n.end)
        /\ sent' = sent \ {n}
        /\ \/ UNCHANGED notes
           \/ notes' = [notes EXCEPT ![b] = @ \cup {n}]
        /\ UNCHANGED <<signed, switch, row, fcm, calls, passed>>

\* The push service says the endpoint is gone (404, 410): its row goes.
Prune(n) ==
    /\ ~Alive(n.end)
    /\ sent' = sent \ {n}
    /\ row' = [row EXCEPT ![n.end] = None]
    /\ UNCHANGED <<signed, switch, fcm, calls, notes, passed>>

\* Its 30 s are over, or the push service failed: only a line in the log.
Lapse(n) ==
    /\ sent' = sent \ {n}
    /\ UNCHANGED <<signed, switch, row, fcm, calls, notes, passed>>

Cleared(d, n) ==
    /\ notes' = [notes EXCEPT ![d] = @ \ {n}]
    /\ UNCHANGED <<signed, switch, row, fcm, calls, sent, passed>>

\* Answered or declined (either opens the app), or swiped away.
Tap(b, n) == Cleared(b, n)

\* The full-screen call: one of its two buttons, there is no other way out.
OpenApp(ph, n) == Cleared(ph, n)

-----------------------------------------------------------------------------
Next ==
    \/ \E d \in Devices : \/ \E u \in Users : SignIn(d, u)
                          \/ SignOut(d)
    \/ \E ph \in Phones : SendToken(ph) \/ \E n \in notes[ph] : OpenApp(ph, n)
    \/ \E b \in Browsers :
           \/ OpenSettings(b) \/ LeaveSettings(b) \/ Enable(b) \/ Disable(b)
           \/ NotAsked(b) \/ Refused(b) \/ Subscribe(b) \/ Post(b) \/ NotPosted(b) \/ Posted(b)
           \/ Unpost(b) \/ Drop(b) \/ Block(b) \/ \E n \in notes[b] : Tap(b, n)
    \/ \E u \in Users : Invite(u)
    \/ \E c \in DOMAIN calls : PushOut(c) \/ FcmOut(c)
    \/ \E n \in sent : Arrive(n) \/ Prune(n) \/ Lapse(n)

Spec == Init /\ [][Next]_vars

-----------------------------------------------------------------------------
(* Properties                                                              *)

\* What the switch says is so, though the page asks the browser only
\* (push.ts:43-49).  "On": the browser has a subscription, and the server rings
\* it for the account that is signed in.  "Off" and "Blocked": the browser has
\* none.  The exceptions are
\* - a subscription of which a request failed or was lost (odd): "On" and not
\*   known to the server, or "Off" when it could not be given up;
\* - an endpoint of a browser that changed hands (passed): it may ring for the
\*   account of before;
\* - a page that was open when notifications were blocked or allowed, or opened
\*   over a running request of an earlier page, until it is opened again.
\* "Off" does not say that the server has no row: that of a dead subscription
\* stays until the next call, whose push is answered 404 or 410.
Honest(b) ==
    LET e == sub[b]
    IN  b \notin stale =>
            /\ panel[b] = "enabled"  =>
                   /\ e # 0
                   /\ e \in odd \/ (row[e] # None /\ (row[e] = signed[b] \/ e \in passed))
            /\ panel[b] = "disabled" => e \in odd \cup {0}
            /\ panel[b] = "denied"   => e = 0

\* A notification rings for the account the device is in, unless the device
\* changed hands: nothing is given up at sign-out (settings/page.tsx:72-75).
RightBell(d) ==
    \A n \in notes[d] :
        signed[d] = calls[n.call].to \/ n.end \in passed \/ (n.end = 0 /\ d \in passed)

SwitchTellsTheTruth ==
    /\ \A b \in Browsers : job[b] = Idle => Honest(b)
    /\ \A d \in Devices : RightBell(d)

=============================================================================
