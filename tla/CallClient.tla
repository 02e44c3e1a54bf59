----------------------------- MODULE CallClient -----------------------------
(***************************************************************************)
(* The call state machine of the web client (call-context.tsx), one copy   *)
(* per device, against the call server.  Each socket is a pair of ordered  *)
(* channels; a user's devices share one room on the server.  DirectCalls   *)
(* shows that the commands of a handler amount to one compare-and-set on   *)
(* the phase of a call.  Here a handler is that step, and, some awaits     *)
(* later, the announcement of what it did; what this module is about is    *)
(* who is told, in which order, and what a screen makes of it.             *)
(* X_<fault> is X with one mistake.                                        *)
(***************************************************************************)
EXTENDS Naturals, FiniteSets, Sequences

CONSTANTS
    Users,
    Devices,
    Owner,      \* Owner[d]: who is signed in on device d
    Callers,    \* bound: the devices that place calls and add people
    Contacts,   \* bound: the users that are called; any can be added
    Hands,      \* bound: the devices whose user answers; the others just ring
    Cuttable,   \* bound: the devices whose connection is cut
    Notified,   \* bound: the devices on which a notification is clicked
    Refusals,   \* BOOLEAN: the server may refuse to ring (offline, no right...)
    MaxCalls,   \* bound: calls ever placed
    MaxQueue    \* bound: messages of a device on their way when its user presses

ASSUME ClientAssumption ==
    /\ IsFiniteSet(Devices)
    /\ Owner \in [Devices -> Users]
    /\ Callers \subseteq Devices /\ Hands \subseteq Devices /\ Contacts \subseteq Users
    /\ Cuttable \subseteq Devices /\ Notified \subseteq Devices /\ Refusals \in BOOLEAN
    /\ MaxCalls \in Nat /\ MaxQueue \in Nat

VARIABLES
    phase,    \* phase[c]: how far call c got
    ends,     \* ends[c]: [caller, callee, added], added for an add
    sock,     \* sock[d]: data.callId of the socket of device d, 0 undefined
    screen,   \* screen[d]: the CallState of the client, call 0 undefined
    up, down, \* up[d], down[d]: messages from and to device d
    due,      \* what handlers have done and not announced yet
    odd       \* history: calls (0: not numbered yet) a screen lost sight of

server == <<phase, ends, sock, due>>
vars == <<phase, ends, sock, screen, up, down, due, odd>>

Calls == 1 .. Len(phase)
Live(c) == phase[c] \in {"RINGING", "ACTIVE"}
Party(u, c) == u \in {ends[c].caller, ends[c].callee}
Other(u, c) == IF ends[c].caller = u THEN ends[c].callee ELSE ends[c].caller

IDLE == [status |-> "idle", call |-> 0, peer |-> FALSE]

\* An announcement goes to user rooms and, while it is open, to the socket that
\* accepted.
Announcements(n) ==
    [type : {"accepted", "ended"}, call : 1 .. n, room : SUBSET Devices, own : SUBSET Devices]

Requests == {"invite", "add", "accept", "decline", "cancel", "hangup"}
Events == {"incoming", "ringing", "accepted", "ended", "failed"}

TypeOK ==
    /\ phase \in Seq({"RINGING", "ACTIVE", "ENDED", "DECLINED", "CANCELLED", "MISSED"})
    /\ ends \in Seq([caller : Users, callee : Users, added : BOOLEAN]) /\ Len(ends) = Len(phase)
    /\ \A c \in Calls : ends[c].caller # ends[c].callee
    /\ sock \in [Devices -> Calls \cup {0}]
    /\ screen \in [Devices -> [status : {"idle", "outgoing", "incoming", "active"},
                               call : Calls \cup {0}, peer : BOOLEAN]]
    /\ up \in [Devices -> Seq([type : Requests, call : Calls \cup {0}, to : Users])]
    /\ \A d \in Devices : \A i \in DOMAIN up[d] :
           up[d][i].type = "invite" <=> up[d][i].call = 0
    /\ down \in [Devices -> Seq([type : Events, call : Calls \cup {0}])]
    /\ due \subseteq Announcements(Len(phase))
    /\ odd \subseteq Calls \cup {0}

Init ==
    /\ phase = <<>> /\ ends = <<>>
    /\ sock = [d \in Devices |-> 0]
    /\ screen = [d \in Devices |-> IDLE]
    /\ up = [d \in Devices |-> <<>>] /\ down = [d \in Devices |-> <<>>]
    /\ due = {} /\ odd = {}

-----------------------------------------------------------------------------
(* What the user presses                                                   *)

Msg(type, d, c) == [type |-> type, call |-> c, to |-> Owner[d]]

\* Variant: the event is sent without a call id.
Emit_always(d, type) == up' = [up EXCEPT ![d] = Append(@, Msg(type, d, screen[d].call))]

\* emit(): without a call id nothing is sent.
Emit(d, type) ==
    up' = IF screen[d].call = 0 THEN up
          ELSE [up EXCEPT ![d] = Append(@, Msg(type, d, screen[d].call))]

Shows(d, status) == screen[d].status = status /\ screen[d].peer

Near(d) == Len(up[d]) + Len(down[d]) < MaxQueue
Ready(d) == d \in Hands /\ Near(d)

\* The calls placed or about to be placed.
Asks(d) == {<<d, i>> : i \in {j \in DOMAIN up[d] : up[d][j].type \in {"invite", "add"}}}

Room == Len(phase) + Cardinality(UNION {Asks(d) : d \in Devices}) < MaxCalls

CallUser(d, u) ==
    /\ d \in Callers /\ Room /\ Ready(d)
    /\ screen[d].status = "idle" /\ u \in Contacts \ {Owner[d]}
    /\ screen' = [screen EXCEPT ![d] = [status |-> "outgoing", call |-> 0, peer |-> TRUE]]
    /\ up' = [up EXCEPT ![d] = Append(@, [type |-> "invite", call |-> 0, to |-> u])]
    /\ UNCHANGED <<server, down, odd>>

\* The modal stays until the server has answered, and its button works again.
Accept(d) ==
    /\ Shows(d, "incoming") /\ Ready(d)
    /\ Emit(d, "accept")
    /\ UNCHANGED <<server, screen, down, odd>>

Dismiss(d, status, type) ==
    /\ Shows(d, status) /\ Ready(d)
    /\ Emit(d, type)
    /\ screen' = [screen EXCEPT ![d] = IDLE]
    /\ UNCHANGED <<server, down, odd>>

Decline(d) == Dismiss(d, "incoming", "decline")
Cancel(d)  == Dismiss(d, "outgoing", "cancel")
\* By the button, or because LiveKit disconnected.
Hangup(d)  == Dismiss(d, "active", "hangup")

AddToCall(d, u) ==
    /\ d \in Callers /\ Room /\ Ready(d)
    /\ Shows(d, "active") /\ u # Owner[d]
    /\ up' = [up EXCEPT ![d] = Append(@, [type |-> "add", call |-> screen[d].call, to |-> u])]
    /\ UNCHANGED <<server, screen, down, odd>>

-----------------------------------------------------------------------------
(* The server                                                              *)

\* Appends to the channel of device d the events tell[d].
Tell(tell) == down' = [d \in Devices |-> down[d] \o tell[d]]
To(who, type, c) ==
    [d \in Devices |-> IF d \in who THEN <<[type |-> type, call |-> c]>> ELSE <<>>]
RoomOf(u) == {d \in Devices : Owner[d] = u}

\* To be announced to the rooms of the users us and to the sockets own.
Owe(type, c, us, own) ==
    due' = due \cup {[type |-> type, call |-> c, room |-> UNION {RoomOf(u) : u \in us},
                      own |-> own]}

Locked(u, v) == \E c \in Calls : Live(c) /\ {ends[c].caller, ends[c].callee} = {u, v}

\* invite(): refused (offline, not allowed, do not disturb; any time), busy, or
\* a new call; the caller's socket hears Ringing when it is not an add.
Ring(d, u, direct) ==
    LET c == Len(phase) + 1
    IN  \/ /\ Refusals \/ u = Owner[d] \/ Locked(Owner[d], u)
           /\ Tell(To({d}, "failed", 0))
           /\ UNCHANGED server
        \/ /\ u # Owner[d] /\ ~Locked(Owner[d], u)
           /\ phase' = Append(phase, "RINGING")
           /\ ends' = Append(ends, [caller |-> Owner[d], callee |-> u, added |-> ~direct])
           /\ sock' = IF direct THEN [sock EXCEPT ![d] = c] ELSE sock
           /\ UNCHANGED due
           /\ down' = [e \in Devices |->
                  IF Owner[e] = u THEN Append(down[e], [type |-> "incoming", call |-> c])
                  ELSE IF e = d /\ direct
                       THEN Append(down[e], [type |-> "ringing", call |-> c])
                  ELSE down[e]]

OnInvite(d, m) == Ring(d, m.to, TRUE)

OnAdd(d, m) ==
    IF phase[m.call] = "ACTIVE" /\ Party(Owner[d], m.call)
    THEN Ring(d, m.to, FALSE)
    ELSE Tell(To({d}, "failed", 0)) /\ UNCHANGED server

\* The accepting socket and every device of the caller are told when the keys are
\* extended and the tokens made.
OnAccept(d, m) ==
    IF phase[m.call] = "RINGING" /\ ends[m.call].callee = Owner[d]
    THEN /\ phase' = [phase EXCEPT ![m.call] = "ACTIVE"]
         /\ Owe("accepted", m.call, {ends[m.call].caller}, {d})
         /\ UNCHANGED <<ends, sock, down>>
    ELSE Tell(To({d}, "failed", m.call)) /\ UNCHANGED server

\* One compare-and-set; the other party's devices are told after the cleanup.
Settle(c, u, from, to) ==
    IF phase[c] = from
    THEN phase' = [phase EXCEPT ![c] = to] /\ Owe("ended", c, {Other(u, c)}, {})
    ELSE UNCHANGED <<phase, due>>

OnDecline(d, m) ==
    /\ IF ends[m.call].callee = Owner[d]
       THEN Settle(m.call, Owner[d], "RINGING", "DECLINED") ELSE UNCHANGED <<phase, due>>
    /\ UNCHANGED <<ends, sock, down>>

OnCancel(d, m) ==
    /\ IF ends[m.call].caller = Owner[d]
       THEN Settle(m.call, Owner[d], "RINGING", "CANCELLED") ELSE UNCHANGED <<phase, due>>
    /\ sock' = [sock EXCEPT ![d] = 0]
    /\ UNCHANGED <<ends, down>>

OnHangup(d, m) ==
    /\ IF Party(Owner[d], m.call)
       THEN Settle(m.call, Owner[d], "ACTIVE", "ENDED") ELSE UNCHANGED <<phase, due>>
    /\ sock' = [sock EXCEPT ![d] = 0]
    /\ UNCHANGED <<ends, down>>

Serve(d) ==
    LET m == Head(up[d])
    IN  /\ up[d] # <<>>
        /\ up' = [up EXCEPT ![d] = Tail(@)]
        /\ \/ m.type = "invite"  /\ OnInvite(d, m)
           \/ m.type = "add"     /\ OnAdd(d, m)
           \/ m.type = "accept"  /\ OnAccept(d, m)
           \/ m.type = "decline" /\ OnDecline(d, m)
           \/ m.type = "cancel"  /\ OnCancel(d, m)
           \/ m.type = "hangup"  /\ OnHangup(d, m)
        /\ UNCHANGED <<screen, odd>>

\* Variant: the callee's devices go on ringing.
RingTimeout_callerOnly(c) ==
    /\ phase[c] = "RINGING"
    /\ phase' = [phase EXCEPT ![c] = "MISSED"]
    /\ Owe("ended", c, {ends[c].caller}, {})
    /\ UNCHANGED <<ends, sock, screen, up, down, odd>>

\* onRingTimeout: both parties are told.
RingTimeout(c) ==
    /\ phase[c] = "RINGING"
    /\ phase' = [phase EXCEPT ![c] = "MISSED"]
    /\ Owe("ended", c, {ends[c].caller, ends[c].callee}, {})
    /\ UNCHANGED <<ends, sock, screen, up, down, odd>>

\* The handler goes on after its awaits.  One that has accepted tells its socket of
\* the call first (data.callId).
Announce(a) ==
    /\ a \in due
    /\ due' = due \ {a}
    /\ sock' = [d \in Devices |-> IF d \in a.own THEN a.call ELSE sock[d]]
    /\ Tell(To(a.room \cup a.own, a.type, a.call))
    /\ UNCHANGED <<phase, ends, screen, up, odd>>

\* handleDisconnect and drop(): the call of the socket is ended, if it has one.
Verdict(d) ==
    CASE sock[d] = 0 -> "none"
      [] sock[d] # 0 /\ phase[sock[d]] = "ACTIVE" -> "ENDED"
      [] sock[d] # 0 /\ phase[sock[d]] = "RINGING" ->
             IF ends[sock[d]].caller = Owner[d] THEN "CANCELLED" ELSE "DECLINED"
      [] OTHER -> "none"

\* An acceptance that is not announced yet reaches the socket no more.
Deaf(d) == {[a EXCEPT !.own = @ \ {d}] : a \in due}

Drop(d) ==
    LET c == sock[d]
    IN  /\ IF Verdict(d) = "none"
           THEN phase' = phase /\ due' = Deaf(d)
           ELSE /\ phase' = [phase EXCEPT ![c] = Verdict(d)]
                /\ due' = Deaf(d) \cup {[type |-> "ended", call |-> c,
                                         room |-> RoomOf(Other(Owner[d], c)), own |-> {}]}
        /\ sock' = [sock EXCEPT ![d] = 0]
        /\ down' = [down EXCEPT ![d] = <<>>]
        /\ UNCHANGED ends

-----------------------------------------------------------------------------
(* What the client hears                                                   *)

\* A call that is given up without a word to the server, while it goes on.
Lost(cs) == odd' = odd \cup {c \in cs : c # 0 /\ Live(c)}

Shown(d, status, c) ==
    screen' = [screen EXCEPT ![d] = [status |-> status, call |-> c, peer |-> TRUE]]

\* A busy client declines, for all devices of its user.
HearIncoming(d, c) ==
    \/ /\ screen[d].status # "idle"
       /\ up' = [up EXCEPT ![d] = Append(@, Msg("decline", d, c))]
       /\ UNCHANGED <<screen, odd>>
    \/ /\ screen[d].status = "idle"
       /\ Shown(d, "incoming", c)
       /\ UNCHANGED <<up, odd>>

\* A caller that has cancelled already has no use for the number any more.
HearRinging(d, c) ==
    \/ /\ screen[d].status = "outgoing"
       /\ screen' = [screen EXCEPT ![d].call = c]
       /\ Lost({screen[d].call})
       /\ UNCHANGED up
    \/ /\ screen[d].status # "outgoing"
       /\ Lost({c})
       /\ UNCHANGED <<screen, up>>

\* Taken up in any state: a client that has reset is active without a screen,
\* and one in another call changes over to this one.
HearAccepted(d, c) ==
    /\ screen' = [screen EXCEPT ![d].status = "active", ![d].call = c]
    /\ IF screen[d].peer THEN Lost({screen[d].call} \ {c}) ELSE odd' = odd \cup {c}
    /\ UNCHANGED up

\* Variant: the client does not compare the numbers.
HearEnded_any(d, c) ==
    /\ screen' = [screen EXCEPT ![d] = IDLE]
    /\ UNCHANGED <<up, odd>>

\* Only the end of another call is ignored, when the client knows its own.
HearEnded(d, c) ==
    /\ screen' = IF screen[d].call \notin {0, c} THEN screen
                 ELSE [screen EXCEPT ![d] = IDLE]
    /\ UNCHANGED <<up, odd>>

\* Whatever failed, the client resets.
HearFailed(d, c) ==
    /\ screen' = [screen EXCEPT ![d] = IDLE]
    /\ Lost({screen[d].call})
    /\ UNCHANGED up

Hear(d) ==
    LET m == Head(down[d])
    IN  /\ down[d] # <<>>
        /\ down' = [down EXCEPT ![d] = Tail(@)]
        /\ \/ m.type = "incoming" /\ HearIncoming(d, m.call)
           \/ m.type = "ringing"  /\ HearRinging(d, m.call)
           \/ m.type = "accepted" /\ HearAccepted(d, m.call)
           \/ m.type = "ended"    /\ HearEnded(d, m.call)
           \/ m.type = "failed"   /\ HearFailed(d, m.call)
        /\ UNCHANGED server

\* The calls a device and the messages on their way know of.
Mentioned(d) ==
    (IF screen[d] = IDLE THEN {} ELSE {screen[d].call})
                     \cup {up[d][i].call : i \in DOMAIN up[d]}
                     \cup {down[d][i].call : i \in DOMAIN down[d]}
                     \cup {a.call : a \in {b \in due : d \in b.own}}

\* The connection is cut and made again: what was on its way is lost, the
\* screen stays.  (Of a device that knows of no call, nothing is lost.)
Cut(d) ==
    /\ d \in Cuttable /\ Mentioned(d) # {}
    /\ Drop(d)
    /\ up' = [up EXCEPT ![d] = <<>>]
    /\ odd' = odd \cup Mentioned(d)
    /\ UNCHANGED screen

\* A notification of call c is clicked: the page is loaded anew and acts on
\* the link as soon as it is connected.  (Neither answer ends a call that is in
\* progress on another socket: that is lost sight of.)
ClickNotification(d, c, type) ==
    /\ d \in Notified
    /\ ends[c].callee = Owner[d] /\ Near(d)
    /\ Drop(d)
    /\ up' = [up EXCEPT ![d] = <<Msg(type, d, c)>>]
    /\ screen' = [screen EXCEPT ![d] =
           IF type = "accept" THEN [status |-> "incoming", call |-> c, peer |-> TRUE]
           ELSE IDLE]
    /\ odd' = odd \cup {e \in Mentioned(d) : e # c \/ phase'[c] = "ACTIVE"}

-----------------------------------------------------------------------------
Next ==
    \/ \E d \in Devices :
           \/ \E u \in Users : CallUser(d, u) \/ AddToCall(d, u)
           \/ Accept(d) \/ Decline(d) \/ Cancel(d) \/ Hangup(d)
           \/ Serve(d) \/ Hear(d) \/ Cut(d)
           \/ \E c \in Calls : ClickNotification(d, c, "accept") \/ ClickNotification(d, c, "decline")
    \/ \E c \in Calls : RingTimeout(c)
    \/ \E a \in due : Announce(a)

Spec == Init /\ [][Next]_vars

-----------------------------------------------------------------------------
(* Properties                                                              *)

Quiet == due = {} /\ \A d \in Devices : up[d] = <<>> /\ down[d] = <<>>

\* The client mirrors the server (call-context.tsx:6-7): when nothing is on its way
\* or still to be announced, a screen shows a call as it is, unless a screen lost
\* sight of that call.  Then the other party's screen is excused too: a cut
\* connection ends the call, that end can overtake the answer
\* (call.service.ts:179-193), and a callee who hears them in this order shows a call
\* that has ended.  Of the other calls, only a second device of a user is not told
\* what he did on the first: it may still ring when he answered or declined there,
\* or stay in a call that he hung up there (events.gateway.ts:291-300 and 378-385).
ScreenMirrors ==
    Quiet => \A d \in Devices :
        LET c == screen[d].call
            status == screen[d].status
        IN  \/ status = "idle"
            \/ c \in odd
            \/ status = "outgoing" /\ c # 0 /\ phase[c] = "RINGING"
                   /\ ends[c].caller = Owner[d]
            \/ status = "incoming" /\ ends[c].callee = Owner[d]
                   /\ phase[c] \in IF RoomOf(Owner[d]) = {d} THEN {"RINGING"}
                                   ELSE {"RINGING", "ACTIVE", "DECLINED", "ENDED"}
            \/ status = "active" /\ Party(Owner[d], c)
                   /\ phase[c] \in IF RoomOf(Owner[d]) = {d} THEN {"ACTIVE"}
                                   ELSE {"ACTIVE", "ENDED"}

\* The server's calls have screens: when nothing is on its way or still to be
\* announced, a call in progress is on a screen of each of its parties, and one that rings on a
\* screen of its caller, unless a screen lost sight of it.  What is left else
\* is a call nobody can hang up, and a pair that is busy for four hours
\* (call-context.tsx:147-184 against call.service.ts:66-67 and 129-134).
CallHasScreens ==
    Quiet => \A c \in Calls \ odd :
        LET On(u, status) == \E d \in RoomOf(u) : screen[d].status = status /\ screen[d].call = c
        IN  /\ phase[c] = "ACTIVE" => On(ends[c].caller, "active") /\ On(ends[c].callee, "active")
            /\ phase[c] = "RINGING" /\ ~ends[c].added => On(ends[c].caller, "outgoing")

=============================================================================
