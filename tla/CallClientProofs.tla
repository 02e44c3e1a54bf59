-------------------------- MODULE CallClientProofs --------------------------
(***************************************************************************)
(* Proofs about CallClient, for any users, devices and bounds.  The        *)
(* invariants speak of what a device is told only through Coming, which    *)
(* counts the announcements still to be made, and of the order of events   *)
(* only through Orderly.                                                   *)
(***************************************************************************)
EXTENDS CallClient, SequenceTheorems, TLAPS

Has(q, type, c) == \E i \in DOMAIN q : q[i].type = type /\ q[i].call = c

Rank(type) == CASE type \in {"incoming", "ringing"} -> 1
                [] type = "accepted" -> 2
                [] OTHER -> 3

\* Two events of call c in the order of its life.  Of the calls o the answer
\* may come after the end.
Later(t, u, c, o) == Rank(t) < Rank(u) \/ (c \in o /\ t = "ended" /\ u = "accepted")

\* What a device is told of one call comes in order, and once.
Ranked(q, o) ==
    \A i, j \in DOMAIN q :
        i < j /\ q[i].call = q[j].call /\ q[i].type # "failed" /\ q[j].type # "failed"
        => Later(q[i].type, q[j].type, q[i].call, o)

\* An announcement about call c is still to be made, to device d for one.
Due(type, c) == \E a \in due : a.type = type /\ a.call = c
Owed(d, type, c) == \E a \in due : a.type = type /\ a.call = c /\ d \in a.room \cup a.own

\* Device d is going to hear it.
Coming(d, type, c) == Has(down[d], type, c) \/ Owed(d, type, c)

Phases == {"RINGING", "ACTIVE", "ENDED", "DECLINED", "CANCELLED", "MISSED"}
Terminal == {"ENDED", "DECLINED", "CANCELLED", "MISSED"}
Alone(d) == RoomOf(Owner[d]) = {d}
On(d, status, c) == screen[d].status = status /\ screen[d].call = c
Refused(d) == \E x \in Calls \cup {0} : Coming(d, "failed", x)

-----------------------------------------------------------------------------
(* The inductive invariant                                                 *)

\* Only an invitation goes, and only a refusal comes, without a number.
UpMsg(n) ==
    {m \in [type : Requests, call : 0 .. n, to : Users] : m.type = "invite" <=> m.call = 0}
DownMsg(n) ==
    {m \in [type : Events, call : 0 .. n] : m.type = "failed" \/ m.call # 0}

Typed ==
    /\ phase \in Seq(Phases)
    /\ ends \in Seq([caller : Users, callee : Users, added : BOOLEAN]) /\ Len(ends) = Len(phase)
    /\ \A c \in Calls : ends[c].caller # ends[c].callee
    /\ sock \in [Devices -> 0 .. Len(phase)]
    /\ screen \in [Devices -> [status : {"idle", "outgoing", "incoming", "active"},
                               call : 0 .. Len(phase), peer : BOOLEAN]]
    /\ up \in [Devices -> Seq(UpMsg(Len(phase)))]
    /\ down \in [Devices -> Seq(DownMsg(Len(phase)))]
    /\ due \subseteq Announcements(Len(phase))
    /\ odd \subseteq 0 .. Len(phase)

\* Only an outgoing call has no number yet.
Named(d) ==
    /\ screen[d].status = "idle" => screen[d] = IDLE
    /\ screen[d].status \in {"incoming", "active"} => screen[d].call # 0
    /\ screen[d].status # "idle" /\ ~screen[d].peer
           => screen[d].status = "active" /\ screen[d].call \in odd

\* Events come in order, and an announcement is made once.
Orderly ==
    /\ \A d \in Devices : Ranked(down[d], odd)
    /\ \A a \in due :
           /\ a.type = "ended" => a.own = {}
           /\ \A d \in Devices : ~Has(down[d], a.type, a.call)
           /\ \A b \in due : b.type = a.type /\ b.call = a.call => a = b

\* A device that has not heard of a call yet has nothing to do with it.
Unheard(d, c) ==
    /\ screen[d].call # c
    /\ \A t \in Requests : ~Has(up[d], t, c)

Incoming(d, c) ==
    Coming(d, "incoming", c) =>
        /\ ends[c].callee = Owner[d]
        /\ Unheard(d, c) /\ sock[d] # c /\ ~Coming(d, "accepted", c)
        /\ \/ phase[c] = "RINGING"
           \/ Coming(d, "ended", c)
           \/ ~Alone(d) /\ phase[c] \in {"ACTIVE", "DECLINED", "ENDED"}

\* What a caller's device is going to hear of a call that rang.
Outcome(d, c) ==
    \/ phase[c] = "RINGING"
    \/ phase[c] \in {"ACTIVE", "ENDED"} /\ Coming(d, "accepted", c)
    \/ phase[c] \in {"DECLINED", "MISSED"} /\ Coming(d, "ended", c)

Ringing(d, c) ==
    Coming(d, "ringing", c) =>
        ends[c].caller = Owner[d] /\ Unheard(d, c) /\ Outcome(d, c)

Accepted(d, c) ==
    Coming(d, "accepted", c) =>
        /\ phase[c] \in {"ACTIVE", "ENDED"} /\ Party(Owner[d], c)
        /\ ~On(d, "active", c) /\ ~Has(up[d], "hangup", c)
        /\ c \in odd \/ phase[c] = "ACTIVE" \/ Coming(d, "ended", c) \/ ~Alone(d)

Ended(d, c) == Coming(d, "ended", c) => phase[c] \in Terminal

\* The device that placed call c, as long as it is not answered.
Placing(d, c) ==
    \/ Coming(d, "ringing", c)
    \/ On(d, "outgoing", c)
    \/ Has(up[d], "cancel", c)
    \/ sock[d] = c /\ phase[c] = "RINGING"

OnePlacing(c) ==
    \A d \in Devices : Placing(d, c) =>
        ends[c].caller = Owner[d] /\ \A e \in Devices : Placing(e, c) => d = e

ShowsIncoming(d, c) ==
    On(d, "incoming", c) =>
        /\ ends[c].callee = Owner[d] /\ ~Has(up[d], "decline", c)
        /\ \/ c \in odd
           \/ phase[c] = "RINGING"
           \/ Has(up[d], "accept", c) \/ Refused(d)
           \/ Coming(d, "accepted", c) \/ Coming(d, "ended", c)
           \/ ~Alone(d) /\ phase[c] \in {"ACTIVE", "DECLINED", "ENDED"}

ShowsOutgoing(d, c) ==
    On(d, "outgoing", c) =>
        /\ ends[c].caller = Owner[d] /\ ~Has(up[d], "cancel", c)
        /\ c \in odd \/ Outcome(d, c)

ShowsUnnumbered(d) ==
    On(d, "outgoing", 0) =>
        0 \in odd \/ Has(up[d], "invite", 0) \/ Refused(d)
        \/ \E c \in Calls : Coming(d, "ringing", c)

ShowsActive(d, c) ==
    On(d, "active", c) =>
        /\ phase[c] \in {"ACTIVE", "ENDED"} /\ Party(Owner[d], c)
        /\ ~Has(up[d], "hangup", c)
        /\ c \in odd \/ phase[c] = "ACTIVE" \/ Coming(d, "ended", c) \/ ~Alone(d)

Socket(d) == sock[d] # 0 => Party(Owner[d], sock[d])

HangsUp(d, c) ==
    Has(up[d], "hangup", c) => phase[c] \in {"ACTIVE", "ENDED"} /\ Party(Owner[d], c)

Home(c) == \E d \in Devices : Owner[d] = ends[c].caller

\* A device of user u that has call c on its screen, or will have, or gives it
\* up with a word to the server.
Keeps(d, c) ==
    On(d, "active", c) \/ Coming(d, "accepted", c) \/ Has(up[d], "hangup", c)
Waits(d, c) ==
    On(d, "outgoing", c) \/ Coming(d, "ringing", c) \/ Has(up[d], "cancel", c)

Kept(c) ==
    phase[c] = "ACTIVE" /\ c \notin odd =>
        \A u \in {ends[c].caller, ends[c].callee} :
            \E d \in Devices : Owner[d] = u /\ Keeps(d, c)

Awaited(c) ==
    phase[c] = "RINGING" /\ ~ends[c].added /\ c \notin odd =>
        \E d \in Devices : Owner[d] = ends[c].caller /\ Waits(d, c)

\* A call whose answer is not announced yet is on no screen, and if it has ended
\* already, it was lost sight of.
Owing(c) ==
    /\ Due("ended", c) => phase[c] \in Terminal
    /\ Due("accepted", c) =>
           /\ phase[c] = "ACTIVE" \/ (phase[c] = "ENDED" /\ c \in odd)
           /\ \A d \in Devices : ~On(d, "active", c) /\ ~Has(up[d], "hangup", c)

\* As long as the answer is not announced, only the socket that placed a call
\* has it, and its device waits.
Awaits(d, c) ==
    sock[d] = c /\ (phase[c] = "RINGING" \/ Due("accepted", c)) =>
        ends[c].caller = Owner[d] /\ (c \in odd \/ Waits(d, c))

Messages == Orderly /\ \A d \in Devices :
    /\ \A c \in Calls : Incoming(d, c) /\ Ringing(d, c) /\ Accepted(d, c) /\ Ended(d, c)
                        /\ HangsUp(d, c)

Screens == \A d \in Devices :
    /\ ShowsUnnumbered(d) /\ Socket(d)
    /\ \A c \in Calls : ShowsIncoming(d, c) /\ ShowsOutgoing(d, c) /\ ShowsActive(d, c)
                        /\ Awaits(d, c)

Placed == \A c \in Calls : OnePlacing(c) /\ Home(c)
Held == \A c \in Calls : Kept(c) /\ Awaited(c) /\ Owing(c)

ClientInv == Typed /\ (\A d \in Devices : Named(d)) /\ Messages /\ Screens /\ Placed /\ Held

-----------------------------------------------------------------------------
(* What the operators on queues do to the messages in them                 *)

\* Nothing is on its way in an empty channel.
LEMMA HasEmpty == ASSUME NEW t, NEW c, NEW o PROVE ~Has(<<>>, t, c) /\ Ranked(<<>>, o)
<1> QED
  BY DEF Has, Ranked

\* Appending adds the one message.
LEMMA HasAppend ==
  ASSUME NEW S, NEW q \in Seq(S), NEW m \in S
  PROVE  \A t, c : Has(Append(q, m), t, c) <=> Has(q, t, c) \/ (m.type = t /\ m.call = c)
<1> DEFINE r == Append(q, m)
<1>1. /\ DOMAIN q = 1 .. Len(q) /\ Len(q) \in Nat
      /\ DOMAIN r = 1 .. Len(q) + 1
      /\ \A i \in 1 .. Len(q) : r[i] = q[i]
      /\ r[Len(q) + 1] = m
  OBVIOUS
<1> HIDE DEF r
<1> QED
  BY <1>1 DEF Has, r

\* A channel holds its first message and those of its tail.
LEMMA HasTail ==
  ASSUME NEW S, NEW q \in Seq(S), q # <<>>
  PROVE  \A t, c : Has(q, t, c) <=>
                   Has(Tail(q), t, c) \/ (Head(q).type = t /\ Head(q).call = c)
<1> DEFINE r == Tail(q)
           h == Head(q)
<1>1. /\ DOMAIN q = 1 .. Len(q) /\ Len(q) \in Nat \ {0}
      /\ DOMAIN r = 1 .. Len(q) - 1
      /\ \A i \in 1 .. Len(q) - 1 : r[i] = q[i + 1]
      /\ q[1] = h
  OBVIOUS
<1> HIDE DEF r, h
<1> SUFFICES ASSUME NEW t, NEW c
             PROVE  Has(q, t, c) <=> Has(r, t, c) \/ (h.type = t /\ h.call = c)
  BY DEF r, h
<1>2. ASSUME Has(q, t, c) PROVE Has(r, t, c) \/ (h.type = t /\ h.call = c)
  <2>1. PICK i \in 1 .. Len(q) : q[i].type = t /\ q[i].call = c
    BY <1>1, <1>2 DEF Has
  <2>2. CASE i = 1
    BY <1>1, <2>1, <2>2
  <2>3. CASE i # 1
    <3>1. i - 1 \in 1 .. Len(q) - 1 /\ r[i - 1] = q[i]
      BY <1>1, <2>3
    <3> QED
      BY <1>1, <2>1, <3>1 DEF Has
  <2> QED
    BY <2>2, <2>3
<1>3. ASSUME Has(r, t, c) PROVE Has(q, t, c)
  <2>1. PICK i \in 1 .. Len(q) - 1 : r[i].type = t /\ r[i].call = c
    BY <1>1, <1>3 DEF Has
  <2>2. i + 1 \in 1 .. Len(q) /\ q[i + 1] = r[i]
    BY <1>1
  <2> QED
    BY <1>1, <2>1, <2>2 DEF Has
<1> QED
  BY <1>1, <1>2, <1>3 DEF Has

\* Order is kept by a message that comes later in the life of its call.
LEMMA RankedAppend ==
  ASSUME NEW n \in Nat, NEW q \in Seq(DownMsg(n)), NEW m \in DownMsg(n), NEW o, Ranked(q, o),
         m.type = "failed"
         \/ \A t \in Events \ {"failed"} : Has(q, t, m.call) => Later(t, m.type, m.call, o)
  PROVE  Ranked(Append(q, m), o)
<1> DEFINE r == Append(q, m)
<1>1. /\ DOMAIN q = 1 .. Len(q) /\ Len(q) \in Nat
      /\ DOMAIN r = 1 .. Len(q) + 1
      /\ \A i \in 1 .. Len(q) : r[i] = q[i] /\ q[i].type \in Events
      /\ r[Len(q) + 1] = m
  BY DEF DownMsg
<1> HIDE DEF r
<1> SUFFICES ASSUME NEW i \in 1 .. Len(q) + 1, NEW j \in 1 .. Len(q) + 1, i < j,
                    r[i].call = r[j].call, r[i].type # "failed", r[j].type # "failed"
             PROVE  Later(r[i].type, r[j].type, r[i].call, o)
  BY <1>1 DEF Ranked, r
<1>2. CASE j \in 1 .. Len(q)
  BY <1>1, <1>2 DEF Ranked
<1>3. CASE j = Len(q) + 1
  <2>1. i \in 1 .. Len(q) /\ r[i] = q[i] /\ r[j] = m /\ q[i].type \in Events \ {"failed"}
    BY <1>1, <1>3
  <2>2. Has(q, q[i].type, m.call)
    BY <1>1, <2>1 DEF Has
  <2> QED
    BY <2>1, <2>2
<1> QED
  BY <1>2, <1>3

\* Order is kept by the tail, which has what comes after the first message.
LEMMA RankedTail ==
  ASSUME NEW n \in Nat, NEW q \in Seq(DownMsg(n)), q # <<>>, NEW o, Ranked(q, o)
  PROVE  /\ Ranked(Tail(q), o)
         /\ Head(q).type # "failed" => \A t \in Events \ {"failed"} :
                Has(Tail(q), t, Head(q).call) => Later(Head(q).type, t, Head(q).call, o)
<1> DEFINE r == Tail(q)
           h == Head(q)
<1>1. /\ DOMAIN q = 1 .. Len(q) /\ Len(q) \in Nat \ {0}
      /\ DOMAIN r = 1 .. Len(q) - 1
      /\ \A i \in 1 .. Len(q) - 1 : r[i] = q[i + 1] /\ i + 1 \in 1 .. Len(q)
      /\ q[1] = h /\ 1 \in 1 .. Len(q)
  OBVIOUS
<1> HIDE DEF r, h
<1>2. Ranked(r, o)
  <2> SUFFICES ASSUME NEW i \in 1 .. Len(q) - 1, NEW j \in 1 .. Len(q) - 1, i < j,
                      r[i].call = r[j].call, r[i].type # "failed", r[j].type # "failed"
               PROVE  Later(r[i].type, r[j].type, r[i].call, o)
    BY <1>1 DEF Ranked
  <2>1. /\ r[i] = q[i + 1] /\ r[j] = q[j + 1] /\ i + 1 < j + 1
        /\ i + 1 \in DOMAIN q /\ j + 1 \in DOMAIN q
    BY <1>1
  <2> QED
    BY <2>1 DEF Ranked
<1>3. ASSUME h.type # "failed", NEW t \in Events \ {"failed"}, Has(r, t, h.call)
      PROVE  Later(h.type, t, h.call, o)
  <2>1. PICK i \in 1 .. Len(q) - 1 : r[i].type = t /\ r[i].call = h.call
    BY <1>1, <1>3 DEF Has
  <2>2. q[i + 1].type = t /\ q[i + 1].call = h.call /\ 1 < i + 1 /\ i + 1 \in 1 .. Len(q)
    BY <1>1, <2>1
  <2> QED
    BY <1>1, <1>3, <2>2 DEF Ranked
<1> QED
  BY <1>2, <1>3 DEF r, h

\* Order is a matter of the calls lost sight of, and there are ever more of them.
LEMMA RankedMore ==
  ASSUME NEW q, NEW o, NEW p, o \subseteq p, Ranked(q, o) PROVE Ranked(q, p)
<1> QED
  BY DEF Ranked, Later

-----------------------------------------------------------------------------
(* What a step does to the queues                                          *)

Sends(d, type, c) ==
    \A e \in Devices : \A t, x :
        Has(up'[e], t, x) <=> Has(up[e], t, x) \/ (e = d /\ t = type /\ x = c)

Tells(who, type, c) ==
    \A e \in Devices : \A t, x :
        Coming(e, t, x)' <=> Coming(e, t, x) \/ (e \in who /\ t = type /\ x = c)

\* The channels of the devices of who get the event.
Gets(who, type, c) ==
    \A e \in Devices : \A t, x :
        Has(down'[e], t, x) <=> Has(down[e], t, x) \/ (e \in who /\ t = type /\ x = c)

SameDues == \A t, x : Due(t, x)' <=> Due(t, x)
MoreDues(type, c) == \A t, x : Due(t, x)' <=> Due(t, x) \/ (t = type /\ x = c)

\* The first request of device d is taken.
Takes(d, type, c) ==
    \A e \in Devices : \A t, x :
        Has(up[e], t, x) <=> Has(up'[e], t, x) \/ (e = d /\ t = type /\ x = c)

\* The first event of device d is heard.
Hears(d, type, c) ==
    \A e \in Devices : \A t, x :
        Coming(e, t, x) <=> Coming(e, t, x)' \/ (e = d /\ t = type /\ x = c)

Loses(d, type, c) ==
    \A e \in Devices : \A t, x :
        Has(down[e], t, x) <=> Has(down'[e], t, x) \/ (e = d /\ t = type /\ x = c)

\* Appending a request of device d to its channel sends it.
LEMMA SendsAppend ==
  ASSUME up \in [Devices -> Seq(UpMsg(Len(phase)))], NEW d \in Devices,
         NEW m \in UpMsg(Len(phase)), up' = [up EXCEPT ![d] = Append(@, m)]
  PROVE  up' \in [Devices -> Seq(UpMsg(Len(phase)))] /\ Sends(d, m.type, m.call)
<1> DEFINE S == UpMsg(Len(phase))
<1> HIDE DEF S
<1>1. /\ up \in [Devices -> Seq(S)] /\ m \in S
      /\ \A e \in Devices : up'[e] = IF e = d THEN Append(up[e], m) ELSE up[e]
      /\ up' = [e \in Devices |-> IF e = d THEN Append(up[e], m) ELSE up[e]]
  BY DEF S
<1>2. Append(up[d], m) \in Seq(S)
  BY <1>1
<1>3. \A t, c : Has(Append(up[d], m), t, c) <=> Has(up[d], t, c) \/ (m.type = t /\ m.call = c)
  BY <1>1, HasAppend
<1> QED
  BY <1>1, <1>2, <1>3 DEF Sends, S

\* Dropping the first request of device d takes it.
LEMMA TakesTail ==
  ASSUME up \in [Devices -> Seq(UpMsg(Len(phase)))], NEW d \in Devices, up[d] # <<>>,
         up' = [up EXCEPT ![d] = Tail(@)]
  PROVE  /\ Head(up[d]) \in UpMsg(Len(phase))
         /\ up' \in [Devices -> Seq(UpMsg(Len(phase)))]
         /\ Takes(d, Head(up[d]).type, Head(up[d]).call)
<1> DEFINE S == UpMsg(Len(phase))
           h == Head(up[d])
<1> HIDE DEF S
<1>1. /\ up \in [Devices -> Seq(S)] /\ h \in S
      /\ \A e \in Devices : up'[e] = IF e = d THEN Tail(up[e]) ELSE up[e]
      /\ up' = [e \in Devices |-> IF e = d THEN Tail(up[e]) ELSE up[e]]
  <2>1. up \in [Devices -> Seq(S)]
    BY DEF S
  <2>2. up[d] \in Seq(S) /\ up[d] # <<>>
    BY <2>1
  <2>3. h \in S
    BY <2>2
  <2> QED
    BY <2>1, <2>3
<1>2. Tail(up[d]) \in Seq(S)
  BY <1>1
<1>3. \A t, c : Has(up[d], t, c) <=> Has(Tail(up[d]), t, c) \/ (h.type = t /\ h.call = c)
  BY <1>1, HasTail
<1> HIDE DEF h
<1> QED
  BY <1>1, <1>2, <1>3 DEF Takes, S, h

\* Dropping the first event of device d hears it, and leaves later ones of its call.
LEMMA HearsTail ==
  ASSUME down \in [Devices -> Seq(DownMsg(Len(phase)))], Len(phase) \in Nat,
         NEW d \in Devices, down[d] # <<>>, \A e \in Devices : Ranked(down[e], odd),
         down' = [down EXCEPT ![d] = Tail(@)]
  PROVE  /\ Head(down[d]) \in DownMsg(Len(phase))
         /\ down' \in [Devices -> Seq(DownMsg(Len(phase)))]
         /\ \A e \in Devices : Ranked(down'[e], odd)
         /\ Loses(d, Head(down[d]).type, Head(down[d]).call)
         /\ Head(down[d]).type # "failed" => \A t \in Events \ {"failed"} :
                Has(down'[d], t, Head(down[d]).call) =>
                    Later(Head(down[d]).type, t, Head(down[d]).call, odd)
<1> DEFINE S == DownMsg(Len(phase))
           h == Head(down[d])
<1>0. /\ Ranked(Tail(down[d]), odd)
      /\ h.type # "failed" => \A t \in Events \ {"failed"} :
             Has(Tail(down[d]), t, h.call) => Later(h.type, t, h.call, odd)
  BY RankedTail
<1> HIDE DEF S
<1>1. /\ down \in [Devices -> Seq(S)] /\ h \in S
      /\ \A e \in Devices : down'[e] = IF e = d THEN Tail(down[e]) ELSE down[e]
      /\ down' = [e \in Devices |-> IF e = d THEN Tail(down[e]) ELSE down[e]]
  <2>1. down \in [Devices -> Seq(S)]
    BY DEF S
  <2>2. down[d] \in Seq(S) /\ down[d] # <<>>
    BY <2>1
  <2>3. h \in S
    BY <2>2
  <2> QED
    BY <2>1, <2>3
<1>2. Tail(down[d]) \in Seq(S)
  BY <1>1
<1>3. \A t, c : Has(down[d], t, c) <=> Has(Tail(down[d]), t, c) \/ (h.type = t /\ h.call = c)
  BY <1>1, HasTail
<1> HIDE DEF h
<1> QED
  BY <1>0, <1>1, <1>2, <1>3 DEF Loses, S, h

\* The queues keep their types as calls are placed.
LEMMA QueuesGrow ==
  ASSUME NEW n \in Nat, NEW m \in Nat, n <= m
  PROVE  /\ \A q \in Seq(UpMsg(n)) : q \in Seq(UpMsg(m))
         /\ \A q \in Seq(DownMsg(n)) : q \in Seq(DownMsg(m))
<1>1. 0 .. n \subseteq 0 .. m
  OBVIOUS
<1>2. UpMsg(n) \subseteq UpMsg(m) /\ DownMsg(n) \subseteq DownMsg(m)
  BY <1>1 DEF UpMsg, DownMsg
<1> QED
  BY <1>2, SeqMonotonic

\* Each device of who is told ev of it.
LEMMA TellsEach ==
  ASSUME NEW n \in Nat, down \in [Devices -> Seq(DownMsg(n))],
         \A e \in Devices : Ranked(down[e], odd), NEW who, NEW ev,
         down' = [e \in Devices |-> down'[e]],
         \A e \in Devices : down'[e] = IF e \in who THEN Append(down[e], ev[e]) ELSE down[e],
         \A e \in Devices : e \in who =>
             /\ ev[e] \in DownMsg(n)
             /\ ev[e].type = "failed" \/ \A t \in Events \ {"failed"} :
                    Has(down[e], t, ev[e].call) => Later(t, ev[e].type, ev[e].call, odd)
  PROVE  /\ down' \in [Devices -> Seq(DownMsg(n))]
         /\ \A e \in Devices : Ranked(down'[e], odd)
         /\ \A e \in Devices : \A t, x :
                Has(down'[e], t, x) <=> Has(down[e], t, x)
                    \/ (e \in who /\ t = ev[e].type /\ x = ev[e].call)
<1> DEFINE S == DownMsg(n)
<1>2. ASSUME NEW e \in Devices
      PROVE  /\ down'[e] \in Seq(S) /\ Ranked(down'[e], odd)
             /\ \A t, x : Has(down'[e], t, x) <=>
                    Has(down[e], t, x) \/ (e \in who /\ t = ev[e].type /\ x = ev[e].call)
  <2>1. CASE e \notin who
    BY <2>1
  <2>2. CASE e \in who
    <3> DEFINE m == ev[e]
    <3>1. /\ down'[e] = Append(down[e], m) /\ down[e] \in Seq(S) /\ Ranked(down[e], odd)
          /\ m \in S
          /\ m.type = "failed" \/ \A t \in Events \ {"failed"} :
                 Has(down[e], t, m.call) => Later(t, m.type, m.call, odd)
      BY <2>2
    <3> HIDE DEF m
    <3>2. Ranked(Append(down[e], m), odd)
      BY <3>1, RankedAppend
    <3> HIDE DEF S
    <3>3. \A t, x : Has(Append(down[e], m), t, x) <=>
                    Has(down[e], t, x) \/ (m.type = t /\ m.call = x)
      BY <3>1, HasAppend
    <3>4. Append(down[e], m) \in Seq(S)
      BY <3>1
    <3> QED
      BY <2>2, <3>1, <3>2, <3>3, <3>4 DEF m
  <2> QED
    BY <2>1, <2>2
<1>3. down' \in [Devices -> Seq(S)]
  BY <1>2
<1> QED
  BY <1>2, <1>3

\* The devices of who are told of call c.
LEMMA TellsTo ==
  ASSUME NEW n \in Nat, down \in [Devices -> Seq(DownMsg(n))],
         \A e \in Devices : Ranked(down[e], odd), NEW who, NEW type, NEW c,
         Tell(To(who, type, c)), [type |-> type, call |-> c] \in DownMsg(n),
         type = "failed" \/ \A e \in Devices : e \in who => \A t \in Events \ {"failed"} :
             Has(down[e], t, c) => Later(t, type, c, odd)
  PROVE  /\ down' \in [Devices -> Seq(DownMsg(n))]
         /\ \A e \in Devices : Ranked(down'[e], odd)
         /\ Gets(who, type, c)
<1> DEFINE m == [type |-> type, call |-> c]
           ev == [e \in Devices |-> m]
<1>1. m \in DownMsg(n) /\ m.type = type /\ m.call = c
  OBVIOUS
<1>2. down' = [e \in Devices |-> IF e \in who THEN Append(down[e], m) ELSE down[e]]
  <2>1. \A e \in Devices : down[e] \o <<>> = down[e] /\ down[e] \o <<m>> = Append(down[e], m)
    <3>1. \A e \in Devices : down[e] \in Seq(DownMsg(n))
      OBVIOUS
    <3> HIDE DEF m
    <3> QED
      BY <3>1, <1>1
  <2>2. down' = [e \in Devices |-> down[e] \o (IF e \in who THEN <<m>> ELSE <<>>)]
    BY DEF Tell, To
  <2> HIDE DEF m
  <2> QED
    BY <2>1, <2>2
<1> HIDE DEF m
<1>3. /\ down' = [e \in Devices |-> down'[e]]
      /\ \A e \in Devices : down'[e] = IF e \in who THEN Append(down[e], ev[e]) ELSE down[e]
  BY <1>2
<1>4. \A e \in Devices : ev[e] = m
  OBVIOUS
<1> HIDE DEF ev
<1>5. \A e \in Devices : e \in who =>
          /\ ev[e] \in DownMsg(n)
          /\ ev[e].type = "failed" \/ \A t \in Events \ {"failed"} :
                 Has(down[e], t, ev[e].call) => Later(t, ev[e].type, ev[e].call, odd)
  BY <1>1, <1>4
<1>6. /\ down' \in [Devices -> Seq(DownMsg(n))]
      /\ \A e \in Devices : Ranked(down'[e], odd)
      /\ \A e \in Devices : \A t, x :
             Has(down'[e], t, x) <=> Has(down[e], t, x)
                 \/ (e \in who /\ t = ev[e].type /\ x = ev[e].call)
  BY <1>3, <1>5, TellsEach
<1> QED
  BY <1>1, <1>4, <1>6 DEF Gets

-----------------------------------------------------------------------------
(* The invariant, fact by fact                                             *)

\* What the invariant says of each device and each call.
LEMMA Facts ==
  ASSUME ClientInv
  PROVE  /\ Typed
         /\ Orderly
         /\ \A d \in Devices : Named(d) /\ ShowsUnnumbered(d) /\ Socket(d)
         /\ \A d \in Devices : \A c \in Calls :
                /\ Incoming(d, c) /\ Ringing(d, c) /\ Accepted(d, c) /\ Ended(d, c)
                /\ HangsUp(d, c) /\ ShowsIncoming(d, c) /\ ShowsOutgoing(d, c)
                /\ ShowsActive(d, c) /\ Awaits(d, c)
         /\ \A c \in Calls : OnePlacing(c) /\ Home(c) /\ Kept(c) /\ Awaited(c) /\ Owing(c)
<1> QED
  BY DEF ClientInv, Messages, Screens, Placed, Held

\* The same facts after a step give back the invariant.
LEMMA FromFacts ==
  ASSUME Typed', Orderly',
         \A d \in Devices : Named(d)' /\ ShowsUnnumbered(d)' /\ Socket(d)',
         \A d \in Devices : \A c \in Calls' :
             /\ Incoming(d, c)' /\ Ringing(d, c)' /\ Accepted(d, c)' /\ Ended(d, c)'
             /\ HangsUp(d, c)' /\ ShowsIncoming(d, c)' /\ ShowsOutgoing(d, c)'
             /\ ShowsActive(d, c)' /\ Awaits(d, c)',
         \A c \in Calls' : OnePlacing(c)' /\ Home(c)' /\ Kept(c)' /\ Awaited(c)' /\ Owing(c)'
  PROVE  ClientInv'
<1> QED
  BY DEF ClientInv, Messages, Screens, Placed, Held

\* A step that tells nobody anything.
LEMMA SameQueues ==
  ASSUME UNCHANGED <<down, due, odd>>
  PROVE  /\ \A e \in Devices : \A t, x : Coming(e, t, x)' <=> Coming(e, t, x)
         /\ \A t, x : Due(t, x)' <=> Due(t, x)
         /\ Orderly => Orderly'
<1> QED
  BY DEF Coming, Owed, Due, Orderly

-----------------------------------------------------------------------------
(* What the user presses keeps the invariant                               *)

\* Request type about call k, and the screen to s.
Presses(d, type, k, s) ==
    /\ UNCHANGED <<server, down, odd>>
    /\ screen' = [screen EXCEPT ![d] = s]
    /\ k = screen[d].call
    /\ \/ Sends(d, type, k)
       \/ k = 0 /\ type = "cancel" /\ UNCHANGED up
    /\ \/ /\ type = "invite" /\ screen[d].status = "idle"
          /\ s = [status |-> "outgoing", call |-> 0, peer |-> TRUE]
       \/ type = "accept" /\ screen[d].status = "incoming" /\ s = screen[d]
       \/ type = "add" /\ screen[d].status = "active" /\ s = screen[d]
       \/ type = "decline" /\ screen[d].status = "incoming" /\ s = IDLE
       \/ type = "cancel" /\ screen[d].status = "outgoing" /\ s = IDLE
       \/ type = "hangup" /\ screen[d].status = "active" /\ s = IDLE

\* A press that sends its request keeps the invariant, whichever button it is.
LEMMA PressKeeps ==
  ASSUME ClientInv, NEW d \in Devices, NEW type, NEW k, NEW s,
         Presses(d, type, k, s), Typed'
  PROVE  ClientInv'
<1>1. /\ phase' = phase /\ ends' = ends /\ sock' = sock /\ odd' = odd
      /\ Calls' = Calls
      /\ \A e \in Devices : \A t, x : Coming(e, t, x)' <=> Coming(e, t, x)
      /\ \A t, x : Due(t, x)' <=> Due(t, x)
      /\ Orderly'
  BY SameQueues, Facts DEF Presses, server, Calls
<1>2. /\ \A e \in Devices : screen'[e] = IF e = d THEN s ELSE screen[e]
      /\ \A e \in Devices : \A t, x : Has(up[e], t, x) => Has(up'[e], t, x)
      /\ \A e \in Devices : \A t, x : Has(up'[e], t, x) /\ ~Has(up[e], t, x) =>
             e = d /\ t = type /\ x = k
      /\ (k = 0 /\ type = "cancel") \/ Has(up'[d], type, k)
      /\ k = screen[d].call
      /\ \/ /\ type = "invite" /\ screen[d].status = "idle"
            /\ s = [status |-> "outgoing", call |-> 0, peer |-> TRUE]
         \/ type = "accept" /\ screen[d].status = "incoming" /\ s = screen[d]
         \/ type = "add" /\ screen[d].status = "active" /\ s = screen[d]
         \/ type = "decline" /\ screen[d].status = "incoming" /\ s = IDLE
         \/ type = "cancel" /\ screen[d].status = "outgoing" /\ s = IDLE
         \/ type = "hangup" /\ screen[d].status = "active" /\ s = IDLE
  BY Facts DEF Presses, Sends, Typed
<1>3. /\ \A c \in Calls : c # 0
      /\ screen[d].status = "idle" => screen[d].call = 0
  BY Facts DEF Calls, Named, IDLE
<1>4. ASSUME NEW e \in Devices PROVE Named(e)' /\ ShowsUnnumbered(e)' /\ Socket(e)'
  <2>0. Named(e) /\ ShowsUnnumbered(e) /\ Socket(e)
    BY Facts
  <2>1. Named(e)'
    <3>1. CASE e # d
      BY <1>1, <1>2, <2>0, <3>1 DEF Named
    <3>2. CASE e = d /\ s = screen[d]
      BY <1>1, <1>2, <2>0, <3>2 DEF Named
    <3>3. CASE e = d /\ s # screen[d]
      <4>1. s = IDLE \/ (s.status = "outgoing" /\ s.peer)
        BY <1>2, <3>3
      <4>2. screen'[e] = s /\ IDLE.status = "idle"
        BY <1>2, <3>3 DEF IDLE
      <4> QED
        BY <4>1, <4>2 DEF Named
    <3> QED
      BY <3>1, <3>2, <3>3
  <2>2. ShowsUnnumbered(e)'
    BY <2>0, <1>1, <1>2, <1>3 DEF ShowsUnnumbered, On, Refused, IDLE
  <2>3. Socket(e)'
    BY <2>0, <1>1, <1>2, <1>3 DEF Socket, Party, IDLE
  <2> QED
    BY <2>1, <2>2, <2>3
<1>5. ASSUME NEW e \in Devices, NEW c \in Calls
      PROVE  /\ Incoming(e, c)' /\ Ringing(e, c)' /\ Accepted(e, c)' /\ Ended(e, c)'
             /\ HangsUp(e, c)'
             /\ ShowsIncoming(e, c)' /\ ShowsOutgoing(e, c)' /\ ShowsActive(e, c)'
             /\ Awaits(e, c)'
  <2>0. /\ Incoming(e, c) /\ Ringing(e, c) /\ Accepted(e, c) /\ Ended(e, c) /\ HangsUp(e, c)
        /\ ShowsIncoming(e, c) /\ ShowsOutgoing(e, c) /\ ShowsActive(e, c) /\ Named(e)
        /\ Awaits(e, c) /\ Owing(c)
    BY Facts
  <2>1. Incoming(e, c)'
    BY <2>0, <1>1, <1>2, <1>3 DEF Incoming, Unheard, IDLE
  <2>2. Ringing(e, c)'
    BY <2>0, <1>1, <1>2, <1>3 DEF Ringing, Unheard, Outcome, IDLE
  <2>3. Accepted(e, c)'
    BY <2>0, <1>1, <1>2, <1>3 DEF Accepted, Party, On, IDLE
  <2>4. Ended(e, c)'
    BY <2>0, <1>1, <1>2, <1>3 DEF Ended, IDLE
  <2>5. HangsUp(e, c)'
    BY <2>0, <1>1, <1>2 DEF HangsUp, ShowsActive, On, Party
  <2>6. ShowsIncoming(e, c)'
    BY <2>0, <1>1, <1>2, <1>3 DEF ShowsIncoming, On, Refused, IDLE
  <2>7. ShowsOutgoing(e, c)'
    BY <2>0, <1>1, <1>2, <1>3 DEF ShowsOutgoing, On, Outcome, IDLE
  <2>8. ShowsActive(e, c)'
    BY <2>0, <1>1, <1>2, <1>3 DEF ShowsActive, On, Party, IDLE
  <2>9. Awaits(e, c)'
    BY <2>0, <1>1, <1>2, <1>3 DEF Awaits, Waits, Owing, Named, On, Terminal, Live, IDLE
  <2> QED
    BY <2>1, <2>2, <2>3, <2>4, <2>5, <2>6, <2>7, <2>8, <2>9
<1>6. ASSUME NEW c \in Calls
      PROVE  OnePlacing(c)' /\ Home(c)' /\ Kept(c)' /\ Awaited(c)' /\ Owing(c)'
  <2>0. OnePlacing(c) /\ Home(c) /\ Kept(c) /\ Awaited(c) /\ Owing(c)
    BY Facts
  <2>1. OnePlacing(c)'
    <3>1. ASSUME NEW e \in Devices, Placing(e, c)' PROVE Placing(e, c)
      BY <1>1, <1>2, <1>3, <3>1 DEF Placing, On, IDLE
    <3> QED
      BY <2>0, <1>1, <3>1 DEF OnePlacing
  <2>2. Home(c)'
    BY <2>0, <1>1, <1>2, <1>3 DEF Home, IDLE
  <2>3. Kept(c)'
    BY <2>0, <1>1, <1>2, <1>3 DEF Kept, Keeps, On, IDLE
  <2>4. Awaited(c)'
    BY <2>0, <1>1, <1>2, <1>3 DEF Awaited, Waits, On, IDLE
  <2>5. Owing(c)'
    BY <2>0, <1>1, <1>2, <1>3 DEF Owing, On, Terminal, Live, IDLE
  <2> QED
    BY <2>1, <2>2, <2>3, <2>4, <2>5
<1> QED
  BY <1>1, <1>4, <1>5, <1>6, Facts, FromFacts

Screen(n) == [status : {"idle", "outgoing", "incoming", "active"}, call : 0 .. n, peer : BOOLEAN]

\* An idle screen is a screen.
LEMMA IdleTyped == Typed => IDLE \in Screen(Len(phase)) /\ Len(phase) \in Nat
<1> QED
  BY DEF Typed, IDLE, Screen

\* A press keeps the types and sends its request.
LEMMA PressTyped ==
  ASSUME Typed, NEW d \in Devices, NEW m \in UpMsg(Len(phase)),
         NEW s \in Screen(Len(phase)), UNCHANGED <<server, down, odd>>,
         screen' = [screen EXCEPT ![d] = s], up' = [up EXCEPT ![d] = Append(@, m)]
  PROVE  Typed' /\ Sends(d, m.type, m.call)
<1>1. /\ up' \in [Devices -> Seq(UpMsg(Len(phase)))] /\ Sends(d, m.type, m.call)
  BY SendsAppend DEF Typed
<1>2. screen' \in [Devices -> Screen(Len(phase))]
  BY DEF Typed, Screen
<1> QED
  BY <1>1, <1>2 DEF Typed, server, Calls, Screen

\* A message about the call on the screen.
LEMMA MsgTyped ==
  ASSUME Typed, NEW d \in Devices, NEW type \in Requests \ {"invite"},
         NEW c \in 0 .. Len(phase), c # 0
  PROVE  Msg(type, d, c) \in UpMsg(Len(phase)) /\ Msg(type, d, c).type = type
         /\ Msg(type, d, c).call = c
<1> QED
  BY ClientAssumption DEF Msg, UpMsg

\* Declining, cancelling and hanging up keep the invariant.
LEMMA DismissKeeps ==
  ASSUME ClientInv, NEW d \in Devices, NEW status, NEW type, Dismiss(d, status, type),
         <<status, type>> \in {<<"incoming", "decline">>, <<"outgoing", "cancel">>,
                               <<"active", "hangup">>}
  PROVE  ClientInv'
<1> DEFINE k == screen[d].call
           m == Msg(type, d, k)
<1>1. /\ Typed /\ Named(d) /\ k \in 0 .. Len(phase) /\ screen[d].status = status
      /\ screen' = [screen EXCEPT ![d] = IDLE] /\ UNCHANGED <<server, down, odd>>
      /\ up' = IF k = 0 THEN up ELSE [up EXCEPT ![d] = Append(@, m)]
  BY Facts DEF Dismiss, Emit, Shows, Typed
<1>2. CASE k = 0
  <2>1. type = "cancel" /\ status = "outgoing" /\ UNCHANGED up
    BY <1>1, <1>2 DEF Named
  <2>2. Presses(d, type, 0, IDLE)
    BY <1>1, <1>2, <2>1 DEF Presses
  <2>3. Typed'
    BY <1>1, <2>1, IdleTyped DEF Typed, server, Calls, Screen
  <2> QED
    BY <2>2, <2>3, PressKeeps
<1>3. CASE k # 0
  <2>1. m \in UpMsg(Len(phase)) /\ m.type = type /\ m.call = k
    BY <1>1, <1>3, MsgTyped DEF Requests
  <2> HIDE DEF m
  <2>2. Typed' /\ Sends(d, type, k)
    BY <1>1, <1>3, <2>1, PressTyped, IdleTyped
  <2>3. Presses(d, type, k, IDLE)
    BY <1>1, <2>2 DEF Presses
  <2> QED
    BY <2>2, <2>3, PressKeeps
<1> QED
  BY <1>2, <1>3

\* Calling, adding somebody and accepting keep the invariant.
LEMMA AskKeeps ==
  ASSUME ClientInv, NEW d \in Devices, NEW u \in Users,
         CallUser(d, u) \/ AddToCall(d, u) \/ Accept(d)
  PROVE  ClientInv'
<1> DEFINE k == screen[d].call
<1>1. /\ Typed /\ Named(d) /\ k \in 0 .. Len(phase) /\ screen[d] \in Screen(Len(phase))
      /\ [screen EXCEPT ![d] = screen[d]] = screen /\ Len(phase) \in Nat
  BY Facts DEF Typed, Screen
<1>2. CASE CallUser(d, u)
  <2> DEFINE m == [type |-> "invite", call |-> 0, to |-> u]
             s == [status |-> "outgoing", call |-> 0, peer |-> TRUE]
  <2>1. /\ k = 0 /\ screen[d].status = "idle" /\ UNCHANGED <<server, down, odd>>
        /\ screen' = [screen EXCEPT ![d] = s] /\ up' = [up EXCEPT ![d] = Append(@, m)]
    BY <1>1, <1>2 DEF CallUser, Named, IDLE
  <2>2. m \in UpMsg(Len(phase)) /\ m.type = "invite" /\ m.call = 0
    BY <1>1 DEF UpMsg, Requests
  <2>3. s \in Screen(Len(phase))
    BY <1>1 DEF Screen
  <2> HIDE DEF m
  <2>4. Typed' /\ Sends(d, "invite", 0)
    BY <1>1, <2>1, <2>2, <2>3, PressTyped
  <2>5. Presses(d, "invite", 0, s)
    BY <2>1, <2>4 DEF Presses
  <2> QED
    BY <2>4, <2>5, PressKeeps
<1>3. CASE AddToCall(d, u)
  <2> DEFINE m == [type |-> "add", call |-> k, to |-> u]
  <2>1. /\ k # 0 /\ screen[d].status = "active" /\ UNCHANGED <<server, down, odd>>
        /\ screen' = [screen EXCEPT ![d] = screen[d]] /\ up' = [up EXCEPT ![d] = Append(@, m)]
    BY <1>1, <1>3 DEF AddToCall, Shows, Named
  <2>2. m \in UpMsg(Len(phase)) /\ m.type = "add" /\ m.call = k
    BY <1>1, <2>1 DEF UpMsg, Requests
  <2> HIDE DEF m
  <2>4. Typed' /\ Sends(d, "add", k)
    BY <1>1, <2>1, <2>2, PressTyped
  <2>5. Presses(d, "add", k, screen[d])
    BY <2>1, <2>4 DEF Presses
  <2> QED
    BY <2>4, <2>5, PressKeeps
<1>4. CASE Accept(d)
  <2> DEFINE m == Msg("accept", d, k)
  <2>1. /\ k # 0 /\ screen[d].status = "incoming" /\ UNCHANGED <<server, down, odd>>
        /\ screen' = [screen EXCEPT ![d] = screen[d]] /\ up' = [up EXCEPT ![d] = Append(@, m)]
    BY <1>1, <1>4 DEF Accept, Emit, Shows, Named
  <2>2. m \in UpMsg(Len(phase)) /\ m.type = "accept" /\ m.call = k
    BY <1>1, <2>1, MsgTyped DEF Requests
  <2> HIDE DEF m
  <2>4. Typed' /\ Sends(d, "accept", k)
    BY <1>1, <2>1, <2>2, PressTyped
  <2>5. Presses(d, "accept", k, screen[d])
    BY <2>1, <2>4 DEF Presses
  <2> QED
    BY <2>4, <2>5, PressKeeps
<1> QED
  BY <1>2, <1>3, <1>4

-----------------------------------------------------------------------------
(* What the client hears keeps the invariant                               *)

\* Device d hears type about call k, the first of its events.
Listens(d, type, k) ==
    /\ UNCHANGED server
    /\ Hears(d, type, k)
    /\ Orderly'
    /\ type \in {"accepted", "ended"} => ~Due(type, k)
    /\ type # "failed" => \A t \in Events \ {"failed"} :
           Coming(d, t, k)' => Later(type, t, k, odd)

\* What is left to hear was to be heard before, the rest is the first event.
LEMMA Listened ==
  ASSUME NEW d \in Devices, NEW type, NEW k, Listens(d, type, k)
  PROVE  /\ phase' = phase /\ ends' = ends /\ sock' = sock /\ Calls' = Calls
         /\ \A t, x : Due(t, x)' <=> Due(t, x)
         /\ \A e \in Devices : \A t, x : Coming(e, t, x)' => Coming(e, t, x)
         /\ \A e \in Devices : \A t, x : Coming(e, t, x) /\ ~Coming(e, t, x)' =>
                e = d /\ t = type /\ x = k
         /\ Coming(d, type, k)
         /\ type \in {"incoming", "ringing", "accepted", "ended"} => ~Coming(d, type, k)'
         /\ type \in {"accepted", "ended"} =>
                ~Coming(d, "incoming", k)' /\ ~Coming(d, "ringing", k)'
         /\ type = "ended" => ~Coming(d, "accepted", k)' \/ k \in odd
         /\ type \in {"accepted", "ended"} => ~Due(type, k)
         /\ Orderly'
<1>1. /\ UNCHANGED server /\ Hears(d, type, k) /\ Orderly'
      /\ type # "failed" => \A t \in Events \ {"failed"} :
             Coming(d, t, k)' => Later(type, t, k, odd)
  BY DEF Listens
<1>2. /\ Rank("incoming") = 1 /\ Rank("ringing") = 1 /\ Rank("accepted") = 2 /\ Rank("ended") = 3
      /\ {"incoming", "ringing", "accepted", "ended"} = Events \ {"failed"}
  BY DEF Rank, Events
<1>3. type \in {"incoming", "ringing", "accepted", "ended"} => ~Coming(d, type, k)'
  BY <1>1, <1>2 DEF Later
<1>4. /\ type \in {"accepted", "ended"} =>
             ~Coming(d, "incoming", k)' /\ ~Coming(d, "ringing", k)'
      /\ type = "ended" => ~Coming(d, "accepted", k)' \/ k \in odd
  BY <1>1, <1>2 DEF Later
<1> QED
  <2>1. /\ UNCHANGED server /\ Orderly' /\ Hears(d, type, k)
        /\ type \in {"accepted", "ended"} => ~Due(type, k)
    BY DEF Listens
  <2>2. \A t, x : Due(t, x)' <=> Due(t, x)
    BY <2>1 DEF server, Due
  <2> QED
    BY <2>1, <2>2, <1>3, <1>4 DEF server, Hears, Calls

\* No call has number 0, and none joins a user to himself.
LEMMA CallsApart ==
  ASSUME ClientInv PROVE \A c \in Calls : c # 0 /\ ends[c].caller # ends[c].callee
<1> QED
  BY Facts DEF Calls, Typed

\* A busy client hears of a call and declines it.
LEMMA DeclineBusy ==
  ASSUME ClientInv, NEW d \in Devices, NEW k \in Calls \cup {0}, Listens(d, "incoming", k),
         k # 0,
         screen[d].status # "idle", Sends(d, "decline", k), UNCHANGED <<screen, odd>>, Typed'
  PROVE  ClientInv'
<1>1. /\ phase' = phase /\ ends' = ends /\ sock' = sock /\ Calls' = Calls
      /\ \A t, x : Due(t, x)' <=> Due(t, x)
      /\ \A e \in Devices : \A t, x : Coming(e, t, x)' => Coming(e, t, x)
      /\ \A e \in Devices : \A t, x : Coming(e, t, x) /\ ~Coming(e, t, x)' =>
             e = d /\ t = "incoming" /\ x = k
      /\ Coming(d, "incoming", k)
      /\ ~Coming(d, "incoming", k)'
      /\ Orderly'
  BY Listened
<1>2. /\ screen' = screen /\ odd' = odd
      /\ \A e \in Devices : \A t, x : Has(up[e], t, x) => Has(up'[e], t, x)
      /\ \A e \in Devices : \A t, x : Has(up'[e], t, x) /\ ~Has(up[e], t, x) =>
             e = d /\ t = "decline" /\ x = k
      /\ k \in Calls /\ screen[d].call # k /\ ends[k].callee = Owner[d]
  BY <1>1, Facts DEF Sends, Incoming, Unheard
<1>3. \A c \in Calls : c # 0 /\ ends[c].caller # ends[c].callee
  BY CallsApart
<1>4. ASSUME NEW e \in Devices PROVE Named(e)' /\ ShowsUnnumbered(e)' /\ Socket(e)'
  <2>0. Named(e) /\ ShowsUnnumbered(e) /\ Socket(e)
    BY Facts
  <2>1. Named(e)'
    BY <2>0, <1>1, <1>2, <1>3 DEF Named, IDLE
  <2>2. ShowsUnnumbered(e)'
    BY <2>0, <1>1, <1>2, <1>3 DEF ShowsUnnumbered, On, Refused, IDLE
  <2>3. Socket(e)'
    BY <2>0, <1>1, <1>2, <1>3 DEF Socket, Party, IDLE
  <2> QED
    BY <2>1, <2>2, <2>3
<1>5. ASSUME NEW e \in Devices, NEW c \in Calls
      PROVE  /\ Incoming(e, c)' /\ Ringing(e, c)' /\ Accepted(e, c)' /\ Ended(e, c)'
             /\ HangsUp(e, c)'
             /\ ShowsIncoming(e, c)' /\ ShowsOutgoing(e, c)' /\ ShowsActive(e, c)'
             /\ Awaits(e, c)'
  <2>0. /\ Incoming(e, c) /\ Ringing(e, c) /\ Accepted(e, c) /\ Ended(e, c) /\ HangsUp(e, c)
        /\ ShowsIncoming(e, c) /\ ShowsOutgoing(e, c) /\ ShowsActive(e, c) /\ Named(e)
        /\ Awaits(e, c) /\ Owing(c)
    BY Facts
  <2>1. Incoming(e, c)'
    BY <2>0, <1>1, <1>2, <1>3 DEF Incoming, Unheard, IDLE
  <2>2. Ringing(e, c)'
    BY <2>0, <1>1, <1>2, <1>3 DEF Ringing, Unheard, Outcome, IDLE
  <2>3. Accepted(e, c)'
    BY <2>0, <1>1, <1>2, <1>3 DEF Accepted, Party, On, IDLE
  <2>4. Ended(e, c)'
    BY <2>0, <1>1, <1>2, <1>3 DEF Ended, IDLE
  <2>5. HangsUp(e, c)'
    BY <2>0, <1>1, <1>2, <1>3 DEF HangsUp, Party, IDLE
  <2>6. ShowsIncoming(e, c)'
    BY <2>0, <1>1, <1>2, <1>3 DEF ShowsIncoming, On, Refused, IDLE
  <2>7. ShowsOutgoing(e, c)'
    BY <2>0, <1>1, <1>2, <1>3 DEF ShowsOutgoing, On, Outcome, IDLE
  <2>8. ShowsActive(e, c)'
    BY <2>0, <1>1, <1>2, <1>3 DEF ShowsActive, On, Party, IDLE
  <2>9. Awaits(e, c)'
    BY <2>0, <1>1, <1>2, <1>3 DEF Awaits, Waits, Owing, Named, On, Terminal, Live, IDLE
  <2> QED
    BY <2>1, <2>2, <2>3, <2>4, <2>5, <2>6, <2>7, <2>8, <2>9
<1>6. ASSUME NEW c \in Calls
      PROVE  OnePlacing(c)' /\ Home(c)' /\ Kept(c)' /\ Awaited(c)' /\ Owing(c)'
  <2>0. OnePlacing(c) /\ Home(c) /\ Kept(c) /\ Awaited(c) /\ Owing(c)
    BY Facts
  <2>1. OnePlacing(c)'
    BY <2>0, <1>1, <1>2, <1>3 DEF OnePlacing, Placing, On, IDLE
  <2>2. Home(c)'
    BY <2>0, <1>1, <1>2, <1>3 DEF Home, IDLE
  <2>3. Kept(c)'
    BY <2>0, <1>1, <1>2, <1>3 DEF Kept, Keeps, On, IDLE
  <2>4. Awaited(c)'
    BY <2>0, <1>1, <1>2, <1>3 DEF Awaited, Waits, On, IDLE
  <2>5. Owing(c)'
    BY <2>0, <1>1, <1>2, <1>3 DEF Owing, On, Terminal, Live, IDLE
  <2> QED
    BY <2>1, <2>2, <2>3, <2>4, <2>5
<1> QED
  BY <1>1, <1>4, <1>5, <1>6, Facts, FromFacts

\* An idle client hears of a call and shows it.
LEMMA ShowIncoming ==
  ASSUME ClientInv, NEW d \in Devices, NEW k \in Calls \cup {0}, Listens(d, "incoming", k),
         k # 0,
         screen[d].status = "idle", Shown(d, "incoming", k), UNCHANGED <<up, odd>>, Typed'
  PROVE  ClientInv'
<1>1. /\ phase' = phase /\ ends' = ends /\ sock' = sock /\ Calls' = Calls
      /\ \A t, x : Due(t, x)' <=> Due(t, x)
      /\ \A e \in Devices : \A t, x : Coming(e, t, x)' => Coming(e, t, x)
      /\ \A e \in Devices : \A t, x : Coming(e, t, x) /\ ~Coming(e, t, x)' =>
             e = d /\ t = "incoming" /\ x = k
      /\ Coming(d, "incoming", k)
      /\ ~Coming(d, "incoming", k)'
      /\ Orderly'
  BY Listened
<1>2. /\ up' = up /\ odd' = odd
      /\ \A e \in Devices : e # d => screen'[e] = screen[e]
      /\ screen'[d].status = "incoming" /\ screen'[d].call = k /\ screen'[d].peer
      /\ k \in Calls /\ screen[d].call = 0 /\ screen[d].status = "idle"
      /\ \A t \in Requests : ~Has(up[d], t, k)
      /\ ~Coming(d, "accepted", k) /\ sock[d] # k /\ ends[k].callee = Owner[d]
      /\ \/ phase[k] = "RINGING" \/ Coming(d, "ended", k)
         \/ ~Alone(d) /\ phase[k] \in {"ACTIVE", "DECLINED", "ENDED"}
  BY <1>1, Facts DEF Shown, Typed, Named, IDLE, Incoming, Unheard
<1>3. \A c \in Calls : c # 0 /\ ends[c].caller # ends[c].callee
  BY CallsApart
<1>4. ASSUME NEW e \in Devices PROVE Named(e)' /\ ShowsUnnumbered(e)' /\ Socket(e)'
  <2>0. Named(e) /\ ShowsUnnumbered(e) /\ Socket(e)
    BY Facts
  <2>1. Named(e)'
    BY <2>0, <1>1, <1>2, <1>3 DEF Named, IDLE
  <2>2. ShowsUnnumbered(e)'
    BY <2>0, <1>1, <1>2, <1>3 DEF ShowsUnnumbered, On, Refused, IDLE
  <2>3. Socket(e)'
    BY <2>0, <1>1, <1>2, <1>3 DEF Socket, Party, IDLE
  <2> QED
    BY <2>1, <2>2, <2>3
<1>5. ASSUME NEW e \in Devices, NEW c \in Calls
      PROVE  /\ Incoming(e, c)' /\ Ringing(e, c)' /\ Accepted(e, c)' /\ Ended(e, c)'
             /\ HangsUp(e, c)'
             /\ ShowsIncoming(e, c)' /\ ShowsOutgoing(e, c)' /\ ShowsActive(e, c)'
             /\ Awaits(e, c)'
  <2>0. /\ Incoming(e, c) /\ Ringing(e, c) /\ Accepted(e, c) /\ Ended(e, c) /\ HangsUp(e, c)
        /\ ShowsIncoming(e, c) /\ ShowsOutgoing(e, c) /\ ShowsActive(e, c) /\ Named(e)
        /\ Awaits(e, c) /\ Owing(c)
    BY Facts
  <2>1. Incoming(e, c)'
    BY <2>0, <1>1, <1>2, <1>3 DEF Incoming, Unheard, IDLE
  <2>2. Ringing(e, c)'
    BY <2>0, <1>1, <1>2, <1>3 DEF Ringing, Unheard, Outcome, IDLE
  <2>3. Accepted(e, c)'
    BY <2>0, <1>1, <1>2, <1>3 DEF Accepted, Party, On, IDLE
  <2>4. Ended(e, c)'
    BY <2>0, <1>1, <1>2, <1>3 DEF Ended, IDLE
  <2>5. HangsUp(e, c)'
    BY <2>0, <1>1, <1>2, <1>3 DEF HangsUp, Party, IDLE
  <2>6. ShowsIncoming(e, c)'
    <3>1. (Refused(e) => Refused(e)')
      BY <1>1 DEF Refused
    <3>2. CASE e # d
      BY <1>1, <1>2, <1>3, <2>0, <3>1, <3>2 DEF ShowsIncoming, On
    <3>3. CASE e = d
      <4>1. CASE c = screen'[d].call
        BY <1>1, <1>2, <1>3, <2>0, <3>1, <3>3, <4>1 DEF ShowsIncoming, On, IDLE, Requests
      <4>2. CASE c # screen'[d].call
        BY <3>3, <4>2 DEF ShowsIncoming, On
      <4> QED
        BY <4>1, <4>2
    <3> QED
      BY <3>2, <3>3
  <2>7. ShowsOutgoing(e, c)'
    BY <2>0, <1>1, <1>2, <1>3 DEF ShowsOutgoing, On, Outcome, IDLE
  <2>8. ShowsActive(e, c)'
    BY <2>0, <1>1, <1>2, <1>3 DEF ShowsActive, On, Party, IDLE
  <2>9. Awaits(e, c)'
    BY <2>0, <1>1, <1>2, <1>3 DEF Awaits, Waits, Owing, Named, On, Terminal, Live, IDLE
  <2> QED
    BY <2>1, <2>2, <2>3, <2>4, <2>5, <2>6, <2>7, <2>8, <2>9
<1>6. ASSUME NEW c \in Calls
      PROVE  OnePlacing(c)' /\ Home(c)' /\ Kept(c)' /\ Awaited(c)' /\ Owing(c)'
  <2>0. OnePlacing(c) /\ Home(c) /\ Kept(c) /\ Awaited(c) /\ Owing(c)
    BY Facts
  <2>1. OnePlacing(c)'
    <3>1. ASSUME NEW x \in Devices, Placing(x, c)' PROVE Placing(x, c)
      BY <1>1, <1>2, <1>3, <3>1 DEF Placing, On, IDLE
    <3> QED
      BY <2>0, <1>1, <3>1 DEF OnePlacing
  <2>2. Home(c)'
    BY <2>0, <1>1, <1>2, <1>3 DEF Home, IDLE
  <2>3. Kept(c)'
    BY <2>0, <1>1, <1>2, <1>3 DEF Kept, Keeps, On, IDLE
  <2>4. Awaited(c)'
    BY <2>0, <1>1, <1>2, <1>3 DEF Awaited, Waits, On, IDLE
  <2>5. Owing(c)'
    BY <2>0, <1>1, <1>2, <1>3 DEF Owing, On, Terminal, Live, IDLE
  <2> QED
    BY <2>1, <2>2, <2>3, <2>4, <2>5
<1> QED
  BY <1>1, <1>4, <1>5, <1>6, Facts, FromFacts

\* A client learns the number of the call it placed.
LEMMA HearRingingKeeps ==
  ASSUME ClientInv, NEW d \in Devices, NEW k \in Calls \cup {0}, Listens(d, "ringing", k),
         k # 0, HearRinging(d, k), Typed'
  PROVE  ClientInv'
<1>1. /\ phase' = phase /\ ends' = ends /\ sock' = sock /\ Calls' = Calls
      /\ \A t, x : Due(t, x)' <=> Due(t, x)
      /\ \A e \in Devices : \A t, x : Coming(e, t, x)' => Coming(e, t, x)
      /\ \A e \in Devices : \A t, x : Coming(e, t, x) /\ ~Coming(e, t, x)' =>
             e = d /\ t = "ringing" /\ x = k
      /\ Coming(d, "ringing", k)
      /\ ~Coming(d, "ringing", k)'
      /\ Orderly'
  BY Listened
<1>2. /\ up' = up /\ odd \subseteq odd' /\ k \in Calls
      /\ \A e \in Devices : e # d => screen'[e] = screen[e]
      /\ ends[k].caller = Owner[d] /\ Unheard(d, k) /\ Outcome(d, k)
      /\ \/ /\ screen[d].status = "outgoing" /\ screen'[d].status = "outgoing"
            /\ screen'[d].call = k /\ screen'[d].peer = screen[d].peer
            /\ screen[d].call # 0 /\ Live(screen[d].call) => screen[d].call \in odd'
         \/ /\ screen[d].status # "outgoing" /\ screen' = screen
            /\ Live(k) => k \in odd'
  BY <1>1, Facts DEF HearRinging, Lost, Typed, Ringing
<1>3. \A c \in Calls : c # 0 /\ ends[c].caller # ends[c].callee
  BY CallsApart
<1>4. ASSUME NEW e \in Devices PROVE Named(e)' /\ ShowsUnnumbered(e)' /\ Socket(e)'
  <2>0. Named(e) /\ ShowsUnnumbered(e) /\ Socket(e)
    BY Facts
  <2>1. Named(e)'
    BY <2>0, <1>1, <1>2, <1>3 DEF Named, Live
  <2>2. ShowsUnnumbered(e)'
    BY <2>0, <1>1, <1>2, <1>3 DEF ShowsUnnumbered, On, Refused, Live
  <2>3. Socket(e)'
    BY <2>0, <1>1, <1>2, <1>3 DEF Socket, Party, Live
  <2> QED
    BY <2>1, <2>2, <2>3
<1>5. ASSUME NEW e \in Devices, NEW c \in Calls
      PROVE  /\ Incoming(e, c)' /\ Ringing(e, c)' /\ Accepted(e, c)' /\ Ended(e, c)'
             /\ HangsUp(e, c)'
             /\ ShowsIncoming(e, c)' /\ ShowsOutgoing(e, c)' /\ ShowsActive(e, c)'
             /\ Awaits(e, c)'
  <2>0. /\ Incoming(e, c) /\ Ringing(e, c) /\ Accepted(e, c) /\ Ended(e, c) /\ HangsUp(e, c)
        /\ ShowsIncoming(e, c) /\ ShowsOutgoing(e, c) /\ ShowsActive(e, c) /\ Named(e)
        /\ Awaits(e, c) /\ Owing(c)
    BY Facts
  <2>1. Incoming(e, c)'
    BY <2>0, <1>1, <1>2, <1>3 DEF Incoming, Unheard, Live
  <2>2. Ringing(e, c)'
    BY <2>0, <1>1, <1>2, <1>3 DEF Ringing, Unheard, Outcome, Live
  <2>3. Accepted(e, c)'
    BY <2>0, <1>1, <1>2, <1>3 DEF Accepted, Party, On, Live
  <2>4. Ended(e, c)'
    BY <2>0, <1>1, <1>2, <1>3 DEF Ended, Live
  <2>5. HangsUp(e, c)'
    BY <2>0, <1>1, <1>2, <1>3 DEF HangsUp, Party, Live
  <2>6. ShowsIncoming(e, c)'
    <3>1. (Refused(e) => Refused(e)')
      BY <1>1 DEF Refused
    <3>2. CASE e # d
      BY <1>1, <1>2, <1>3, <2>0, <3>1, <3>2 DEF ShowsIncoming, On
    <3>3. CASE e = d
      <4>1. CASE c = screen'[d].call
        BY <1>1, <1>2, <1>3, <2>0, <3>1, <3>3, <4>1 DEF ShowsIncoming, On, Live
      <4>2. CASE c # screen'[d].call
        BY <3>3, <4>2 DEF ShowsIncoming, On
      <4> QED
        BY <4>1, <4>2
    <3> QED
      BY <3>2, <3>3
  <2>7. ShowsOutgoing(e, c)'
    <3>2. CASE e # d
      BY <1>1, <1>2, <1>3, <2>0, <3>2 DEF ShowsOutgoing, On, Outcome
    <3>3. CASE e = d
      BY <1>1, <1>2, <1>3, <2>0, <3>3 DEF ShowsOutgoing, On, Outcome, Unheard, Requests, Live
    <3> QED
      BY <3>2, <3>3
  <2>8. ShowsActive(e, c)'
    BY <2>0, <1>1, <1>2, <1>3 DEF ShowsActive, On, Party, Live
  <2>9. Awaits(e, c)'
    BY <2>0, <1>1, <1>2, <1>3 DEF Awaits, Waits, Owing, Named, On, Terminal, Live, IDLE
  <2> QED
    BY <2>1, <2>2, <2>3, <2>4, <2>5, <2>6, <2>7, <2>8, <2>9
<1>6. ASSUME NEW c \in Calls
      PROVE  OnePlacing(c)' /\ Home(c)' /\ Kept(c)' /\ Awaited(c)' /\ Owing(c)'
  <2>0. OnePlacing(c) /\ Home(c) /\ Kept(c) /\ Awaited(c) /\ Owing(c)
    BY Facts
  <2>1. OnePlacing(c)'
    <3>1. ASSUME NEW x \in Devices, Placing(x, c)' PROVE Placing(x, c)
      BY <1>1, <1>2, <1>3, <3>1 DEF Placing, On, Live
    <3> QED
      BY <2>0, <1>1, <3>1 DEF OnePlacing
  <2>2. Home(c)'
    BY <2>0, <1>1, <1>2, <1>3 DEF Home, Live
  <2>3. Kept(c)'
    BY <2>0, <1>1, <1>2, <1>3 DEF Kept, Keeps, On, Live
  <2>4. Awaited(c)'
    BY <2>0, <1>1, <1>2, <1>3 DEF Awaited, Waits, On, Live
  <2>5. Owing(c)'
    BY <2>0, <1>1, <1>2, <1>3 DEF Owing, On, Terminal, Live, IDLE
  <2> QED
    BY <2>1, <2>2, <2>3, <2>4, <2>5
<1> QED
  BY <1>1, <1>4, <1>5, <1>6, Facts, FromFacts

\* A client hears that a call was answered.
LEMMA HearAcceptedKeeps ==
  ASSUME ClientInv, NEW d \in Devices, NEW k \in Calls \cup {0}, Listens(d, "accepted", k),
         k # 0, HearAccepted(d, k), Typed'
  PROVE  ClientInv'
<1>1. /\ phase' = phase /\ ends' = ends /\ sock' = sock /\ Calls' = Calls
      /\ \A t, x : Due(t, x)' <=> Due(t, x)
      /\ \A e \in Devices : \A t, x : Coming(e, t, x)' => Coming(e, t, x)
      /\ \A e \in Devices : \A t, x : Coming(e, t, x) /\ ~Coming(e, t, x)' =>
             e = d /\ t = "accepted" /\ x = k
      /\ Coming(d, "accepted", k)
      /\ ~Coming(d, "accepted", k)' /\ ~Due("accepted", k)
      /\ ~Coming(d, "incoming", k)' /\ ~Coming(d, "ringing", k)'
      /\ Orderly'
  BY Listened
<1>2. /\ up' = up /\ odd \subseteq odd' /\ k \in Calls
      /\ \A e \in Devices : e # d => screen'[e] = screen[e]
      /\ screen'[d].status = "active" /\ screen'[d].call = k
      /\ screen'[d].peer = screen[d].peer
      /\ ~screen[d].peer => k \in odd'
      /\ screen[d].peer /\ screen[d].call \notin {0, k} /\ Live(screen[d].call)
             => screen[d].call \in odd'
      /\ phase[k] \in {"ACTIVE", "ENDED"} /\ Party(Owner[d], k)
      /\ ~On(d, "active", k) /\ ~Has(up[d], "hangup", k)
      /\ k \in odd \/ phase[k] = "ACTIVE" \/ Coming(d, "ended", k) \/ ~Alone(d)
      /\ Named(d)
  BY <1>1, Facts DEF HearAccepted, Lost, Typed, Accepted
<1>3. \A c \in Calls : c # 0 /\ ends[c].caller # ends[c].callee
  BY CallsApart
<1>4. ASSUME NEW e \in Devices PROVE Named(e)' /\ ShowsUnnumbered(e)' /\ Socket(e)'
  <2>0. Named(e) /\ ShowsUnnumbered(e) /\ Socket(e)
    BY Facts
  <2>1. Named(e)'
    <3>1. CASE e # d
      BY <1>1, <1>2, <2>0, <3>1 DEF Named
    <3>2. CASE e = d
      <4>1. /\ screen'[e].status = "active" /\ screen'[e].call # 0
            /\ screen'[e].peer \/ screen'[e].call \in odd'
        BY <1>1, <1>2, <1>3, <3>2
      <4> QED
        BY <4>1 DEF Named
    <3> QED
      BY <3>1, <3>2
  <2>2. ShowsUnnumbered(e)'
    BY <2>0, <1>1, <1>2, <1>3 DEF ShowsUnnumbered, On, Refused, Live
  <2>3. Socket(e)'
    BY <2>0, <1>1, <1>2, <1>3 DEF Socket, Party, Live
  <2> QED
    BY <2>1, <2>2, <2>3
<1>5. ASSUME NEW e \in Devices, NEW c \in Calls
      PROVE  /\ Incoming(e, c)' /\ Ringing(e, c)' /\ Accepted(e, c)' /\ Ended(e, c)'
             /\ HangsUp(e, c)'
             /\ ShowsIncoming(e, c)' /\ ShowsOutgoing(e, c)' /\ ShowsActive(e, c)'
             /\ Awaits(e, c)'
  <2>0. /\ Incoming(e, c) /\ Ringing(e, c) /\ Accepted(e, c) /\ Ended(e, c) /\ HangsUp(e, c)
        /\ ShowsIncoming(e, c) /\ ShowsOutgoing(e, c) /\ ShowsActive(e, c) /\ Named(e)
        /\ Awaits(e, c) /\ Owing(c)
    BY Facts
  <2>1. Incoming(e, c)'
    BY <2>0, <1>1, <1>2, <1>3 DEF Incoming, Unheard, Live
  <2>2. Ringing(e, c)'
    BY <2>0, <1>1, <1>2, <1>3 DEF Ringing, Unheard, Outcome, Live
  <2>3. Accepted(e, c)'
    BY <2>0, <1>1, <1>2, <1>3 DEF Accepted, Party, On, Live
  <2>4. Ended(e, c)'
    BY <2>0, <1>1, <1>2, <1>3 DEF Ended, Live
  <2>5. HangsUp(e, c)'
    BY <2>0, <1>1, <1>2, <1>3 DEF HangsUp, Party, Live
  <2>6. ShowsIncoming(e, c)'
    <3>1. (Refused(e) => Refused(e)')
      BY <1>1 DEF Refused
    <3>2. CASE e # d
      BY <1>1, <1>2, <1>3, <2>0, <3>1, <3>2 DEF ShowsIncoming, On
    <3>3. CASE e = d
      <4>1. CASE c = screen'[d].call
        BY <1>1, <1>2, <1>3, <2>0, <3>1, <3>3, <4>1 DEF ShowsIncoming, On, Live
      <4>2. CASE c # screen'[d].call
        BY <3>3, <4>2 DEF ShowsIncoming, On
      <4> QED
        BY <4>1, <4>2
    <3> QED
      BY <3>2, <3>3
  <2>7. ShowsOutgoing(e, c)'
    BY <2>0, <1>1, <1>2, <1>3 DEF ShowsOutgoing, On, Outcome, Live
  <2>8. ShowsActive(e, c)'
    <3>1. CASE e # d
      BY <1>1, <1>2, <1>3, <2>0, <3>1 DEF ShowsActive, On, Party
    <3>2. CASE e = d /\ c = k
      BY <1>1, <1>2, <1>3, <3>2 DEF ShowsActive, On, Party
    <3>3. CASE e = d /\ c # k
      BY <1>2, <3>3 DEF ShowsActive, On
    <3> QED
      BY <3>1, <3>2, <3>3
  <2>9. Awaits(e, c)'
    BY <2>0, <1>1, <1>2, <1>3 DEF Awaits, Waits, Owing, Named, On, Terminal, Live, IDLE
  <2> QED
    BY <2>1, <2>2, <2>3, <2>4, <2>5, <2>6, <2>7, <2>8, <2>9
<1>6. ASSUME NEW c \in Calls
      PROVE  OnePlacing(c)' /\ Home(c)' /\ Kept(c)' /\ Awaited(c)' /\ Owing(c)'
  <2>0. OnePlacing(c) /\ Home(c) /\ Kept(c) /\ Awaited(c) /\ Owing(c)
    BY Facts
  <2>1. OnePlacing(c)'
    <3>1. ASSUME NEW x \in Devices, Placing(x, c)' PROVE Placing(x, c)
      BY <1>1, <1>2, <1>3, <3>1 DEF Placing, On, Live
    <3> QED
      BY <2>0, <1>1, <3>1 DEF OnePlacing
  <2>2. Home(c)'
    BY <2>0, <1>1, <1>2, <1>3 DEF Home, Live
  <2>3. Kept(c)'
    <3>1. ASSUME NEW x \in Devices, Keeps(x, c), phase[c] = "ACTIVE", c \notin odd'
          PROVE  Keeps(x, c)'
      BY <1>1, <1>2, <1>3, <3>1 DEF Keeps, On, Named, Live
    <3> QED
      BY <2>0, <1>1, <1>2, <3>1 DEF Kept
  <2>4. Awaited(c)'
    <3>1. ASSUME NEW x \in Devices, Waits(x, c), phase[c] = "RINGING", c \notin odd'
          PROVE  Waits(x, c)'
      BY <1>1, <1>2, <1>3, <3>1 DEF Waits, On, Named, Live
    <3> QED
      BY <2>0, <1>1, <1>2, <3>1 DEF Awaited
  <2>5. Owing(c)'
    BY <2>0, <1>1, <1>2, <1>3 DEF Owing, On, Terminal, Live, IDLE
  <2> QED
    BY <2>1, <2>2, <2>3, <2>4, <2>5
<1> QED
  BY <1>1, <1>4, <1>5, <1>6, Facts, FromFacts

\* A client hears that a call is over.
LEMMA HearEndedKeeps ==
  ASSUME ClientInv, NEW d \in Devices, NEW k \in Calls \cup {0}, Listens(d, "ended", k),
         k # 0, HearEnded(d, k), Typed'
  PROVE  ClientInv'
<1>1. /\ phase' = phase /\ ends' = ends /\ sock' = sock /\ Calls' = Calls
      /\ \A t, x : Due(t, x)' <=> Due(t, x)
      /\ \A e \in Devices : \A t, x : Coming(e, t, x)' => Coming(e, t, x)
      /\ \A e \in Devices : \A t, x : Coming(e, t, x) /\ ~Coming(e, t, x)' =>
             e = d /\ t = "ended" /\ x = k
      /\ Coming(d, "ended", k)
      /\ ~Coming(d, "ended", k)'
      /\ ~Coming(d, "incoming", k)' /\ ~Coming(d, "ringing", k)'
      /\ ~Coming(d, "accepted", k)' \/ k \in odd
      /\ Orderly'
  BY Listened
<1>2. /\ up' = up /\ odd' = odd /\ k \in Calls /\ phase[k] \in Terminal
      /\ \A e \in Devices : e # d => screen'[e] = screen[e]
      /\ \/ screen' = screen /\ screen[d].call \notin {0, k}
         \/ /\ screen[d].call \in {0, k}
            /\ screen'[d] = [status |-> "idle", call |-> 0, peer |-> FALSE]
  BY <1>1, Facts DEF HearEnded, Typed, Ended, IDLE
<1>3. \A c \in Calls : c # 0 /\ ends[c].caller # ends[c].callee
  BY CallsApart
<1>4. ASSUME NEW e \in Devices PROVE Named(e)' /\ ShowsUnnumbered(e)' /\ Socket(e)'
  <2>0. Named(e) /\ ShowsUnnumbered(e) /\ Socket(e)
    BY Facts
  <2>1. Named(e)'
    BY <2>0, <1>1, <1>2, <1>3 DEF Named, Terminal, IDLE
  <2>2. ShowsUnnumbered(e)'
    BY <2>0, <1>1, <1>2, <1>3 DEF ShowsUnnumbered, On, Refused, Terminal, IDLE
  <2>3. Socket(e)'
    BY <2>0, <1>1, <1>2, <1>3 DEF Socket, Party, Terminal, IDLE
  <2> QED
    BY <2>1, <2>2, <2>3
<1>5. ASSUME NEW e \in Devices, NEW c \in Calls
      PROVE  /\ Incoming(e, c)' /\ Ringing(e, c)' /\ Accepted(e, c)' /\ Ended(e, c)'
             /\ HangsUp(e, c)'
             /\ ShowsIncoming(e, c)' /\ ShowsOutgoing(e, c)' /\ ShowsActive(e, c)'
             /\ Awaits(e, c)'
  <2>0. /\ Incoming(e, c) /\ Ringing(e, c) /\ Accepted(e, c) /\ Ended(e, c) /\ HangsUp(e, c)
        /\ ShowsIncoming(e, c) /\ ShowsOutgoing(e, c) /\ ShowsActive(e, c) /\ Named(e)
        /\ Awaits(e, c) /\ Owing(c)
    BY Facts
  <2>1. Incoming(e, c)'
    BY <2>0, <1>1, <1>2, <1>3 DEF Incoming, Unheard, Terminal, IDLE
  <2>2. Ringing(e, c)'
    BY <2>0, <1>1, <1>2, <1>3 DEF Ringing, Unheard, Outcome, Terminal, IDLE
  <2>3. Accepted(e, c)'
    BY <2>0, <1>1, <1>2, <1>3 DEF Accepted, Party, On, Terminal, IDLE
  <2>4. Ended(e, c)'
    BY <2>0, <1>1, <1>2, <1>3 DEF Ended, Terminal, IDLE
  <2>5. HangsUp(e, c)'
    BY <2>0, <1>1, <1>2, <1>3 DEF HangsUp, Party, Terminal, IDLE
  <2>6. ShowsIncoming(e, c)'
    <3>1. (Refused(e) => Refused(e)')
      BY <1>1 DEF Refused
    <3>2. CASE e # d
      BY <1>1, <1>2, <1>3, <2>0, <3>1, <3>2 DEF ShowsIncoming, On
    <3>3. CASE e = d
      <4>1. CASE c = screen'[d].call
        BY <1>1, <1>2, <1>3, <2>0, <3>1, <3>3, <4>1 DEF ShowsIncoming, On, IDLE
      <4>2. CASE c # screen'[d].call
        BY <3>3, <4>2 DEF ShowsIncoming, On
      <4> QED
        BY <4>1, <4>2
    <3> QED
      BY <3>2, <3>3
  <2>7. ShowsOutgoing(e, c)'
    <3>2. CASE e # d
      BY <1>1, <1>2, <1>3, <2>0, <3>2 DEF ShowsOutgoing, On, Outcome
    <3>3. CASE e = d
      BY <1>1, <1>2, <1>3, <2>0, <3>3 DEF ShowsOutgoing, On, Outcome, Unheard, Requests, IDLE
    <3> QED
      BY <3>2, <3>3
  <2>8. ShowsActive(e, c)'
    BY <2>0, <1>1, <1>2, <1>3 DEF ShowsActive, On, Party, Terminal, IDLE
  <2>9. Awaits(e, c)'
    BY <2>0, <1>1, <1>2, <1>3 DEF Awaits, Waits, Owing, Named, On, Terminal, Live, IDLE
  <2> QED
    BY <2>1, <2>2, <2>3, <2>4, <2>5, <2>6, <2>7, <2>8, <2>9
<1>6. ASSUME NEW c \in Calls
      PROVE  OnePlacing(c)' /\ Home(c)' /\ Kept(c)' /\ Awaited(c)' /\ Owing(c)'
  <2>0. OnePlacing(c) /\ Home(c) /\ Kept(c) /\ Awaited(c) /\ Owing(c)
    BY Facts
  <2>1. OnePlacing(c)'
    <3>1. ASSUME NEW x \in Devices, Placing(x, c)' PROVE Placing(x, c)
      BY <1>1, <1>2, <1>3, <3>1 DEF Placing, On, IDLE
    <3> QED
      BY <2>0, <1>1, <3>1 DEF OnePlacing
  <2>2. Home(c)'
    BY <2>0, <1>1, <1>2, <1>3 DEF Home, Terminal, IDLE
  <2>3. Kept(c)'
    BY <2>0, <1>1, <1>2, <1>3 DEF Kept, Keeps, On, Terminal, IDLE
  <2>4. Awaited(c)'
    BY <2>0, <1>1, <1>2, <1>3 DEF Awaited, Waits, On, Terminal, IDLE
  <2>5. Owing(c)'
    BY <2>0, <1>1, <1>2, <1>3 DEF Owing, On, Terminal, Live, IDLE
  <2> QED
    BY <2>1, <2>2, <2>3, <2>4, <2>5
<1> QED
  BY <1>1, <1>4, <1>5, <1>6, Facts, FromFacts

\* A client hears that a request failed.
LEMMA HearFailedKeeps ==
  ASSUME ClientInv, NEW d \in Devices, NEW k \in Calls \cup {0}, Listens(d, "failed", k),
         HearFailed(d, k), Typed'
  PROVE  ClientInv'
<1>1. /\ phase' = phase /\ ends' = ends /\ sock' = sock /\ Calls' = Calls
      /\ \A t, x : Due(t, x)' <=> Due(t, x)
      /\ \A e \in Devices : \A t, x : Coming(e, t, x)' => Coming(e, t, x)
      /\ \A e \in Devices : \A t, x : Coming(e, t, x) /\ ~Coming(e, t, x)' =>
             e = d /\ t = "failed" /\ x = k
      /\ Coming(d, "failed", k)
      /\ Orderly'
  BY Listened
<1>2. /\ up' = up /\ odd \subseteq odd'
      /\ \A e \in Devices : e # d => screen'[e] = screen[e]
      /\ screen'[d] = [status |-> "idle", call |-> 0, peer |-> FALSE]
      /\ screen[d].call # 0 /\ Live(screen[d].call) => screen[d].call \in odd'
  BY <1>1, Facts DEF HearFailed, Lost, Typed, IDLE
<1>3. \A c \in Calls : c # 0 /\ ends[c].caller # ends[c].callee
  BY CallsApart
<1>4. ASSUME NEW e \in Devices PROVE Named(e)' /\ ShowsUnnumbered(e)' /\ Socket(e)'
  <2>0. Named(e) /\ ShowsUnnumbered(e) /\ Socket(e)
    BY Facts
  <2>1. Named(e)'
    BY <2>0, <1>1, <1>2, <1>3 DEF Named, Live, IDLE
  <2>2. ShowsUnnumbered(e)'
    BY <2>0, <1>1, <1>2, <1>3 DEF ShowsUnnumbered, On, Refused, Live, IDLE
  <2>3. Socket(e)'
    BY <2>0, <1>1, <1>2, <1>3 DEF Socket, Party, Live, IDLE
  <2> QED
    BY <2>1, <2>2, <2>3
<1>5. ASSUME NEW e \in Devices, NEW c \in Calls
      PROVE  /\ Incoming(e, c)' /\ Ringing(e, c)' /\ Accepted(e, c)' /\ Ended(e, c)'
             /\ HangsUp(e, c)'
             /\ ShowsIncoming(e, c)' /\ ShowsOutgoing(e, c)' /\ ShowsActive(e, c)'
             /\ Awaits(e, c)'
  <2>0. /\ Incoming(e, c) /\ Ringing(e, c) /\ Accepted(e, c) /\ Ended(e, c) /\ HangsUp(e, c)
        /\ ShowsIncoming(e, c) /\ ShowsOutgoing(e, c) /\ ShowsActive(e, c) /\ Named(e)
        /\ Awaits(e, c) /\ Owing(c)
    BY Facts
  <2>1. Incoming(e, c)'
    BY <2>0, <1>1, <1>2, <1>3 DEF Incoming, Unheard, Live, IDLE
  <2>2. Ringing(e, c)'
    BY <2>0, <1>1, <1>2, <1>3 DEF Ringing, Unheard, Outcome, Live, IDLE
  <2>3. Accepted(e, c)'
    BY <2>0, <1>1, <1>2, <1>3 DEF Accepted, Party, On, Live, IDLE
  <2>4. Ended(e, c)'
    BY <2>0, <1>1, <1>2, <1>3 DEF Ended, Live, IDLE
  <2>5. HangsUp(e, c)'
    BY <2>0, <1>1, <1>2, <1>3 DEF HangsUp, Party, Live, IDLE
  <2>6. ShowsIncoming(e, c)'
    <3>1. e = d \/ (Refused(e) => Refused(e)')
      BY <1>1 DEF Refused
    <3>2. CASE e # d
      BY <1>1, <1>2, <1>3, <2>0, <3>1, <3>2 DEF ShowsIncoming, On
    <3>3. CASE e = d
      <4>1. CASE c = screen'[d].call
        BY <1>1, <1>2, <1>3, <2>0, <3>1, <3>3, <4>1 DEF ShowsIncoming, On, IDLE
      <4>2. CASE c # screen'[d].call
        BY <3>3, <4>2 DEF ShowsIncoming, On
      <4> QED
        BY <4>1, <4>2
    <3> QED
      BY <3>2, <3>3
  <2>7. ShowsOutgoing(e, c)'
    <3>2. CASE e # d
      BY <1>1, <1>2, <1>3, <2>0, <3>2 DEF ShowsOutgoing, On, Outcome
    <3>3. CASE e = d
      BY <1>1, <1>2, <1>3, <2>0, <3>3 DEF ShowsOutgoing, On, Outcome, Unheard, Requests, IDLE
    <3> QED
      BY <3>2, <3>3
  <2>8. ShowsActive(e, c)'
    BY <2>0, <1>1, <1>2, <1>3 DEF ShowsActive, On, Party, Live, IDLE
  <2>9. Awaits(e, c)'
    BY <2>0, <1>1, <1>2, <1>3 DEF Awaits, Waits, Owing, Named, On, Terminal, Live, IDLE
  <2> QED
    BY <2>1, <2>2, <2>3, <2>4, <2>5, <2>6, <2>7, <2>8, <2>9
<1>6. ASSUME NEW c \in Calls
      PROVE  OnePlacing(c)' /\ Home(c)' /\ Kept(c)' /\ Awaited(c)' /\ Owing(c)'
  <2>0. OnePlacing(c) /\ Home(c) /\ Kept(c) /\ Awaited(c) /\ Owing(c)
    BY Facts
  <2>1. OnePlacing(c)'
    <3>1. ASSUME NEW x \in Devices, Placing(x, c)' PROVE Placing(x, c)
      BY <1>1, <1>2, <1>3, <3>1 DEF Placing, On, IDLE
    <3> QED
      BY <2>0, <1>1, <3>1 DEF OnePlacing
  <2>2. Home(c)'
    BY <2>0, <1>1, <1>2, <1>3 DEF Home, Live, IDLE
  <2>3. Kept(c)'
    BY <2>0, <1>1, <1>2, <1>3 DEF Kept, Keeps, On, Live, IDLE
  <2>4. Awaited(c)'
    BY <2>0, <1>1, <1>2, <1>3 DEF Awaited, Waits, On, Live, IDLE
  <2>5. Owing(c)'
    BY <2>0, <1>1, <1>2, <1>3 DEF Owing, On, Terminal, Live, IDLE
  <2> QED
    BY <2>1, <2>2, <2>3, <2>4, <2>5
<1> QED
  BY <1>1, <1>4, <1>5, <1>6, Facts, FromFacts

\* A screen that changes to s keeps its type.
LEMMA ScreenTyped ==
  ASSUME Typed, UNCHANGED server, NEW d \in Devices, NEW s \in Screen(Len(phase)),
         screen' \in {screen, [screen EXCEPT ![d] = s]},
         up' \in [Devices -> Seq(UpMsg(Len(phase)))],
         down' \in [Devices -> Seq(DownMsg(Len(phase)))], odd' \subseteq 0 .. Len(phase)
  PROVE  Typed'
<1>1. screen' \in [Devices -> Screen(Len(phase))]
  BY DEF Typed, Screen
<1> QED
  BY <1>1 DEF Typed, server, Calls, Screen

\* The announcements still to be made come after what is heard.
LEMMA FirstHeard ==
  ASSUME ClientInv, NEW d \in Devices, NEW type, NEW k, type # "failed" => k \in Calls,
         UNCHANGED server, odd \subseteq odd', Loses(d, type, k),
         \A e \in Devices : Ranked(down'[e], odd),
         type # "failed" => \A t \in Events \ {"failed"} :
             Has(down'[d], t, k) => Later(type, t, k, odd)
  PROVE  Listens(d, type, k)
<1>1. /\ due' = due /\ \A a \in due : a.type \in {"accepted", "ended"}
      /\ Orderly
  BY Facts DEF server, Typed, Announcements
<1>2. Hears(d, type, k)
  <2>1. \A e \in Devices : \A t, x : Owed(e, t, x)' <=> Owed(e, t, x)
    BY <1>1 DEF Owed
  <2> QED
    BY <2>1 DEF Hears, Loses, Coming
<1>3. Orderly'
  <2>1. \A e \in Devices : Ranked(down'[e], odd')
    BY RankedMore
  <2>2. \A e \in Devices : \A t, x : Has(down'[e], t, x) => Has(down[e], t, x)
    BY DEF Loses
  <2> QED
    BY <1>1, <2>1, <2>2 DEF Orderly
<1>4. type \in {"accepted", "ended"} => ~Due(type, k)
  <2>1. Has(down[d], type, k)
    BY DEF Loses
  <2> QED
    BY <1>1, <2>1 DEF Orderly, Due
<1>5. ASSUME type # "failed", NEW t \in Events \ {"failed"}, Coming(d, t, k)'
      PROVE  Later(type, t, k, odd)
  <2>1. CASE Has(down'[d], t, k)
    BY <1>5, <2>1
  <2>2. CASE Owed(d, t, k)
    <3>1. Due(t, k) /\ t \in {"accepted", "ended"}
      BY <1>1, <2>2 DEF Owed, Due
    <3>2. /\ Rank("incoming") = 1 /\ Rank("ringing") = 1
          /\ Rank("accepted") = 2 /\ Rank("ended") = 3
      BY DEF Rank
    <3>3. Has(down[d], type, k)
      BY DEF Loses
    <3>4. type \in {"incoming", "ringing", "accepted", "ended"}
      <4>1. down[d] \in Seq(DownMsg(Len(phase)))
        BY Facts DEF Typed
      <4>2. PICK i \in DOMAIN down[d] : down[d][i].type = type
        BY <3>3 DEF Has
      <4>3. down[d][i] \in DownMsg(Len(phase))
        BY <4>1, <4>2, ElementOfSeq
      <4> QED
        BY <1>5, <4>2, <4>3 DEF DownMsg, Events
    <3>5. CASE type = "ended" /\ t = "accepted"
      <4>1. phase[k] \in Terminal /\ k \in Calls
        BY <1>5, <3>3, <3>5, Facts DEF Ended, Coming
      <4>2. k \in odd
        BY <3>1, <3>5, <4>1, Facts DEF Owing, Terminal
      <4> QED
        BY <3>5, <4>2 DEF Later
    <3>6. CASE ~(type = "ended" /\ t = "accepted")
      BY <1>4, <3>1, <3>2, <3>4, <3>6 DEF Later
    <3> QED
      BY <3>5, <3>6
  <2>3. Owed(d, t, k)' <=> Owed(d, t, k)
    BY <1>1 DEF Owed
  <2> QED
    BY <1>5, <2>1, <2>2, <2>3 DEF Coming
<1> QED
  BY <1>2, <1>3, <1>4, <1>5 DEF Listens

\* Hearing an event keeps the invariant, whichever it is.
LEMMA HearKeeps ==
  ASSUME ClientInv, NEW d \in Devices, Hear(d)
  PROVE  ClientInv'
<1> DEFINE m == Head(down[d])
           n == Len(phase)
<1>1. /\ UNCHANGED server /\ m \in DownMsg(n) /\ Listens(d, m.type, m.call)
      /\ down' \in [Devices -> Seq(DownMsg(n))]
  <2>1. /\ UNCHANGED server /\ down[d] # <<>> /\ down' = [down EXCEPT ![d] = Tail(@)]
        /\ down \in [Devices -> Seq(DownMsg(n))] /\ n \in Nat
        /\ \A e \in Devices : Ranked(down[e], odd)
        /\ Orderly /\ odd \subseteq odd'
    <3>1. /\ UNCHANGED server /\ down[d] # <<>> /\ down' = [down EXCEPT ![d] = Tail(@)]
          /\ odd \subseteq odd'
      BY DEF Hear, HearIncoming, HearRinging, HearAccepted, HearEnded, HearFailed, Lost
    <3> QED
      BY <3>1, Facts DEF Typed, Orderly
  <2>2. /\ m \in DownMsg(n) /\ down' \in [Devices -> Seq(DownMsg(n))]
        /\ \A e \in Devices : Ranked(down'[e], odd)
        /\ Loses(d, m.type, m.call)
        /\ m.type # "failed" => \A t \in Events \ {"failed"} :
               Has(down'[d], t, m.call) => Later(m.type, t, m.call, odd)
    BY <2>1, HearsTail
  <2>3. m.type # "failed" => m.call \in Calls
    BY <2>1, <2>2 DEF DownMsg, Calls
  <2> HIDE DEF m
  <2>4. Listens(d, m.type, m.call)
    BY <2>1, <2>2, <2>3, FirstHeard
  <2> QED
    BY <2>1, <2>2, <2>4
<1>2. /\ m.call \in Calls \cup {0} /\ m.call \in 0 .. n
      /\ m.type # "failed" => m.call # 0
      /\ Typed /\ n \in Nat /\ up \in [Devices -> Seq(UpMsg(n))] /\ odd \subseteq 0 .. n
      /\ screen[d] \in Screen(n) /\ IDLE \in Screen(n)
  BY <1>1, Facts, IdleTyped DEF DownMsg, Calls, Typed, Screen
<1>3. CASE m.type = "incoming" /\ HearIncoming(d, m.call)
  <2>1. CASE screen[d].status # "idle"
    <3> DEFINE a == Msg("decline", d, m.call)
    <3>1. up' = [up EXCEPT ![d] = Append(@, a)] /\ UNCHANGED <<screen, odd>>
      BY <1>3, <2>1 DEF HearIncoming
    <3>2. a \in UpMsg(n) /\ a.type = "decline" /\ a.call = m.call
      BY <1>2, <1>3, MsgTyped DEF Requests
    <3> HIDE DEF a, m
    <3>3. up' \in [Devices -> Seq(UpMsg(n))] /\ Sends(d, "decline", m.call)
      BY <1>2, <3>1, <3>2, SendsAppend
    <3>4. Typed'
      BY <1>1, <1>2, <3>1, <3>3, ScreenTyped
    <3> QED
      BY <1>1, <1>2, <1>3, <2>1, <3>1, <3>3, <3>4, DeclineBusy
  <2>2. CASE screen[d].status = "idle"
    <3> DEFINE s == [status |-> "incoming", call |-> m.call, peer |-> TRUE]
    <3>1. /\ Shown(d, "incoming", m.call) /\ screen' = [screen EXCEPT ![d] = s]
          /\ UNCHANGED <<up, odd>>
      BY <1>3, <2>2 DEF HearIncoming, Shown
    <3>2. s \in Screen(n)
      BY <1>2 DEF Screen
    <3> HIDE DEF s, m
    <3>3. Typed'
      BY <1>1, <1>2, <3>1, <3>2, ScreenTyped
    <3> QED
      BY <1>1, <1>2, <1>3, <2>2, <3>1, <3>3, ShowIncoming
  <2> QED
    BY <2>1, <2>2
<1>4. CASE m.type = "ringing" /\ HearRinging(d, m.call)
  <2> DEFINE s == [screen[d] EXCEPT !.call = m.call]
  <2>1. /\ screen' \in {screen, [screen EXCEPT ![d] = s]} /\ UNCHANGED up
        /\ odd' \subseteq 0 .. n /\ s \in Screen(n)
    BY <1>2, <1>4 DEF HearRinging, Lost, Screen
  <2> HIDE DEF s, m
  <2>2. Typed'
    BY <1>1, <1>2, <2>1, ScreenTyped
  <2> QED
    BY <1>1, <1>2, <1>4, <2>2, HearRingingKeeps
<1>5. CASE m.type = "accepted" /\ HearAccepted(d, m.call)
  <2> DEFINE s == [screen[d] EXCEPT !.status = "active", !.call = m.call]
  <2>1. /\ screen' = [screen EXCEPT ![d] = s] /\ UNCHANGED up
        /\ odd' \subseteq 0 .. n /\ s \in Screen(n)
    BY <1>2, <1>5 DEF HearAccepted, Lost, Screen, Typed
  <2> HIDE DEF s, m
  <2>2. Typed'
    BY <1>1, <1>2, <2>1, ScreenTyped
  <2> QED
    BY <1>1, <1>2, <1>5, <2>2, HearAcceptedKeeps
<1>6. CASE m.type = "ended" /\ HearEnded(d, m.call)
  <2>1. /\ screen' \in {screen, [screen EXCEPT ![d] = IDLE]} /\ UNCHANGED <<up, odd>>
    BY <1>6 DEF HearEnded
  <2> HIDE DEF m
  <2>2. Typed'
    BY <1>1, <1>2, <2>1, ScreenTyped
  <2> QED
    BY <1>1, <1>2, <1>6, <2>2, HearEndedKeeps
<1>7. CASE m.type = "failed" /\ HearFailed(d, m.call)
  <2>1. /\ screen' = [screen EXCEPT ![d] = IDLE] /\ UNCHANGED up /\ odd' \subseteq 0 .. n
    BY <1>2, <1>7 DEF HearFailed, Lost, Screen
  <2> HIDE DEF m
  <2>2. Typed'
    BY <1>1, <1>2, <2>1, ScreenTyped
  <2> QED
    BY <1>1, <1>2, <1>7, <2>2, HearFailedKeeps
<1> QED
  BY <1>3, <1>4, <1>5, <1>6, <1>7 DEF Hear

-----------------------------------------------------------------------------
(* What the server does keeps the invariant                                *)

\* Two devices of one user are both not alone.
LEMMA NotAlone ==
  ASSUME NEW d \in Devices, NEW e \in Devices, d # e, Owner[d] = Owner[e]
  PROVE  ~Alone(d) /\ ~Alone(e)
<1>1. d \in RoomOf(Owner[d]) /\ e \in RoomOf(Owner[d])
  BY DEF RoomOf
<1> QED
  BY <1>1 DEF Alone

\* A word that comes too late.
LEMMA LateWord ==
  ASSUME ClientInv, NEW d \in Devices, NEW k \in Calls,
         NEW type \in {"decline", "cancel", "hangup"},
         Takes(d, type, k), UNCHANGED <<phase, ends, screen, down, due, odd>>,
         \A e \in Devices : sock'[e] \in {0, sock[e]},
         type = "cancel" => phase[k] # "RINGING" /\ sock'[d] = 0, type = "hangup" => phase[k] # "ACTIVE", Typed'
  PROVE  ClientInv'
<1>1. /\ phase' = phase /\ ends' = ends /\ odd' = odd /\ screen' = screen
      /\ Calls' = Calls
      /\ \A e \in Devices : \A t, x : Coming(e, t, x)' <=> Coming(e, t, x)
      /\ \A t, x : Due(t, x)' <=> Due(t, x)
      /\ Orderly'
  BY SameQueues, Facts DEF Calls
<1>2. /\ \A e \in Devices : sock'[e] \in {0, sock[e]}
      /\ \A e \in Devices : \A t, x : Has(up'[e], t, x) => Has(up[e], t, x)
      /\ \A e \in Devices : \A t, x : Has(up[e], t, x) /\ ~Has(up'[e], t, x) =>
             e = d /\ t = type /\ x = k
      /\ type = "cancel" => phase[k] # "RINGING" /\ sock'[d] = 0
      /\ type = "hangup" => phase[k] # "ACTIVE"
      /\ type \in {"decline", "cancel", "hangup"}
  BY DEF Takes
<1>3. \A c \in Calls : c # 0 /\ ends[c].caller # ends[c].callee
  BY CallsApart
<1>4. ASSUME NEW e \in Devices PROVE Named(e)' /\ ShowsUnnumbered(e)' /\ Socket(e)'
  <2>0. Named(e) /\ ShowsUnnumbered(e) /\ Socket(e)
    BY Facts
  <2>1. Named(e)'
    BY <2>0, <1>1, <1>2, <1>3 DEF Named, Requests
  <2>2. ShowsUnnumbered(e)'
    BY <2>0, <1>1, <1>2, <1>3 DEF ShowsUnnumbered, On, Refused, Requests
  <2>3. Socket(e)'
    BY <2>0, <1>1, <1>2, <1>3 DEF Socket, Party, Requests
  <2> QED
    BY <2>1, <2>2, <2>3
<1>5. ASSUME NEW e \in Devices, NEW c \in Calls
      PROVE  /\ Incoming(e, c)' /\ Ringing(e, c)' /\ Accepted(e, c)' /\ Ended(e, c)'
             /\ HangsUp(e, c)'
             /\ ShowsIncoming(e, c)' /\ ShowsOutgoing(e, c)' /\ ShowsActive(e, c)'
             /\ Awaits(e, c)'
  <2>0. /\ Incoming(e, c) /\ Ringing(e, c) /\ Accepted(e, c) /\ Ended(e, c) /\ HangsUp(e, c)
        /\ ShowsIncoming(e, c) /\ ShowsOutgoing(e, c) /\ ShowsActive(e, c) /\ Named(e)
        /\ Awaits(e, c) /\ Owing(c)
    BY Facts
  <2>1. Incoming(e, c)'
    BY <2>0, <1>1, <1>2, <1>3 DEF Incoming, Unheard, Requests
  <2>2. Ringing(e, c)'
    BY <2>0, <1>1, <1>2, <1>3 DEF Ringing, Unheard, Outcome, Requests
  <2>3. Accepted(e, c)'
    BY <2>0, <1>1, <1>2, <1>3 DEF Accepted, Party, On, Requests
  <2>4. Ended(e, c)'
    BY <2>0, <1>1, <1>2, <1>3 DEF Ended, Requests
  <2>5. HangsUp(e, c)'
    BY <2>0, <1>1, <1>2, <1>3 DEF HangsUp, Party, Requests
  <2>6. ShowsIncoming(e, c)'
    BY <2>0, <1>1, <1>2, <1>3 DEF ShowsIncoming, On, Refused, Requests
  <2>7. ShowsOutgoing(e, c)'
    BY <2>0, <1>1, <1>2, <1>3 DEF ShowsOutgoing, On, Outcome, Requests
  <2>8. ShowsActive(e, c)'
    BY <2>0, <1>1, <1>2, <1>3 DEF ShowsActive, On, Party, Requests
  <2>9. Awaits(e, c)'
    BY <2>0, <1>1, <1>2, <1>3 DEF Awaits, Waits, Owing, Named, On, Terminal, Live, IDLE
  <2> QED
    BY <2>1, <2>2, <2>3, <2>4, <2>5, <2>6, <2>7, <2>8, <2>9
<1>6. ASSUME NEW c \in Calls
      PROVE  OnePlacing(c)' /\ Home(c)' /\ Kept(c)' /\ Awaited(c)' /\ Owing(c)'
  <2>0. OnePlacing(c) /\ Home(c) /\ Kept(c) /\ Awaited(c) /\ Owing(c)
    BY Facts
  <2>1. OnePlacing(c)'
    BY <2>0, <1>1, <1>2, <1>3 DEF OnePlacing, Placing, On, Requests
  <2>2. Home(c)'
    BY <2>0, <1>1, <1>2, <1>3 DEF Home, Requests
  <2>3. Kept(c)'
    <3>1. ASSUME NEW x \in Devices, Keeps(x, c), phase'[c] = "ACTIVE", c \notin odd'
          PROVE  Keeps(x, c)'
      BY <1>1, <1>2, <3>1 DEF Keeps, On
    <3> QED
      BY <2>0, <1>1, <1>2, <3>1 DEF Kept
  <2>4. Awaited(c)'
    BY <2>0, <1>1, <1>2, <1>3 DEF Awaited, Waits, On, Requests
  <2>5. Owing(c)'
    BY <2>0, <1>1, <1>2, <1>3 DEF Owing, On, Terminal, Live, IDLE
  <2> QED
    BY <2>1, <2>2, <2>3, <2>4, <2>5
<1> QED
  BY <1>1, <1>4, <1>5, <1>6, Facts, FromFacts

\* Device d gives call k up, for its user.
LEMMA SettleKeeps ==
  ASSUME ClientInv, NEW d \in Devices, NEW k \in Calls, NEW type, NEW v,
         Takes(d, type, k), UNCHANGED <<ends, screen, odd>>, Calls' = Calls,
         \A e \in Devices : sock'[e] \in {0, sock[e]},
         \A c \in Calls : phase'[c] = IF c = k THEN v ELSE phase[c],
         Tells(RoomOf(Other(Owner[d], k)), "ended", k), MoreDues("ended", k),
         \/ /\ type = "decline" /\ phase[k] = "RINGING" /\ v = "DECLINED"
            /\ ends[k].callee = Owner[d]
         \/ /\ type = "cancel" /\ phase[k] = "RINGING" /\ v = "CANCELLED"
            /\ ends[k].caller = Owner[d]
         \/ /\ type = "hangup" /\ phase[k] = "ACTIVE" /\ v = "ENDED"
            /\ Party(Owner[d], k),
         Typed', Orderly'
  PROVE  ClientInv'
<1>0. \A c \in Calls : c # 0 /\ ends[c].caller # ends[c].callee
  BY CallsApart
<1>1. /\ ends' = ends /\ odd' = odd /\ screen' = screen /\ Calls' = Calls
      /\ \A e \in Devices : sock'[e] \in {0, sock[e]}
      /\ \A c \in Calls : c # k => phase'[c] = phase[c]
      /\ phase'[k] = v /\ v \in Terminal
  BY DEF Terminal
<1>2. /\ \A e \in Devices : \A t, x : Has(up'[e], t, x) => Has(up[e], t, x)
      /\ \A e \in Devices : \A t, x : Has(up[e], t, x) /\ ~Has(up'[e], t, x) =>
             e = d /\ t = type /\ x = k
      /\ \A e \in Devices : \A t, x : Coming(e, t, x) => Coming(e, t, x)'
      /\ \A e \in Devices : \A t, x : Coming(e, t, x)' /\ ~Coming(e, t, x) =>
             t = "ended" /\ x = k
      /\ \A t, x : Due(t, x)' <=> Due(t, x) \/ (t = "ended" /\ x = k)
  BY DEF Takes, Tells, MoreDues
<1>3. \A e \in Devices : Party(Owner[e], k) =>
          e = d \/ (~Alone(e) /\ Owner[e] = Owner[d]) \/ Coming(e, "ended", k)'
  BY <1>0, NotAlone DEF Tells, RoomOf, Other, Party
<1>4. /\ phase[k] \in {"RINGING", "ACTIVE"}
      /\ phase[k] = "ACTIVE" => type = "hangup" /\ v = "ENDED"
      /\ phase[k] = "RINGING" =>
             \/ type = "decline" /\ v = "DECLINED" /\ ends[k].callee = Owner[d]
             \/ type = "cancel" /\ v = "CANCELLED" /\ ends[k].caller = Owner[d]
      /\ Has(up[d], type, k)
      /\ type \in {"decline", "cancel", "hangup"} /\ Party(Owner[d], k)
  BY DEF Takes, Party
<1>5. \A e \in Devices : Owner[e] = Owner[d] \/ Coming(e, "ended", k)' \/ ~Party(Owner[e], k)
  BY <1>0 DEF Tells, RoomOf, Other, Party
<1>6. ASSUME NEW e \in Devices PROVE Named(e)' /\ ShowsUnnumbered(e)' /\ Socket(e)'
  <2>0. Named(e) /\ ShowsUnnumbered(e) /\ Socket(e)
    BY Facts
  <2>1. Named(e)'
    BY <2>0, <1>0, <1>1, <1>2, <1>3, <1>4, <1>5 DEF Named, Requests, Terminal, Party
  <2>2. ShowsUnnumbered(e)'
    BY <2>0, <1>0, <1>1, <1>2, <1>3, <1>4, <1>5
      DEF ShowsUnnumbered, On, Refused, Requests, Terminal, Party
  <2>3. Socket(e)'
    BY <2>0, <1>0, <1>1, <1>2, <1>3, <1>4, <1>5 DEF Socket, Party, Requests, Terminal
  <2> QED
    BY <2>1, <2>2, <2>3
<1>7. ASSUME NEW e \in Devices, NEW c \in Calls
      PROVE  /\ Incoming(e, c)' /\ Ringing(e, c)' /\ Accepted(e, c)' /\ Ended(e, c)'
             /\ HangsUp(e, c)'
             /\ ShowsIncoming(e, c)' /\ ShowsOutgoing(e, c)' /\ ShowsActive(e, c)'
             /\ Awaits(e, c)'
  <2>0. /\ Incoming(e, c) /\ Ringing(e, c) /\ Accepted(e, c) /\ Ended(e, c) /\ HangsUp(e, c)
        /\ ShowsIncoming(e, c) /\ ShowsOutgoing(e, c) /\ ShowsActive(e, c) /\ Named(e)
        /\ Awaits(e, c) /\ Owing(c)
    BY Facts
  <2>1. Incoming(e, c)'
    BY <2>0, <1>0, <1>1, <1>2, <1>3, <1>4, <1>5 DEF Incoming, Unheard, Requests, Terminal, Party
  <2>2. Ringing(e, c)'
    <3>1. CASE c # k
      BY <1>1, <1>2, <2>0, <3>1 DEF Ringing, Unheard, Outcome
    <3>2. CASE c = k /\ type = "cancel"
      <4>1. Placing(d, k) /\ OnePlacing(k)
        BY <1>4, <3>2, Facts DEF Placing
      <4>2. Coming(e, "ringing", k) => e = d
        BY <4>1 DEF OnePlacing, Placing
      <4> QED
        BY <1>2, <1>4, <2>0, <3>2, <4>2 DEF Ringing, Unheard, Requests
    <3>3. CASE c = k /\ type = "decline"
      BY <1>0, <1>1, <1>2, <1>4, <1>5, <2>0, <3>3 DEF Ringing, Unheard, Outcome, Party, Terminal
    <3>4. CASE c = k /\ type = "hangup"
      BY <1>1, <1>2, <1>4, <2>0, <3>4 DEF Ringing, Unheard, Outcome
    <3> QED
      BY <1>4, <3>1, <3>2, <3>3, <3>4
  <2>3. Accepted(e, c)'
    BY <2>0, <1>0, <1>1, <1>2, <1>3, <1>4, <1>5 DEF Accepted, Party, On, Requests, Terminal
  <2>4. Ended(e, c)'
    BY <2>0, <1>0, <1>1, <1>2, <1>3, <1>4, <1>5 DEF Ended, Requests, Terminal, Party
  <2>5. HangsUp(e, c)'
    BY <2>0, <1>0, <1>1, <1>2, <1>3, <1>4, <1>5 DEF HangsUp, Party, Requests, Terminal
  <2>6. ShowsIncoming(e, c)'
    <3>0. (Refused(e) => Refused(e)') /\ (Has(up[e], "accept", c) => Has(up'[e], "accept", c))
      BY <1>1, <1>2, <1>4 DEF Refused
    <3>1. CASE c # k
      BY <1>1, <1>2, <2>0, <3>0, <3>1 DEF ShowsIncoming, On
    <3>2. CASE c = k /\ type = "cancel"
      BY <1>0, <1>1, <1>2, <1>4, <1>5, <2>0, <3>0, <3>2 DEF ShowsIncoming, On, Party
    <3>3. CASE c = k /\ type = "decline"
      BY <1>0, <1>1, <1>2, <1>3, <1>4, <2>0, <3>0, <3>3 DEF ShowsIncoming, On, Party
    <3>4. CASE c = k /\ type = "hangup"
      BY <1>1, <1>2, <1>4, <2>0, <3>0, <3>4 DEF ShowsIncoming, On
    <3> QED
      BY <1>4, <3>1, <3>2, <3>3, <3>4
  <2>7. ShowsOutgoing(e, c)'
    <3>1. CASE c # k
      BY <1>1, <1>2, <2>0, <3>1 DEF ShowsOutgoing, On, Outcome
    <3>2. CASE c = k /\ type = "cancel"
      <4>1. Placing(d, k) /\ OnePlacing(k)
        BY <1>4, <3>2, Facts DEF Placing
      <4>2. On(e, "outgoing", k) => e = d
        BY <4>1 DEF OnePlacing, Placing
      <4> QED
        BY <1>1, <1>4, <2>0, <3>2, <4>2 DEF ShowsOutgoing, On
    <3>3. CASE c = k /\ type = "decline"
      BY <1>0, <1>1, <1>2, <1>4, <1>5, <2>0, <3>3 DEF ShowsOutgoing, On, Outcome, Party
    <3>4. CASE c = k /\ type = "hangup"
      BY <1>1, <1>2, <1>4, <2>0, <3>4 DEF ShowsOutgoing, On, Outcome
    <3> QED
      BY <1>4, <3>1, <3>2, <3>3, <3>4
  <2>8. ShowsActive(e, c)'
    BY <2>0, <1>0, <1>1, <1>2, <1>3, <1>4, <1>5 DEF ShowsActive, On, Party, Requests, Terminal
  <2>9. Awaits(e, c)'
    BY <2>0, <1>0, <1>1, <1>2, <1>3, <1>4, <1>5 DEF Awaits, Waits, Owing, Named, On, Terminal, Live, IDLE
  <2> QED
    BY <2>1, <2>2, <2>3, <2>4, <2>5, <2>6, <2>7, <2>8, <2>9
<1>8. ASSUME NEW c \in Calls
      PROVE  OnePlacing(c)' /\ Home(c)' /\ Kept(c)' /\ Awaited(c)' /\ Owing(c)'
  <2>0. OnePlacing(c) /\ Home(c) /\ Kept(c) /\ Awaited(c) /\ Owing(c)
    BY Facts
  <2>1. OnePlacing(c)'
    <3>1. ASSUME NEW x \in Devices, Placing(x, c)' PROVE Placing(x, c)
      BY <1>0, <1>1, <1>2, <3>1 DEF Placing, On, Terminal
    <3> QED
      BY <2>0, <1>1, <3>1 DEF OnePlacing
  <2>2. Home(c)'
    BY <2>0, <1>0, <1>1, <1>2, <1>3, <1>4, <1>5 DEF Home, Requests, Terminal, Party
  <2>3. Kept(c)'
    <3>1. phase'[c] = "ACTIVE" => c # k /\ phase[c] = "ACTIVE"
      BY <1>1, <1>4
    <3>2. ASSUME NEW w \in Devices, Keeps(w, c), c # k PROVE Keeps(w, c)'
      BY <1>1, <1>2, <3>2 DEF Keeps, On
    <3> QED
      BY <2>0, <1>1, <3>1, <3>2 DEF Kept
  <2>4. Awaited(c)'
    BY <2>0, <1>0, <1>1, <1>2, <1>3, <1>4, <1>5 DEF Awaited, Waits, On, Requests, Terminal, Party
  <2>5. Owing(c)'
    BY <2>0, <1>0, <1>1, <1>2, <1>3, <1>4, <1>5 DEF Owing, On, Terminal, Live, IDLE
  <2> QED
    BY <2>1, <2>2, <2>3, <2>4, <2>5
<1> QED
  BY <1>1, <1>6, <1>7, <1>8, Facts, FromFacts

\* Call k is missed, and its parties are told.
LEMMA RingTimeoutKeeps ==
  ASSUME ClientInv, NEW k \in Calls, phase[k] = "RINGING",
         UNCHANGED <<ends, sock, screen, up, odd>>, Calls' = Calls,
         \A c \in Calls : phase'[c] = IF c = k THEN "MISSED" ELSE phase[c],
         Tells({e \in Devices : Party(Owner[e], k)}, "ended", k), MoreDues("ended", k),
         Typed', Orderly'
  PROVE  ClientInv'
<1>1. /\ ends' = ends /\ odd' = odd /\ screen' = screen /\ sock' = sock /\ up' = up
      /\ Calls' = Calls /\ phase[k] = "RINGING" /\ phase'[k] = "MISSED"
      /\ \A c \in Calls : c # k => phase'[c] = phase[c]
  OBVIOUS
<1>2. /\ \A e \in Devices : \A t, x : Coming(e, t, x) => Coming(e, t, x)'
      /\ \A e \in Devices : \A t, x : Coming(e, t, x)' /\ ~Coming(e, t, x) =>
             t = "ended" /\ x = k
      /\ \A e \in Devices : Party(Owner[e], k) => Coming(e, "ended", k)'
      /\ \A t, x : Due(t, x)' <=> Due(t, x) \/ (t = "ended" /\ x = k)
  BY DEF Tells, MoreDues
<1>3. \A c \in Calls : c # 0 /\ ends[c].caller # ends[c].callee
  BY CallsApart
<1>4. ASSUME NEW e \in Devices PROVE Named(e)' /\ ShowsUnnumbered(e)' /\ Socket(e)'
  <2>0. Named(e) /\ ShowsUnnumbered(e) /\ Socket(e)
    BY Facts
  <2>1. Named(e)'
    BY <2>0, <1>1, <1>2, <1>3 DEF Named, Terminal, Party
  <2>2. ShowsUnnumbered(e)'
    BY <2>0, <1>1, <1>2, <1>3 DEF ShowsUnnumbered, On, Refused, Terminal, Party
  <2>3. Socket(e)'
    BY <2>0, <1>1, <1>2, <1>3 DEF Socket, Party, Terminal
  <2> QED
    BY <2>1, <2>2, <2>3
<1>5. ASSUME NEW e \in Devices, NEW c \in Calls
      PROVE  /\ Incoming(e, c)' /\ Ringing(e, c)' /\ Accepted(e, c)' /\ Ended(e, c)'
             /\ HangsUp(e, c)'
             /\ ShowsIncoming(e, c)' /\ ShowsOutgoing(e, c)' /\ ShowsActive(e, c)'
             /\ Awaits(e, c)'
  <2>0. /\ Incoming(e, c) /\ Ringing(e, c) /\ Accepted(e, c) /\ Ended(e, c) /\ HangsUp(e, c)
        /\ ShowsIncoming(e, c) /\ ShowsOutgoing(e, c) /\ ShowsActive(e, c) /\ Named(e)
        /\ Awaits(e, c) /\ Owing(c)
    BY Facts
  <2>1. Incoming(e, c)'
    BY <2>0, <1>1, <1>2, <1>3 DEF Incoming, Unheard, Terminal, Party
  <2>2. Ringing(e, c)'
    BY <2>0, <1>1, <1>2, <1>3 DEF Ringing, Unheard, Outcome, Terminal, Party
  <2>3. Accepted(e, c)'
    BY <2>0, <1>1, <1>2, <1>3 DEF Accepted, Party, On, Terminal
  <2>4. Ended(e, c)'
    BY <2>0, <1>1, <1>2, <1>3 DEF Ended, Terminal, Party
  <2>5. HangsUp(e, c)'
    BY <2>0, <1>1, <1>2, <1>3 DEF HangsUp, Party, Terminal
  <2>6. ShowsIncoming(e, c)'
    <3>1. Refused(e) => Refused(e)'
      BY <1>1, <1>2 DEF Refused
    <3> QED
      BY <1>1, <1>2, <1>3, <2>0, <3>1 DEF ShowsIncoming, On, Party
  <2>7. ShowsOutgoing(e, c)'
    BY <2>0, <1>1, <1>2, <1>3 DEF ShowsOutgoing, On, Outcome, Terminal, Party
  <2>8. ShowsActive(e, c)'
    BY <2>0, <1>1, <1>2, <1>3 DEF ShowsActive, On, Party, Terminal
  <2>9. Awaits(e, c)'
    BY <2>0, <1>1, <1>2, <1>3 DEF Awaits, Waits, Owing, Named, On, Terminal, Live, IDLE
  <2> QED
    BY <2>1, <2>2, <2>3, <2>4, <2>5, <2>6, <2>7, <2>8, <2>9
<1>6. ASSUME NEW c \in Calls
      PROVE  OnePlacing(c)' /\ Home(c)' /\ Kept(c)' /\ Awaited(c)' /\ Owing(c)'
  <2>0. OnePlacing(c) /\ Home(c) /\ Kept(c) /\ Awaited(c) /\ Owing(c)
    BY Facts
  <2>1. OnePlacing(c)'
    <3>1. ASSUME NEW x \in Devices, Placing(x, c)' PROVE Placing(x, c)
      BY <1>1, <1>2, <1>3, <3>1 DEF Placing, On
    <3> QED
      BY <2>0, <1>1, <3>1 DEF OnePlacing
  <2>2. Home(c)'
    BY <2>0, <1>1, <1>2, <1>3 DEF Home, Terminal, Party
  <2>3. Kept(c)'
    <3>1. ASSUME NEW x \in Devices, Keeps(x, c), phase'[c] = "ACTIVE", c \notin odd'
          PROVE  Keeps(x, c)'
      BY <1>1, <1>2, <3>1 DEF Keeps, On
    <3> QED
      BY <2>0, <1>1, <1>2, <3>1 DEF Kept
  <2>4. Awaited(c)'
    BY <2>0, <1>1, <1>2, <1>3 DEF Awaited, Waits, On, Terminal, Party
  <2>5. Owing(c)'
    BY <2>0, <1>1, <1>2, <1>3 DEF Owing, On, Terminal, Live, IDLE
  <2> QED
    BY <2>1, <2>2, <2>3, <2>4, <2>5
<1> QED
  BY <1>1, <1>4, <1>5, <1>6, Facts, FromFacts

\* Device d is refused what it asked for.
LEMMA RefuseKeeps ==
  ASSUME ClientInv, NEW d \in Devices, NEW k, NEW x \in Calls \cup {0},
         NEW type \in {"invite", "add", "accept"}, Takes(d, type, k),
         UNCHANGED <<phase, ends, sock, screen, odd>>, Tells({d}, "failed", x), SameDues,
         Typed', Orderly'
  PROVE  ClientInv'
<1>1. /\ ends' = ends /\ odd' = odd /\ screen' = screen /\ sock' = sock /\ phase' = phase
      /\ Calls' = Calls /\ type \in {"invite", "add", "accept"}
  BY DEF Calls
<1>2. /\ \A e \in Devices : \A t, y : Has(up'[e], t, y) => Has(up[e], t, y)
      /\ \A e \in Devices : \A t, y : Has(up[e], t, y) /\ ~Has(up'[e], t, y) =>
             e = d /\ t = type /\ y = k
      /\ \A e \in Devices : \A t, y : Coming(e, t, y) => Coming(e, t, y)'
      /\ \A e \in Devices : \A t, y : Coming(e, t, y)' /\ ~Coming(e, t, y) =>
             t = "failed" /\ e = d
      /\ Refused(d)'
      /\ \A t, y : Due(t, y)' <=> Due(t, y)
  BY <1>1 DEF Takes, Tells, Refused, SameDues
<1>3. \A c \in Calls : c # 0 /\ ends[c].caller # ends[c].callee
  BY CallsApart
<1>4. ASSUME NEW e \in Devices PROVE Named(e)' /\ ShowsUnnumbered(e)' /\ Socket(e)'
  <2>0. Named(e) /\ ShowsUnnumbered(e) /\ Socket(e)
    BY Facts
  <2>1. Named(e)'
    BY <2>0, <1>1, <1>2, <1>3 DEF Named
  <2>2. ShowsUnnumbered(e)'
    <3>1. Refused(e) => Refused(e)'
      BY <1>1, <1>2 DEF Refused
    <3> QED
      BY <1>1, <1>2, <2>0, <3>1 DEF ShowsUnnumbered, On
  <2>3. Socket(e)'
    BY <2>0, <1>1, <1>2, <1>3 DEF Socket, Party
  <2> QED
    BY <2>1, <2>2, <2>3
<1>5. ASSUME NEW e \in Devices, NEW c \in Calls
      PROVE  /\ Incoming(e, c)' /\ Ringing(e, c)' /\ Accepted(e, c)' /\ Ended(e, c)'
             /\ HangsUp(e, c)'
             /\ ShowsIncoming(e, c)' /\ ShowsOutgoing(e, c)' /\ ShowsActive(e, c)'
             /\ Awaits(e, c)'
  <2>0. /\ Incoming(e, c) /\ Ringing(e, c) /\ Accepted(e, c) /\ Ended(e, c) /\ HangsUp(e, c)
        /\ ShowsIncoming(e, c) /\ ShowsOutgoing(e, c) /\ ShowsActive(e, c) /\ Named(e)
        /\ Awaits(e, c) /\ Owing(c)
    BY Facts
  <2>1. Incoming(e, c)'
    BY <2>0, <1>1, <1>2, <1>3 DEF Incoming, Unheard
  <2>2. Ringing(e, c)'
    BY <2>0, <1>1, <1>2, <1>3 DEF Ringing, Unheard, Outcome
  <2>3. Accepted(e, c)'
    BY <2>0, <1>1, <1>2, <1>3 DEF Accepted, Party, On
  <2>4. Ended(e, c)'
    BY <2>0, <1>1, <1>2, <1>3 DEF Ended
  <2>5. HangsUp(e, c)'
    BY <2>0, <1>1, <1>2, <1>3 DEF HangsUp, Party
  <2>6. ShowsIncoming(e, c)'
    <3>1. Refused(e) => Refused(e)'
      BY <1>1, <1>2 DEF Refused
    <3> QED
      BY <1>1, <1>2, <2>0, <3>1 DEF ShowsIncoming, On
  <2>7. ShowsOutgoing(e, c)'
    BY <2>0, <1>1, <1>2, <1>3 DEF ShowsOutgoing, On, Outcome
  <2>8. ShowsActive(e, c)'
    BY <2>0, <1>1, <1>2, <1>3 DEF ShowsActive, On, Party
  <2>9. Awaits(e, c)'
    BY <2>0, <1>1, <1>2, <1>3 DEF Awaits, Waits, Owing, Named, On, Terminal, Live, IDLE
  <2> QED
    BY <2>1, <2>2, <2>3, <2>4, <2>5, <2>6, <2>7, <2>8, <2>9
<1>6. ASSUME NEW c \in Calls
      PROVE  OnePlacing(c)' /\ Home(c)' /\ Kept(c)' /\ Awaited(c)' /\ Owing(c)'
  <2>0. OnePlacing(c) /\ Home(c) /\ Kept(c) /\ Awaited(c) /\ Owing(c)
    BY Facts
  <2>1. OnePlacing(c)'
    <3>1. ASSUME NEW w \in Devices, Placing(w, c)' PROVE Placing(w, c)
      BY <1>1, <1>2, <3>1 DEF Placing, On
    <3> QED
      BY <2>0, <1>1, <3>1 DEF OnePlacing
  <2>2. Home(c)'
    BY <2>0, <1>1, <1>2, <1>3 DEF Home
  <2>3. Kept(c)'
    <3>1. ASSUME NEW w \in Devices, Keeps(w, c), phase'[c] = "ACTIVE", c \notin odd'
          PROVE  Keeps(w, c)'
      BY <1>1, <1>2, <3>1 DEF Keeps, On
    <3> QED
      BY <2>0, <1>1, <1>2, <3>1 DEF Kept
  <2>4. Awaited(c)'
    <3>1. ASSUME NEW w \in Devices, Waits(w, c), phase'[c] = "RINGING", c \notin odd'
          PROVE  Waits(w, c)'
      BY <1>1, <1>2, <3>1 DEF Waits, On
    <3> QED
      BY <2>0, <1>1, <1>2, <3>1 DEF Awaited
  <2>5. Owing(c)'
    BY <2>0, <1>1, <1>2, <1>3 DEF Owing, On, Terminal, Live, IDLE
  <2> QED
    BY <2>1, <2>2, <2>3, <2>4, <2>5
<1> QED
  BY <1>1, <1>4, <1>5, <1>6, Facts, FromFacts

\* Device d answers call k.
LEMMA AnswerKeeps ==
  ASSUME ClientInv, NEW d \in Devices, NEW k \in Calls, Takes(d, "accept", k),
         UNCHANGED <<ends, sock, screen, odd>>, Calls' = Calls,
         phase[k] = "RINGING", ends[k].callee = Owner[d],
         \A c \in Calls : phase'[c] = IF c = k THEN "ACTIVE" ELSE phase[c],
         Tells({d} \cup RoomOf(ends[k].caller), "accepted", k), MoreDues("accepted", k),
         Typed', Orderly'
  PROVE  ClientInv'
<1>0. \A c \in Calls : c # 0 /\ ends[c].caller # ends[c].callee
  BY CallsApart
<1>1. /\ ends' = ends /\ odd' = odd /\ screen' = screen /\ Calls' = Calls
      /\ phase[k] = "RINGING" /\ phase'[k] = "ACTIVE" /\ ends[k].callee = Owner[d]
      /\ \A c \in Calls : c # k => phase'[c] = phase[c]
      /\ sock' = sock
  OBVIOUS
<1>2. /\ \A e \in Devices : \A t, x : Has(up'[e], t, x) => Has(up[e], t, x)
      /\ \A e \in Devices : \A t, x : Has(up[e], t, x) /\ ~Has(up'[e], t, x) =>
             e = d /\ t = "accept" /\ x = k
      /\ \A e \in Devices : \A t, x : Coming(e, t, x) => Coming(e, t, x)'
      /\ \A e \in Devices : \A t, x : Coming(e, t, x)' /\ ~Coming(e, t, x) =>
             t = "accepted" /\ x = k /\ (e = d \/ Owner[e] = ends[k].caller)
      /\ \A e \in Devices : e = d \/ Owner[e] = ends[k].caller => Coming(e, "accepted", k)'
      /\ Has(up[d], "accept", k)
      /\ \A t, x : Due(t, x)' <=> Due(t, x) \/ (t = "accepted" /\ x = k)
  BY DEF Takes, Tells, RoomOf, MoreDues
<1>3. \A e \in Devices : Owner[e] = Owner[d] /\ e # d => ~Alone(e)
  BY NotAlone
<1>4. ASSUME NEW e \in Devices PROVE Named(e)' /\ ShowsUnnumbered(e)' /\ Socket(e)'
  <2>0. Named(e) /\ ShowsUnnumbered(e) /\ Socket(e)
    BY Facts
  <2>1. Named(e)'
    BY <2>0, <1>0, <1>1, <1>2, <1>3 DEF Named, Requests, Terminal, Party
  <2>2. ShowsUnnumbered(e)'
    BY <2>0, <1>0, <1>1, <1>2, <1>3 DEF ShowsUnnumbered, On, Refused, Requests, Terminal, Party
  <2>3. Socket(e)'
    BY <2>0, <1>0, <1>1, <1>2, <1>3 DEF Socket, Party, Requests, Terminal
  <2> QED
    BY <2>1, <2>2, <2>3
<1>5. ASSUME NEW e \in Devices, NEW c \in Calls
      PROVE  /\ Incoming(e, c)' /\ Ringing(e, c)' /\ Accepted(e, c)' /\ Ended(e, c)'
             /\ HangsUp(e, c)'
             /\ ShowsIncoming(e, c)' /\ ShowsOutgoing(e, c)' /\ ShowsActive(e, c)'
             /\ Awaits(e, c)'
  <2>0. /\ Incoming(e, c) /\ Ringing(e, c) /\ Accepted(e, c) /\ Ended(e, c) /\ HangsUp(e, c)
        /\ ShowsIncoming(e, c) /\ ShowsOutgoing(e, c) /\ ShowsActive(e, c) /\ Named(e)
        /\ Awaits(e, c) /\ Owing(c)
    BY Facts
  <2>1. Incoming(e, c)'
    <3>1. CASE c # k
      BY <1>0, <1>1, <1>2, <2>0, <3>1 DEF Incoming, Unheard
    <3>2. CASE c = k /\ e = d
      BY <1>2, <2>0, <3>2 DEF Incoming, Unheard, Requests
    <3>3. CASE c = k /\ e # d
      BY <1>0, <1>1, <1>2, <1>3, <2>0, <3>3 DEF Incoming, Unheard
    <3> QED
      BY <3>1, <3>2, <3>3
  <2>2. Ringing(e, c)'
    BY <2>0, <1>0, <1>1, <1>2, <1>3 DEF Ringing, Unheard, Outcome, Requests, Terminal, Party
  <2>3. Accepted(e, c)'
    <3>1. CASE c # k
      BY <1>1, <1>2, <2>0, <3>1 DEF Accepted, Party, On
    <3>2. CASE c = k
      <4>1. ~On(e, "active", k) /\ ~Has(up[e], "hangup", k) /\ ~Coming(e, "accepted", k)
        BY <1>1, <2>0, <3>2 DEF ShowsActive, HangsUp, Accepted
      <4> QED
        BY <1>1, <1>2, <3>2, <4>1 DEF Accepted, Party, On
    <3> QED
      BY <3>1, <3>2
  <2>4. Ended(e, c)'
    BY <2>0, <1>0, <1>1, <1>2, <1>3 DEF Ended, Requests, Terminal, Party
  <2>5. HangsUp(e, c)'
    BY <2>0, <1>0, <1>1, <1>2, <1>3 DEF HangsUp, Party, Requests, Terminal
  <2>6. ShowsIncoming(e, c)'
    <3>0. Refused(e) => Refused(e)'
      BY <1>1, <1>2 DEF Refused
    <3>1. CASE c # k
      BY <1>1, <1>2, <2>0, <3>0, <3>1 DEF ShowsIncoming, On
    <3>2. CASE c = k /\ e = d
      BY <1>1, <1>2, <2>0, <3>2 DEF ShowsIncoming, On
    <3>3. CASE c = k /\ e # d
      BY <1>1, <1>2, <1>3, <2>0, <3>3 DEF ShowsIncoming, On
    <3> QED
      BY <3>1, <3>2, <3>3
  <2>7. ShowsOutgoing(e, c)'
    <3>1. CASE c # k
      BY <1>1, <1>2, <2>0, <3>1 DEF ShowsOutgoing, On, Outcome
    <3>2. CASE c = k
      BY <1>1, <1>2, <2>0, <3>2 DEF ShowsOutgoing, On, Outcome
    <3> QED
      BY <3>1, <3>2
  <2>8. ShowsActive(e, c)'
    BY <2>0, <1>0, <1>1, <1>2, <1>3 DEF ShowsActive, On, Party, Requests, Terminal
  <2>9. Awaits(e, c)'
    BY <2>0, <1>0, <1>1, <1>2, <1>3 DEF Awaits, Waits, Owing, Named, On, Terminal, Live, IDLE
  <2> QED
    BY <2>1, <2>2, <2>3, <2>4, <2>5, <2>6, <2>7, <2>8, <2>9
<1>6. ASSUME NEW c \in Calls
      PROVE  OnePlacing(c)' /\ Home(c)' /\ Kept(c)' /\ Awaited(c)' /\ Owing(c)'
  <2>0. OnePlacing(c) /\ Home(c) /\ Kept(c) /\ Awaited(c) /\ Owing(c)
    BY Facts
  <2>1. OnePlacing(c)'
    <3>1. ASSUME NEW x \in Devices, Placing(x, c)' PROVE Placing(x, c)
      BY <1>0, <1>1, <1>2, <3>1 DEF Placing, On
    <3> QED
      BY <2>0, <1>1, <3>1 DEF OnePlacing
  <2>2. Home(c)'
    BY <2>0, <1>0, <1>1, <1>2, <1>3 DEF Home, Requests, Terminal, Party
  <2>3. Kept(c)'
    <3>1. CASE c # k
      <4>1. ASSUME NEW x \in Devices, Keeps(x, c) PROVE Keeps(x, c)'
        BY <1>1, <1>2, <3>1, <4>1 DEF Keeps, On
      <4> QED
        BY <2>0, <1>1, <3>1, <4>1 DEF Kept
    <3>2. CASE c = k
      <4>1. PICK h \in Devices : Owner[h] = ends[k].caller
        BY <2>0, <3>2 DEF Home
      <4>2. Keeps(h, k)' /\ Keeps(d, k)'
        BY <1>2, <4>1 DEF Keeps
      <4> QED
        BY <1>1, <3>2, <4>1, <4>2 DEF Kept
    <3> QED
      BY <3>1, <3>2
  <2>4. Awaited(c)'
    <3>1. ASSUME NEW x \in Devices, Waits(x, c), phase'[c] = "RINGING", c \notin odd'
          PROVE  Waits(x, c)'
      BY <1>1, <1>2, <3>1 DEF Waits, On
    <3> QED
      BY <2>0, <1>1, <1>2, <3>1 DEF Awaited
  <2>5. Owing(c)'
    <3>1. CASE c # k
      BY <1>1, <1>2, <2>0, <3>1 DEF Owing, On
    <3>2. CASE c = k
      <4>1. /\ ~Due("ended", k)'
            /\ \A e \in Devices : ~On(e, "active", k) /\ ~Has(up[e], "hangup", k)
        BY <1>1, <1>2, <2>0, <3>2, Facts DEF Owing, Terminal, ShowsActive, HangsUp
      <4> QED
        BY <1>1, <1>2, <3>2, <4>1 DEF Owing, On
    <3> QED
      BY <3>1, <3>2
  <2> QED
    BY <2>1, <2>2, <2>3, <2>4, <2>5
<1> QED
  BY <1>1, <1>4, <1>5, <1>6, Facts, FromFacts

\* Nothing knows of a call before it is placed.
LEMMA Fresh ==
  ASSUME Typed
  PROVE  LET k == Len(phase) + 1
         IN  /\ \A t : ~Due(t, k) /\ \A e \in Devices : ~Coming(e, t, k)
             /\ k \notin Calls /\ k # 0 /\ k \notin odd /\ k - 1 = Len(phase)
             /\ \A e \in Devices : screen[e].call # k /\ sock[e] # k
             /\ \A e \in Devices : \A t : ~Has(up[e], t, k) /\ ~Has(down[e], t, k)
<1> DEFINE n == Len(phase)
<1>1. n \in Nat /\ n + 1 \notin 0 .. n /\ Calls \subseteq 0 .. n
  BY DEF Typed, Calls
<1>2. \A e \in Devices : screen[e].call \in 0 .. n /\ sock[e] \in 0 .. n
  BY DEF Typed
<1>3. ASSUME NEW e \in Devices, NEW t, Has(up[e], t, n + 1) PROVE FALSE
  <2>1. up[e] \in Seq(UpMsg(n))
    BY DEF Typed
  <2>2. PICK i \in 1 .. Len(up[e]) : up[e][i].call = n + 1
    BY <1>3, <2>1 DEF Has
  <2>3. up[e][i] \in UpMsg(n)
    BY <2>1
  <2> QED
    BY <1>1, <2>2, <2>3 DEF UpMsg
<1>4. ASSUME NEW e \in Devices, NEW t, Has(down[e], t, n + 1) PROVE FALSE
  <2>1. down[e] \in Seq(DownMsg(n))
    BY DEF Typed
  <2>2. PICK i \in 1 .. Len(down[e]) : down[e][i].call = n + 1
    BY <1>4, <2>1 DEF Has
  <2>3. down[e][i] \in DownMsg(n)
    BY <2>1
  <2> QED
    BY <1>1, <2>2, <2>3 DEF DownMsg
<1>5. \A t : ~Due(t, n + 1) /\ \A e \in Devices : ~Owed(e, t, n + 1)
  BY <1>1 DEF Typed, Announcements, Due, Owed
<1>6. \A t : ~Due(t, n + 1) /\ \A e \in Devices : ~Coming(e, t, n + 1)
  BY <1>4, <1>5 DEF Coming
<1>7. n + 1 \notin Calls /\ n + 1 # 0 /\ n + 1 \notin odd /\ n + 1 - 1 = n
  BY <1>1 DEF Typed
<1>8. \A e \in Devices : screen[e].call # n + 1 /\ sock[e] # n + 1
  BY <1>1, <1>2
<1> HIDE DEF n
<1> QED
  BY <1>3, <1>4, <1>6, <1>7, <1>8 DEF n

\* The devices of user u are told of call k, and device d that they ring.
Rings(d, u, k, direct) ==
    \A e \in Devices : \A t, y : Coming(e, t, y)' <=>
        Coming(e, t, y) \/ (y = k /\ \/ t = "incoming" /\ Owner[e] = u
                                     \/ t = "ringing" /\ e = d /\ direct)

\* Device d places call k.
Places(d, u, k, x, direct) ==
    /\ Takes(d, IF direct THEN "invite" ELSE "add", x) /\ UNCHANGED <<screen, odd>>
    /\ k = Len(phase) + 1 /\ u # Owner[d]
    /\ Calls' = Calls \cup {k} /\ \A c \in Calls : phase'[c] = phase[c] /\ ends'[c] = ends[c]
    /\ phase'[k] = "RINGING"
    /\ ends'[k].caller = Owner[d] /\ ends'[k].callee = u /\ ends'[k].added = ~direct
    /\ \A e \in Devices : sock'[e] = IF e = d /\ direct THEN k ELSE sock[e]
    /\ Rings(d, u, k, direct) /\ SameDues
    /\ Orderly'

\* Placing a call keeps the invariant.
LEMMA RingKeeps ==
  ASSUME ClientInv, NEW d \in Devices, NEW u, NEW k, NEW x, NEW direct \in BOOLEAN,
         Places(d, u, k, x, direct), Typed'
  PROVE  ClientInv'
<1>0. /\ \A c \in Calls : c # 0 /\ ends[c].caller # ends[c].callee
      /\ k \notin Calls /\ k # 0 /\ k \notin odd
      /\ \A e \in Devices : screen[e].call # k /\ sock[e] # k
      /\ \A e \in Devices : \A t : ~Has(up[e], t, k) /\ ~Coming(e, t, k)
      /\ \A t : ~Due(t, k)
  BY CallsApart, Fresh, Facts DEF Places
<1>1. /\ odd' = odd /\ screen' = screen /\ Calls' = Calls \cup {k} /\ u # Owner[d]
      /\ \A c \in Calls : phase'[c] = phase[c] /\ ends'[c] = ends[c]
      /\ phase'[k] = "RINGING" /\ ends'[k].caller = Owner[d] /\ ends'[k].callee = u
      /\ ends'[k].added = ~direct
      /\ \A e \in Devices : sock'[e] = sock[e] \/ (sock'[e] = k /\ e = d /\ direct)
  BY DEF Places
<1>2. /\ \A e \in Devices : \A t, y : Has(up'[e], t, y) => Has(up[e], t, y)
      /\ \A e \in Devices : \A t, y : Has(up[e], t, y) /\ ~Has(up'[e], t, y) =>
             e = d /\ t \in {"invite", "add"} /\ (t = "invite" => direct)
      /\ \A e \in Devices : \A t, y : Coming(e, t, y) => Coming(e, t, y)'
      /\ \A e \in Devices : \A t, y : Coming(e, t, y)' /\ ~Coming(e, t, y) => y = k
      /\ \A t, y : Due(t, y)' <=> Due(t, y)
  BY DEF Places, Takes, Rings, SameDues
<1>3. /\ \A e \in Devices : Coming(e, "incoming", k)' => Owner[e] = u
      /\ \A e \in Devices : Coming(e, "ringing", k)' => e = d /\ direct
      /\ direct => Coming(d, "ringing", k)'
      /\ \A e \in Devices : ~Coming(e, "accepted", k)' /\ ~Coming(e, "ended", k)'
      /\ \A e \in Devices : \A t : ~Has(up'[e], t, k)
  <2>1. \A e \in Devices : \A t : Coming(e, t, k)' <=>
            (t = "incoming" /\ Owner[e] = u) \/ (t = "ringing" /\ e = d /\ direct)
    BY <1>0 DEF Places, Rings
  <2>2. \A e \in Devices : \A t : ~Has(up'[e], t, k)
    BY <1>0, <1>2
  <2>3. ASSUME NEW e \in Devices
        PROVE  ~Coming(e, "accepted", k)' /\ ~Coming(e, "ended", k)'
    <3>1. \A t : Coming(e, t, k)' => t \in {"incoming", "ringing"}
      BY <2>1
    <3> QED
      BY <3>1
  <2>4. \A e \in Devices : Coming(e, "incoming", k)' => Owner[e] = u
    BY <2>1
  <2>5. /\ \A e \in Devices : Coming(e, "ringing", k)' => e = d /\ direct
        /\ direct => Coming(d, "ringing", k)'
    BY <2>1
  <2> QED
    BY <2>2, <2>3, <2>4, <2>5
<1>4. ASSUME NEW e \in Devices PROVE Named(e)' /\ ShowsUnnumbered(e)' /\ Socket(e)'
  <2>0. Named(e) /\ ShowsUnnumbered(e) /\ Socket(e)
    BY Facts
  <2>1. Named(e)'
    BY <2>0, <1>0, <1>1, <1>2 DEF Named
  <2>2. ShowsUnnumbered(e)'
    <3>1. Refused(e) => Refused(e)'
      BY <1>1, <1>2 DEF Refused
    <3>2. CASE direct /\ e = d
      BY <1>1, <1>3, <3>2 DEF ShowsUnnumbered
    <3>3. CASE ~(direct /\ e = d)
      <4>1. Has(up[e], "invite", 0) => Has(up'[e], "invite", 0)
        BY <1>2, <3>3
      <4>2. \A c \in Calls : Coming(e, "ringing", c) =>
                Coming(e, "ringing", c)' /\ c \in Calls'
        BY <1>1, <1>2
      <4> QED
        BY <1>1, <2>0, <3>1, <4>1, <4>2 DEF ShowsUnnumbered, On
    <3> QED
      BY <3>2, <3>3
  <2>3. Socket(e)'
    <3>1. sock[e] \in Calls \cup {0}
      BY Facts DEF Typed, Calls
    <3> QED
      BY <1>0, <1>1, <2>0, <3>1 DEF Socket, Party
  <2> QED
    BY <2>1, <2>2, <2>3
<1>5. ASSUME NEW e \in Devices, NEW c \in Calls
      PROVE  /\ Incoming(e, c)' /\ Ringing(e, c)' /\ Accepted(e, c)' /\ Ended(e, c)'
             /\ HangsUp(e, c)'
             /\ ShowsIncoming(e, c)' /\ ShowsOutgoing(e, c)' /\ ShowsActive(e, c)'
             /\ Awaits(e, c)'
  <2>0. /\ Incoming(e, c) /\ Ringing(e, c) /\ Accepted(e, c) /\ Ended(e, c) /\ HangsUp(e, c)
        /\ ShowsIncoming(e, c) /\ ShowsOutgoing(e, c) /\ ShowsActive(e, c) /\ Named(e)
        /\ Awaits(e, c) /\ Owing(c)
    BY Facts
  <2>1. Incoming(e, c)'
    <3>1. /\ \A t : Has(up'[e], t, c) => Has(up[e], t, c)
          /\ \A t : Coming(e, t, c)' <=> Coming(e, t, c)
      BY <1>0, <1>2
    <3>2. sock'[e] = c => sock[e] = c
      BY <1>0, <1>1
    <3> QED
      BY <1>1, <2>0, <3>1, <3>2 DEF Incoming, Unheard
  <2>2. Ringing(e, c)'
    BY <2>0, <1>0, <1>1, <1>2 DEF Ringing, Unheard, Outcome
  <2>3. Accepted(e, c)'
    BY <2>0, <1>0, <1>1, <1>2 DEF Accepted, Party, On
  <2>4. Ended(e, c)'
    BY <2>0, <1>0, <1>1, <1>2 DEF Ended
  <2>5. HangsUp(e, c)'
    BY <2>0, <1>0, <1>1, <1>2 DEF HangsUp, Party
  <2>6. ShowsIncoming(e, c)'
    <3>1. Refused(e) => Refused(e)'
      BY <1>1, <1>2 DEF Refused
    <3> QED
      <4>1. /\ Has(up[e], "accept", c) => Has(up'[e], "accept", c)
            /\ Has(up'[e], "decline", c) => Has(up[e], "decline", c)
            /\ \A t : Coming(e, t, c) => Coming(e, t, c)'
        <5>1. Has(up[e], "accept", c) => Has(up'[e], "accept", c)
          BY <1>2
        <5>2. Has(up'[e], "decline", c) => Has(up[e], "decline", c)
          BY <1>2
        <5>3. \A t : Coming(e, t, c) => Coming(e, t, c)'
          BY <1>2
        <5> QED
          BY <5>1, <5>2, <5>3
      <4> QED
        BY <1>1, <2>0, <3>1, <4>1 DEF ShowsIncoming, On
  <2>7. ShowsOutgoing(e, c)'
    BY <2>0, <1>0, <1>1, <1>2 DEF ShowsOutgoing, On, Outcome
  <2>8. ShowsActive(e, c)'
    BY <2>0, <1>0, <1>1, <1>2 DEF ShowsActive, On, Party
  <2>9. Awaits(e, c)'
    BY <2>0, <1>0, <1>1, <1>2 DEF Awaits, Waits, Owing, Named, On, Terminal, Live, IDLE
  <2> QED
    BY <2>1, <2>2, <2>3, <2>4, <2>5, <2>6, <2>7, <2>8, <2>9
<1>6. ASSUME NEW c \in Calls
      PROVE  OnePlacing(c)' /\ Home(c)' /\ Kept(c)' /\ Awaited(c)' /\ Owing(c)'
  <2>0. OnePlacing(c) /\ Home(c) /\ Kept(c) /\ Awaited(c) /\ Owing(c)
    BY Facts
  <2>1. OnePlacing(c)'
    <3>1. ASSUME NEW w \in Devices, Placing(w, c)' PROVE Placing(w, c)
      BY <1>0, <1>1, <1>2, <3>1 DEF Placing, On
    <3> QED
      BY <2>0, <1>1, <3>1 DEF OnePlacing
  <2>2. Home(c)'
    BY <2>0, <1>0, <1>1, <1>2 DEF Home
  <2>3. Kept(c)'
    <3>1. ASSUME NEW w \in Devices, Keeps(w, c), phase'[c] = "ACTIVE", c \notin odd'
          PROVE  Keeps(w, c)'
      BY <1>1, <1>2, <3>1 DEF Keeps, On
    <3> QED
      BY <2>0, <1>1, <1>2, <3>1 DEF Kept
  <2>4. Awaited(c)'
    <3>1. ASSUME NEW w \in Devices, Waits(w, c), phase'[c] = "RINGING", c \notin odd'
          PROVE  Waits(w, c)'
      BY <1>1, <1>2, <3>1 DEF Waits, On
    <3> QED
      BY <2>0, <1>1, <1>2, <3>1 DEF Awaited
  <2>5. Owing(c)'
    BY <2>0, <1>0, <1>1, <1>2 DEF Owing, On, Terminal, Live, IDLE
  <2> QED
    BY <2>1, <2>2, <2>3, <2>4, <2>5
<1>7. ASSUME NEW e \in Devices
      PROVE  /\ Incoming(e, k)' /\ Ringing(e, k)' /\ Accepted(e, k)' /\ Ended(e, k)'
             /\ HangsUp(e, k)'
             /\ ShowsIncoming(e, k)' /\ ShowsOutgoing(e, k)' /\ ShowsActive(e, k)'
             /\ Awaits(e, k)'
  <2>1. Incoming(e, k)'
    BY <1>0, <1>1, <1>2, <1>3 DEF Incoming, Unheard
  <2>2. Ringing(e, k)'
    BY <1>0, <1>1, <1>2, <1>3 DEF Ringing, Unheard, Outcome
  <2>3. Accepted(e, k)'
    BY <1>0, <1>1, <1>2, <1>3 DEF Accepted
  <2>4. Ended(e, k)'
    BY <1>0, <1>1, <1>2, <1>3 DEF Ended
  <2>5. HangsUp(e, k)'
    BY <1>0, <1>1, <1>2, <1>3 DEF HangsUp
  <2>6. ShowsIncoming(e, k)'
    BY <1>0, <1>1, <1>2, <1>3 DEF ShowsIncoming, On
  <2>7. ShowsOutgoing(e, k)'
    BY <1>0, <1>1, <1>2, <1>3 DEF ShowsOutgoing, On
  <2>8. ShowsActive(e, k)'
    BY <1>0, <1>1, <1>2, <1>3 DEF ShowsActive, On
  <2>9. Awaits(e, k)'
    BY <1>0, <1>1, <1>2, <1>3 DEF Awaits, Waits
  <2> QED
    BY <2>1, <2>2, <2>3, <2>4, <2>5, <2>6, <2>7, <2>8, <2>9
<1>8. OnePlacing(k)' /\ Home(k)' /\ Kept(k)' /\ Awaited(k)' /\ Owing(k)'
  <2>1. \A e \in Devices : Placing(e, k)' => e = d
    BY <1>0, <1>1, <1>3 DEF Placing, On
  <2>2. OnePlacing(k)'
    BY <1>1, <2>1 DEF OnePlacing
  <2>3. Home(k)' /\ Kept(k)' /\ Awaited(k)' /\ Owing(k)'
    BY <1>0, <1>1, <1>2, <1>3 DEF Home, Kept, Awaited, Waits, Owing
  <2> QED
    BY <2>2, <2>3
<1>9. Orderly'
  BY DEF Places
<1> QED
  BY <1>1, <1>4, <1>5, <1>6, <1>7, <1>8, <1>9, FromFacts

\* Device d leaves the server; its call k, if closes, ends as v.
Quits(d, k, v, closes) ==
    /\ ends' = ends /\ Calls' = Calls
    /\ sock'[d] = 0 /\ \A e \in Devices : e # d => sock'[e] = sock[e]
    /\ \A c \in Calls : phase'[c] = IF closes /\ c = k THEN v ELSE phase[c]
    /\ closes => /\ k \in Calls /\ sock[d] = k
                 /\ \/ phase[k] = "ACTIVE" /\ v = "ENDED"
                    \/ phase[k] = "RINGING" /\ v = "CANCELLED" /\ ends[k].caller = Owner[d]
                    \/ phase[k] = "RINGING" /\ v = "DECLINED" /\ ends[k].callee = Owner[d]
    /\ \A e \in Devices : \A t, x : e # d =>
           (Coming(e, t, x)' <=>
                \/ Coming(e, t, x)
                \/ closes /\ Owner[e] = Other(Owner[d], k) /\ t = "ended" /\ x = k)
    /\ \A t, x : Coming(d, t, x)' =>
           Coming(d, t, x) /\ t \in {"accepted", "ended"} /\ Due(t, x)'
    /\ \A t, x : Due(t, x)' <=> Due(t, x) \/ (closes /\ t = "ended" /\ x = k)

\* It comes back with what it knew, or (type) with the answer to call j.
Returns(d, type, j) ==
    /\ odd \subseteq odd'
    /\ \A e \in Devices : e # d => up'[e] = up[e] /\ screen'[e] = screen[e]
    /\ \A t, x : Has(up'[d], t, x) <=> type # "none" /\ t = type /\ x = j
    /\ \/ type = "none" /\ screen' = screen
       \/ /\ type = "accept" /\ j \in Calls /\ ends[j].callee = Owner[d]
          /\ screen'[d] = [status |-> "incoming", call |-> j, peer |-> TRUE]
       \/ type = "decline" /\ j \in Calls /\ ends[j].callee = Owner[d] /\ screen'[d] = IDLE
    /\ \A x \in Calls \cup {0} :
           /\ (screen[d] # IDLE /\ screen[d].call = x)
                  \/ \E t \in Requests : Has(up[d], t, x)
                  \/ \E y \in Events : Coming(d, y, x) /\ ~Coming(d, y, x)'
           /\ type = "none" \/ x # j \/ phase'[x] = "ACTIVE"
           => x \in odd'

\* A device that leaves and returns keeps the invariant.
LEMMA QuitKeeps ==
  ASSUME ClientInv, NEW d \in Devices, NEW k, NEW v, NEW closes \in BOOLEAN,
         NEW type, NEW j, Quits(d, k, v, closes), Returns(d, type, j),
         Typed', Orderly'
  PROVE  ClientInv'
<1>0. \A c \in Calls : c # 0 /\ ends[c].caller # ends[c].callee
  BY CallsApart
<1>1. /\ ends' = ends /\ Calls' = Calls /\ Named(d)
      /\ sock'[d] = 0 /\ \A e \in Devices : e # d => sock'[e] = sock[e]
      /\ \A c \in Calls : phase'[c] = IF closes /\ c = k THEN v ELSE phase[c]
      /\ closes => /\ k \in Calls /\ sock[d] = k /\ Party(Owner[d], k)
                   /\ \/ phase[k] = "ACTIVE" /\ v = "ENDED"
                      \/ phase[k] = "RINGING" /\ v = "CANCELLED" /\ ends[k].caller = Owner[d]
                      \/ phase[k] = "RINGING" /\ v = "DECLINED" /\ ends[k].callee = Owner[d]
  <2>1. Socket(d) /\ Named(d)
    BY Facts
  <2> QED
    BY <1>0, <2>1 DEF Quits, Socket
<1>2. /\ \A e \in Devices : e # d => up'[e] = up[e] /\ screen'[e] = screen[e]
      /\ \A t, x : Coming(d, t, x)' =>
             Coming(d, t, x) /\ t \in {"accepted", "ended"} /\ Due(t, x)'
      /\ \A t, x : Due(t, x)' <=> Due(t, x) \/ (closes /\ t = "ended" /\ x = k)
      /\ \A e \in Devices : \A t, x : e # d /\ Coming(e, t, x) => Coming(e, t, x)'
      /\ \A e \in Devices : \A t, x : Coming(e, t, x)' /\ ~Coming(e, t, x) =>
             closes /\ t = "ended" /\ x = k
  <2>1. \A e \in Devices : \A t, x : e # d =>
            (Coming(e, t, x)' <=>
                 \/ Coming(e, t, x)
                 \/ closes /\ Owner[e] = Other(Owner[d], k) /\ t = "ended" /\ x = k)
    BY DEF Quits
  <2>2. \A e \in Devices : e # d => up'[e] = up[e] /\ screen'[e] = screen[e]
    BY DEF Returns
  <2>3. /\ \A t, x : Coming(d, t, x)' =>
               Coming(d, t, x) /\ t \in {"accepted", "ended"} /\ Due(t, x)'
        /\ \A t, x : Due(t, x)' <=> Due(t, x) \/ (closes /\ t = "ended" /\ x = k)
    BY DEF Quits
  <2>4. \A e \in Devices : \A t, x : e # d /\ Coming(e, t, x) => Coming(e, t, x)'
    BY <2>1
  <2>5. \A e \in Devices : \A t, x : Coming(e, t, x)' /\ ~Coming(e, t, x) =>
            closes /\ t = "ended" /\ x = k
    BY <2>1, <2>3
  <2> QED
    BY <2>2, <2>3, <2>4, <2>5
<1>3. closes => \A e \in Devices : e # d =>
          \/ ~Party(Owner[e], k)
          \/ Owner[e] = Owner[d] /\ ~Alone(e)
          \/ Owner[e] # Owner[d] /\ Coming(e, "ended", k)'
  <2>1. closes => \A e \in Devices : e # d /\ Owner[e] = Other(Owner[d], k) =>
            Coming(e, "ended", k)'
    BY DEF Quits
  <2> QED
    BY <1>0, <1>1, <2>1, NotAlone DEF Other, Party
<1>4. /\ \A t, x : Has(up'[d], t, x) <=> type # "none" /\ t = type /\ x = j
      /\ \/ type = "none" /\ screen'[d] = screen[d]
         \/ /\ type = "accept" /\ j \in Calls /\ ends[j].callee = Owner[d]
            /\ screen'[d] = [status |-> "incoming", call |-> j, peer |-> TRUE]
         \/ type = "decline" /\ j \in Calls /\ ends[j].callee = Owner[d] /\ screen'[d] = IDLE
      /\ \A x \in Calls \cup {0} : type = "none" \/ x # j \/ phase'[x] = "ACTIVE" =>
             /\ screen[d] # IDLE /\ screen[d].call = x => x \in odd'
             /\ Has(up[d], "cancel", x) \/ Has(up[d], "hangup", x) => x \in odd'
             /\ Coming(d, "ringing", x) => x \in odd'
             /\ Coming(d, "accepted", x) => x \in odd' \/ Coming(d, "accepted", x)'
      /\ \A x : ~Coming(d, "incoming", x)' /\ ~Coming(d, "ringing", x)'
  <2>1. \A x : ~Coming(d, "incoming", x)' /\ ~Coming(d, "ringing", x)'
    BY <1>2
  <2> QED
    BY <2>1 DEF Returns, Requests, Events
<1>5. odd \subseteq odd'
  BY DEF Returns
<1>9. ASSUME NEW c \in Calls PROVE Owing(c)'
  <2>0. Owing(c)
    BY Facts
  <2>1. Due("ended", c)' => phase'[c] \in Terminal
    BY <1>1, <1>2, <2>0 DEF Owing, Terminal
  <2>2. ASSUME Due("accepted", c)', NEW e \in Devices
        PROVE  ~On(e, "active", c)' /\ ~Has(up'[e], "hangup", c)
    <3>1. ~On(e, "active", c) /\ ~Has(up[e], "hangup", c)
      BY <1>2, <2>0, <2>2 DEF Owing
    <3>2. CASE e = d
      BY <1>4, <3>1, <3>2 DEF On, IDLE
    <3>3. CASE e # d
      BY <1>2, <3>1, <3>3 DEF On
    <3> QED
      BY <3>2, <3>3
  <2>3. ASSUME Due("accepted", c)'
        PROVE  phase'[c] = "ACTIVE" \/ (phase'[c] = "ENDED" /\ c \in odd')
    <3>0. /\ Due("accepted", c)
          /\ phase[c] = "ACTIVE" \/ (phase[c] = "ENDED" /\ c \in odd)
      BY <1>2, <2>0, <2>3 DEF Owing
    <3>1. CASE ~(closes /\ c = k)
      BY <1>1, <1>5, <3>0, <3>1
    <3>2. CASE closes /\ c = k
      <4>1. phase'[c] = "ENDED" /\ sock[d] = c
        BY <1>1, <3>0, <3>2
      <4>2. ends[c].caller = Owner[d] /\ (c \in odd \/ Waits(d, c))
        BY <3>0, <4>1, Facts DEF Awaits
      <4>3. type = "none" \/ c # j
        BY <1>0, <1>4, <4>2
      <4>4. Waits(d, c) => c \in odd'
        BY <1>4, <4>3 DEF Waits, On, IDLE
      <4> QED
        BY <1>5, <4>1, <4>2, <4>4
    <3> QED
      BY <3>1, <3>2
  <2> QED
    BY <2>1, <2>2, <2>3 DEF Owing
<1>6. ASSUME NEW e \in Devices PROVE Named(e)' /\ ShowsUnnumbered(e)' /\ Socket(e)'
  <2>0. Named(e) /\ ShowsUnnumbered(e) /\ Socket(e)
    BY Facts
  <2>1. Named(e)'
    <3>1. CASE e # d
      BY <1>1, <1>2, <1>5, <2>0, <3>1 DEF Named
    <3>2. CASE e = d /\ type = "none"
      BY <1>1, <1>4, <1>5, <2>0, <3>2 DEF Named
    <3>3. CASE e = d /\ type = "accept"
      <4>1. /\ screen'[e].status = "incoming" /\ screen'[e].peer
            /\ screen'[e].call # 0
        BY <1>0, <1>4, <3>3
      <4> QED
        BY <4>1 DEF Named
    <3>4. CASE e = d /\ type = "decline"
      BY <1>4, <3>4 DEF Named, IDLE
    <3> QED
      BY <1>4, <3>1, <3>2, <3>3, <3>4
  <2>2. ShowsUnnumbered(e)'
    <3>1. CASE e = d
      <4>1. On(d, "outgoing", 0)' => screen[d] # IDLE /\ screen[d].call = 0 /\ type = "none"
        BY <1>4 DEF On, IDLE
      <4> QED
        BY <1>4, <3>1, <4>1 DEF ShowsUnnumbered
    <3>2. CASE e # d
      <4>1. Refused(e) => Refused(e)'
        BY <1>1, <1>2, <3>2 DEF Refused
      <4> QED
        BY <1>1, <1>2, <1>5, <2>0, <3>2, <4>1 DEF ShowsUnnumbered, On
    <3> QED
      BY <3>1, <3>2
  <2>3. Socket(e)'
    <3>1. CASE e = d
      BY <1>1, <1>4, <1>5, <2>0, <3>1 DEF Socket
    <3>2. CASE e # d
      BY <1>1, <1>2, <2>0, <3>2 DEF Socket, Party
    <3> QED
      BY <3>1, <3>2
  <2> QED
    BY <2>1, <2>2, <2>3
<1>7. ASSUME NEW e \in Devices, NEW c \in Calls
      PROVE  /\ Incoming(e, c)' /\ Ringing(e, c)' /\ Accepted(e, c)' /\ Ended(e, c)'
             /\ HangsUp(e, c)'
             /\ ShowsIncoming(e, c)' /\ ShowsOutgoing(e, c)' /\ ShowsActive(e, c)'
             /\ Awaits(e, c)'
  <2>0. /\ Incoming(e, c) /\ Ringing(e, c) /\ Accepted(e, c) /\ Ended(e, c) /\ HangsUp(e, c)
        /\ ShowsIncoming(e, c) /\ ShowsOutgoing(e, c) /\ ShowsActive(e, c) /\ Named(e)
        /\ Awaits(e, c) /\ Owing(c)
    BY Facts
  <2>1. Incoming(e, c)'
    <3>1. CASE e = d
      BY <1>1, <1>4, <1>5, <2>0, <3>1 DEF Incoming
    <3>2. CASE e # d
      <4>1. CASE ~(closes /\ c = k)
        BY <1>1, <1>2, <2>0, <3>2, <4>1 DEF Incoming, Unheard, Party
      <4>2. CASE closes /\ c = k /\ v = "CANCELLED"
        BY <1>0, <1>1, <1>2, <1>3, <2>0, <3>2, <4>2 DEF Incoming, Unheard, Party
      <4>3. CASE closes /\ c = k /\ v = "DECLINED"
        BY <1>0, <1>1, <1>2, <1>3, <2>0, <3>2, <4>3 DEF Incoming, Unheard, Party
      <4>4. CASE closes /\ c = k /\ v = "ENDED"
        BY <1>0, <1>1, <1>2, <1>3, <2>0, <3>2, <4>4 DEF Incoming, Unheard, Party
      <4> QED
        BY <1>1, <4>1, <4>2, <4>3, <4>4
    <3> QED
      BY <3>1, <3>2
  <2>2. Ringing(e, c)'
    <3>1. CASE e = d
      BY <1>1, <1>4, <1>5, <2>0, <3>1 DEF Ringing
    <3>2. CASE e # d
      <4>1. CASE ~(closes /\ c = k)
        BY <1>1, <1>2, <2>0, <3>2, <4>1 DEF Ringing, Unheard, Outcome, Party
      <4>2. CASE closes /\ c = k /\ v = "CANCELLED"
        <5>1. Placing(d, k) /\ OnePlacing(k)
          BY <1>1, <4>2, Facts DEF Placing
        <5>2. ~Coming(e, "ringing", k)
          BY <3>2, <5>1 DEF OnePlacing, Placing
        <5> QED
          BY <1>2, <1>5, <3>2, <4>2, <5>2 DEF Ringing
      <4>3. CASE closes /\ c = k /\ v = "DECLINED"
        BY <1>0, <1>1, <1>2, <1>3, <2>0, <3>2, <4>3 DEF Ringing, Unheard, Outcome, Party
      <4>4. CASE closes /\ c = k /\ v = "ENDED"
        BY <1>0, <1>1, <1>2, <1>3, <2>0, <3>2, <4>4 DEF Ringing, Unheard, Outcome, Party
      <4> QED
        BY <1>1, <4>1, <4>2, <4>3, <4>4
    <3> QED
      BY <3>1, <3>2
  <2>3. Accepted(e, c)'
    <3>1. CASE e = d
      <4>1. CASE Coming(d, "accepted", c)'
        <5>1. /\ Coming(d, "accepted", c) /\ Due("accepted", c)'
              /\ Owing(c)'
          BY <1>2, <1>9, <4>1
        <5>2. /\ phase'[c] = "ACTIVE" \/ (phase'[c] = "ENDED" /\ c \in odd')
              /\ ~On(d, "active", c)' /\ ~Has(up'[d], "hangup", c)
          BY <5>1 DEF Owing
        <5>3. Party(Owner[d], c)'
          BY <1>1, <2>0, <3>1, <5>1 DEF Accepted, Party
        <5> QED
          BY <3>1, <5>2, <5>3 DEF Accepted
      <4>2. CASE ~Coming(d, "accepted", c)'
        BY <3>1, <4>2 DEF Accepted
      <4> QED
        BY <4>1, <4>2
    <3>2. CASE e # d
      <4>1. CASE ~(closes /\ c = k)
        BY <1>1, <1>2, <1>5, <2>0, <3>2, <4>1 DEF Accepted, Party, On
      <4>2. CASE closes /\ c = k /\ v = "CANCELLED"
        BY <1>0, <1>1, <1>2, <1>3, <2>0, <3>2, <4>2 DEF Accepted, Party, On
      <4>3. CASE closes /\ c = k /\ v = "DECLINED"
        BY <1>0, <1>1, <1>2, <1>3, <2>0, <3>2, <4>3 DEF Accepted, Party, On
      <4>4. CASE closes /\ c = k /\ v = "ENDED"
        BY <1>0, <1>1, <1>2, <1>3, <2>0, <3>2, <4>4 DEF Accepted, Party, On
      <4> QED
        BY <1>1, <4>1, <4>2, <4>3, <4>4
    <3> QED
      BY <3>1, <3>2
  <2>4. Ended(e, c)'
    <3>1. CASE e = d
      BY <1>1, <1>2, <2>0, <3>1 DEF Ended, Terminal
    <3>2. CASE e # d
      BY <1>1, <1>2, <2>0, <3>2 DEF Ended, Terminal
    <3> QED
      BY <3>1, <3>2
  <2>5. HangsUp(e, c)'
    <3>1. CASE e = d
      BY <1>1, <1>4, <1>5, <2>0, <3>1 DEF HangsUp
    <3>2. CASE e # d
      BY <1>1, <1>2, <2>0, <3>2 DEF HangsUp, Party
    <3> QED
      BY <3>1, <3>2
  <2>6. ShowsIncoming(e, c)'
    <3>1. CASE e = d
      BY <1>1, <1>4, <1>5, <2>0, <3>1 DEF ShowsIncoming, On, IDLE
    <3>2. CASE e # d
      <4>0. Refused(e) => Refused(e)'
        BY <1>1, <1>2, <3>2 DEF Refused
      <4>1. CASE ~(closes /\ c = k)
        BY <1>1, <1>2, <1>5, <4>0, <2>0, <3>2, <4>1 DEF ShowsIncoming, On, Party
      <4>2. CASE closes /\ c = k /\ v = "CANCELLED"
        BY <1>0, <1>1, <1>2, <1>3, <1>5, <4>0, <2>0, <3>2, <4>2 DEF ShowsIncoming, On, Party
      <4>3. CASE closes /\ c = k /\ v = "DECLINED"
        BY <1>0, <1>1, <1>2, <1>3, <1>5, <4>0, <2>0, <3>2, <4>3 DEF ShowsIncoming, On, Party
      <4>4. CASE closes /\ c = k /\ v = "ENDED"
        BY <1>0, <1>1, <1>2, <1>3, <1>5, <4>0, <2>0, <3>2, <4>4 DEF ShowsIncoming, On, Party
      <4> QED
        BY <1>1, <4>1, <4>2, <4>3, <4>4
    <3> QED
      BY <3>1, <3>2
  <2>7. ShowsOutgoing(e, c)'
    <3>1. CASE e = d
      BY <1>1, <1>4, <1>5, <2>0, <3>1 DEF ShowsOutgoing, On, IDLE
    <3>2. CASE e # d
      <4>1. CASE ~(closes /\ c = k)
        BY <1>1, <1>2, <1>5, <2>0, <3>2, <4>1 DEF ShowsOutgoing, On, Outcome, Party
      <4>2. CASE closes /\ c = k /\ v = "CANCELLED"
        <5>1. Placing(d, k) /\ OnePlacing(k)
          BY <1>1, <4>2, Facts DEF Placing
        <5>2. ~On(e, "outgoing", k)
          BY <3>2, <5>1 DEF OnePlacing, Placing
        <5> QED
          BY <1>2, <1>5, <3>2, <4>2, <5>2 DEF ShowsOutgoing, On
      <4>3. CASE closes /\ c = k /\ v = "DECLINED"
        BY <1>0, <1>1, <1>2, <1>3, <1>5, <2>0, <3>2, <4>3 DEF ShowsOutgoing, On, Outcome, Party
      <4>4. CASE closes /\ c = k /\ v = "ENDED"
        BY <1>0, <1>1, <1>2, <1>3, <1>5, <2>0, <3>2, <4>4 DEF ShowsOutgoing, On, Outcome, Party
      <4> QED
        BY <1>1, <4>1, <4>2, <4>3, <4>4
    <3> QED
      BY <3>1, <3>2
  <2>8. ShowsActive(e, c)'
    <3>1. CASE e = d
      BY <1>1, <1>4, <1>5, <2>0, <3>1 DEF ShowsActive, On, Party, IDLE
    <3>2. CASE e # d
      <4>1. CASE ~(closes /\ c = k)
        BY <1>1, <1>2, <1>5, <2>0, <3>2, <4>1 DEF ShowsActive, On, Party
      <4>2. CASE closes /\ c = k /\ v = "CANCELLED"
        BY <1>0, <1>1, <1>2, <1>3, <1>5, <2>0, <3>2, <4>2 DEF ShowsActive, On, Party
      <4>3. CASE closes /\ c = k /\ v = "DECLINED"
        BY <1>0, <1>1, <1>2, <1>3, <1>5, <2>0, <3>2, <4>3 DEF ShowsActive, On, Party
      <4>4. CASE closes /\ c = k /\ v = "ENDED"
        BY <1>0, <1>1, <1>2, <1>3, <1>5, <2>0, <3>2, <4>4 DEF ShowsActive, On, Party
      <4> QED
        BY <1>1, <4>1, <4>2, <4>3, <4>4
    <3> QED
      BY <3>1, <3>2
  <2>9. Awaits(e, c)'
    <3>1. CASE e = d
      BY <1>0, <1>1, <3>1 DEF Awaits
    <3>2. CASE e # d
      <4>1. /\ sock'[e] = sock[e] /\ ends' = ends
            /\ Waits(e, c) => Waits(e, c)'
            /\ phase'[c] = "RINGING" => phase[c] = "RINGING"
            /\ Due("accepted", c)' => Due("accepted", c)
        BY <1>1, <1>2, <3>2 DEF Waits, On
      <4> QED
        BY <1>1, <1>5, <2>0, <4>1 DEF Awaits
    <3> QED
      BY <3>1, <3>2
  <2> QED
    BY <2>1, <2>2, <2>3, <2>4, <2>5, <2>6, <2>7, <2>8, <2>9
<1>8. ASSUME NEW c \in Calls
      PROVE  OnePlacing(c)' /\ Home(c)' /\ Kept(c)' /\ Awaited(c)' /\ Owing(c)'
  <2>0. OnePlacing(c) /\ Home(c) /\ Kept(c) /\ Awaited(c) /\ Owing(c)
    BY Facts
  <2>1. OnePlacing(c)'
    <3>1. ASSUME NEW x \in Devices, Placing(x, c)' PROVE Placing(x, c)
      <4>1. CASE x = d
        BY <1>0, <1>1, <1>4, <3>1, <4>1 DEF Placing, On, IDLE
      <4>2. CASE x # d
        BY <1>0, <1>1, <1>2, <3>1, <4>2 DEF Placing, On
      <4> QED
        BY <4>1, <4>2
    <3> QED
      BY <2>0, <1>1, <3>1 DEF OnePlacing
  <2>2. Home(c)'
    BY <2>0, <1>1 DEF Home
  <2>3. Kept(c)'
    <3>1. ASSUME NEW x \in Devices, Keeps(x, c), phase'[c] = "ACTIVE", c \notin odd'
          PROVE  Keeps(x, c)'
      <4>1. CASE x = d
        BY <1>0, <1>4, <3>1, <4>1 DEF Keeps, On, IDLE
      <4>2. CASE x # d
        BY <1>1, <1>2, <3>1, <4>2 DEF Keeps, On
      <4> QED
        BY <4>1, <4>2
    <3>2. phase'[c] = "ACTIVE" => phase[c] = "ACTIVE"
      BY <1>1
    <3> QED
      BY <2>0, <1>1, <1>5, <3>1, <3>2 DEF Kept
  <2>4. Awaited(c)'
    <3>1. ASSUME NEW x \in Devices, Waits(x, c), phase'[c] = "RINGING", c \notin odd',
                 ends[c].caller = Owner[x]
          PROVE  Waits(x, c)'
      <4>1. CASE x = d
        BY <1>0, <1>4, <3>1, <4>1 DEF Waits, On, IDLE
      <4>2. CASE x # d
        BY <1>1, <1>2, <3>1, <4>2 DEF Waits, On
      <4> QED
        BY <4>1, <4>2
    <3>2. phase'[c] = "RINGING" => phase[c] = "RINGING"
      BY <1>1
    <3> QED
      BY <2>0, <1>1, <1>5, <3>1, <3>2 DEF Awaited
  <2>5. Owing(c)'
    BY <1>9
  <2> QED
    BY <2>1, <2>2, <2>3, <2>4, <2>5
<1> QED
  BY <1>1, <1>6, <1>7, <1>8, FromFacts

\* A step of the server that places no call keeps the types.
LEMMA ServerTyped ==
  ASSUME Typed, UNCHANGED <<ends, screen, odd>>, phase' \in Seq(Phases), Len(phase') = Len(phase),
         sock' \in [Devices -> 0 .. Len(phase)],
         up' \in [Devices -> Seq(UpMsg(Len(phase)))],
         down' \in [Devices -> Seq(DownMsg(Len(phase)))],
         due' \subseteq Announcements(Len(phase))
  PROVE  Typed' /\ Calls' = Calls
<1> QED
  BY DEF Typed, Calls

\* The phase of one call is changed.
LEMMA PhaseSet ==
  ASSUME Typed, NEW k \in Calls, NEW v \in Phases, phase' = [phase EXCEPT ![k] = v]
  PROVE  /\ phase' \in Seq(Phases) /\ Len(phase') = Len(phase)
         /\ \A c \in Calls : phase'[c] = IF c = k THEN v ELSE phase[c]
<1>1. phase \in Seq(Phases) /\ k \in 1 .. Len(phase)
  BY DEF Typed, Calls
<1> QED
  BY <1>1, ExceptSeq DEF Calls

\* Of a call that goes on no end is announced, of one that rings not even an answer.
LEMMA LiveSilent ==
  ASSUME ClientInv, NEW k \in Calls
  PROVE  /\ phase[k] \in {"RINGING", "ACTIVE"} =>
                ~Due("ended", k) /\ \A e \in Devices : ~Coming(e, "ended", k)
         /\ phase[k] = "RINGING" =>
                ~Due("accepted", k) /\ \A e \in Devices : ~Coming(e, "accepted", k)
<1>1. Owing(k) /\ \A e \in Devices : Ended(e, k) /\ Accepted(e, k)
  BY Facts
<1> QED
  BY <1>1 DEF Owing, Ended, Accepted, Terminal

\* What becomes of a call in progress is going to be announced, once.
LEMMA Owes ==
  ASSUME ClientInv, NEW k \in Calls, NEW type, NEW us, NEW own \in SUBSET Devices,
         \/ type = "ended" /\ own = {} /\ phase[k] \in {"RINGING", "ACTIVE"}
         \/ type = "accepted" /\ phase[k] = "RINGING",
         Owe(type, k, us, own), UNCHANGED <<down, odd>>
  PROVE  /\ due' \subseteq Announcements(Len(phase))
         /\ down' \in [Devices -> Seq(DownMsg(Len(phase)))]
         /\ Tells({e \in Devices : Owner[e] \in us} \cup own, type, k)
         /\ MoreDues(type, k) /\ Orderly'
<1> DEFINE R == {e \in Devices : Owner[e] \in us}
           a == [type |-> type, call |-> k, room |-> R, own |-> own]
<1>1. UNION {RoomOf(u) : u \in us} = R
  BY DEF RoomOf
<1>2. due' = due \cup {a}
  BY <1>1 DEF Owe
<1>3. /\ Typed /\ Orderly /\ ~Due(type, k) /\ \A e \in Devices : ~Coming(e, type, k)
      /\ k \in 1 .. Len(phase) /\ type \in {"accepted", "ended"}
      /\ type = "ended" => own = {}
  BY LiveSilent, Facts DEF Calls
<1>4. /\ a.type = type /\ a.call = k /\ a.room = R /\ a.own = own
      /\ a \in Announcements(Len(phase))
  BY <1>3 DEF Announcements
<1> HIDE DEF a
<1>5. due' \subseteq Announcements(Len(phase)) /\ down' \in [Devices -> Seq(DownMsg(Len(phase)))]
  BY <1>2, <1>3, <1>4 DEF Typed
<1>6. MoreDues(type, k)
  BY <1>2, <1>4 DEF MoreDues, Due
<1>7. Tells(R \cup own, type, k)
  <2> HIDE DEF R
  <2>1. \A e \in Devices : \A t, x : Owed(e, t, x)' <=>
            Owed(e, t, x) \/ (e \in R \cup own /\ t = type /\ x = k)
    BY <1>2, <1>4 DEF Owed
  <2>2. down' = down
    OBVIOUS
  <2> QED
    BY <2>1, <2>2 DEF Tells, Coming
<1>8. Orderly'
  <2>1. \A e \in Devices : Ranked(down'[e], odd')
    BY <1>3 DEF Orderly
  <2>2. ASSUME NEW b \in due'
        PROVE  /\ b.type = "ended" => b.own = {}
               /\ \A e \in Devices : ~Has(down'[e], b.type, b.call)
               /\ \A c \in due' : c.type = b.type /\ c.call = b.call => b = c
    <3>1. CASE b = a
      <4>1. b.type = "ended" => b.own = {}
        BY <1>3, <1>4, <3>1
      <4>2. \A e \in Devices : ~Has(down'[e], b.type, b.call)
        BY <1>3, <1>4, <3>1 DEF Coming
      <4>3. \A c \in due' : c.type = b.type /\ c.call = b.call => b = c
        BY <1>2, <1>3, <1>4, <3>1 DEF Due
      <4> QED
        BY <4>1, <4>2, <4>3
    <3>2. CASE b # a
      <4>1. b \in due
        BY <1>2, <3>2
      <4>2. \A c \in due' : c.type = b.type /\ c.call = b.call => c \in due
        BY <1>2, <1>3, <1>4, <4>1 DEF Due
      <4> QED
        BY <1>3, <4>1, <4>2 DEF Orderly
    <3> QED
      BY <3>1, <3>2
  <2> QED
    BY <2>1, <2>2 DEF Orderly
<1> QED
  BY <1>5, <1>6, <1>7, <1>8

\* Nothing else is announced twice, or again.
LEMMA StillOrderly ==
  ASSUME Typed, Orderly, UNCHANGED <<due, odd>>, \A e \in Devices : Ranked(down'[e], odd),
         \A e \in Devices : \A x :
             /\ Has(down'[e], "accepted", x) => Has(down[e], "accepted", x)
             /\ Has(down'[e], "ended", x) => Has(down[e], "ended", x)
  PROVE  Orderly' /\ SameDues
<1>1. \A a \in due : a.type \in {"accepted", "ended"}
  BY DEF Typed, Announcements
<1>2. SameDues
  BY DEF SameDues, Due
<1>3. \A a \in due : \A e \in Devices : ~Has(down'[e], a.type, a.call)
  <2> SUFFICES ASSUME NEW a \in due, NEW e \in Devices PROVE ~Has(down'[e], a.type, a.call)
    OBVIOUS
  <2>1. ~Has(down[e], a.type, a.call)
    BY DEF Orderly
  <2>2. /\ Has(down'[e], "accepted", a.call) => Has(down[e], "accepted", a.call)
        /\ Has(down'[e], "ended", a.call) => Has(down[e], "ended", a.call)
    OBVIOUS
  <2>3. a.type = "accepted" \/ a.type = "ended"
    BY <1>1
  <2> QED
    BY <2>1, <2>2, <2>3
<1>4. due' = due /\ odd' = odd
  OBVIOUS
<1> QED
  BY <1>2, <1>3, <1>4 DEF Orderly

\* A refusal is told in any order.
LEMMA ToldFailed ==
  ASSUME ClientInv, NEW d \in Devices, NEW x \in 0 .. Len(phase), Tell(To({d}, "failed", x)),
         UNCHANGED <<due, odd>>
  PROVE  /\ down' \in [Devices -> Seq(DownMsg(Len(phase)))]
         /\ Tells({d}, "failed", x) /\ SameDues /\ Orderly'
<1>1. /\ Len(phase) \in Nat /\ down \in [Devices -> Seq(DownMsg(Len(phase)))]
      /\ Typed /\ Orderly /\ \A e \in Devices : Ranked(down[e], odd)
      /\ [type |-> "failed", call |-> x] \in DownMsg(Len(phase))
  BY Facts DEF Typed, DownMsg, Events, Orderly
<1>2. /\ down' \in [Devices -> Seq(DownMsg(Len(phase)))]
      /\ \A e \in Devices : Ranked(down'[e], odd)
      /\ Gets({d}, "failed", x)
  BY <1>1, TellsTo
<1>3. Tells({d}, "failed", x)
  BY <1>2 DEF Gets, Tells, Coming, Owed
<1>4. \A e \in Devices : \A y :
          /\ Has(down'[e], "accepted", y) => Has(down[e], "accepted", y)
          /\ Has(down'[e], "ended", y) => Has(down[e], "ended", y)
  BY <1>2 DEF Gets
<1> QED
  BY <1>1, <1>2, <1>3, <1>4, StillOrderly

\* Device d is refused: the server keeps its state.
LEMMA RefusedServe ==
  ASSUME ClientInv, NEW d \in Devices, NEW k, NEW type \in {"invite", "add", "accept"},
         Takes(d, type, k), up' \in [Devices -> Seq(UpMsg(Len(phase)))],
         UNCHANGED <<server, screen, odd>>, NEW x \in 0 .. Len(phase),
         Tell(To({d}, "failed", x))
  PROVE  ClientInv'
<1>1. /\ down' \in [Devices -> Seq(DownMsg(Len(phase)))]
      /\ Tells({d}, "failed", x) /\ SameDues /\ Orderly'
  BY ToldFailed DEF server
<1>2. /\ UNCHANGED <<phase, ends, sock, due, screen, odd>> /\ x \in Calls \cup {0}
      /\ Typed /\ phase \in Seq(Phases) /\ sock \in [Devices -> 0 .. Len(phase)]
  <2>1. Typed
    BY Facts
  <2> QED
    BY <2>1 DEF server, Calls, Typed
<1>3. Typed'
  <2>1. due' \subseteq Announcements(Len(phase))
    BY <1>2 DEF Typed
  <2> QED
    BY <1>1, <1>2, <2>1, ServerTyped
<1> QED
  BY <1>1, <1>2, <1>3, RefuseKeeps

\* One compare-and-set.
LEMMA SettleServe ==
  ASSUME ClientInv, NEW d \in Devices, NEW k \in Calls, NEW type, NEW from, NEW v,
         Takes(d, type, k), up' \in [Devices -> Seq(UpMsg(Len(phase)))],
         UNCHANGED <<ends, screen, down, odd>>, Settle(k, Owner[d], from, v),
         sock' \in {sock, [sock EXCEPT ![d] = 0]}, type = "cancel" => sock'[d] = 0,
         \/ type = "decline" /\ from = "RINGING" /\ v = "DECLINED" /\ ends[k].callee = Owner[d]
         \/ type = "cancel" /\ from = "RINGING" /\ v = "CANCELLED" /\ ends[k].caller = Owner[d]
         \/ type = "hangup" /\ from = "ACTIVE" /\ v = "ENDED" /\ Party(Owner[d], k)
  PROVE  ClientInv'
<1>1. /\ Typed /\ phase \in Seq(Phases) /\ sock' \in [Devices -> 0 .. Len(phase)]
      /\ \A e \in Devices : sock'[e] \in {0, sock[e]}
      /\ down \in [Devices -> Seq(DownMsg(Len(phase)))]
  <2>1. Typed
    BY Facts
  <2>2. sock \in [Devices -> 0 .. Len(phase)] /\ 0 \in 0 .. Len(phase)
    BY <2>1 DEF Typed
  <2>3. sock' \in [Devices -> 0 .. Len(phase)] /\ \A e \in Devices : sock'[e] \in {0, sock[e]}
    BY <2>2
  <2> QED
    BY <2>1, <2>3 DEF Typed
<1>2. CASE phase[k] = from
  <2>1. phase' = [phase EXCEPT ![k] = v] /\ Owe("ended", k, {Other(Owner[d], k)}, {})
    BY <1>2 DEF Settle
  <2>2. v \in Phases /\ phase[k] \in {"RINGING", "ACTIVE"}
    BY <1>2 DEF Phases
  <2>3. /\ due' \subseteq Announcements(Len(phase))
        /\ down' \in [Devices -> Seq(DownMsg(Len(phase)))]
        /\ Tells(RoomOf(Other(Owner[d], k)), "ended", k) /\ MoreDues("ended", k) /\ Orderly'
    <3>1. {e \in Devices : Owner[e] \in {Other(Owner[d], k)}} \cup {} = RoomOf(Other(Owner[d], k))
      BY DEF RoomOf
    <3>2. {} \in SUBSET Devices /\ UNCHANGED <<down, odd>>
      OBVIOUS
    <3>3. /\ due' \subseteq Announcements(Len(phase))
          /\ down' \in [Devices -> Seq(DownMsg(Len(phase)))]
          /\ Tells({e \in Devices : Owner[e] \in {Other(Owner[d], k)}} \cup {}, "ended", k)
          /\ MoreDues("ended", k) /\ Orderly'
      BY <2>1, <2>2, <3>2, Owes
    <3> QED
      BY <3>1, <3>3
  <2>4. /\ phase' \in Seq(Phases) /\ Len(phase') = Len(phase)
        /\ \A c \in Calls : phase'[c] = IF c = k THEN v ELSE phase[c]
    BY <1>1, <2>1, <2>2, PhaseSet
  <2>5. Typed' /\ Calls' = Calls
    BY <1>1, <2>3, <2>4, ServerTyped
  <2> QED
    BY <1>1, <1>2, <2>3, <2>4, <2>5, SettleKeeps
<1>3. CASE phase[k] # from
  <2>1. UNCHANGED <<phase, due>>
    BY <1>3 DEF Settle
  <2>2. Typed'
    <3>1. due' \subseteq Announcements(Len(phase))
      BY <1>1, <2>1 DEF Typed
    <3> QED
      BY <1>1, <2>1, <3>1, ServerTyped
  <2> QED
    BY <1>1, <1>3, <2>1, <2>2, LateWord
<1> QED
  BY <1>2, <1>3

\* The server lets the callee answer a call that rings.
LEMMA AnswerServe ==
  ASSUME ClientInv, NEW d \in Devices, NEW m, m.call \in Calls, Takes(d, "accept", m.call),
         up' \in [Devices -> Seq(UpMsg(Len(phase)))],
         UNCHANGED <<screen, odd>>, OnAccept(d, m),
         phase[m.call] = "RINGING", ends[m.call].callee = Owner[d]
  PROVE  ClientInv'
<1> DEFINE k == m.call
<1>1. Typed /\ "ACTIVE" \in Phases
  BY Facts DEF Phases
<1>2. /\ phase' = [phase EXCEPT ![k] = "ACTIVE"] /\ UNCHANGED <<ends, sock, down>>
      /\ Owe("accepted", k, {ends[k].caller}, {d})
  BY DEF OnAccept
<1> HIDE DEF k
<1>3. k \in Calls /\ phase[k] = "RINGING" /\ ends[k].callee = Owner[d] /\ Takes(d, "accept", k)
  BY DEF k
<1>4. /\ due' \subseteq Announcements(Len(phase))
      /\ down' \in [Devices -> Seq(DownMsg(Len(phase)))]
      /\ Tells({d} \cup RoomOf(ends[k].caller), "accepted", k) /\ MoreDues("accepted", k)
      /\ Orderly'
  <2>1. {e \in Devices : Owner[e] \in {ends[k].caller}} \cup {d} = {d} \cup RoomOf(ends[k].caller)
    BY DEF RoomOf
  <2>2. {d} \in SUBSET Devices /\ UNCHANGED <<down, odd>>
    BY <1>2
  <2>3. /\ due' \subseteq Announcements(Len(phase))
        /\ down' \in [Devices -> Seq(DownMsg(Len(phase)))]
        /\ Tells({e \in Devices : Owner[e] \in {ends[k].caller}} \cup {d}, "accepted", k)
        /\ MoreDues("accepted", k) /\ Orderly'
    BY <1>2, <1>3, <2>2, Owes
  <2> QED
    BY <2>1, <2>3
<1>5. /\ phase' \in Seq(Phases) /\ Len(phase') = Len(phase)
      /\ \A c \in Calls : phase'[c] = IF c = k THEN "ACTIVE" ELSE phase[c]
  BY <1>1, <1>2, <1>3, PhaseSet
<1>6. sock' \in [Devices -> 0 .. Len(phase)]
  BY <1>1, <1>2 DEF Typed
<1>7. Typed' /\ Calls' = Calls
  BY <1>1, <1>2, <1>4, <1>5, <1>6, ServerTyped
<1> QED
  BY <1>2, <1>3, <1>4, <1>5, <1>6, <1>7, AnswerKeeps

\* A new call.
LEMMA PlaceServe ==
  ASSUME ClientInv, NEW d \in Devices, NEW u \in Users, NEW direct \in BOOLEAN, NEW x,
         Takes(d, IF direct THEN "invite" ELSE "add", x),
         up' \in [Devices -> Seq(UpMsg(Len(phase)))],
         UNCHANGED <<screen, odd>>, Ring(d, u, direct), ~UNCHANGED server
  PROVE  ClientInv'
<1> DEFINE n == Len(phase)
           k == n + 1
           inc == [type |-> "incoming", call |-> k]
           rng == [type |-> "ringing", call |-> k]
           who == {e \in Devices : Owner[e] = u \/ (e = d /\ direct)}
           ev == [e \in Devices |-> IF Owner[e] = u THEN inc ELSE rng]
<1>1. /\ Typed /\ n \in Nat /\ k \in Nat \ {0} /\ Owner[d] \in Users
      /\ n <= k /\ 0 .. n \subseteq 0 .. k
  BY Facts, ClientAssumption DEF Typed
<1>2. /\ u # Owner[d]
      /\ phase' = Append(phase, "RINGING")
      /\ ends' = Append(ends, [caller |-> Owner[d], callee |-> u, added |-> ~direct])
      /\ sock' = IF direct THEN [sock EXCEPT ![d] = k] ELSE sock
      /\ down' = [e \in Devices |->
             IF Owner[e] = u THEN Append(down[e], inc)
             ELSE IF e = d /\ direct THEN Append(down[e], rng)
             ELSE down[e]]
  BY DEF Ring
<1>3. /\ phase' \in Seq(Phases) /\ Len(phase') = k /\ phase'[k] = "RINGING"
      /\ \A c \in 1 .. n : phase'[c] = phase[c]
  <2>1. phase \in Seq(Phases) /\ "RINGING" \in Phases
    BY <1>1 DEF Typed, Phases
  <2> QED
    BY <1>1, <1>2, <2>1
<1>4. /\ ends' \in Seq([caller : Users, callee : Users, added : BOOLEAN]) /\ Len(ends') = k
      /\ ends'[k].caller = Owner[d] /\ ends'[k].callee = u /\ ends'[k].added = ~direct
      /\ \A c \in 1 .. n : ends'[c] = ends[c]
  <2> DEFINE S == [caller : Users, callee : Users, added : BOOLEAN]
             r == [caller |-> Owner[d], callee |-> u, added |-> ~direct]
  <2>1. /\ ends \in Seq(S) /\ r \in S /\ Len(ends) = n
        /\ r.caller = Owner[d] /\ r.callee = u /\ r.added = ~direct
    BY <1>1 DEF Typed
  <2> HIDE DEF S, r
  <2>2. ends' = Append(ends, r)
    BY <1>2 DEF r
  <2>3. ends' \in Seq(S) /\ Len(ends') = k /\ ends'[k] = r /\ \A c \in 1 .. n : ends'[c] = ends[c]
    BY <1>1, <2>1, <2>2
  <2> QED
    BY <2>1, <2>3 DEF S
<1>5. /\ sock' \in [Devices -> 0 .. k]
      /\ \A e \in Devices : sock'[e] = IF e = d /\ direct THEN k ELSE sock[e]
  <2>1. sock \in [Devices -> 0 .. n]
    BY <1>1 DEF Typed
  <2>2. sock \in [Devices -> 0 .. k] /\ k \in 0 .. k
    BY <1>1, <2>1
  <2> QED
    BY <1>2, <2>2
<1>17. due' = due /\ due \subseteq Announcements(k)
  BY <1>1 DEF Ring, server, Typed, Announcements
<1>6. /\ screen' \in [Devices -> [status : {"idle", "outgoing", "incoming", "active"},
                                 call : 0 .. k, peer : BOOLEAN]]
      /\ up' \in [Devices -> Seq(UpMsg(k))] /\ odd' \subseteq 0 .. k
      /\ down \in [Devices -> Seq(DownMsg(k))]
  <2>1. /\ screen' \in [Devices -> [status : {"idle", "outgoing", "incoming", "active"},
                                   call : 0 .. k, peer : BOOLEAN]]
        /\ odd' \subseteq 0 .. k
    BY <1>1 DEF Typed
  <2>2. /\ \A q \in Seq(UpMsg(n)) : q \in Seq(UpMsg(k))
        /\ \A q \in Seq(DownMsg(n)) : q \in Seq(DownMsg(k))
    BY <1>1, QueuesGrow
  <2>3. up' \in [Devices -> Seq(UpMsg(n))] /\ down \in [Devices -> Seq(DownMsg(n))]
    BY <1>1 DEF Typed
  <2> QED
    BY <2>1, <2>2, <2>3
<1>7. /\ Calls' = Calls \cup {k} /\ Calls = 1 .. n
  BY <1>1, <1>3 DEF Calls
<1>8. /\ k \notin Calls
      /\ \A e \in Devices : \A t : ~Has(down[e], t, k)
      /\ Orderly /\ \A e \in Devices : Ranked(down[e], odd)
  BY Fresh, Facts DEF Orderly
<1>9. /\ inc \in DownMsg(k) /\ inc.type = "incoming" /\ inc.call = k
      /\ rng \in DownMsg(k) /\ rng.type = "ringing" /\ rng.call = k
  BY <1>1 DEF DownMsg, Events
<1> HIDE DEF inc, rng
<1>10. /\ down' = [e \in Devices |-> down'[e]]
       /\ \A e \in Devices : down'[e] = IF e \in who THEN Append(down[e], ev[e]) ELSE down[e]
  BY <1>2
<1>11. \A e \in Devices : (e \in who <=> Owner[e] = u \/ (e = d /\ direct))
                          /\ ev[e] = IF Owner[e] = u THEN inc ELSE rng
  OBVIOUS
<1> HIDE DEF who, ev, k, n
<1>12. \A e \in Devices : e \in who =>
           /\ ev[e] \in DownMsg(k)
           /\ ev[e].type = "failed" \/ \A t \in Events \ {"failed"} :
                  Has(down[e], t, ev[e].call) => Later(t, ev[e].type, ev[e].call, odd)
  BY <1>8, <1>9, <1>11
<1>13. /\ down' \in [Devices -> Seq(DownMsg(k))]
       /\ \A e \in Devices : Ranked(down'[e], odd)
       /\ \A e \in Devices : \A t, y :
              Has(down'[e], t, y) <=> Has(down[e], t, y)
                  \/ (e \in who /\ t = ev[e].type /\ y = ev[e].call)
  <2>1. k \in Nat
    BY <1>1
  <2>2. down \in [Devices -> Seq(DownMsg(k))]
    BY <1>6
  <2>3. \A e \in Devices : Ranked(down[e], odd)
    BY <1>8
  <2> QED
    BY <1>10, <1>12, <2>1, <2>2, <2>3, TellsEach
<1>14. Rings(d, u, k, direct)
  <2> SUFFICES ASSUME NEW e \in Devices, NEW t, NEW y
               PROVE  Has(down'[e], t, y) <=>
                      Has(down[e], t, y) \/ (y = k /\ \/ t = "incoming" /\ Owner[e] = u
                                                      \/ t = "ringing" /\ e = d /\ direct)
    BY <1>17 DEF Rings, Coming, Owed
  <2>1. (e \in who /\ t = ev[e].type /\ y = ev[e].call) <=>
        (y = k /\ \/ t = "incoming" /\ Owner[e] = u
                  \/ t = "ringing" /\ e = d /\ direct)
    <3>1. CASE Owner[e] = u
      BY <1>2, <1>9, <1>11, <3>1
    <3>2. CASE Owner[e] # u
      BY <1>9, <1>11, <3>2
    <3> QED
      BY <3>1, <3>2
  <2>2. Has(down'[e], t, y) <=> Has(down[e], t, y)
            \/ (e \in who /\ t = ev[e].type /\ y = ev[e].call)
    BY <1>13
  <2> QED
    BY <2>1, <2>2
<1>15. \A c \in Calls' : ends'[c].caller # ends'[c].callee
  BY <1>1, <1>2, <1>4, <1>7 DEF Typed
<1>16. Typed'
  BY <1>3, <1>4, <1>5, <1>6, <1>13, <1>15, <1>17 DEF Typed
<1>18. Orderly' /\ SameDues
  <2>1. \A e \in Devices : \A y :
            /\ Has(down'[e], "accepted", y) => Has(down[e], "accepted", y)
            /\ Has(down'[e], "ended", y) => Has(down[e], "ended", y)
    <3>1. \A e \in Devices : ev[e].type \in {"incoming", "ringing"}
      BY <1>9, <1>11
    <3>2. \A e \in Devices : \A t, y :
              Has(down'[e], t, y) => Has(down[e], t, y) \/ t = ev[e].type
      BY <1>13
    <3> QED
      BY <3>1, <3>2
  <2> QED
    BY <1>1, <1>8, <1>13, <1>17, <2>1, StillOrderly
<1> QED
  <2>1. k = Len(phase) + 1
    BY DEF k, n
  <2>2. \A c \in Calls : phase'[c] = phase[c] /\ ends'[c] = ends[c]
    BY <1>3, <1>4, <1>7
  <2>3. Orderly' /\ SameDues
    BY <1>18
  <2>4. /\ u # Owner[d] /\ phase'[k] = "RINGING" /\ ends'[k].caller = Owner[d]
        /\ ends'[k].callee = u /\ Calls' = Calls \cup {k}
    BY <1>2, <1>3, <1>4, <1>7
  <2>5. ends'[k].added = ~direct
    BY <1>4
  <2>6. \A e \in Devices : sock'[e] = IF e = d /\ direct THEN k ELSE sock[e]
    BY <1>5
  <2>7. Places(d, u, k, x, direct)
    BY <1>14, <2>1, <2>2, <2>3, <2>4, <2>5, <2>6 DEF Places
  <2> QED
    BY <1>16, <2>7, RingKeeps

\* Serving a request keeps the invariant, whichever it is.
LEMMA ServeKeeps ==
  ASSUME ClientInv, NEW d \in Devices, Serve(d)
  PROVE  ClientInv'
<1> DEFINE m == Head(up[d])
           n == Len(phase)
<1>0. Typed /\ n \in Nat /\ Calls = 1 .. n
  <2>1. Typed
    BY Facts
  <2> QED
    BY <2>1 DEF Typed, Calls
<1>1. /\ up[d] # <<>> /\ up' = [up EXCEPT ![d] = Tail(@)] /\ UNCHANGED <<screen, odd>>
      /\ \/ m.type = "invite"  /\ OnInvite(d, m)
         \/ m.type = "add"     /\ OnAdd(d, m)
         \/ m.type = "accept"  /\ OnAccept(d, m)
         \/ m.type = "decline" /\ OnDecline(d, m)
         \/ m.type = "cancel"  /\ OnCancel(d, m)
         \/ m.type = "hangup"  /\ OnHangup(d, m)
  BY DEF Serve
<1>2. m \in UpMsg(n) /\ up' \in [Devices -> Seq(UpMsg(n))] /\ Takes(d, m.type, m.call)
  BY <1>0, <1>1, TakesTail DEF Typed
<1> HIDE DEF m
<1>3. /\ m.to \in Users /\ m.call \in 0 .. n /\ 0 \in 0 .. n
      /\ m.type # "invite" => m.call \in Calls
  BY <1>0, <1>2 DEF UpMsg
<1>4. ASSUME m.type \in {"invite", "add", "accept"}, UNCHANGED server,
             NEW x \in 0 .. n, Tell(To({d}, "failed", x))
      PROVE  ClientInv'
  BY <1>1, <1>2, <1>4, RefusedServe
<1>5. CASE m.type = "invite" /\ OnInvite(d, m)
  <2>1. Ring(d, m.to, TRUE)
    BY <1>5 DEF OnInvite
  <2>2. CASE UNCHANGED server
    <3>1. phase' # Append(phase, "RINGING")
      BY <1>0, <2>2 DEF server, Typed
    <3>2. Tell(To({d}, "failed", 0))
      BY <2>1, <3>1 DEF Ring
    <3> QED
      BY <1>3, <1>4, <1>5, <2>2, <3>2
  <2>3. CASE ~UNCHANGED server
    <3>1. Takes(d, IF TRUE THEN "invite" ELSE "add", m.call)
      BY <1>2, <1>5
    <3> QED
      BY <1>1, <1>2, <1>3, <2>1, <2>3, <3>1, PlaceServe
  <2> QED
    BY <2>2, <2>3
<1>6. CASE m.type = "add" /\ OnAdd(d, m)
  <2>1. \/ Ring(d, m.to, FALSE)
        \/ Tell(To({d}, "failed", 0)) /\ UNCHANGED server
    BY <1>6 DEF OnAdd
  <2>2. CASE UNCHANGED server
    <3>1. phase' # Append(phase, "RINGING")
      BY <1>0, <2>2 DEF server, Typed
    <3>2. Tell(To({d}, "failed", 0))
      BY <2>1, <3>1 DEF Ring
    <3> QED
      BY <1>3, <1>4, <1>6, <2>2, <3>2
  <2>3. CASE ~UNCHANGED server
    <3>1. Takes(d, IF FALSE THEN "invite" ELSE "add", m.call)
      BY <1>2, <1>6
    <3> QED
      BY <1>1, <1>2, <1>3, <2>1, <2>3, <3>1, PlaceServe
  <2> QED
    BY <2>2, <2>3
<1>7. CASE m.type = "accept" /\ OnAccept(d, m)
  <2>1. CASE phase[m.call] = "RINGING" /\ ends[m.call].callee = Owner[d]
    BY <1>1, <1>2, <1>3, <1>7, <2>1, AnswerServe
  <2>2. CASE ~(phase[m.call] = "RINGING" /\ ends[m.call].callee = Owner[d])
    <3>1. Tell(To({d}, "failed", m.call)) /\ UNCHANGED server
      BY <1>7, <2>2 DEF OnAccept
    <3> QED
      BY <1>3, <1>4, <1>7, <3>1
  <2> QED
    BY <2>1, <2>2
<1>8. ASSUME m.type \in {"decline", "cancel", "hangup"},
             UNCHANGED <<phase, ends, down, due>>, sock' \in {sock, [sock EXCEPT ![d] = 0]},
             m.type = "cancel" => phase[m.call] # "RINGING" /\ sock'[d] = 0,
             m.type = "hangup" => phase[m.call] # "ACTIVE"
      PROVE  ClientInv'
  <2>1. /\ sock' \in [Devices -> 0 .. n] /\ \A e \in Devices : sock'[e] \in {0, sock[e]}
        /\ phase \in Seq(Phases) /\ down \in [Devices -> Seq(DownMsg(n))]
        /\ due' \subseteq Announcements(n)
    <3>1. sock \in [Devices -> 0 .. n]
      BY <1>0 DEF Typed
    <3> QED
      BY <1>0, <1>3, <1>8, <3>1 DEF Typed
  <2>2. Typed'
    BY <1>0, <1>1, <1>2, <1>8, <2>1, ServerTyped
  <2> QED
    BY <1>1, <1>2, <1>3, <1>8, <2>1, <2>2, LateWord
<1>9. CASE m.type = "decline" /\ OnDecline(d, m)
  <2>1. UNCHANGED <<ends, sock, down>>
    BY <1>9 DEF OnDecline
  <2>2. CASE ends[m.call].callee = Owner[d]
    <3>1. Settle(m.call, Owner[d], "RINGING", "DECLINED")
      BY <1>9, <2>2 DEF OnDecline
    <3> QED
      BY <1>1, <1>2, <1>3, <1>9, <2>1, <2>2, <3>1, SettleServe
  <2>3. CASE ends[m.call].callee # Owner[d]
    <3>1. UNCHANGED <<phase, due>>
      BY <1>9, <2>3 DEF OnDecline
    <3> QED
      BY <1>8, <1>9, <2>1, <3>1
  <2> QED
    BY <2>2, <2>3
<1>10. CASE m.type = "cancel" /\ OnCancel(d, m)
  <2>1. UNCHANGED <<ends, down>> /\ sock' = [sock EXCEPT ![d] = 0] /\ sock'[d] = 0
    BY <1>0, <1>10 DEF OnCancel, Typed
  <2>2. ends[m.call].caller = Owner[d]
    <3>1. Placing(d, m.call) /\ OnePlacing(m.call)
      BY <1>2, <1>3, <1>10, Facts DEF Takes, Placing
    <3> QED
      BY <3>1 DEF OnePlacing
  <2>3. Settle(m.call, Owner[d], "RINGING", "CANCELLED")
    BY <1>10, <2>2 DEF OnCancel
  <2> QED
    BY <1>1, <1>2, <1>3, <1>10, <2>1, <2>2, <2>3, SettleServe
<1>11. CASE m.type = "hangup" /\ OnHangup(d, m)
  <2>1. UNCHANGED <<ends, down>> /\ sock' = [sock EXCEPT ![d] = 0]
    BY <1>11 DEF OnHangup
  <2>2. Party(Owner[d], m.call)
    <3>1. Has(up[d], "hangup", m.call) /\ HangsUp(d, m.call)
      BY <1>2, <1>3, <1>11, Facts DEF Takes
    <3> QED
      BY <3>1 DEF HangsUp
  <2>3. Settle(m.call, Owner[d], "ACTIVE", "ENDED")
    BY <1>11, <2>2 DEF OnHangup
  <2> QED
    BY <1>1, <1>2, <1>3, <1>11, <2>1, <2>2, <2>3, SettleServe
<1> QED
  BY <1>1, <1>5, <1>6, <1>7, <1>9, <1>10, <1>11

\* The ring timeout keeps the invariant.
LEMMA TimeoutKeeps ==
  ASSUME ClientInv, NEW k \in Calls, RingTimeout(k)
  PROVE  ClientInv'
<1> DEFINE who == {d \in Devices : Party(Owner[d], k)}
<1>1. /\ Typed /\ phase[k] = "RINGING" /\ phase' = [phase EXCEPT ![k] = "MISSED"]
      /\ Owe("ended", k, {ends[k].caller, ends[k].callee}, {})
      /\ UNCHANGED <<ends, sock, screen, up, down, odd>>
  BY Facts DEF RingTimeout
<1>2. /\ due' \subseteq Announcements(Len(phase))
      /\ down' \in [Devices -> Seq(DownMsg(Len(phase)))]
      /\ Tells(who, "ended", k) /\ MoreDues("ended", k) /\ Orderly'
  <2>1. {e \in Devices : Owner[e] \in {ends[k].caller, ends[k].callee}} \cup {} = who
    BY DEF Party
  <2>2. {} \in SUBSET Devices /\ UNCHANGED <<down, odd>>
    BY <1>1
  <2>3. /\ due' \subseteq Announcements(Len(phase))
        /\ down' \in [Devices -> Seq(DownMsg(Len(phase)))]
        /\ Tells({e \in Devices : Owner[e] \in {ends[k].caller, ends[k].callee}} \cup {},
                 "ended", k)
        /\ MoreDues("ended", k) /\ Orderly'
    BY <1>1, <2>2, Owes
  <2> HIDE DEF who
  <2> QED
    BY <2>1, <2>3
<1> HIDE DEF who
<1>3. /\ phase' \in Seq(Phases) /\ Len(phase') = Len(phase)
      /\ \A c \in Calls : phase'[c] = IF c = k THEN "MISSED" ELSE phase[c]
  BY <1>1, PhaseSet DEF Phases
<1>4. sock \in [Devices -> 0 .. Len(phase)] /\ up \in [Devices -> Seq(UpMsg(Len(phase)))]
  BY <1>1 DEF Typed
<1>5. Typed' /\ Calls' = Calls
  BY <1>1, <1>2, <1>3, <1>4, ServerTyped
<1> QED
  BY <1>1, <1>2, <1>3, <1>5, RingTimeoutKeeps DEF who

\* The handler that has done (type) to call k comes to tell the devices.
Announces(type, k, own) ==
    /\ UNCHANGED <<phase, ends, screen, up, odd>> /\ Due(type, k)
    /\ \A e \in Devices : sock'[e] = IF e \in own THEN k ELSE sock[e]
    /\ own = {} \/ (type = "accepted" /\ \A e \in own : Coming(e, "accepted", k))
    /\ \A e \in Devices : \A t, x : Coming(e, t, x)' <=> Coming(e, t, x)
    /\ \A t, x : Due(t, x)' <=> Due(t, x) /\ ~(t = type /\ x = k)

\* An announcement keeps the invariant.
LEMMA AnnounceKeeps ==
  ASSUME ClientInv, NEW type, NEW k \in Calls, NEW own \in SUBSET Devices,
         Announces(type, k, own), Typed', Orderly'
  PROVE  ClientInv'
<1>0. \A c \in Calls : c # 0 /\ ends[c].caller # ends[c].callee
  BY CallsApart
<1>1. /\ phase' = phase /\ ends' = ends /\ screen' = screen /\ up' = up /\ odd' = odd
      /\ Calls' = Calls
      /\ \A e \in Devices : sock'[e] = IF e \in own THEN k ELSE sock[e]
      /\ \A e \in Devices : \A t, x : Coming(e, t, x)' <=> Coming(e, t, x)
      /\ \A t, x : Due(t, x)' => Due(t, x)
  BY DEF Announces, Calls
<1>2. \A e \in own : e \in Devices /\ Coming(e, "accepted", k) /\ phase[k] \in {"ACTIVE", "ENDED"}
                     /\ Party(Owner[e], k) /\ ~Due("accepted", k)'
  BY Facts DEF Announces, Accepted
<1>3. ASSUME NEW e \in Devices PROVE Named(e)' /\ ShowsUnnumbered(e)' /\ Socket(e)'
  <2>0. Named(e) /\ ShowsUnnumbered(e) /\ Socket(e)
    BY Facts
  <2>1. Named(e)' /\ ShowsUnnumbered(e)'
    BY <1>1, <2>0 DEF Named, ShowsUnnumbered, On, Refused
  <2>2. Socket(e)'
    BY <1>1, <1>2, <2>0 DEF Socket, Party
  <2> QED
    BY <2>1, <2>2
<1>4. ASSUME NEW e \in Devices, NEW c \in Calls
      PROVE  /\ Incoming(e, c)' /\ Ringing(e, c)' /\ Accepted(e, c)' /\ Ended(e, c)'
             /\ HangsUp(e, c)'
             /\ ShowsIncoming(e, c)' /\ ShowsOutgoing(e, c)' /\ ShowsActive(e, c)'
             /\ Awaits(e, c)'
  <2>0. /\ Incoming(e, c) /\ Ringing(e, c) /\ Accepted(e, c) /\ Ended(e, c) /\ HangsUp(e, c)
        /\ ShowsIncoming(e, c) /\ ShowsOutgoing(e, c) /\ ShowsActive(e, c) /\ Awaits(e, c)
    BY Facts
  <2>1. Incoming(e, c)'
    <3>1. Coming(e, "incoming", c) => sock'[e] # c
      BY <1>1, <1>2, <2>0 DEF Incoming
    <3> QED
      BY <1>1, <2>0, <3>1 DEF Incoming, Unheard
  <2>2. Ringing(e, c)'
    BY <1>1, <2>0 DEF Ringing, Unheard, Outcome
  <2>3. Accepted(e, c)'
    BY <1>1, <2>0 DEF Accepted, Party, On
  <2>4. Ended(e, c)' /\ HangsUp(e, c)'
    BY <1>1, <2>0 DEF Ended, HangsUp, Party
  <2>5. ShowsIncoming(e, c)'
    BY <1>1, <2>0 DEF ShowsIncoming, On, Refused
  <2>6. ShowsOutgoing(e, c)' /\ ShowsActive(e, c)'
    BY <1>1, <2>0 DEF ShowsOutgoing, ShowsActive, On, Outcome, Party
  <2>7. Awaits(e, c)'
    <3>1. CASE e \in own
      BY <1>1, <1>2, <3>1 DEF Awaits
    <3>2. CASE e \notin own
      BY <1>1, <2>0, <3>2 DEF Awaits, Waits, On
    <3> QED
      BY <3>1, <3>2
  <2> QED
    BY <2>1, <2>2, <2>3, <2>4, <2>5, <2>6, <2>7
<1>5. ASSUME NEW c \in Calls
      PROVE  OnePlacing(c)' /\ Home(c)' /\ Kept(c)' /\ Awaited(c)' /\ Owing(c)'
  <2>0. OnePlacing(c) /\ Home(c) /\ Kept(c) /\ Awaited(c) /\ Owing(c)
    BY Facts
  <2>1. OnePlacing(c)'
    <3>1. ASSUME NEW e \in Devices, Placing(e, c)' PROVE Placing(e, c)
      <4>1. sock'[e] = c /\ phase[c] = "RINGING" => sock[e] = c
        BY <1>1, <1>2
      <4> QED
        BY <1>1, <3>1, <4>1 DEF Placing, On
    <3> QED
      BY <1>1, <2>0, <3>1 DEF OnePlacing
  <2>2. Home(c)' /\ Owing(c)'
    BY <1>1, <2>0 DEF Home, Owing, On
  <2>3. Kept(c)'
    BY <1>1, <2>0 DEF Kept, Keeps, On
  <2>4. Awaited(c)'
    BY <1>1, <2>0 DEF Awaited, Waits, On
  <2> QED
    BY <2>1, <2>2, <2>3, <2>4
<1> QED
  BY <1>1, <1>3, <1>4, <1>5, FromFacts

\* A handler's announcement is one that AnnounceKeeps speaks of.
LEMMA AnnounceServe ==
  ASSUME ClientInv, NEW a \in due, Announce(a)
  PROVE  ClientInv'
<1> DEFINE n == Len(phase)
           type == a.type
           k == a.call
           who == a.room \cup a.own
<1>1. /\ Typed /\ Orderly /\ n \in Nat /\ \A e \in Devices : Ranked(down[e], odd)
      /\ type \in {"accepted", "ended"} /\ k \in Calls /\ a.own \in SUBSET Devices
      /\ type = "ended" => a.own = {}
      /\ \A e \in Devices : ~Has(down[e], type, k)
      /\ \A b \in due : b.type = type /\ b.call = k => a = b
  <2>1. Typed /\ Orderly
    BY Facts
  <2>2. a \in Announcements(n) /\ n \in Nat
    BY <2>1 DEF Typed
  <2> QED
    BY <2>1, <2>2 DEF Orderly, Announcements, Calls
<1>2. /\ due' = due \ {a} /\ UNCHANGED <<phase, ends, screen, up, odd>>
      /\ sock' = [d \in Devices |-> IF d \in a.own THEN k ELSE sock[d]]
      /\ Tell(To(who, type, k))
  BY DEF Announce
<1>3. Due(type, k) /\ \A e \in Devices : e \in who => Owed(e, type, k)
  BY DEF Due, Owed
<1>4. ASSUME NEW e \in Devices, NEW t \in Events \ {"failed"}, Has(down[e], t, k)
      PROVE  Later(t, type, k, odd)
  <2>1. t # type /\ t \in {"incoming", "ringing", "accepted", "ended"}
    BY <1>1, <1>4 DEF Events
  <2>2. CASE type = "ended"
    BY <2>1, <2>2 DEF Later, Rank
  <2>3. CASE type = "accepted" /\ t = "ended"
    <3>1. Owing(k) /\ Ended(e, k) /\ Coming(e, "ended", k)
      BY <1>1, <1>4, <2>3, Facts DEF Coming
    <3>2. k \in odd
      BY <1>3, <2>3, <3>1 DEF Owing, Ended, Terminal
    <3> QED
      BY <2>3, <3>2 DEF Later
  <2>4. CASE type = "accepted" /\ t \in {"incoming", "ringing"}
    BY <2>4 DEF Later, Rank
  <2> QED
    BY <1>1, <2>1, <2>2, <2>3, <2>4
<1>5. [type |-> type, call |-> k] \in DownMsg(n) /\ k \in 0 .. n
  BY <1>1 DEF DownMsg, Events, Calls
<1> HIDE DEF type, k, who
<1>6. /\ down' \in [Devices -> Seq(DownMsg(n))]
      /\ \A e \in Devices : Ranked(down'[e], odd)
      /\ Gets(who, type, k)
  <2>1. down \in [Devices -> Seq(DownMsg(n))]
    BY <1>1 DEF Typed
  <2> QED
    BY <1>1, <1>2, <1>4, <1>5, <2>1, TellsTo
<1>7. /\ \A e \in Devices : \A t, x : Owed(e, t, x) <=>
             Owed(e, t, x)' \/ (e \in who /\ t = type /\ x = k)
      /\ \A t, x : Due(t, x) <=> Due(t, x)' \/ (t = type /\ x = k)
  BY <1>2 DEF Owed, Due, who, type, k
<1>8. ~Due(type, k)'
  BY <1>1, <1>2 DEF Due
<1>9. \A e \in Devices : \A t, x : Coming(e, t, x)' <=> Coming(e, t, x)
  BY <1>6, <1>7 DEF Gets, Coming
<1>10. sock' \in [Devices -> 0 .. n]
       /\ \A e \in Devices : sock'[e] = IF e \in a.own THEN k ELSE sock[e]
  <2>1. sock \in [Devices -> 0 .. n]
    BY <1>1 DEF Typed
  <2> QED
    BY <1>2, <1>5, <2>1
<1>11. Typed'
  <2>1. due' \subseteq Announcements(n) /\ up' \in [Devices -> Seq(UpMsg(n))]
        /\ phase' \in Seq(Phases)
    BY <1>1, <1>2 DEF Typed
  <2> QED
    BY <1>1, <1>2, <1>6, <1>10, <2>1, ServerTyped
<1>12. Orderly'
  <2>1. \A e \in Devices : Ranked(down'[e], odd')
    BY <1>2, <1>6
  <2>2. ASSUME NEW b \in due'
        PROVE  /\ b.type = "ended" => b.own = {}
               /\ \A e \in Devices : ~Has(down'[e], b.type, b.call)
               /\ \A c \in due' : c.type = b.type /\ c.call = b.call => b = c
    <3>1. b \in due /\ ~(b.type = type /\ b.call = k) /\ due' \subseteq due
      BY <1>1, <1>2
    <3> QED
      BY <1>1, <1>6, <3>1 DEF Orderly, Gets
  <2> QED
    BY <2>1, <2>2 DEF Orderly
<1>13. Announces(type, k, a.own)
  <2>1. a.own = {} \/ (type = "accepted" /\ \A e \in a.own : Coming(e, "accepted", k))
    BY <1>1, <1>3 DEF who, Coming
  <2> QED
    BY <1>2, <1>3, <1>7, <1>8, <1>9, <1>10, <2>1 DEF Announces
<1> QED
  BY <1>1, <1>11, <1>12, <1>13, AnnounceKeeps

\* An acceptance that no longer reaches its socket is announced to the others.
LEMMA DeafFacts ==
  ASSUME Typed, Orderly, NEW d \in Devices
  PROVE  /\ Deaf(d) \subseteq Announcements(Len(phase))
         /\ \A b \in Deaf(d) : \E a \in due :
                /\ b.type = a.type /\ b.call = a.call /\ b.room = a.room
                /\ b.own = a.own \ {d}
         /\ \A a \in due : \E b \in Deaf(d) :
                /\ b.type = a.type /\ b.call = a.call /\ b.room = a.room
                /\ b.own = a.own \ {d}
         /\ \A b, c \in Deaf(d) : b.type = c.type /\ b.call = c.call => b = c
<1> DEFINE f(a) == [a EXCEPT !.own = @ \ {d}]
<1>1. ASSUME NEW a \in due
      PROVE  /\ f(a) \in Announcements(Len(phase))
             /\ f(a).type = a.type /\ f(a).call = a.call /\ f(a).room = a.room
             /\ f(a).own = a.own \ {d}
  <2>1. a \in Announcements(Len(phase))
    BY DEF Typed
  <2> QED
    BY <2>1 DEF Announcements
<1>2. Deaf(d) = {f(a) : a \in due}
  BY DEF Deaf
<1>3. \A a, b \in due : a.type = b.type /\ a.call = b.call => a = b
  BY DEF Orderly
<1> HIDE DEF f
<1>4. \A b, c \in Deaf(d) : b.type = c.type /\ b.call = c.call => b = c
  <2> SUFFICES ASSUME NEW b \in Deaf(d), NEW c \in Deaf(d), b.type = c.type, b.call = c.call
               PROVE  b = c
    OBVIOUS
  <2>1. PICK x \in due : b = f(x)
    BY <1>2
  <2>2. PICK y \in due : c = f(y)
    BY <1>2
  <2>3. x = y
    BY <1>1, <1>3, <2>1, <2>2
  <2> QED
    BY <2>1, <2>2, <2>3
<1> QED
  BY <1>1, <1>2, <1>4

\* Device d has left, and the end of its call k, if closes, is to be announced.
Leaves(d, k, closes) ==
    /\ down' = [down EXCEPT ![d] = <<>>]
    /\ due' = Deaf(d) \cup
           (IF closes THEN {[type |-> "ended", call |-> k, room |-> RoomOf(Other(Owner[d], k)),
                             own |-> {}]}
            ELSE {})

\* The channel of a device that leaves is empty, the end of its call told in order.
LEMMA DropTells ==
  ASSUME ClientInv, NEW d \in Devices, NEW k, NEW closes \in BOOLEAN, Leaves(d, k, closes),
         closes => k \in Calls /\ phase[k] \in {"RINGING", "ACTIVE"} /\ Party(Owner[d], k),
         odd \subseteq odd'
  PROVE  /\ down' \in [Devices -> Seq(DownMsg(Len(phase)))]
         /\ due' \subseteq Announcements(Len(phase)) /\ Orderly'
         /\ \A e \in Devices : \A t, x : e # d =>
                (Coming(e, t, x)' <=>
                     \/ Coming(e, t, x)
                     \/ closes /\ Owner[e] = Other(Owner[d], k) /\ t = "ended" /\ x = k)
         /\ \A t, x : Coming(d, t, x)' =>
                Coming(d, t, x) /\ t \in {"accepted", "ended"} /\ Due(t, x)'
         /\ \A t, x : Due(t, x)' <=> Due(t, x) \/ (closes /\ t = "ended" /\ x = k)
<1> DEFINE n == Len(phase)
           R == RoomOf(Other(Owner[d], k))
           z == [type |-> "ended", call |-> k, room |-> R, own |-> {}]
           D == Deaf(d)
<1>1. /\ Typed /\ Orderly /\ n \in Nat /\ down \in [Devices -> Seq(DownMsg(n))]
      /\ \A e \in Devices : Ranked(down[e], odd)
  BY Facts DEF Typed, Orderly
<1>2. /\ D \subseteq Announcements(n)
      /\ \A b \in D : \E a \in due :
             b.type = a.type /\ b.call = a.call /\ b.room = a.room /\ b.own = a.own \ {d}
      /\ \A a \in due : \E b \in D :
             b.type = a.type /\ b.call = a.call /\ b.room = a.room /\ b.own = a.own \ {d}
      /\ \A b, c \in D : b.type = c.type /\ b.call = c.call => b = c
  BY <1>1, DeafFacts
<1>3. \A e \in Devices : e \in R <=> Owner[e] = Other(Owner[d], k)
  BY DEF RoomOf
<1>4. closes => d \notin R
  BY <1>3, CallsApart DEF Other, Party
<1>5. /\ z.type = "ended" /\ z.call = k /\ z.room = R /\ z.own = {}
      /\ closes => z \in Announcements(n)
  BY DEF Announcements, Calls, RoomOf
<1>6. due' = D \cup (IF closes THEN {z} ELSE {})
  BY DEF Leaves
<1>7. /\ down' \in [Devices -> Seq(DownMsg(n))] /\ down'[d] = <<>>
      /\ \A e \in Devices : e # d => down'[e] = down[e]
  BY <1>1 DEF Leaves
<1>8. closes => ~Due("ended", k) /\ \A e \in Devices : ~Coming(e, "ended", k)
  BY LiveSilent
<1> HIDE DEF z, R, D, n
<1>9. due' \subseteq Announcements(n)
  BY <1>2, <1>5, <1>6
<1>10. \A t, x : Due(t, x)' <=> Due(t, x) \/ (closes /\ t = "ended" /\ x = k)
  <2>1. \A t, x : (\E b \in D : b.type = t /\ b.call = x) <=> Due(t, x)
    BY <1>2 DEF Due
  <2>2. \A t, x : Due(t, x)' <=> (\E b \in D : b.type = t /\ b.call = x)
                                \/ (closes /\ t = "ended" /\ x = k)
    BY <1>5, <1>6 DEF Due
  <2> QED
    BY <2>1, <2>2
<1>11. \A e \in Devices : \A t, x : Owed(e, t, x)' <=>
           \/ \E b \in D : b.type = t /\ b.call = x /\ e \in b.room \cup b.own
           \/ closes /\ e \in R /\ t = "ended" /\ x = k
  BY <1>5, <1>6 DEF Owed
<1>12. ASSUME NEW e \in Devices, e # d
       PROVE  \A t, x : Coming(e, t, x)' <=>
                  \/ Coming(e, t, x)
                  \/ closes /\ Owner[e] = Other(Owner[d], k) /\ t = "ended" /\ x = k
  <2>1. \A t, x : (\E b \in D : b.type = t /\ b.call = x /\ e \in b.room \cup b.own)
                  <=> Owed(e, t, x)
    BY <1>2, <1>12 DEF Owed
  <2>2. \A t, x : Has(down'[e], t, x) <=> Has(down[e], t, x)
    BY <1>7, <1>12
  <2> QED
    BY <1>3, <1>11, <2>1, <2>2 DEF Coming
<1>13. ASSUME NEW t, NEW x, Coming(d, t, x)'
       PROVE  Coming(d, t, x) /\ t \in {"accepted", "ended"} /\ Due(t, x)'
  <2>1. ~Has(down'[d], t, x)
    BY <1>7, HasEmpty
  <2>2. PICK b \in D : b.type = t /\ b.call = x /\ d \in b.room \cup b.own
    BY <1>4, <1>11, <1>13, <2>1 DEF Coming
  <2>3. t \in {"accepted", "ended"} /\ Due(t, x)'
    BY <1>2, <1>6, <2>2 DEF Announcements, Due
  <2>4. Owed(d, t, x)
    BY <1>2, <2>2 DEF Owed
  <2> QED
    BY <2>3, <2>4 DEF Coming
<1>14. Orderly'
  <2>1. ASSUME NEW e \in Devices PROVE Ranked(down'[e], odd')
    <3>1. CASE e = d
      BY <1>7, <3>1, HasEmpty
    <3>2. CASE e # d
      BY <1>1, <1>7, <3>2, RankedMore
    <3> QED
      BY <3>1, <3>2
  <2>2. ASSUME NEW b \in D
        PROVE  /\ b.type = "ended" => b.own = {}
               /\ \A e \in Devices : ~Has(down'[e], b.type, b.call)
               /\ Due(b.type, b.call)
    <3>1. PICK a \in due : b.type = a.type /\ b.call = a.call /\ b.own = a.own \ {d}
      BY <1>2
    <3>2. \A e \in Devices : ~Has(down[e], a.type, a.call)
      BY <1>1 DEF Orderly
    <3>3. \A e \in Devices : ~Has(down'[e], b.type, b.call)
      BY <1>7, <3>1, <3>2, HasEmpty
    <3> QED
      BY <1>1, <3>1, <3>3 DEF Orderly, Due
  <2>3. closes => \A e \in Devices : ~Has(down'[e], "ended", k)
    BY <1>7, <1>8, HasEmpty DEF Coming
  <2>4. ASSUME NEW b \in due'
        PROVE  /\ b.type = "ended" => b.own = {}
               /\ \A e \in Devices : ~Has(down'[e], b.type, b.call)
               /\ \A c \in due' : c.type = b.type /\ c.call = b.call => b = c
    <3>1. CASE b \in D
      <4>1. \A c \in due' : c.type = b.type /\ c.call = b.call => c \in D
        BY <1>5, <1>6, <1>8, <2>2, <3>1
      <4> QED
        BY <1>2, <2>2, <3>1, <4>1
    <3>2. CASE closes /\ b = z
      <4>1. \A c \in due' : c.type = b.type /\ c.call = b.call => c = z
        BY <1>5, <1>6, <1>8, <2>2, <3>2
      <4> QED
        BY <1>5, <2>3, <3>2, <4>1
    <3> QED
      BY <1>6, <3>1, <3>2
  <2> QED
    BY <2>1, <2>4 DEF Orderly
<1> QED
  BY <1>7, <1>9, <1>10, <1>12, <1>13, <1>14 DEF n

\* Dropping a connection quits the server, with the verdict on the call of the socket.
LEMMA DropQuits ==
  ASSUME ClientInv, NEW d \in Devices, Drop(d), odd \subseteq odd'
  PROVE  /\ Quits(d, sock[d], Verdict(d), Verdict(d) # "none")
         /\ phase' \in Seq(Phases) /\ Len(phase') = Len(phase)
         /\ ends' = ends /\ sock' \in [Devices -> 0 .. Len(phase)]
         /\ down' \in [Devices -> Seq(DownMsg(Len(phase)))]
         /\ due' \subseteq Announcements(Len(phase)) /\ Orderly'
<1> DEFINE k == sock[d]
           v == Verdict(d)
           closes == v # "none"
<1>1. /\ Typed /\ Socket(d) /\ k \in 0 .. Len(phase) /\ Len(phase) \in Nat
      /\ sock \in [Devices -> 0 .. Len(phase)]
  BY Facts DEF Typed
<1>2. closes =>
          /\ k \in Calls
          /\ \/ phase[k] = "ACTIVE" /\ v = "ENDED"
             \/ phase[k] = "RINGING" /\ v = "CANCELLED" /\ ends[k].caller = Owner[d]
             \/ phase[k] = "RINGING" /\ v = "DECLINED" /\ ends[k].callee = Owner[d]
  <2> SUFFICES ASSUME closes
               PROVE  /\ k \in Calls
                      /\ \/ phase[k] = "ACTIVE" /\ v = "ENDED"
                         \/ phase[k] = "RINGING" /\ v = "CANCELLED" /\ ends[k].caller = Owner[d]
                         \/ phase[k] = "RINGING" /\ v = "DECLINED" /\ ends[k].callee = Owner[d]
    OBVIOUS
  <2>1. k # 0 /\ phase[k] \in {"RINGING", "ACTIVE"}
    BY DEF Verdict
  <2>2. k \in Calls /\ Party(Owner[d], k)
    BY <1>1, <2>1 DEF Calls, Socket
  <2>3. CASE phase[k] = "ACTIVE"
    BY <2>1, <2>2, <2>3 DEF Verdict
  <2>4. CASE phase[k] = "RINGING"
    <3>1. v = IF ends[k].caller = Owner[d] THEN "CANCELLED" ELSE "DECLINED"
      BY <2>1, <2>4 DEF Verdict
    <3> HIDE DEF v
    <3> QED
      BY <2>2, <2>4, <3>1 DEF Party
  <2> QED
    BY <2>1, <2>3, <2>4
<1>3. /\ phase' = IF closes THEN [phase EXCEPT ![k] = v] ELSE phase
      /\ sock' = [sock EXCEPT ![d] = 0] /\ ends' = ends
      /\ Leaves(d, k, closes)
  BY DEF Drop, Leaves
<1> HIDE DEF v
<1>4. /\ phase' \in Seq(Phases) /\ Len(phase') = Len(phase)
      /\ \A c \in Calls : phase'[c] = IF closes /\ c = k THEN v ELSE phase[c]
  <2>1. CASE closes
    <3>1. k \in Calls /\ v \in Phases /\ phase' = [phase EXCEPT ![k] = v]
      BY <1>2, <1>3, <2>1 DEF Phases
    <3>2. /\ phase' \in Seq(Phases) /\ Len(phase') = Len(phase)
          /\ \A c \in Calls : phase'[c] = IF c = k THEN v ELSE phase[c]
      BY <1>1, <3>1, PhaseSet
    <3> QED
      BY <2>1, <3>2
  <2>2. CASE ~closes
    BY <1>1, <1>3, <2>2 DEF Typed
  <2> QED
    BY <2>1, <2>2
<1>5. /\ down' \in [Devices -> Seq(DownMsg(Len(phase)))]
      /\ due' \subseteq Announcements(Len(phase)) /\ Orderly'
      /\ \A e \in Devices : \A t, x : e # d =>
             (Coming(e, t, x)' <=>
                  \/ Coming(e, t, x)
                  \/ closes /\ Owner[e] = Other(Owner[d], k) /\ t = "ended" /\ x = k)
      /\ \A t, x : Coming(d, t, x)' =>
             Coming(d, t, x) /\ t \in {"accepted", "ended"} /\ Due(t, x)'
      /\ \A t, x : Due(t, x)' <=> Due(t, x) \/ (closes /\ t = "ended" /\ x = k)
  <2>1. closes => k \in Calls /\ phase[k] \in {"RINGING", "ACTIVE"} /\ Party(Owner[d], k)
    BY <1>1, <1>2, CallsApart DEF Socket
  <2>2. Leaves(d, k, closes) /\ closes \in BOOLEAN
    BY <1>3
  <2> HIDE DEF k, closes
  <2> QED
    BY <2>1, <2>2, DropTells
<1>7. /\ sock' \in [Devices -> 0 .. Len(phase)]
      /\ sock'[d] = 0 /\ \A e \in Devices : e # d => sock'[e] = sock[e]
  BY <1>1, <1>3
<1>8. /\ ends' = ends /\ Calls' = Calls
      /\ sock'[d] = 0 /\ \A e \in Devices : e # d => sock'[e] = sock[e]
  BY <1>3, <1>4, <1>7 DEF Calls
<1>10. Quits(d, k, v, closes)
  BY <1>2, <1>4, <1>5, <1>8 DEF Quits
<1> QED
  BY <1>3, <1>4, <1>5, <1>7, <1>10 DEF v

\* A device mentions calls that exist, or the one without a number.
LEMMA MentionedCalls ==
  ASSUME Typed, NEW d \in Devices
  PROVE  Mentioned(d) \subseteq 0 .. Len(phase)
<1>1. /\ screen[d].call \in 0 .. Len(phase)
      /\ \A i \in DOMAIN up[d] : up[d][i].call \in 0 .. Len(phase)
      /\ \A i \in DOMAIN down[d] : down[d][i].call \in 0 .. Len(phase)
      /\ \A a \in due : a.call \in 0 .. Len(phase)
  <2>1. up[d] \in Seq(UpMsg(Len(phase))) /\ down[d] \in Seq(DownMsg(Len(phase)))
    BY DEF Typed
  <2>2. /\ \A i \in DOMAIN up[d] : up[d][i] \in UpMsg(Len(phase))
        /\ \A i \in DOMAIN down[d] : down[d][i] \in DownMsg(Len(phase))
    BY <2>1, ElementOfSeq
  <2>3. screen[d].call \in 0 .. Len(phase)
    BY DEF Typed
  <2>4. \A a \in due : a.call \in 0 .. Len(phase)
    BY DEF Typed, Announcements
  <2> QED
    BY <2>2, <2>3, <2>4 DEF UpMsg, DownMsg
<1> QED
  BY <1>1 DEF Mentioned

\* What is on the screen, what goes to the server and what is lost of that which
\* comes, a device that leaves mentions.
LEMMA KnownCalls ==
  ASSUME Typed, Orderly, NEW d \in Devices, NEW x, Deaf(d) \subseteq due',
         \/ screen[d] # IDLE /\ screen[d].call = x
         \/ \E t \in Requests : Has(up[d], t, x)
         \/ \E y \in Events : Coming(d, y, x) /\ ~Coming(d, y, x)'
  PROVE  x \in Mentioned(d)
<1>1. CASE screen[d] # IDLE /\ screen[d].call = x
  BY <1>1 DEF Mentioned
<1>2. CASE \/ \E t \in Requests : Has(up[d], t, x)
           \/ \E y \in Events : Has(down[d], y, x)
  <2>1. \/ \E i \in DOMAIN up[d] : up[d][i].call = x
        \/ \E i \in DOMAIN down[d] : down[d][i].call = x
    BY <1>2 DEF Has
  <2> QED
    BY <2>1 DEF Mentioned
<1>3. ASSUME NEW y \in Events, Owed(d, y, x), ~Coming(d, y, x)' PROVE x \in Mentioned(d)
  <2>1. PICK a \in due : a.type = y /\ a.call = x /\ d \in a.room \cup a.own
    BY <1>3 DEF Owed
  <2>2. PICK b \in Deaf(d) : b.type = a.type /\ b.call = a.call /\ b.room = a.room
    BY DeafFacts
  <2>3. d \notin b.room
    BY <1>3, <2>1, <2>2 DEF Coming, Owed
  <2>4. d \in a.own
    BY <2>1, <2>2, <2>3
  <2> QED
    BY <2>1, <2>4 DEF Mentioned
<1>4. ASSUME NEW y \in Events, Coming(d, y, x), ~Coming(d, y, x)' PROVE x \in Mentioned(d)
  <2>1. Has(down[d], y, x) \/ Owed(d, y, x)
    BY <1>4 DEF Coming
  <2> QED
    BY <1>2, <1>3, <1>4, <2>1
<1> QED
  BY <1>1, <1>2, <1>4

\* A cut connection keeps the invariant.
LEMMA CutKeeps ==
  ASSUME ClientInv, NEW d \in Devices, Cut(d)
  PROVE  ClientInv'
<1>1. /\ Typed /\ Orderly /\ Drop(d) /\ up' = [up EXCEPT ![d] = <<>>]
      /\ odd' = odd \cup Mentioned(d) /\ screen' = screen
  BY Facts DEF Cut
<1>2. /\ Quits(d, sock[d], Verdict(d), Verdict(d) # "none")
      /\ phase' \in Seq(Phases) /\ Len(phase') = Len(phase) /\ ends' = ends
      /\ sock' \in [Devices -> 0 .. Len(phase)]
      /\ down' \in [Devices -> Seq(DownMsg(Len(phase)))]
      /\ due' \subseteq Announcements(Len(phase)) /\ Orderly'
  BY <1>1, DropQuits
<1>3. Mentioned(d) \subseteq 0 .. Len(phase)
  BY <1>1, MentionedCalls
<1>4. /\ up' \in [Devices -> Seq(UpMsg(Len(phase)))] /\ up'[d] = <<>>
      /\ \A e \in Devices : e # d => up'[e] = up[e]
  BY <1>1 DEF Typed
<1>5. Typed'
  BY <1>1, <1>2, <1>3, <1>4 DEF Typed, Calls
<1>6. Returns(d, "none", 0)
  <2>1. \A t, x : ~Has(up'[d], t, x)
    BY <1>4, HasEmpty
  <2>2. \A x : \/ screen[d] # IDLE /\ screen[d].call = x
               \/ \E t \in Requests : Has(up[d], t, x)
               \/ \E y \in Events : Coming(d, y, x) /\ ~Coming(d, y, x)'
               => x \in odd'
    <3>1. Deaf(d) \subseteq due'
      BY <1>1 DEF Drop
    <3> QED
      BY <1>1, <3>1, KnownCalls
  <2> QED
    BY <1>1, <1>4, <2>1, <2>2 DEF Returns
<1> QED
  BY <1>2, <1>5, <1>6, QuitKeeps

\* A click on a notification keeps the invariant.
LEMMA ClickKeeps ==
  ASSUME ClientInv, NEW d \in Devices, NEW c \in Calls, NEW type \in {"accept", "decline"},
         ClickNotification(d, c, type)
  PROVE  ClientInv'
<1> DEFINE m == Msg(type, d, c)
           s == IF type = "accept" THEN [status |-> "incoming", call |-> c, peer |-> TRUE]
                ELSE IDLE
<1>1. /\ Typed /\ Orderly /\ Drop(d) /\ up' = [up EXCEPT ![d] = <<m>>] /\ ends[c].callee = Owner[d]
      /\ screen' = [screen EXCEPT ![d] = s]
      /\ odd' = odd \cup {e \in Mentioned(d) : e # c \/ phase'[c] = "ACTIVE"}
  BY Facts DEF ClickNotification
<1>2. /\ Quits(d, sock[d], Verdict(d), Verdict(d) # "none")
      /\ phase' \in Seq(Phases) /\ Len(phase') = Len(phase) /\ ends' = ends
      /\ sock' \in [Devices -> 0 .. Len(phase)]
      /\ down' \in [Devices -> Seq(DownMsg(Len(phase)))]
      /\ due' \subseteq Announcements(Len(phase)) /\ Orderly'
  BY <1>1, DropQuits
<1>3. Mentioned(d) \subseteq 0 .. Len(phase)
  BY <1>1, MentionedCalls
<1>4. c \in 0 .. Len(phase) /\ c # 0
  BY <1>1 DEF Typed, Calls
<1>5. m \in UpMsg(Len(phase)) /\ m.type = type /\ m.call = c
  BY <1>1, <1>4, MsgTyped DEF Requests
<1>6. /\ up' \in [Devices -> Seq(UpMsg(Len(phase)))] /\ up'[d] = <<m>>
      /\ \A e \in Devices : e # d => up'[e] = up[e]
  <2> HIDE DEF m
  <2> QED
    BY <1>1, <1>5 DEF Typed
<1>7. s \in Screen(Len(phase))
  BY <1>1, <1>4, IdleTyped DEF Screen
<1>8. /\ screen' \in [Devices -> Screen(Len(phase))] /\ screen'[d] = s
      /\ \A e \in Devices : e # d => screen'[e] = screen[e]
  <2> HIDE DEF s
  <2> QED
    BY <1>1, <1>7 DEF Typed, Screen
<1>9. Typed'
  <2>1. odd' \subseteq 0 .. Len(phase)
    BY <1>1, <1>3 DEF Typed
  <2> QED
    BY <1>1, <1>2, <1>6, <1>8, <2>1 DEF Typed, Calls, Screen
<1>10. Returns(d, type, c)
  <2>1. \A t, x : Has(up'[d], t, x) <=> t = type /\ x = c
    <3>1. DOMAIN <<m>> = {1} /\ <<m>>[1] = m
      OBVIOUS
    <3> HIDE DEF m
    <3> QED
      BY <1>5, <1>6, <3>1 DEF Has
  <2>2. \A x : /\ \/ screen[d] # IDLE /\ screen[d].call = x
                  \/ \E t \in Requests : Has(up[d], t, x)
                  \/ \E y \in Events : Coming(d, y, x) /\ ~Coming(d, y, x)'
               /\ x # c \/ phase'[x] = "ACTIVE"
               => x \in odd'
    <3>1. Deaf(d) \subseteq due'
      BY <1>1 DEF Drop
    <3> QED
      BY <1>1, <3>1, KnownCalls
  <2>3. \/ type = "accept" /\ screen'[d] = [status |-> "incoming", call |-> c, peer |-> TRUE]
        \/ type = "decline" /\ screen'[d] = IDLE
    BY <1>8
  <2>4. odd \subseteq odd'
    BY <1>1
  <2> QED
    BY <1>1, <1>6, <1>8, <2>1, <2>2, <2>3, <2>4 DEF Returns
<1> QED
  BY <1>2, <1>9, <1>10, QuitKeeps

-----------------------------------------------------------------------------
(* The theorems                                                            *)

\* At first nobody knows of a call.
LEMMA InitInv == Init => ClientInv
<1> SUFFICES ASSUME Init PROVE ClientInv
  OBVIOUS
<1>1. /\ phase = <<>> /\ ends = <<>> /\ Len(phase) = 0 /\ Calls = {}
      /\ \A d \in Devices : sock[d] = 0 /\ screen[d] = IDLE /\ up[d] = <<>> /\ down[d] = <<>>
      /\ due = {}
  BY DEF Init, Calls
<1>2. Typed
  BY <1>1 DEF Init, Typed, IDLE
<1>3. ASSUME NEW d \in Devices
      PROVE  Named(d) /\ Ranked(down[d], odd) /\ ShowsUnnumbered(d) /\ Socket(d)
  BY <1>1, HasEmpty DEF Named, ShowsUnnumbered, Socket, On, IDLE
<1>4. Orderly
  BY <1>1, <1>3 DEF Orderly
<1> QED
  BY <1>1, <1>2, <1>3, <1>4 DEF ClientInv, Messages, Screens, Placed, Held

\* Nor does a step that changes nothing break the invariant.
LEMMA Unmoved ==
  ASSUME ClientInv, UNCHANGED vars PROVE ClientInv'
<1>1. /\ phase' = phase /\ ends' = ends /\ sock' = sock /\ screen' = screen
      /\ up' = up /\ odd' = odd /\ Calls' = Calls
      /\ \A e \in Devices : \A t, x : Coming(e, t, x)' <=> Coming(e, t, x)
      /\ \A t, x : Due(t, x)' <=> Due(t, x)
      /\ Orderly'
  BY SameQueues, Facts DEF vars, Calls
<1>2. Typed'
  BY Facts DEF vars, Calls, Typed
<1>3. ASSUME NEW d \in Devices PROVE Named(d)' /\ ShowsUnnumbered(d)' /\ Socket(d)'
  BY <1>1, Facts DEF Named, ShowsUnnumbered, Refused, On, Socket, Party
<1>4. ASSUME NEW d \in Devices, NEW c \in Calls
      PROVE  /\ Incoming(d, c)' /\ Ringing(d, c)' /\ Accepted(d, c)' /\ Ended(d, c)'
             /\ HangsUp(d, c)' /\ ShowsIncoming(d, c)' /\ ShowsOutgoing(d, c)'
             /\ ShowsActive(d, c)' /\ Awaits(d, c)'
  <2>1. Incoming(d, c)' /\ Ringing(d, c)'
    BY <1>1, Facts DEF Incoming, Ringing, Unheard, Outcome
  <2>2. Accepted(d, c)' /\ Ended(d, c)' /\ HangsUp(d, c)'
    BY <1>1, Facts DEF Accepted, Ended, HangsUp, Party, On
  <2>3. ShowsIncoming(d, c)'
    BY <1>1, Facts DEF ShowsIncoming, On, Refused
  <2>4. ShowsOutgoing(d, c)' /\ ShowsActive(d, c)'
    BY <1>1, Facts DEF ShowsOutgoing, ShowsActive, On, Outcome, Party
  <2>5. Awaits(d, c)'
    BY <1>1, Facts DEF Awaits, Waits, On
  <2> QED
    BY <2>1, <2>2, <2>3, <2>4, <2>5
<1>5. ASSUME NEW c \in Calls
      PROVE  OnePlacing(c)' /\ Home(c)' /\ Kept(c)' /\ Awaited(c)' /\ Owing(c)'
  <2>1. OnePlacing(c)' /\ Home(c)'
    BY <1>1, Facts DEF OnePlacing, Placing, Home, On
  <2>2. Kept(c)'
    BY <1>1, Facts DEF Kept, Keeps, On
  <2>3. Awaited(c)' /\ Owing(c)'
    BY <1>1, Facts DEF Awaited, Waits, Owing, On
  <2> QED
    BY <2>1, <2>2, <2>3
<1> QED
  BY <1>1, <1>2, <1>3, <1>4, <1>5, FromFacts

\* Every step keeps the invariant.
LEMMA NextInv == ClientInv /\ [Next]_vars => ClientInv'
<1> SUFFICES ASSUME ClientInv, [Next]_vars PROVE ClientInv'
  OBVIOUS
<1>1. ASSUME NEW d \in Devices, NEW u \in Users, CallUser(d, u) \/ AddToCall(d, u)
      PROVE  ClientInv'
  BY <1>1, AskKeeps
<1>2. ASSUME NEW d \in Devices, Accept(d) PROVE ClientInv'
  <2>1. Owner[d] \in Users
    BY ClientAssumption
  <2> QED
    BY <1>2, <2>1, AskKeeps
<1>3. ASSUME NEW d \in Devices, Decline(d) \/ Cancel(d) \/ Hangup(d) PROVE ClientInv'
  <2>1. CASE Decline(d)
    BY <2>1, DismissKeeps DEF Decline
  <2>2. CASE Cancel(d)
    BY <2>2, DismissKeeps DEF Cancel
  <2>3. CASE Hangup(d)
    BY <2>3, DismissKeeps DEF Hangup
  <2> QED
    BY <1>3, <2>1, <2>2, <2>3
<1>4. ASSUME NEW d \in Devices, Serve(d) PROVE ClientInv'
  BY <1>4, ServeKeeps
<1>5. ASSUME NEW d \in Devices, Hear(d) PROVE ClientInv'
  BY <1>5, HearKeeps
<1>6. ASSUME NEW d \in Devices, Cut(d) PROVE ClientInv'
  BY <1>6, CutKeeps
<1>7. ASSUME NEW d \in Devices, NEW c \in Calls,
             ClickNotification(d, c, "accept") \/ ClickNotification(d, c, "decline")
      PROVE  ClientInv'
  BY <1>7, ClickKeeps
<1>8. ASSUME NEW c \in Calls, RingTimeout(c) PROVE ClientInv'
  BY <1>8, TimeoutKeeps
<1>9. ASSUME NEW a \in due, Announce(a) PROVE ClientInv'
  BY <1>9, AnnounceServe
<1>10. CASE UNCHANGED vars
  BY <1>10, Unmoved
<1>11. CASE Next
  BY <1>1, <1>2, <1>3, <1>4, <1>5, <1>6, <1>7, <1>8, <1>9, <1>11 DEF Next
<1> QED
  BY <1>10, <1>11

\* ClientInv holds whatever the users, their devices, the bounds, the order in
\* which requests and events overtake each other on different sockets, and
\* however long a handler takes to announce what it did
\* (call-context.tsx:100-262 against events.gateway.ts:171-396).
THEOREM Invariant == Spec => []ClientInv
<1> QED
  BY InitInv, NextInv, PTL DEF Spec

\* Every message names a call that exists, an invitation alone goes without
\* a number, and nobody calls himself (call-context.tsx:186-196 and
\* call.service.ts:54).
THEOREM TypeCorrect == Spec => []TypeOK
<1>1. ClientInv => TypeOK
  <2> SUFFICES ASSUME ClientInv PROVE TypeOK
    OBVIOUS
  <2> DEFINE n == Len(phase)
  <2>1. Typed /\ n \in Nat /\ Calls \cup {0} = 0 .. n
    BY Facts DEF Typed, Calls
  <2>2. /\ UpMsg(n) \subseteq [type : Requests, call : 0 .. n, to : Users]
        /\ DownMsg(n) \subseteq [type : Events, call : 0 .. n]
    BY DEF UpMsg, DownMsg
  <2>3. ASSUME NEW d \in Devices
        PROVE  /\ up[d] \in Seq([type : Requests, call : 0 .. n, to : Users])
               /\ down[d] \in Seq([type : Events, call : 0 .. n])
               /\ \A i \in DOMAIN up[d] : up[d][i].type = "invite" <=> up[d][i].call = 0
    <3>1. up[d] \in Seq(UpMsg(n)) /\ down[d] \in Seq(DownMsg(n))
      BY <2>1 DEF Typed
    <3>2. \A i \in DOMAIN up[d] : up[d][i] \in UpMsg(n)
      BY <3>1, ElementOfSeq
    <3>3. /\ up[d] \in Seq([type : Requests, call : 0 .. n, to : Users])
          /\ down[d] \in Seq([type : Events, call : 0 .. n])
      BY <2>2, <3>1, SeqMonotonic
    <3>4. \A i \in DOMAIN up[d] : up[d][i].type = "invite" <=> up[d][i].call = 0
      BY <3>2 DEF UpMsg
    <3> QED
      BY <3>3, <3>4
  <2>4. /\ up \in [Devices -> Seq([type : Requests, call : 0 .. n, to : Users])]
        /\ down \in [Devices -> Seq([type : Events, call : 0 .. n])]
    BY <2>1, <2>3 DEF Typed
  <2> HIDE DEF n
  <2> QED
    BY <2>1, <2>3, <2>4 DEF TypeOK, Typed, Phases, n
<1> QED
  BY <1>1, Invariant, PTL

\* In silence there is no message, and nothing is still to be announced.
LEMMA SilentQueues ==
  ASSUME Quiet, NEW d \in Devices, NEW t, NEW c
  PROVE  ~Has(up[d], t, c) /\ ~Coming(d, t, c)
<1> QED
  BY HasEmpty DEF Quiet, Coming, Owed

\* When nothing is on its way or still to be announced, every screen shows a call
\* as it is, but for the calls a screen lost sight of and the other devices of a
\* user, although the end of a call may be told before its answer
\* (call.service.ts:179-193 against events.gateway.ts:284-300).
THEOREM Mirrors == Spec => []ScreenMirrors
<1>1. ClientInv => ScreenMirrors
  <2> SUFFICES ASSUME ClientInv, Quiet, NEW d \in Devices
               PROVE  LET c == screen[d].call
                          status == screen[d].status
                      IN  \/ status = "idle"
                          \/ c \in odd
                          \/ status = "outgoing" /\ c # 0 /\ phase[c] = "RINGING"
                                 /\ ends[c].caller = Owner[d]
                          \/ status = "incoming" /\ ends[c].callee = Owner[d]
                                 /\ phase[c] \in IF RoomOf(Owner[d]) = {d} THEN {"RINGING"}
                                     ELSE {"RINGING", "ACTIVE", "DECLINED", "ENDED"}
                          \/ status = "active" /\ Party(Owner[d], c)
                                 /\ phase[c] \in IF RoomOf(Owner[d]) = {d} THEN {"ACTIVE"}
                                     ELSE {"ACTIVE", "ENDED"}
    BY DEF ScreenMirrors
  <2> DEFINE c == screen[d].call
             status == screen[d].status
  <2>1. /\ Typed /\ Named(d) /\ ShowsUnnumbered(d)
        /\ status \in {"idle", "outgoing", "incoming", "active"} /\ c \in Calls \cup {0}
    BY Facts DEF Typed, Calls
  <2>2. \A e \in Devices : \A t, x : ~Has(up[e], t, x) /\ ~Coming(e, t, x)
    BY SilentQueues
  <2>3. ~Refused(d)
    BY <2>2 DEF Refused
  <2>4. CASE status = "outgoing" /\ c = 0
    BY <2>1, <2>2, <2>3, <2>4 DEF ShowsUnnumbered, On
  <2>5. CASE status = "outgoing" /\ c # 0
    <3>1. ShowsOutgoing(d, c) /\ On(d, "outgoing", c)
      BY <2>1, <2>5, Facts DEF On
    <3> QED
      BY <2>2, <2>5, <3>1 DEF ShowsOutgoing, Outcome
  <2>6. CASE status = "incoming"
    <3>1. ShowsIncoming(d, c) /\ On(d, "incoming", c)
      BY <2>1, <2>6, Facts DEF On, Named
    <3> QED
      BY <2>2, <2>3, <2>6, <3>1 DEF ShowsIncoming, Alone
  <2>7. CASE status = "active"
    <3>1. ShowsActive(d, c) /\ On(d, "active", c)
      BY <2>1, <2>7, Facts DEF On, Named
    <3> QED
      BY <2>2, <2>7, <3>1 DEF ShowsActive, Alone
  <2> QED
    BY <2>1, <2>4, <2>5, <2>6, <2>7
<1> QED
  BY <1>1, Invariant, PTL

\* When nothing is on its way or still to be announced, a call in progress is on a screen of each of its
\* parties and one that rings on a screen of its caller, unless a screen lost
\* sight of it.
THEOREM HasScreens == Spec => []CallHasScreens
<1>1. ClientInv => CallHasScreens
  <2> SUFFICES ASSUME ClientInv, Quiet, NEW c \in Calls, c \notin odd
               PROVE  /\ phase[c] = "ACTIVE" =>
                          \A u \in {ends[c].caller, ends[c].callee} :
                              \E d \in RoomOf(u) : On(d, "active", c)
                      /\ phase[c] = "RINGING" /\ ~ends[c].added =>
                          \E d \in RoomOf(ends[c].caller) : On(d, "outgoing", c)
    BY DEF CallHasScreens, On
  <2>1. Kept(c) /\ Awaited(c)
    BY Facts
  <2>2. \A e \in Devices : \A t, x : ~Has(up[e], t, x) /\ ~Coming(e, t, x)
    BY SilentQueues
  <2>3. /\ \A d \in Devices : Keeps(d, c) => On(d, "active", c)
        /\ \A d \in Devices : Waits(d, c) => On(d, "outgoing", c)
    BY <2>2 DEF Keeps, Waits
  <2> QED
    BY <2>1, <2>3 DEF Kept, Awaited, RoomOf
<1> QED
  BY <1>1, Invariant, PTL
=============================================================================
