---------------------------- MODULE DirectCalls ----------------------------
(***************************************************************************)
(* The direct-call engine: call.service.ts, the call handlers of           *)
(* events.gateway.ts and the Redis primitives they use.  An action is what *)
(* happens between two awaits: one Redis command and the code that runs on *)
(* its answer up to the next command.  The call handlers of many sockets,  *)
(* the disconnect handlers and the ring timers therefore interleave        *)
(* between any two commands, as they do on the event loop.                 *)
(*                                                                         *)
(* Every socket is open at the start: one that connects later is one that  *)
(* has not been used yet, since whether a user is online decides only one  *)
(* of the checks left out below.                                           *)
(*                                                                         *)
(* A definition X_<fault> is X with one mistake a change to the code could *)
(* make.  No specification uses it: it shows which property would notice.  *)
(*                                                                         *)
(* Left out: names, modes and tokens; the answers of the permission,       *)
(* presence and privacy checks (any answer is possible); the "call:failed" *)
(* reply to the client that asked.                                         *)
(***************************************************************************)
EXTENDS FiniteSets

CONSTANTS
    Users,
    Sockets,     \* connections, each closed at most once
    Owner,       \* Owner[s]: the user whose token opened socket s
    CallIds,     \* the ids randomUUID() yields; bounds the calls placed
    Handlers,    \* bounds the socket messages being handled at once
    None,
    Messages,    \* the messages clients send: see MessageKinds
    Faults       \* what may go wrong: see FaultKinds

MessageKinds == {"invite", "add", "accept", "decline", "cancel", "hangup"}

FaultKinds == {"drop",     \* a socket closes
               "record",   \* Redis lets a call record run out
               "lock",     \* Redis lets a pair lock run out
               "throw",    \* a Redis command, or the push or FCM lookup of an
                           \* invite, throws and the handler is abandoned
               "crash"}    \* the API process dies; Redis stays

ASSUME OwnerAssumption == Owner \in [Sockets -> Users]
ASSUME NoneAssumption  == None \notin Users \cup Sockets \cup CallIds
ASSUME SlotAssumption  == /\ Handlers \cap Sockets = {}
                          /\ Handlers \cap CallIds = {}
                          /\ Sockets \cap CallIds = {}
ASSUME InputAssumption == Messages \subseteq MessageKinds /\ Faults \subseteq FaultKinds

VARIABLES
    \* Redis
    meta,      \* meta[c]: the caller, callee and room written to call:<c>
    state,     \* state[c]: the last value written to its state field
    stored,    \* stored[c]: the key call:<c> exists
    ttl,       \* ttl[c]: the time to live it was given last
    lock,      \* lock[p]: the value of calllock:<p>, None without the key
    lease,     \* lease[p]: the time to live calllock:<p> was given last
    \* the API process
    open,      \* the sockets not yet closed
    data,      \* data[s]: socket.data.callId
    task,      \* task[t]: the handler running in slot t and where it awaits
    timer,     \* calls with a pending ring timer
    \* what happened
    told,      \* the events emitted: [to, call, event]
    lapsed,    \* calls one of whose keys Redis let run out
    severed    \* calls a failing or dying handler, or a lost timer, was to end

redisVars == <<meta, state, stored, ttl, lock, lease>>
localVars == <<open, data, task, timer>>
pastVars  == <<told, lapsed, severed>>
vars      == <<redisVars, localVars, pastVars>>
-----------------------------------------------------------------------------
RingVerdicts == {"DECLINED", "CANCELLED", "MISSED"}
Outcomes     == RingVerdicts \cup {"ACCEPTED", "ENDED"}
Events       == Outcomes \cup {"INCOMING", "RINGING"}
States       == RingVerdicts \cup {"unwritten", "RINGING", "ACTIVE", "ENDED"}

\* A message handler, the disconnect handler of a socket, a timer callback.
Slots == Handlers \cup Sockets \cup CallIds

Ops == {"idle", "invite", "add", "accept", "decline", "cancel", "hangup",
        "timeout", "offline"}
Pcs == {"start", "fetch", "lock", "write", "ttl", "announce", "arm",
        "swap", "keep", "extend", "answer", "unlock", "erase", "notify"}

Tasks == [op : Ops, pc : Pcs, sock : Sockets \cup {None},
          call : CallIds \cup {None}, to : Users \cup {None}]

CallMeta == [caller : Users, callee : Users, room : CallIds]

NoCall == [caller |-> None, callee |-> None, room |-> None]

Idle == [op |-> "idle", pc |-> "start", sock |-> None, call |-> None, to |-> None]

\* Variant: the two ids are not sorted.
PairKey_unsorted(a, b) == <<a, b>>

\* calllock:<x>:<y> sorts the two ids: the key of the pair in either order.
PairKey(a, b) == {a, b}
PairKeys == {PairKey(a, b) : a, b \in Users}
KeyOf(c) == PairKey(meta[c].caller, meta[c].callee)

Drawn(c)   == meta[c].caller # None
Parties(c) == {meta[c].caller, meta[c].callee}
Other(c, u) == IF meta[c].caller = u THEN meta[c].callee ELSE meta[c].caller

\* The users of a task; a timer callback acts for nobody.
UserOf(t) == Owner[task[t].sock]

\* A call that can still be answered or hung up.
Live(c) == stored[c] /\ state[c] \in {"RINGING", "ACTIVE"}

Init ==
    /\ meta = [c \in CallIds |-> NoCall]
    /\ state = [c \in CallIds |-> "unwritten"]
    /\ stored = [c \in CallIds |-> FALSE]
    /\ ttl = [c \in CallIds |-> "none"]
    /\ lock = [p \in PairKeys |-> None]
    /\ lease = [p \in PairKeys |-> "none"]
    /\ open = Sockets
    /\ data = [s \in Sockets |-> None]
    /\ task = [t \in Slots |-> Idle]
    /\ timer = {}
    /\ told = {}
    /\ lapsed = {}
    /\ severed = {}
-----------------------------------------------------------------------------
(* Redis primitives (redis.service.ts)                                     *)

\* SET key value EX ttl NX, when it answers OK.
SetIfAbsent(p, c) ==
    /\ lock[p] = None
    /\ lock' = [lock EXCEPT ![p] = c]
    /\ lease' = [lease EXCEPT ![p] = "ring"]

\* Whether the Lua compare-and-set on the state field would succeed.
Holds(c, expected) == stored[c] /\ state[c] = expected

CompareAndSet(c, expected, next) ==
    /\ Holds(c, expected)
    /\ state' = [state EXCEPT ![c] = next]

\* Variant: DEL, whoever holds the lock by now.
DeleteIfEquals_any(p, c) ==
    lock' = [lock EXCEPT ![p] = None]

\* Only the call that still holds the lock releases it.
DeleteIfEquals(p, c) ==
    lock' = IF lock[p] = c THEN [lock EXCEPT ![p] = None] ELSE lock

-----------------------------------------------------------------------------
(* Handlers: a slot runs one from its first await to its last              *)

At(t, op, pc) == task[t].op \in op /\ task[t].pc = pc

Goto(t, pc)    == task' = [task EXCEPT ![t] = [@ EXCEPT !.pc = pc]]
Take(t, pc, c) == task' = [task EXCEPT ![t] = [@ EXCEPT !.pc = pc, !.call = c]]
Become(t, op)  == task' = [task EXCEPT ![t] = [@ EXCEPT !.op = op]]
Finish(t)      == task' = [task EXCEPT ![t] = Idle]

Tell(audience, c, e) ==
    told' = told \cup {[to |-> u, call |-> c, event |-> e] : u \in audience}

\* The uuid of a call reaches a client only through an event.
Announced(c) == \E m \in told : m.call = c

\* A message arrives on a live socket: the handler runs up to its first await.
Begin(t, s, op, pc, c, u) ==
    /\ t \in Handlers
    /\ op \in Messages
    /\ task[t] = Idle
    /\ s \in open
    /\ task' = [task EXCEPT ![t] =
                  [op |-> op, pc |-> pc, sock |-> s, call |-> c, to |-> u]]
    /\ UNCHANGED <<redisVars, open, timer, pastVars>>

BeginInvite(t, s) ==
    \E u \in Users \ {Owner[s]} :
        Begin(t, s, "invite", "lock", None, u) /\ UNCHANGED data

BeginAdd(t, s) ==
    \E u \in Users, c \in CallIds :
        Announced(c) /\ Begin(t, s, "add", "fetch", c, u) /\ UNCHANGED data

BeginAccept(t, s) ==
    \E c \in CallIds :
        Announced(c) /\ Begin(t, s, "accept", "fetch", c, None) /\ UNCHANGED data

BeginDecline(t, s) ==
    \E c \in CallIds :
        Announced(c) /\ Begin(t, s, "decline", "fetch", c, None) /\ UNCHANGED data

\* cancel and hangup forget the socket's call before anything is read.
BeginCancel(t, s) ==
    \E c \in CallIds :
        /\ Announced(c)
        /\ Begin(t, s, "cancel", "fetch", c, None)
        /\ data' = [data EXCEPT ![s] = None]

BeginHangup(t, s) ==
    \E c \in CallIds :
        /\ Announced(c)
        /\ Begin(t, s, "hangup", "fetch", c, None)
        /\ data' = [data EXCEPT ![s] = None]
-----------------------------------------------------------------------------
(* Placing a call: invite, and addParticipant which ends in invite         *)

\* Variant: the call need not be answered yet.
AddFetch_ringing(t) ==
    LET c == task[t].call
        allowed == stored[c] /\ UserOf(t) \in Parties(c) /\ task[t].to # UserOf(t)
    IN  /\ At(t, {"add"}, "fetch")
        /\ IF allowed THEN Goto(t, "lock") ELSE Finish(t)
        /\ UNCHANGED <<redisVars, open, data, timer, pastVars>>

AddFetch(t) ==
    LET c == task[t].call
        allowed == /\ Holds(c, "ACTIVE")
                   /\ UserOf(t) \in Parties(c)
                   /\ task[t].to # UserOf(t)
    IN  /\ At(t, {"add"}, "fetch")
        /\ IF allowed THEN Goto(t, "lock") ELSE Finish(t)
        /\ UNCHANGED <<redisVars, open, data, timer, pastVars>>

\* canStartCalls, isOnline, hasSubscriptions or acceptsCalls says no, or the
\* pair is busy.
InviteRefused(t) ==
    /\ At(t, {"invite", "add"}, "lock")
    /\ Finish(t)
    /\ UNCHANGED <<redisVars, open, data, timer, pastVars>>

\* Variant: the room is the existing one even when there is none.
InviteLock_noRoom(t, c) ==
    LET u == UserOf(t)
        existing == task[t].call
        room == IF existing # None THEN meta[existing].room ELSE None
    IN  /\ At(t, {"invite", "add"}, "lock")
        /\ ~Drawn(c)
        /\ SetIfAbsent(PairKey(u, task[t].to), c)
        /\ meta' = [meta EXCEPT ![c] =
                      [caller |-> u, callee |-> task[t].to, room |-> room]]
        /\ Take(t, "write", c)
        /\ UNCHANGED <<state, stored, ttl, open, data, timer, pastVars>>

\* A fresh uuid takes the lock of the pair.  What invite() will write is known
\* here; an add rings into the room of the call it extends.
InviteLock(t, c) ==
    LET u == UserOf(t)
        existing == task[t].call
        room == IF existing # None THEN meta[existing].room ELSE c
    IN  /\ At(t, {"invite", "add"}, "lock")
        /\ ~Drawn(c)
        /\ SetIfAbsent(PairKey(u, task[t].to), c)
        /\ meta' = [meta EXCEPT ![c] =
                      [caller |-> u, callee |-> task[t].to, room |-> room]]
        /\ Take(t, "write", c)
        /\ UNCHANGED <<state, stored, ttl, open, data, timer, pastVars>>

InviteWrite(t) ==
    LET c == task[t].call
    IN  /\ At(t, {"invite", "add"}, "write")
        /\ state' = [state EXCEPT ![c] = "RINGING"]
        /\ stored' = [stored EXCEPT ![c] = TRUE]
        /\ Goto(t, "ttl")
        /\ UNCHANGED <<meta, ttl, lock, lease, open, data, timer, pastVars>>

\* Variant: the record is written without a time to live.
InviteExpire_never(t) ==
    /\ At(t, {"invite", "add"}, "ttl")
    /\ Goto(t, "announce")
    /\ UNCHANGED <<redisVars, open, data, timer, pastVars>>

InviteExpire(t) ==
    LET c == task[t].call
    IN  /\ At(t, {"invite", "add"}, "ttl")
        /\ ttl' = [ttl EXCEPT ![c] = IF stored[c] THEN "ring" ELSE @]
        /\ Goto(t, "announce")
        /\ UNCHANGED <<meta, state, stored, lock, lease, open, data, timer, pastVars>>

\* onCallInvite binds the call to the caller's socket; onCallAdd binds nothing.
InviteAnnounce(t) ==
    LET c == task[t].call
        incoming == [to |-> meta[c].callee, call |-> c, event |-> "INCOMING"]
        ringing  == [to |-> meta[c].caller, call |-> c, event |-> "RINGING"]
    IN  /\ \/ /\ At(t, {"invite"}, "announce")
              /\ data' = [data EXCEPT ![task[t].sock] = c]
              /\ told' = told \cup {incoming, ringing}
           \/ /\ At(t, {"add"}, "announce")
              /\ UNCHANGED data
              /\ told' = told \cup {incoming}
        /\ Goto(t, "arm")
        /\ UNCHANGED <<redisVars, open, timer, lapsed, severed>>

\* Variant: no scheduleRingTimeout.
InviteArm_noTimer(t) ==
    /\ At(t, {"invite", "add"}, "arm")
    /\ Finish(t)
    /\ UNCHANGED <<redisVars, open, data, timer, pastVars>>

\* Both pushes have been awaited: scheduleRingTimeout.
InviteArm(t) ==
    /\ At(t, {"invite", "add"}, "arm")
    /\ timer' = timer \cup {task[t].call}
    /\ Finish(t)
    /\ UNCHANGED <<redisVars, open, data, pastVars>>
-----------------------------------------------------------------------------
(* Answering                                                               *)

AcceptFetch(t) ==
    LET c == task[t].call
    IN  /\ At(t, {"accept"}, "fetch")
        /\ IF stored[c] /\ meta[c].callee = UserOf(t)
           THEN Goto(t, "swap")
           ELSE Finish(t)
        /\ UNCHANGED <<redisVars, open, data, timer, pastVars>>

\* Variant: the answer of the compare-and-set is ignored.
AcceptSwap_ignoresLoss(t) ==
    LET c == task[t].call
    IN  /\ At(t, {"accept"}, "swap")
        /\ \/ CompareAndSet(c, "RINGING", "ACTIVE")
           \/ ~Holds(c, "RINGING") /\ UNCHANGED state
        /\ Goto(t, "keep")
        /\ UNCHANGED <<meta, stored, ttl, lock, lease, open, data, timer, pastVars>>

AcceptSwap(t) ==
    LET c == task[t].call
    IN  /\ At(t, {"accept"}, "swap")
        /\ \/ CompareAndSet(c, "RINGING", "ACTIVE") /\ Goto(t, "keep")
           \/ ~Holds(c, "RINGING") /\ Finish(t) /\ UNCHANGED state
        /\ UNCHANGED <<meta, stored, ttl, lock, lease, open, data, timer, pastVars>>

\* Variant: EXPIRE on the pair lock only.
AcceptKeep_lockOnly(t) ==
    /\ At(t, {"accept"}, "keep")
    /\ Goto(t, "extend")
    /\ UNCHANGED <<redisVars, open, data, timer, pastVars>>

\* EXPIRE on the record: nothing if it is gone.
AcceptKeep(t) ==
    LET c == task[t].call
    IN  /\ At(t, {"accept"}, "keep")
        /\ ttl' = [ttl EXCEPT ![c] = IF stored[c] THEN "active" ELSE @]
        /\ Goto(t, "extend")
        /\ UNCHANGED <<meta, state, stored, lock, lease, open, data, timer, pastVars>>

\* EXPIRE on the pair lock, whichever call holds it by now.
AcceptExtend(t) ==
    LET p == KeyOf(task[t].call)
    IN  /\ At(t, {"accept"}, "extend")
        /\ lease' = [lease EXCEPT ![p] = IF lock[p] = None THEN @ ELSE "active"]
        /\ Goto(t, "answer")
        /\ UNCHANGED <<meta, state, stored, ttl, lock, open, data, timer, pastVars>>

AcceptAnswer(t) ==
    LET c == task[t].call
    IN  /\ At(t, {"accept"}, "answer")
        /\ data' = [data EXCEPT ![task[t].sock] = c]
        /\ Tell(Parties(c), c, "ACCEPTED")
        /\ Finish(t)
        /\ UNCHANGED <<redisVars, open, timer, lapsed, severed>>
-----------------------------------------------------------------------------
(* Ending: decline, cancel, hangup, the ring timeout                       *)

Closers == {"decline", "cancel", "hangup", "timeout"}

\* Variant: a cancel is taken for a hangup of the caller.
Expected_cancelHangsUp(op) == IF op \in {"hangup", "cancel"} THEN "ACTIVE" ELSE "RINGING"

Expected(op) == IF op = "hangup" THEN "ACTIVE" ELSE "RINGING"

Verdict(op) == CASE op = "decline" -> "DECLINED"
                 [] op = "cancel"  -> "CANCELLED"
                 [] op = "timeout" -> "MISSED"
                 [] OTHER          -> "ENDED"

\* Whose request the service honours.
Entitled(t) ==
    LET c == task[t].call
    IN  CASE task[t].op = "decline" -> UserOf(t) = meta[c].callee
          [] task[t].op = "cancel"  -> UserOf(t) = meta[c].caller
          [] task[t].op = "hangup"  -> UserOf(t) \in Parties(c)
          [] OTHER                  -> TRUE

\* Who hears the verdict: both after a timeout, else the other party.
Audience(t) ==
    LET c == task[t].call
    IN  IF task[t].op = "timeout" THEN Parties(c) ELSE {Other(c, UserOf(t))}

CloseFetch(t) ==
    /\ At(t, Closers, "fetch")
    /\ IF stored[task[t].call] /\ Entitled(t) THEN Goto(t, "swap") ELSE Finish(t)
    /\ UNCHANGED <<redisVars, open, data, timer, pastVars>>

CloseSwap(t) ==
    LET c == task[t].call
        op == task[t].op
    IN  /\ At(t, Closers, "swap")
        /\ \/ CompareAndSet(c, Expected(op), Verdict(op)) /\ Goto(t, "unlock")
           \/ ~Holds(c, Expected(op)) /\ Finish(t) /\ UNCHANGED state
        /\ UNCHANGED <<meta, stored, ttl, lock, lease, open, data, timer, pastVars>>

CloseUnlock(t) ==
    /\ At(t, Closers, "unlock")
    /\ DeleteIfEquals(KeyOf(task[t].call), task[t].call)
    /\ Goto(t, "erase")
    /\ UNCHANGED <<meta, state, stored, ttl, lease, open, data, timer, pastVars>>

CloseErase(t) ==
    /\ At(t, Closers, "erase")
    /\ stored' = [stored EXCEPT ![task[t].call] = FALSE]
    /\ Goto(t, "notify")
    /\ UNCHANGED <<meta, state, ttl, lock, lease, open, data, timer, pastVars>>

CloseNotify(t) ==
    /\ At(t, Closers, "notify")
    /\ Tell(Audience(t), task[t].call, Verdict(task[t].op))
    /\ Finish(t)
    /\ UNCHANGED <<redisVars, open, data, timer, lapsed, severed>>

TimerFires(c) ==
    /\ c \in timer
    /\ task[c] = Idle
    /\ timer' = timer \ {c}
    /\ task' = [task EXCEPT ![c] = [op |-> "timeout", pc |-> "fetch",
                                    sock |-> None, call |-> c, to |-> None]]
    /\ UNCHANGED <<redisVars, open, data, pastVars>>
-----------------------------------------------------------------------------
(* A socket closes: handleDisconnect and drop                              *)

Disconnect(s) ==
    /\ "drop" \in Faults
    /\ s \in open
    /\ open' = open \ {s}
    /\ task' = [task EXCEPT ![s] = [op |-> "offline", pc |-> "start",
                                    sock |-> s, call |-> None, to |-> None]]
    /\ UNCHANGED <<redisVars, data, timer, pastVars>>

\* markOffline and cancelKnock have been awaited; only now is data.callId read.
DropLook(t) ==
    LET c == data[task[t].sock]
    IN  /\ At(t, {"offline"}, "start")
        /\ IF c = None THEN Finish(t) ELSE Take(t, "fetch", c)
        /\ UNCHANGED <<redisVars, open, data, timer, pastVars>>

\* Variant: whoever's socket closed, a ringing call is declined.
DropFetch_declines(t) ==
    LET c == task[t].call
    IN  /\ At(t, {"offline"}, "fetch")
        /\ \/ Holds(c, "ACTIVE") /\ Become(t, "hangup")
           \/ Holds(c, "RINGING") /\ Become(t, "decline")
           \/ ~Holds(c, "ACTIVE") /\ ~Holds(c, "RINGING") /\ Finish(t)
        /\ UNCHANGED <<redisVars, open, data, timer, pastVars>>

\* drop() reads the record once, then starts over as one of the other three.
DropFetch(t) ==
    LET c == task[t].call
        ringing == IF meta[c].caller = UserOf(t) THEN "cancel" ELSE "decline"
    IN  /\ At(t, {"offline"}, "fetch")
        /\ \/ Holds(c, "ACTIVE") /\ Become(t, "hangup")
           \/ Holds(c, "RINGING") /\ Become(t, ringing)
           \/ ~Holds(c, "ACTIVE") /\ ~Holds(c, "RINGING") /\ Finish(t)
        /\ UNCHANGED <<redisVars, open, data, timer, pastVars>>
-----------------------------------------------------------------------------
(* What the environment does                                               *)

\* Every key but a record between its HSET and its EXPIRE has a time to live.
ExpireRecord(c) ==
    /\ "record" \in Faults
    /\ stored[c] /\ ttl[c] # "none"
    /\ stored' = [stored EXCEPT ![c] = FALSE]
    /\ lapsed' = lapsed \cup {c}
    /\ UNCHANGED <<meta, state, ttl, lock, lease, localVars, told, severed>>

ExpireLock(p) ==
    /\ "lock" \in Faults
    /\ lock[p] # None
    /\ lapsed' = lapsed \cup {lock[p]}
    /\ lock' = [lock EXCEPT ![p] = None]
    /\ UNCHANGED <<meta, state, stored, ttl, lease, localVars, told, severed>>

\* An await rejects: the rest of the handler is not run.
HandlerFails(t) ==
    /\ "throw" \in Faults
    /\ task[t] # Idle
    /\ severed' = severed \cup ({task[t].call} \ {None})
    /\ Finish(t)
    /\ UNCHANGED <<redisVars, open, data, timer, told, lapsed>>

\* The clients of open sockets reconnect by themselves: the name of a socket
\* then stands for the new one, which carries no call.
Crash ==
    /\ "crash" \in Faults
    /\ severed' = severed \cup ({task[t].call : t \in Slots} \ {None}) \cup timer
    /\ task' = [t \in Slots |-> Idle]
    /\ timer' = {}
    /\ data' = [s \in Sockets |-> None]
    /\ UNCHANGED <<redisVars, open, told, lapsed>>
-----------------------------------------------------------------------------
Message(t, s) ==
    \/ BeginInvite(t, s)
    \/ BeginAdd(t, s)
    \/ BeginAccept(t, s)
    \/ BeginDecline(t, s)
    \/ BeginCancel(t, s)
    \/ BeginHangup(t, s)

Step(t) ==
    \/ AddFetch(t)
    \/ InviteRefused(t)
    \/ \E c \in CallIds : InviteLock(t, c)
    \/ InviteWrite(t)
    \/ InviteExpire(t)
    \/ InviteAnnounce(t)
    \/ InviteArm(t)
    \/ AcceptFetch(t)
    \/ AcceptSwap(t)
    \/ AcceptKeep(t)
    \/ AcceptExtend(t)
    \/ AcceptAnswer(t)
    \/ CloseFetch(t)
    \/ CloseSwap(t)
    \/ CloseUnlock(t)
    \/ CloseErase(t)
    \/ CloseNotify(t)
    \/ DropLook(t)
    \/ DropFetch(t)

Next ==
    \/ \E s \in Sockets : Disconnect(s)
    \/ \E t \in Handlers, s \in Sockets : Message(t, s)
    \/ \E t \in Slots : Step(t) \/ HandlerFails(t)
    \/ \E c \in CallIds : TimerFires(c) \/ ExpireRecord(c)
    \/ \E p \in PairKeys : ExpireLock(p)
    \/ Crash

\* The event loop resumes every handler whose await settled and fires every
\* timer.  Clients owe nothing, and Redis may keep a key as long as it likes.
Fairness ==
    /\ \A t \in Slots : WF_vars(Step(t))
    /\ \A c \in CallIds : WF_vars(TimerFires(c))

\* Redis drops every record that has a time to live.
Expiry == \A c \in CallIds : WF_vars(ExpireRecord(c))

Spec     == Init /\ [][Next]_vars
FairSpec == Spec /\ Fairness
-----------------------------------------------------------------------------
(* Correctness                                                             *)

\* Every variable has its type (the record of call.service.ts, SocketData of
\* events.gateway.ts).
TypeOK ==
    /\ meta \in [CallIds -> CallMeta \cup {NoCall}]
    /\ state \in [CallIds -> States]
    /\ stored \in [CallIds -> BOOLEAN]
    /\ ttl \in [CallIds -> {"none", "ring", "active"}]
    /\ lock \in [PairKeys -> CallIds \cup {None}]
    /\ lease \in [PairKeys -> {"none", "ring", "active"}]
    /\ open \subseteq Sockets
    /\ data \in [Sockets -> CallIds \cup {None}]
    /\ task \in [Slots -> Tasks]
    /\ timer \subseteq CallIds
    /\ told \subseteq [to : Users, call : CallIds, event : Events]
    /\ lapsed \subseteq CallIds
    /\ severed \subseteq CallIds

\* Glare: two people never have two calls in progress, whoever rang first and
\* whatever else is being answered, cancelled or torn down, unless a key of one
\* of the two ran out in Redis (invite, setIfAbsent, cleanup).
OneLiveCallPerPair ==
    \A c, d \in CallIds :
        Live(c) /\ Live(d) /\ Parties(c) = Parties(d) /\ c # d
            => c \in lapsed \/ d \in lapsed

\* Racing accept, decline, cancel, timeout and disconnects never announce two
\* outcomes of one ring, to anyone; only an answered call is announced ENDED
\* (the compare-and-set of every transition).
OneVerdict ==
    \A m, n \in told :
        m.call = n.call /\ {m.event, n.event} \subseteq Outcomes /\ m.event # n.event
            => {m.event, n.event} = {"ACCEPTED", "ENDED"}

\* The lock of a pair and its call go together, whatever cleanups, answers and
\* new invites interleave.  A live call holds its lock: an invite that starts
\* between the two commands of a cleanup, or after a lock ran out, is not robbed
\* of its lock by the late cleanup of the call before it (deleteIfEquals); only
\* a call whose own key ran out goes without.  And a pair is "busy" only because
\* of a live call, one being written or cleaned up, one of whose keys ran out,
\* or one a dying handler left behind.
LockFollowsCall ==
    /\ \A c \in CallIds : Live(c) => lock[KeyOf(c)] = c \/ c \in lapsed
    /\ \A p \in PairKeys : LET c == lock[p] IN
          c # None =>
              \/ Live(c)
              \/ c \in lapsed \cup severed
              \/ \E t \in Slots : /\ task[t].call = c
                                   /\ \/ At(t, {"invite", "add"}, "write")
                                      \/ At(t, Closers, "unlock")

\* A call that rings into the room of another call was placed by a party of a
\* call in that room which was answered (addParticipant).
InvitedFromInside ==
    \A c \in CallIds :
        Drawn(c) /\ meta[c].room # c =>
            \E d \in CallIds \ {c} :
                /\ meta[d].room = meta[c].room
                /\ meta[c].caller \in Parties(d)
                /\ state[d] \in {"ACTIVE", "ENDED"}

\* No record stays for ever, and an answered call has its four hours: every
\* record has a time to live or invite is about to give it one; the record of an
\* answered call, and the lock it holds, have the long one or accept is about to
\* give it (ringTtl, activeTtl).  Excepted are the calls whose handler was cut
\* short between two of its commands.
KeysExpire ==
    \A c \in CallIds :
        LET Doing(ops, pcs) == \E t \in Slots, pc \in pcs : task[t].call = c /\ At(t, ops, pc)
        IN  stored[c] /\ c \notin severed =>
                /\ ttl[c] # "none" \/ Doing({"invite", "add"}, {"ttl"})
                /\ state[c] = "ACTIVE" =>
                      /\ ttl[c] = "active" \/ Doing({"accept"}, {"keep"})
                      /\ lock[KeyOf(c)] = c =>
                            lease[KeyOf(c)] = "active" \/ Doing({"accept"}, {"keep", "extend"})

\* DirectCalls implements CallPromise.
Promise == INSTANCE CallPromise WITH
    phase <- state,
    parties <- [c \in CallIds |-> IF state[c] = "unwritten" THEN {} ELSE Parties(c)]

PromiseSpec == Promise!Spec

\* Everybody who is rung, or who rings, hears how it ended, or ended it: once a
\* call is announced, its caller and its callee are each told an outcome, save
\* the one who cancelled or declined, whatever sockets close and whatever Redis
\* does not do (scheduleRingTimeout, drop).  Excepted are a record that ran out
\* while it rang and a call whose handler was cut short.
RingIsResolved ==
    \A c \in CallIds :
        LET Hears(u) == \E m \in told : m.call = c /\ m.to = u /\ m.event \in Outcomes
            Ended(u) == \/ state[c] = "CANCELLED" /\ u = meta[c].caller
                        \/ state[c] = "DECLINED" /\ u = meta[c].callee
        IN  Announced(c) ~> \/ \A u \in Parties(c) : Hears(u) \/ Ended(u)
                            \/ ~stored[c] /\ state[c] = "RINGING"
                            \/ c \in severed

\* Where Redis drops what has a time to live, no record stays RINGING: when the
\* push lookups fail and no timer is armed, or the process died with its timers,
\* the time to live ends it.  Excepted is a record whose invite died between its
\* HSET and its EXPIRE.
RingingEnds ==
    Expiry => \A c \in CallIds :
        stored[c] /\ state[c] = "RINGING" ~>
            ~(stored[c] /\ state[c] = "RINGING") \/ (ttl[c] = "none" /\ ~Announced(c))

\* "tear down whatever call it was part of ... without leaving a zombie call"
\* (drop): when the handler of a disconnect is done with the call it found, the
\* call is over, whoever else was ending it, unless it was answered after drop
\* had read that it rang.
DropEndsTheCall ==
    [][\A s \in Sockets, c \in CallIds :
          task[s].call = c /\ task'[s] = Idle =>
              \/ ~Live(c)'
              \/ task[s].op \in {"cancel", "decline"} /\ state[c] = "ACTIVE"
              \/ c \in severed']_vars
=============================================================================
