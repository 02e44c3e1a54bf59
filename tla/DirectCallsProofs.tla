------------------------- MODULE DirectCallsProofs -------------------------
(***************************************************************************)
(* Theorems about DirectCalls, for any users, sockets, calls, handlers,    *)
(* messages and faults.  The inductive invariant is IInv; each part of it  *)
(* is proved with the parts before it.                                     *)
(***************************************************************************)
EXTENDS DirectCalls, TLAPS

(***************************************************************************)
(* Shape: a handler only speaks of a call that was drawn, and so does      *)
(* whatever outlives a handler; the slot of a socket is used once.         *)
(***************************************************************************)
TaskShape ==
    \A t \in Slots :
        /\ task[t].op \notin {"idle", "timeout"} => task[t].sock \in Sockets
        /\ task[t].op \in {"invite", "add"} => task[t].to \in Users
        /\ task[t].call # None => Drawn(task[t].call)
        /\ task[t].op \in Closers \cup {"add", "accept"} => task[t].call # None
        /\ task[t].op = "invite" => (task[t].pc = "lock" <=> task[t].call = None)
        /\ task[t].op = "offline" /\ task[t].pc # "start" => task[t].call # None

Traces ==
    /\ \A s \in Sockets : data[s] # None => Drawn(data[s])
    /\ \A c \in timer : Drawn(c)
    /\ \A m \in told : Drawn(m.call)
    /\ \A c \in CallIds : ~Drawn(c) => state[c] = "unwritten"
    /\ \A c \in CallIds : stored[c] => state[c] # "unwritten"

LockNames ==
    \A p \in PairKeys : lock[p] # None => Drawn(lock[p]) /\ KeyOf(lock[p]) = p

OpenSlots ==
    /\ \A s \in open : task[s] = Idle
    /\ \A c \in CallIds : task[c] # Idle => task[c].op = "timeout" /\ task[c].call = c

(***************************************************************************)
(* Secrecy: until it is announced, only the invite that drew a call knows  *)
(* it.  No other handler can change its record.                            *)
(***************************************************************************)
Placing(t) == At(t, {"invite", "add"}, "write") \/ At(t, {"invite", "add"}, "ttl")
                \/ At(t, {"invite", "add"}, "announce")

Secret ==
    \A t \in Slots : Placing(t) =>
        /\ ~Announced(task[t].call)
        /\ task[t].call \notin timer
        /\ \A s \in Sockets : data[s] # task[t].call
        /\ \A u \in Slots \ {t} : task[u].call # task[t].call
        /\ state[task[t].call] =
              IF task[t].pc = "write" THEN "unwritten" ELSE "RINGING"

(***************************************************************************)
(* Progress: what a handler has done shows in the state field for good, and*)
(* the lock it released is not its call's again.                           *)
(***************************************************************************)
Done(t) ==
    LET op == task[t].op
        pc == task[t].pc
        c  == task[t].call
    IN  /\ op \in {"invite", "add"} /\ pc = "arm" => state[c] # "unwritten"
        /\ op = "accept" /\ pc \in {"keep", "extend", "answer"} =>
              state[c] \in {"ACTIVE", "ENDED"}
        /\ op \in Closers /\ pc \in {"unlock", "erase", "notify"} =>
              state[c] = Verdict(op)
        /\ op \in Closers /\ pc \in {"erase", "notify"} => lock[KeyOf(c)] # c
        /\ op = "add" /\ pc = "lock" =>
              state[c] \in {"ACTIVE", "ENDED"} /\ UserOf(t) \in Parties(c)

Progress == \A t \in Slots : Done(t)

(***************************************************************************)
(* Truth: what was announced is what happened, to a party of the call.     *)
(***************************************************************************)
Truth ==
    \A m \in told :
        /\ m.to \in Parties(m.call)
        /\ m.event \in {"INCOMING", "RINGING"} => state[m.call] # "unwritten"
        /\ m.event = "ACCEPTED" => state[m.call] \in {"ACTIVE", "ENDED"}
        /\ m.event \in RingVerdicts \cup {"ENDED"} => state[m.call] = m.event

(***************************************************************************)
(* Locked: a call being written or in progress holds the lock of its pair, *)
(* unless a key of it ran out.                                             *)
(***************************************************************************)
Locked ==
    /\ \A c \in CallIds : Live(c) => lock[KeyOf(c)] = c \/ c \in lapsed
    /\ \A c \in CallIds :
          state[c] \in {"RINGING", "ACTIVE"} => stored[c] \/ c \in lapsed
    /\ \A t \in Slots : LET c == task[t].call IN
          At(t, {"invite", "add"}, "write") => lock[KeyOf(c)] = c \/ c \in lapsed

\* The inductive invariant.
IInv == /\ TypeOK /\ TaskShape /\ Traces /\ LockNames /\ OpenSlots /\ Secret
        /\ Progress /\ Truth /\ Locked

(* What the helpers do to the slots: the one they are called for moves, the  *)
(* others stay.                                                              *)

\* A handler at its next await keeps everything but its program counter.
LEMMA GotoFacts ==
  ASSUME task \in [Slots -> Tasks], NEW t \in Slots, NEW pc \in Pcs, Goto(t, pc)
  PROVE  /\ task' \in [Slots -> Tasks]
         /\ \A u \in Slots \ {t} : task'[u] = task[u]
         /\ task'[t].pc = pc
         /\ task'[t].op = task[t].op
         /\ task'[t].sock = task[t].sock
         /\ task'[t].call = task[t].call
         /\ task'[t].to = task[t].to
  BY DEF Goto, Tasks

\* A handler that learns its call keeps the rest of its record.
LEMMA TakeFacts ==
  ASSUME task \in [Slots -> Tasks], NEW t \in Slots, NEW pc \in Pcs,
         NEW c \in CallIds, Take(t, pc, c)
  PROVE  /\ task' \in [Slots -> Tasks]
         /\ \A u \in Slots \ {t} : task'[u] = task[u]
         /\ task'[t].pc = pc
         /\ task'[t].op = task[t].op
         /\ task'[t].sock = task[t].sock
         /\ task'[t].call = c
         /\ task'[t].to = task[t].to
  BY DEF Take, Tasks

\* A disconnect that turns into a hangup, cancel or decline keeps its call.
LEMMA BecomeFacts ==
  ASSUME task \in [Slots -> Tasks], NEW t \in Slots, NEW op \in Ops, Become(t, op)
  PROVE  /\ task' \in [Slots -> Tasks]
         /\ \A u \in Slots \ {t} : task'[u] = task[u]
         /\ task'[t].pc = task[t].pc
         /\ task'[t].op = op
         /\ task'[t].sock = task[t].sock
         /\ task'[t].call = task[t].call
         /\ task'[t].to = task[t].to
  BY DEF Become, Tasks

\* A handler that is done leaves its slot idle.
LEMMA FinishFacts ==
  ASSUME task \in [Slots -> Tasks], NEW t \in Slots, Finish(t)
  PROVE  /\ task' \in [Slots -> Tasks]
         /\ \A u \in Slots \ {t} : task'[u] = task[u]
         /\ task'[t] = Idle
         /\ task'[t].op = "idle" /\ task'[t].pc = "start" /\ task'[t].call = None
         /\ task'[t].sock = None
  BY DEF Finish, Tasks, Idle, Ops, Pcs

Shape == TypeOK /\ TaskShape /\ Traces /\ LockNames

\* The call of a handler was drawn: it has two parties and a pair key.
LEMMA CallFacts ==
  ASSUME Shape, NEW t \in Slots, task[t].call # None
  PROVE  /\ task[t].call \in CallIds
         /\ meta[task[t].call] \in CallMeta
         /\ KeyOf(task[t].call) \in PairKeys
  BY NoneAssumption DEF Shape, TypeOK, TaskShape, Tasks, Drawn, CallMeta, NoCall, KeyOf,
     PairKeys

\* Shape is inductive by itself: each action keeps each of its four parts.
LEMMA ShapeInvariant == Spec => []Shape
<1> USE OwnerAssumption, NoneAssumption
<1>1. Init => Shape
  BY DEF Init, Shape, TypeOK, TaskShape, Traces, LockNames, Tasks, Ops, Pcs, Slots, Idle,
     NoCall, Drawn, States, Closers
<1>2. Shape /\ [Next]_vars => Shape'
  <2> SUFFICES ASSUME Shape, [Next]_vars PROVE Shape'
    OBVIOUS
  <2> USE DEF Shape
  <2>1. ASSUME NEW s \in Sockets, Disconnect(s) PROVE Shape'
    <3>1. TypeOK'
      BY <2>1 DEF Disconnect, TypeOK, Tasks, Ops, Pcs, Slots, redisVars, pastVars, Idle
    <3>2. TaskShape'
      BY <2>1 DEF Disconnect, TypeOK, Slots, redisVars, pastVars, Drawn, TaskShape, Closers
    <3>3. Traces'
      BY <2>1 DEF Disconnect, TypeOK, redisVars, pastVars, Drawn, Traces
    <3>4. LockNames'
      BY <2>1 DEF Disconnect, TypeOK, redisVars, pastVars, Drawn, LockNames, KeyOf
    <3> QED
      BY <3>1, <3>2, <3>3, <3>4 DEF Shape
  <2>2. ASSUME NEW t \in Handlers, NEW s \in Sockets, BeginInvite(t, s) PROVE Shape'
    <3>1. TypeOK'
      BY <2>2 DEF BeginInvite, Begin, TypeOK, Tasks, Ops, Pcs, Slots, redisVars, pastVars, Idle
    <3>2. TaskShape'
      BY <2>2 DEF BeginInvite, Begin, Slots, redisVars, pastVars, Idle, Drawn, TaskShape,
         Closers
    <3>3. Traces'
      BY <2>2 DEF BeginInvite, Begin, TypeOK, redisVars, pastVars, Idle, Drawn, Traces
    <3>4. LockNames'
      BY <2>2 DEF BeginInvite, Begin, TypeOK, redisVars, pastVars, Idle, Drawn, LockNames, KeyOf
    <3> QED
      BY <3>1, <3>2, <3>3, <3>4 DEF Shape
  <2>3. ASSUME NEW t \in Handlers, NEW s \in Sockets, BeginAdd(t, s) PROVE Shape'
    <3>1. TypeOK'
      BY <2>3 DEF BeginAdd, Begin, TypeOK, Tasks, Ops, Pcs, Slots, redisVars, pastVars,
         Idle, Announced
    <3>2. TaskShape'
      BY <2>3 DEF BeginAdd, Begin, Slots, redisVars, pastVars, Idle, Drawn, Announced,
         TaskShape, Traces, Closers
    <3>3. Traces'
      BY <2>3 DEF BeginAdd, Begin, TypeOK, redisVars, pastVars, Idle, Drawn, Announced, Traces
    <3>4. LockNames'
      BY <2>3 DEF BeginAdd, Begin, redisVars, pastVars, Idle, Drawn, Announced, LockNames, KeyOf
    <3> QED
      BY <3>1, <3>2, <3>3, <3>4 DEF Shape
  <2>4. ASSUME NEW t \in Handlers, NEW s \in Sockets, BeginAccept(t, s) PROVE Shape'
    <3>1. TypeOK'
      BY <2>4 DEF BeginAccept, Begin, TypeOK, Tasks, Ops, Pcs, Slots, redisVars, pastVars,
         Idle, Announced
    <3>2. TaskShape'
      BY <2>4 DEF BeginAccept, Begin, Slots, redisVars, pastVars, Idle, Drawn, Announced,
         TaskShape, Traces, Closers
    <3>3. Traces'
      BY <2>4 DEF BeginAccept, Begin, TypeOK, redisVars, pastVars, Idle, Drawn, Announced,
         Traces
    <3>4. LockNames'
      BY <2>4 DEF BeginAccept, Begin, redisVars, pastVars, Idle, Drawn, Announced,
         LockNames, KeyOf
    <3> QED
      BY <3>1, <3>2, <3>3, <3>4 DEF Shape
  <2>5. ASSUME NEW t \in Handlers, NEW s \in Sockets, BeginDecline(t, s) PROVE Shape'
    <3>1. TypeOK'
      BY <2>5 DEF BeginDecline, Begin, TypeOK, Tasks, Ops, Pcs, Slots, redisVars, pastVars,
         Idle, Announced
    <3>2. TaskShape'
      BY <2>5 DEF BeginDecline, Begin, Slots, redisVars, pastVars, Idle, Drawn, Announced,
         TaskShape, Traces, Closers
    <3>3. Traces'
      BY <2>5 DEF BeginDecline, Begin, TypeOK, redisVars, pastVars, Idle, Drawn, Announced,
         Traces
    <3>4. LockNames'
      BY <2>5 DEF BeginDecline, Begin, redisVars, pastVars, Idle, Drawn, Announced,
         LockNames, KeyOf
    <3> QED
      BY <3>1, <3>2, <3>3, <3>4 DEF Shape
  <2>6. ASSUME NEW t \in Handlers, NEW s \in Sockets, BeginCancel(t, s) PROVE Shape'
    <3>1. TypeOK'
      BY <2>6 DEF BeginCancel, Begin, TypeOK, Tasks, Ops, Pcs, Slots, redisVars, pastVars,
         Idle, Announced
    <3>2. TaskShape'
      BY <2>6 DEF BeginCancel, Begin, Slots, redisVars, pastVars, Idle, Drawn, Announced,
         TaskShape, Traces, Closers
    <3>3. Traces'
      BY <2>6 DEF BeginCancel, Begin, TypeOK, redisVars, pastVars, Idle, Drawn, Announced,
         Traces
    <3>4. LockNames'
      BY <2>6 DEF BeginCancel, Begin, redisVars, pastVars, Idle, Drawn, Announced,
         LockNames, KeyOf
    <3> QED
      BY <3>1, <3>2, <3>3, <3>4 DEF Shape
  <2>7. ASSUME NEW t \in Handlers, NEW s \in Sockets, BeginHangup(t, s) PROVE Shape'
    <3>1. TypeOK'
      BY <2>7 DEF BeginHangup, Begin, TypeOK, Tasks, Ops, Pcs, Slots, redisVars, pastVars,
         Idle, Announced
    <3>2. TaskShape'
      BY <2>7 DEF BeginHangup, Begin, Slots, redisVars, pastVars, Idle, Drawn, Announced,
         TaskShape, Traces, Closers
    <3>3. Traces'
      BY <2>7 DEF BeginHangup, Begin, TypeOK, redisVars, pastVars, Idle, Drawn, Announced,
         Traces
    <3>4. LockNames'
      BY <2>7 DEF BeginHangup, Begin, redisVars, pastVars, Idle, Drawn, Announced,
         LockNames, KeyOf
    <3> QED
      BY <3>1, <3>2, <3>3, <3>4 DEF Shape
  <2>8. ASSUME NEW t \in Slots, AddFetch(t) PROVE Shape'
    <3>1. task[t].call # None
      BY <2>8 DEF AddFetch, At, TaskShape, Closers
    <3>2. task[t].call \in CallIds /\ meta[task[t].call] \in CallMeta /\ KeyOf(task[t].call) \in PairKeys
      BY <3>1, CallFacts
    <3>3. task' \in [Slots -> Tasks]
      BY <2>8, GotoFacts, FinishFacts DEF AddFetch, TypeOK, Pcs
    <3>4. TypeOK'
      BY <2>8, <3>1, <3>2, <3>3 DEF AddFetch, TypeOK, Tasks, redisVars, pastVars, At, Goto,
         Finish, Idle, UserOf, Holds, CallMeta, NoCall, Parties
    <3>5. TaskShape'
      BY <2>8, <3>1, <3>2, GotoFacts, FinishFacts DEF AddFetch, At, TaskShape, TypeOK, Pcs,
         redisVars, Drawn, Closers
    <3>6. Traces'
      BY <2>8, <3>1, <3>2, <3>3 DEF AddFetch, redisVars, pastVars, At, Goto, Finish, Idle,
         UserOf, Holds, Drawn, Traces, Parties
    <3>7. LockNames'
      BY <2>8, <3>1, <3>2, <3>3 DEF AddFetch, redisVars, pastVars, At, Goto, Finish, Idle,
         UserOf, Holds, Drawn, LockNames, Parties, KeyOf
    <3> QED
      BY <3>4, <3>5, <3>6, <3>7 DEF Shape
  <2>9. ASSUME NEW t \in Slots, InviteRefused(t) PROVE Shape'
    <3>1. TypeOK'
      BY <2>9 DEF InviteRefused, TypeOK, Tasks, Ops, Pcs, Slots, redisVars, pastVars, At,
         Finish, Idle
    <3>2. TaskShape'
      BY <2>9 DEF InviteRefused, Slots, redisVars, pastVars, At, Finish, Idle, Drawn,
         TaskShape, Closers
    <3>3. Traces'
      BY <2>9 DEF InviteRefused, TypeOK, redisVars, pastVars, At, Finish, Idle, Drawn, Traces
    <3>4. LockNames'
      BY <2>9 DEF InviteRefused, redisVars, pastVars, At, Finish, Idle, Drawn, LockNames, KeyOf
    <3> QED
      BY <3>1, <3>2, <3>3, <3>4 DEF Shape
  <2>10. ASSUME NEW t \in Slots, NEW c \in CallIds, InviteLock(t, c) PROVE Shape'
    <3>1. task' \in [Slots -> Tasks]
      BY <2>10, TakeFacts DEF InviteLock, TypeOK, Pcs
    <3>2. UserOf(t) \in Users /\ task[t].to \in Users
      BY <2>10 DEF InviteLock, At, TaskShape, UserOf
    <3>3. meta' \in [CallIds -> CallMeta \cup {NoCall}]
      BY <2>10, <3>2 DEF InviteLock, TypeOK, CallMeta, TaskShape, Drawn, NoCall, Tasks
    <3>4. TypeOK'
      BY <2>10, <3>1, <3>2, <3>3 DEF InviteLock, SetIfAbsent, TypeOK, Tasks, pastVars, At,
         UserOf, CallMeta, NoCall, Drawn, Take
    <3>5. TaskShape'
      BY <2>10, <3>1, <3>2, <3>3 DEF InviteLock, SetIfAbsent, Slots, pastVars, At, UserOf,
         Drawn, TaskShape, Closers, Take
    <3>6. Traces'
      BY <2>10, <3>1, <3>2, <3>3 DEF InviteLock, SetIfAbsent, TypeOK, pastVars, At, UserOf,
         Drawn, Traces, Take
    <3>7. LockNames'
      BY <2>10, <3>1, <3>2, <3>3 DEF InviteLock, SetIfAbsent, pastVars, At, UserOf, Drawn,
         LockNames, KeyOf, Take
    <3> QED
      BY <3>4, <3>5, <3>6, <3>7 DEF Shape
  <2>11. ASSUME NEW t \in Slots, InviteWrite(t) PROVE Shape'
    <3>1. task[t].call # None
      BY <2>11 DEF InviteWrite, At, TaskShape, Closers
    <3>2. task[t].call \in CallIds /\ meta[task[t].call] \in CallMeta /\ KeyOf(task[t].call) \in PairKeys
      BY <3>1, CallFacts
    <3>3. task' \in [Slots -> Tasks]
      BY <2>11, GotoFacts, FinishFacts DEF InviteWrite, TypeOK, Pcs
    <3>4. TypeOK'
      BY <2>11, <3>1, <3>2, <3>3 DEF InviteWrite, TypeOK, Tasks, Ops, Pcs, Slots, pastVars,
         At, Goto, Idle, States, RingVerdicts
    <3>5. TaskShape'
      BY <2>11, <3>1, <3>2, <3>3 DEF InviteWrite, TypeOK, Slots, pastVars, At, Goto, Drawn,
         TaskShape, Closers
    <3>6. Traces'
      BY <2>11, <3>1, <3>2, <3>3 DEF InviteWrite, TypeOK, Tasks, pastVars, At, Goto, Drawn,
         TaskShape, Traces
    <3>7. LockNames'
      BY <2>11, <3>1, <3>2, <3>3 DEF InviteWrite, TypeOK, pastVars, At, Goto, Drawn,
         LockNames, KeyOf
    <3> QED
      BY <3>4, <3>5, <3>6, <3>7 DEF Shape
  <2>12. ASSUME NEW t \in Slots, InviteExpire(t) PROVE Shape'
    <3>1. task[t].call # None
      BY <2>12 DEF InviteExpire, At, TaskShape, Closers
    <3>2. task[t].call \in CallIds /\ meta[task[t].call] \in CallMeta /\ KeyOf(task[t].call) \in PairKeys
      BY <3>1, CallFacts
    <3>3. task' \in [Slots -> Tasks]
      BY <2>12, GotoFacts, FinishFacts DEF InviteExpire, TypeOK, Pcs
    <3>4. TypeOK'
      BY <2>12, <3>1, <3>2, <3>3 DEF InviteExpire, TypeOK, Tasks, pastVars, At, Goto,
         CallMeta, NoCall
    <3>5. TaskShape'
      BY <2>12, <3>1, <3>2, <3>3 DEF InviteExpire, TypeOK, Slots, pastVars, At, Goto, Drawn,
         TaskShape, Closers
    <3>6. Traces'
      BY <2>12, <3>1, <3>2, <3>3 DEF InviteExpire, TypeOK, pastVars, At, Goto, Drawn, Traces
    <3>7. LockNames'
      BY <2>12, <3>1, <3>2, <3>3 DEF InviteExpire, TypeOK, pastVars, At, Goto, Drawn,
         LockNames, KeyOf
    <3> QED
      BY <3>4, <3>5, <3>6, <3>7 DEF Shape
  <2>13. ASSUME NEW t \in Slots, InviteAnnounce(t) PROVE Shape'
    <3>1. task[t].call # None
      BY <2>13 DEF InviteAnnounce, At, TaskShape, Closers
    <3>2. task[t].call \in CallIds /\ meta[task[t].call] \in CallMeta /\ KeyOf(task[t].call) \in PairKeys
      BY <3>1, CallFacts
    <3>3. task' \in [Slots -> Tasks]
      BY <2>13, GotoFacts, FinishFacts DEF InviteAnnounce, TypeOK, Pcs
    <3>4. TypeOK'
      BY <2>13, <3>1, <3>2, <3>3 DEF InviteAnnounce, TypeOK, Tasks, Ops, Pcs, Slots,
         redisVars, At, Goto, Idle, CallMeta, NoCall, Events
    <3>5. TaskShape'
      BY <2>13, <3>1, <3>2, <3>3 DEF InviteAnnounce, TypeOK, Slots, redisVars, At, Goto,
         Drawn, TaskShape, Closers
    <3>6. Traces'
      BY <2>13, <3>1, <3>2 DEF InviteAnnounce, At, TaskShape, Traces, TypeOK, Drawn, redisVars
    <3>7. LockNames'
      BY <2>13, <3>1, <3>2, <3>3 DEF InviteAnnounce, TypeOK, redisVars, At, Goto, Drawn,
         LockNames, KeyOf
    <3> QED
      BY <3>4, <3>5, <3>6, <3>7 DEF Shape
  <2>14. ASSUME NEW t \in Slots, InviteArm(t) PROVE Shape'
    <3>1. TypeOK'
      BY <2>14 DEF InviteArm, TypeOK, Tasks, Ops, Pcs, Slots, redisVars, pastVars, At,
         Finish, Idle, CallMeta, NoCall, Drawn, TaskShape
    <3>2. TaskShape'
      BY <2>14 DEF InviteArm, Slots, redisVars, pastVars, At, Finish, Idle, Drawn,
         TaskShape, Closers
    <3>3. Traces'
      BY <2>14 DEF InviteArm, Tasks, redisVars, pastVars, At, Finish, Idle, Drawn,
         TaskShape, Traces
    <3>4. LockNames'
      BY <2>14 DEF InviteArm, redisVars, pastVars, At, Finish, Idle, Drawn, LockNames, KeyOf
    <3> QED
      BY <3>1, <3>2, <3>3, <3>4 DEF Shape
  <2>15. ASSUME NEW t \in Slots, AcceptFetch(t) PROVE Shape'
    <3>0. task' \in [Slots -> Tasks]
      BY <2>15, GotoFacts, FinishFacts DEF AcceptFetch, TypeOK, Pcs
    <3>1. TypeOK'
      BY <2>15, <3>0 DEF AcceptFetch, TypeOK, redisVars, pastVars
    <3>2. TaskShape'
      BY <2>15 DEF AcceptFetch, TypeOK, Tasks, Slots, redisVars, pastVars, At, Goto, Finish,
         Idle, UserOf, Drawn, TaskShape, Closers
    <3>3. Traces'
      BY <2>15 DEF AcceptFetch, redisVars, pastVars, At, Goto, Finish, Idle, UserOf, Drawn,
         Traces
    <3>4. LockNames'
      BY <2>15 DEF AcceptFetch, redisVars, pastVars, At, Goto, Finish, Idle, UserOf, Drawn,
         LockNames, KeyOf
    <3> QED
      BY <3>1, <3>2, <3>3, <3>4 DEF Shape
  <2>16. ASSUME NEW t \in Slots, AcceptSwap(t) PROVE Shape'
    <3>1. task[t].call # None
      BY <2>16 DEF AcceptSwap, At, TaskShape, Closers
    <3>2. task[t].call \in CallIds /\ meta[task[t].call] \in CallMeta /\ KeyOf(task[t].call) \in PairKeys
      BY <3>1, CallFacts
    <3>3. task' \in [Slots -> Tasks]
      BY <2>16, GotoFacts, FinishFacts DEF AcceptSwap, TypeOK, Pcs
    <3>4. TypeOK'
      BY <2>16, <3>1, <3>2, <3>3 DEF AcceptSwap, TypeOK, Tasks, Ops, Pcs, Slots, pastVars,
         At, Goto, Finish, Idle, CompareAndSet, Holds, States, RingVerdicts
    <3>5. TaskShape'
      BY <2>16, <3>1, <3>2, <3>3 DEF AcceptSwap, Tasks, Slots, pastVars, At, Goto, Finish,
         Idle, CompareAndSet, Holds, Drawn, TaskShape, Closers
    <3>6. Traces'
      BY <2>16, <3>1, <3>2, <3>3 DEF AcceptSwap, TypeOK, pastVars, At, Goto, Finish, Idle,
         CompareAndSet, Holds, Drawn, Traces
    <3>7. LockNames'
      BY <2>16, <3>1, <3>2, <3>3 DEF AcceptSwap, pastVars, At, Goto, Finish, Idle,
         CompareAndSet, Holds, Drawn, LockNames, KeyOf
    <3> QED
      BY <3>4, <3>5, <3>6, <3>7 DEF Shape
  <2>17. ASSUME NEW t \in Slots, AcceptKeep(t) \/ AcceptExtend(t) PROVE Shape'
    <3>1. task[t].call # None
      BY <2>17 DEF AcceptKeep, AcceptExtend, At, TaskShape, Closers
    <3>2. task[t].call \in CallIds /\ meta[task[t].call] \in CallMeta /\ KeyOf(task[t].call) \in PairKeys
      BY <3>1, CallFacts
    <3>3. task' \in [Slots -> Tasks]
      BY <2>17, GotoFacts, FinishFacts DEF AcceptKeep, AcceptExtend, TypeOK, Pcs
    <3>4. TypeOK'
      BY <2>17, <3>1, <3>2, <3>3 DEF AcceptKeep, AcceptExtend, TypeOK, Tasks, pastVars, At,
         Goto, CallMeta, NoCall
    <3>5. TaskShape'
      <4>1. /\ \A u \in Slots \ {t} : task'[u] = task[u]
            /\ task'[t].op = task[t].op /\ task'[t].sock = task[t].sock
            /\ task'[t].call = task[t].call /\ task'[t].to = task[t].to
            /\ task[t].op = "accept" /\ UNCHANGED meta
        BY <2>17, GotoFacts DEF AcceptKeep, AcceptExtend, TypeOK, Pcs, At
      <4> QED
        BY <4>1 DEF TaskShape, Drawn
    <3>6. Traces'
      BY <2>17, <3>1, <3>2, <3>3 DEF AcceptKeep, AcceptExtend, TypeOK, pastVars, At, Goto,
         Drawn, Traces
    <3>7. LockNames'
      BY <2>17, <3>1, <3>2, <3>3 DEF AcceptKeep, AcceptExtend, TypeOK, pastVars, At, Goto,
         Drawn, LockNames, KeyOf
    <3> QED
      BY <3>4, <3>5, <3>6, <3>7 DEF Shape
  <2>18. ASSUME NEW t \in Slots, AcceptAnswer(t) PROVE Shape'
    <3>1. TypeOK'
      BY <2>18 DEF AcceptAnswer, TypeOK, Tasks, Ops, Pcs, Slots, redisVars, At, Finish,
         Idle, Tell, CallMeta, NoCall, Drawn, TaskShape, RingVerdicts, Outcomes, Events,
         Parties
    <3>2. TaskShape'
      BY <2>18 DEF AcceptAnswer, Slots, redisVars, At, Finish, Idle, Tell, Drawn, TaskShape,
         Closers, Parties
    <3>3. Traces'
      BY <2>18 DEF AcceptAnswer, Tasks, redisVars, At, Finish, Idle, Tell, Drawn, TaskShape,
         Traces, Parties
    <3>4. LockNames'
      BY <2>18 DEF AcceptAnswer, redisVars, At, Finish, Idle, Tell, Drawn, LockNames,
         Parties, KeyOf
    <3> QED
      BY <3>1, <3>2, <3>3, <3>4 DEF Shape
  <2>19. ASSUME NEW t \in Slots, CloseFetch(t) PROVE Shape'
    <3>1. TypeOK'
      BY <2>19 DEF CloseFetch, TypeOK, Tasks, Ops, Pcs, Slots, redisVars, pastVars, At,
         Goto, Finish, Idle, UserOf, CallMeta, NoCall, Closers, States, RingVerdicts,
         Outcomes, Events, Parties
    <3>2. TaskShape'
      BY <2>19 DEF CloseFetch, TypeOK, Tasks, Slots, redisVars, pastVars, At, Goto, Finish,
         Idle, UserOf, Drawn, TaskShape, Closers, Parties
    <3>3. Traces'
      BY <2>19 DEF CloseFetch, redisVars, pastVars, At, Goto, Finish, Idle, UserOf, Drawn,
         Traces, Closers, Parties
    <3>4. LockNames'
      BY <2>19 DEF CloseFetch, redisVars, pastVars, At, Goto, Finish, Idle, UserOf, Drawn,
         LockNames, Closers, Parties, KeyOf
    <3> QED
      BY <3>1, <3>2, <3>3, <3>4 DEF Shape
  <2>20. ASSUME NEW t \in Slots, CloseSwap(t) PROVE Shape'
    <3>1. task[t].call # None
      BY <2>20 DEF CloseSwap, At, TaskShape, Closers
    <3>2. task[t].call \in CallIds /\ meta[task[t].call] \in CallMeta /\ KeyOf(task[t].call) \in PairKeys
      BY <3>1, CallFacts
    <3>3. task' \in [Slots -> Tasks]
      BY <2>20, GotoFacts, FinishFacts DEF CloseSwap, TypeOK, Pcs
    <3>4. TypeOK'
      BY <2>20, <3>1, <3>2, <3>3 DEF CloseSwap, TypeOK, Tasks, Ops, Pcs, Slots, pastVars,
         At, Goto, Finish, Idle, CompareAndSet, Holds, Closers, States, RingVerdicts,
         Verdict, Expected
    <3>5. TaskShape'
      BY <2>20, <3>1, <3>2, <3>3 DEF CloseSwap, Tasks, Slots, pastVars, At, Goto, Finish,
         Idle, CompareAndSet, Holds, Drawn, TaskShape, Closers, Verdict, Expected
    <3>6. Traces'
      BY <2>20, <3>1, <3>2, <3>3 DEF CloseSwap, TypeOK, pastVars, At, Goto, Finish, Idle,
         CompareAndSet, Holds, Drawn, Traces, Closers, Verdict, Expected
    <3>7. LockNames'
      BY <2>20, <3>1, <3>2, <3>3 DEF CloseSwap, pastVars, At, Goto, Finish, Idle,
         CompareAndSet, Holds, Drawn, LockNames, Closers, Verdict, Expected, KeyOf
    <3> QED
      BY <3>4, <3>5, <3>6, <3>7 DEF Shape
  <2>21. ASSUME NEW t \in Slots, CloseUnlock(t) PROVE Shape'
    <3>1. task[t].call # None
      BY <2>21 DEF CloseUnlock, At, TaskShape, Closers
    <3>2. task[t].call \in CallIds /\ meta[task[t].call] \in CallMeta /\ KeyOf(task[t].call) \in PairKeys
      BY <3>1, CallFacts
    <3>3. task' \in [Slots -> Tasks]
      BY <2>21, GotoFacts, FinishFacts DEF CloseUnlock, TypeOK, Pcs
    <3>4. TypeOK'
      BY <2>21, <3>1, <3>2, <3>3 DEF CloseUnlock, TypeOK, Tasks, pastVars, At, Goto,
         DeleteIfEquals, CallMeta, NoCall, Closers, KeyOf
    <3>5. TaskShape'
      BY <2>21, <3>1, <3>2, <3>3 DEF CloseUnlock, Slots, pastVars, At, Goto, DeleteIfEquals,
         Drawn, TaskShape, Closers, KeyOf
    <3>6. Traces'
      BY <2>21, <3>1, <3>2, <3>3 DEF CloseUnlock, pastVars, At, Goto, DeleteIfEquals, Drawn,
         Traces, Closers, KeyOf
    <3>7. LockNames'
      BY <2>21, <3>2 DEF CloseUnlock, DeleteIfEquals, LockNames, TypeOK, Drawn, KeyOf
    <3> QED
      BY <3>4, <3>5, <3>6, <3>7 DEF Shape
  <2>22. ASSUME NEW t \in Slots, CloseErase(t) PROVE Shape'
    <3>1. task[t].call # None
      BY <2>22 DEF CloseErase, At, TaskShape, Closers
    <3>2. task[t].call \in CallIds /\ meta[task[t].call] \in CallMeta /\ KeyOf(task[t].call) \in PairKeys
      BY <3>1, CallFacts
    <3>3. task' \in [Slots -> Tasks]
      BY <2>22, GotoFacts, FinishFacts DEF CloseErase, TypeOK, Pcs
    <3>4. TypeOK'
      BY <2>22, <3>1, <3>2, <3>3 DEF CloseErase, TypeOK, Tasks, pastVars, At, Goto,
         CallMeta, NoCall, Closers
    <3>5. TaskShape'
      BY <2>22, <3>1, <3>2, <3>3 DEF CloseErase, TypeOK, Slots, pastVars, At, Goto, Drawn,
         TaskShape, Closers
    <3>6. Traces'
      BY <2>22, <3>1, <3>2, <3>3 DEF CloseErase, TypeOK, pastVars, At, Goto, Drawn, Traces,
         Closers
    <3>7. LockNames'
      BY <2>22, <3>1, <3>2, <3>3 DEF CloseErase, TypeOK, pastVars, At, Goto, Drawn,
         LockNames, Closers, KeyOf
    <3> QED
      BY <3>4, <3>5, <3>6, <3>7 DEF Shape
  <2>23. ASSUME NEW t \in Slots, CloseNotify(t) PROVE Shape'
    <3>1. TypeOK'
      BY <2>23 DEF CloseNotify, TypeOK, Tasks, Ops, Pcs, Slots, redisVars, At, Finish, Idle,
         Tell, UserOf, CallMeta, NoCall, Drawn, TaskShape, Closers, RingVerdicts, Outcomes,
         Events, Verdict, Parties, Other, Audience
    <3>2. TaskShape'
      BY <2>23 DEF CloseNotify, Slots, redisVars, At, Finish, Idle, Tell, UserOf, Drawn,
         TaskShape, Closers, Verdict, Parties, Other, Audience
    <3>3. Traces'
      BY <2>23 DEF CloseNotify, Tasks, redisVars, At, Finish, Idle, Tell, UserOf, Drawn,
         TaskShape, Traces, Closers, Verdict, Parties, Other, Audience
    <3>4. LockNames'
      BY <2>23 DEF CloseNotify, redisVars, At, Finish, Idle, Tell, UserOf, Drawn, LockNames,
         Closers, Verdict, Parties, Other, Audience, KeyOf
    <3> QED
      BY <3>1, <3>2, <3>3, <3>4 DEF Shape
  <2>24. ASSUME NEW t \in Slots, DropLook(t) PROVE Shape'
    <3>1. task' \in [Slots -> Tasks]
      BY <2>24, TakeFacts, FinishFacts DEF DropLook, At, TaskShape, TypeOK, Tasks, Pcs
    <3>2. TypeOK'
      BY <2>24, <3>1 DEF DropLook, TypeOK, Tasks, redisVars, pastVars, At, Finish, Idle,
         CallMeta, NoCall, Take
    <3>3. TaskShape'
      BY <2>24, TakeFacts, FinishFacts DEF DropLook, At, Closers, TaskShape, Traces, TypeOK,
         Tasks, Pcs, Drawn, redisVars
    <3>4. Traces'
      BY <2>24, <3>1 DEF DropLook, redisVars, pastVars, At, Finish, Idle, Drawn, Traces, Take
    <3>5. LockNames'
      BY <2>24, <3>1 DEF DropLook, redisVars, pastVars, At, Finish, Idle, Drawn, LockNames,
         KeyOf, Take
    <3> QED
      BY <3>2, <3>3, <3>4, <3>5 DEF Shape
  <2>25. ASSUME NEW t \in Slots, DropFetch(t) PROVE Shape'
    <3>1. task' \in [Slots -> Tasks]
      BY <2>25, BecomeFacts, FinishFacts DEF DropFetch, TypeOK, Ops
    <3>2. TypeOK'
      BY <2>25, <3>1 DEF DropFetch, TypeOK, Tasks, redisVars, pastVars, At, Finish, Idle,
         UserOf, Holds, CallMeta, NoCall, Become
    <3>3. TaskShape'
      BY <2>25, <3>1 DEF DropFetch, Tasks, Slots, redisVars, pastVars, At, Finish, Idle,
         UserOf, Holds, Drawn, TaskShape, Closers, Become
    <3>4. Traces'
      BY <2>25, <3>1 DEF DropFetch, redisVars, pastVars, At, Finish, Idle, UserOf, Holds,
         Drawn, Traces, Become
    <3>5. LockNames'
      BY <2>25, <3>1 DEF DropFetch, redisVars, pastVars, At, Finish, Idle, UserOf, Holds,
         Drawn, LockNames, KeyOf, Become
    <3> QED
      BY <3>2, <3>3, <3>4, <3>5 DEF Shape
  <2>26. ASSUME NEW t \in Slots, HandlerFails(t) PROVE Shape'
    <3>1. TypeOK'
      BY <2>26 DEF HandlerFails, TypeOK, Tasks, Ops, Pcs, Slots, redisVars, Finish, Idle
    <3>2. TaskShape'
      BY <2>26 DEF HandlerFails, TypeOK, Slots, redisVars, Finish, Idle, Drawn, TaskShape,
         Closers
    <3>3. Traces'
      BY <2>26 DEF HandlerFails, TypeOK, redisVars, Finish, Idle, Drawn, Traces
    <3>4. LockNames'
      BY <2>26 DEF HandlerFails, TypeOK, redisVars, Finish, Idle, Drawn, LockNames, KeyOf
    <3> QED
      BY <3>1, <3>2, <3>3, <3>4 DEF Shape
  <2>27. ASSUME NEW c \in CallIds, TimerFires(c) PROVE Shape'
    <3>1. TypeOK'
      BY <2>27 DEF TimerFires, TypeOK, Tasks, Ops, Pcs, Slots, redisVars, pastVars, Idle
    <3>2. TaskShape'
      BY <2>27 DEF TimerFires, TypeOK, Slots, redisVars, pastVars, Idle, Drawn, TaskShape,
         Traces, Closers
    <3>3. Traces'
      BY <2>27 DEF TimerFires, TypeOK, redisVars, pastVars, Idle, Drawn, Traces
    <3>4. LockNames'
      BY <2>27 DEF TimerFires, TypeOK, redisVars, pastVars, Idle, Drawn, LockNames, KeyOf
    <3> QED
      BY <3>1, <3>2, <3>3, <3>4 DEF Shape
  <2>28. ASSUME NEW c \in CallIds, ExpireRecord(c) PROVE Shape'
    <3>1. TypeOK'
      BY <2>28 DEF ExpireRecord, TypeOK, Tasks, localVars, CallMeta, NoCall
    <3>2. TaskShape'
      BY <2>28 DEF ExpireRecord, TypeOK, Slots, localVars, Drawn, TaskShape, Closers
    <3>3. Traces'
      BY <2>28 DEF ExpireRecord, TypeOK, localVars, Drawn, Traces
    <3>4. LockNames'
      BY <2>28 DEF ExpireRecord, TypeOK, localVars, Drawn, LockNames, KeyOf
    <3> QED
      BY <3>1, <3>2, <3>3, <3>4 DEF Shape
  <2>29. ASSUME NEW p \in PairKeys, ExpireLock(p) PROVE Shape'
    <3>1. TypeOK'
      BY <2>29 DEF ExpireLock, TypeOK, Tasks, localVars, CallMeta, NoCall
    <3>2. TaskShape'
      BY <2>29 DEF ExpireLock, TypeOK, Slots, localVars, Drawn, TaskShape, Closers
    <3>3. Traces'
      BY <2>29 DEF ExpireLock, TypeOK, localVars, Drawn, Traces
    <3>4. LockNames'
      BY <2>29 DEF ExpireLock, TypeOK, localVars, Drawn, LockNames, KeyOf
    <3> QED
      BY <3>1, <3>2, <3>3, <3>4 DEF Shape
  <2>30. CASE Crash
    BY <2>30 DEF Crash, TypeOK, TaskShape, Traces, LockNames, Tasks, Ops, Pcs, Slots,
       redisVars, Idle, Drawn, KeyOf, Closers
  <2>31. CASE UNCHANGED vars
    BY <2>31 DEF vars, redisVars, localVars, pastVars, TypeOK, TaskShape, Traces, LockNames,
       Drawn, KeyOf
  <2> QED
    BY <2>1, <2>2, <2>3, <2>4, <2>5, <2>6, <2>7, <2>8, <2>9, <2>10, <2>11, <2>12, <2>13,
       <2>14, <2>15, <2>16, <2>17, <2>18, <2>19, <2>20, <2>21, <2>22, <2>23, <2>24, <2>25,
       <2>26, <2>27, <2>28, <2>29, <2>30, <2>31 DEF Next, Message, Step
<1> QED
  BY <1>1, <1>2, PTL DEF Spec

(***************************************************************************)
(* Whatever its action, a step of slot t leaves the other slots alone and  *)
(* either ends the handler or keeps its operation and its call, except     *)
(* that placing a call and dropping one find out which call it is.         *)
(***************************************************************************)
Moves(t) ==
    \/ Finish(t)
    \/ \E pc \in Pcs : Goto(t, pc)
    \/ /\ task[t].op \in {"invite", "add", "offline"}
       /\ \/ \E pc \in Pcs, c \in CallIds : Take(t, pc, c)
          \/ \E op \in Ops : Become(t, op)

\* Every step of a handler is one of the Moves.
LEMMA StepMoves ==
  ASSUME Shape, NEW t \in Slots, Step(t) \/ HandlerFails(t)
  PROVE  /\ task[t] # Idle
         /\ open' = open
         /\ Moves(t)
<1> USE DEF Moves, Pcs, At, Idle, localVars
<1>1. CASE AddFetch(t)
  BY <1>1 DEF AddFetch
<1>2. CASE InviteRefused(t)
  BY <1>2 DEF InviteRefused
<1>3. CASE InviteWrite(t)
  BY <1>3 DEF InviteWrite
<1>4. CASE InviteExpire(t)
  BY <1>4 DEF InviteExpire
<1>5. CASE InviteAnnounce(t)
  BY <1>5 DEF InviteAnnounce
<1>6. CASE InviteArm(t)
  BY <1>6 DEF InviteArm
<1>7. CASE AcceptFetch(t)
  BY <1>7 DEF AcceptFetch
<1>8. CASE AcceptSwap(t)
  BY <1>8 DEF AcceptSwap
<1>9. CASE AcceptKeep(t) \/ AcceptExtend(t)
  BY <1>9 DEF AcceptKeep, AcceptExtend
<1>10. CASE AcceptAnswer(t)
  BY <1>10 DEF AcceptAnswer
<1>11. CASE CloseFetch(t)
  BY <1>11 DEF CloseFetch, Closers
<1>12. CASE CloseSwap(t)
  BY <1>12 DEF CloseSwap, Closers
<1>13. CASE CloseUnlock(t)
  BY <1>13 DEF CloseUnlock, Closers
<1>14. CASE CloseErase(t)
  BY <1>14 DEF CloseErase, Closers
<1>15. CASE CloseNotify(t)
  BY <1>15 DEF CloseNotify, Closers
<1>16. CASE DropLook(t)
  BY <1>16 DEF DropLook, Shape, TypeOK, TaskShape
<1>17. CASE DropFetch(t)
  BY <1>17 DEF DropFetch, Ops
<1>18. CASE HandlerFails(t)
  BY <1>18 DEF HandlerFails
<1>19. CASE \E c \in CallIds : InviteLock(t, c)
  BY <1>19 DEF InviteLock
<1> QED
  BY <1>1, <1>2, <1>3, <1>4, <1>5, <1>6, <1>7, <1>8, <1>9, <1>10, <1>11, <1>12, <1>13,
     <1>14, <1>15, <1>16, <1>17, <1>18, <1>19 DEF Step

\* The consequences of Moves that the other proofs use.
LEMMA StepFrame ==
  ASSUME Shape, NEW t \in Slots, Step(t) \/ HandlerFails(t)
  PROVE  /\ task[t] # Idle
         /\ open' = open
         /\ \A u \in Slots \ {t} : task'[u] = task[u]
         /\ \/ task'[t] = Idle
            \/ task[t].op \in {"invite", "add", "offline"}
            \/ task'[t].op = task[t].op /\ task'[t].call = task[t].call
<1>1. task \in [Slots -> Tasks]
  BY DEF Shape, TypeOK
<1> HIDE DEF Slots, Tasks
<1>2. CASE Finish(t)
  BY <1>1, <1>2, StepMoves, FinishFacts
<1>3. ASSUME NEW pc \in Pcs, Goto(t, pc)
      PROVE  /\ \A u \in Slots \ {t} : task'[u] = task[u]
             /\ task'[t].op = task[t].op /\ task'[t].call = task[t].call
  BY <1>1, <1>3, GotoFacts
<1>4. ASSUME NEW pc \in Pcs, NEW c \in CallIds, Take(t, pc, c)
      PROVE  \A u \in Slots \ {t} : task'[u] = task[u]
  BY <1>1, <1>4, TakeFacts
<1>5. ASSUME NEW op \in Ops, Become(t, op)
      PROVE  \A u \in Slots \ {t} : task'[u] = task[u]
  BY <1>1, <1>5, BecomeFacts
<1> QED
  BY <1>2, <1>3, <1>4, <1>5, StepMoves DEF Moves

\* The slot of an open socket is idle; the slot of a call runs its timeout only.
LEMMA OpenSlotsInvariant == Spec => []OpenSlots
<1> USE SlotAssumption
<1>1. Init => OpenSlots
  BY DEF Init, OpenSlots, Slots
<1>2. Shape /\ OpenSlots /\ [Next]_vars => OpenSlots'
  <2> SUFFICES ASSUME Shape, OpenSlots, [Next]_vars PROVE OpenSlots'
    OBVIOUS
  <2>0. task \in [Slots -> Tasks] /\ open \subseteq Sockets /\ timer \subseteq CallIds
    BY DEF Shape, TypeOK
  <2> USE DEF OpenSlots, Slots, Idle
  <2>1. ASSUME NEW t \in Slots, Step(t) \/ HandlerFails(t) PROVE OpenSlots'
    BY <2>0, <2>1, StepFrame
  <2>2. ASSUME NEW s \in Sockets, Disconnect(s) PROVE OpenSlots'
    BY <2>0, <2>2 DEF Disconnect
  <2>3. ASSUME NEW t \in Handlers, NEW s \in Sockets, Message(t, s) PROVE OpenSlots'
    BY <2>0, <2>3 DEF Message, BeginInvite, BeginAdd, BeginAccept, BeginDecline,
                      BeginCancel, BeginHangup, Begin
  <2>4. ASSUME NEW c \in CallIds, TimerFires(c) PROVE OpenSlots'
    BY <2>0, <2>4 DEF TimerFires
  <2>5. ASSUME NEW c \in CallIds, ExpireRecord(c) PROVE OpenSlots'
    BY <2>0, <2>5 DEF ExpireRecord, localVars
  <2>6. ASSUME NEW p \in PairKeys, ExpireLock(p) PROVE OpenSlots'
    BY <2>0, <2>6 DEF ExpireLock, localVars
  <2>7. CASE Crash
    BY <2>0, <2>7 DEF Crash
  <2>8. CASE UNCHANGED vars
    BY <2>0, <2>8 DEF vars, localVars
  <2> QED
    BY <2>1, <2>2, <2>3, <2>4, <2>5, <2>6, <2>7, <2>8 DEF Next
<1> QED
  BY <1>1, <1>2, ShapeInvariant, PTL DEF Spec

(***************************************************************************)
(* A step of slot t touches no call but its own.  The call it may turn to  *)
(* is a fresh one or the one its socket carries.                           *)
(***************************************************************************)
Touches(t) ==
    LET c == task[t].call IN
    /\ \A d \in CallIds \ {c} : state'[d] = state[d]
    /\ \A m \in told' \ told : m.call = c
    /\ timer' \subseteq timer \cup {c}
    /\ \A s \in Sockets : data'[s] \in {data[s], c}
    /\ \/ task'[t].call \in {c, None}
       \/ ~Drawn(task'[t].call)
       \/ \E s \in Sockets : task'[t].call = data[s]

\* Every step of a handler touches its own call only.
LEMMA StepTouches ==
  ASSUME Shape, NEW t \in Slots, Step(t) \/ HandlerFails(t)
  PROVE  Touches(t)
<1> USE DEF Touches, redisVars, pastVars, localVars
<1>0. /\ task \in [Slots -> Tasks] /\ data \in [Sockets -> CallIds \cup {None}]
      /\ state \in [CallIds -> States]
  BY DEF Shape, TypeOK
<1>a. ASSUME NEW pc \in Pcs, Goto(t, pc) PROVE task'[t].call = task[t].call
  BY <1>0, <1>a, GotoFacts
<1>b. ASSUME Finish(t) PROVE task'[t].call = None
  BY <1>0, <1>b, FinishFacts
<1>c. ASSUME NEW op \in Ops, Become(t, op) PROVE task'[t].call = task[t].call
  BY <1>0, <1>c, BecomeFacts
<1>d. ASSUME NEW pc \in Pcs, NEW c \in CallIds, Take(t, pc, c) PROVE task'[t].call = c
  BY <1>0, <1>d, TakeFacts
<1> USE DEF Pcs, Ops
<1>1. CASE AddFetch(t)
  BY <1>0, <1>a, <1>b, <1>c, <1>d, <1>1 DEF AddFetch, Tell, CompareAndSet
<1>2. CASE InviteRefused(t)
  BY <1>0, <1>a, <1>b, <1>c, <1>d, <1>2 DEF InviteRefused, Tell, CompareAndSet
<1>3. CASE InviteWrite(t)
  BY <1>0, <1>a, <1>b, <1>c, <1>d, <1>3 DEF InviteWrite, Tell, CompareAndSet
<1>4. CASE InviteExpire(t)
  BY <1>0, <1>a, <1>b, <1>c, <1>d, <1>4 DEF InviteExpire, Tell, CompareAndSet
<1>5. CASE InviteAnnounce(t)
  BY <1>0, <1>a, <1>b, <1>c, <1>d, <1>5 DEF InviteAnnounce, Tell, CompareAndSet
<1>6. CASE InviteArm(t)
  BY <1>0, <1>a, <1>b, <1>c, <1>d, <1>6 DEF InviteArm, Tell, CompareAndSet
<1>7. CASE AcceptFetch(t)
  BY <1>0, <1>a, <1>b, <1>c, <1>d, <1>7 DEF AcceptFetch, Tell, CompareAndSet
<1>8. CASE AcceptSwap(t)
  BY <1>0, <1>a, <1>b, <1>c, <1>d, <1>8 DEF AcceptSwap, Tell, CompareAndSet
<1>9. CASE AcceptKeep(t) \/ AcceptExtend(t)
  BY <1>0, <1>a, <1>b, <1>c, <1>d, <1>9 DEF AcceptKeep, AcceptExtend, Tell, CompareAndSet
<1>10. CASE AcceptAnswer(t)
  BY <1>0, <1>a, <1>b, <1>c, <1>d, <1>10 DEF AcceptAnswer, Tell, CompareAndSet
<1>11. CASE CloseFetch(t)
  BY <1>0, <1>a, <1>b, <1>c, <1>d, <1>11 DEF CloseFetch, Tell, CompareAndSet
<1>12. CASE CloseSwap(t)
  BY <1>0, <1>a, <1>b, <1>c, <1>d, <1>12 DEF CloseSwap, Tell, CompareAndSet
<1>13. CASE CloseUnlock(t)
  BY <1>0, <1>a, <1>b, <1>c, <1>d, <1>13 DEF CloseUnlock, Tell, CompareAndSet
<1>14. CASE CloseErase(t)
  BY <1>0, <1>a, <1>b, <1>c, <1>d, <1>14 DEF CloseErase, Tell, CompareAndSet
<1>15. CASE CloseNotify(t)
  BY <1>0, <1>a, <1>b, <1>c, <1>d, <1>15 DEF CloseNotify, Tell, CompareAndSet
<1>16. CASE DropLook(t)
  BY <1>0, <1>a, <1>b, <1>c, <1>d, <1>16 DEF DropLook, Tell, CompareAndSet, At, Shape, TaskShape
<1>17. CASE DropFetch(t)
  BY <1>0, <1>a, <1>b, <1>c, <1>d, <1>17 DEF DropFetch, Tell, CompareAndSet
<1>18. CASE HandlerFails(t)
  BY <1>0, <1>a, <1>b, <1>c, <1>d, <1>18 DEF HandlerFails, Tell, CompareAndSet
<1>19. ASSUME NEW c \in CallIds, InviteLock(t, c) PROVE Touches(t)
  BY <1>0, <1>d, <1>19 DEF InviteLock
<1> QED
  BY <1>1, <1>2, <1>3, <1>4, <1>5, <1>6, <1>7, <1>8, <1>9, <1>10, <1>11, <1>12, <1>13,
     <1>14, <1>15, <1>16, <1>17, <1>18, <1>19 DEF Step

\* A call being placed stays secret: no message, socket, timer or other handler
\* can name it before it is announced.
LEMMA SecretInvariant == Spec => []Secret
<1> USE NoneAssumption, SlotAssumption
<1> DEFINE Keeps(u) ==
        /\ ~Announced(task[u].call)
        /\ task[u].call \notin timer
        /\ \A s \in Sockets : data[s] # task[u].call
        /\ \A v \in Slots \ {u} : task[v].call # task[u].call
        /\ state[task[u].call] = IF task[u].pc = "write" THEN "unwritten" ELSE "RINGING"
<1>1. Init => Secret
  BY DEF Init, Secret, Placing, At, Idle
<1>2. Shape /\ Shape' /\ OpenSlots /\ Secret /\ [Next]_vars => Secret'
  <2> SUFFICES ASSUME Shape, Shape', OpenSlots, Secret, [Next]_vars,
                      NEW u \in Slots, Placing(u)'
               PROVE  Keeps(u)'
    BY DEF Secret
  <2>0. /\ task \in [Slots -> Tasks] /\ data \in [Sockets -> CallIds \cup {None}]
        /\ state \in [CallIds -> States] /\ task' \in [Slots -> Tasks]
    BY DEF Shape, TypeOK
  <2>1. Placing(u) => Keeps(u)
    BY DEF Secret
  <2>2. ASSUME Placing(u) PROVE task[u].call \in CallIds /\ Drawn(task[u].call)
    BY <2>2, <2>0 DEF Placing, At, Shape, TaskShape, Tasks
  <2>3. ASSUME NEW t \in Slots, Step(t) \/ HandlerFails(t), t # u PROVE Keeps(u)'
    <3>1. Placing(u) /\ task'[u] = task[u]
      BY <2>3, StepFrame DEF Placing, At
    <3>2. task[t].call # task[u].call
      BY <2>1, <2>3, <3>1
    <3>3. Touches(t)
      BY <2>3, StepTouches
    <3>4. task'[t].call # task[u].call
      BY <2>1, <2>2, <3>1, <3>2, <3>3 DEF Touches
    <3>5. \A v \in Slots \ {u} : task'[v].call # task[u].call
      BY <2>1, <2>3, <3>1, <3>4, StepFrame
    <3> QED
      BY <2>0, <2>1, <2>2, <3>1, <3>2, <3>3, <3>5 DEF Touches, Announced
  <2>4. ASSUME Step(u) \/ HandlerFails(u) PROVE Keeps(u)'
    <3>0. /\ Finish(u) => task'[u].op = "idle"
          /\ \A pc \in Pcs : Goto(u, pc) =>
                /\ task'[u].pc = pc /\ task'[u].op = task[u].op
                /\ task'[u].call = task[u].call
          /\ \A pc \in Pcs, c \in CallIds : Take(u, pc, c) =>
                /\ task'[u].pc = pc /\ task'[u].op = task[u].op /\ task'[u].call = c
          /\ \A op \in Ops : Become(u, op) => task'[u].op = op
      BY <2>0, FinishFacts, GotoFacts, TakeFacts, BecomeFacts
    <3>1. ASSUME NEW c \in CallIds, InviteLock(u, c) PROVE Keeps(u)'
      <4>1. task'[u].call = c /\ task'[u].pc = "write"
        BY <3>0, <3>1 DEF InviteLock, Pcs
      <4>2. ~Drawn(c) /\ UNCHANGED <<state, told, timer, data>>
        BY <3>1 DEF InviteLock, pastVars
      <4>3. \A v \in Slots \ {u} : task'[v].call # c
        BY <2>4, <4>2, StepFrame DEF Shape, TaskShape
      <4> QED
        BY <4>1, <4>2, <4>3 DEF Shape, Traces, Announced
    <3>2. ASSUME InviteWrite(u) PROVE Keeps(u)'
      <4>1. task'[u].call = task[u].call /\ task'[u].pc = "ttl" /\ Placing(u)
        BY <3>0, <3>2 DEF InviteWrite, Pcs, Placing, At
      <4>2. \A v \in Slots \ {u} : task'[v] = task[v]
        BY <2>4, StepFrame
      <4> QED
        BY <2>0, <2>1, <2>2, <3>2, <4>1, <4>2 DEF InviteWrite, Announced, pastVars
    <3>3. ASSUME InviteExpire(u) PROVE Keeps(u)'
      <4>1. /\ task'[u].call = task[u].call /\ task'[u].pc = "announce"
            /\ Placing(u) /\ task[u].pc = "ttl"
        BY <3>0, <3>3 DEF InviteExpire, Pcs, Placing, At
      <4>2. \A v \in Slots \ {u} : task'[v] = task[v]
        BY <2>4, StepFrame
      <4> QED
        BY <2>0, <2>1, <2>2, <3>3, <4>1, <4>2 DEF InviteExpire, Announced, pastVars
    <3> QED
      <4> USE DEF Placing, At, Pcs, Closers
      <4>1. ~AddFetch(u)
        BY <3>0 DEF AddFetch
      <4>2. ~InviteRefused(u)
        BY <3>0 DEF InviteRefused
      <4>3. ~InviteAnnounce(u)
        BY <3>0 DEF InviteAnnounce
      <4>4. ~InviteArm(u)
        BY <3>0 DEF InviteArm
      <4>5. ~AcceptFetch(u)
        BY <3>0 DEF AcceptFetch
      <4>6. ~AcceptSwap(u)
        BY <3>0 DEF AcceptSwap
      <4>7. ~AcceptKeep(u) /\ ~AcceptExtend(u)
        BY <3>0 DEF AcceptKeep, AcceptExtend
      <4>8. ~AcceptAnswer(u)
        BY <3>0 DEF AcceptAnswer
      <4>9. ~CloseFetch(u)
        BY <3>0 DEF CloseFetch
      <4>10. ~CloseSwap(u)
        BY <3>0 DEF CloseSwap
      <4>11. ~CloseUnlock(u)
        BY <3>0 DEF CloseUnlock
      <4>12. ~CloseErase(u)
        BY <3>0 DEF CloseErase
      <4>13. ~CloseNotify(u)
        BY <3>0 DEF CloseNotify
      <4>14. ~DropLook(u)
        BY <3>0 DEF DropLook, Shape, TypeOK, TaskShape
      <4>15. ~DropFetch(u)
        BY <3>0 DEF DropFetch, Ops
      <4>16. ~HandlerFails(u)
        BY <3>0 DEF HandlerFails
      <4> QED
        BY <2>4, <3>1, <3>2, <3>3, <4>1, <4>2, <4>3, <4>4, <4>5, <4>6, <4>7, <4>8, <4>9,
           <4>10, <4>11, <4>12, <4>13, <4>14, <4>15, <4>16 DEF Step
  <2>5. ASSUME NEW s \in Sockets, Disconnect(s) PROVE Keeps(u)'
    <3>1. u # s /\ Placing(u) /\ task'[u] = task[u]
      BY <2>0, <2>5 DEF Disconnect, Placing, At, Slots
    <3>2. \A v \in Slots : task'[v].call \in {task[v].call, None}
      BY <2>0, <2>5 DEF Disconnect, Slots
    <3> QED
      BY <2>1, <2>2, <2>5, <3>1, <3>2 DEF Disconnect, Announced, redisVars, pastVars
  <2>6. ASSUME NEW t \in Handlers, NEW s \in Sockets, Message(t, s) PROVE Keeps(u)'
    <3>1. /\ \/ task'[t].pc = "lock" /\ task'[t].call = None
             \/ task'[t].pc = "fetch" /\ Announced(task'[t].call)
          /\ \A v \in Slots \ {t} : task'[v] = task[v]
          /\ UNCHANGED <<state, timer, told>>
          /\ \A r \in Sockets : data'[r] \in {data[r], None}
      BY <2>0, <2>6 DEF Message, BeginInvite, BeginAdd, BeginAccept, BeginDecline,
           BeginCancel, BeginHangup, Begin, Slots, redisVars, pastVars
    <3>2. u # t /\ Placing(u)
      BY <3>1 DEF Placing, At
    <3> QED
      BY <2>1, <2>2, <3>1, <3>2 DEF Announced
  <2>7. ASSUME NEW c \in CallIds, TimerFires(c) PROVE Keeps(u)'
    <3>1. u # c /\ Placing(u) /\ task'[u] = task[u] /\ task'[c].call \in timer
      BY <2>0, <2>7 DEF TimerFires, Placing, At, Slots
    <3> QED
      BY <2>0, <2>1, <2>7, <3>1 DEF TimerFires, Announced, redisVars, pastVars, Slots
  <2>8. CASE Crash
    BY <2>8 DEF Crash, Placing, At, Idle
  <2>9. ASSUME UNCHANGED <<state, task, timer, data, told>> PROVE Keeps(u)'
    BY <2>1, <2>9 DEF Placing, At, Announced
  <2>10. ASSUME NEW c \in CallIds, ExpireRecord(c) PROVE Keeps(u)'
    BY <2>9, <2>10 DEF ExpireRecord, localVars
  <2>11. ASSUME NEW p \in PairKeys, ExpireLock(p) PROVE Keeps(u)'
    BY <2>9, <2>11 DEF ExpireLock, localVars
  <2>12. CASE UNCHANGED vars
    BY <2>9, <2>12 DEF vars, redisVars, localVars, pastVars
  <2> QED
    BY <2>3, <2>4, <2>5, <2>6, <2>7, <2>8, <2>10, <2>11, <2>12 DEF Next
<1> QED
  BY <1>1, <1>2, ShapeInvariant, OpenSlotsInvariant, PTL DEF Spec

(***************************************************************************)
(* What no step of any handler undoes: the state of a call advances one    *)
(* way, a drawn call keeps its parties, and a lock passes to fresh calls   *)
(* only.                                                                   *)
(***************************************************************************)
OneWay(c) ==
    \/ state'[c] = state[c]
    \/ state[c] = "unwritten" /\ state'[c] = "RINGING"
    \/ state[c] = "RINGING" /\ state'[c] \in {"ACTIVE"} \cup RingVerdicts
    \/ state[c] = "ACTIVE" /\ state'[c] = "ENDED"

History ==
    /\ \A c \in CallIds : OneWay(c)
    /\ \A c \in CallIds : Drawn(c) => meta'[c] = meta[c]
    /\ \A p \in PairKeys : lock'[p] \in {lock[p], None} \/ ~Drawn(lock'[p])

\* Every step of the engine respects the one-way history.
LEMMA NextHistory ==
  ASSUME Shape, Secret, [Next]_vars
  PROVE  History
<1>0. /\ state \in [CallIds -> States] /\ lock \in [PairKeys -> CallIds \cup {None}]
      /\ meta \in [CallIds -> CallMeta \cup {NoCall}]
  BY DEF Shape, TypeOK
<1>1. ASSUME UNCHANGED <<state, meta, lock>> PROVE History
  BY <1>1 DEF History, OneWay
<1>2. ASSUME NEW t \in Slots, Step(t) PROVE History
  <2> USE DEF History, OneWay
  <2>1. CASE AddFetch(t)
    BY <1>1, <2>1 DEF AddFetch, redisVars
  <2>2. CASE InviteRefused(t)
    BY <1>1, <2>2 DEF InviteRefused, redisVars
  <2>3. CASE InviteWrite(t)
    BY <1>0, <2>3 DEF InviteWrite, Secret, Placing, At, redisVars
  <2>4. CASE InviteExpire(t)
    BY <1>1, <2>4 DEF InviteExpire, redisVars
  <2>5. CASE InviteAnnounce(t)
    BY <1>1, <2>5 DEF InviteAnnounce, redisVars
  <2>6. CASE InviteArm(t)
    BY <1>1, <2>6 DEF InviteArm, redisVars
  <2>7. CASE AcceptFetch(t)
    BY <1>1, <2>7 DEF AcceptFetch, redisVars
  <2>8. CASE AcceptSwap(t)
    BY <1>0, <2>8 DEF AcceptSwap, CompareAndSet, Holds, DeleteIfEquals, Expected, Verdict,
       RingVerdicts, At, Closers
  <2>9. CASE AcceptKeep(t) \/ AcceptExtend(t)
    BY <1>1, <2>9 DEF AcceptKeep, AcceptExtend, redisVars
  <2>10. CASE AcceptAnswer(t)
    BY <1>1, <2>10 DEF AcceptAnswer, redisVars
  <2>11. CASE CloseFetch(t)
    BY <1>1, <2>11 DEF CloseFetch, redisVars
  <2>12. CASE CloseSwap(t)
    BY <1>0, <2>12 DEF CloseSwap, CompareAndSet, Holds, DeleteIfEquals, Expected, Verdict,
       RingVerdicts, At, Closers
  <2>13. CASE CloseUnlock(t)
    BY <1>0, <2>13 DEF CloseUnlock, CompareAndSet, Holds, DeleteIfEquals, Expected, Verdict,
       RingVerdicts, At, Closers
  <2>14. CASE CloseErase(t)
    BY <1>1, <2>14 DEF CloseErase, redisVars
  <2>15. CASE CloseNotify(t)
    BY <1>1, <2>15 DEF CloseNotify, redisVars
  <2>16. CASE DropLook(t)
    BY <1>1, <2>16 DEF DropLook, redisVars
  <2>17. CASE DropFetch(t)
    BY <1>1, <2>17 DEF DropFetch, redisVars
  <2>18. ASSUME NEW c \in CallIds, InviteLock(t, c) PROVE History
    BY <1>0, <2>18 DEF InviteLock, SetIfAbsent, Drawn
  <2> QED
    BY <1>2, <2>1, <2>2, <2>3, <2>4, <2>5, <2>6, <2>7, <2>8, <2>9, <2>10, <2>11, <2>12,
       <2>13, <2>14, <2>15, <2>16, <2>17, <2>18 DEF Step
<1>3. ASSUME NEW p \in PairKeys, ExpireLock(p) PROVE History
  BY <1>0, <1>3 DEF ExpireLock, History, OneWay
<1>4. ASSUME NEW t \in Handlers, NEW s \in Sockets, Message(t, s) PROVE History
  BY <1>1, <1>4 DEF Message, BeginInvite, BeginAdd, BeginAccept, BeginDecline,
                    BeginCancel, BeginHangup, Begin, redisVars
<1>5. ASSUME NEW c \in CallIds, TimerFires(c) \/ ExpireRecord(c) PROVE History
  BY <1>1, <1>5 DEF TimerFires, ExpireRecord, redisVars
<1>6. ASSUME NEW s \in Sockets, Disconnect(s) PROVE History
  BY <1>1, <1>6 DEF Disconnect, redisVars
<1>7. ASSUME NEW t \in Slots, HandlerFails(t) PROVE History
  BY <1>1, <1>7 DEF HandlerFails, redisVars
<1>8. CASE Crash
  BY <1>1, <1>8 DEF Crash, redisVars
<1>9. CASE UNCHANGED vars
  BY <1>1, <1>9 DEF vars, redisVars
<1> QED
  BY <1>2, <1>3, <1>4, <1>5, <1>6, <1>7, <1>8, <1>9 DEF Next

\* What a handler has done stays done, whatever the other handlers do.
LEMMA ProgressInvariant == Spec => []Progress
<1> USE NoneAssumption, SlotAssumption
<1>1. Init => Progress
  BY DEF Init, Progress, Done, Idle, Closers
<1>2. Shape /\ Secret /\ Progress /\ [Next]_vars => Progress'
  <2> SUFFICES ASSUME Shape, Secret, Progress, [Next]_vars, NEW u \in Slots
               PROVE  Done(u)'
    BY DEF Progress
  <2>0. /\ task \in [Slots -> Tasks] /\ state \in [CallIds -> States]
        /\ lock \in [PairKeys -> CallIds \cup {None}]
        /\ meta \in [CallIds -> CallMeta \cup {NoCall}]
    BY DEF Shape, TypeOK
  <2>1. Done(u) /\ History
    BY NextHistory DEF Progress
  <2>2. ASSUME task[u].call # None
        PROVE  /\ task[u].call \in CallIds /\ Drawn(task[u].call)
               /\ KeyOf(task[u].call) \in PairKeys
    BY <2>0, <2>2, CallFacts DEF Shape, TaskShape, Tasks
  <2>3. ASSUME /\ task'[u].op = task[u].op /\ task'[u].call = task[u].call
               /\ task'[u].sock = task[u].sock /\ task'[u].pc = task[u].pc
        PROVE  Done(u)'
    <3> DEFINE c == task[u].call
    <3>1. CASE task[u].call = None
      <4>1. /\ task[u].op \notin Closers \cup {"add", "accept"}
            /\ task[u].op = "invite" => task[u].pc = "lock"
        BY <3>1 DEF Shape, TaskShape
      <4> QED
        BY <2>3, <4>1 DEF Done, Closers
    <3>2. CASE task[u].call # None
      <4>1. /\ c \in CallIds /\ KeyOf(c) \in PairKeys /\ Drawn(c)
            /\ meta'[c] = meta[c] /\ OneWay(c)
        BY <2>1, <2>2, <3>2 DEF History
      <4>2. KeyOf(c)' = KeyOf(c) /\ Parties(c)' = Parties(c) /\ UserOf(u)' = UserOf(u)
        BY <2>3, <4>1 DEF KeyOf, Parties, UserOf
      <4>3. lock[KeyOf(c)] # c => lock'[KeyOf(c)] # c
        BY <2>0, <2>1, <4>1 DEF History
      <4> HIDE DEF c
      <4> QED
        BY <2>1, <2>3, <4>1, <4>2, <4>3 DEF Done, OneWay, Verdict, RingVerdicts, Closers, c
    <3> QED
      BY <3>1, <3>2
  <2>4. ASSUME \/ task'[u].pc \in {"start", "fetch", "write", "ttl", "announce", "swap"}
               \/ task'[u].pc = "lock" /\ task'[u].op = "invite"
        PROVE  Done(u)'
    BY <2>4 DEF Done
  <2>5. ASSUME Step(u) \/ HandlerFails(u) PROVE Done(u)'
    <3>0. /\ Finish(u) => task'[u].pc = "start"
          /\ \A pc \in Pcs : Goto(u, pc) =>
                /\ task'[u].pc = pc /\ task'[u].op = task[u].op
                /\ task'[u].sock = task[u].sock /\ task'[u].call = task[u].call
          /\ \A pc \in Pcs, c \in CallIds : Take(u, pc, c) => task'[u].pc = pc
          /\ \A op \in Ops : Become(u, op) => task'[u].pc = task[u].pc
      BY <2>0, FinishFacts, GotoFacts, TakeFacts, BecomeFacts
    <3> USE DEF At, Pcs
    <3>1. CASE AddFetch(u)
      BY <2>0, <2>2, <2>4, <3>0, <3>1 DEF AddFetch, Shape, TaskShape, Holds, Done, Parties,
         UserOf, Closers, redisVars
    <3>2. CASE InviteRefused(u)
      BY <2>4, <3>0, <3>2 DEF InviteRefused
    <3>3. CASE InviteWrite(u)
      BY <2>4, <3>0, <3>3 DEF InviteWrite
    <3>4. CASE InviteExpire(u)
      BY <2>4, <3>0, <3>4 DEF InviteExpire
    <3>5. CASE InviteAnnounce(u)
      BY <2>0, <2>2, <3>0, <3>5 DEF InviteAnnounce, Done, Secret, Placing, Closers, redisVars
    <3>6. CASE InviteArm(u)
      BY <2>4, <3>0, <3>6 DEF InviteArm
    <3>7. CASE AcceptFetch(u)
      BY <2>4, <3>0, <3>7 DEF AcceptFetch
    <3>8. CASE AcceptSwap(u)
      BY <2>0, <2>2, <2>4, <3>0, <3>8 DEF AcceptSwap, CompareAndSet, Holds, Done, Closers,
         Shape, TaskShape
    <3>9. CASE AcceptKeep(u) \/ AcceptExtend(u)
      BY <2>0, <2>1, <2>2, <3>0, <3>9 DEF AcceptKeep, AcceptExtend, Done, Closers
    <3>10. CASE AcceptAnswer(u)
      BY <2>4, <3>0, <3>10 DEF AcceptAnswer
    <3>11. CASE CloseFetch(u)
      BY <2>4, <3>0, <3>11 DEF CloseFetch
    <3>12. CASE CloseSwap(u)
      BY <2>0, <2>1, <2>2, <2>4, <3>0, <3>12 DEF CloseSwap, CompareAndSet, Holds, Done,
         Closers, Shape, TaskShape, Verdict, KeyOf
    <3>13. CASE CloseUnlock(u)
      BY <2>0, <2>1, <2>2, <3>0, <3>13 DEF CloseUnlock, DeleteIfEquals, Shape, TaskShape,
         Done, Closers, Verdict, KeyOf
    <3>14. CASE CloseErase(u)
      BY <2>0, <2>1, <2>2, <2>4, <3>0, <3>14 DEF CloseErase, CompareAndSet, Holds, Done,
         Closers, Shape, TaskShape, Verdict, KeyOf
    <3>15. CASE CloseNotify(u)
      BY <2>4, <3>0, <3>15 DEF CloseNotify
    <3>16. CASE DropLook(u)
      BY <2>4, <3>0, <3>16 DEF DropLook, Shape, TypeOK, TaskShape
    <3>17. CASE DropFetch(u)
      BY <2>4, <3>0, <3>17 DEF DropFetch, Ops
    <3>18. CASE HandlerFails(u)
      BY <2>4, <3>0, <3>18 DEF HandlerFails
    <3>19. ASSUME NEW c \in CallIds, InviteLock(u, c) PROVE Done(u)'
      BY <2>4, <3>0, <3>19 DEF InviteLock
    <3> QED
      BY <2>5, <3>1, <3>2, <3>3, <3>4, <3>5, <3>6, <3>7, <3>8, <3>9, <3>10, <3>11, <3>12,
         <3>13, <3>14, <3>15, <3>16, <3>17, <3>18, <3>19 DEF Step
  <2>6. ASSUME NEW t \in Slots, t # u, Step(t) \/ HandlerFails(t) PROVE Done(u)'
    BY <2>3, <2>6, StepFrame
  <2>7. ASSUME NEW s \in Sockets, Disconnect(s) PROVE Done(u)'
    BY <2>0, <2>3, <2>4, <2>7 DEF Disconnect, Slots
  <2>8. ASSUME NEW t \in Handlers, NEW s \in Sockets, Message(t, s) PROVE Done(u)'
    <3>1. /\ \A v \in Slots \ {t} : task'[v] = task[v]
          /\ \/ task'[t].pc = "fetch"
             \/ task'[t].pc = "lock" /\ task'[t].op = "invite"
      BY <2>0, <2>8 DEF Message, BeginInvite, BeginAdd, BeginAccept, BeginDecline,
           BeginCancel, BeginHangup, Begin, Slots
    <3> QED
      BY <2>3, <2>4, <3>1
  <2>9. ASSUME NEW c \in CallIds, TimerFires(c) PROVE Done(u)'
    BY <2>0, <2>3, <2>4, <2>9 DEF TimerFires, Slots
  <2>10. ASSUME NEW c \in CallIds, ExpireRecord(c) PROVE Done(u)'
    BY <2>3, <2>10 DEF ExpireRecord, localVars
  <2>11. ASSUME NEW p \in PairKeys, ExpireLock(p) PROVE Done(u)'
    BY <2>3, <2>11 DEF ExpireLock, localVars
  <2>12. CASE Crash
    BY <2>4, <2>12 DEF Crash, Idle
  <2>13. CASE UNCHANGED vars
    BY <2>3, <2>13 DEF vars, localVars
  <2> QED
    BY <2>5, <2>6, <2>7, <2>8, <2>9, <2>10, <2>11, <2>12, <2>13 DEF Next
<1> QED
  BY <1>1, <1>2, ShapeInvariant, SecretInvariant, PTL DEF Spec

\* Every announcement was true and stays true.
LEMMA TruthInvariant == Spec => []Truth
<1> USE NoneAssumption
<1>1. Init => Truth
  BY DEF Init, Truth
<1>2. Shape /\ Shape' /\ Secret /\ Progress /\ Truth /\ [Next]_vars => Truth'
  <2> DEFINE Honest(m) ==
        /\ m.to \in Parties(m.call)
        /\ m.event \in {"INCOMING", "RINGING"} => state[m.call] # "unwritten"
        /\ m.event = "ACCEPTED" => state[m.call] \in {"ACTIVE", "ENDED"}
        /\ m.event \in RingVerdicts \cup {"ENDED"} => state[m.call] = m.event
  <2> SUFFICES ASSUME Shape, Shape', Secret, Progress, Truth, [Next]_vars, NEW m \in told'
               PROVE  Honest(m)'
    BY DEF Truth
  <2>0. /\ task \in [Slots -> Tasks] /\ state \in [CallIds -> States]
        /\ told \subseteq [to : Users, call : CallIds, event : Events]
        /\ History
    BY NextHistory DEF Shape, TypeOK
  <2>1. CASE m \in told
    <3>1. m.call \in CallIds /\ Drawn(m.call) /\ Honest(m)
      BY <2>0, <2>1 DEF Shape, Traces, Truth
    <3>2. OneWay(m.call) /\ Parties(m.call)' = Parties(m.call)
      BY <2>0, <3>1 DEF History, Parties
    <3> QED
      BY <3>1, <3>2 DEF OneWay, RingVerdicts
  <2>2. ASSUME NEW t \in Slots, InviteAnnounce(t), m \notin told PROVE Honest(m)'
    BY <2>0, <2>2 DEF InviteAnnounce, At, Secret, Placing, Parties, redisVars, RingVerdicts
  <2>3. ASSUME NEW t \in Slots, AcceptAnswer(t), m \notin told PROVE Honest(m)'
    BY <2>0, <2>3 DEF AcceptAnswer, At, Tell, Progress, Done, Parties, redisVars, RingVerdicts
  <2>4. ASSUME NEW t \in Slots, CloseNotify(t), m \notin told PROVE Honest(m)'
    <3>1. state[task[t].call] = Verdict(task[t].op) /\ UNCHANGED <<state, meta>>
      BY <2>4 DEF CloseNotify, At, Progress, Done, redisVars
    <3>2. m.call = task[t].call /\ m.event = Verdict(task[t].op) /\ m.to \in Audience(t)
      BY <2>4 DEF CloseNotify, Tell
    <3>3. Audience(t) \subseteq Parties(task[t].call)
      BY DEF Audience, Other, Parties
    <3>4. Verdict(task[t].op) \notin {"INCOMING", "RINGING", "ACCEPTED"}
      BY DEF Verdict
    <3> QED
      BY <3>1, <3>2, <3>3, <3>4 DEF Parties
  <2>5. CASE UNCHANGED told
    BY <2>1, <2>5
  <2>6. ASSUME NEW t \in Slots, Step(t) PROVE Honest(m)'
    BY <2>1, <2>2, <2>3, <2>4, <2>5, <2>6 DEF Step, AddFetch, InviteRefused, InviteLock,
       InviteWrite, InviteExpire, InviteArm, AcceptFetch, AcceptSwap, AcceptKeep, AcceptExtend, CloseFetch,
       CloseSwap, CloseUnlock, CloseErase, DropLook, DropFetch, pastVars
  <2> QED
    BY <2>5, <2>6 DEF Next, Message, BeginInvite, BeginAdd, BeginAccept, BeginDecline,
       BeginCancel, BeginHangup, Begin, Disconnect, HandlerFails, TimerFires, ExpireRecord,
       ExpireLock, Crash, vars, pastVars
<1> QED
  BY <1>1, <1>2, ShapeInvariant, SecretInvariant, ProgressInvariant, PTL DEF Spec

\* A call in progress holds the lock of its pair until one of its keys lapses.
LEMMA LockedInvariant == Spec => []Locked
<1> USE NoneAssumption, SlotAssumption
<1>1. Init => Locked
  BY DEF Init, Locked, Live, At, Idle
<1>2. Shape /\ Shape' /\ Secret /\ Secret' /\ Progress /\ Locked /\ [Next]_vars => Locked'
  <2> DEFINE Owns(c) == lock[KeyOf(c)] = c \/ c \in lapsed
             Held(c) == state[c] \in {"RINGING", "ACTIVE"} => stored[c] \/ c \in lapsed
             Writing(t) == At(t, {"invite", "add"}, "write")
  <2> SUFFICES ASSUME Shape, Shape', Secret, Secret', Progress, Locked, [Next]_vars
               PROVE  /\ \A c \in CallIds : (Live(c) => Owns(c))' /\ Held(c)'
                      /\ \A t \in Slots : (Writing(t) => Owns(task[t].call))'
    BY DEF Locked
  <2>0. /\ task \in [Slots -> Tasks] /\ state \in [CallIds -> States]
        /\ stored \in [CallIds -> BOOLEAN]
        /\ lock \in [PairKeys -> CallIds \cup {None}] /\ lapsed \subseteq CallIds
        /\ task' \in [Slots -> Tasks] /\ LockNames
    BY DEF Shape, TypeOK
  <2>1. History
    BY NextHistory
  <2>2. \A c \in CallIds : Drawn(c) => KeyOf(c)' = KeyOf(c) /\ KeyOf(c) \in PairKeys
    BY <2>1 DEF History, KeyOf, Drawn, Shape, TypeOK, CallMeta, NoCall, PairKeys
  <2>3. \A c \in CallIds : (Live(c) => Owns(c)) /\ Held(c)
    BY DEF Locked
  <2>4. \A c \in CallIds : Live(c) \/ state[c] # "unwritten" => Drawn(c)
    BY <2>0 DEF Shape, Traces, Live
  <2>5. \A t \in Slots : Writing(t) =>
            /\ task[t].call \in CallIds /\ Drawn(task[t].call) /\ Owns(task[t].call)
    BY <2>0 DEF Locked, Shape, TaskShape, Tasks, At
  <2> DEFINE Goal == /\ \A c \in CallIds : (Live(c) => Owns(c))' /\ Held(c)'
                     /\ \A t \in Slots : (Writing(t) => Owns(task[t].call))'
             Quiet == \A t \in Slots : Writing(t)' =>
                         Writing(t) /\ task'[t].call = task[t].call
  <2>6. ASSUME UNCHANGED <<state, stored, lock, lapsed>>, Quiet PROVE Goal
    BY <2>2, <2>3, <2>4, <2>5, <2>6 DEF Live
  <2>7. ASSUME NEW t \in Slots, Step(t) \/ HandlerFails(t) PROVE Goal
    <3>0. /\ Finish(t) => task'[t].pc = "start"
          /\ \A pc \in Pcs : Goto(t, pc) =>
                task'[t].pc = pc /\ task'[t].op = task[t].op /\ task'[t].call = task[t].call
          /\ \A pc \in Pcs, c \in CallIds : Take(t, pc, c) =>
                task'[t].pc = pc /\ task'[t].op = task[t].op /\ task'[t].call = c
          /\ \A op \in Ops : Become(t, op) => task'[t].pc = task[t].pc
      BY <2>0, FinishFacts, GotoFacts, TakeFacts, BecomeFacts
    <3>a. \A u \in Slots \ {t} : task'[u] = task[u]
      BY <2>7, StepFrame
    <3>b. ASSUME task'[t].pc # "write" PROVE Quiet
      BY <3>a, <3>b DEF At
    <3> USE DEF Pcs
    <3>1. ASSUME NEW c \in CallIds, InviteLock(t, c) PROVE Goal
      <4>1. /\ task'[t].call = c /\ ~Drawn(c) /\ UNCHANGED <<state, stored, lapsed>>
            /\ c # None
        BY <3>0, <3>1 DEF InviteLock, pastVars
      <4>2. /\ lock[KeyOf(c)'] = None /\ lock' = [lock EXCEPT ![KeyOf(c)'] = c]
            /\ KeyOf(c)' \in PairKeys
        BY <3>1 DEF InviteLock, SetIfAbsent, KeyOf, PairKeys, Shape, TypeOK, CallMeta, NoCall,
             TaskShape, At, UserOf, OwnerAssumption
      <4>3. \A d \in CallIds : Drawn(d) /\ Owns(d) => Owns(d)'
        BY <2>0, <2>2, <4>1, <4>2
      <4>4. \A d \in CallIds : (Live(d) => Owns(d))' /\ Held(d)'
        BY <2>3, <2>4, <4>1, <4>3 DEF Live
      <4>5. Owns(task[t].call)'
        BY <2>0, <4>1, <4>2
      <4> QED
        BY <2>5, <3>a, <4>3, <4>4, <4>5 DEF At
    <3>2. ASSUME InviteWrite(t) PROVE Goal
      <4>1. /\ Writing(t) /\ UNCHANGED <<lock, lapsed>> /\ task'[t].pc = "ttl"
            /\ task'[t].call = task[t].call
            /\ state' = [state EXCEPT ![task[t].call] = "RINGING"]
            /\ stored' = [stored EXCEPT ![task[t].call] = TRUE]
        BY <3>0, <3>2 DEF InviteWrite, At, pastVars
      <4>2. Owns(task[t].call)' /\ task[t].call \in CallIds
        BY <2>2, <2>5, <4>1
      <4>3. \A d \in CallIds : (Live(d) => Owns(d))' /\ Held(d)'
        <5>1. \A d \in CallIds \ {task[t].call} :
                 Live(d)' = Live(d) /\ Held(d)' = Held(d)
          BY <2>0, <4>1 DEF Live
        <5>2. \A d \in CallIds : Live(d) /\ Owns(d) => Owns(d)'
          BY <2>2, <2>4, <4>1
        <5>3. Held(task[t].call)'
          BY <2>0, <4>1, <4>2
        <5> SUFFICES ASSUME NEW d \in CallIds PROVE (Live(d) => Owns(d))' /\ Held(d)'
          OBVIOUS
        <5>4. CASE d = task[t].call
          BY <4>1, <4>2, <5>3, <5>4
        <5>5. CASE d # task[t].call
          <6>1. Live(d)' => Live(d)
            BY <5>1, <5>5
          <6>2. Held(d)'
            BY <2>3, <5>1, <5>5
          <6> QED
            BY <2>3, <5>2, <6>1, <6>2
        <5> QED
          BY <5>4, <5>5
      <4> QED
        BY <2>2, <2>5, <3>b, <4>1, <4>3
    <3>3. ASSUME AcceptSwap(t) \/ CloseSwap(t) PROVE Goal
      <4>1. /\ task'[t].pc \in {"keep", "unlock", "start"}
            /\ UNCHANGED <<stored, lock, lapsed>>
        BY <3>0, <3>3 DEF AcceptSwap, CloseSwap, pastVars
      <4>2. \A d \in CallIds : state'[d] \in {"RINGING", "ACTIVE"} =>
                state'[d] = state[d] \/ Live(d)
        BY <2>0, <3>3 DEF AcceptSwap, CloseSwap, CompareAndSet, Holds, Expected, Live
      <4>3. \A d \in CallIds : (Live(d) => Owns(d))' /\ Held(d)'
        BY <2>2, <2>3, <2>4, <4>1, <4>2 DEF Live
      <4> QED
        BY <2>2, <2>5, <3>b, <4>1, <4>3
    <3>4. ASSUME CloseUnlock(t) PROVE Goal
      <4>0. task[t].call # None
        BY <3>4 DEF CloseUnlock, At, Shape, TaskShape
      <4>1. /\ task'[t].pc = "erase" /\ UNCHANGED <<state, stored, lapsed>>
            /\ \A p \in PairKeys : lock'[p] = lock[p] \/ lock[p] = task[t].call
        BY <2>0, <3>0, <3>4 DEF CloseUnlock, DeleteIfEquals, pastVars
      <4>2. state[task[t].call] \notin {"unwritten", "RINGING", "ACTIVE"}
        BY <3>4 DEF CloseUnlock, At, Progress, Done, Verdict, Closers
      <4>3. \A d \in CallIds : d # task[t].call /\ Drawn(d) /\ Owns(d) => Owns(d)'
        BY <2>0, <2>2, <4>1
      <4>4. \A u \in Slots : Writing(u) => task[u].call # task[t].call
        BY <4>2 DEF Secret, Placing, At
      <4> QED
        BY <2>3, <2>4, <2>5, <3>b, <4>1, <4>2, <4>3, <4>4 DEF Live
    <3>5. ASSUME CloseErase(t) PROVE Goal
      <4>1. /\ task'[t].pc = "notify" /\ UNCHANGED <<state, lock, lapsed>>
            /\ stored' = [stored EXCEPT ![task[t].call] = FALSE]
        BY <3>0, <3>5 DEF CloseErase, pastVars
      <4>2. state[task[t].call] \notin {"RINGING", "ACTIVE"}
        BY <3>5 DEF CloseErase, At, Progress, Done, Verdict, Closers
      <4>3. \A d \in CallIds : (Live(d) => Owns(d))' /\ Held(d)'
        BY <2>0, <2>2, <2>3, <2>4, <4>1, <4>2 DEF Live
      <4> QED
        BY <2>2, <2>5, <3>b, <4>1, <4>3
    <3>6. CASE AddFetch(t)
      BY <2>6, <3>0, <3>b, <3>6 DEF AddFetch, redisVars, pastVars
    <3>7. CASE InviteRefused(t)
      BY <2>6, <3>0, <3>b, <3>7 DEF InviteRefused, redisVars, pastVars
    <3>8. CASE InviteExpire(t)
      BY <2>6, <3>0, <3>b, <3>8 DEF InviteExpire, redisVars, pastVars
    <3>9. CASE InviteAnnounce(t)
      BY <2>6, <3>0, <3>b, <3>9 DEF InviteAnnounce, redisVars, pastVars
    <3>10. CASE InviteArm(t)
      BY <2>6, <3>0, <3>b, <3>10 DEF InviteArm, redisVars, pastVars
    <3>11. CASE AcceptFetch(t)
      BY <2>6, <3>0, <3>b, <3>11 DEF AcceptFetch, redisVars, pastVars
    <3>12. CASE AcceptKeep(t) \/ AcceptExtend(t)
      BY <2>6, <3>0, <3>b, <3>12 DEF AcceptKeep, AcceptExtend, redisVars, pastVars
    <3>13. CASE AcceptAnswer(t)
      BY <2>6, <3>0, <3>b, <3>13 DEF AcceptAnswer, redisVars, pastVars
    <3>14. CASE CloseFetch(t)
      BY <2>6, <3>0, <3>b, <3>14 DEF CloseFetch, redisVars, pastVars
    <3>15. CASE CloseNotify(t)
      BY <2>6, <3>0, <3>b, <3>15 DEF CloseNotify, redisVars, pastVars
    <3>16. CASE DropLook(t)
      BY <2>6, <3>0, <3>b, <3>16 DEF DropLook, redisVars, pastVars, At, Shape, TypeOK, TaskShape
    <3>17. CASE DropFetch(t)
      BY <2>6, <3>0, <3>b, <3>17 DEF DropFetch, redisVars, pastVars, At, Ops
    <3>18. CASE HandlerFails(t)
      BY <2>6, <3>0, <3>b, <3>18 DEF HandlerFails, redisVars, pastVars
    <3> QED
      BY <2>7, <3>1, <3>2, <3>3, <3>4, <3>5, <3>6, <3>7, <3>8, <3>9, <3>10, <3>11, <3>12,
         <3>13, <3>14, <3>15, <3>16, <3>17, <3>18 DEF Step
  <2>8. ASSUME NEW t \in Handlers, NEW s \in Sockets, Message(t, s) PROVE Goal
    <3>1. /\ \A v \in Slots \ {t} : task'[v] = task[v]
          /\ task'[t].pc \in {"fetch", "lock"}
          /\ UNCHANGED <<state, stored, lock, lapsed>>
      BY <2>0, <2>8 DEF Message, BeginInvite, BeginAdd, BeginAccept, BeginDecline,
           BeginCancel, BeginHangup, Begin, Slots, redisVars, pastVars
    <3> QED
      BY <2>6, <3>1 DEF At
  <2>9. ASSUME NEW s \in Sockets, Disconnect(s) PROVE Goal
    BY <2>0, <2>6, <2>9 DEF Disconnect, At, Slots, redisVars, pastVars
  <2>10. ASSUME NEW c \in CallIds, TimerFires(c) PROVE Goal
    BY <2>0, <2>6, <2>10 DEF TimerFires, At, Slots, redisVars, pastVars
  <2>11. ASSUME NEW c \in CallIds, ExpireRecord(c) PROVE Goal
    <3>1. /\ UNCHANGED <<state, lock, task>> /\ lapsed' = lapsed \cup {c}
          /\ stored' = [stored EXCEPT ![c] = FALSE]
      BY <2>11 DEF ExpireRecord, localVars
    <3>2. \A d \in CallIds : (Live(d) => Owns(d))' /\ Held(d)'
      BY <2>0, <2>2, <2>3, <2>4, <3>1 DEF Live
    <3> QED
      BY <2>2, <2>5, <3>1, <3>2 DEF At
  <2>12. ASSUME NEW p \in PairKeys, ExpireLock(p) PROVE Goal
    <3>1. /\ UNCHANGED <<state, stored, task>> /\ lapsed' = lapsed \cup {lock[p]}
          /\ lock' = [lock EXCEPT ![p] = None]
      BY <2>12 DEF ExpireLock, localVars
    <3>2. \A d \in CallIds : Drawn(d) /\ Owns(d) => Owns(d)'
      BY <2>0, <2>2, <3>1
    <3>3. \A d \in CallIds : (Live(d) => Owns(d))' /\ Held(d)'
      BY <2>3, <2>4, <3>1, <3>2 DEF Live
    <3> QED
      BY <2>5, <3>1, <3>2, <3>3 DEF At
  <2>13. CASE Crash
    BY <2>6, <2>13 DEF Crash, At, Idle, redisVars
  <2>14. CASE UNCHANGED vars
    BY <2>6, <2>14 DEF vars, At, redisVars, localVars, pastVars
  <2> QED
    BY <2>7, <2>8, <2>9, <2>10, <2>11, <2>12, <2>13, <2>14 DEF Next
<1> QED
  BY <1>1, <1>2, ShapeInvariant, SecretInvariant, ProgressInvariant, PTL DEF Spec
-----------------------------------------------------------------------------
(* The theorems                                                            *)

\* Every variable keeps its type, whatever goes wrong.
THEOREM TypeCorrect == Spec => []TypeOK
<1>1. Shape => TypeOK
  BY DEF Shape
<1> QED
  BY <1>1, ShapeInvariant, PTL

\* Glare is resolved for any number of users, sockets and concurrent handlers:
\* two calls of one pair are in progress only if a key of one of them ran out.
THEOREM GlareResolved == Spec => []OneLiveCallPerPair
<1>1. Shape /\ Locked => OneLiveCallPerPair
  <2> SUFFICES ASSUME Shape, Locked, NEW c \in CallIds, NEW d \in CallIds,
                      Live(c), Live(d), Parties(c) = Parties(d), c # d
               PROVE  c \in lapsed \/ d \in lapsed
    BY DEF OneLiveCallPerPair
  <2>1. KeyOf(c) = KeyOf(d)
    BY DEF KeyOf, PairKey, Parties
  <2> QED
    BY <2>1 DEF Locked
<1> QED
  BY <1>1, ShapeInvariant, LockedInvariant, PTL

\* No two outcomes of one ring are ever announced.
THEOREM VerdictUnique == Spec => []OneVerdict
<1>1. Truth => OneVerdict
  BY DEF Truth, OneVerdict, Outcomes, RingVerdicts
<1> QED
  BY <1>1, TruthInvariant, PTL

\* The engine implements CallPromise: calls advance one way, a pair is not rung
\* twice, and every announcement is true and addressed to a party.
THEOREM KeepsPromise == Spec => PromiseSpec
<1> USE NoneAssumption
<1>1. Init => Promise!Init
  BY DEF Init, Promise!Init
<1>2. /\ Shape /\ Shape' /\ Secret /\ Progress /\ Locked /\ [Next]_vars
      => [Promise!Next]_Promise!promiseVars
  <2> SUFFICES ASSUME Shape, Shape', Secret, Progress, Locked, [Next]_vars
               PROVE  Promise!Next \/ UNCHANGED Promise!promiseVars
    BY DEF Promise!promiseVars
  <2> DEFINE known == [c \in CallIds |-> IF state[c] = "unwritten" THEN {} ELSE Parties(c)]
             Same == UNCHANGED Promise!promiseVars
  <2>0. /\ task \in [Slots -> Tasks] /\ state \in [CallIds -> States]
        /\ meta \in [CallIds -> CallMeta \cup {NoCall}]
        /\ stored \in [CallIds -> BOOLEAN]
        /\ lock \in [PairKeys -> CallIds \cup {None}]
    BY DEF Shape, TypeOK
  <2>1. History
    BY NextHistory
  <2>2. \A c \in CallIds : state[c] # "unwritten" => Parties(c)' = Parties(c)
    BY <2>0, <2>1 DEF History, Shape, Traces, Parties
  <2>3. ASSUME UNCHANGED state PROVE known' = known
    BY <2>2, <2>3
  <2>4. ASSUME UNCHANGED <<state, told, lapsed>> PROVE Same
    BY <2>3, <2>4 DEF Promise!promiseVars
  <2>5. ASSUME NEW c \in CallIds, state[c] # "unwritten", NEW to,
               state' = [state EXCEPT ![c] = to], to # "unwritten"
        PROVE  known' = known
    BY <2>0, <2>2, <2>5
  <2>6. ASSUME NEW t \in Slots, InviteWrite(t) PROVE Promise!Next
    <3> DEFINE c == task[t].call
    <3>1. /\ c \in CallIds /\ meta[c] \in CallMeta /\ UNCHANGED <<meta, told, lapsed, lock>>
          /\ state[c] = "unwritten" /\ state' = [state EXCEPT ![c] = "RINGING"]
          /\ KeyOf(c) \in PairKeys /\ (lock[KeyOf(c)] = c \/ c \in lapsed)
      BY <2>6, CallFacts DEF InviteWrite, At, Secret, Placing, Locked, Shape, TaskShape,
         pastVars
    <3> HIDE DEF c
    <3>2. known' = [known EXCEPT ![c] = {meta[c].caller, meta[c].callee}]
      BY <2>0, <3>1 DEF Parties
    <3>3. ASSUME NEW d \in CallIds, state[d] \in {"RINGING", "ACTIVE"}, d \notin lapsed,
                 known[d] = {meta[c].caller, meta[c].callee}, c \notin lapsed
          PROVE  FALSE
      <4>1. Live(d) /\ lock[KeyOf(d)] = d
        BY <2>0, <3>3 DEF Locked, Live
      <4>2. KeyOf(d) = KeyOf(c)
        BY <3>3 DEF KeyOf, PairKey, Parties
      <4> QED
        BY <3>1, <3>3, <4>1, <4>2
    <3>4. PICK a \in Users, b \in Users : a = meta[c].caller /\ b = meta[c].callee
      BY <3>1 DEF CallMeta
    <3>5. Promise!Ring(c, a, b)
      BY <3>1, <3>2, <3>3, <3>4 DEF Promise!Ring, Promise!InProgress
    <3> QED
      BY <3>1, <3>5 DEF Promise!Next
  <2>7. ASSUME NEW t \in Slots, AcceptSwap(t) PROVE Promise!Next \/ Same
    <3>1. CASE UNCHANGED state
      BY <2>4, <2>7, <3>1 DEF AcceptSwap, pastVars
    <3>2. CASE CompareAndSet(task[t].call, "RINGING", "ACTIVE")
      <4>1. /\ task[t].call \in CallIds /\ state[task[t].call] = "RINGING"
            /\ state' = [state EXCEPT ![task[t].call] = "ACTIVE"] /\ UNCHANGED <<told, lapsed>>
        BY <2>7, <3>2, CallFacts DEF AcceptSwap, At, CompareAndSet, Holds, Shape, TaskShape,
           pastVars
      <4>2. Promise!Answer(task[t].call)
        BY <2>5, <4>1 DEF Promise!Answer, Promise!Advance
      <4> QED
        BY <4>1, <4>2 DEF Promise!Next
    <3> QED
      BY <2>7, <3>1, <3>2 DEF AcceptSwap
  <2>8. ASSUME NEW t \in Slots, CloseSwap(t) PROVE Promise!Next \/ Same
    <3> DEFINE c == task[t].call
               op == task[t].op
    <3>1. CASE UNCHANGED state
      BY <2>4, <2>8, <3>1 DEF CloseSwap, pastVars
    <3>2. CASE CompareAndSet(c, Expected(op), Verdict(op))
      <4>1. /\ c \in CallIds /\ state[c] = Expected(op) /\ op \in Closers
            /\ state' = [state EXCEPT ![c] = Verdict(op)] /\ UNCHANGED <<told, lapsed>>
        BY <2>8, <3>2, CallFacts DEF CloseSwap, At, CompareAndSet, Holds, Shape, TaskShape,
           pastVars
      <4>2. Expected(op) # "unwritten" /\ Verdict(op) # "unwritten"
        BY DEF Expected, Verdict
      <4>3. known' = known
        BY <2>5, <4>1, <4>2
      <4>4. CASE op = "hangup"
        BY <4>1, <4>3, <4>4 DEF Promise!Next, Promise!HangUp, Promise!Advance, Expected, Verdict
      <4>5. CASE op # "hangup"
        <5>1. Verdict(op) \in Promise!RingVerdicts /\ Expected(op) = "RINGING"
          BY <4>1, <4>5 DEF Promise!RingVerdicts, Expected, Verdict, Closers
        <5>2. Promise!Settle(c, Verdict(op))
          BY <4>1, <4>3, <5>1 DEF Promise!Settle, Promise!Advance
        <5> QED
          BY <4>1, <5>1, <5>2 DEF Promise!Next
      <4> QED
        BY <4>4, <4>5
    <3> QED
      BY <2>8, <3>1, <3>2 DEF CloseSwap
  <2>9. ASSUME NEW t \in Slots, InviteAnnounce(t) PROVE Promise!Next
    <3> DEFINE c == task[t].call
    <3>1. /\ c \in CallIds /\ meta[c] \in CallMeta /\ UNCHANGED <<state, lapsed>>
          /\ state[c] = "RINGING"
      BY <2>9, CallFacts DEF InviteAnnounce, At, Secret, Placing, Shape, TaskShape, redisVars
    <3>2. known' = known /\ known[c] = {meta[c].caller, meta[c].callee}
      BY <2>3, <3>1 DEF Parties
    <3>3. \/ told' = told \cup {[to |-> meta[c].callee, call |-> c, event |-> "INCOMING"],
                               [to |-> meta[c].caller, call |-> c, event |-> "RINGING"]}
          \/ told' = told \cup {[to |-> u, call |-> c, event |-> "INCOMING"] : u \in {meta[c].callee}}
      BY <2>9 DEF InviteAnnounce
    <3>4. \/ Promise!TellRinging(c, meta[c].caller, meta[c].callee)
          \/ Promise!Tell(c, "INCOMING", {meta[c].callee})
      BY <3>1, <3>2, <3>3 DEF Promise!TellRinging, Promise!Tell, Promise!Truthful
    <3> QED
      BY <3>1, <3>4 DEF Promise!Next, CallMeta
  <2>10. ASSUME NEW t \in Slots, AcceptAnswer(t) PROVE Promise!Next
    <3> DEFINE c == task[t].call
    <3>1. /\ c \in CallIds /\ meta[c] \in CallMeta /\ UNCHANGED <<state, lapsed>>
          /\ state[c] \in {"ACTIVE", "ENDED"}
          /\ told' = told \cup {[to |-> u, call |-> c, event |-> "ACCEPTED"] : u \in Parties(c)}
      BY <2>10, CallFacts DEF AcceptAnswer, At, Tell, Progress, Done, Shape, TaskShape,
         redisVars
    <3>2. known' = known /\ known[c] = Parties(c)
      BY <2>3, <3>1
    <3>3. Promise!Tell(c, "ACCEPTED", Parties(c)) /\ Parties(c) \in SUBSET Users
      BY <3>1, <3>2 DEF Promise!Tell, Promise!Truthful, Parties, CallMeta
    <3> QED
      BY <3>1, <3>3 DEF Promise!Next
  <2>11. ASSUME NEW t \in Slots, CloseNotify(t) PROVE Promise!Next
    <3> DEFINE c == task[t].call
               e == Verdict(task[t].op)
    <3>1. /\ c \in CallIds /\ meta[c] \in CallMeta /\ UNCHANGED <<state, lapsed>>
          /\ state[c] = e
          /\ told' = told \cup {[to |-> u, call |-> c, event |-> e] : u \in Audience(t)}
      BY <2>11, CallFacts DEF CloseNotify, At, Tell, Progress, Done, Shape, TaskShape,
         redisVars,
         Closers
    <3>2. e \in Promise!RingVerdicts \cup {"ENDED"}
      BY DEF Verdict, Promise!RingVerdicts
    <3>3. known' = known /\ known[c] = Parties(c)
      BY <2>3, <3>1, <3>2 DEF Promise!RingVerdicts
    <3>4. Audience(t) \subseteq Parties(c) /\ Parties(c) \subseteq Users
      BY <3>1 DEF Audience, Other, Parties, CallMeta
    <3>5. Promise!Tell(c, e, Audience(t))
      BY <3>1, <3>2, <3>3, <3>4 DEF Promise!Tell, Promise!Truthful, Promise!RingVerdicts
    <3>6. e \in (Promise!Phases \ {"unwritten", "ACTIVE"}) \cup {"INCOMING", "ACCEPTED"}
      BY <3>2 DEF Promise!Phases, Promise!RingVerdicts
    <3>7. Audience(t) \in SUBSET Users /\ c \in CallIds
      BY <3>1, <3>4
    <3> HIDE DEF c, e
    <3> QED
      BY <3>5, <3>6, <3>7 DEF Promise!Next
  <2>12. ASSUME NEW c \in CallIds, ExpireRecord(c) PROVE Promise!Next
    BY <2>3, <2>12 DEF ExpireRecord, Promise!Next, Promise!Lapse
  <2>13. ASSUME NEW p \in PairKeys, ExpireLock(p) PROVE Promise!Next
    <3>1. lock[p] \in CallIds
      BY <2>0, <2>13 DEF ExpireLock
    <3> QED
      BY <2>3, <2>13, <3>1 DEF ExpireLock, Promise!Next, Promise!Lapse
  <2>14. ASSUME NEW t \in Slots, Step(t) PROVE Promise!Next \/ Same
    BY <2>4, <2>6, <2>7, <2>8, <2>9, <2>10, <2>11, <2>14 DEF Step, AddFetch, InviteRefused,
       InviteLock, InviteExpire, InviteArm, AcceptFetch, AcceptKeep, AcceptExtend, CloseFetch, CloseUnlock,
       CloseErase, DropLook, DropFetch, redisVars, pastVars
  <2> QED
    BY <2>4, <2>12, <2>13, <2>14 DEF Next, Message, BeginInvite, BeginAdd, BeginAccept,
       BeginDecline, BeginCancel, BeginHangup, Begin, Disconnect, HandlerFails, TimerFires,
       Crash, vars, redisVars, pastVars
<1> QED
  BY <1>1, <1>2, ShapeInvariant, SecretInvariant, ProgressInvariant, LockedInvariant, PTL
     DEF Spec, PromiseSpec, Promise!Spec
-----------------------------------------------------------------------------
(***************************************************************************)
(* Nobody is busy without a reason: whoever holds a lock is in progress,   *)
(* is being written or cleaned up by a handler in charge of it, or a fault *)
(* met it.                                                                 *)
(***************************************************************************)
InCharge(t, c) ==
    task[t].call = c /\ (At(t, {"invite", "add"}, "write") \/ At(t, Closers, "unlock"))

Accounted(c) == Live(c) \/ c \in lapsed \cup severed \/ \E t \in Slots : InCharge(t, c)

NoOrphan ==
    \A p \in PairKeys : lock[p] # None => Accounted(lock[p])

\* What is not the call of the handler that moves stays accounted for.
LEMMA StillAccounted ==
  ASSUME Shape, Secret, Progress, NEW t \in Slots, Step(t), NEW c \in CallIds,
         Accounted(c), c # task[t].call
  PROVE  Accounted(c)'
<1>1. /\ \A u \in Slots \ {t} : task'[u] = task[u]
      /\ state'[c] = state[c] /\ UNCHANGED <<lapsed, severed>>
  BY StepFrame, StepTouches DEF Touches, Step, AddFetch, InviteRefused, InviteLock,
     InviteWrite, InviteExpire, InviteAnnounce, InviteArm, AcceptFetch, AcceptSwap,
     AcceptKeep, AcceptExtend, AcceptAnswer, CloseFetch, CloseSwap, CloseUnlock, CloseErase, CloseNotify,
     DropLook, DropFetch, pastVars
<1>2. stored'[c] = stored[c]
  BY DEF Step, AddFetch, InviteRefused, InviteLock, Shape, TypeOK,
     InviteWrite, InviteExpire, InviteAnnounce, InviteArm, AcceptFetch, AcceptSwap,
     AcceptKeep, AcceptExtend, AcceptAnswer, CloseFetch, CloseSwap, CloseUnlock, CloseErase, CloseNotify,
     DropLook, DropFetch, redisVars
<1>3. \A u \in Slots : InCharge(u, c) => InCharge(u, c)'
  BY <1>1 DEF InCharge, At
<1> QED
  BY <1>1, <1>2, <1>3 DEF Accounted, Live

\* Every lock stays accounted for, whatever handler moves.
LEMMA NoOrphanStays ==
  Shape /\ OpenSlots /\ Secret /\ Progress /\ NoOrphan /\ [Next]_vars => NoOrphan'
<1> SUFFICES ASSUME Shape, OpenSlots, Secret, Progress, NoOrphan, [Next]_vars
             PROVE  NoOrphan'
  OBVIOUS
<1> USE NoneAssumption, SlotAssumption
<1>0. /\ task \in [Slots -> Tasks] /\ state \in [CallIds -> States]
      /\ stored \in [CallIds -> BOOLEAN] /\ lock \in [PairKeys -> CallIds \cup {None}]
  BY DEF Shape, TypeOK
<1>1. ASSUME NEW p \in PairKeys, NEW c \in CallIds, lock[p] = c PROVE Accounted(c)
  BY <1>1 DEF NoOrphan, Accounted, InCharge
<1>2. ASSUME \A c \in CallIds : (\E p \in PairKeys : lock'[p] = c) => Accounted(c)',
             \A p \in PairKeys : lock'[p] \in CallIds \cup {None}
      PROVE  NoOrphan'
  BY <1>2 DEF NoOrphan, Accounted, InCharge
<1>3. ASSUME \A p \in PairKeys : lock'[p] \in {lock[p], None},
             \A c \in CallIds : Accounted(c) => Accounted(c)'
      PROVE  NoOrphan'
  BY <1>0, <1>1, <1>2, <1>3
<1>4. ASSUME NEW t \in Slots, Step(t) PROVE NoOrphan'
  <2> PICK me : me = task[t].call
    OBVIOUS
  <2>1. \A c \in CallIds : Accounted(c) /\ c # me => Accounted(c)'
    BY <1>4, StillAccounted
  <2>2. ASSUME UNCHANGED <<state, stored, lapsed, severed>>, ~InCharge(t, me),
               \A p \in PairKeys : lock'[p] \in {lock[p], None}
        PROVE  NoOrphan'
    <3>1. \A u \in Slots : InCharge(u, me) => InCharge(u, me)'
      BY <1>4, <2>2, StepFrame DEF InCharge, At
    <3> QED
      BY <1>3, <2>1, <2>2, <3>1 DEF Accounted, Live
  <2>3. CASE AddFetch(t) \/ InviteRefused(t) \/ InviteExpire(t) \/ InviteAnnounce(t)
             \/ InviteArm(t) \/ AcceptFetch(t) \/ AcceptKeep(t) \/ AcceptExtend(t) \/ AcceptAnswer(t)
             \/ CloseFetch(t) \/ CloseNotify(t) \/ DropLook(t) \/ DropFetch(t)
    BY <2>2, <2>3 DEF AddFetch, InviteRefused, InviteExpire, InviteAnnounce, InviteArm,
       AcceptFetch, AcceptKeep, AcceptExtend, AcceptAnswer, CloseFetch, CloseNotify, DropLook, DropFetch,
       redisVars, pastVars, InCharge, At, Closers
  <2>4. ASSUME NEW c \in CallIds, InviteLock(t, c) PROVE NoOrphan'
    <3>1. InCharge(t, c)'
      BY <1>0, <2>4, TakeFacts DEF InviteLock, InCharge, At, Pcs
    <3>2. ~Drawn(c) /\ me # c
      BY <2>4 DEF InviteLock, Shape, TaskShape
    <3>3. \A p \in PairKeys : lock'[p] \in {lock[p], c}
      BY <1>0, <2>4 DEF InviteLock, SetIfAbsent
    <3>4. ASSUME me \in CallIds, Accounted(me) PROVE Accounted(me)'
      <4>1. UNCHANGED <<state, stored, lapsed, severed>> /\ ~InCharge(t, me)
        BY <2>4 DEF InviteLock, InCharge, At, pastVars, Closers
      <4>2. \A u \in Slots : InCharge(u, me) => InCharge(u, me)'
        BY <1>4, <4>1, StepFrame DEF InCharge, At
      <4> QED
        BY <3>4, <4>1, <4>2 DEF Accounted, Live
    <3>5. Accounted(c)'
      BY <3>1 DEF Accounted
    <3> QED
      BY <1>0, <1>1, <1>2, <2>1, <3>3, <3>4, <3>5
  <2>5. CASE InviteWrite(t)
    <3>1. Live(me)' /\ UNCHANGED lock /\ me \in CallIds
      BY <1>0, <2>5, CallFacts DEF InviteWrite, Live, At, Shape, TaskShape
    <3> QED
      BY <1>3, <2>1, <3>1 DEF Accounted
  <2>6. CASE AcceptSwap(t)
    <3>1. CASE UNCHANGED state
      BY <2>2, <2>6, <3>1 DEF AcceptSwap, pastVars, InCharge, At, Closers
    <3>2. CASE CompareAndSet(me, "RINGING", "ACTIVE")
      <4>1. Live(me)' /\ UNCHANGED lock /\ me \in CallIds
        BY <1>0, <2>6, <3>2, CallFacts
           DEF AcceptSwap, CompareAndSet, Holds, Live, At, Shape, TaskShape
      <4> QED
        BY <1>3, <2>1, <4>1 DEF Accounted
    <3> QED
      BY <2>6, <3>1, <3>2 DEF AcceptSwap
  <2>7. CASE CloseSwap(t)
    <3>1. CASE UNCHANGED state
      BY <2>2, <2>7, <3>1 DEF CloseSwap, pastVars, InCharge, At, Closers
    <3>2. CASE Goto(t, "unlock")
      <4>1. InCharge(t, me)' /\ UNCHANGED lock
        BY <1>0, <2>7, <3>2, GotoFacts DEF CloseSwap, InCharge, At, Pcs
      <4> QED
        BY <1>3, <2>1, <4>1 DEF Accounted
    <3> QED
      BY <2>7, <3>1, <3>2 DEF CloseSwap
  <2>8. CASE CloseUnlock(t)
    <3>1. /\ me \in CallIds /\ KeyOf(me) \in PairKeys
          /\ \A p \in PairKeys : lock[p] = me => p = KeyOf(me)
      BY <2>8, CallFacts DEF CloseUnlock, At, Shape, TaskShape, LockNames
    <3>2. \A p \in PairKeys : lock'[p] \in {lock[p], None} /\ lock'[p] # me
      BY <1>0, <2>8, <3>1 DEF CloseUnlock, DeleteIfEquals
    <3> QED
      BY <1>0, <1>1, <1>2, <2>1, <3>2
  <2>9. CASE CloseErase(t)
    <3>1. me \in CallIds /\ UNCHANGED lock /\ ~InCharge(t, me)
      BY <2>9, CallFacts DEF CloseErase, At, Shape, TaskShape, InCharge
    <3>2. ~Live(me)
      BY <2>9 DEF CloseErase, At, Progress, Done, Live, Verdict
    <3>3. \A u \in Slots : InCharge(u, me) => InCharge(u, me)'
      BY <1>4, <3>1, StepFrame DEF InCharge, At
    <3>4. UNCHANGED <<lapsed, severed>>
      BY <2>9 DEF CloseErase, pastVars
    <3> QED
      BY <1>3, <2>1, <3>1, <3>2, <3>3, <3>4 DEF Accounted
  <2> QED
    BY <1>4, <2>3, <2>4, <2>5, <2>6, <2>7, <2>8, <2>9 DEF Step
<1>5. ASSUME UNCHANGED <<state, stored, lock, lapsed, severed>>,
             \A t \in Slots : task[t] # Idle => task'[t] = task[t]
      PROVE  NoOrphan'
  <2>1. \A t \in Slots, c \in CallIds : InCharge(t, c) => InCharge(t, c)'
    BY <1>5 DEF InCharge, At, Idle
  <2> QED
    BY <1>0, <1>3, <1>5, <2>1 DEF Accounted, Live
<1>6. ASSUME NEW s \in Sockets, Disconnect(s) PROVE NoOrphan'
  BY <1>0, <1>5, <1>6 DEF Disconnect, redisVars, pastVars, OpenSlots
<1>7. ASSUME NEW t \in Handlers, NEW s \in Sockets, Message(t, s) PROVE NoOrphan'
  BY <1>0, <1>5, <1>7 DEF Message, BeginInvite, BeginAdd, BeginAccept, BeginDecline,
     BeginCancel, BeginHangup, Begin, redisVars, pastVars
<1>8. ASSUME NEW c \in CallIds, TimerFires(c) PROVE NoOrphan'
  BY <1>0, <1>5, <1>8 DEF TimerFires, redisVars, pastVars
<1>9. ASSUME NEW t \in Slots, HandlerFails(t) PROVE NoOrphan'
  <2>1. \A u \in Slots, c \in CallIds : InCharge(u, c) => c \in severed' \/ InCharge(u, c)'
    BY <1>9, StepFrame DEF InCharge, At, HandlerFails
  <2>2. UNCHANGED <<state, stored, lock, lapsed>> /\ severed \subseteq severed'
    BY <1>9 DEF HandlerFails, redisVars
  <2> QED
    BY <1>0, <1>3, <2>1, <2>2 DEF Accounted, Live
<1>10. ASSUME NEW c \in CallIds, ExpireRecord(c) PROVE NoOrphan'
  <2>1. /\ UNCHANGED <<state, lock, severed, task>> /\ lapsed' = lapsed \cup {c}
        /\ stored' = [stored EXCEPT ![c] = FALSE]
    BY <1>10 DEF ExpireRecord, localVars
  <2>2. \A u \in Slots, d \in CallIds : InCharge(u, d) => InCharge(u, d)'
    BY <2>1 DEF InCharge, At
  <2> QED
    BY <1>0, <1>3, <2>1, <2>2 DEF Accounted, Live
<1>11. ASSUME NEW p \in PairKeys, ExpireLock(p) PROVE NoOrphan'
  <2>1. /\ UNCHANGED <<state, stored, severed, task>> /\ lapsed \subseteq lapsed'
        /\ lock' = [lock EXCEPT ![p] = None]
    BY <1>11 DEF ExpireLock, localVars
  <2>2. \A u \in Slots, d \in CallIds : InCharge(u, d) => InCharge(u, d)'
    BY <2>1 DEF InCharge, At
  <2> QED
    BY <1>0, <1>3, <2>1, <2>2 DEF Accounted, Live
<1>12. CASE Crash
  <2>1. \A u \in Slots, c \in CallIds : InCharge(u, c) => c \in severed'
    BY <1>12 DEF InCharge, Crash
  <2>2. UNCHANGED <<state, stored, lock, lapsed>> /\ severed \subseteq severed'
    BY <1>12 DEF Crash, redisVars
  <2> QED
    BY <1>0, <1>3, <2>1, <2>2 DEF Accounted, Live
<1>13. CASE UNCHANGED vars
  BY <1>5, <1>13 DEF vars, redisVars, localVars, pastVars
<1> QED
  BY <1>4, <1>6, <1>7, <1>8, <1>9, <1>10, <1>11, <1>12, <1>13 DEF Next

\* A live call holds the lock of its pair unless a key of it ran out, so no
\* cleanup releases the lock of another call; and no pair is left busy: a lock is
\* held for a live call, one being written or cleaned up, or one a fault met.
THEOREM LocksFollowCalls == Spec => []LockFollowsCall
<1>1. Init => NoOrphan
  BY DEF Init, NoOrphan
<1>2. NoOrphan /\ Locked => LockFollowsCall
  BY DEF NoOrphan, Locked, LockFollowsCall, Accounted, InCharge
<1> QED
  BY <1>1, <1>2, NoOrphanStays, ShapeInvariant, OpenSlotsInvariant, SecretInvariant,
     ProgressInvariant, LockedInvariant, PTL DEF Spec
-----------------------------------------------------------------------------
(* What is written keeps its time to live.                                 *)

\* The handler that is about to give the keys of c their time to live.
Setting(t, c) ==
    task[t].call = c /\ (At(t, {"invite", "add"}, "ttl") \/ At(t, {"accept"}, "keep")
                           \/ At(t, {"accept"}, "extend"))

Keeping(c)   == \E t \in Slots : task[t].call = c /\ At(t, {"accept"}, "keep")
Extending(c) == \E t \in Slots : task[t].call = c /\ At(t, {"accept"}, "extend")

\* KeysExpire for one call.
Timed(c) ==
    stored[c] /\ c \notin severed =>
        /\ ttl[c] # "none" \/ \E t \in Slots : task[t].call = c /\ At(t, {"invite", "add"}, "ttl")
        /\ state[c] = "ACTIVE" => ttl[c] = "active" \/ Keeping(c)
        /\ state[c] = "ACTIVE" /\ lock[KeyOf(c)] = c =>
              lease[KeyOf(c)] = "active" \/ Keeping(c) \/ Extending(c)

\* KeysExpire says so of every call.
LEMMA TimedMeans == KeysExpire <=> \A c \in CallIds : Timed(c)
<1>1. ASSUME NEW c \in CallIds
      PROVE  /\ Keeping(c) <=> \E t \in Slots, pc \in {"keep"} :
                                  task[t].call = c /\ At(t, {"accept"}, pc)
             /\ Keeping(c) \/ Extending(c) <=> \E t \in Slots, pc \in {"keep", "extend"} :
                                  task[t].call = c /\ At(t, {"accept"}, pc)
  BY DEF Keeping, Extending
<1>2. ASSUME NEW c \in CallIds
      PROVE  (\E t \in Slots : task[t].call = c /\ At(t, {"invite", "add"}, "ttl")) <=>
             (\E t \in Slots, pc \in {"ttl"} : task[t].call = c /\ At(t, {"invite", "add"}, pc))
  OBVIOUS
<1> QED
  BY <1>1, <1>2 DEF KeysExpire, Timed

\* The lock of c, if it holds one, has the long time to live if it had it before.
LeaseKept(c) ==
    lock'[KeyOf(c)'] = c =>
        /\ lock[KeyOf(c)] = c
        /\ lease[KeyOf(c)] = "active" => lease'[KeyOf(c)'] = "active"

\* A call whose keys and handlers stay as they are stays timed.
LEMMA TimedKept ==
  ASSUME NEW c \in CallIds, Timed(c), ttl'[c] = ttl[c], severed \subseteq severed',
         stored'[c] => stored[c], state'[c] = "ACTIVE" => state[c] = "ACTIVE",
         state'[c] = "ACTIVE" => LeaseKept(c),
         \A t \in Slots : Setting(t, c) => c \in severed' \/ task'[t] = task[t]
  PROVE  Timed(c)'
<1> SUFFICES ASSUME stored'[c], c \notin severed' PROVE Timed(c)'
  BY DEF Timed
<1>1. stored[c] /\ c \notin severed
  OBVIOUS
<1>2. Keeping(c) => Keeping(c)'
  BY DEF Keeping, Setting, At
<1>3. Extending(c) => Extending(c)'
  BY DEF Extending, Setting, At
<1>4. (\E t \in Slots : task[t].call = c /\ At(t, {"invite", "add"}, "ttl")) =>
      (\E t \in Slots : task[t].call = c /\ At(t, {"invite", "add"}, "ttl"))'
  BY DEF Setting, At
<1> QED
  BY <1>1, <1>2, <1>3, <1>4 DEF Timed, LeaseKept

\* No step gives a call in progress a lock, and only accept changes how long
\* the lock it has lives, to the long time.
LEMMA LeaseStays ==
  ASSUME Shape, Secret, [Next]_vars, NEW c \in CallIds, state[c] # "unwritten"
  PROVE  LeaseKept(c)
<1>0. /\ lock \in [PairKeys -> CallIds \cup {None}]
      /\ lease \in [PairKeys -> {"none", "ring", "active"}]
  BY DEF Shape, TypeOK
<1>1. Drawn(c) /\ KeyOf(c)' = KeyOf(c) /\ KeyOf(c) \in PairKeys
  BY NextHistory DEF History, Shape, Traces, TypeOK, Drawn, KeyOf, PairKeys, CallMeta, NoCall
<1>2. lock'[KeyOf(c)] = c => lock[KeyOf(c)] = c
  BY <1>1, NextHistory, NoneAssumption DEF History
<1>3. CASE UNCHANGED <<lock, lease>>
  BY <1>1, <1>3 DEF LeaseKept
<1>4. ASSUME NEW t \in Slots, NEW d \in CallIds, InviteLock(t, d) PROVE LeaseKept(c)
  <2>0. UserOf(t) \in Users /\ task[t].to \in Users
    BY <1>4, OwnerAssumption DEF InviteLock, Shape, TypeOK, TaskShape, At, UserOf
  <2>1. PICK p \in PairKeys : SetIfAbsent(p, d)
    BY <1>4, <2>0 DEF InviteLock, PairKeys
  <2>2. d # c /\ d # None
    BY <1>1, <1>4, NoneAssumption DEF InviteLock
  <2>3. CASE p = KeyOf(c)
    BY <1>0, <1>1, <2>1, <2>2, <2>3 DEF SetIfAbsent, LeaseKept
  <2>4. CASE p # KeyOf(c)
    BY <1>0, <1>1, <1>2, <2>1, <2>4 DEF SetIfAbsent, LeaseKept
  <2> QED
    BY <2>3, <2>4
<1>5. ASSUME NEW t \in Slots, AcceptExtend(t) PROVE LeaseKept(c)
  BY <1>0, <1>1, <1>5, NoneAssumption DEF AcceptExtend, LeaseKept
<1>6. ASSUME UNCHANGED lease PROVE LeaseKept(c)
  BY <1>1, <1>2, <1>6 DEF LeaseKept
<1>7. ASSUME NEW t \in Slots, Step(t) PROVE LeaseKept(c)
  BY <1>4, <1>5, <1>6, <1>7 DEF Step, AddFetch, InviteRefused,
     InviteWrite, InviteExpire, InviteAnnounce, InviteArm, AcceptFetch, AcceptSwap,
     AcceptKeep, AcceptAnswer, CloseFetch, CloseSwap, CloseUnlock, CloseErase, CloseNotify,
     DropLook, DropFetch, redisVars
<1> QED
  BY <1>6, <1>7 DEF Next, Message, BeginInvite, BeginAdd, BeginAccept, BeginDecline,
     BeginCancel, BeginHangup, Begin, Disconnect, HandlerFails, TimerFires, ExpireRecord,
     ExpireLock, Crash, vars, redisVars

\* A step of a handler keeps the other calls timed.
LEMMA OthersTimed ==
  ASSUME Shape, Secret, NEW t \in Slots, Step(t), NEW c \in CallIds, c # task[t].call,
         Timed(c)
  PROVE  Timed(c)'
<1>1. UNCHANGED severed /\ stored'[c] = stored[c] /\ ttl'[c] = ttl[c]
  BY DEF Step, AddFetch, InviteRefused, InviteLock, Shape, TypeOK,
     InviteWrite, InviteExpire, InviteAnnounce, InviteArm, AcceptFetch, AcceptSwap,
     AcceptKeep, AcceptExtend, AcceptAnswer, CloseFetch, CloseSwap, CloseUnlock, CloseErase,
     CloseNotify, DropLook, DropFetch, redisVars, pastVars
<1>2. state'[c] = state[c] /\ \A u \in Slots \ {t} : task'[u] = task[u]
  BY StepFrame, StepTouches DEF Touches
<1>3. state'[c] = "ACTIVE" => LeaseKept(c)
  BY <1>2, LeaseStays DEF Next
<1> QED
  BY <1>1, <1>2, <1>3, TimedKept DEF Setting

\* Every record keeps a time to live or a handler that will give it one.
LEMMA TimedStays ==
  Shape /\ OpenSlots /\ Secret /\ KeysExpire /\ [Next]_vars => KeysExpire'
<1> SUFFICES ASSUME Shape, OpenSlots, Secret, KeysExpire, [Next]_vars,
                    NEW c \in CallIds
             PROVE  Timed(c)'
  <2>1. (\A c \in CallIds : Timed(c))' => KeysExpire'
    BY TimedMeans, PTL
  <2> QED
    BY <2>1
<1> USE NoneAssumption, SlotAssumption
<1>0. /\ task \in [Slots -> Tasks] /\ state \in [CallIds -> States]
      /\ stored \in [CallIds -> BOOLEAN] /\ ttl \in [CallIds -> {"none", "ring", "active"}]
  BY DEF Shape, TypeOK
<1>1. Timed(c)
  BY TimedMeans
<1>l. state[c] # "unwritten" => LeaseKept(c)
  BY LeaseStays
<1>2. ASSUME UNCHANGED <<state, ttl, stored, severed>>,
             \A t \in Slots : Setting(t, c) => task'[t] = task[t]
      PROVE  Timed(c)'
  BY <1>1, <1>2, <1>l, TimedKept
<1>3. ASSUME NEW t \in Slots, Step(t) PROVE Timed(c)'
  <2>1. CASE c # task[t].call
    BY <1>1, <1>3, <2>1, OthersTimed
  <2> SUFFICES ASSUME c = task[t].call PROVE Timed(c)'
    BY <2>1
  <2>2. ASSUME UNCHANGED <<state, ttl, stored, severed>>, ~Setting(t, c) PROVE Timed(c)'
    BY <1>2, <1>3, <2>2, StepFrame DEF Setting
  <2>3. CASE AddFetch(t) \/ InviteRefused(t) \/ InviteAnnounce(t)
             \/ InviteArm(t) \/ AcceptFetch(t) \/ AcceptAnswer(t)
             \/ CloseFetch(t) \/ CloseUnlock(t) \/ CloseNotify(t) \/ DropLook(t) \/ DropFetch(t)
    BY <2>2, <2>3 DEF AddFetch, InviteRefused, InviteAnnounce, InviteArm,
       AcceptFetch, AcceptAnswer, CloseFetch, CloseUnlock, CloseNotify, DropLook, DropFetch,
       redisVars, pastVars, Setting, At, Closers
  <2>4. ASSUME NEW d \in CallIds, InviteLock(t, d) PROVE Timed(c)'
    BY <2>2, <2>4 DEF InviteLock, Setting, At, pastVars
  <2>5. CASE InviteWrite(t)
    BY <1>0, <2>5, GotoFacts DEF InviteWrite, Timed, At, Pcs
  <2>6. CASE InviteExpire(t)
    <3>1. state[c] = "RINGING"
      BY <2>6 DEF InviteExpire, Secret, Placing, At
    <3> QED
      BY <1>0, <2>6, <3>1 DEF InviteExpire, Timed
  <2>7. CASE AcceptSwap(t)
    <3>1. CASE UNCHANGED state
      BY <2>2, <2>7, <3>1 DEF AcceptSwap, pastVars, Setting, At
    <3>2. CASE Goto(t, "keep")
      <4>1. /\ task'[t].call = c /\ At(t, {"accept"}, "keep")'
            /\ \A u \in Slots \ {t} : task'[u] = task[u]
            /\ UNCHANGED <<stored, ttl, severed>>
            /\ ~At(t, {"invite", "add"}, "ttl")
        BY <1>0, <2>7, <3>2, GotoFacts DEF AcceptSwap, At, Pcs, pastVars
      <4> QED
        <5>1. Keeping(c)'
          BY <4>1 DEF Keeping
        <5>2. (\E u \in Slots : task[u].call = c /\ At(u, {"invite", "add"}, "ttl")) =>
              (\E u \in Slots : task[u].call = c /\ At(u, {"invite", "add"}, "ttl"))'
          BY <4>1 DEF At
        <5> QED
          BY <1>1, <4>1, <5>1, <5>2 DEF Timed
    <3> QED
      BY <2>7, <3>1, <3>2 DEF AcceptSwap
  <2>8. CASE AcceptKeep(t)
    <3>1. /\ ttl' = [ttl EXCEPT ![c] = IF stored[c] THEN "active" ELSE @]
          /\ UNCHANGED <<state, stored, severed>>
          /\ At(t, {"accept"}, "extend")' /\ task'[t].call = c
      BY <1>0, <2>8, GotoFacts DEF AcceptKeep, pastVars, At, Pcs
    <3>2. Extending(c)'
      BY <3>1 DEF Extending
    <3> QED
      BY <1>0, <3>1, <3>2 DEF Timed
  <2>11. CASE AcceptExtend(t)
    <3>1. /\ UNCHANGED <<meta, ttl, state, stored, lock, severed>> /\ At(t, {"accept"}, "extend")
          /\ lease' = [lease EXCEPT ![KeyOf(c)] = IF lock[KeyOf(c)] = None THEN @ ELSE "active"]
          /\ KeyOf(c) \in PairKeys /\ lease \in [PairKeys -> {"none", "ring", "active"}]
      BY <1>0, <2>11, CallFacts DEF AcceptExtend, pastVars, At, Shape, TypeOK, TaskShape
    <3>2. lock'[KeyOf(c)'] = c => lease'[KeyOf(c)'] = "active"
      BY <3>1 DEF KeyOf
    <3>3. Keeping(c) => Keeping(c)'
      BY <1>3, <3>1, StepFrame DEF Keeping, At
    <3>4. (\E u \in Slots : task[u].call = c /\ At(u, {"invite", "add"}, "ttl")) =>
          (\E u \in Slots : task[u].call = c /\ At(u, {"invite", "add"}, "ttl"))'
      BY <1>3, <3>1, StepFrame DEF At
    <3> QED
      BY <1>1, <3>1, <3>2, <3>3, <3>4 DEF Timed
  <2>9. CASE CloseSwap(t)
    <3>1. state'[c] = "ACTIVE" => state[c] = "ACTIVE"
      BY <1>0, <2>9 DEF CloseSwap, CompareAndSet, Verdict, Expected
    <3>2. UNCHANGED <<stored, ttl, severed>> /\ ~Setting(t, c)
      BY <2>9 DEF CloseSwap, pastVars, Setting, At, Closers
    <3> QED
      BY <1>1, <1>l, <1>3, <3>1, <3>2, StepFrame, TimedKept DEF Setting
  <2>10. CASE CloseErase(t)
    BY <1>0, <2>10 DEF CloseErase, Timed
  <2> QED
    BY <1>3, <2>3, <2>4, <2>5, <2>6, <2>7, <2>8, <2>9, <2>10, <2>11 DEF Step
<1>4. ASSUME UNCHANGED <<state, ttl, stored, severed>>,
             \A t \in Slots : task[t] # Idle => task'[t] = task[t]
      PROVE  Timed(c)'
  BY <1>2, <1>4 DEF Setting, At, Idle
<1>5. ASSUME NEW s \in Sockets, Disconnect(s) PROVE Timed(c)'
  BY <1>0, <1>4, <1>5 DEF Disconnect, redisVars, pastVars, OpenSlots
<1>6. ASSUME NEW t \in Handlers, NEW s \in Sockets, Message(t, s) PROVE Timed(c)'
  BY <1>0, <1>4, <1>6 DEF Message, BeginInvite, BeginAdd, BeginAccept, BeginDecline,
     BeginCancel, BeginHangup, Begin, redisVars, pastVars
<1>7. ASSUME NEW d \in CallIds, TimerFires(d) PROVE Timed(c)'
  BY <1>0, <1>4, <1>7 DEF TimerFires, redisVars, pastVars
<1>8. ASSUME NEW t \in Slots, HandlerFails(t) PROVE Timed(c)'
  BY <1>1, <1>l, <1>8, StepFrame, TimedKept DEF HandlerFails, redisVars, Setting
<1>9. ASSUME NEW d \in CallIds, ExpireRecord(d) PROVE Timed(c)'
  BY <1>0, <1>1, <1>l, <1>9, TimedKept DEF ExpireRecord, localVars
<1>10. ASSUME NEW p \in PairKeys, ExpireLock(p) PROVE Timed(c)'
  BY <1>2, <1>10 DEF ExpireLock, localVars
<1>11. CASE Crash
  BY <1>1, <1>l, <1>11, TimedKept DEF Crash, redisVars, Setting
<1>12. CASE UNCHANGED vars
  BY <1>2, <1>12 DEF vars, redisVars, localVars, pastVars
<1> QED
  BY <1>3, <1>5, <1>6, <1>7, <1>8, <1>9, <1>10, <1>11, <1>12 DEF Next

\* No record stays in Redis for ever, and an answered call has its long time to
\* live or is about to get it, unless its handler was cut short.
THEOREM RecordsExpire == Spec => []KeysExpire
<1>1. Init => KeysExpire
  BY DEF Init, KeysExpire
<1> QED
  BY <1>1, TimedStays, ShapeInvariant, OpenSlotsInvariant, SecretInvariant, PTL DEF Spec
-----------------------------------------------------------------------------
\* A call rings into another call's room only if a party of an answered call
\* in that room placed it, whatever becomes of that call meanwhile.
THEOREM RoomsAreOpenedFromInside == Spec => []InvitedFromInside
<1> USE NoneAssumption
<1>1. Init => InvitedFromInside
  BY DEF Init, InvitedFromInside, Drawn, NoCall
<1>2. Shape /\ Secret /\ Progress /\ InvitedFromInside /\ [Next]_vars => InvitedFromInside'
  <2> SUFFICES ASSUME Shape, Secret, Progress, InvitedFromInside, [Next]_vars
               PROVE  InvitedFromInside'
    OBVIOUS
  <2>1. History
    BY NextHistory
  <2>2. ASSUME NEW d \in CallIds, state[d] \in {"ACTIVE", "ENDED"}
        PROVE  /\ state'[d] \in {"ACTIVE", "ENDED"} /\ meta'[d] = meta[d]
               /\ Parties(d)' = Parties(d)
    BY <2>1, <2>2 DEF History, OneWay, Shape, Traces, Parties
  <2>3. ASSUME NEW c \in CallIds, Drawn(c), meta'[c].room # c
        PROVE  \E d \in CallIds \ {c} : /\ meta'[d].room = meta'[c].room
                                        /\ meta'[c].caller \in Parties(d)'
                                        /\ state'[d] \in {"ACTIVE", "ENDED"}
    BY <2>1, <2>2, <2>3 DEF History, InvitedFromInside
  <2>4. ASSUME NEW t \in Slots, NEW c \in CallIds, InviteLock(t, c), meta'[c].room # c
        PROVE  \E d \in CallIds \ {c} : /\ meta'[d].room = meta'[c].room
                                        /\ meta'[c].caller \in Parties(d)'
                                        /\ state'[d] \in {"ACTIVE", "ENDED"}
    <3>1. meta \in [CallIds -> CallMeta \cup {NoCall}]
      BY DEF Shape, TypeOK
    <3>2. /\ meta'[c].caller = UserOf(t)
          /\ task[t].call # None /\ meta'[c].room = meta[task[t].call].room
      BY <2>4, <3>1 DEF InviteLock
    <3>3. task[t].op = "add" /\ task[t].pc = "lock" /\ task[t].call \in CallIds
      BY <2>4, <3>2, CallFacts DEF InviteLock, At, Shape, TaskShape
    <3>4. state[task[t].call] \in {"ACTIVE", "ENDED"} /\ UserOf(t) \in Parties(task[t].call)
      BY <3>3 DEF Progress, Done
    <3>5. task[t].call # c
      BY <2>4, <3>2 DEF InviteLock, Shape, TaskShape
    <3> QED
      BY <2>2, <3>2, <3>3, <3>4, <3>5
  <2>5. ASSUME NEW c \in CallIds, ~Drawn(c), Drawn(c)'
        PROVE  \E t \in Slots : InviteLock(t, c)
    <3>1. meta \in [CallIds -> CallMeta \cup {NoCall}] /\ meta' # meta
      BY <2>5 DEF Shape, TypeOK, Drawn
    <3>2. ASSUME NEW t \in Slots, Step(t) PROVE UNCHANGED meta \/ \E d \in CallIds : InviteLock(t, d)
      BY <3>2 DEF Step, AddFetch, InviteRefused, InviteWrite, InviteExpire,
         InviteAnnounce, InviteArm, AcceptFetch, AcceptSwap, AcceptKeep, AcceptExtend, AcceptAnswer,
         CloseFetch, CloseSwap, CloseUnlock, CloseErase, CloseNotify, DropLook, DropFetch,
         redisVars
    <3>3. ASSUME NEW t \in Handlers, NEW s \in Sockets, Message(t, s) PROVE UNCHANGED meta
      BY <3>3 DEF Message, BeginInvite, BeginAdd, BeginAccept, BeginDecline,
         BeginCancel, BeginHangup, Begin, redisVars
    <3>4. ASSUME NEW t \in Slots, HandlerFails(t) PROVE UNCHANGED meta
      BY <3>4 DEF HandlerFails, redisVars
    <3>5. ASSUME NEW d \in CallIds, TimerFires(d) \/ ExpireRecord(d) PROVE UNCHANGED meta
      BY <3>5 DEF TimerFires, ExpireRecord, redisVars
    <3>6. ASSUME NEW s \in Sockets, Disconnect(s) PROVE UNCHANGED meta
      BY <3>6 DEF Disconnect, redisVars
    <3>7. PICK t \in Slots, d \in CallIds : InviteLock(t, d)
      BY <3>1, <3>2, <3>3, <3>4, <3>5, <3>6 DEF Next, ExpireLock, Crash, vars, redisVars
    <3>8. c = d
      BY <2>5, <3>1, <3>7 DEF InviteLock, Drawn
    <3> QED
      BY <3>7, <3>8
  <2> QED
    BY <2>3, <2>4, <2>5 DEF InvitedFromInside
<1> QED
  BY <1>1, <1>2, ShapeInvariant, SecretInvariant, ProgressInvariant, PTL DEF Spec
-----------------------------------------------------------------------------
(***************************************************************************)
(* Own: a socket carries calls of its own user only, because the handlers  *)
(* that bind a call to it act for a party.  So the handler of a disconnect *)
(* is entitled to end the call it finds.                                   *)
(***************************************************************************)
ActsForParty(t) ==
    LET c == task[t].call
    IN  /\ task[t].op = "invite" /\ task[t].pc # "lock" => UserOf(t) = meta[c].caller
        /\ task[t].op = "accept" /\ task[t].pc # "fetch" => UserOf(t) = meta[c].callee

\* What the handler of the disconnect of s knows.
Dropping(s) ==
    LET c == task[s].call
        op == task[s].op
    IN  task[s] # Idle =>
            /\ op \in {"offline", "cancel", "decline", "hangup"}
            /\ task[s].sock = s
            /\ op = "offline" /\ task[s].pc = "start" => c = None
            /\ c # None => Owner[s] \in Parties(c)
            /\ op = "cancel" => Owner[s] = meta[c].caller
            /\ op = "decline" => Owner[s] = meta[c].callee
            /\ op = "hangup" => state[c] \in {"ACTIVE", "ENDED"}

Own ==
    /\ \A t \in Slots : ActsForParty(t)
    /\ \A s \in Sockets : data[s] # None => Owner[s] \in Parties(data[s])
    /\ \A s \in Sockets : Dropping(s)

\* A handler that does not move, and whose call was drawn, keeps what it knows.
LEMMA OwnKept ==
  ASSUME Shape, History, NEW t \in Slots, task'[t] = task[t]
  PROVE  /\ ActsForParty(t) => ActsForParty(t)'
         /\ t \in Sockets => (Dropping(t) => Dropping(t)')
<1>1. CASE task[t].call = None
  BY <1>1 DEF ActsForParty, Dropping, Shape, TaskShape, UserOf, Idle, Closers
<1>2. CASE task[t].call # None
  <2>1. /\ task[t].call \in CallIds /\ meta'[task[t].call] = meta[task[t].call]
        /\ OneWay(task[t].call)
    BY <1>2, CallFacts DEF History, Shape, TaskShape
  <2> QED
    BY <2>1 DEF ActsForParty, Dropping, UserOf, Parties, OneWay
<1> QED
  BY <1>1, <1>2

\* What a socket carries stays its user's.
LEMMA DataKept ==
  ASSUME Shape, History, NEW s \in Sockets, data'[s] \in {data[s], None},
         data[s] # None => Owner[s] \in Parties(data[s])
  PROVE  (data[s] # None => Owner[s] \in Parties(data[s]))'
  BY NoneAssumption DEF Shape, TypeOK, Traces, History, Parties

\* A socket carries the calls of its own user only.
LEMMA OwnStays ==
  Shape /\ OpenSlots /\ Secret /\ Own /\ [Next]_vars => Own'
<1> SUFFICES ASSUME Shape, OpenSlots, Secret, Own, [Next]_vars PROVE Own'
  OBVIOUS
<1> USE NoneAssumption, SlotAssumption, OwnerAssumption
<1>0. /\ task \in [Slots -> Tasks] /\ data \in [Sockets -> CallIds \cup {None}]
      /\ meta \in [CallIds -> CallMeta \cup {NoCall}] /\ state \in [CallIds -> States]
  BY DEF Shape, TypeOK
<1>1. History
  BY NextHistory
<1>2. Sockets \subseteq Slots /\ Handlers \subseteq Slots /\ CallIds \subseteq Slots
  BY DEF Slots
<1>3. ASSUME \A t \in Slots : task'[t] = task[t] \/ task'[t] = Idle,
             \A s \in Sockets : data'[s] \in {data[s], None}
      PROVE  Own'
  <2>1. ASSUME NEW t \in Slots PROVE ActsForParty(t)'
    BY <1>1, <1>3, OwnKept DEF Own, ActsForParty, Idle
  <2>2. ASSUME NEW s \in Sockets PROVE Dropping(s)'
    BY <1>1, <1>2, <1>3, OwnKept DEF Own, Dropping, Idle
  <2> QED
    BY <1>1, <1>3, <2>1, <2>2, DataKept DEF Own
<1>4. ASSUME NEW t \in Slots, Step(t),
             ActsForParty(t)', t \in Sockets => Dropping(t)',
             \A s \in Sockets : data'[s] \in {data[s], None}
                  \/ Owner[s] \in Parties(data[s])'
      PROVE  Own'
  <2>1. ASSUME NEW u \in Slots PROVE ActsForParty(u)'
    BY <1>1, <1>4, OwnKept, StepFrame DEF Own
  <2>2. ASSUME NEW s \in Sockets PROVE Dropping(s)'
    BY <1>1, <1>2, <1>4, OwnKept, StepFrame DEF Own
  <2>3. ASSUME NEW s \in Sockets PROVE (data[s] # None => Owner[s] \in Parties(data[s]))'
    BY <1>1, <1>4, DataKept DEF Own
  <2> QED
    BY <2>1, <2>2, <2>3 DEF Own
<1>5. ASSUME NEW t \in Slots, Step(t) PROVE Own'
  <2>1. CASE Finish(t) /\ UNCHANGED data
    BY <1>0, <1>3, <1>5, <2>1, FinishFacts, StepFrame
  <2>2. ASSUME NEW pc \in Pcs, Goto(t, pc), UNCHANGED data,
               task[t].op = "invite" => task[t].pc # "lock",
               task[t].op = "offline" => FALSE,
               task[t].op = "accept" => task[t].pc # "fetch"
        PROVE  Own'
    <3>1. /\ task'[t].op = task[t].op /\ task'[t].call = task[t].call
          /\ task'[t].sock = task[t].sock /\ task[t] # Idle
      BY <1>0, <1>5, <2>2, GotoFacts, StepFrame
    <3>2. CASE task[t].call = None
      BY <1>0, <1>4, <1>5, <2>2, <3>1, <3>2
         DEF Shape, TaskShape, Closers, ActsForParty, Dropping, UserOf, Own
    <3>3. CASE task[t].call # None
      <4>1. /\ task[t].call \in CallIds /\ meta'[task[t].call] = meta[task[t].call]
            /\ OneWay(task[t].call)
        BY <1>1, <3>3, CallFacts DEF History, Shape, TaskShape
      <4>2. ActsForParty(t)'
        BY <2>2, <3>1, <4>1 DEF ActsForParty, UserOf, Own
      <4>3. t \in Sockets => Dropping(t)'
        BY <2>2, <3>1, <4>1 DEF Dropping, Own, OneWay, Parties
      <4> QED
        BY <1>4, <1>5, <2>2, <4>2, <4>3
    <3> QED
      BY <3>2, <3>3
  <2>3. CASE AddFetch(t) \/ InviteRefused(t) \/ InviteWrite(t) \/ InviteExpire(t) \/ InviteArm(t)
             \/ AcceptSwap(t) \/ AcceptKeep(t) \/ AcceptExtend(t)
    BY <2>1, <2>2, <2>3 DEF AddFetch, InviteRefused, InviteWrite, InviteExpire, InviteArm,
       AcceptSwap, AcceptKeep, AcceptExtend, At, Pcs
  <2>4. CASE CloseFetch(t) \/ CloseSwap(t) \/ CloseUnlock(t) \/ CloseErase(t) \/ CloseNotify(t)
    BY <2>1, <2>2, <2>4 DEF CloseFetch, CloseSwap, CloseUnlock, CloseErase, CloseNotify, At,
       Pcs, Closers
  <2>5. ASSUME NEW c \in CallIds, InviteLock(t, c) PROVE Own'
    <3>1. /\ task'[t].op = task[t].op /\ task'[t].call = c /\ task'[t].sock = task[t].sock
          /\ meta'[c].caller = UserOf(t) /\ task[t].op \in {"invite", "add"}
          /\ UNCHANGED data
      BY <1>0, <2>5, TakeFacts DEF InviteLock, At, Pcs
    <3>2. t \notin Sockets
      BY <3>1, <1>2 DEF Own, Dropping, Idle
    <3> QED
      BY <1>4, <1>5, <3>1, <3>2 DEF ActsForParty, UserOf
  <2>6. CASE InviteAnnounce(t)
    <3>1. /\ Goto(t, "arm") /\ task[t].op \in {"invite", "add"} /\ task[t].pc = "announce"
          /\ UNCHANGED meta /\ task[t] # Idle
      BY <2>6, <1>5, StepFrame DEF InviteAnnounce, At, redisVars
    <3>2. /\ task'[t].op = task[t].op /\ task'[t].call = task[t].call
          /\ task'[t].sock = task[t].sock
      BY <1>0, <3>1, GotoFacts DEF Pcs
    <3>3. t \notin Sockets
      BY <3>1, <1>2 DEF Own, Dropping
    <3>4. ActsForParty(t)'
      BY <3>1, <3>2 DEF ActsForParty, UserOf, Own
    <3>5. ASSUME NEW s \in Sockets, data'[s] # data[s] PROVE Owner[s] \in Parties(data[s])'
      <4>1. task[t].op = "invite" /\ s = task[t].sock /\ data'[s] = task[t].call
        BY <1>0, <2>6, <3>1, <3>5 DEF InviteAnnounce, At
      <4> QED
        BY <3>1, <4>1 DEF Own, ActsForParty, UserOf, Parties
    <3> QED
      BY <1>4, <1>5, <3>3, <3>4, <3>5
  <2>7. CASE AcceptFetch(t)
    <3>1. CASE Finish(t)
      BY <2>1, <2>7, <3>1 DEF AcceptFetch
    <3>2. CASE Goto(t, "swap") /\ meta[task[t].call].callee = UserOf(t)
      <4>1. /\ task'[t].op = task[t].op /\ task'[t].call = task[t].call
            /\ task'[t].sock = task[t].sock /\ task[t].op = "accept"
            /\ UNCHANGED <<meta, data>>
        BY <1>0, <2>7, <3>2, GotoFacts DEF AcceptFetch, At, Pcs, redisVars
      <4>2. t \notin Sockets
        BY <4>1, <1>2 DEF Own, Dropping, Idle
      <4> QED
        BY <1>4, <1>5, <3>2, <4>1, <4>2 DEF ActsForParty, UserOf
    <3> QED
      BY <2>7, <3>1, <3>2 DEF AcceptFetch
  <2>8. CASE AcceptAnswer(t)
    <3>1. /\ task'[t] = Idle /\ task[t].op = "accept" /\ task[t].pc = "answer"
          /\ UNCHANGED meta
          /\ data' = [data EXCEPT ![task[t].sock] = task[t].call]
      BY <1>0, <2>8, FinishFacts DEF AcceptAnswer, At, redisVars
    <3>2. ASSUME NEW s \in Sockets, data'[s] # data[s] PROVE Owner[s] \in Parties(data[s])'
      <4>1. s = task[t].sock /\ data'[s] = task[t].call
        BY <1>0, <3>1, <3>2
      <4> QED
        BY <3>1, <4>1 DEF Own, ActsForParty, UserOf, Parties
    <3> QED
      BY <1>4, <1>5, <3>1, <3>2 DEF ActsForParty, Dropping, Idle
  <2>9. CASE DropLook(t)
    <3>1. CASE Finish(t)
      BY <2>1, <2>9, <3>1 DEF DropLook
    <3>2. ASSUME NEW c \in CallIds, c = data[task[t].sock], Take(t, "fetch", c) PROVE Own'
      <4>1. /\ task'[t].op = "offline" /\ task'[t].call = c /\ task[t].op = "offline"
            /\ task'[t].sock = task[t].sock /\ task'[t].pc = "fetch"
            /\ UNCHANGED <<meta, data>>
        BY <1>0, <2>9, <3>2, TakeFacts DEF DropLook, At, Pcs, redisVars
      <4>2. t \in Sockets => Dropping(t)'
        BY <3>2, <4>1, <1>2 DEF Own, Dropping, Parties, Idle
      <4> QED
        BY <1>4, <1>5, <4>1, <4>2 DEF ActsForParty
    <3> QED
      BY <1>0, <2>9, <3>1, <3>2 DEF DropLook, At, Shape, TaskShape
  <2>10. CASE DropFetch(t)
    <3>1. CASE Finish(t)
      BY <2>1, <2>10, <3>1 DEF DropFetch
    <3>2. ASSUME NEW op \in {"hangup", "cancel", "decline"}, Become(t, op),
                 op = "hangup" => state[task[t].call] = "ACTIVE",
                 op = "cancel" => meta[task[t].call].caller = UserOf(t),
                 op = "decline" => meta[task[t].call].caller # UserOf(t)
          PROVE  Own'
      <4>1. /\ task'[t].op = op /\ task'[t].call = task[t].call /\ task[t].op = "offline"
            /\ task'[t].sock = task[t].sock /\ task[t].pc = "fetch"
            /\ UNCHANGED <<meta, data, state>>
        BY <1>0, <2>10, <3>2, BecomeFacts DEF DropFetch, At, Ops, redisVars
      <4>2. task[t].call # None
        BY <4>1 DEF Shape, TaskShape
      <4>3. t \in Sockets => Dropping(t)'
        BY <3>2, <4>1, <4>2, <1>2 DEF Own, Dropping, Parties, UserOf, Idle
      <4> QED
        BY <1>4, <1>5, <3>2, <4>1, <4>3 DEF ActsForParty
    <3> QED
      BY <2>10, <3>1, <3>2 DEF DropFetch, Holds
  <2> QED
    BY <1>5, <2>3, <2>4, <2>5, <2>6, <2>7, <2>8, <2>9, <2>10 DEF Step
<1>6. ASSUME NEW s \in Sockets, Disconnect(s) PROVE Own'
  <2>1. /\ task' = [task EXCEPT ![s] = [op |-> "offline", pc |-> "start",
                                        sock |-> s, call |-> None, to |-> None]]
        /\ UNCHANGED data
    BY <1>6 DEF Disconnect
  <2>2. task'[s].op = "offline" /\ task'[s].sock = s /\ task'[s].call = None
    BY <1>0, <1>2, <2>1
  <2>3. \A u \in Slots \ {s} : task'[u] = task[u]
    BY <1>0, <2>1
  <2>4. ASSUME NEW u \in Slots PROVE ActsForParty(u)'
    BY <1>1, <2>2, <2>3, OwnKept DEF Own, ActsForParty
  <2>5. ASSUME NEW u \in Sockets PROVE Dropping(u)'
    BY <1>1, <1>2, <2>2, <2>3, OwnKept DEF Own, Dropping
  <2> QED
    BY <1>1, <2>1, <2>4, <2>5, DataKept DEF Own
<1>7. ASSUME NEW t \in Handlers, NEW s \in Sockets, Message(t, s) PROVE Own'
  <2>1. /\ \A u \in Slots \ {t} : task'[u] = task[u]
        /\ task'[t].op = "invite" => task'[t].pc = "lock"
        /\ task'[t].op = "accept" => task'[t].pc = "fetch"
        /\ \A u \in Sockets : data'[u] \in {data[u], None}
    BY <1>0, <1>2, <1>7 DEF Message, BeginInvite, BeginAdd, BeginAccept, BeginDecline,
       BeginCancel, BeginHangup, Begin
  <2>2. ASSUME NEW u \in Slots PROVE ActsForParty(u)'
    BY <1>1, <2>1, OwnKept DEF Own, ActsForParty
  <2>3. ASSUME NEW u \in Sockets PROVE Dropping(u)'
    BY <1>1, <1>2, <2>1, OwnKept DEF Own
  <2> QED
    BY <1>1, <2>1, <2>2, <2>3, DataKept DEF Own
<1>8. ASSUME NEW c \in CallIds, TimerFires(c) PROVE Own'
  <2>1. /\ \A u \in Slots \ {c} : task'[u] = task[u]
        /\ task'[c].op = "timeout" /\ UNCHANGED data
    BY <1>0, <1>2, <1>8 DEF TimerFires
  <2>2. ASSUME NEW u \in Slots PROVE ActsForParty(u)'
    BY <1>1, <2>1, OwnKept DEF Own, ActsForParty
  <2>3. ASSUME NEW u \in Sockets PROVE Dropping(u)'
    BY <1>1, <1>2, <2>1, OwnKept DEF Own
  <2> QED
    BY <1>1, <2>1, <2>2, <2>3, DataKept DEF Own
<1>9. ASSUME NEW t \in Slots, HandlerFails(t) PROVE Own'
  BY <1>0, <1>3, <1>9, FinishFacts DEF HandlerFails
<1>10. ASSUME NEW c \in CallIds, ExpireRecord(c) PROVE Own'
  BY <1>3, <1>10 DEF ExpireRecord, localVars
<1>11. ASSUME NEW p \in PairKeys, ExpireLock(p) PROVE Own'
  BY <1>3, <1>11 DEF ExpireLock, localVars
<1>12. CASE Crash
  BY <1>3, <1>12 DEF Crash
<1>13. CASE UNCHANGED vars
  BY <1>3, <1>13 DEF vars, localVars
<1> QED
  BY <1>5, <1>6, <1>7, <1>8, <1>9, <1>10, <1>11, <1>12, <1>13 DEF Next

\* Every handler acts for a party and every socket carries its own user's call.
LEMMA OwnInvariant == Spec => []Own
<1>1. Init => Own
  BY DEF Init, Own, ActsForParty, Dropping, Idle, Slots
<1> QED
  BY <1>1, OwnStays, ShapeInvariant, OpenSlotsInvariant, SecretInvariant, PTL DEF Spec

\* When the handler of a disconnect is done with the call it found, the call is
\* over, unless it was answered after the handler had read that it rang, or the
\* handler was cut short.
THEOREM NoZombieCall == Spec => DropEndsTheCall
<1> USE NoneAssumption, SlotAssumption
<1> DEFINE Ends(s, c) == \/ ~Live(c)'
                         \/ task[s].op \in {"cancel", "decline"} /\ state[c] = "ACTIVE"
                         \/ c \in severed'
<1>1. ASSUME Shape, OpenSlots, Progress, Own, [Next]_vars,
             NEW s \in Sockets, NEW c \in CallIds, task[s].call = c, task'[s] = Idle
      PROVE  Ends(s, c)
  <2>0. /\ task \in [Slots -> Tasks] /\ s \in Slots /\ task[s] # Idle
        /\ stored \in [CallIds -> BOOLEAN] /\ state \in [CallIds -> States]
        /\ Dropping(s)
    BY <1>1 DEF Shape, TypeOK, Slots, Idle, Own
  <2>1. CASE Step(s)
    <3>1. CASE CloseFetch(s)
      <4>1. ~(stored[c] /\ Entitled(s)) /\ UNCHANGED <<stored, state>>
        <5>1. ~Goto(s, "swap")
          BY <1>1, <2>0, GotoFacts DEF Idle, Pcs
        <5> QED
          BY <1>1, <3>1, <5>1 DEF CloseFetch, redisVars
      <4>2. Entitled(s)
        BY <1>1, <2>0, <3>1 DEF CloseFetch, At, Closers, Dropping, Entitled, UserOf
      <4> QED
        BY <4>1, <4>2 DEF Live
    <3>2. CASE CloseSwap(s)
      <4>1. ~Holds(c, Expected(task[s].op)) /\ UNCHANGED <<stored, state>>
        <5>1. ~Goto(s, "unlock")
          BY <1>1, <2>0, GotoFacts DEF Idle, Pcs
        <5> QED
          BY <1>1, <3>2, <5>1 DEF CloseSwap
      <4>2. task[s].op \in {"hangup", "cancel", "decline"}
        BY <2>0, <3>2 DEF CloseSwap, At, Closers, Dropping
      <4>3. task[s].op = "hangup" => state[c] \in {"ACTIVE", "ENDED"}
        BY <1>1, <2>0 DEF Dropping
      <4> QED
        BY <4>1, <4>2, <4>3 DEF Live, Holds, Expected
    <3>3. CASE CloseNotify(s)
      <4>1. state[c] = Verdict(task[s].op) /\ UNCHANGED <<stored, state>>
        BY <1>1, <2>0, <3>3 DEF CloseNotify, At, Progress, Done, redisVars
      <4> QED
        BY <4>1 DEF Live, Verdict
    <3>4. CASE DropLook(s)
      BY <1>1, <2>0, <3>4 DEF DropLook, At, Dropping
    <3>5. CASE DropFetch(s)
      <4>1. ~Become(s, "hangup") /\ ~Become(s, "cancel") /\ ~Become(s, "decline")
        BY <1>1, <2>0, BecomeFacts DEF Idle, Ops
      <4>2. ~Holds(c, "ACTIVE") /\ ~Holds(c, "RINGING") /\ UNCHANGED <<stored, state>>
        BY <1>1, <3>5, <4>1 DEF DropFetch, redisVars
      <4> QED
        BY <4>2 DEF Live, Holds
    <3>6. CASE CloseUnlock(s) \/ CloseErase(s)
      <4>1. ~Goto(s, "erase") /\ ~Goto(s, "notify")
        BY <1>1, <2>0, GotoFacts DEF Idle, Pcs
      <4> QED
        BY <3>6, <4>1 DEF CloseUnlock, CloseErase
    <3> QED
      BY <2>0, <2>1, <3>1, <3>2, <3>3, <3>4, <3>5, <3>6 DEF Step, AddFetch, InviteRefused,
         InviteLock, InviteWrite, InviteExpire, InviteAnnounce, InviteArm, AcceptFetch,
         AcceptSwap, AcceptKeep, AcceptExtend, AcceptAnswer, At, Dropping
  <2>2. ASSUME NEW t \in Slots, HandlerFails(t) PROVE Ends(s, c)
    BY <1>1, <2>0, <2>2, StepFrame DEF HandlerFails
  <2>3. ASSUME NEW t \in Slots, Step(t), t # s PROVE Ends(s, c)
    BY <1>1, <2>0, <2>3, StepFrame
  <2>4. ASSUME NEW u \in Sockets, Disconnect(u) PROVE Ends(s, c)
    BY <1>1, <2>0, <2>4 DEF Disconnect, Idle
  <2>5. ASSUME NEW t \in Handlers, NEW u \in Sockets, Message(t, u) PROVE Ends(s, c)
    BY <1>1, <2>0, <2>5 DEF Message, BeginInvite, BeginAdd, BeginAccept, BeginDecline,
       BeginCancel, BeginHangup, Begin
  <2>6. ASSUME NEW d \in CallIds, TimerFires(d) PROVE Ends(s, c)
    BY <1>1, <2>0, <2>6 DEF TimerFires
  <2>7. CASE Crash
    BY <1>1, <2>0, <2>7 DEF Crash
  <2> QED
    BY <1>1, <2>0, <2>1, <2>2, <2>3, <2>4, <2>5, <2>6, <2>7 DEF Next, ExpireRecord,
       ExpireLock, vars, localVars
<1>2. Shape /\ OpenSlots /\ Progress /\ Own /\ [Next]_vars =>
        [\A s \in Sockets, c \in CallIds : task[s].call = c /\ task'[s] = Idle => Ends(s, c)]_vars
  BY <1>1
<1> QED
  BY <1>2, ShapeInvariant, OpenSlotsInvariant, ProgressInvariant, OwnInvariant, PTL
     DEF Spec, DropEndsTheCall
=============================================================================
