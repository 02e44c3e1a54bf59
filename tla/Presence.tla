------------------------------ MODULE Presence ------------------------------
(***************************************************************************)
(* Who is reachable: markOnline and markOffline of call.service.ts, called *)
(* from the handshake middleware and from handleDisconnect of              *)
(* events.gateway.ts.  A user is online while a counter of his sockets is  *)
(* positive; the counter and the set are two Redis keys, and every command *)
(* is a step of its own.  X_<fault> is X with one mistake, as in           *)
(* DirectCalls.                                                            *)
(***************************************************************************)
EXTENDS Integers, FiniteSets

CONSTANTS
    Users,
    Sockets,   \* connections, each opened once and closed once
    Owner      \* Owner[s]: the user whose token opened socket s

ASSUME PresenceAssumption ==
    /\ IsFiniteSet(Sockets)
    /\ Owner \in [Sockets -> Users]

VARIABLES
    count,    \* count[u]: presencecount:<u>; INCR and DECR take no key for 0
    online,   \* the set presence:online
    at        \* at[s]: how far the handlers of socket s are

vars == <<count, online, at>>

Stages == {"new", "add", "join", "up", "leave", "remove", "forget", "closed",
           "aborted", "killed"}

TypeOK ==
    /\ count \in [Users -> Int]
    /\ online \subseteq Users
    /\ at \in [Sockets -> Stages]

Init ==
    /\ count = [u \in Users |-> 0]
    /\ online = {}
    /\ at = [s \in Sockets |-> "new"]

Goto(s, stage) == at' = [at EXCEPT ![s] = stage]

\* Variant: the counter is compared before it is incremented.
CountIn_offByOne(s) ==
    LET n == count[Owner[s]]
    IN  /\ at[s] = "new"
        /\ count' = [count EXCEPT ![Owner[s]] = n + 1]
        /\ IF n = 1 THEN Goto(s, "add") ELSE Goto(s, "join")
        /\ UNCHANGED online

\* markOnline: INCR; only the first socket adds the user to the set.
CountIn(s) ==
    LET n == count[Owner[s]] + 1
    IN  /\ at[s] = "new"
        /\ count' = [count EXCEPT ![Owner[s]] = n]
        /\ IF n = 1 THEN Goto(s, "add") ELSE Goto(s, "join")
        /\ UNCHANGED online

AddOnline(s) ==
    /\ at[s] = "add"
    /\ online' = online \cup {Owner[s]}
    /\ Goto(s, "join")
    /\ UNCHANGED count

\* The socket has joined its user room and next() lets it connect.
Connected(s) ==
    /\ at[s] = "join"
    /\ Goto(s, "up")
    /\ UNCHANGED <<count, online>>

\* The client went away meanwhile: a socket that never connected has no
\* disconnect handler.
Aborted(s) ==
    /\ at[s] = "join"
    /\ Goto(s, "aborted")
    /\ UNCHANGED <<count, online>>

Disconnect(s) ==
    /\ at[s] = "up"
    /\ Goto(s, "leave")
    /\ UNCHANGED <<count, online>>

\* Variant: the keys are cleared at zero only.
CountOut_zeroOnly(s) ==
    LET n == count[Owner[s]] - 1
    IN  /\ at[s] = "leave"
        /\ count' = [count EXCEPT ![Owner[s]] = n]
        /\ IF n = 0 THEN Goto(s, "remove") ELSE Goto(s, "closed")
        /\ UNCHANGED online

\* markOffline: DECR; only at zero or below are the two keys cleared.
CountOut(s) ==
    LET n == count[Owner[s]] - 1
    IN  /\ at[s] = "leave"
        /\ count' = [count EXCEPT ![Owner[s]] = n]
        /\ IF n <= 0 THEN Goto(s, "remove") ELSE Goto(s, "closed")
        /\ UNCHANGED online

RemoveOnline(s) ==
    /\ at[s] = "remove"
    /\ online' = online \ {Owner[s]}
    /\ Goto(s, "forget")
    /\ UNCHANGED count

\* Variant: SET to one for the socket that connects, instead of DEL.
ForgetCount_recounts(s) ==
    /\ at[s] = "forget"
    /\ count' = [count EXCEPT ![Owner[s]] = 1]
    /\ Goto(s, "closed")
    /\ UNCHANGED online

ForgetCount(s) ==
    /\ at[s] = "forget"
    /\ count' = [count EXCEPT ![Owner[s]] = 0]
    /\ Goto(s, "closed")
    /\ UNCHANGED online

\* The process dies: no handler of a socket that was open runs any more, and
\* the two keys stay as they are.  The client comes back with a new socket.
Crash ==
    /\ at' = [s \in Sockets |->
                 IF at[s] \in {"new", "closed", "aborted"} THEN at[s] ELSE "killed"]
    /\ UNCHANGED <<count, online>>

Run(s) ==
    \/ AddOnline(s)
    \/ Connected(s)
    \/ CountOut(s)
    \/ RemoveOnline(s)
    \/ ForgetCount(s)

Next ==
    \/ \E s \in Sockets : CountIn(s) \/ Run(s) \/ Aborted(s) \/ Disconnect(s)
    \/ Crash

\* Handlers run to their end; clients come and go as they like.
Spec     == Init /\ [][Next]_vars
FairSpec == Spec /\ \A s \in Sockets : WF_vars(Run(s))
-----------------------------------------------------------------------------
SocketsOf(u) == {s \in Sockets : Owner[s] = u}

\* Nothing will take back the count of these.
Leaked(s) == at[s] \in {"aborted", "killed"}

\* A socket on whose behalf the user may still be in the set.
Present(s) == at[s] \in {"add", "join", "up", "leave", "remove"} \/ Leaked(s)

\* The sockets that may have been counted in and were not counted out.
Counted(u) ==
    {s \in SocketsOf(u) : at[s] \in {"add", "join", "up", "leave"} \/ Leaked(s)}

\* A socket between whose commands the two keys may disagree.
Unsettled(s) == at[s] \in {"add", "remove", "forget", "killed"}

\* Nobody is online without cause: a user in the set has a socket that is
\* connected, a handler that is about to take him out, or a socket that was lost
\* with its handshake or with the process, in whatever order the handlers of his
\* sockets ran (markOffline clears at zero or below).
NoGhost == \A u \in online : \E s \in SocketsOf(u) : Present(s)

\* The counter never exceeds the sockets it counts, even when the DEL of a
\* closing socket erases the INCR of an opening one: so the last DECR always
\* gets to zero or below (markOnline, markOffline).
NeverOvercounts == \A u \in Users : count[u] <= Cardinality(Counted(u))

\* A user whose sockets stay closed, none of them lost, ends up offline
\* (handleDisconnect).
LastCloseEndsPresence ==
    \A u \in Users :
        <>[](\A s \in SocketsOf(u) : at[s] \in {"new", "leave", "remove", "forget", "closed"})
            => <>[](u \notin online)

\* A counted user is in the set, or a handler of his is about to put him there
\* or to forget the count: the two keys drift apart neither when a handshake is
\* aborted nor when sockets overlap, only when the process dies between the two
\* (the order of the commands in markOnline and markOffline).
CountedIsOnline ==
    \A u \in Users :
        count[u] >= 1 =>
            \/ u \in online
            \/ \E s \in SocketsOf(u) : Unsettled(s)
=============================================================================
