------------------------------ MODULE Meetings ------------------------------
(***************************************************************************)
(* One meeting room on the server: meetings.service.ts, the waiting-room   *)
(* service and its socket handlers in events.gateway.ts, the LiveKit       *)
(* webhook, and LiveKit itself as far as the code talks to it.             *)
(*                                                                         *)
(* Every handler of this code is a straight line of awaits with early      *)
(* returns.  Script[op] is that line: the awaited commands of operation op *)
(* in order.  A step of a handler runs one command and the code up to the  *)
(* next, so that the handlers of several clients, the webhooks and the     *)
(* reconciliation of a viewer interleave between any two commands.         *)
(*                                                                         *)
(* A definition X_<fault> is X with one mistake a change to the code could *)
(* make; no specification uses it.                                         *)
(*                                                                         *)
(* Left out: titles, times, the participant count and the ledger of        *)
(* participants (only that writing it fails without the meeting), muting,  *)
(* and co-hosts, a role no code assigns.                                   *)
(***************************************************************************)
EXTENDS Naturals, FiniteSets, Sequences

CONSTANTS
    Host,        \* the user who created the meeting
    Guests,
    Sockets,     \* connections of guests, each opened and closed at most once
    Owner,       \* Owner[s]: the guest whose token opened socket s
    Handlers,    \* bounds the requests and messages being handled at once
    Viewer,      \* the slot in which someone reads the meeting (reconcile)
    None,
    Gates,       \* the values waitingRoomEnabled is tried with
    Messages,    \* the operations clients ask for
    Faults,      \* what may go wrong: see FaultKinds
    Joiners,     \* the users who join
    MaxInbox,    \* bounds the events a guest has not read yet
    MaxHooks     \* bounds the webhooks under way; LiveKit's others are lost

ManageOps == {"cancel", "end", "delete"}
HookOps   == {"started", "joined", "left", "finished"}
LobbyOps  == {"knock", "withdraw", "admit", "deny", "watch"}
ClientOps == ManageOps \cup LobbyOps \cup {"join", "remove"}

FaultKinds == {"drop",      \* a guest's socket closes
               "expiry",    \* Redis lets the waiting-room keys run out
               "sfu",       \* a call to LiveKit fails; the code carries on
               "repeat"}    \* LiveKit delivers a webhook again

Users == Guests \cup {Host}
Slots == Handlers \cup Sockets \cup {Viewer}

ASSUME OwnerAssumption == Owner \in [Sockets -> Guests]
ASSUME HostAssumption  == Host \notin Guests /\ None \notin Users \cup Sockets
ASSUME SlotAssumption  == /\ Handlers \cap Sockets = {}
                          /\ Viewer \notin Handlers \cup Sockets
ASSUME InputAssumption == /\ Gates \subseteq BOOLEAN
                          /\ Messages \subseteq ClientOps
                          /\ Joiners \subseteq Users
                          /\ Faults \subseteq FaultKinds
ASSUME BoundAssumption == MaxInbox \in Nat /\ MaxHooks \in Nat

VARIABLES
    \* Postgres
    gated,      \* waitingRoomEnabled
    status,     \* of the row; "gone" once it is deleted
    began,      \* startedAt: "never", "fresh" (within the grace) or "old"
    \* Redis
    waiting,    \* waiting:room:<name>
    admitted,   \* admitted:room:<name>
    denied,     \* denied:room:<name>
    present,    \* presence:room:<name>
    \* LiveKit
    up,         \* the SFU room exists
    inRoom,     \* who is connected to it
    hooks,      \* webhooks sent and not yet delivered
    \* clients
    pass,       \* whose page holds a LiveKit token
    inbox,      \* inbox[s]: the decisions sent to socket s and not read
    tray,       \* the waiting list last sent to the host's page
    \* the API process
    conn,       \* conn[s]: "new", "open" or "closed"
    knocking,   \* sockets whose data.knockingRoom is set
    watching,   \* the host's socket is in the host room
    task,       \* task[t]: the handler running in slot t
    \* what happened (the excuses of KickHolds and FinishedIsEmpty)
    welcomed,   \* guests the host admitted at some time
    slipped,    \* users given a token while their removal was under way
    armed,      \* removed while they had a token and were not connected with it
    immune,     \* removed by a call to LiveKit that failed
    haunted,    \* guests put on the list for a socket that was closed already
    belated,    \* users written for, or connected, once a teardown had begun
    spared,     \* users inside when LiveKit failed to delete the room
    overtaken   \* users inside when a room_finished ended the row

rowVars    == <<gated, status, began>>
redisVars  == <<waiting, admitted, denied, present>>
sfuVars    == <<up, inRoom, hooks>>
clientVars == <<pass, inbox, tray>>
socketVars == <<conn, knocking, watching>>
pastVars   == <<welcomed, slipped, armed, immune, haunted, belated, spared, overtaken>>
vars == <<rowVars, redisVars, sfuVars, clientVars, socketVars, task, pastVars>>
-----------------------------------------------------------------------------
Clears   == <<"clearWaiting", "clearAdmitted", "clearDenied", "clearPresent">>
Teardown == <<"endRoom">> \o Clears

Script == [
    idle      |-> <<>>,
    join      |-> <<"row", "checkDenied", "checkAdmitted", "live", "ledger",
                    "seat", "token">>,
    cancel    |-> <<"row">> \o Teardown \o <<"stop">>,
    end       |-> <<"row">> \o Teardown \o <<"stop">>,
    delete    |-> <<"row">> \o Teardown \o <<"stop">>,
    reconcile |-> <<"row", "count">> \o Teardown \o <<"stop">>,
    started   |-> <<"row", "sync">>,
    joined    |-> <<"row", "sync">>,
    left      |-> <<"row", "sync">>,
    finished  |-> <<"row", "sync">> \o Clears,
    remove    |-> <<"row", "kick", "unseat", "bar", "disown", "unlist">>,
    knock     |-> <<"row", "enlist", "show">>,
    withdraw  |-> <<"unlist", "show">>,
    admit     |-> <<"row", "checkListed", "welcome", "unlist", "unbar", "show">>,
    deny      |-> <<"row", "checkListed", "unlist", "disown", "show">>,
    watch     |-> <<"row", "look">>]

Ops      == DOMAIN Script
Finished == {"ENDED", "CANCELLED", "gone"}

\* who asks, about whom, over which socket; the status read from the row, and
\* for a room_started whether startedAt was set
Tasks == [op : Ops, step : 1..8, who : Users \cup {None}, sock : Sockets \cup {None},
          saw : {"SCHEDULED", "LIVE", "ENDED", "CANCELLED", "gone"},
          dated : BOOLEAN, late : BOOLEAN]

Idle == [op |-> "idle", step |-> 1, who |-> None, sock |-> None,
         saw |-> "SCHEDULED", dated |-> FALSE, late |-> FALSE]

\* A new meeting: create() leaves the status to its default, SCHEDULED.
Init ==
    /\ gated \in Gates
    /\ status = "SCHEDULED"
    /\ began = "never"
    /\ waiting = {}
    /\ admitted = {}
    /\ denied = {}
    /\ present = {}
    /\ up = FALSE
    /\ inRoom = {}
    /\ hooks = {}
    /\ pass = {}
    /\ inbox = [s \in Sockets |-> <<>>]
    /\ tray = {}
    /\ conn = [s \in Sockets |-> "new"]
    /\ knocking = {}
    /\ watching = FALSE
    /\ task = [t \in Slots |-> Idle]
    /\ welcomed = {}
    /\ slipped = {} /\ armed = {} /\ immune = {}
    /\ haunted = {}
    /\ belated = {} /\ spared = {} /\ overtaken = {}
-----------------------------------------------------------------------------
(* Handlers                                                                *)

Busy(t)     == task[t].op # "idle"
At(t, step) == Busy(t) /\ Script[task[t].op][task[t].step] = step

\* The task after its current step: the next one, or none.
Stepped(t) == IF task[t].step = Len(Script[task[t].op])
              THEN Idle
              ELSE [task[t] EXCEPT !.step = @ + 1]

Advance(t) == task' = [task EXCEPT ![t] = Stepped(t)]
Finish(t)  == task' = [task EXCEPT ![t] = Idle]
Proceed(t, ok) == IF ok THEN Advance(t) ELSE Finish(t)

\* The steps of t that some join under way ought to have known of.
AdvanceOver(t, us) ==
    task' = [x \in Slots |->
               IF x = t THEN Stepped(t)
               ELSE IF task[x].op = "join" /\ task[x].who \in us
                    THEN [task[x] EXCEPT !.late = TRUE]
                    ELSE task[x]]

\* The meeting is over, or the teardown that ends it is on its way.
TornDown == \/ status \in Finished
            \/ \E t \in Slots : /\ task[t].op \in ManageOps \cup {"reconcile"}
                                /\ \E i \in 1..(task[t].step - 1) :
                                       Script[task[t].op][i] = "endRoom"

Stray(u) == belated' = IF TornDown THEN belated \cup {u} ELSE belated

\* Whoever loses his token and his place has no excuse any more.
Parted(us) ==
    /\ slipped' = slipped \ us /\ armed' = armed \ us /\ immune' = immune \ us
    /\ spared' = spared \ us /\ overtaken' = overtaken \ us

Start(t, op, who, s) ==
    /\ ~Busy(t)
    /\ task' = [task EXCEPT ![t] = [Idle EXCEPT !.op = op, !.who = who, !.sock = s]]

\* LiveKit sends webhooks; some are lost.
Hooked(es) == hooks' = IF Cardinality(hooks \cup es) <= MaxHooks THEN hooks \cup es ELSE hooks

\* client.emit: a closed socket hears nothing.
Sent(s, e) == inbox' = IF conn[s] = "open" THEN [inbox EXCEPT ![s] = Append(@, e)] ELSE inbox

\* server.to(user room).emit
SentToAll(g, e) ==
    inbox' = [s \in Sockets |-> IF Owner[s] = g /\ conn[s] = "open"
                                THEN Append(inbox[s], e) ELSE inbox[s]]

\* Messages arrive on open sockets, requests at any time.
BeginJoin(t, u) ==
    /\ t \in Handlers
    /\ "join" \in Messages
    /\ u \notin pass
    /\ Start(t, "join", u, None)
    /\ UNCHANGED <<rowVars, redisVars, sfuVars, clientVars, socketVars, pastVars>>

BeginManage(t, op) ==
    /\ t \in Handlers
    /\ op \in ManageOps \cap Messages
    /\ Start(t, op, Host, None)
    /\ UNCHANGED <<rowVars, redisVars, sfuVars, clientVars, socketVars, pastVars>>

\* Offered for a meeting the page lists as scheduled; nothing tells the page
\* when it no longer is.
CancelMeeting(t) == BeginManage(t, "cancel")
DeleteMeeting(t) == BeginManage(t, "delete")
EndForAll(t)     == BeginManage(t, "end")

BeginAbout(t, op, g) ==
    /\ t \in Handlers
    /\ op \in {"remove", "admit", "deny"} \cap Messages
    /\ \A s \in Sockets : Len(inbox[s]) < MaxInbox
    /\ Start(t, op, g, None)
    /\ UNCHANGED <<rowVars, redisVars, sfuVars, clientVars, socketVars, pastVars>>

BeginKnock(t, s) ==
    /\ t \in Handlers
    /\ "knock" \in Messages
    /\ conn[s] = "open"
    /\ Len(inbox[s]) < MaxInbox
    /\ Start(t, "knock", Owner[s], s)
    /\ UNCHANGED <<rowVars, redisVars, sfuVars, clientVars, socketVars, pastVars>>

\* onCancelKnock forgets the room before it awaits anything.
BeginWithdraw(t, s) ==
    /\ t \in Handlers
    /\ "withdraw" \in Messages
    /\ conn[s] = "open"
    /\ Start(t, "withdraw", Owner[s], s)
    /\ knocking' = knocking \ {s}
    /\ UNCHANGED <<rowVars, redisVars, sfuVars, clientVars, conn, watching, pastVars>>

BeginWatch(t) ==
    /\ t \in Handlers
    /\ "watch" \in Messages
    /\ ~watching
    /\ Start(t, "watch", Host, None)
    /\ UNCHANGED <<rowVars, redisVars, sfuVars, clientVars, socketVars, pastVars>>

BeginReconcile ==
    /\ Start(Viewer, "reconcile", None, None)
    /\ UNCHANGED <<rowVars, redisVars, sfuVars, clientVars, socketVars, pastVars>>

\* In any order, perhaps once more.
BeginHook(t, e) ==
    /\ t \in Handlers
    /\ e \in hooks
    /\ Start(t, e, None, None)
    /\ hooks' \in {hooks \ {e}} \cup (IF "repeat" \in Faults THEN {hooks} ELSE {})
    /\ UNCHANGED <<rowVars, redisVars, up, inRoom, clientVars, socketVars, pastVars>>
-----------------------------------------------------------------------------
(* The first await of almost every operation reads the row.                *)

\* What the row must say for the operation to go on.
Allowed(op) ==
    /\ status # "gone"
    /\ op = "join" => status \notin Finished
    /\ op = "reconcile" => status = "LIVE" /\ began # "fresh"
    /\ op = "knock" => gated

ReadRow(t) ==
    LET op == task[t].op
    IN  /\ At(t, "row")
        /\ task' = [task EXCEPT ![t] = IF Allowed(op)
                                       THEN [Stepped(t) EXCEPT !.saw = status, !.dated = (op = "started" /\ began # "never")]
                                       ELSE Idle]
        /\ watching' = (watching \/ (op = "watch" /\ Allowed(op)))
        /\ IF op = "knock"
           THEN LET s == task[t].sock
                IN  IF Allowed(op)
                    THEN /\ knocking' = knocking \cup {s}
                         /\ UNCHANGED inbox
                    ELSE Sent(s, "Admitted") /\ UNCHANGED knocking
           ELSE UNCHANGED <<knocking, inbox>>
        /\ UNCHANGED <<rowVars, redisVars, sfuVars, pass, tray, conn, pastVars>>
-----------------------------------------------------------------------------
(* join                                                                    *)

CheckDenied(t) ==
    /\ At(t, "checkDenied")
    /\ Proceed(t, task[t].who = Host \/ task[t].who \notin denied)
    /\ UNCHANGED <<rowVars, redisVars, sfuVars, clientVars, socketVars, pastVars>>

\* Variant: whoever waits may come in.
CheckAdmitted_waiting(t) ==
    LET u == task[t].who
    IN  /\ At(t, "checkAdmitted")
        /\ Proceed(t, gated => u = Host \/ u \in admitted \cup waiting)
        /\ UNCHANGED <<rowVars, redisVars, sfuVars, clientVars, socketVars, pastVars>>

\* A guest who is not admitted is answered WAITING.
CheckAdmitted(t) ==
    LET u == task[t].who
    IN  /\ At(t, "checkAdmitted")
        /\ Proceed(t, gated => u = Host \/ u \in admitted)
        /\ UNCHANGED <<rowVars, redisVars, sfuVars, clientVars, socketVars, pastVars>>

\* The status is the one read at the start, not the present one.
JoinLive(t) ==
    /\ At(t, "live")
    /\ \/ /\ task[t].saw = "SCHEDULED"
          /\ status # "gone"
          /\ status' = "LIVE"
          /\ began' = "fresh"
          /\ Advance(t)
       \/ /\ task[t].saw = "SCHEDULED"     \* update of a missing row throws
          /\ status = "gone"
          /\ UNCHANGED <<status, began>>
          /\ Finish(t)
       \/ /\ task[t].saw # "SCHEDULED"
          /\ UNCHANGED <<status, began>>
          /\ Advance(t)
    /\ UNCHANGED <<gated, redisVars, sfuVars, clientVars, socketVars, pastVars>>

JoinLedger(t) ==
    /\ At(t, "ledger")
    /\ Proceed(t, status # "gone")
    /\ UNCHANGED <<rowVars, redisVars, sfuVars, clientVars, socketVars, pastVars>>

JoinSeat(t) ==
    /\ At(t, "seat")
    /\ present' = present \cup {task[t].who}
    /\ Stray(task[t].who)
    /\ Advance(t)
    /\ UNCHANGED <<rowVars, waiting, admitted, denied, sfuVars, clientVars, socketVars,
                   welcomed, slipped, armed, immune, haunted, spared, overtaken>>

\* The token reaches the page, which connects with it.  One that no removal
\* precedes excuses nothing any more.
JoinToken(t) ==
    LET u == task[t].who
        underRemoval == task[t].late \/ \E x \in Slots : task[x].op = "remove" /\ task[x].who = u
    IN  /\ At(t, "token")
        /\ pass' = pass \cup {u}
        /\ \/ underRemoval /\ slipped' = slipped \cup {u} /\ UNCHANGED <<armed, immune>>
           \/ /\ ~underRemoval
              /\ slipped' = slipped \ {u} /\ armed' = armed \ {u} /\ immune' = immune \ {u}
        /\ Advance(t)
        /\ UNCHANGED <<rowVars, redisVars, sfuVars, inbox, tray, socketVars, welcomed, haunted,
                       belated, spared, overtaken>>
-----------------------------------------------------------------------------
(* The end of a meeting: tryEndRoom, then the row                          *)

\* Whoever was connected is thrown out.
EmptyRoom ==
    /\ up' = FALSE
    /\ inRoom' = {}
    /\ pass' = pass \ inRoom
    /\ Hooked(IF up THEN {"finished"} ELSE {})

EndRoom(t) ==
    /\ At(t, "endRoom")
    /\ \/ /\ EmptyRoom
          /\ Parted(inRoom)
       \/ /\ "sfu" \in Faults
          /\ spared' = spared \cup inRoom
          /\ UNCHANGED <<sfuVars, pass, slipped, armed, immune, overtaken>>
    /\ Advance(t)
    /\ UNCHANGED <<rowVars, redisVars, inbox, tray, socketVars, welcomed, haunted, belated>>

\* listRooms answers; no room and an empty room are both the end.
ReadCount(t) ==
    /\ At(t, "count")
    /\ Proceed(t, inRoom = {} \/ "sfu" \in Faults)
    /\ UNCHANGED <<rowVars, redisVars, sfuVars, clientVars, socketVars, pastVars>>

\* Variant: the blocklist outlives the meeting.
ClearRoom_keepsDenied(t) ==
    /\ \/ At(t, "clearWaiting") /\ waiting' = {} /\ UNCHANGED <<admitted, denied, present>>
       \/ At(t, "clearAdmitted") /\ admitted' = {} /\ UNCHANGED <<waiting, denied, present>>
       \/ At(t, "clearDenied") /\ UNCHANGED redisVars
       \/ At(t, "clearPresent") /\ present' = {} /\ UNCHANGED <<waiting, admitted, denied>>
    /\ Advance(t)
    /\ UNCHANGED <<rowVars, sfuVars, clientVars, socketVars, pastVars>>

\* clearRoom deletes three keys, and the caller a fourth.
ClearRoom(t) ==
    /\ \/ At(t, "clearWaiting") /\ waiting' = {} /\ UNCHANGED <<admitted, denied, present>>
       \/ At(t, "clearAdmitted") /\ admitted' = {} /\ UNCHANGED <<waiting, denied, present>>
       \/ At(t, "clearDenied") /\ denied' = {} /\ UNCHANGED <<waiting, admitted, present>>
       \/ At(t, "clearPresent") /\ present' = {} /\ UNCHANGED <<waiting, admitted, denied>>
    /\ Advance(t)
    /\ UNCHANGED <<rowVars, sfuVars, clientVars, socketVars, pastVars>>

Verdict(op) == CASE op = "cancel" -> "CANCELLED"
                 [] op = "delete" -> "gone"
                 [] OTHER -> "ENDED"

\* Variant: the room is torn down and the row is left as it is.
StopMeeting_forgotten(t) ==
    /\ At(t, "stop")
    /\ AdvanceOver(t, Users)
    /\ UNCHANGED <<rowVars, redisVars, sfuVars, clientVars, socketVars, pastVars>>

\* update or delete of the row; a row deleted meanwhile makes it throw.
StopMeeting(t) ==
    /\ At(t, "stop")
    /\ status' = IF status = "gone" THEN "gone" ELSE Verdict(task[t].op)
    /\ AdvanceOver(t, Users)
    /\ UNCHANGED <<gated, began, redisVars, sfuVars, clientVars, socketVars, pastVars>>

\* handleRoomEvent: the row follows the event, whatever has happened since the
\* row was read.  room_started writes back the startedAt it read, if there was
\* one: the present one, or an older one.
SyncRow(t) ==
    LET op == task[t].op
        live == op = "started" \/ (op \in {"joined", "left"} /\ task[t].saw = "SCHEDULED")
        kept == ~live \/ (op = "started" /\ task[t].dated)
    IN  /\ At(t, "sync")
        /\ IF status = "gone"
           THEN Finish(t) /\ UNCHANGED <<status, began, overtaken>>
           ELSE /\ status' = IF live THEN "LIVE" ELSE IF op = "finished" THEN "ENDED" ELSE status
                /\ \/ began' = IF kept THEN began ELSE "fresh"
                   \/ live /\ kept /\ began' = "old"
                /\ overtaken' = IF op = "finished" THEN overtaken \cup inRoom ELSE overtaken
                /\ IF op = "finished" THEN AdvanceOver(t, Users) ELSE Advance(t)
        /\ UNCHANGED <<gated, redisVars, sfuVars, clientVars, socketVars, welcomed, slipped, armed,
                       immune, haunted, belated, spared>>
-----------------------------------------------------------------------------
(* Removing a participant, and the waiting room                            *)

\* Variant: the SFU is not told.
Kick_skipped(t) ==
    /\ At(t, "kick")
    /\ Advance(t)
    /\ UNCHANGED <<rowVars, redisVars, sfuVars, clientVars, socketVars, pastVars>>

\* Best effort: a participant who is not connected makes it throw.
Kick(t) ==
    LET g == task[t].who
    IN  /\ At(t, "kick")
        /\ \/ /\ g \in inRoom
              /\ inRoom' = inRoom \ {g}
              /\ pass' = pass \ {g}
              /\ Hooked({"left"})
              /\ Parted({g})
           \/ /\ g \notin inRoom       \* a token not used yet stays good
              /\ armed' = armed \cup ({g} \cap pass)
              /\ UNCHANGED <<inRoom, pass, hooks, slipped, immune, spared, overtaken>>
           \/ /\ g \in inRoom
              /\ "sfu" \in Faults
              /\ immune' = immune \cup {g}
              /\ UNCHANGED <<inRoom, pass, hooks, slipped, armed, spared, overtaken>>
        /\ Advance(t)
        /\ UNCHANGED <<rowVars, redisVars, up, inbox, tray, socketVars, welcomed, haunted, belated>>

Unseat(t) ==
    /\ At(t, "unseat")
    /\ present' = present \ {task[t].who}
    /\ Advance(t)
    /\ UNCHANGED <<rowVars, waiting, admitted, denied, sfuVars, clientVars, socketVars,
                   pastVars>>

\* block: SADD of the blocklist.
Bar(t) ==
    LET g == task[t].who
    IN  /\ At(t, "bar")
        /\ denied' = denied \cup {g}
        /\ Stray(g)
        /\ AdvanceOver(t, {g})
        /\ UNCHANGED <<rowVars, waiting, admitted, present, sfuVars, clientVars, socketVars,
                       welcomed, slipped, armed, immune, haunted, spared, overtaken>>

\* Variant: blocking leaves the guest among the admitted.
Disown_keeps(t) ==
    /\ At(t, "disown")
    /\ Advance(t)
    /\ UNCHANGED <<rowVars, redisVars, sfuVars, clientVars, socketVars, pastVars>>

Disown(t) ==
    /\ At(t, "disown")
    /\ admitted' = admitted \ {task[t].who}
    /\ Advance(t)
    /\ UNCHANGED <<rowVars, waiting, denied, present, sfuVars, clientVars, socketVars,
                   pastVars>>

\* One connection to Redis: the HDEL of a withdrawal comes after the HSET the
\* same socket's knock has sent before it.
Unlist(t) ==
    LET g == task[t].who
    IN  /\ At(t, "unlist")
        /\ \A x \in Slots : At(x, "enlist") => task[x].sock # task[t].sock
        /\ waiting' = waiting \ {g}
        /\ haunted' = haunted \ {g}
        /\ Advance(t)
        /\ UNCHANGED <<rowVars, admitted, denied, present, sfuVars, clientVars, socketVars,
                       welcomed, slipped, armed, immune, belated, spared, overtaken>>

\* A socket that closed while the row was read has withdrawn nothing.
Enlist(t) ==
    LET g == task[t].who
        s == task[t].sock
    IN  /\ At(t, "enlist")
        /\ waiting' = waiting \cup {g}
        /\ haunted' = IF conn[s] = "closed" /\ ~Busy(s) THEN haunted \cup {g} ELSE haunted
        /\ Stray(g)
        /\ Advance(t)
        /\ UNCHANGED <<rowVars, admitted, denied, present, sfuVars, clientVars, socketVars,
                       welcomed, slipped, armed, immune, spared, overtaken>>

\* Only someone on the list can be admitted or denied.
CheckListed(t) ==
    /\ At(t, "checkListed")
    /\ Proceed(t, task[t].who \in waiting)
    /\ UNCHANGED <<rowVars, redisVars, sfuVars, clientVars, socketVars, pastVars>>

Welcome(t) ==
    LET g == task[t].who
    IN  /\ At(t, "welcome")
        /\ admitted' = admitted \cup {g}
        /\ welcomed' = welcomed \cup {g}
        /\ Stray(g)
        /\ Advance(t)
        /\ UNCHANGED <<rowVars, waiting, denied, present, sfuVars, clientVars, socketVars,
                       slipped, armed, immune, haunted, spared, overtaken>>

Unbar(t) ==
    /\ At(t, "unbar")
    /\ denied' = denied \ {task[t].who}
    /\ Advance(t)
    /\ UNCHANGED <<rowVars, waiting, admitted, present, sfuVars, clientVars, socketVars,
                   pastVars>>

\* Variant: the host is not sent the new list.
Show_silent(t) ==
    /\ At(t, "show")
    /\ CASE task[t].op = "admit" -> SentToAll(task[t].who, "Admitted")
         [] task[t].op = "deny"  -> SentToAll(task[t].who, "Denied")
         [] OTHER -> UNCHANGED inbox
    /\ Advance(t)
    /\ UNCHANGED <<rowVars, redisVars, sfuVars, pass, tray, socketVars, pastVars>>

\* The guest hears the decision, then broadcastWaitingList reads the list.
Show(t) ==
    /\ At(t, "show")
    /\ CASE task[t].op = "admit" -> SentToAll(task[t].who, "Admitted")
         [] task[t].op = "deny"  -> SentToAll(task[t].who, "Denied")
         [] OTHER -> UNCHANGED inbox
    /\ tray' = IF watching THEN waiting ELSE tray
    /\ Advance(t)
    /\ UNCHANGED <<rowVars, redisVars, sfuVars, pass, socketVars, pastVars>>

\* onHostWatch has joined the host room and sends the list to this socket.
Look(t) ==
    /\ At(t, "look")
    /\ tray' = IF watching THEN waiting ELSE tray
    /\ Advance(t)
    /\ UNCHANGED <<rowVars, redisVars, sfuVars, pass, inbox, socketVars, pastVars>>

RoomStep(t) ==
    \/ ReadRow(t) \/ CheckDenied(t) \/ CheckAdmitted(t) \/ JoinLive(t) \/ JoinLedger(t)
    \/ JoinSeat(t) \/ JoinToken(t) \/ EndRoom(t) \/ ReadCount(t) \/ ClearRoom(t)
    \/ StopMeeting(t) \/ SyncRow(t) \/ Kick(t) \/ Unseat(t) \/ Bar(t) \/ Disown(t)
    \/ Unlist(t)

LobbyStep(t) ==
    \/ Enlist(t) \/ CheckListed(t) \/ Welcome(t) \/ Unbar(t) \/ Show(t) \/ Look(t)

Step(t) == RoomStep(t) \/ LobbyStep(t)
-----------------------------------------------------------------------------
(* Sockets, LiveKit and time                                               *)

Open(s) ==
    /\ conn[s] = "new"
    /\ \A r \in Sockets \ {s} : Owner[r] = Owner[s] => conn[r] # "open"
    /\ conn' = [conn EXCEPT ![s] = "open"]
    /\ UNCHANGED <<rowVars, redisVars, sfuVars, clientVars, knocking, watching, task,
                   pastVars>>

\* Variant: a knock is not withdrawn.
Close_keepsKnock(s) ==
    /\ "drop" \in Faults
    /\ conn[s] = "open"
    /\ conn' = [conn EXCEPT ![s] = "closed"]
    /\ inbox' = [inbox EXCEPT ![s] = <<>>]
    /\ UNCHANGED <<rowVars, redisVars, sfuVars, pass, tray, knocking, watching, task,
                   pastVars>>

\* handleDisconnect withdraws the knock the socket's data knows of.
Close(s) ==
    /\ "drop" \in Faults
    /\ conn[s] = "open"
    /\ conn' = [conn EXCEPT ![s] = "closed"]
    /\ inbox' = [inbox EXCEPT ![s] = <<>>]
    /\ IF s \in knocking THEN Start(s, "withdraw", Owner[s], s) ELSE UNCHANGED task
    /\ UNCHANGED <<rowVars, redisVars, sfuVars, pass, tray, knocking, watching, pastVars>>

\* The host's socket closes; the page keeps the list it has.
HostDrop ==
    /\ "drop" \in Faults
    /\ watching
    /\ watching' = FALSE
    /\ UNCHANGED <<rowVars, redisVars, sfuVars, clientVars, conn, knocking, task, pastVars>>

\* LiveKit creates a room that is not there.
Connect(u) ==
    /\ u \in pass \ inRoom
    /\ up' = TRUE
    /\ inRoom' = inRoom \cup {u}
    /\ Hooked(IF up THEN {"joined"} ELSE {"started", "joined"})
    /\ Stray(u)
    /\ UNCHANGED <<rowVars, redisVars, clientVars, socketVars, task, welcomed, slipped, armed,
                   immune, haunted, spared, overtaken>>

\* Variant: the page forgets its token and stays connected.
Leave_staysConnected(u) ==
    /\ u \in inRoom
    /\ pass' = pass \ {u}
    /\ UNCHANGED <<rowVars, redisVars, sfuVars, inbox, tray, socketVars, task, pastVars>>

Leave(u) ==
    /\ u \in inRoom
    /\ inRoom' = inRoom \ {u}
    /\ pass' = pass \ {u}
    /\ Hooked({"left"})
    /\ Parted({u})
    /\ UNCHANGED <<rowVars, redisVars, up, inbox, tray, socketVars, task, welcomed, haunted, belated>>

\* LiveKit closes an empty room.
Vanish ==
    /\ up
    /\ inRoom = {}
    /\ EmptyRoom
    /\ UNCHANGED <<rowVars, redisVars, inbox, tray, socketVars, task, pastVars>>

Age ==
    /\ began = "fresh"
    /\ began' = "old"
    /\ UNCHANGED <<gated, status, redisVars, sfuVars, clientVars, socketVars, task, pastVars>>

Expire ==
    /\ "expiry" \in Faults
    /\ \/ waiting' = {} /\ UNCHANGED <<admitted, denied>>
       \/ admitted' = {} /\ UNCHANGED <<waiting, denied>>
       \/ denied' = {} /\ UNCHANGED <<waiting, admitted>>
    /\ UNCHANGED <<rowVars, present, sfuVars, clientVars, socketVars, task, pastVars>>

\* A meeting whose clients ask what they like at any time.  What the waiting
\* room adds, its sockets and messages, moves with the pages of RoomJourney.
Begin(t) ==
    \/ \E u \in Joiners : BeginJoin(t, u)
    \/ CancelMeeting(t) \/ DeleteMeeting(t) \/ EndForAll(t)
    \/ \E g \in Guests : BeginAbout(t, "remove", g)
    \/ \E e \in HookOps : BeginHook(t, e)

\* What is neither a request nor a handler.
World ==
    \/ \E u \in Users : Connect(u) \/ Leave(u)
    \/ Vanish \/ Age \/ Expire

Next ==
    \/ \E t \in Slots : Begin(t) \/ RoomStep(t)
    \/ BeginReconcile
    \/ World

Spec == Init /\ [][Next]_vars

\* Someone keeps reading the meeting, that handler's awaits end, time passes.
Fairness ==
    /\ WF_vars(RoomStep(Viewer))
    /\ WF_vars(BeginReconcile)
    /\ WF_vars(Age)

FairSpec == Spec /\ Fairness
-----------------------------------------------------------------------------
AtRest == \A t \in Slots : ~Busy(t)

TypeOK ==
    /\ gated \in BOOLEAN
    /\ status \in {"SCHEDULED", "LIVE"} \cup Finished
    /\ began \in {"never", "fresh", "old"}
    /\ waiting \subseteq Guests /\ admitted \subseteq Guests /\ denied \subseteq Guests
    /\ present \subseteq Users
    /\ up \in BOOLEAN
    /\ inRoom \subseteq pass
    /\ pass \subseteq Users
    /\ hooks \subseteq HookOps
    /\ inbox \in [Sockets -> Seq({"Admitted", "Denied"})]
    /\ tray \subseteq Guests
    /\ conn \in [Sockets -> {"new", "open", "closed"}]
    /\ knocking \subseteq Sockets
    /\ watching \in BOOLEAN
    /\ task \in [Slots -> Tasks]
    /\ welcomed \subseteq Guests
    /\ slipped \subseteq Users /\ armed \subseteq Users /\ immune \subseteq Users
    /\ haunted \subseteq Guests
    /\ belated \subseteq Users /\ spared \subseteq Users /\ overtaken \subseteq Users

\* A finished meeting leaves nothing behind (tryEndRoom).  The waiting room and
\* the presence hold only users whose join, knock, admission or block was written
\* once a teardown had begun (join and the socket handlers read the status long
\* before they write).  The room holds only users who connected that late, those
\* inside when LiveKit failed to delete it (meetings.service.ts:343-347 carries on),
\* and those inside when a room_finished, late or of an earlier room, ended the
\* row (meetings.service.ts:272).
FinishedIsEmpty ==
    AtRest /\ status \in Finished =>
        /\ waiting \cup admitted \cup denied \cup present \subseteq belated
        /\ inRoom \subseteq belated \cup spared \cup overtaken

\* Whoever is on the blocklist is not in the room, but for three: one who was
\* given a token while the removal was under way, one who held a token and was
\* not connected when LiveKit was told to remove him (nothing revokes a token),
\* and one whom LiveKit failed to remove (meetings.service.ts:305-309 carries on).
KickHolds ==
    AtRest => denied \cap inRoom \subseteq slipped \cup armed \cup immune

\* With a waiting room, only guests the host let in once hold a token.
NoStranger ==
    gated => pass \cap Guests \subseteq welcomed

\* However admit, deny and block interleave, when they are done nobody is
\* both let in and shut out.
OneDecision ==
    AtRest => admitted \cap denied = {}

\* A meeting whose room is empty does not stay LIVE (reconcile).
LiveIsHonest ==
    status = "LIVE" /\ inRoom = {} ~> status # "LIVE" \/ inRoom # {}
=============================================================================
