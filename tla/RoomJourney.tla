---------------------------- MODULE RoomJourney ----------------------------
(***************************************************************************)
(* The web side of a meeting with a waiting room, driving the server of    *)
(* Meetings: the phases of the room page (room/[roomName]/page.tsx), the   *)
(* pre-join lobby, the socket of the waiting screen (WaitingScreen.tsx),   *)
(* and the host's tray and participants panel.  A guest has one page; its  *)
(* waiting screen uses the guest's sockets one after another, a new one    *)
(* for every reconnection.                                                 *)
(***************************************************************************)
EXTENDS Meetings

VARIABLES
    page,   \* page[g]: the phase of the guest's room page
    link    \* link[s]: what the waiting screen still has to say on socket s

Phases == {"loading", "lobby", "joining", "waiting", "refused", "incall", "ended",
           "error", "left"}
Links  == {"unused",   \* not connected yet
           "greet",    \* connected, the knock is on its way
           "on",
           "bye",      \* unmounted: the withdrawal is on its way
           "gone"}     \* and after it the disconnect

journeyVars == <<page, link>>

\* A meeting just created, at once or for later, with the gate the form asked.
JourneyInit ==
    /\ Init
    /\ page = [g \in Guests |-> "loading"]
    /\ link = [s \in Sockets |-> "unused"]

GoTo(g, phase) == page' = [page EXCEPT ![g] = phase]
OnScreen(g)    == page[g] \in {"waiting", "refused"}

\* The effect's cleanup: CancelKnock, then disconnect.
Unmounted(g) ==
    link' = [s \in Sockets |-> IF Owner[s] = g /\ link[s] \in {"greet", "on"}
                               THEN "bye" ELSE link[s]]
-----------------------------------------------------------------------------
(* The room page                                                           *)

\* getMeeting for the green room.
Load(g) ==
    /\ page[g] = "loading"
    /\ GoTo(g, IF status = "gone" THEN "error"
               ELSE IF status \in Finished THEN "ended" ELSE "lobby")
    /\ UNCHANGED <<vars, link>>

\* handleJoin
ClickJoin(t, g) ==
    /\ page[g] = "lobby"
    /\ BeginJoin(t, g)
    /\ GoTo(g, "joining")
    /\ UNCHANGED link

\* Where the answer to a join leads: handleJoin asks from the lobby,
\* onAdmitted from the waiting screen, where WAITING changes nothing.
Landing(g, answer) ==
    CASE answer = "token"   -> "incall"
      [] answer = "waiting" -> IF page[g] = "joining" THEN "waiting" ELSE page[g]
      [] OTHER              -> IF page[g] = "joining" THEN "lobby" ELSE "error"

Answer(t) == IF At(t, "token") THEN "token"
             ELSE IF At(t, "checkAdmitted") THEN "waiting" ELSE "error"

\* A step of a handler; the last step of a join answers the page, if there is
\* still one.  The phase that replaces the waiting screen unmounts it.
ServerStep(t) ==
    /\ Step(t)
    /\ LET g == task[t].who
           answered == task[t].op = "join" /\ task'[t].op = "idle"
                         /\ g \in Guests /\ page[g] \notin {"left", "incall"}
       IN  IF answered
           THEN /\ GoTo(g, Landing(g, Answer(t)))
                /\ IF page'[g] \in {"incall", "error"} THEN Unmounted(g) ELSE UNCHANGED link
           ELSE UNCHANGED journeyVars

\* The guest gives up; LiveKit's disconnection also leads back to the app.
GoBack(g) ==
    /\ OnScreen(g)
    /\ GoTo(g, "left")
    /\ Unmounted(g)
    /\ UNCHANGED vars

\* Connected with the token of a page that has been left meanwhile: nobody.
EnterRoom(g) ==
    /\ page[g] = "incall"
    /\ Connect(g)
    /\ UNCHANGED journeyVars

LeaveRoom(g) ==
    /\ page[g] = "incall"
    /\ Leave(g)
    /\ GoTo(g, "left")
    /\ UNCHANGED link

\* Thrown out of the SFU room: onDisconnected.
ThrownOut(g) ==
    /\ page[g] = "incall"
    /\ g \notin pass
    /\ GoTo(g, "left")
    /\ UNCHANGED <<vars, link>>

\* The guest opens the page again.
Return(g) ==
    /\ page[g] = "left"
    /\ g \notin pass
    /\ GoTo(g, "loading")
    /\ UNCHANGED <<vars, link>>
-----------------------------------------------------------------------------
(* The socket of the waiting screen                                        *)

\* The screen is mounted, or socket.io reconnects.
Dial(g, s) ==
    /\ Owner[s] = g
    /\ OnScreen(g)
    /\ Open(s)
    /\ link' = [link EXCEPT ![s] = "greet"]
    /\ UNCHANGED page

\* On every connect, whatever the screen shows.
Greet(t, s) ==
    /\ link[s] = "greet"
    /\ BeginKnock(t, s)
    /\ link' = [link EXCEPT ![s] = "on"]
    /\ UNCHANGED page

Bye(t, s) ==
    /\ link[s] = "bye"
    /\ BeginWithdraw(t, s)
    /\ link' = [link EXCEPT ![s] = "gone"]
    /\ UNCHANGED page

\* The transport fails, or the page disconnects.
Hang(s) ==
    /\ Close(s)
    /\ link' = [link EXCEPT ![s] = "gone"]
    /\ UNCHANGED page

\* Variant: an admission is only shown, not acted upon.
Hear_ignoresAdmitted(t, s) ==
    /\ inbox[s] # <<>>
    /\ inbox' = [inbox EXCEPT ![s] = Tail(@)]
    /\ IF Head(inbox[s]) = "Denied" /\ page[Owner[s]] = "waiting"
       THEN GoTo(Owner[s], "refused") ELSE UNCHANGED page
    /\ UNCHANGED <<rowVars, redisVars, sfuVars, pass, tray, socketVars, task, pastVars, link>>

\* Admitted asks to join again, even on a screen that shows a refusal.
Hear(t, s) ==
    LET g == Owner[s]
    IN  /\ inbox[s] # <<>>
        /\ inbox' = [inbox EXCEPT ![s] = Tail(@)]
        /\ IF Head(inbox[s]) = "Admitted" /\ OnScreen(g)
           THEN Start(t, "join", g, None) /\ t \in Handlers /\ UNCHANGED page
           ELSE /\ UNCHANGED task
                /\ IF page[g] = "waiting" THEN GoTo(g, "refused") ELSE UNCHANGED page
        /\ UNCHANGED <<rowVars, redisVars, sfuVars, pass, tray, socketVars, pastVars, link>>
-----------------------------------------------------------------------------
(* The host's page                                                         *)

Watch(t) == BeginWatch(t) /\ UNCHANGED journeyVars

\* The buttons of the tray.
Decide(t, op, g) ==
    /\ op \in {"admit", "deny"}
    /\ g \in tray
    /\ BeginAbout(t, op, g)
    /\ UNCHANGED journeyVars

\* The participants panel lists who is connected.
Expel(t, g) ==
    /\ g \in inRoom
    /\ BeginAbout(t, "remove", g)
    /\ UNCHANGED journeyVars

HostReconnects == HostDrop /\ UNCHANGED journeyVars

JourneyNext ==
    \/ \E t \in Slots : \/ ServerStep(t) \/ Watch(t)
                        \/ \E g \in Guests : \/ ClickJoin(t, g) \/ Expel(t, g)
                                             \/ \E op \in {"admit", "deny"} : Decide(t, op, g)
                        \/ \E s \in Sockets : Greet(t, s) \/ Bye(t, s) \/ Hear(t, s)
    \/ \E g \in Guests : \/ Load(g) \/ GoBack(g) \/ EnterRoom(g) \/ LeaveRoom(g)
                         \/ ThrownOut(g) \/ Return(g)
                         \/ \E s \in Sockets : Dial(g, s)
    \/ \E s \in Sockets : Hang(s)
    \/ HostReconnects

JourneySpec == JourneyInit /\ [][JourneyNext]_<<vars, journeyVars>>

\* A handler, a straight line of awaits that all settle, comes to its end;
\* events are read.
JourneyFairness ==
    /\ \A t \in Handlers : []<>~Busy(t)
    /\ \A s \in Sockets : SF_<<vars, journeyVars>>(\E t \in Handlers : Hear(t, s))

FairJourney == JourneySpec /\ JourneyFairness
-----------------------------------------------------------------------------
\* Whoever waits is on the list the watching host sees.
NobodyWaitsUnseen ==
    AtRest /\ watching => waiting \subseteq tray

\* Whoever is on the waiting list has a socket that will take the knock back,
\* unless the knock was looked up while the socket closed (onKnock sets
\* knockingRoom after an await).
NoGhostKnock ==
    AtRest => \A g \in waiting \ haunted :
                  \E s \in knocking : Owner[s] = g /\ conn[s] = "open"

\* A guest told of the admission while waiting leaves the waiting screen,
\* unless the admission is taken back or the socket closes first.
AdmittedGetsIn ==
    \A s \in Sockets :
        (/\ page[Owner[s]] = "waiting" /\ conn[s] = "open"
         /\ inbox[s] # <<>> /\ Head(inbox[s]) = "Admitted" /\ Owner[s] \in admitted)
        ~> (page[Owner[s]] # "waiting" \/ Owner[s] \notin admitted \/ conn[s] # "open")
=============================================================================
