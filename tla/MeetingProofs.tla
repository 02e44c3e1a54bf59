---------------------------- MODULE MeetingProofs ----------------------------
(***************************************************************************)
(* Theorems about Meetings, and about RoomJourney which drives it, for any *)
(* users, sockets, handlers and faults.  Most hold of every client: Meets  *)
(* is what both next-state relations do to the variables of the meeting.   *)
(***************************************************************************)
EXTENDS RoomJourney, TLAPS

\* The place of a task in its script, by number.
In(k, op, steps) == k.op = op /\ k.step \in steps
Managing(k, steps) == k.op \in ManageOps /\ k.step \in steps

\* A request names what its handler is about.
Shape(k) ==
    /\ k.op # "idle" => k.step \in 1 .. Len(Script[k.op])
    /\ k.op = "join" => k.who \in Users
    /\ k.op \in {"remove", "admit", "deny"} => k.who \in Guests
    /\ k.op \in {"knock", "withdraw"} => k.sock \in Sockets /\ k.who = Owner[k.sock]

Shaped == \A t \in Slots : Shape(task[t])

\* The task that has read the row and goes on.
Noted(t) == [Stepped(t) EXCEPT !.saw = status,
                               !.dated = (task[t].op = "started" /\ began # "never")]

\* The admitted were welcomed, and so was a guest whose join is past the check.
Strangers ==
    /\ admitted \subseteq welcomed
    /\ \A t \in Slots : In(task[t], "join", 4 .. 7) /\ gated /\ task[t].who \in Guests
                           => task[t].who \in welcomed
    /\ NoStranger

\* Who is both let in and shut out has a handler that is to undo one of them.
Decisions ==
    \A g \in admitted \cap denied :
        \E t \in Slots : /\ task[t].who = g
                         /\ In(task[t], "admit", {4, 5}) \/ In(task[t], "remove", {5})

\* The three who may be on the blocklist and in the room.
Excused == slipped \cup armed \cup immune

\* The blocklist is ahead of every token: of those given out before it was
\* written, by the kick; of those under way, as they are known to be late.
Kicks ==
    /\ denied \cap pass \subseteq Excused
    /\ \A t \in Slots : /\ In(task[t], "remove", 3 .. 6) /\ task[t].who \in pass
                               => task[t].who \in Excused
                        /\ In(task[t], "join", 3 .. 7) /\ task[t].who \in denied
                               => task[t].late

\* A task that is past place n of the teardown: the end of the room is the
\* first, and then come the four keys of Redis.
Past(k, n) == Managing(k, n + 2 .. 7) \/ In(k, "reconcile", n + 3 .. 8)

\* TornDown, by number.
Torn == status \in Finished \/ \E t \in Slots : Past(task[t], 1)

\* Of a meeting torn down only the belated stay, and what else is left in Redis
\* has a webhook that is still to clear it.
Clearing(X, n) ==
    /\ \A t \in Slots : Past(task[t], n + 1) => X \subseteq belated
    /\ status \in Finished =>
           X \subseteq belated \/ \E t \in Slots : In(task[t], "finished", 3 .. n + 2)

\* Who may be inside a room torn down.
Stayers == belated \cup spared \cup overtaken

Empties ==
    /\ ~up => inRoom = {}
    /\ Torn => inRoom \subseteq Stayers
    /\ Clearing(waiting, 1) /\ Clearing(admitted, 2)
    /\ Clearing(denied, 3) /\ Clearing(present, 4)

\* A list the host has not seen has a broadcast on its way.
Showing(k) == \/ In(k, "knock", {3}) \/ In(k, "withdraw", {2}) \/ In(k, "admit", {6})
              \/ In(k, "deny", {5}) \/ In(k, "watch", {2})

Unseen ==
    watching /\ ~(waiting \subseteq tray) => \E t \in Slots : Showing(task[t])

\* TypeOK of everything but the tasks.
Data ==
    /\ gated \in BOOLEAN
    /\ status \in {"SCHEDULED", "LIVE"} \cup Finished
    /\ began \in {"never", "fresh", "old"}
    /\ waiting \subseteq Guests /\ admitted \subseteq Guests /\ denied \subseteq Guests
    /\ present \subseteq Users
    /\ up \in BOOLEAN
    /\ inRoom \subseteq pass
    /\ pass \subseteq Users
    /\ hooks \subseteq HookOps
    /\ inbox \in [Sockets -> Seq({"Admitted", "Denied"})]
    /\ tray \subseteq Guests
    /\ conn \in [Sockets -> {"new", "open", "closed"}]
    /\ knocking \subseteq Sockets
    /\ watching \in BOOLEAN
    /\ welcomed \subseteq Guests
    /\ slipped \subseteq Users /\ armed \subseteq Users /\ immune \subseteq Users
    /\ haunted \subseteq Guests
    /\ belated \subseteq Users /\ spared \subseteq Users /\ overtaken \subseteq Users

(***************************************************************************)
(* What a step of a handler does to the tasks, and what a client, a page   *)
(* or LiveKit does between the steps.                                      *)
(***************************************************************************)
Alike(x) ==
    /\ task'[x].op = task[x].op /\ task'[x].step = task[x].step
    /\ task'[x].who = task[x].who /\ task'[x].sock = task[x].sock
    /\ task[x].late => task'[x].late

Onward(t) ==
    /\ task'[t].op = task[t].op /\ task'[t].step = task[t].step + 1
    /\ task'[t].who = task[t].who /\ task'[t].sock = task[t].sock
    /\ task'[t].late = task[t].late

Turn(t) == (\A x \in Slots \ {t} : Alike(x)) /\ (Onward(t) \/ task'[t] = Idle)

Asks(t) ==
    /\ ~Busy(t)
    /\ \E k \in Tasks : /\ k.op # "idle" /\ k.step = 1 /\ ~k.late /\ Shape(k)
                        /\ task' = [task EXCEPT ![t] = k]

Calm ==
    /\ UNCHANGED <<rowVars, redisVars, up, inRoom, pass, tray, pastVars>>
    /\ hooks' \subseteq hooks /\ (watching' => watching)
    /\ inbox' \in [Sockets -> Seq({"Admitted", "Denied"})]
    /\ conn' \in [Sockets -> {"new", "open", "closed"}]
    /\ knocking' \subseteq Sockets /\ watching' \in BOOLEAN

Meets ==
    \/ \E t \in Slots : Step(t)
    \/ Calm /\ (UNCHANGED task \/ \E t \in Slots : Asks(t))
    \/ \E u \in Users : Connect(u) \/ Leave(u)
    \/ Vanish \/ Age \/ Expire

\* No further past place n + 1, and still to clear the key that place n clears.
Keeps(x, n) ==
    /\ Past(task'[x], n + 1) => Past(task[x], n + 1)
    /\ In(task[x], "finished", 3 .. n + 2) => In(task'[x], "finished", 3 .. n + 2)

MeetingInv == TypeOK /\ Shaped /\ Strangers /\ Decisions /\ Kicks /\ Empties /\ Unseen

\* The scripts, line by line.
LEMMA Lines ==
  /\ LET s == Script["join"] IN Len(s) = 7 /\ s[1] = "row" /\ s[2] = "checkDenied"
       /\ s[3] = "checkAdmitted" /\ s[4] = "live" /\ s[5] = "ledger"
       /\ s[6] = "seat" /\ s[7] = "token"
  /\ LET s == Script["remove"] IN Len(s) = 6 /\ s[1] = "row" /\ s[2] = "kick" /\ s[3] = "unseat"
       /\ s[4] = "bar" /\ s[5] = "disown" /\ s[6] = "unlist"
  /\ LET s == Script["knock"] IN Len(s) = 3 /\ s[1] = "row" /\ s[2] = "enlist" /\ s[3] = "show"
  /\ LET s == Script["withdraw"] IN Len(s) = 2 /\ s[1] = "unlist" /\ s[2] = "show"
  /\ LET s == Script["admit"] IN Len(s) = 6 /\ s[1] = "row" /\ s[2] = "checkListed"
       /\ s[3] = "welcome" /\ s[4] = "unlist" /\ s[5] = "unbar"
       /\ s[6] = "show"
  /\ LET s == Script["deny"] IN Len(s) = 5 /\ s[1] = "row" /\ s[2] = "checkListed"
       /\ s[3] = "unlist" /\ s[4] = "disown" /\ s[5] = "show"
  /\ LET s == Script["watch"] IN Len(s) = 2 /\ s[1] = "row" /\ s[2] = "look"
  /\ \A op \in {"started", "joined", "left"} : LET s == Script[op] IN
       Len(s) = 2 /\ s[1] = "row" /\ s[2] = "sync"
  /\ LET s == Script["finished"] IN Len(s) = 6 /\ s[1] = "row" /\ s[2] = "sync"
       /\ s[3] = "clearWaiting" /\ s[4] = "clearAdmitted"
       /\ s[5] = "clearDenied" /\ s[6] = "clearPresent"
  /\ \A op \in {"cancel", "end", "delete"} : LET s == Script[op] IN
       Len(s) = 7 /\ s[1] = "row" /\ s[2] = "endRoom"
       /\ s[3] = "clearWaiting" /\ s[4] = "clearAdmitted"
       /\ s[5] = "clearDenied" /\ s[6] = "clearPresent" /\ s[7] = "stop"
  /\ LET s == Script["reconcile"] IN Len(s) = 8 /\ s[1] = "row" /\ s[2] = "count" /\ s[3] = "endRoom"
       /\ s[4] = "clearWaiting" /\ s[5] = "clearAdmitted"
       /\ s[6] = "clearDenied" /\ s[7] = "clearPresent" /\ s[8] = "stop"
<1> DEFINE W == {"endRoom", "clearWaiting", "clearAdmitted", "clearDenied", "clearPresent"}
<1>1. Len(Clears) = 4 /\ Clears[1] = "clearWaiting" /\ Clears[2] = "clearAdmitted"
      /\ Clears[3] = "clearDenied" /\ Clears[4] = "clearPresent" /\ Clears \in Seq(W)
  BY DEF Clears
<1>2. Len(Teardown) = 5 /\ Teardown[1] = "endRoom" /\ Teardown[2] = "clearWaiting"
      /\ Teardown[3] = "clearAdmitted" /\ Teardown[4] = "clearDenied" /\ Teardown[5] = "clearPresent"
      /\ Teardown \in Seq(W)
  BY DEF Teardown, Clears
<1>3. LET s == Script["join"] IN Len(s) = 7 /\ s[1] = "row" /\ s[2] = "checkDenied"
     /\ s[3] = "checkAdmitted" /\ s[4] = "live" /\ s[5] = "ledger"
     /\ s[6] = "seat" /\ s[7] = "token"
  BY DEF Script
<1>4. LET s == Script["remove"] IN Len(s) = 6 /\ s[1] = "row" /\ s[2] = "kick" /\ s[3] = "unseat"
     /\ s[4] = "bar" /\ s[5] = "disown" /\ s[6] = "unlist"
  BY DEF Script
<1>5. LET s == Script["knock"] IN Len(s) = 3 /\ s[1] = "row" /\ s[2] = "enlist" /\ s[3] = "show"
  BY DEF Script
<1>6. LET s == Script["withdraw"] IN Len(s) = 2 /\ s[1] = "unlist" /\ s[2] = "show"
  BY DEF Script
<1>7. LET s == Script["admit"] IN Len(s) = 6 /\ s[1] = "row" /\ s[2] = "checkListed"
     /\ s[3] = "welcome" /\ s[4] = "unlist" /\ s[5] = "unbar"
     /\ s[6] = "show"
  BY DEF Script
<1>8. LET s == Script["deny"] IN Len(s) = 5 /\ s[1] = "row" /\ s[2] = "checkListed"
     /\ s[3] = "unlist" /\ s[4] = "disown" /\ s[5] = "show"
  BY DEF Script
<1>9. LET s == Script["watch"] IN Len(s) = 2 /\ s[1] = "row" /\ s[2] = "look"
  BY DEF Script
<1>10. \A op \in {"started", "joined", "left"} : LET s == Script[op] IN
     Len(s) = 2 /\ s[1] = "row" /\ s[2] = "sync"
  <2>1. Script["started"] = <<"row", "sync">> /\ Script["joined"] = <<"row", "sync">>
        /\ Script["left"] = <<"row", "sync">>
    BY DEF Script
  <2> QED
    BY <2>1
<1>11. LET s == Script["finished"] IN Len(s) = 6 /\ s[1] = "row" /\ s[2] = "sync"
     /\ s[3] = "clearWaiting" /\ s[4] = "clearAdmitted"
     /\ s[5] = "clearDenied" /\ s[6] = "clearPresent"
  <2>1. Script["finished"] = <<"row", "sync">> \o Clears
    BY DEF Script
  <2> QED
    BY <2>1 DEF Clears
<1>12. \A op \in {"cancel", "end", "delete"} : LET s == Script[op] IN
     Len(s) = 7 /\ s[1] = "row" /\ s[2] = "endRoom"
     /\ s[3] = "clearWaiting" /\ s[4] = "clearAdmitted"
     /\ s[5] = "clearDenied" /\ s[6] = "clearPresent" /\ s[7] = "stop"
  <2> DEFINE s == <<"row">> \o Teardown \o <<"stop">>
  <2>1. Script["cancel"] = s /\ Script["end"] = s /\ Script["delete"] = s
    BY DEF Script
  <2>2. Len(s) = 7 /\ s[1] = "row" /\ s[2] = "endRoom"
        /\ s[3] = "clearWaiting" /\ s[4] = "clearAdmitted"
        /\ s[5] = "clearDenied" /\ s[6] = "clearPresent" /\ s[7] = "stop"
    BY DEF Teardown, Clears
  <2> QED
    BY <2>1, <2>2
<1>13. LET s == Script["reconcile"] IN Len(s) = 8 /\ s[1] = "row" /\ s[2] = "count" /\ s[3] = "endRoom"
     /\ s[4] = "clearWaiting" /\ s[5] = "clearAdmitted"
     /\ s[6] = "clearDenied" /\ s[7] = "clearPresent" /\ s[8] = "stop"
  <2>1. Script["reconcile"] = <<"row", "count">> \o Teardown \o <<"stop">>
    BY DEF Script
  <2> QED
    BY <2>1 DEF Teardown, Clears
<1> QED
  BY <1>3, <1>4, <1>5, <1>6, <1>7, <1>8, <1>9, <1>10, <1>11, <1>12, <1>13

\* Where a task is at each of its commands.
LEMMA Places ==
  ASSUME NEW k, k.op \in Ops \ {"idle"}, k.step \in 1 .. Len(Script[k.op])
  PROVE  LET w == Script[k.op][k.step] IN
         /\ w = "row" => k.step = 1 /\ k.op # "withdraw"
         /\ w = "checkDenied" <=> In(k, "join", {2})
         /\ w = "checkAdmitted" <=> In(k, "join", {3})
         /\ w = "live" <=> In(k, "join", {4})
         /\ w = "ledger" <=> In(k, "join", {5})
         /\ w = "seat" <=> In(k, "join", {6})
         /\ w = "token" <=> In(k, "join", {7})
         /\ w = "endRoom" <=> Managing(k, {2}) \/ In(k, "reconcile", {3})
         /\ w = "count" <=> In(k, "reconcile", {2})
         /\ w = "clearWaiting" <=> Managing(k, {3}) \/ In(k, "finished", {3}) \/ In(k, "reconcile", {4})
         /\ w = "clearAdmitted" <=> Managing(k, {4}) \/ In(k, "finished", {4}) \/ In(k, "reconcile", {5})
         /\ w = "clearDenied" <=> Managing(k, {5}) \/ In(k, "finished", {5}) \/ In(k, "reconcile", {6})
         /\ w = "clearPresent" <=> Managing(k, {6}) \/ In(k, "finished", {6}) \/ In(k, "reconcile", {7})
         /\ w = "stop" <=> Managing(k, {7}) \/ In(k, "reconcile", {8})
         /\ w = "sync" <=> k.op \in HookOps /\ k.step = 2
         /\ w = "kick" <=> In(k, "remove", {2})
         /\ w = "unseat" <=> In(k, "remove", {3})
         /\ w = "bar" <=> In(k, "remove", {4})
         /\ w = "disown" <=> In(k, "remove", {5}) \/ In(k, "deny", {4})
         /\ w = "unlist" <=> In(k, "remove", {6}) \/ In(k, "withdraw", {1}) \/ In(k, "admit", {4}) \/ In(k, "deny", {3})
         /\ w = "enlist" <=> In(k, "knock", {2})
         /\ w = "checkListed" <=> In(k, "admit", {2}) \/ In(k, "deny", {2})
         /\ w = "welcome" <=> In(k, "admit", {3})
         /\ w = "unbar" <=> In(k, "admit", {5})
         /\ w = "show" <=> In(k, "knock", {3}) \/ In(k, "withdraw", {2}) \/ In(k, "admit", {6}) \/ In(k, "deny", {5})
         /\ w = "look" <=> In(k, "watch", {2})
<1>1. Ops = {"idle", "join", "remove", "knock", "withdraw", "admit", "deny", "watch", "started", "joined", "left", "finished", "cancel", "end", "delete", "reconcile"}
  BY DEF Ops, Script
<1> USE DEF ManageOps, HookOps, In, Managing
<1>2. CASE k.op = "join"
  BY <1>2, Lines
<1>3. CASE k.op = "remove"
  BY <1>3, Lines
<1>4. CASE k.op = "knock"
  BY <1>4, Lines
<1>5. CASE k.op = "withdraw"
  BY <1>5, Lines
<1>6. CASE k.op = "admit"
  BY <1>6, Lines
<1>7. CASE k.op = "deny"
  BY <1>7, Lines
<1>8. CASE k.op = "watch"
  BY <1>8, Lines
<1>9. CASE k.op \in {"started", "joined", "left"}
  <2>1. LET s == Script[k.op] IN Len(s) = 2 /\ s[1] = "row" /\ s[2] = "sync"
    BY <1>9, Lines
  <2> QED
    BY <1>9, <2>1
<1>10. CASE k.op = "finished"
  BY <1>10, Lines
<1>11. CASE k.op \in {"cancel", "end", "delete"}
  <2>1. LET s == Script[k.op] IN 
          Len(s) = 7 /\ s[1] = "row" /\ s[2] = "endRoom"
          /\ s[3] = "clearWaiting" /\ s[4] = "clearAdmitted"
          /\ s[5] = "clearDenied" /\ s[6] = "clearPresent" /\ s[7] = "stop"
    BY <1>11, Lines
  <2> QED
    BY <1>11, <2>1
<1>12. CASE k.op = "reconcile"
  BY <1>12, Lines
<1> QED
  BY <1>1, <1>2, <1>3, <1>4, <1>5, <1>6, <1>7, <1>8, <1>9, <1>10, <1>11, <1>12

\* No script is longer than the bound of the steps.
LEMMA Lengths ==
  /\ Script["idle"] = <<>>
  /\ \A op \in Ops : Len(Script[op]) \in 0 .. 8 /\ (op # "idle" => Len(Script[op]) > 1)
<1>1. Ops = {"idle", "join", "remove", "knock", "withdraw", "admit", "deny", "watch",
             "started", "joined", "left", "finished", "cancel", "end", "delete", "reconcile"}
  BY DEF Ops, Script
<1>2. Script["idle"] = <<>>
  BY DEF Script
<1>3. \A op \in {"started", "joined", "left"} : Len(Script[op]) = 2
  BY Lines
<1>4. \A op \in {"cancel", "end", "delete"} : Len(Script[op]) = 7
  BY Lines
<1>5. /\ Len(Script["join"]) = 7 /\ Len(Script["remove"]) = 6 /\ Len(Script["knock"]) = 3
      /\ Len(Script["withdraw"]) = 2 /\ Len(Script["admit"]) = 6 /\ Len(Script["deny"]) = 5
      /\ Len(Script["watch"]) = 2 /\ Len(Script["finished"]) = 6 /\ Len(Script["reconcile"]) = 8
  BY Lines
<1> QED
  <2>1. Len(<<>>) = 0
    OBVIOUS
  <2>2. \A op \in Ops \ {"idle"} : Len(Script[op]) \in {2, 3, 5, 6, 7, 8}
    BY <1>1, <1>3, <1>4, <1>5
  <2>3. \A n \in {2, 3, 5, 6, 7, 8} : n \in 0 .. 8 /\ n > 1
    OBVIOUS
  <2>4. ASSUME NEW op \in Ops PROVE Len(Script[op]) \in 0 .. 8 /\ (op # "idle" => Len(Script[op]) > 1)
    <3>1. CASE op = "idle"
      BY <1>2, <2>1, <3>1
    <3>2. CASE op # "idle"
      BY <2>2, <2>3, <2>4, <3>2
    <3> QED
      BY <3>1, <3>2
  <2> QED
    BY <1>2, <2>4

\* No task is about nothing.
LEMMA Idling == Idle \in Tasks /\ Shape(Idle) /\ Idle.op = "idle"
<1>1. "idle" \in Ops
  BY DEF Ops, Script
<1> QED
  BY <1>1 DEF Idle, Tasks, Shape

\* The task after a step is a task, one command further or over.
LEMMA Steps ==
  ASSUME TypeOK, Shaped, NEW t \in Slots, Busy(t)
  PROVE  LET k == Stepped(t) IN
         /\ k \in Tasks /\ Shape(k)
         /\ \/ k = Idle /\ task[t].step = Len(Script[task[t].op])
            \/ /\ k.op = task[t].op /\ k.step = task[t].step + 1 /\ k.who = task[t].who
               /\ k.sock = task[t].sock /\ k.late = task[t].late
               /\ task[t].step < Len(Script[task[t].op])
<1>1. /\ task[t] \in Tasks /\ Shape(task[t]) /\ task[t].op # "idle"
  BY DEF TypeOK, Shaped, Busy
<1>2. /\ task[t].op \in Ops /\ task[t].step \in 1 .. Len(Script[task[t].op])
  BY <1>1 DEF Tasks, Shape
<1>3. Len(Script[task[t].op]) \in 0 .. 8
  BY <1>2, Lengths
<1> DEFINE n == Len(Script[task[t].op])
           i == task[t].step
<1>a. n \in 0 .. 8 /\ i \in 1 .. n
  BY <1>2, <1>3
<1>b. /\ Shape(task[t]) => /\ (task[t].op = "join" => task[t].who \in Users)
                           /\ (task[t].op \in {"remove", "admit", "deny"} => task[t].who \in Guests)
                           /\ (task[t].op \in {"knock", "withdraw"} =>
                                  task[t].sock \in Sockets /\ task[t].who = Owner[task[t].sock])
  BY DEF Shape
<1>4. CASE task[t].step = Len(Script[task[t].op])
  BY <1>4, Idling DEF Stepped
<1>5. CASE task[t].step # Len(Script[task[t].op])
  <2> DEFINE k == [task[t] EXCEPT !.step = @ + 1]
  <2>1. Stepped(t) = k
    BY <1>5 DEF Stepped
  <2>2. task[t].step < Len(Script[task[t].op]) /\ task[t].step + 1 \in 1 .. 8
    <3>1. i < n /\ i + 1 \in 1 .. 8
      <4> HIDE DEF n, i
      <4>1. i # n => i < n /\ i + 1 \in 1 .. 8
        BY <1>a
      <4> QED
        BY <1>5, <4>1 DEF n, i
    <3> QED
      BY <3>1
  <2>3. /\ k \in Tasks /\ k.op = task[t].op /\ k.step = task[t].step + 1
        /\ k.who = task[t].who /\ k.sock = task[t].sock /\ k.late = task[t].late
    BY <1>1, <2>2 DEF Tasks
  <2> HIDE DEF k
  <2>4. Shape(k)
    <3>1. k.op # "idle" => k.step \in 1 .. Len(Script[k.op])
      <4>1. i + 1 \in 1 .. n
        <5> HIDE DEF n, i
        <5>1. i < n => i + 1 \in 1 .. n
          BY <1>a
        <5> QED
          BY <2>2, <5>1 DEF n, i
      <4> QED
        BY <2>3, <4>1
    <3> QED
      BY <1>1, <1>b, <2>3, <3>1 DEF Shape
  <2> QED
    BY <2>1, <2>2, <2>3, <2>4
<1> QED
  BY <1>4, <1>5

\* A handler's step moves its own task, and makes a join late at most.
LEMMA Turns ==
  ASSUME TypeOK, Shaped, NEW t \in Slots, Step(t)
  PROVE  Turn(t) /\ task' \in [Slots -> Tasks] /\ Shaped'
<1>1. task \in [Slots -> Tasks] /\ \A x \in Slots : Shape(task[x])
  BY DEF TypeOK, Shaped
<1>2. Busy(t)
  BY DEF Step, RoomStep, LobbyStep, At, ReadRow, CheckDenied, CheckAdmitted, JoinLive, JoinLedger,
         JoinSeat, JoinToken, EndRoom, ReadCount, ClearRoom, StopMeeting, SyncRow, Kick, Unseat,
         Bar, Disown, Unlist, Enlist, CheckListed, Welcome, Unbar, Show, Look
<1>3. /\ Stepped(t) \in Tasks /\ Shape(Stepped(t))
      /\ \/ Stepped(t) = Idle
         \/ /\ Stepped(t).op = task[t].op /\ Stepped(t).step = task[t].step + 1
            /\ Stepped(t).who = task[t].who /\ Stepped(t).sock = task[t].sock
            /\ Stepped(t).late = task[t].late
  BY <1>2, Steps
<1>4. ASSUME NEW k \in Tasks, Shape(k), task' = [task EXCEPT ![t] = k],
             \/ k = Idle
             \/ /\ k.op = task[t].op /\ k.step = task[t].step + 1
                /\ k.who = task[t].who /\ k.sock = task[t].sock /\ k.late = task[t].late
      PROVE  Turn(t) /\ task' \in [Slots -> Tasks] /\ Shaped'
  <2>1. task' \in [Slots -> Tasks] /\ task'[t] = k /\ \A x \in Slots \ {t} : task'[x] = task[x]
    BY <1>1, <1>4
  <2> QED
    BY <1>1, <1>4, <2>1 DEF Turn, Alike, Onward, Shaped
<1>5. CASE Advance(t) \/ Finish(t)
  BY <1>3, <1>4, <1>5, Idling DEF Advance, Finish
<1>6. ASSUME NEW us, AdvanceOver(t, us) PROVE Turn(t) /\ task' \in [Slots -> Tasks] /\ Shaped'
  <2>1. task'[t] = Stepped(t)
    BY <1>6 DEF AdvanceOver
  <2>2. \A x \in Slots \ {t} : task'[x] = IF task[x].op = "join" /\ task[x].who \in us
                                         THEN [task[x] EXCEPT !.late = TRUE] ELSE task[x]
    BY <1>6 DEF AdvanceOver
  <2>3. ASSUME NEW x \in Slots \ {t} PROVE Alike(x) /\ task'[x] \in Tasks /\ Shape(task'[x])
    <3>1. CASE task'[x] = task[x]
      BY <1>1, <3>1 DEF Alike
    <3>2. CASE task'[x] = [task[x] EXCEPT !.late = TRUE]
      <4>1. /\ task'[x] \in Tasks /\ task'[x].op = task[x].op /\ task'[x].step = task[x].step
            /\ task'[x].who = task[x].who /\ task'[x].sock = task[x].sock /\ task'[x].late = TRUE
        BY <1>1, <3>2 DEF Tasks
      <4> QED
        BY <1>1, <4>1 DEF Alike, Shape
    <3> QED
      BY <2>2, <3>1, <3>2
  <2>4. task' = [x \in Slots |-> task'[x]]
    BY <1>6 DEF AdvanceOver
  <2> QED
    BY <1>3, <2>1, <2>3, <2>4 DEF Turn, Onward, Shaped
<1>7. CASE ReadRow(t)
  <2>1. CASE task' = [task EXCEPT ![t] = Idle]
    BY <1>4, <2>1, Idling
  <2>2. CASE task' = [task EXCEPT ![t] = Noted(t)]
    <3> DEFINE k == Noted(t)
    <3>0. (task[t].op = "started" /\ began # "never") \in BOOLEAN
      OBVIOUS
    <3>1. status # "gone" => status \in {"SCHEDULED", "LIVE", "ENDED", "CANCELLED"}
      BY DEF TypeOK, Finished
    <3>2. /\ k \in Tasks /\ k.op = Stepped(t).op /\ k.step = Stepped(t).step /\ k.who = Stepped(t).who
          /\ k.sock = Stepped(t).sock /\ k.late = Stepped(t).late
      BY <1>3, <3>0, <3>1 DEF Tasks, Noted
    <3>3. Shape(k)
      BY <1>3, <3>2 DEF Shape
    <3>4. Stepped(t) # Idle
      <4>1. /\ task[t].op \in Ops \ {"idle"} /\ task[t].step \in 1 .. Len(Script[task[t].op])
            /\ Script[task[t].op][task[t].step] = "row"
        BY <1>1, <1>2, <1>7 DEF ReadRow, At, Busy, Tasks, Shape
      <4>2. task[t].step = 1
        BY <4>1, Places
      <4>3. Len(Script[task[t].op]) > 1 /\ Len(Script[task[t].op]) \in 0 .. 8
        BY <4>1, Lengths
      <4>4. task[t].step # Len(Script[task[t].op])
        <5>1. \A n \in 0 .. 8 : n > 1 => 1 # n
          OBVIOUS
        <5> QED
          BY <4>2, <4>3, <5>1
      <4>5. Stepped(t).op = task[t].op
        BY <1>2, <4>4, Steps
      <4> QED
        BY <1>2, <4>5 DEF Idle, Busy
    <3> QED
      BY <1>3, <1>4, <2>2, <3>2, <3>3, <3>4
  <2> QED
    BY <1>7, <2>1, <2>2 DEF ReadRow, Noted
<1>8. ASSUME NEW ok, Proceed(t, ok) PROVE Advance(t) \/ Finish(t)
  BY <1>8 DEF Proceed
<1>9. CASE RoomStep(t)
  BY <1>5, <1>6, <1>7, <1>8, <1>9
     DEF RoomStep, CheckDenied, CheckAdmitted, JoinLive, JoinLedger, JoinSeat, JoinToken, EndRoom,
         ReadCount, ClearRoom, StopMeeting, SyncRow, Kick, Unseat, Bar, Disown, Unlist
<1>10. CASE LobbyStep(t)
  BY <1>5, <1>8, <1>10 DEF LobbyStep, Enlist, CheckListed, Welcome, Unbar, Show, Look
<1> QED
  BY <1>9, <1>10 DEF Step

\* The same of a task under way.
LEMMA Now ==
  ASSUME TypeOK, Shaped, NEW t \in Slots
  PROVE  /\ At(t, "row") => task[t].step = 1 /\ task[t].op # "withdraw"
         /\ At(t, "checkDenied") <=> In(task[t], "join", {2})
         /\ At(t, "checkAdmitted") <=> In(task[t], "join", {3})
         /\ At(t, "live") <=> In(task[t], "join", {4})
         /\ At(t, "ledger") <=> In(task[t], "join", {5})
         /\ At(t, "seat") <=> In(task[t], "join", {6})
         /\ At(t, "token") <=> In(task[t], "join", {7})
         /\ At(t, "endRoom") <=> Managing(task[t], {2}) \/ In(task[t], "reconcile", {3})
         /\ At(t, "count") <=> In(task[t], "reconcile", {2})
         /\ At(t, "clearWaiting") <=> Managing(task[t], {3}) \/ In(task[t], "finished", {3}) \/ In(task[t], "reconcile", {4})
         /\ At(t, "clearAdmitted") <=> Managing(task[t], {4}) \/ In(task[t], "finished", {4}) \/ In(task[t], "reconcile", {5})
         /\ At(t, "clearDenied") <=> Managing(task[t], {5}) \/ In(task[t], "finished", {5}) \/ In(task[t], "reconcile", {6})
         /\ At(t, "clearPresent") <=> Managing(task[t], {6}) \/ In(task[t], "finished", {6}) \/ In(task[t], "reconcile", {7})
         /\ At(t, "stop") <=> Managing(task[t], {7}) \/ In(task[t], "reconcile", {8})
         /\ At(t, "sync") <=> task[t].op \in HookOps /\ task[t].step = 2
         /\ At(t, "kick") <=> In(task[t], "remove", {2})
         /\ At(t, "unseat") <=> In(task[t], "remove", {3})
         /\ At(t, "bar") <=> In(task[t], "remove", {4})
         /\ At(t, "disown") <=> In(task[t], "remove", {5}) \/ In(task[t], "deny", {4})
         /\ At(t, "unlist") <=> In(task[t], "remove", {6}) \/ In(task[t], "withdraw", {1}) \/ In(task[t], "admit", {4}) \/ In(task[t], "deny", {3})
         /\ At(t, "enlist") <=> In(task[t], "knock", {2})
         /\ At(t, "checkListed") <=> In(task[t], "admit", {2}) \/ In(task[t], "deny", {2})
         /\ At(t, "welcome") <=> In(task[t], "admit", {3})
         /\ At(t, "unbar") <=> In(task[t], "admit", {5})
         /\ At(t, "show") <=> In(task[t], "knock", {3}) \/ In(task[t], "withdraw", {2}) \/ In(task[t], "admit", {6}) \/ In(task[t], "deny", {5})
         /\ At(t, "look") <=> In(task[t], "watch", {2})
<1>1. task[t] \in Tasks /\ Shape(task[t])
  BY DEF TypeOK, Shaped
<1>2. CASE Busy(t)
  BY <1>1, <1>2, Places DEF At, Busy, Tasks, Shape
<1>3. CASE ~Busy(t)
  BY <1>3 DEF At, Busy, In, Managing, ManageOps, HookOps
<1> QED
  BY <1>2, <1>3

\* Whom the commands that write about someone are about.
LEMMA Whom ==
  ASSUME TypeOK, Shaped, NEW t \in Slots
  PROVE  /\ At(t, "seat") \/ At(t, "token") => task[t].who \in Users
         /\ At(t, "welcome") \/ At(t, "bar") \/ At(t, "kick") => task[t].who \in Guests
         /\ At(t, "enlist") => task[t].who \in Guests /\ task[t].sock \in Sockets
         /\ At(t, "row") /\ task[t].op = "knock" => task[t].sock \in Sockets
<1>1. Shape(task[t])
  BY DEF Shaped
<1> QED
  BY <1>1, Now, OwnerAssumption DEF Shape, In


\* TypeOK speaks of the tasks and of the rest.
LEMMA DataType == TypeOK <=> Data /\ task \in [Slots -> Tasks]
  BY DEF TypeOK, Data

\* Every step keeps the types of the tasks.
LEMMA TasksStay == TypeOK /\ Shaped /\ [Meets]_vars => (task \in [Slots -> Tasks] /\ Shaped)'
<1> SUFFICES ASSUME TypeOK, Shaped, [Meets]_vars PROVE (task \in [Slots -> Tasks] /\ Shaped)'
  OBVIOUS
<1>1. ASSUME NEW t \in Slots, Step(t) PROVE (task \in [Slots -> Tasks] /\ Shaped)'
  BY <1>1, Turns
<1>2. CASE Calm /\ (UNCHANGED task \/ \E t \in Slots : Asks(t))
  <2>1. CASE UNCHANGED task
    BY <2>1 DEF TypeOK, Shaped
  <2>2. ASSUME NEW t \in Slots, Asks(t) PROVE (task \in [Slots -> Tasks] /\ Shaped)'
    BY <2>2 DEF TypeOK, Asks, Shaped
  <2> QED
    BY <1>2, <2>1, <2>2
<1>3. ASSUME NEW u \in Users, Connect(u) PROVE (task \in [Slots -> Tasks] /\ Shaped)'
  BY <1>3 DEF Connect, TypeOK, Shaped
<1>4. ASSUME NEW u \in Users, Leave(u) PROVE (task \in [Slots -> Tasks] /\ Shaped)'
  BY <1>4 DEF Leave, TypeOK, Shaped
<1>5. CASE Vanish
  BY <1>5 DEF Vanish, TypeOK, Shaped
<1>6. CASE Age
  BY <1>6 DEF Age, TypeOK, Shaped
<1>7. CASE Expire
  BY <1>7 DEF Expire, TypeOK, Shaped
<1>8. CASE UNCHANGED vars
  BY <1>8 DEF vars, TypeOK, Shaped
<1> QED
  BY <1>1, <1>2, <1>3, <1>4, <1>5, <1>6, <1>7, <1>8 DEF Meets

\* Every step keeps the types of the rest.
LEMMA DataStays == TypeOK /\ Shaped /\ [Meets]_vars => Data'
<1> SUFFICES ASSUME TypeOK, Shaped, [Meets]_vars PROVE Data'
  OBVIOUS
<1>0. Data
  BY DataType
<1>1. ASSUME NEW t \in Slots, Step(t) PROVE Data'
  <2>0. task[t].op # "idle" => task[t].op \in Ops
    BY DEF TypeOK, Tasks
  <2>1. CASE ReadRow(t)
    <3>1. CASE UNCHANGED <<knocking, inbox>>
      BY <1>0, <2>1, <3>1 DEF ReadRow, Data, rowVars, redisVars, sfuVars, clientVars, socketVars, pastVars
    <3>2. CASE task[t].op = "knock"
      <4>1. task[t].sock \in Sockets
        BY <2>1, <3>2, Whom DEF ReadRow
      <4>2. inbox' \in [Sockets -> Seq({"Admitted", "Denied"})]
        <5>1. inbox \in [Sockets -> Seq({"Admitted", "Denied"})]
          BY <1>0 DEF Data
        <5>2. UNCHANGED inbox \/ inbox' = [inbox EXCEPT ![task[t].sock] = Append(@, "Admitted")]
          BY <2>1, <3>2 DEF ReadRow, Sent
        <5> QED
          <6> DEFINE E == {"Admitted", "Denied"}
          <6>1. \A q \in Seq(E) : Append(q, "Admitted") \in Seq(E)
            OBVIOUS
          <6>2. inbox \in [Sockets -> Seq(E)]
            BY <5>1
          <6> HIDE DEF E
          <6>3. inbox' \in [Sockets -> Seq(E)]
            BY <4>1, <5>2, <6>1, <6>2
          <6> QED
            BY <6>3 DEF E
      <4>3. knocking' \subseteq Sockets /\ watching' \in BOOLEAN
        BY <1>0, <2>1, <3>2, <4>1 DEF ReadRow, Data
      <4> QED
        BY <1>0, <2>1, <4>2, <4>3 DEF ReadRow, Data, rowVars, redisVars, sfuVars, clientVars, socketVars, pastVars
    <3> QED
      BY <2>1, <3>1, <3>2 DEF ReadRow
  <2>2. CASE CheckDenied(t)
    BY <1>0, <2>2 DEF CheckDenied, Data, rowVars, redisVars, sfuVars, clientVars, socketVars, pastVars
  <2>3. CASE CheckAdmitted(t)
    BY <1>0, <2>3 DEF CheckAdmitted, Data, rowVars, redisVars, sfuVars, clientVars, socketVars, pastVars
  <2>4. CASE JoinLive(t)
    BY <1>0, <2>4 DEF JoinLive, Finished, Data, rowVars, redisVars, sfuVars, clientVars, socketVars, pastVars
  <2>5. CASE JoinLedger(t)
    BY <1>0, <2>5 DEF JoinLedger, Data, rowVars, redisVars, sfuVars, clientVars, socketVars, pastVars
  <2>6. CASE JoinSeat(t)
    BY <1>0, <2>6, Whom DEF JoinSeat, Stray, TornDown, Data, rowVars, redisVars, sfuVars, clientVars, socketVars, pastVars
  <2>7. CASE JoinToken(t)
    BY <1>0, <2>7, Whom DEF JoinToken, Stray, TornDown, Data, rowVars, redisVars, sfuVars, clientVars, socketVars, pastVars
  <2>8. CASE EndRoom(t)
    BY <1>0, <2>8 DEF EndRoom, EmptyRoom, Parted, Hooked, HookOps, Data, rowVars, redisVars, sfuVars, clientVars, socketVars, pastVars
  <2>9. CASE ReadCount(t)
    BY <1>0, <2>9 DEF ReadCount, Data, rowVars, redisVars, sfuVars, clientVars, socketVars, pastVars
  <2>10. CASE ClearRoom(t)
    BY <1>0, <2>10 DEF ClearRoom, Data, rowVars, redisVars, sfuVars, clientVars, socketVars, pastVars
  <2>11. CASE StopMeeting(t)
    BY <1>0, <2>11 DEF StopMeeting, Verdict, Finished, Data, rowVars, redisVars, sfuVars, clientVars, socketVars, pastVars
  <2>12. CASE SyncRow(t)
    BY <1>0, <2>12 DEF SyncRow, Finished, Data, rowVars, redisVars, sfuVars, clientVars, socketVars, pastVars
  <2>13. CASE Kick(t)
    BY <1>0, <2>13, Whom DEF Kick, Parted, Hooked, HookOps, Users, Data, rowVars, redisVars, sfuVars, clientVars, socketVars, pastVars
  <2>14. CASE Unseat(t)
    BY <1>0, <2>14 DEF Unseat, Data, rowVars, redisVars, sfuVars, clientVars, socketVars, pastVars
  <2>15. CASE Bar(t)
    BY <1>0, <2>15, Whom DEF Bar, Stray, TornDown, Users, Data, rowVars, redisVars, sfuVars, clientVars, socketVars, pastVars
  <2>16. CASE Disown(t)
    BY <1>0, <2>16 DEF Disown, Data, rowVars, redisVars, sfuVars, clientVars, socketVars, pastVars
  <2>17. CASE Unlist(t)
    BY <1>0, <2>17 DEF Unlist, Data, rowVars, redisVars, sfuVars, clientVars, socketVars, pastVars
  <2>18. CASE Enlist(t)
    BY <1>0, <2>18, Whom DEF Enlist, Stray, TornDown, Users, Data, rowVars, redisVars, sfuVars, clientVars, socketVars, pastVars
  <2>19. CASE CheckListed(t)
    BY <1>0, <2>19 DEF CheckListed, Data, rowVars, redisVars, sfuVars, clientVars, socketVars, pastVars
  <2>20. CASE Welcome(t)
    BY <1>0, <2>20, Whom DEF Welcome, Stray, TornDown, Users, Data, rowVars, redisVars, sfuVars, clientVars, socketVars, pastVars
  <2>21. CASE Unbar(t)
    BY <1>0, <2>21 DEF Unbar, Data, rowVars, redisVars, sfuVars, clientVars, socketVars, pastVars
  <2>22. CASE Show(t)
    <3>1. inbox' \in [Sockets -> Seq({"Admitted", "Denied"})]
      <4>1. inbox \in [Sockets -> Seq({"Admitted", "Denied"})]
        BY <1>0 DEF Data
      <4>2. ASSUME NEW e \in {"Admitted", "Denied"}, SentToAll(task[t].who, e)
            PROVE  inbox' \in [Sockets -> Seq({"Admitted", "Denied"})]
        BY <4>1, <4>2 DEF SentToAll
      <4> QED
        BY <2>22, <4>1, <4>2 DEF Show
    <3> QED
      BY <1>0, <2>22, <3>1 DEF Show, Data, rowVars, redisVars, sfuVars, clientVars, socketVars, pastVars
  <2>23. CASE Look(t)
    BY <1>0, <2>23 DEF Look, Data, rowVars, redisVars, sfuVars, clientVars, socketVars, pastVars
  <2> QED
    BY <1>1, <2>1, <2>2, <2>3, <2>4, <2>5, <2>6, <2>7, <2>8, <2>9, <2>10, <2>11, <2>12, <2>13, <2>14, <2>15, <2>16, <2>17, <2>18, <2>19, <2>20, <2>21, <2>22, <2>23 DEF Step, RoomStep, LobbyStep
<1>2. CASE Calm /\ (UNCHANGED task \/ \E t \in Slots : Asks(t))
  BY <1>0, <1>2 DEF Calm, Data, rowVars, redisVars, sfuVars, clientVars, socketVars, pastVars
<1>3. ASSUME NEW u \in Users, Connect(u) PROVE Data'
  BY <1>0, <1>3 DEF Connect, Hooked, HookOps, Stray, TornDown, Data, rowVars, redisVars, sfuVars, clientVars, socketVars, pastVars
<1>4. ASSUME NEW u \in Users, Leave(u) PROVE Data'
  BY <1>0, <1>4 DEF Leave, Parted, Hooked, HookOps, Data, rowVars, redisVars, sfuVars, clientVars, socketVars, pastVars
<1>5. CASE Vanish
  BY <1>0, <1>5 DEF Vanish, EmptyRoom, Hooked, HookOps, Data, rowVars, redisVars, sfuVars, clientVars, socketVars, pastVars
<1>6. CASE Age
  BY <1>0, <1>6 DEF Age, Data, rowVars, redisVars, sfuVars, clientVars, socketVars, pastVars
<1>7. CASE Expire
  BY <1>0, <1>7 DEF Expire, Data, rowVars, redisVars, sfuVars, clientVars, socketVars, pastVars
<1>8. CASE UNCHANGED vars
  BY <1>0, <1>8 DEF vars, Data, rowVars, redisVars, sfuVars, clientVars, socketVars, pastVars
<1> QED
  BY <1>1, <1>2, <1>3, <1>4, <1>5, <1>6, <1>7, <1>8 DEF Meets


\* The handlers that end or read a meeting are nobody's.
LEMMA Staff ==
  ASSUME TypeOK, Shaped, NEW t \in Slots,
         \/ At(t, "endRoom") \/ At(t, "count") \/ At(t, "clearWaiting") \/ At(t, "clearAdmitted")
         \/ At(t, "clearDenied") \/ At(t, "clearPresent") \/ At(t, "stop") \/ At(t, "sync")
  PROVE  task[t].op \notin {"idle", "join", "remove"} \cup LobbyOps
<1> QED
  BY Now DEF In, Managing, ManageOps, HookOps, LobbyOps

\* A task that is not at its last command goes on when it is moved.
LEMMA GoesOn ==
  ASSUME TypeOK, Shaped, NEW t \in Slots, task'[t] = Stepped(t),
         \/ In(task[t], "knock", 1 .. 2) \/ In(task[t], "watch", {1}) \/ In(task[t], "admit", 1 .. 5)
         \/ In(task[t], "remove", 1 .. 5) \/ In(task[t], "finished", 1 .. 5)
         \/ Managing(task[t], 1 .. 6) \/ In(task[t], "reconcile", 1 .. 7)
  PROVE  Onward(t)
<1>1. task[t].op # "idle" /\ task[t].step # Len(Script[task[t].op])
  <2>1. /\ Len(Script["knock"]) = 3 /\ Len(Script["watch"]) = 2 /\ Len(Script["admit"]) = 6
        /\ Len(Script["remove"]) = 6 /\ Len(Script["finished"]) = 6 /\ Len(Script["reconcile"]) = 8
        /\ \A op \in ManageOps : Len(Script[op]) = 7
    BY Lines DEF ManageOps
  <2> DEFINE o == task[t].op
             i == task[t].step
  <2>2. \/ o \in {"knock"} /\ i \in 1 .. 2 /\ Len(Script[o]) = 3
        \/ o \in {"watch"} /\ i \in {1} /\ Len(Script[o]) = 2
        \/ o \in {"admit", "remove", "finished"} /\ i \in 1 .. 5 /\ Len(Script[o]) = 6
        \/ o \in ManageOps /\ i \in 1 .. 6 /\ Len(Script[o]) = 7
        \/ o \in {"reconcile"} /\ i \in 1 .. 7 /\ Len(Script[o]) = 8
    BY <2>1 DEF In, Managing
  <2>3. i # Len(Script[o])
    <3>1. /\ \A n \in 1 .. 2 : n # 3
          /\ \A n \in {1} : n # 2
          /\ \A n \in 1 .. 5 : n # 6
          /\ \A n \in 1 .. 6 : n # 7
          /\ \A n \in 1 .. 7 : n # 8
      OBVIOUS
    <3> HIDE DEF o, i
    <3> QED
      BY <2>2, <3>1
  <2> QED
    BY <2>2, <2>3 DEF ManageOps
<1>2. Busy(t)
  BY <1>1 DEF Busy
<1> QED
  BY <1>1, <1>2, Steps DEF Onward

\* The task that a step leaves in its slot.
LEMMA Left ==
  ASSUME TypeOK, NEW t \in Slots
  PROVE  /\ Advance(t) => task'[t] = Stepped(t)
         /\ Finish(t) => task'[t] = Idle
         /\ \A us : AdvanceOver(t, us) =>
                /\ task'[t] = Stepped(t)
                /\ \A x \in Slots \ {t} : task[x].op = "join" /\ task[x].who \in us => task'[x].late
<1>1. task \in [Slots -> Tasks]
  BY DEF TypeOK
<1>2. (Advance(t) => task'[t] = Stepped(t)) /\ (Finish(t) => task'[t] = Idle)
  BY <1>1 DEF Advance, Finish
<1>3. ASSUME NEW us, AdvanceOver(t, us), NEW x \in Slots \ {t}, task[x].op = "join", task[x].who \in us
      PROVE  task'[x].late
  <2>1. task'[x] = [task[x] EXCEPT !.late = TRUE]
    BY <1>3 DEF AdvanceOver
  <2> QED
    BY <1>1, <2>1 DEF Tasks
<1>4. \A us : AdvanceOver(t, us) => task'[t] = Stepped(t)
  BY DEF AdvanceOver
<1> QED
  BY <1>2, <1>3, <1>4

\* A request is at its first command, and the others are where they were.
LEMMA Asked ==
  ASSUME TypeOK, NEW t \in Slots, Asks(t)
  PROVE  /\ task[t].op = "idle" /\ task'[t].step = 1 /\ ~task'[t].late
         /\ \A x \in Slots \ {t} : task'[x] = task[x]
<1>1. task \in [Slots -> Tasks]
  BY DEF TypeOK
<1>2. PICK k \in Tasks : k.step = 1 /\ ~k.late /\ task' = [task EXCEPT ![t] = k]
  BY DEF Asks
<1>3. task'[t] = k
  BY <1>1, <1>2
<1> QED
  BY <1>1, <1>2, <1>3 DEF Asks, Busy

\* The handler that lets the host watch has the list still to send.
LEMMA WatchesOn ==
  ASSUME TypeOK, Shaped, NEW t \in Slots, task[t].op = "watch", task[t].step = 1
  PROVE  Stepped(t).op = "watch"
<1>1. Len(Script[task[t].op]) = 2
  BY Lines
<1>2. task[t].step # Len(Script[task[t].op])
  <2>1. 1 # 2
    OBVIOUS
  <2> QED
    BY <1>1, <2>1
<1> QED
  BY <1>2, Steps DEF Busy

\* Only the welcomed come past the waiting room.
LEMMA StrangersStay == TypeOK /\ Shaped /\ Strangers /\ [Meets]_vars => Strangers'
<1> SUFFICES ASSUME TypeOK, Shaped, Strangers, [Meets]_vars PROVE Strangers'
  OBVIOUS
<1>0. /\ \A x \in Slots : task[x].op # "idle" => task[x].op \in Ops /\ task[x].step \in 1 .. 8
      /\ Idle.op = "idle" /\ task \in [Slots -> Tasks]
  BY Idling DEF TypeOK, Tasks
<1>1. ASSUME NEW t \in Slots, Step(t) PROVE Strangers'
  <2>a. /\ \A x \in Slots \ {t} : Alike(x)
        /\ Onward(t) \/ task'[t] = Idle
    BY <1>1, Turns DEF Turn
  <2>1. CASE ReadRow(t)
    <3>1. task[t].step = 1
      BY <2>1, Now DEF ReadRow
    <3>2. admitted' = admitted /\ welcomed' = welcomed /\ gated' = gated /\ pass' = pass
      BY <2>1 DEF ReadRow, rowVars, redisVars, sfuVars, clientVars, socketVars, pastVars
    <3>3. task'[t].step \in {1, 2}
      <4>1. task'[t] = Idle \/ task'[t].step = 2
        BY <2>a, <3>1 DEF Onward
      <4> QED
        BY <4>1 DEF Idle
    <3> QED
      BY <1>0, <2>a, <3>1, <3>2, <3>3 DEF Alike, Onward, Strangers, NoStranger, In
  <2>2. CASE CheckDenied(t)
    BY <1>0, <2>a, <2>2, Now DEF CheckDenied, Alike, Onward, Strangers, NoStranger, In, rowVars, redisVars, sfuVars, clientVars, socketVars, pastVars
  <2>3. CASE CheckAdmitted(t)
    <3>1. In(task[t], "join", {3}) /\ UNCHANGED <<admitted, welcomed, gated, pass>>
      BY <2>3, Now DEF CheckAdmitted, rowVars, redisVars, sfuVars, clientVars, socketVars, pastVars
    <3>2. task'[t] = Idle \/ (gated => task[t].who = Host \/ task[t].who \in admitted)
      BY <1>1, <2>3, Left DEF CheckAdmitted, Proceed
    <3> QED
      BY <1>0, <2>a, <3>1, <3>2, HostAssumption DEF Alike, Onward, Strangers, NoStranger, In
  <2>4. CASE JoinLive(t)
    BY <1>0, <2>a, <2>4, Now DEF JoinLive, Alike, Onward, Strangers, NoStranger, In, rowVars, redisVars, sfuVars, clientVars, socketVars, pastVars
  <2>5. CASE JoinLedger(t)
    BY <1>0, <2>a, <2>5, Now DEF JoinLedger, Alike, Onward, Strangers, NoStranger, In, rowVars, redisVars, sfuVars, clientVars, socketVars, pastVars
  <2>6. CASE JoinSeat(t)
    BY <1>0, <2>a, <2>6, Now DEF JoinSeat, Stray, Alike, Onward, Strangers, NoStranger, In, rowVars, redisVars, sfuVars, clientVars, socketVars, pastVars
  <2>7. CASE JoinToken(t)
    BY <1>0, <2>a, <2>7, Now DEF JoinToken, Stray, Alike, Onward, Strangers, NoStranger, In, rowVars, redisVars, sfuVars, clientVars, socketVars, pastVars
  <2>8. CASE EndRoom(t)
    <3>1. task[t].op \notin {"idle", "join", "remove"} \cup LobbyOps
      BY <2>8, Staff DEF EndRoom
    <3>2. admitted' = admitted /\ welcomed' = welcomed /\ gated' = gated /\ pass' \subseteq
          pass
      BY <2>8 DEF EndRoom, EmptyRoom, Hooked, rowVars, redisVars, sfuVars, clientVars, socketVars, pastVars
    <3> QED
      BY <1>0, <2>a, <3>1, <3>2 DEF Alike, Onward, LobbyOps, Strangers, NoStranger, In
  <2>9. CASE ReadCount(t)
    <3>1. task[t].op \notin {"idle", "join", "remove"} \cup LobbyOps
      BY <2>9, Staff DEF ReadCount
    <3>2. admitted' = admitted /\ welcomed' = welcomed /\ gated' = gated /\ pass' = pass
      BY <2>9 DEF ReadCount, rowVars, redisVars, sfuVars, clientVars, socketVars, pastVars
    <3> QED
      BY <1>0, <2>a, <3>1, <3>2 DEF Alike, Onward, LobbyOps, Strangers, NoStranger, In
  <2>10. CASE ClearRoom(t)
    <3>1. task[t].op \notin {"idle", "join", "remove"} \cup LobbyOps
      BY <2>10, Staff DEF ClearRoom
    <3>2. admitted' \in {admitted, {}} /\ welcomed' = welcomed /\ gated' = gated /\ pass' =
          pass
      BY <2>10 DEF ClearRoom, rowVars, redisVars, sfuVars, clientVars, socketVars, pastVars
    <3> QED
      BY <1>0, <2>a, <3>1, <3>2 DEF Alike, Onward, LobbyOps, Strangers, NoStranger, In
  <2>11. CASE StopMeeting(t)
    <3>1. task[t].op \notin {"idle", "join", "remove"} \cup LobbyOps
      BY <2>11, Staff DEF StopMeeting
    <3>2. admitted' = admitted /\ welcomed' = welcomed /\ gated' = gated /\ pass' = pass
      BY <2>11 DEF StopMeeting, Verdict, rowVars, redisVars, sfuVars, clientVars, socketVars, pastVars
    <3> QED
      BY <1>0, <2>a, <3>1, <3>2 DEF Alike, Onward, LobbyOps, Strangers, NoStranger, In
  <2>12. CASE SyncRow(t)
    <3>1. task[t].op \notin {"idle", "join", "remove"} \cup LobbyOps
      BY <2>12, Staff DEF SyncRow
    <3>2. admitted' = admitted /\ welcomed' = welcomed /\ gated' = gated /\ pass' = pass
      BY <2>12 DEF SyncRow, rowVars, redisVars, sfuVars, clientVars, socketVars, pastVars
    <3> QED
      BY <1>0, <2>a, <3>1, <3>2 DEF Alike, Onward, LobbyOps, Strangers, NoStranger, In
  <2>13. CASE Kick(t)
    BY <1>0, <2>a, <2>13, Now DEF Kick, Hooked, Alike, Onward, Strangers, NoStranger, In, rowVars, redisVars, sfuVars, clientVars, socketVars, pastVars
  <2>14. CASE Unseat(t)
    BY <1>0, <2>a, <2>14, Now DEF Unseat, Alike, Onward, Strangers, NoStranger, In, rowVars, redisVars, sfuVars, clientVars, socketVars, pastVars
  <2>15. CASE Bar(t)
    BY <1>0, <2>a, <2>15, Now DEF Bar, Stray, Alike, Onward, Strangers, NoStranger, In, rowVars, redisVars, sfuVars, clientVars, socketVars, pastVars
  <2>16. CASE Disown(t)
    BY <1>0, <2>a, <2>16, Now DEF Disown, Alike, Onward, Strangers, NoStranger, In, rowVars, redisVars, sfuVars, clientVars, socketVars, pastVars
  <2>17. CASE Unlist(t)
    BY <1>0, <2>a, <2>17, Now DEF Unlist, Alike, Onward, Strangers, NoStranger, In, rowVars, redisVars, sfuVars, clientVars, socketVars, pastVars
  <2>18. CASE Enlist(t)
    BY <1>0, <2>a, <2>18, Now DEF Enlist, Stray, Alike, Onward, Strangers, NoStranger, In, rowVars, redisVars, sfuVars, clientVars, socketVars, pastVars
  <2>19. CASE CheckListed(t)
    BY <1>0, <2>a, <2>19, Now DEF CheckListed, Alike, Onward, Strangers, NoStranger, In, rowVars, redisVars, sfuVars, clientVars, socketVars, pastVars
  <2>20. CASE Welcome(t)
    BY <1>0, <2>a, <2>20, Now DEF Welcome, Stray, Alike, Onward, Strangers, NoStranger, In, rowVars, redisVars, sfuVars, clientVars, socketVars, pastVars
  <2>21. CASE Unbar(t)
    BY <1>0, <2>a, <2>21, Now DEF Unbar, Alike, Onward, Strangers, NoStranger, In, rowVars, redisVars, sfuVars, clientVars, socketVars, pastVars
  <2>22. CASE Show(t)
    BY <1>0, <2>a, <2>22, Now DEF Show, SentToAll, Alike, Onward, Strangers, NoStranger, In, rowVars, redisVars, sfuVars, clientVars, socketVars, pastVars
  <2>23. CASE Look(t)
    BY <1>0, <2>a, <2>23, Now DEF Look, Alike, Onward, Strangers, NoStranger, In, rowVars, redisVars, sfuVars, clientVars, socketVars, pastVars
  <2> QED
    BY <1>1, <2>1, <2>2, <2>3, <2>4, <2>5, <2>6, <2>7, <2>8, <2>9, <2>10, <2>11, <2>12, <2>13, <2>14, <2>15, <2>16, <2>17, <2>18, <2>19, <2>20, <2>21, <2>22, <2>23 DEF Step, RoomStep, LobbyStep
<1>2. CASE Calm /\ (UNCHANGED task \/ \E t \in Slots : Asks(t))
  <2>1. CASE UNCHANGED task
    BY <1>2, <2>1 DEF Calm, Strangers, NoStranger, In, rowVars, redisVars, sfuVars, clientVars, socketVars, pastVars
  <2>2. ASSUME NEW t \in Slots, Asks(t) PROVE Strangers'
    <3>1. /\ task[t].op = "idle" /\ task'[t].step = 1 /\ ~task'[t].late
          /\ \A x \in Slots \ {t} : task'[x] = task[x]
      BY <2>2, Asked
    <3> QED
      BY <1>2, <3>1 DEF Calm, Strangers, NoStranger, In, rowVars, redisVars, sfuVars, clientVars, socketVars, pastVars
  <2> QED
    BY <1>2, <2>1, <2>2
<1>3. ASSUME NEW u \in Users, Connect(u) PROVE Strangers'
  BY <1>0, <1>3 DEF Connect, Hooked, Stray, Strangers, NoStranger, In, rowVars, redisVars, sfuVars, clientVars, socketVars, pastVars
<1>4. ASSUME NEW u \in Users, Leave(u) PROVE Strangers'
  BY <1>0, <1>4 DEF Leave, Hooked, Strangers, NoStranger, In, rowVars, redisVars, sfuVars, clientVars, socketVars, pastVars
<1>5. CASE Vanish
  BY <1>0, <1>5 DEF Vanish, EmptyRoom, Hooked, Strangers, NoStranger, In, rowVars, redisVars, sfuVars, clientVars, socketVars, pastVars
<1>6. CASE Age
  BY <1>0, <1>6 DEF Age, Strangers, NoStranger, In, rowVars, redisVars, sfuVars, clientVars, socketVars, pastVars
<1>7. CASE Expire
  BY <1>0, <1>7 DEF Expire, Strangers, NoStranger, In, rowVars, redisVars, sfuVars, clientVars, socketVars, pastVars
<1>8. CASE UNCHANGED vars
  BY <1>0, <1>8 DEF vars, Strangers, NoStranger, In, rowVars, redisVars, sfuVars, clientVars, socketVars, pastVars
<1> QED
  BY <1>1, <1>2, <1>3, <1>4, <1>5, <1>6, <1>7, <1>8 DEF Meets


\* A new name on the list has a broadcast behind it.
LEMMA UnseenStays == TypeOK /\ Shaped /\ Unseen /\ [Meets]_vars => Unseen'
<1> SUFFICES ASSUME TypeOK, Shaped, Unseen, [Meets]_vars PROVE Unseen'
  OBVIOUS
<1>0. /\ \A x \in Slots : task[x].op # "idle" => task[x].op \in Ops /\ task[x].step \in 1 .. 8
      /\ Idle.op = "idle" /\ task \in [Slots -> Tasks]
  BY Idling DEF TypeOK, Tasks
<1>1. ASSUME NEW t \in Slots, Step(t) PROVE Unseen'
  <2>a. /\ \A x \in Slots \ {t} : Alike(x)
        /\ Onward(t) \/ task'[t] = Idle
    BY <1>1, Turns DEF Turn
  <2>1. CASE ReadRow(t)
    <3>1. task[t].step = 1 /\ task[t].op # "withdraw" /\ UNCHANGED <<waiting, tray>>
      BY <2>1, Now DEF ReadRow, rowVars, redisVars, sfuVars, clientVars, socketVars, pastVars
    <3>2. CASE watching' = watching
      <4>1. task'[t] = Idle \/ task'[t].step = 2
        BY <2>a, <3>1 DEF Onward
      <4> QED
        BY <1>0, <2>a, <3>1, <3>2, <4>1 DEF Alike, Onward, Unseen, Showing, In
    <3>3. CASE task[t].op = "watch" /\ Allowed("watch")
      <4>1. task' = [task EXCEPT ![t] = Noted(t)]
        BY <2>1, <3>3 DEF ReadRow, Noted
      <4>2. Onward(t)
        <5>1. Stepped(t).op = "watch"
          BY <1>1, <3>1, <3>3, WatchesOn
        <5>2. Stepped(t) \in Tasks
          BY <1>1, <3>3, Steps DEF Busy
        <5>3. task'[t].op = "watch"
          <6>1. task'[t] = Noted(t)
            BY <1>0, <1>1, <4>1
          <6> QED
            BY <5>1, <5>2, <6>1 DEF Tasks, Noted
        <5> QED
          BY <2>a, <5>3, Idling
      <4> QED
        BY <1>1, <3>1, <3>3, <4>2 DEF Onward, Unseen, Showing, In
    <3> QED
      BY <1>0, <2>1, <3>2, <3>3 DEF ReadRow, TypeOK
  <2>2. CASE CheckDenied(t)
    BY <1>0, <2>a, <2>2, Now DEF CheckDenied, Alike, Onward, Unseen, Showing, In, rowVars, redisVars, sfuVars, clientVars, socketVars, pastVars
  <2>3. CASE CheckAdmitted(t)
    BY <1>0, <2>a, <2>3, Now DEF CheckAdmitted, Alike, Onward, Unseen, Showing, In, rowVars, redisVars, sfuVars, clientVars, socketVars, pastVars
  <2>4. CASE JoinLive(t)
    BY <1>0, <2>a, <2>4, Now DEF JoinLive, Alike, Onward, Unseen, Showing, In, rowVars, redisVars, sfuVars, clientVars, socketVars, pastVars
  <2>5. CASE JoinLedger(t)
    BY <1>0, <2>a, <2>5, Now DEF JoinLedger, Alike, Onward, Unseen, Showing, In, rowVars, redisVars, sfuVars, clientVars, socketVars, pastVars
  <2>6. CASE JoinSeat(t)
    BY <1>0, <2>a, <2>6, Now DEF JoinSeat, Stray, Alike, Onward, Unseen, Showing, In, rowVars, redisVars, sfuVars, clientVars, socketVars, pastVars
  <2>7. CASE JoinToken(t)
    BY <1>0, <2>a, <2>7, Now DEF JoinToken, Stray, Alike, Onward, Unseen, Showing, In, rowVars, redisVars, sfuVars, clientVars, socketVars, pastVars
  <2>8. CASE EndRoom(t)
    <3>1. task[t].op \notin {"idle", "join", "remove"} \cup LobbyOps
      BY <2>8, Staff DEF EndRoom
    <3>2. waiting' = waiting /\ tray' = tray /\ watching' = watching
      BY <2>8 DEF EndRoom, EmptyRoom, Hooked, rowVars, redisVars, sfuVars, clientVars, socketVars, pastVars
    <3> QED
      BY <1>0, <2>a, <3>1, <3>2 DEF Alike, Onward, LobbyOps, Unseen, Showing, In
  <2>9. CASE ReadCount(t)
    <3>1. task[t].op \notin {"idle", "join", "remove"} \cup LobbyOps
      BY <2>9, Staff DEF ReadCount
    <3>2. waiting' = waiting /\ tray' = tray /\ watching' = watching
      BY <2>9 DEF ReadCount, rowVars, redisVars, sfuVars, clientVars, socketVars, pastVars
    <3> QED
      BY <1>0, <2>a, <3>1, <3>2 DEF Alike, Onward, LobbyOps, Unseen, Showing, In
  <2>10. CASE ClearRoom(t)
    <3>1. task[t].op \notin {"idle", "join", "remove"} \cup LobbyOps
      BY <2>10, Staff DEF ClearRoom
    <3>2. waiting' \in {waiting, {}} /\ tray' = tray /\ watching' = watching
      BY <2>10 DEF ClearRoom, rowVars, redisVars, sfuVars, clientVars, socketVars, pastVars
    <3> QED
      BY <1>0, <2>a, <3>1, <3>2 DEF Alike, Onward, LobbyOps, Unseen, Showing, In
  <2>11. CASE StopMeeting(t)
    <3>1. task[t].op \notin {"idle", "join", "remove"} \cup LobbyOps
      BY <2>11, Staff DEF StopMeeting
    <3>2. waiting' = waiting /\ tray' = tray /\ watching' = watching
      BY <2>11 DEF StopMeeting, Verdict, rowVars, redisVars, sfuVars, clientVars, socketVars, pastVars
    <3> QED
      BY <1>0, <2>a, <3>1, <3>2 DEF Alike, Onward, LobbyOps, Unseen, Showing, In
  <2>12. CASE SyncRow(t)
    <3>1. task[t].op \notin {"idle", "join", "remove"} \cup LobbyOps
      BY <2>12, Staff DEF SyncRow
    <3>2. waiting' = waiting /\ tray' = tray /\ watching' = watching
      BY <2>12 DEF SyncRow, rowVars, redisVars, sfuVars, clientVars, socketVars, pastVars
    <3> QED
      BY <1>0, <2>a, <3>1, <3>2 DEF Alike, Onward, LobbyOps, Unseen, Showing, In
  <2>13. CASE Kick(t)
    BY <1>0, <2>a, <2>13, Now DEF Kick, Hooked, Alike, Onward, Unseen, Showing, In, rowVars, redisVars, sfuVars, clientVars, socketVars, pastVars
  <2>14. CASE Unseat(t)
    BY <1>0, <2>a, <2>14, Now DEF Unseat, Alike, Onward, Unseen, Showing, In, rowVars, redisVars, sfuVars, clientVars, socketVars, pastVars
  <2>15. CASE Bar(t)
    BY <1>0, <2>a, <2>15, Now DEF Bar, Stray, Alike, Onward, Unseen, Showing, In, rowVars, redisVars, sfuVars, clientVars, socketVars, pastVars
  <2>16. CASE Disown(t)
    BY <1>0, <2>a, <2>16, Now DEF Disown, Alike, Onward, Unseen, Showing, In, rowVars, redisVars, sfuVars, clientVars, socketVars, pastVars
  <2>17. CASE Unlist(t)
    BY <1>0, <2>a, <2>17, Now DEF Unlist, Alike, Onward, Unseen, Showing, In, rowVars, redisVars, sfuVars, clientVars, socketVars, pastVars
  <2>18. CASE Enlist(t)
    <3>1. In(task[t], "knock", {2}) /\ Onward(t)
      BY <1>1, <2>18, Now, Left, GoesOn DEF Enlist, In
    <3> QED
      BY <1>1, <3>1 DEF Onward, Unseen, Showing, In
  <2>19. CASE CheckListed(t)
    BY <1>0, <2>a, <2>19, Now DEF CheckListed, Alike, Onward, Unseen, Showing, In, rowVars, redisVars, sfuVars, clientVars, socketVars, pastVars
  <2>20. CASE Welcome(t)
    BY <1>0, <2>a, <2>20, Now DEF Welcome, Stray, Alike, Onward, Unseen, Showing, In, rowVars, redisVars, sfuVars, clientVars, socketVars, pastVars
  <2>21. CASE Unbar(t)
    BY <1>0, <2>a, <2>21, Now DEF Unbar, Alike, Onward, Unseen, Showing, In, rowVars, redisVars, sfuVars, clientVars, socketVars, pastVars
  <2>22. CASE Show(t)
    BY <1>0, <2>a, <2>22, Now DEF Show, SentToAll, Alike, Onward, Unseen, Showing, In, rowVars, redisVars, sfuVars, clientVars, socketVars, pastVars
  <2>23. CASE Look(t)
    BY <1>0, <2>a, <2>23, Now DEF Look, Alike, Onward, Unseen, Showing, In, rowVars, redisVars, sfuVars, clientVars, socketVars, pastVars
  <2> QED
    BY <1>1, <2>1, <2>2, <2>3, <2>4, <2>5, <2>6, <2>7, <2>8, <2>9, <2>10, <2>11, <2>12, <2>13, <2>14, <2>15, <2>16, <2>17, <2>18, <2>19, <2>20, <2>21, <2>22, <2>23 DEF Step, RoomStep, LobbyStep
<1>2. CASE Calm /\ (UNCHANGED task \/ \E t \in Slots : Asks(t))
  <2>1. CASE UNCHANGED task
    BY <1>2, <2>1 DEF Calm, Unseen, Showing, In, rowVars, redisVars, sfuVars, clientVars, socketVars, pastVars
  <2>2. ASSUME NEW t \in Slots, Asks(t) PROVE Unseen'
    <3>1. /\ task[t].op = "idle" /\ task'[t].step = 1 /\ ~task'[t].late
          /\ \A x \in Slots \ {t} : task'[x] = task[x]
      BY <2>2, Asked
    <3> QED
      BY <1>2, <3>1 DEF Calm, Unseen, Showing, In, rowVars, redisVars, sfuVars, clientVars, socketVars, pastVars
  <2> QED
    BY <1>2, <2>1, <2>2
<1>3. ASSUME NEW u \in Users, Connect(u) PROVE Unseen'
  BY <1>0, <1>3 DEF Connect, Hooked, Stray, Unseen, Showing, In, rowVars, redisVars, sfuVars, clientVars, socketVars, pastVars
<1>4. ASSUME NEW u \in Users, Leave(u) PROVE Unseen'
  BY <1>0, <1>4 DEF Leave, Hooked, Unseen, Showing, In, rowVars, redisVars, sfuVars, clientVars, socketVars, pastVars
<1>5. CASE Vanish
  BY <1>0, <1>5 DEF Vanish, EmptyRoom, Hooked, Unseen, Showing, In, rowVars, redisVars, sfuVars, clientVars, socketVars, pastVars
<1>6. CASE Age
  BY <1>0, <1>6 DEF Age, Unseen, Showing, In, rowVars, redisVars, sfuVars, clientVars, socketVars, pastVars
<1>7. CASE Expire
  BY <1>0, <1>7 DEF Expire, Unseen, Showing, In, rowVars, redisVars, sfuVars, clientVars, socketVars, pastVars
<1>8. CASE UNCHANGED vars
  BY <1>0, <1>8 DEF vars, Unseen, Showing, In, rowVars, redisVars, sfuVars, clientVars, socketVars, pastVars
<1> QED
  BY <1>1, <1>2, <1>3, <1>4, <1>5, <1>6, <1>7, <1>8 DEF Meets


\* The blocklist is ahead of the tokens.
LEMMA KicksStay == TypeOK /\ Shaped /\ Kicks /\ [Meets]_vars => Kicks'
<1> SUFFICES ASSUME TypeOK, Shaped, Kicks, [Meets]_vars PROVE Kicks'
  OBVIOUS
<1>0. /\ \A x \in Slots : task[x].op # "idle" => task[x].op \in Ops /\ task[x].step \in 1 .. 8
      /\ Idle.op = "idle" /\ task \in [Slots -> Tasks]
  BY Idling DEF TypeOK, Tasks
<1>1. ASSUME NEW t \in Slots, Step(t) PROVE Kicks'
  <2>a. /\ \A x \in Slots \ {t} : Alike(x)
        /\ Onward(t) \/ task'[t] = Idle
    BY <1>1, Turns DEF Turn
  <2>1. CASE ReadRow(t)
    <3>1. task[t].step = 1
      BY <2>1, Now DEF ReadRow
    <3>2. denied' = denied /\ pass' = pass /\ Excused' = Excused
      BY <2>1 DEF ReadRow, rowVars, redisVars, sfuVars, clientVars, socketVars, pastVars, Excused
    <3>3. task'[t].step \in {1, 2}
      <4>1. task'[t] = Idle \/ task'[t].step = 2
        BY <2>a, <3>1 DEF Onward
      <4> QED
        BY <4>1 DEF Idle
    <3> QED
      BY <1>0, <2>a, <3>1, <3>2, <3>3 DEF Alike, Onward, Kicks, In
  <2>2. CASE CheckDenied(t)
    <3>1. In(task[t], "join", {2}) /\ denied' = denied /\ pass' = pass /\ Excused' = Excused
      BY <2>2, Now DEF CheckDenied, rowVars, redisVars, sfuVars, clientVars, socketVars, pastVars, Excused
    <3>2. task'[t] = Idle \/ task[t].who = Host \/ task[t].who \notin denied
      BY <1>1, <2>2, Left DEF CheckDenied, Proceed
    <3>3. Host \notin denied
      BY HostAssumption DEF TypeOK
    <3> QED
      BY <1>0, <2>a, <3>1, <3>2, <3>3 DEF Alike, Onward, Kicks, In
  <2>3. CASE CheckAdmitted(t)
    BY <1>0, <2>a, <2>3, Now DEF CheckAdmitted, Alike, Onward, Kicks, In, rowVars, redisVars, sfuVars, clientVars, socketVars, pastVars, Excused
  <2>4. CASE JoinLive(t)
    BY <1>0, <2>a, <2>4, Now DEF JoinLive, Alike, Onward, Kicks, In, rowVars, redisVars, sfuVars, clientVars, socketVars, pastVars, Excused
  <2>5. CASE JoinLedger(t)
    BY <1>0, <2>a, <2>5, Now DEF JoinLedger, Alike, Onward, Kicks, In, rowVars, redisVars, sfuVars, clientVars, socketVars, pastVars, Excused
  <2>6. CASE JoinSeat(t)
    BY <1>0, <2>a, <2>6, Now DEF JoinSeat, Stray, Alike, Onward, Kicks, In, rowVars, redisVars, sfuVars, clientVars, socketVars, pastVars, Excused
  <2>7. CASE JoinToken(t)
    BY <1>0, <2>a, <2>7, Now DEF JoinToken, Stray, Alike, Onward, Kicks, In, rowVars, redisVars, sfuVars, clientVars, socketVars, pastVars, Excused
  <2>8. CASE EndRoom(t)
    <3>1. task[t].op \notin {"idle", "join", "remove"} \cup LobbyOps
      BY <2>8, Staff DEF EndRoom
    <3>2. denied' = denied /\ pass' \subseteq pass /\ Excused \cap pass' \subseteq Excused'
      BY <2>8 DEF EndRoom, EmptyRoom, Parted, Hooked, rowVars, redisVars, sfuVars, clientVars, socketVars, pastVars, Excused
    <3> QED
      BY <1>0, <2>a, <3>1, <3>2 DEF Alike, Onward, LobbyOps, Kicks, In
  <2>9. CASE ReadCount(t)
    <3>1. task[t].op \notin {"idle", "join", "remove"} \cup LobbyOps
      BY <2>9, Staff DEF ReadCount
    <3>2. denied' = denied /\ pass' = pass /\ Excused' = Excused
      BY <2>9 DEF ReadCount, rowVars, redisVars, sfuVars, clientVars, socketVars, pastVars, Excused
    <3> QED
      BY <1>0, <2>a, <3>1, <3>2 DEF Alike, Onward, LobbyOps, Kicks, In
  <2>10. CASE ClearRoom(t)
    <3>1. task[t].op \notin {"idle", "join", "remove"} \cup LobbyOps
      BY <2>10, Staff DEF ClearRoom
    <3>2. denied' \in {denied, {}} /\ pass' = pass /\ Excused' = Excused
      BY <2>10 DEF ClearRoom, rowVars, redisVars, sfuVars, clientVars, socketVars, pastVars, Excused
    <3> QED
      BY <1>0, <2>a, <3>1, <3>2 DEF Alike, Onward, LobbyOps, Kicks, In
  <2>11. CASE StopMeeting(t)
    <3>1. task[t].op \notin {"idle", "join", "remove"} \cup LobbyOps
      BY <2>11, Staff DEF StopMeeting
    <3>2. denied' = denied /\ pass' = pass /\ Excused' = Excused
      BY <2>11 DEF StopMeeting, Verdict, rowVars, redisVars, sfuVars, clientVars, socketVars, pastVars, Excused
    <3> QED
      BY <1>0, <2>a, <3>1, <3>2 DEF Alike, Onward, LobbyOps, Kicks, In
  <2>12. CASE SyncRow(t)
    <3>1. task[t].op \notin {"idle", "join", "remove"} \cup LobbyOps
      BY <2>12, Staff DEF SyncRow
    <3>2. denied' = denied /\ pass' = pass /\ Excused' = Excused
      BY <2>12 DEF SyncRow, rowVars, redisVars, sfuVars, clientVars, socketVars, pastVars, Excused
    <3> QED
      BY <1>0, <2>a, <3>1, <3>2 DEF Alike, Onward, LobbyOps, Kicks, In
  <2>13. CASE Kick(t)
    BY <1>0, <2>a, <2>13, Now DEF Kick, Parted, Hooked, Alike, Onward, Kicks, In, rowVars, redisVars, sfuVars, clientVars, socketVars, pastVars, Excused
  <2>14. CASE Unseat(t)
    BY <1>0, <2>a, <2>14, Now DEF Unseat, Alike, Onward, Kicks, In, rowVars, redisVars, sfuVars, clientVars, socketVars, pastVars, Excused
  <2>15. CASE Bar(t)
    <3>1. /\ In(task[t], "remove", {4}) /\ denied' = denied \cup {task[t].who} /\ pass' = pass /\ Excused' = Excused
          /\ \A x \in Slots \ {t} : task[x].op = "join" /\ task[x].who = task[t].who => task'[x].late
      BY <1>1, <2>15, Now, Left DEF Bar, rowVars, redisVars, sfuVars, clientVars, socketVars, pastVars, Excused
    <3> QED
      BY <1>0, <1>1, <2>a, <3>1 DEF Alike, Onward, Kicks, In
  <2>16. CASE Disown(t)
    BY <1>0, <2>a, <2>16, Now DEF Disown, Alike, Onward, Kicks, In, rowVars, redisVars, sfuVars, clientVars, socketVars, pastVars, Excused
  <2>17. CASE Unlist(t)
    BY <1>0, <2>a, <2>17, Now DEF Unlist, Alike, Onward, Kicks, In, rowVars, redisVars, sfuVars, clientVars, socketVars, pastVars, Excused
  <2>18. CASE Enlist(t)
    BY <1>0, <2>a, <2>18, Now DEF Enlist, Stray, Alike, Onward, Kicks, In, rowVars, redisVars, sfuVars, clientVars, socketVars, pastVars, Excused
  <2>19. CASE CheckListed(t)
    BY <1>0, <2>a, <2>19, Now DEF CheckListed, Alike, Onward, Kicks, In, rowVars, redisVars, sfuVars, clientVars, socketVars, pastVars, Excused
  <2>20. CASE Welcome(t)
    BY <1>0, <2>a, <2>20, Now DEF Welcome, Stray, Alike, Onward, Kicks, In, rowVars, redisVars, sfuVars, clientVars, socketVars, pastVars, Excused
  <2>21. CASE Unbar(t)
    BY <1>0, <2>a, <2>21, Now DEF Unbar, Alike, Onward, Kicks, In, rowVars, redisVars, sfuVars, clientVars, socketVars, pastVars, Excused
  <2>22. CASE Show(t)
    BY <1>0, <2>a, <2>22, Now DEF Show, SentToAll, Alike, Onward, Kicks, In, rowVars, redisVars, sfuVars, clientVars, socketVars, pastVars, Excused
  <2>23. CASE Look(t)
    BY <1>0, <2>a, <2>23, Now DEF Look, Alike, Onward, Kicks, In, rowVars, redisVars, sfuVars, clientVars, socketVars, pastVars, Excused
  <2> QED
    BY <1>1, <2>1, <2>2, <2>3, <2>4, <2>5, <2>6, <2>7, <2>8, <2>9, <2>10, <2>11, <2>12, <2>13, <2>14, <2>15, <2>16, <2>17, <2>18, <2>19, <2>20, <2>21, <2>22, <2>23 DEF Step, RoomStep, LobbyStep
<1>2. CASE Calm /\ (UNCHANGED task \/ \E t \in Slots : Asks(t))
  <2>1. CASE UNCHANGED task
    BY <1>2, <2>1 DEF Calm, Kicks, In, rowVars, redisVars, sfuVars, clientVars, socketVars, pastVars, Excused
  <2>2. ASSUME NEW t \in Slots, Asks(t) PROVE Kicks'
    <3>1. /\ task[t].op = "idle" /\ task'[t].step = 1 /\ ~task'[t].late
          /\ \A x \in Slots \ {t} : task'[x] = task[x]
      BY <2>2, Asked
    <3> QED
      BY <1>2, <3>1 DEF Calm, Kicks, In, rowVars, redisVars, sfuVars, clientVars, socketVars, pastVars, Excused
  <2> QED
    BY <1>2, <2>1, <2>2
<1>3. ASSUME NEW u \in Users, Connect(u) PROVE Kicks'
  BY <1>0, <1>3 DEF Connect, Hooked, Stray, Kicks, In, rowVars, redisVars, sfuVars, clientVars, socketVars, pastVars, Excused
<1>4. ASSUME NEW u \in Users, Leave(u) PROVE Kicks'
  BY <1>0, <1>4 DEF Leave, Parted, Hooked, Kicks, In, rowVars, redisVars, sfuVars, clientVars, socketVars, pastVars, Excused
<1>5. CASE Vanish
  BY <1>0, <1>5 DEF Vanish, EmptyRoom, Hooked, Kicks, In, rowVars, redisVars, sfuVars, clientVars, socketVars, pastVars, Excused
<1>6. CASE Age
  BY <1>0, <1>6 DEF Age, Kicks, In, rowVars, redisVars, sfuVars, clientVars, socketVars, pastVars, Excused
<1>7. CASE Expire
  BY <1>0, <1>7 DEF Expire, Kicks, In, rowVars, redisVars, sfuVars, clientVars, socketVars, pastVars, Excused
<1>8. CASE UNCHANGED vars
  BY <1>0, <1>8 DEF vars, Kicks, In, rowVars, redisVars, sfuVars, clientVars, socketVars, pastVars, Excused
<1> QED
  BY <1>1, <1>2, <1>3, <1>4, <1>5, <1>6, <1>7, <1>8 DEF Meets


\* Both decisions stand only while one is being undone.
LEMMA DecisionsStay == TypeOK /\ Shaped /\ Decisions /\ [Meets]_vars => Decisions'
<1> SUFFICES ASSUME TypeOK, Shaped, Decisions, [Meets]_vars PROVE Decisions'
  OBVIOUS
<1>0. /\ \A x \in Slots : task[x].op # "idle" => task[x].op \in Ops /\ task[x].step \in 1 .. 8
      /\ Idle.op = "idle" /\ task \in [Slots -> Tasks]
  BY Idling DEF TypeOK, Tasks
<1>1. ASSUME NEW t \in Slots, Step(t) PROVE Decisions'
  <2>a. /\ \A x \in Slots \ {t} : Alike(x)
        /\ Onward(t) \/ task'[t] = Idle
    BY <1>1, Turns DEF Turn
  <2>1. CASE ReadRow(t)
    <3>1. task[t].step = 1
      BY <2>1, Now DEF ReadRow
    <3>2. admitted' = admitted /\ denied' = denied
      BY <2>1 DEF ReadRow, rowVars, redisVars, sfuVars, clientVars, socketVars, pastVars
    <3>3. task'[t].step \in {1, 2}
      <4>1. task'[t] = Idle \/ task'[t].step = 2
        BY <2>a, <3>1 DEF Onward
      <4> QED
        BY <4>1 DEF Idle
    <3> QED
      BY <1>0, <2>a, <3>1, <3>2, <3>3 DEF Alike, Onward, Decisions, In
  <2>2. CASE CheckDenied(t)
    BY <1>0, <2>a, <2>2, Now DEF CheckDenied, Alike, Onward, Decisions, In, rowVars, redisVars, sfuVars, clientVars, socketVars, pastVars
  <2>3. CASE CheckAdmitted(t)
    BY <1>0, <2>a, <2>3, Now DEF CheckAdmitted, Alike, Onward, Decisions, In, rowVars, redisVars, sfuVars, clientVars, socketVars, pastVars
  <2>4. CASE JoinLive(t)
    BY <1>0, <2>a, <2>4, Now DEF JoinLive, Alike, Onward, Decisions, In, rowVars, redisVars, sfuVars, clientVars, socketVars, pastVars
  <2>5. CASE JoinLedger(t)
    BY <1>0, <2>a, <2>5, Now DEF JoinLedger, Alike, Onward, Decisions, In, rowVars, redisVars, sfuVars, clientVars, socketVars, pastVars
  <2>6. CASE JoinSeat(t)
    BY <1>0, <2>a, <2>6, Now DEF JoinSeat, Stray, Alike, Onward, Decisions, In, rowVars, redisVars, sfuVars, clientVars, socketVars, pastVars
  <2>7. CASE JoinToken(t)
    BY <1>0, <2>a, <2>7, Now DEF JoinToken, Stray, Alike, Onward, Decisions, In, rowVars, redisVars, sfuVars, clientVars, socketVars, pastVars
  <2>8. CASE EndRoom(t)
    <3>1. task[t].op \notin {"idle", "join", "remove"} \cup LobbyOps
      BY <2>8, Staff DEF EndRoom
    <3>2. admitted' = admitted /\ denied' = denied
      BY <2>8 DEF EndRoom, EmptyRoom, Hooked, rowVars, redisVars, sfuVars, clientVars, socketVars, pastVars
    <3> QED
      BY <1>0, <2>a, <3>1, <3>2 DEF Alike, Onward, LobbyOps, Decisions, In
  <2>9. CASE ReadCount(t)
    <3>1. task[t].op \notin {"idle", "join", "remove"} \cup LobbyOps
      BY <2>9, Staff DEF ReadCount
    <3>2. admitted' = admitted /\ denied' = denied
      BY <2>9 DEF ReadCount, rowVars, redisVars, sfuVars, clientVars, socketVars, pastVars
    <3> QED
      BY <1>0, <2>a, <3>1, <3>2 DEF Alike, Onward, LobbyOps, Decisions, In
  <2>10. CASE ClearRoom(t)
    <3>1. task[t].op \notin {"idle", "join", "remove"} \cup LobbyOps
      BY <2>10, Staff DEF ClearRoom
    <3>2. admitted' \in {admitted, {}} /\ denied' \in {denied, {}}
      BY <2>10 DEF ClearRoom, rowVars, redisVars, sfuVars, clientVars, socketVars, pastVars
    <3> QED
      BY <1>0, <2>a, <3>1, <3>2 DEF Alike, Onward, LobbyOps, Decisions, In
  <2>11. CASE StopMeeting(t)
    <3>1. task[t].op \notin {"idle", "join", "remove"} \cup LobbyOps
      BY <2>11, Staff DEF StopMeeting
    <3>2. admitted' = admitted /\ denied' = denied
      BY <2>11 DEF StopMeeting, Verdict, rowVars, redisVars, sfuVars, clientVars, socketVars, pastVars
    <3> QED
      BY <1>0, <2>a, <3>1, <3>2 DEF Alike, Onward, LobbyOps, Decisions, In
  <2>12. CASE SyncRow(t)
    <3>1. task[t].op \notin {"idle", "join", "remove"} \cup LobbyOps
      BY <2>12, Staff DEF SyncRow
    <3>2. admitted' = admitted /\ denied' = denied
      BY <2>12 DEF SyncRow, rowVars, redisVars, sfuVars, clientVars, socketVars, pastVars
    <3> QED
      BY <1>0, <2>a, <3>1, <3>2 DEF Alike, Onward, LobbyOps, Decisions, In
  <2>13. CASE Kick(t)
    BY <1>0, <2>a, <2>13, Now DEF Kick, Hooked, Alike, Onward, Decisions, In, rowVars, redisVars, sfuVars, clientVars, socketVars, pastVars
  <2>14. CASE Unseat(t)
    BY <1>0, <2>a, <2>14, Now DEF Unseat, Alike, Onward, Decisions, In, rowVars, redisVars, sfuVars, clientVars, socketVars, pastVars
  <2>15. CASE Bar(t)
    <3>1. /\ In(task[t], "remove", {4}) /\ Onward(t)
          /\ denied' = denied \cup {task[t].who} /\ admitted' = admitted
      BY <1>1, <2>15, Now, Left, GoesOn DEF Bar, In
    <3> QED
      BY <1>1, <2>a, <3>1 DEF Alike, Onward, Decisions, In
  <2>16. CASE Disown(t)
    BY <1>0, <2>a, <2>16, Now DEF Disown, Alike, Onward, Decisions, In, rowVars, redisVars, sfuVars, clientVars, socketVars, pastVars
  <2>17. CASE Unlist(t)
    <3>1. UNCHANGED <<admitted, denied>>
      BY <2>17 DEF Unlist
    <3>2. ~In(task[t], "remove", {5})
      BY <2>17, Now DEF Unlist, In
    <3>3. In(task[t], "admit", {4, 5}) => In(task[t], "admit", {4}) /\ Onward(t)
      BY <1>1, <2>17, Now, Left, GoesOn DEF Unlist, In
    <3> QED
      BY <1>1, <2>a, <3>1, <3>2, <3>3 DEF Alike, Onward, Decisions, In
  <2>18. CASE Enlist(t)
    BY <1>0, <2>a, <2>18, Now DEF Enlist, Stray, Alike, Onward, Decisions, In, rowVars, redisVars, sfuVars, clientVars, socketVars, pastVars
  <2>19. CASE CheckListed(t)
    BY <1>0, <2>a, <2>19, Now DEF CheckListed, Alike, Onward, Decisions, In, rowVars, redisVars, sfuVars, clientVars, socketVars, pastVars
  <2>20. CASE Welcome(t)
    <3>1. /\ In(task[t], "admit", {3}) /\ Onward(t)
          /\ admitted' = admitted \cup {task[t].who} /\ denied' = denied
      BY <1>1, <2>20, Now, Left, GoesOn DEF Welcome, In
    <3> QED
      BY <1>1, <2>a, <3>1 DEF Alike, Onward, Decisions, In
  <2>21. CASE Unbar(t)
    BY <1>0, <2>a, <2>21, Now DEF Unbar, Alike, Onward, Decisions, In, rowVars, redisVars, sfuVars, clientVars, socketVars, pastVars
  <2>22. CASE Show(t)
    BY <1>0, <2>a, <2>22, Now DEF Show, SentToAll, Alike, Onward, Decisions, In, rowVars, redisVars, sfuVars, clientVars, socketVars, pastVars
  <2>23. CASE Look(t)
    BY <1>0, <2>a, <2>23, Now DEF Look, Alike, Onward, Decisions, In, rowVars, redisVars, sfuVars, clientVars, socketVars, pastVars
  <2> QED
    BY <1>1, <2>1, <2>2, <2>3, <2>4, <2>5, <2>6, <2>7, <2>8, <2>9, <2>10, <2>11, <2>12, <2>13, <2>14, <2>15, <2>16, <2>17, <2>18, <2>19, <2>20, <2>21, <2>22, <2>23 DEF Step, RoomStep, LobbyStep
<1>2. CASE Calm /\ (UNCHANGED task \/ \E t \in Slots : Asks(t))
  <2>1. CASE UNCHANGED task
    BY <1>2, <2>1 DEF Calm, Decisions, In, rowVars, redisVars, sfuVars, clientVars, socketVars, pastVars
  <2>2. ASSUME NEW t \in Slots, Asks(t) PROVE Decisions'
    <3>1. /\ task[t].op = "idle" /\ task'[t].step = 1 /\ ~task'[t].late
          /\ \A x \in Slots \ {t} : task'[x] = task[x]
      BY <2>2, Asked
    <3> QED
      BY <1>2, <3>1 DEF Calm, Decisions, In, rowVars, redisVars, sfuVars, clientVars, socketVars, pastVars
  <2> QED
    BY <1>2, <2>1, <2>2
<1>3. ASSUME NEW u \in Users, Connect(u) PROVE Decisions'
  BY <1>0, <1>3 DEF Connect, Hooked, Stray, Decisions, In, rowVars, redisVars, sfuVars, clientVars, socketVars, pastVars
<1>4. ASSUME NEW u \in Users, Leave(u) PROVE Decisions'
  BY <1>0, <1>4 DEF Leave, Hooked, Decisions, In, rowVars, redisVars, sfuVars, clientVars, socketVars, pastVars
<1>5. CASE Vanish
  BY <1>0, <1>5 DEF Vanish, EmptyRoom, Hooked, Decisions, In, rowVars, redisVars, sfuVars, clientVars, socketVars, pastVars
<1>6. CASE Age
  BY <1>0, <1>6 DEF Age, Decisions, In, rowVars, redisVars, sfuVars, clientVars, socketVars, pastVars
<1>7. CASE Expire
  BY <1>0, <1>7 DEF Expire, Decisions, In, rowVars, redisVars, sfuVars, clientVars, socketVars, pastVars
<1>8. CASE UNCHANGED vars
  BY <1>0, <1>8 DEF vars, Decisions, In, rowVars, redisVars, sfuVars, clientVars, socketVars, pastVars
<1> QED
  BY <1>1, <1>2, <1>3, <1>4, <1>5, <1>6, <1>7, <1>8 DEF Meets


\* The teardown of the model, and of the invariant.
LEMMA TornByNumber == TypeOK /\ Shaped => (TornDown <=> Torn)
<1> SUFFICES ASSUME TypeOK, Shaped PROVE TornDown <=> Torn
  OBVIOUS
<1>1. ASSUME NEW t \in Slots
      PROVE  (/\ task[t].op \in ManageOps \cup {"reconcile"}
              /\ \E i \in 1 .. (task[t].step - 1) : Script[task[t].op][i] = "endRoom")
             <=> Past(task[t], 1)
  <2> DEFINE o == task[t].op
             j == task[t].step
  <2>0. o # "idle" => j \in 1 .. Len(Script[o])
    BY DEF Shaped, Shape
  <2>1. CASE o \in ManageOps
    <3>1. Len(Script[o]) = 7 /\ (\A i \in 1 .. 7 : Script[o][i] = "endRoom" <=> i = 2)
      BY <2>1, Lines DEF ManageOps
    <3>2. j \in 1 .. 7
      BY <2>0, <2>1, <3>1 DEF ManageOps
    <3>3. (\E i \in 1 .. (j - 1) : Script[o][i] = "endRoom") <=> j \in 3 .. 7
      <4> HIDE DEF o, j
      <4> QED
        BY <3>1, <3>2
    <3> QED
      BY <2>1, <3>3 DEF Past, Managing, In, ManageOps
  <2>2. CASE o = "reconcile"
    <3>1. Len(Script[o]) = 8 /\ (\A i \in 1 .. 8 : Script[o][i] = "endRoom" <=> i = 3)
      BY <2>2, Lines
    <3>2. j \in 1 .. 8
      BY <2>0, <2>2, <3>1
    <3>3. (\E i \in 1 .. (j - 1) : Script[o][i] = "endRoom") <=> j \in 4 .. 8
      <4> HIDE DEF o, j
      <4> QED
        BY <3>1, <3>2
    <3> QED
      BY <2>2, <3>3 DEF Past, Managing, In, ManageOps
  <2> QED
    BY <2>1, <2>2 DEF Past, Managing, In
<1> QED
  BY <1>1 DEF TornDown, Torn

\* Whoever is past a later place is past the first.
LEMMA PastFirst == \A k : \A n \in 0 .. 4 : Past(k, n + 1) => Past(k, 1)
  BY DEF Past, Managing, In

\* A key of Redis stays cleared, or to be cleared, while no task gets past it and
\* nothing is written unnoticed.
LEMMA ClearingKept ==
  ASSUME NEW X, NEW Y, NEW n \in 1 .. 4, Clearing(X, n), \A x \in Slots : Keeps(x, n),
         belated \subseteq belated', status' \in Finished => status \in Finished,
         Torn => Y \subseteq X \cup belated'
  PROVE  /\ \A t \in Slots : Past(task'[t], n + 1) => Y \subseteq belated'
         /\ status' \in Finished =>
                Y \subseteq belated' \/ \E t \in Slots : In(task'[t], "finished", 3 .. n + 2)
<1>1. ASSUME NEW t \in Slots, Past(task'[t], n + 1) PROVE Y \subseteq belated'
  <2>1. Past(task[t], n + 1)
    BY <1>1 DEF Keeps
  <2>2. X \subseteq belated
    BY <2>1 DEF Clearing
  <2>3. Torn
    BY <2>1, PastFirst DEF Torn
  <2> QED
    BY <2>2, <2>3
<1>2. ASSUME status' \in Finished
      PROVE  Y \subseteq belated' \/ \E t \in Slots : In(task'[t], "finished", 3 .. n + 2)
  <2>1. Y \subseteq X \cup belated'
    BY <1>2 DEF Torn
  <2>2. X \subseteq belated \/ \E t \in Slots : In(task[t], "finished", 3 .. n + 2)
    BY <1>2 DEF Clearing
  <2> QED
    BY <2>1, <2>2 DEF Keeps
<1> QED
  BY <1>1, <1>2

\* Nobody comes back to a room torn down, likewise.
LEMMA RoomKept ==
  ASSUME Empties, \A x \in Slots : Keeps(x, 0),
         status' \in Finished => status \in Finished,
         Torn /\ inRoom \subseteq Stayers => inRoom' \subseteq Stayers', ~up' => inRoom' = {}
  PROVE  (~up => inRoom = {})' /\ (Torn => inRoom \subseteq Stayers)'
<1>1. Torn' => Torn
  BY DEF Torn, Keeps
<1> QED
  BY <1>1 DEF Empties
\* The same, key by key.
LEMMA WaitingKept ==
  ASSUME Clearing(waiting, 1), \A x \in Slots : Keeps(x, 1),
         belated \subseteq belated', status' \in Finished => status \in Finished,
         Torn => waiting' \subseteq waiting \cup belated'
  PROVE  Clearing(waiting, 1)'
<1>1. 1 \in 1 .. 4
  OBVIOUS
<1>2. /\ \A t \in Slots : Past(task'[t], 1 + 1) => waiting' \subseteq belated'
      /\ status' \in Finished =>
             waiting' \subseteq belated' \/ \E t \in Slots : In(task'[t], "finished", 3 .. 1 + 2)
  BY <1>1, ClearingKept
<1> QED
  BY <1>2 DEF Clearing

\* Likewise.
LEMMA AdmittedKept ==
  ASSUME Clearing(admitted, 2), \A x \in Slots : Keeps(x, 2),
         belated \subseteq belated', status' \in Finished => status \in Finished,
         Torn => admitted' \subseteq admitted \cup belated'
  PROVE  Clearing(admitted, 2)'
<1>1. 2 \in 1 .. 4
  OBVIOUS
<1>2. /\ \A t \in Slots : Past(task'[t], 2 + 1) => admitted' \subseteq belated'
      /\ status' \in Finished =>
             admitted' \subseteq belated' \/ \E t \in Slots : In(task'[t], "finished", 3 .. 2 + 2)
  BY <1>1, ClearingKept
<1> QED
  BY <1>2 DEF Clearing

\* Likewise.
LEMMA DeniedKept ==
  ASSUME Clearing(denied, 3), \A x \in Slots : Keeps(x, 3),
         belated \subseteq belated', status' \in Finished => status \in Finished,
         Torn => denied' \subseteq denied \cup belated'
  PROVE  Clearing(denied, 3)'
<1>1. 3 \in 1 .. 4
  OBVIOUS
<1>2. /\ \A t \in Slots : Past(task'[t], 3 + 1) => denied' \subseteq belated'
      /\ status' \in Finished =>
             denied' \subseteq belated' \/ \E t \in Slots : In(task'[t], "finished", 3 .. 3 + 2)
  BY <1>1, ClearingKept
<1> QED
  BY <1>2 DEF Clearing

\* Likewise.
LEMMA PresentKept ==
  ASSUME Clearing(present, 4), \A x \in Slots : Keeps(x, 4),
         belated \subseteq belated', status' \in Finished => status \in Finished,
         Torn => present' \subseteq present \cup belated'
  PROVE  Clearing(present, 4)'
<1>1. 4 \in 1 .. 4
  OBVIOUS
<1>2. /\ \A t \in Slots : Past(task'[t], 4 + 1) => present' \subseteq belated'
      /\ status' \in Finished =>
             present' \subseteq belated' \/ \E t \in Slots : In(task'[t], "finished", 3 .. 4 + 2)
  BY <1>1, ClearingKept
<1> QED
  BY <1>2 DEF Clearing

\* The commands of a join, a removal and the waiting room are of no teardown.
LEMMA Plain ==
  ASSUME TypeOK, Shaped, NEW t \in Slots,
         \/ At(t, "checkDenied") \/ At(t, "checkAdmitted") \/ At(t, "live") \/ At(t, "ledger")
         \/ At(t, "seat") \/ At(t, "token") \/ At(t, "kick") \/ At(t, "unseat") \/ At(t, "bar")
         \/ At(t, "disown") \/ At(t, "unlist") \/ At(t, "enlist") \/ At(t, "checkListed")
         \/ At(t, "welcome") \/ At(t, "unbar") \/ At(t, "show") \/ At(t, "look")
  PROVE  task[t].op \in {"join", "remove"} \cup LobbyOps
<1> QED
  BY Now DEF In, LobbyOps

\* A step keeps the other tasks in their places, and its own if it is of no
\* teardown or before its end.
LEMMA PlacesKept ==
  ASSUME TypeOK, Shaped, NEW t \in Slots, Turn(t)
  PROVE  /\ \A x \in Slots \ {t} : \A n \in 0 .. 4 : Keeps(x, n)
         /\ \/ task[t].op \in {"join", "remove"} \cup LobbyOps
            \/ At(t, "row") \/ At(t, "count")
            => \A n \in 0 .. 4 : Keeps(t, n)
<1>1. \A x \in Slots \ {t} : \A n \in 0 .. 4 : Keeps(x, n)
  BY DEF Turn, Alike, Keeps, Past, In, Managing
<1>2. Idle.op = "idle" /\ Idle.step = 1
  BY DEF Idle
<1>3. ASSUME task[t].op \in {"join", "remove"} \cup LobbyOps PROVE \A n \in 0 .. 4 : Keeps(t, n)
  BY <1>2, <1>3 DEF Turn, Onward, Keeps, Past, In, Managing, ManageOps, LobbyOps
<1>4. ASSUME At(t, "row") PROVE \A n \in 0 .. 4 : Keeps(t, n)
  <2>1. task[t].step = 1 /\ task'[t].step \in {1, 2}
    BY <1>2, <1>4, Now DEF Turn, Onward
  <2> QED
    BY <2>1 DEF Keeps, Past, In, Managing
<1>5. ASSUME At(t, "count") PROVE \A n \in 0 .. 4 : Keeps(t, n)
  <2>1. task[t].op = "reconcile" /\ task[t].step = 2
    BY <1>5, Now DEF In
  <2>2. task'[t].op = "idle" \/ (task'[t].op = "reconcile" /\ task'[t].step = 3)
    BY <1>2, <2>1 DEF Turn, Onward
  <2> QED
    BY <2>1, <2>2 DEF Keeps, Past, In, Managing, ManageOps
<1> QED
  BY <1>1, <1>3, <1>4, <1>5

\* What a step has to leave alone so that a meeting torn down stays empty.
Leaves ==
    /\ belated \subseteq belated'
    /\ status' \in Finished => status \in Finished
    /\ Torn => waiting' \subseteq waiting \cup belated'
    /\ Torn => admitted' \subseteq admitted \cup belated'
    /\ Torn => denied' \subseteq denied \cup belated'
    /\ Torn => present' \subseteq present \cup belated'
    /\ Torn /\ inRoom \subseteq Stayers => inRoom' \subseteq Stayers'
    /\ ~up' => inRoom' = {}

\* A step that gets no task further in a teardown keeps the meeting empty.
LEMMA EmptiesKept ==
  ASSUME Empties, \A x \in Slots : \A n \in 0 .. 4 : Keeps(x, n), Leaves
  PROVE  Empties'
<1>1. (~up => inRoom = {})' /\ (Torn => inRoom \subseteq Stayers)'
  BY RoomKept DEF Leaves
<1>2. Clearing(waiting, 1)'
  <2>1. Clearing(waiting, 1) /\ \A x \in Slots : Keeps(x, 1)
    BY DEF Empties
  <2> QED
    BY <2>1, WaitingKept DEF Leaves
<1>3. Clearing(admitted, 2)'
  <2>1. Clearing(admitted, 2) /\ \A x \in Slots : Keeps(x, 2)
    BY DEF Empties
  <2> QED
    BY <2>1, AdmittedKept DEF Leaves
<1>4. Clearing(denied, 3)'
  <2>1. Clearing(denied, 3) /\ \A x \in Slots : Keeps(x, 3)
    BY DEF Empties
  <2> QED
    BY <2>1, DeniedKept DEF Leaves
<1>5. Clearing(present, 4)'
  <2>1. Clearing(present, 4) /\ \A x \in Slots : Keeps(x, 4)
    BY DEF Empties
  <2> QED
    BY <2>1, PresentKept DEF Leaves
<1> QED
  BY <1>1, <1>2, <1>3, <1>4, <1>5 DEF Empties

\* A meeting torn down stays empty but for the excuses.
LEMMA EmptiesStay == TypeOK /\ Shaped /\ Empties /\ [Meets]_vars => Empties'
<1> SUFFICES ASSUME TypeOK, Shaped, Empties, [Meets]_vars PROVE Empties'
  OBVIOUS
<1>0. /\ TornDown <=> Torn
      /\ ~up => inRoom = {}
  BY TornByNumber DEF Empties
<1>1. ASSUME NEW t \in Slots, Step(t) PROVE Empties'
  <2>a. Turn(t)
    BY <1>1, Turns
  <2>b. \A x \in Slots \ {t} : \A n \in 0 .. 4 : Keeps(x, n)
    BY <2>a, PlacesKept
  <2>1. CASE ReadRow(t)
    <3>1. \A n \in 0 .. 4 : Keeps(t, n)
      BY <2>a, <2>1, PlacesKept, Plain DEF ReadRow
    <3>2. Leaves
      BY <1>0, <2>1 DEF Leaves, Stayers, ReadRow, Allowed, Sent, Finished, rowVars, redisVars, sfuVars, clientVars, socketVars, pastVars
    <3> QED
      BY <2>b, <3>1, <3>2, EmptiesKept
  <2>2. CASE CheckDenied(t)
    <3>1. \A n \in 0 .. 4 : Keeps(t, n)
      BY <2>a, <2>2, PlacesKept, Plain DEF CheckDenied
    <3>2. Leaves
      BY <1>0, <2>2 DEF Leaves, Stayers, CheckDenied, Finished, rowVars, redisVars, sfuVars, clientVars, socketVars, pastVars
    <3> QED
      BY <2>b, <3>1, <3>2, EmptiesKept
  <2>3. CASE CheckAdmitted(t)
    <3>1. \A n \in 0 .. 4 : Keeps(t, n)
      BY <2>a, <2>3, PlacesKept, Plain DEF CheckAdmitted
    <3>2. Leaves
      BY <1>0, <2>3 DEF Leaves, Stayers, CheckAdmitted, Finished, rowVars, redisVars, sfuVars, clientVars, socketVars, pastVars
    <3> QED
      BY <2>b, <3>1, <3>2, EmptiesKept
  <2>4. CASE JoinLive(t)
    <3>1. \A n \in 0 .. 4 : Keeps(t, n)
      BY <2>a, <2>4, PlacesKept, Plain DEF JoinLive
    <3>2. Leaves
      BY <1>0, <2>4 DEF Leaves, Stayers, JoinLive, Finished, rowVars, redisVars, sfuVars, clientVars, socketVars, pastVars
    <3> QED
      BY <2>b, <3>1, <3>2, EmptiesKept
  <2>5. CASE JoinLedger(t)
    <3>1. \A n \in 0 .. 4 : Keeps(t, n)
      BY <2>a, <2>5, PlacesKept, Plain DEF JoinLedger
    <3>2. Leaves
      BY <1>0, <2>5 DEF Leaves, Stayers, JoinLedger, Finished, rowVars, redisVars, sfuVars, clientVars, socketVars, pastVars
    <3> QED
      BY <2>b, <3>1, <3>2, EmptiesKept
  <2>6. CASE JoinSeat(t)
    <3>1. \A n \in 0 .. 4 : Keeps(t, n)
      BY <2>a, <2>6, PlacesKept, Plain DEF JoinSeat
    <3>2. Leaves
      BY <1>0, <2>6 DEF Leaves, Stayers, JoinSeat, Stray, Finished, rowVars, redisVars, sfuVars, clientVars, socketVars, pastVars
    <3> QED
      BY <2>b, <3>1, <3>2, EmptiesKept
  <2>7. CASE JoinToken(t)
    <3>1. \A n \in 0 .. 4 : Keeps(t, n)
      BY <2>a, <2>7, PlacesKept, Plain DEF JoinToken
    <3>2. Leaves
      BY <1>0, <2>7 DEF Leaves, Stayers, JoinToken, Stray, Finished, rowVars, redisVars, sfuVars, clientVars, socketVars, pastVars
    <3> QED
      BY <2>b, <3>1, <3>2, EmptiesKept
  <2>8. CASE EndRoom(t)
    <3>1. /\ Managing(task[t], {2}) \/ In(task[t], "reconcile", {3})
          /\ \/ Managing(task'[t], {3}) \/ In(task'[t], "reconcile", {4})
             \/ task'[t].op = "idle"
      BY <2>a, <2>8, Now, Idling DEF EndRoom, Turn, Onward, Managing, In
    <3>2. \A n \in 1 .. 4 : Keeps(t, n)
      BY <3>1 DEF Keeps, Past, Managing, In, ManageOps
    <3>3. \/ up' = FALSE /\ inRoom' = {}
          \/ up' = up /\ inRoom' = inRoom /\ spared' = spared \cup inRoom
      BY <2>8 DEF EndRoom, EmptyRoom, sfuVars
    <3>4. UNCHANGED <<status, waiting, admitted, denied, present, belated>>
      BY <2>8 DEF EndRoom, rowVars, redisVars
    <3>5. (~up => inRoom = {})' /\ (Torn => inRoom \subseteq Stayers)'
      BY <1>0, <3>3 DEF Stayers
    <3>6. Clearing(waiting, 1)'
      <4>1. Clearing(waiting, 1) /\ \A x \in Slots : Keeps(x, 1)
        BY <2>b, <3>2 DEF Empties
      <4> QED
        BY <3>4, <4>1, WaitingKept
    <3>7. Clearing(admitted, 2)'
      <4>1. Clearing(admitted, 2) /\ \A x \in Slots : Keeps(x, 2)
        BY <2>b, <3>2 DEF Empties
      <4> QED
        BY <3>4, <4>1, AdmittedKept
    <3>8. Clearing(denied, 3)'
      <4>1. Clearing(denied, 3) /\ \A x \in Slots : Keeps(x, 3)
        BY <2>b, <3>2 DEF Empties
      <4> QED
        BY <3>4, <4>1, DeniedKept
    <3>9. Clearing(present, 4)'
      <4>1. Clearing(present, 4) /\ \A x \in Slots : Keeps(x, 4)
        BY <2>b, <3>2 DEF Empties
      <4> QED
        BY <3>4, <4>1, PresentKept
    <3> QED
      BY <3>5, <3>6, <3>7, <3>8, <3>9 DEF Empties
  <2>9. CASE ReadCount(t)
    <3>1. \A n \in 0 .. 4 : Keeps(t, n)
      BY <2>a, <2>9, PlacesKept, Plain DEF ReadCount
    <3>2. Leaves
      BY <1>0, <2>9 DEF Leaves, Stayers, ReadCount, Finished, rowVars, redisVars, sfuVars, clientVars, socketVars, pastVars
    <3> QED
      BY <2>b, <3>1, <3>2, EmptiesKept
  <2>10. CASE ClearRoom(t)
    <3>0. /\ UNCHANGED <<status, belated, up, inRoom>> /\ Stayers' = Stayers
          /\ waiting' \subseteq waiting /\ admitted' \subseteq admitted
          /\ denied' \subseteq denied /\ present' \subseteq present
      BY <2>10 DEF ClearRoom, rowVars, sfuVars, pastVars, Stayers
    <3>a. task'[t] = Stepped(t)
      BY <1>1, <2>10, Left DEF ClearRoom
    <3>1. CASE At(t, "clearWaiting") /\ waiting' = {}
      <4>1. \/ Managing(task[t], {3}) \/ In(task[t], "finished", {3})
            \/ In(task[t], "reconcile", {4})
        BY <3>1, Now
      <4>2. Onward(t) \/ (In(task[t], "finished", {6}) /\ task'[t].op = "idle")
        BY <1>1, <2>a, <3>a, <4>1, GoesOn, Idling DEF Turn, In, Managing
      <4>3. \A m \in (0 .. 4) \ {1} : Keeps(t, m)
        BY <4>1, <4>2 DEF Onward, Keeps, Past, In, Managing, ManageOps
      <4>4. (~up => inRoom = {})' /\ (Torn => inRoom \subseteq Stayers)'
        BY <1>0, <2>b, <3>0, <4>3, RoomKept
      <4>5. Clearing(waiting, 1)'
        BY <3>1 DEF Clearing
      <4>6. Clearing(admitted, 2)'
        <5>1. Clearing(admitted, 2) /\ \A x \in Slots : Keeps(x, 2)
          BY <2>b, <4>3 DEF Empties
        <5> QED
          BY <3>0, <5>1, AdmittedKept
      <4>7. Clearing(denied, 3)'
        <5>1. Clearing(denied, 3) /\ \A x \in Slots : Keeps(x, 3)
          BY <2>b, <4>3 DEF Empties
        <5> QED
          BY <3>0, <5>1, DeniedKept
      <4>8. Clearing(present, 4)'
        <5>1. Clearing(present, 4) /\ \A x \in Slots : Keeps(x, 4)
          BY <2>b, <4>3 DEF Empties
        <5> QED
          BY <3>0, <5>1, PresentKept
      <4> QED
        BY <4>4, <4>5, <4>6, <4>7, <4>8 DEF Empties
    <3>2. CASE At(t, "clearAdmitted") /\ admitted' = {}
      <4>1. \/ Managing(task[t], {4}) \/ In(task[t], "finished", {4})
            \/ In(task[t], "reconcile", {5})
        BY <3>2, Now
      <4>2. Onward(t) \/ (In(task[t], "finished", {6}) /\ task'[t].op = "idle")
        BY <1>1, <2>a, <3>a, <4>1, GoesOn, Idling DEF Turn, In, Managing
      <4>3. \A m \in (0 .. 4) \ {2} : Keeps(t, m)
        BY <4>1, <4>2 DEF Onward, Keeps, Past, In, Managing, ManageOps
      <4>4. (~up => inRoom = {})' /\ (Torn => inRoom \subseteq Stayers)'
        BY <1>0, <2>b, <3>0, <4>3, RoomKept
      <4>5. Clearing(waiting, 1)'
        <5>1. Clearing(waiting, 1) /\ \A x \in Slots : Keeps(x, 1)
          BY <2>b, <4>3 DEF Empties
        <5> QED
          BY <3>0, <5>1, WaitingKept
      <4>6. Clearing(admitted, 2)'
        BY <3>2 DEF Clearing
      <4>7. Clearing(denied, 3)'
        <5>1. Clearing(denied, 3) /\ \A x \in Slots : Keeps(x, 3)
          BY <2>b, <4>3 DEF Empties
        <5> QED
          BY <3>0, <5>1, DeniedKept
      <4>8. Clearing(present, 4)'
        <5>1. Clearing(present, 4) /\ \A x \in Slots : Keeps(x, 4)
          BY <2>b, <4>3 DEF Empties
        <5> QED
          BY <3>0, <5>1, PresentKept
      <4> QED
        BY <4>4, <4>5, <4>6, <4>7, <4>8 DEF Empties
    <3>3. CASE At(t, "clearDenied") /\ denied' = {}
      <4>1. \/ Managing(task[t], {5}) \/ In(task[t], "finished", {5})
            \/ In(task[t], "reconcile", {6})
        BY <3>3, Now
      <4>2. Onward(t) \/ (In(task[t], "finished", {6}) /\ task'[t].op = "idle")
        BY <1>1, <2>a, <3>a, <4>1, GoesOn, Idling DEF Turn, In, Managing
      <4>3. \A m \in (0 .. 4) \ {3} : Keeps(t, m)
        BY <4>1, <4>2 DEF Onward, Keeps, Past, In, Managing, ManageOps
      <4>4. (~up => inRoom = {})' /\ (Torn => inRoom \subseteq Stayers)'
        BY <1>0, <2>b, <3>0, <4>3, RoomKept
      <4>5. Clearing(waiting, 1)'
        <5>1. Clearing(waiting, 1) /\ \A x \in Slots : Keeps(x, 1)
          BY <2>b, <4>3 DEF Empties
        <5> QED
          BY <3>0, <5>1, WaitingKept
      <4>6. Clearing(admitted, 2)'
        <5>1. Clearing(admitted, 2) /\ \A x \in Slots : Keeps(x, 2)
          BY <2>b, <4>3 DEF Empties
        <5> QED
          BY <3>0, <5>1, AdmittedKept
      <4>7. Clearing(denied, 3)'
        BY <3>3 DEF Clearing
      <4>8. Clearing(present, 4)'
        <5>1. Clearing(present, 4) /\ \A x \in Slots : Keeps(x, 4)
          BY <2>b, <4>3 DEF Empties
        <5> QED
          BY <3>0, <5>1, PresentKept
      <4> QED
        BY <4>4, <4>5, <4>6, <4>7, <4>8 DEF Empties
    <3>4. CASE At(t, "clearPresent") /\ present' = {}
      <4>1. \/ Managing(task[t], {6}) \/ In(task[t], "finished", {6})
            \/ In(task[t], "reconcile", {7})
        BY <3>4, Now
      <4>2. Onward(t) \/ (In(task[t], "finished", {6}) /\ task'[t].op = "idle")
        BY <1>1, <2>a, <3>a, <4>1, GoesOn, Idling DEF Turn, In, Managing
      <4>3. \A m \in (0 .. 4) \ {4} : Keeps(t, m)
        BY <4>1, <4>2 DEF Onward, Keeps, Past, In, Managing, ManageOps
      <4>4. (~up => inRoom = {})' /\ (Torn => inRoom \subseteq Stayers)'
        BY <1>0, <2>b, <3>0, <4>3, RoomKept
      <4>5. Clearing(waiting, 1)'
        <5>1. Clearing(waiting, 1) /\ \A x \in Slots : Keeps(x, 1)
          BY <2>b, <4>3 DEF Empties
        <5> QED
          BY <3>0, <5>1, WaitingKept
      <4>6. Clearing(admitted, 2)'
        <5>1. Clearing(admitted, 2) /\ \A x \in Slots : Keeps(x, 2)
          BY <2>b, <4>3 DEF Empties
        <5> QED
          BY <3>0, <5>1, AdmittedKept
      <4>7. Clearing(denied, 3)'
        <5>1. Clearing(denied, 3) /\ \A x \in Slots : Keeps(x, 3)
          BY <2>b, <4>3 DEF Empties
        <5> QED
          BY <3>0, <5>1, DeniedKept
      <4>8. Clearing(present, 4)'
        BY <3>4 DEF Clearing
      <4> QED
        BY <4>4, <4>5, <4>6, <4>7, <4>8 DEF Empties
    <3> QED
      BY <2>10, <3>1, <3>2, <3>3, <3>4 DEF ClearRoom
  <2>11. CASE StopMeeting(t)
    <3>1. /\ Managing(task[t], {7}) \/ In(task[t], "reconcile", {8})
          /\ UNCHANGED <<belated, up, inRoom, waiting, admitted, denied, present>>
          /\ Stayers' = Stayers
      BY <2>11, Now DEF StopMeeting, redisVars, sfuVars, pastVars, Stayers
    <3>2. \A n \in 0 .. 4 : Past(task[t], n + 1)
      BY <3>1 DEF Past, Managing, In, ManageOps
    <3>3. /\ inRoom \subseteq Stayers
          /\ waiting \subseteq belated /\ admitted \subseteq belated
          /\ denied \subseteq belated /\ present \subseteq belated
      BY <1>1, <3>2 DEF Empties, Clearing, Torn
    <3> QED
      BY <1>0, <3>1, <3>3 DEF Empties, Clearing
  <2>12. CASE SyncRow(t)
    <3>1. /\ task[t].op \in HookOps /\ task[t].step = 2
          /\ UNCHANGED <<up, inRoom, waiting, admitted, denied, present, belated>>
          /\ Stayers \subseteq Stayers'
      BY <2>12, Now DEF SyncRow, redisVars, sfuVars, Stayers
    <3>2. \A n \in 0 .. 4 : Keeps(t, n)
      BY <2>a, <3>1, Idling DEF Turn, Onward, Keeps, Past, In, Managing, ManageOps, HookOps
    <3>3. CASE status' \in Finished => status \in Finished
      <4>1. Leaves
        BY <1>0, <3>1, <3>3 DEF Leaves
      <4> QED
        BY <2>b, <3>2, <4>1, EmptiesKept
    <3>4. CASE task[t].op = "finished" /\ status # "gone"
      <4>1. AdvanceOver(t, Users) /\ overtaken' = overtaken \cup inRoom
        BY <2>12, <3>4 DEF SyncRow
      <4>2. Onward(t)
        BY <1>1, <3>1, <3>4, <4>1, Left, GoesOn DEF In
      <4>3. \A n \in 1 .. 4 : In(task'[t], "finished", 3 .. n + 2)
        BY <3>1, <3>4, <4>2 DEF Onward, In
      <4>4. inRoom' \subseteq Stayers'
        BY <3>1, <4>1 DEF Stayers
      <4>5. Clearing(waiting, 1)'
        <5>1. ASSUME NEW y \in Slots, Past(task'[y], 1 + 1) PROVE waiting' \subseteq belated'
          <6>1. Keeps(y, 1)
            BY <2>b, <3>2
          <6>2. Past(task[y], 1 + 1)
            BY <5>1, <6>1 DEF Keeps
          <6> QED
            BY <3>1, <6>2 DEF Empties, Clearing
        <5> QED
          BY <1>1, <4>3, <5>1 DEF Clearing
      <4>6. Clearing(admitted, 2)'
        <5>1. ASSUME NEW y \in Slots, Past(task'[y], 2 + 1) PROVE admitted' \subseteq belated'
          <6>1. Keeps(y, 2)
            BY <2>b, <3>2
          <6>2. Past(task[y], 2 + 1)
            BY <5>1, <6>1 DEF Keeps
          <6> QED
            BY <3>1, <6>2 DEF Empties, Clearing
        <5> QED
          BY <1>1, <4>3, <5>1 DEF Clearing
      <4>7. Clearing(denied, 3)'
        <5>1. ASSUME NEW y \in Slots, Past(task'[y], 3 + 1) PROVE denied' \subseteq belated'
          <6>1. Keeps(y, 3)
            BY <2>b, <3>2
          <6>2. Past(task[y], 3 + 1)
            BY <5>1, <6>1 DEF Keeps
          <6> QED
            BY <3>1, <6>2 DEF Empties, Clearing
        <5> QED
          BY <1>1, <4>3, <5>1 DEF Clearing
      <4>8. Clearing(present, 4)'
        <5>1. ASSUME NEW y \in Slots, Past(task'[y], 4 + 1) PROVE present' \subseteq belated'
          <6>1. Keeps(y, 4)
            BY <2>b, <3>2
          <6>2. Past(task[y], 4 + 1)
            BY <5>1, <6>1 DEF Keeps
          <6> QED
            BY <3>1, <6>2 DEF Empties, Clearing
        <5> QED
          BY <1>1, <4>3, <5>1 DEF Clearing
      <4> QED
        BY <1>0, <3>1, <4>4, <4>5, <4>6, <4>7, <4>8 DEF Empties
    <3> QED
      BY <2>12, <3>3, <3>4 DEF SyncRow, Finished
  <2>13. CASE Kick(t)
    <3>1. \A n \in 0 .. 4 : Keeps(t, n)
      BY <2>a, <2>13, PlacesKept, Plain DEF Kick
    <3>2. Leaves
      BY <1>0, <2>13 DEF Leaves, Stayers, Parted, Kick, Hooked, Finished, rowVars, redisVars, sfuVars, clientVars, socketVars, pastVars
    <3> QED
      BY <2>b, <3>1, <3>2, EmptiesKept
  <2>14. CASE Unseat(t)
    <3>1. \A n \in 0 .. 4 : Keeps(t, n)
      BY <2>a, <2>14, PlacesKept, Plain DEF Unseat
    <3>2. Leaves
      BY <1>0, <2>14 DEF Leaves, Stayers, Unseat, Finished, rowVars, redisVars, sfuVars, clientVars, socketVars, pastVars
    <3> QED
      BY <2>b, <3>1, <3>2, EmptiesKept
  <2>15. CASE Bar(t)
    <3>1. \A n \in 0 .. 4 : Keeps(t, n)
      BY <2>a, <2>15, PlacesKept, Plain DEF Bar
    <3>2. Leaves
      BY <1>0, <2>15 DEF Leaves, Stayers, Bar, Stray, Finished, rowVars, redisVars, sfuVars, clientVars, socketVars, pastVars
    <3> QED
      BY <2>b, <3>1, <3>2, EmptiesKept
  <2>16. CASE Disown(t)
    <3>1. \A n \in 0 .. 4 : Keeps(t, n)
      BY <2>a, <2>16, PlacesKept, Plain DEF Disown
    <3>2. Leaves
      BY <1>0, <2>16 DEF Leaves, Stayers, Disown, Finished, rowVars, redisVars, sfuVars, clientVars, socketVars, pastVars
    <3> QED
      BY <2>b, <3>1, <3>2, EmptiesKept
  <2>17. CASE Unlist(t)
    <3>1. \A n \in 0 .. 4 : Keeps(t, n)
      BY <2>a, <2>17, PlacesKept, Plain DEF Unlist
    <3>2. Leaves
      BY <1>0, <2>17 DEF Leaves, Stayers, Unlist, Finished, rowVars, redisVars, sfuVars, clientVars, socketVars, pastVars
    <3> QED
      BY <2>b, <3>1, <3>2, EmptiesKept
  <2>18. CASE Enlist(t)
    <3>1. \A n \in 0 .. 4 : Keeps(t, n)
      BY <2>a, <2>18, PlacesKept, Plain DEF Enlist
    <3>2. Leaves
      BY <1>0, <2>18 DEF Leaves, Stayers, Enlist, Stray, Finished, rowVars, redisVars, sfuVars, clientVars, socketVars, pastVars
    <3> QED
      BY <2>b, <3>1, <3>2, EmptiesKept
  <2>19. CASE CheckListed(t)
    <3>1. \A n \in 0 .. 4 : Keeps(t, n)
      BY <2>a, <2>19, PlacesKept, Plain DEF CheckListed
    <3>2. Leaves
      BY <1>0, <2>19 DEF Leaves, Stayers, CheckListed, Finished, rowVars, redisVars, sfuVars, clientVars, socketVars, pastVars
    <3> QED
      BY <2>b, <3>1, <3>2, EmptiesKept
  <2>20. CASE Welcome(t)
    <3>1. \A n \in 0 .. 4 : Keeps(t, n)
      BY <2>a, <2>20, PlacesKept, Plain DEF Welcome
    <3>2. Leaves
      BY <1>0, <2>20 DEF Leaves, Stayers, Welcome, Stray, Finished, rowVars, redisVars, sfuVars, clientVars, socketVars, pastVars
    <3> QED
      BY <2>b, <3>1, <3>2, EmptiesKept
  <2>21. CASE Unbar(t)
    <3>1. \A n \in 0 .. 4 : Keeps(t, n)
      BY <2>a, <2>21, PlacesKept, Plain DEF Unbar
    <3>2. Leaves
      BY <1>0, <2>21 DEF Leaves, Stayers, Unbar, Finished, rowVars, redisVars, sfuVars, clientVars, socketVars, pastVars
    <3> QED
      BY <2>b, <3>1, <3>2, EmptiesKept
  <2>22. CASE Show(t)
    <3>1. \A n \in 0 .. 4 : Keeps(t, n)
      BY <2>a, <2>22, PlacesKept, Plain DEF Show
    <3>2. Leaves
      BY <1>0, <2>22 DEF Leaves, Stayers, Show, SentToAll, Finished, rowVars, redisVars, sfuVars, clientVars, socketVars, pastVars
    <3> QED
      BY <2>b, <3>1, <3>2, EmptiesKept
  <2>23. CASE Look(t)
    <3>1. \A n \in 0 .. 4 : Keeps(t, n)
      BY <2>a, <2>23, PlacesKept, Plain DEF Look
    <3>2. Leaves
      BY <1>0, <2>23 DEF Leaves, Stayers, Look, Finished, rowVars, redisVars, sfuVars, clientVars, socketVars, pastVars
    <3> QED
      BY <2>b, <3>1, <3>2, EmptiesKept
  <2> QED
    BY <1>1, <2>1, <2>2, <2>3, <2>4, <2>5, <2>6, <2>7, <2>8, <2>9, <2>10, <2>11, <2>12, <2>13, <2>14, <2>15, <2>16, <2>17, <2>18, <2>19, <2>20, <2>21, <2>22, <2>23 DEF Step, RoomStep, LobbyStep
<1>2. CASE Calm /\ (UNCHANGED task \/ \E t \in Slots : Asks(t))
  <2>1. Leaves
    BY <1>0, <1>2 DEF Calm, Leaves, Stayers, Finished, rowVars, redisVars, sfuVars, clientVars, socketVars, pastVars
  <2>2. CASE UNCHANGED task
    <3>1. \A x \in Slots : \A n \in 0 .. 4 : Keeps(x, n)
      BY <2>2 DEF Keeps
    <3> QED
      BY <2>1, <3>1, EmptiesKept
  <2>3. ASSUME NEW t \in Slots, Asks(t) PROVE Empties'
    <3>1. /\ task[t].op = "idle" /\ task'[t].step = 1
          /\ \A x \in Slots \ {t} : task'[x] = task[x]
      BY <2>3, Asked
    <3>2. \A x \in Slots : \A n \in 0 .. 4 : Keeps(x, n)
      BY <3>1 DEF Keeps, Past, In, Managing
    <3> QED
      BY <2>1, <3>2, EmptiesKept
  <2> QED
    BY <1>2, <2>2, <2>3
<1>3. ASSUME NEW u \in Users, Connect(u) PROVE Empties'
  <2>1. \A x \in Slots : \A n \in 0 .. 4 : Keeps(x, n)
    BY <1>3 DEF Connect, Keeps
  <2>2. Leaves
    BY <1>0, <1>3 DEF Leaves, Stayers, Connect, Hooked, Stray, Finished, rowVars, redisVars, sfuVars, clientVars, socketVars, pastVars
  <2> QED
    BY <2>1, <2>2, EmptiesKept
<1>4. ASSUME NEW u \in Users, Leave(u) PROVE Empties'
  <2>1. \A x \in Slots : \A n \in 0 .. 4 : Keeps(x, n)
    BY <1>4 DEF Leave, Keeps
  <2>2. Leaves
    BY <1>0, <1>4 DEF Leaves, Stayers, Parted, Leave, Hooked, Finished, rowVars, redisVars, sfuVars, clientVars, socketVars, pastVars
  <2> QED
    BY <2>1, <2>2, EmptiesKept
<1>5. CASE Vanish
  <2>1. \A x \in Slots : \A n \in 0 .. 4 : Keeps(x, n)
    BY <1>5 DEF Vanish, Keeps
  <2>2. Leaves
    BY <1>0, <1>5 DEF Leaves, Stayers, Vanish, EmptyRoom, Hooked, Finished, rowVars, redisVars, sfuVars, clientVars, socketVars, pastVars
  <2> QED
    BY <2>1, <2>2, EmptiesKept
<1>6. CASE Age
  <2>1. \A x \in Slots : \A n \in 0 .. 4 : Keeps(x, n)
    BY <1>6 DEF Age, Keeps
  <2>2. Leaves
    BY <1>0, <1>6 DEF Leaves, Stayers, Age, Finished, rowVars, redisVars, sfuVars, clientVars, socketVars, pastVars
  <2> QED
    BY <2>1, <2>2, EmptiesKept
<1>7. CASE Expire
  <2>1. \A x \in Slots : \A n \in 0 .. 4 : Keeps(x, n)
    BY <1>7 DEF Expire, Keeps
  <2>2. Leaves
    BY <1>0, <1>7 DEF Leaves, Stayers, Expire, Finished, rowVars, redisVars, sfuVars, clientVars, socketVars, pastVars
  <2> QED
    BY <2>1, <2>2, EmptiesKept
<1>8. CASE UNCHANGED vars
  <2>1. \A x \in Slots : \A n \in 0 .. 4 : Keeps(x, n)
    BY <1>8 DEF vars, Keeps
  <2>2. Leaves
    BY <1>0, <1>8 DEF Leaves, Stayers, vars, Finished, rowVars, redisVars, sfuVars, clientVars, socketVars, pastVars
  <2> QED
    BY <2>1, <2>2, EmptiesKept
<1> QED
  BY <1>1, <1>2, <1>3, <1>4, <1>5, <1>6, <1>7, <1>8 DEF Meets


(***************************************************************************)
(* Meets is what both specifications do.                                   *)
(***************************************************************************)
LEMMA Begun ==
  ASSUME NEW t \in Slots, NEW op \in ClientOps \cup HookOps \cup {"reconcile"},
         NEW u \in Users \cup {None}, NEW s \in Sockets \cup {None}, Start(t, op, u, s),
         op = "join" => u \in Users,
         op \in {"remove", "admit", "deny"} => u \in Guests,
         op \in {"knock", "withdraw"} => s \in Sockets /\ u = Owner[s]
  PROVE  Asks(t)
<1> DEFINE k == [Idle EXCEPT !.op = op, !.who = u, !.sock = s]
<1>1. op \in Ops \ {"idle"}
  BY DEF Ops, Script, ClientOps, ManageOps, LobbyOps, HookOps
<1>2. /\ k \in Tasks /\ k.op = op /\ k.step = 1 /\ ~k.late /\ k.who = u /\ k.sock = s
  <2>1. Idle \in Tasks /\ Idle.step = 1 /\ Idle.late = FALSE
    BY Idling DEF Idle
  <2>2. op \in Ops
    BY <1>1
  <2> QED
    BY <2>1, <2>2 DEF Tasks
<1>3. ~Busy(t) /\ task' = [task EXCEPT ![t] = k]
  BY DEF Start
<1> HIDE DEF k
<1>4. Len(Script[op]) \in 0 .. 8 /\ Len(Script[op]) > 1
  BY <1>1, Lengths
<1>5. 1 \in 1 .. Len(Script[op])
  BY <1>4
<1>6. Shape(k)
  BY <1>2, <1>5 DEF Shape
<1> QED
  BY <1>1, <1>2, <1>3, <1>6 DEF Asks


\* A message or a request only starts a handler.
LEMMA Requests ==
  ASSUME TypeOK, NEW t \in Slots
  PROVE  /\ \A u \in Users : BeginJoin(t, u) => Calm /\ Asks(t)
         /\ \A op \in ManageOps : BeginManage(t, op) => Calm /\ Asks(t)
         /\ \A g \in Guests : \A op \in {"remove", "admit", "deny"} :
                BeginAbout(t, op, g) => Calm /\ Asks(t)
         /\ \A s \in Sockets : BeginKnock(t, s) \/ BeginWithdraw(t, s) => Calm /\ Asks(t)
         /\ \A e \in HookOps : BeginHook(t, e) => Calm /\ Asks(t)
         /\ BeginWatch(t) => Calm /\ Asks(t)
<1>1. ASSUME NEW u \in Users, BeginJoin(t, u) PROVE Calm /\ Asks(t)
  <2>1. Asks(t)
    BY <1>1, Begun DEF BeginJoin, ClientOps
  <2> QED
    BY <1>1, <2>1 DEF BeginJoin, Calm, TypeOK, rowVars, redisVars, sfuVars, clientVars, socketVars, pastVars
<1>2. ASSUME NEW op \in ManageOps, BeginManage(t, op) PROVE Calm /\ Asks(t)
  <2>1. op \in ClientOps /\ op \notin {"join", "remove", "admit", "deny", "knock", "withdraw"}
    BY DEF ManageOps, ClientOps
  <2>2. Asks(t)
    BY <1>2, <2>1, Begun DEF BeginManage, Users
  <2> QED
    BY <1>2, <2>2 DEF BeginManage, Calm, TypeOK, rowVars, redisVars, sfuVars, clientVars, socketVars, pastVars
<1>3. ASSUME NEW g \in Guests, NEW op \in {"remove", "admit", "deny"}, BeginAbout(t, op, g)
      PROVE  Calm /\ Asks(t)
  <2>1. op \in ClientOps /\ op \notin {"join", "knock", "withdraw"}
    BY DEF ClientOps, LobbyOps
  <2>2. Asks(t)
    BY <1>3, <2>1, Begun DEF BeginAbout, Users
  <2> QED
    BY <1>3, <2>2 DEF BeginAbout, Calm, TypeOK, rowVars, redisVars, sfuVars, clientVars, socketVars, pastVars
<1>4. ASSUME NEW s \in Sockets, BeginKnock(t, s) PROVE Calm /\ Asks(t)
  <2>1. Owner[s] \in Users /\ "knock" \in ClientOps
    BY OwnerAssumption DEF Users, ClientOps, LobbyOps
  <2>2. Asks(t)
    BY <1>4, <2>1, Begun DEF BeginKnock
  <2> QED
    BY <1>4, <2>2 DEF BeginKnock, Calm, TypeOK, rowVars, redisVars, sfuVars, clientVars, socketVars, pastVars
<1>5. ASSUME NEW s \in Sockets, BeginWithdraw(t, s) PROVE Calm /\ Asks(t)
  <2>1. Owner[s] \in Users /\ "withdraw" \in ClientOps
    BY OwnerAssumption DEF Users, ClientOps, LobbyOps
  <2>2. Asks(t)
    BY <1>5, <2>1, Begun DEF BeginWithdraw
  <2> QED
    BY <1>5, <2>2 DEF BeginWithdraw, Calm, TypeOK, rowVars, redisVars, sfuVars, clientVars, socketVars, pastVars
<1>6. ASSUME NEW e \in HookOps, BeginHook(t, e) PROVE Calm /\ Asks(t)
  <2>1. e \notin {"join", "remove", "admit", "deny", "knock", "withdraw"}
    BY DEF HookOps
  <2>2. Asks(t)
    BY <1>6, <2>1, Begun DEF BeginHook
  <2>3. hooks' \subseteq hooks
    BY <1>6 DEF BeginHook
  <2> QED
    BY <1>6, <2>2, <2>3 DEF BeginHook, Calm, TypeOK, rowVars, redisVars, sfuVars, clientVars, socketVars, pastVars
<1>7. ASSUME BeginWatch(t) PROVE Calm /\ Asks(t)
  <2>1. "watch" \in ClientOps
    BY DEF ClientOps, LobbyOps
  <2>2. Asks(t)
    BY <1>7, <2>1, Begun DEF BeginWatch, Users
  <2> QED
    BY <1>7, <2>2 DEF BeginWatch, Calm, TypeOK, rowVars, redisVars, sfuVars, clientVars, socketVars, pastVars
<1> QED
  BY <1>1, <1>2, <1>3, <1>4, <1>5, <1>6, <1>7

\* Whatever clients ask of the server at any time.
LEMMA RoomCovered == TypeOK /\ [Next]_vars => [Meets]_vars
<1> SUFFICES ASSUME TypeOK, Next PROVE Meets
  OBVIOUS
<1>1. ASSUME NEW t \in Slots, Begin(t) PROVE Meets
  <2>1. CASE CancelMeeting(t) \/ DeleteMeeting(t) \/ EndForAll(t)
    <3>1. PICK op \in ManageOps : BeginManage(t, op)
      BY <2>1 DEF CancelMeeting, DeleteMeeting, EndForAll, ManageOps
    <3> QED
      BY <3>1, Requests DEF Meets
  <2>2. CASE ~(CancelMeeting(t) \/ DeleteMeeting(t) \/ EndForAll(t))
    <3>1. Calm /\ Asks(t)
      BY <1>1, <2>2, Requests, InputAssumption DEF Begin
    <3> QED
      BY <3>1 DEF Meets
  <2> QED
    BY <2>1, <2>2
<1>2. ASSUME NEW t \in Slots, RoomStep(t) PROVE Meets
  BY <1>2 DEF Meets, Step
<1>3. CASE BeginReconcile
  <2>1. Viewer \in Slots
    BY DEF Slots
  <2>2. Asks(Viewer)
    BY <1>3, <2>1, Begun DEF BeginReconcile
  <2>3. Calm
    BY <1>3 DEF BeginReconcile, Calm, TypeOK, rowVars, redisVars, sfuVars, clientVars, socketVars, pastVars
  <2> QED
    BY <2>1, <2>2, <2>3 DEF Meets
<1>4. CASE World
  BY <1>4 DEF World, Meets
<1> QED
  BY <1>1, <1>2, <1>3, <1>4 DEF Next

\* What the pages make of it.
LEMMA JourneyCovered == TypeOK /\ [JourneyNext]_<<vars, journeyVars>> => [Meets]_vars
<1> SUFFICES ASSUME TypeOK, JourneyNext PROVE [Meets]_vars
  BY DEF vars
<1>1. ASSUME NEW t \in Slots, ServerStep(t) PROVE Meets
  BY <1>1 DEF ServerStep, Meets
<1>2. ASSUME NEW t \in Slots, Calm, Asks(t) PROVE Meets
  BY <1>2 DEF Meets
<1>3. ASSUME NEW t \in Slots, Watch(t) PROVE Meets
  BY <1>2, <1>3, Requests DEF Watch
<1>4. ASSUME NEW t \in Slots, NEW g \in Guests, ClickJoin(t, g) PROVE Meets
  BY <1>2, <1>4, Requests DEF ClickJoin, Users
<1>5. ASSUME NEW t \in Slots, NEW g \in Guests, Expel(t, g) PROVE Meets
  BY <1>2, <1>5, Requests DEF Expel
<1>6. ASSUME NEW t \in Slots, NEW g \in Guests, NEW op \in {"admit", "deny"}, Decide(t, op, g)
      PROVE  Meets
  BY <1>2, <1>6, Requests DEF Decide
<1>7. ASSUME NEW t \in Slots, NEW s \in Sockets, Greet(t, s) \/ Bye(t, s) PROVE Meets
  BY <1>2, <1>7, Requests DEF Greet, Bye
<1>8. ASSUME NEW t \in Slots, NEW s \in Sockets, Hear(t, s) PROVE Meets
  <2>1. inbox' \in [Sockets -> Seq({"Admitted", "Denied"})]
    <3>1. inbox[s] \in Seq({"Admitted", "Denied"}) /\ inbox[s] # <<>>
      BY <1>8 DEF Hear, TypeOK
    <3>2. Tail(inbox[s]) \in Seq({"Admitted", "Denied"})
      BY <3>1
    <3> QED
      BY <1>8, <3>2 DEF Hear, TypeOK
  <2>2. Calm
    BY <1>8, <2>1 DEF Hear, Calm, TypeOK, rowVars, redisVars, sfuVars, clientVars, socketVars, pastVars
  <2>3. Owner[s] \in Users /\ "join" \in ClientOps
    BY OwnerAssumption DEF Users, ClientOps
  <2>4. CASE Start(t, "join", Owner[s], None)
    <3>1. Asks(t)
      BY <2>3, <2>4, Begun
    <3> QED
      BY <2>2, <3>1 DEF Meets
  <2>5. CASE UNCHANGED task
    BY <2>2, <2>5 DEF Meets
  <2> QED
    BY <1>8, <2>4, <2>5 DEF Hear
<1>9. ASSUME NEW g \in Guests, EnterRoom(g) \/ LeaveRoom(g) PROVE Meets
  BY <1>9 DEF EnterRoom, LeaveRoom, Meets, Users
<1>10. ASSUME NEW g \in Guests, Load(g) \/ GoBack(g) \/ ThrownOut(g) \/ Return(g)
       PROVE  UNCHANGED vars
  BY <1>10 DEF Load, GoBack, ThrownOut, Return
<1>11. ASSUME NEW g \in Guests, NEW s \in Sockets, Dial(g, s) PROVE Meets
  <2>1. Calm /\ UNCHANGED task
    BY <1>11 DEF Dial, Open, Calm, TypeOK, rowVars, redisVars, sfuVars, clientVars, socketVars, pastVars
  <2> QED
    BY <2>1 DEF Meets
<1>12. ASSUME NEW s \in Sockets, Hang(s) PROVE Meets
  <2>1. Close(s) /\ s \in Slots /\ Owner[s] \in Users /\ "withdraw" \in ClientOps
    BY <1>12, OwnerAssumption DEF Hang, Slots, Users, ClientOps, LobbyOps
  <2>2. inbox' \in [Sockets -> Seq({"Admitted", "Denied"})]
    <3>1. <<>> \in Seq({"Admitted", "Denied"})
      OBVIOUS
    <3> QED
      BY <2>1, <3>1 DEF Close, TypeOK
  <2>3. Calm
    BY <2>1, <2>2 DEF Close, Calm, TypeOK, rowVars, redisVars, sfuVars, clientVars, socketVars, pastVars
  <2>4. CASE Start(s, "withdraw", Owner[s], s)
    <3>1. Asks(s)
      BY <2>1, <2>4, Begun
    <3> QED
      BY <2>1, <2>3, <3>1 DEF Meets
  <2>5. CASE UNCHANGED task
    BY <2>3, <2>5 DEF Meets
  <2> QED
    BY <2>1, <2>4, <2>5 DEF Close
<1>13. CASE HostReconnects
  <2>1. Calm /\ UNCHANGED task
    BY <1>13 DEF HostReconnects, HostDrop, Calm, TypeOK, rowVars, redisVars, sfuVars, clientVars, socketVars, pastVars
  <2> QED
    BY <2>1 DEF Meets
<1> QED
  BY <1>1, <1>3, <1>4, <1>5, <1>6, <1>7, <1>8, <1>9, <1>10, <1>11, <1>12, <1>13 DEF JourneyNext


\* A new meeting has nobody in it and no handler.
LEMMA StartsWell == Init => MeetingInv
<1> SUFFICES ASSUME Init PROVE MeetingInv
  OBVIOUS
<1>1. \A t \in Slots : task[t] = Idle
  BY DEF Init
<1>2. Idle \in Tasks /\ Shape(Idle) /\ Idle.op = "idle"
  BY Idling
<1>3. task \in [Slots -> Tasks] /\ Shaped
  BY <1>1, <1>2 DEF Init, Shaped
<1>4. Data
  <2>1. <<>> \in Seq({"Admitted", "Denied"})
    OBVIOUS
  <2> QED
    BY <2>1, InputAssumption DEF Init, Data
<1>5. \A t \in Slots : task[t].op = "idle"
  BY <1>1, <1>2
<1>6. Strangers /\ Decisions /\ Kicks /\ Unseen
  BY <1>5 DEF Init, Strangers, NoStranger, Decisions, Kicks, Unseen, In
<1>7. Empties
  BY <1>5 DEF Init, Empties, Clearing
<1> QED
  BY <1>3, <1>4, <1>6, <1>7, DataType DEF MeetingInv

\* The invariant is inductive.
LEMMA StaysWell == MeetingInv /\ [Meets]_vars => MeetingInv'
<1> SUFFICES ASSUME MeetingInv, [Meets]_vars PROVE MeetingInv'
  OBVIOUS
<1>1. TypeOK'
  <2>1. TypeOK' <=> Data' /\ (task \in [Slots -> Tasks])'
    BY DEF TypeOK, Data
  <2> QED
    BY <2>1, TasksStay, DataStays DEF MeetingInv
<1> QED
  BY <1>1, TasksStay, StrangersStay, DecisionsStay, KicksStay, EmptiesStay, UnseenStays
     DEF MeetingInv

\* A meeting whose clients ask what they like keeps the invariant: the strengthening
\* of all the properties but NoGhostKnock.
THEOREM RoomInvariant == Spec => []MeetingInv
<1>1. MeetingInv /\ [Next]_vars => MeetingInv'
  BY RoomCovered, StaysWell DEF MeetingInv
<1> QED
  BY StartsWell, <1>1, PTL DEF Spec

\* So does a meeting with a waiting room, driven by its guests' and its host's pages.
THEOREM JourneyInvariant == JourneySpec => []MeetingInv
<1>1. JourneyInit => MeetingInv
  BY StartsWell DEF JourneyInit
<1>2. MeetingInv /\ [JourneyNext]_<<vars, journeyVars>> => MeetingInv'
  BY JourneyCovered, StaysWell DEF MeetingInv
<1> QED
  BY <1>1, <1>2, PTL DEF JourneySpec

\* The invariant says what the properties promise.
LEMMA Consequences ==
  MeetingInv => /\ TypeOK /\ NoStranger /\ OneDecision /\ KickHolds
                /\ FinishedIsEmpty /\ NobodyWaitsUnseen
<1> SUFFICES ASSUME MeetingInv
             PROVE  /\ TypeOK /\ NoStranger /\ OneDecision /\ KickHolds
                    /\ FinishedIsEmpty /\ NobodyWaitsUnseen
  OBVIOUS
<1>1. TypeOK /\ NoStranger
  BY DEF MeetingInv, Strangers
<1>2. AtRest => \A t \in Slots : task[t].op = "idle"
  BY DEF AtRest, Busy
<1>3. OneDecision
  <2>1. ASSUME AtRest, NEW g \in admitted \cap denied PROVE FALSE
    BY <1>2, <2>1 DEF MeetingInv, Decisions, In
  <2> QED
    BY <2>1 DEF OneDecision
<1>4. KickHolds
  BY DEF MeetingInv, Kicks, TypeOK, KickHolds, Excused
<1>5. FinishedIsEmpty
  <2>1. ASSUME AtRest, status \in Finished
        PROVE  /\ waiting \cup admitted \cup denied \cup present \subseteq belated
               /\ inRoom \subseteq Stayers
    <3>1. \A t \in Slots : \A n \in 1 .. 4 : ~In(task[t], "finished", 3 .. n + 2)
      BY <1>2, <2>1 DEF In
    <3>2. inRoom \subseteq Stayers
      BY <2>1 DEF MeetingInv, Empties, Torn
    <3>3. Clearing(waiting, 1) /\ Clearing(admitted, 2) /\ Clearing(denied, 3) /\ Clearing(present, 4)
      BY DEF MeetingInv, Empties
    <3>4. /\ waiting \subseteq belated /\ admitted \subseteq belated
          /\ denied \subseteq belated /\ present \subseteq belated
      BY <2>1, <3>1, <3>3 DEF Clearing
    <3> QED
      BY <3>2, <3>4
  <2> QED
    BY <2>1 DEF FinishedIsEmpty, Stayers
<1>6. NobodyWaitsUnseen
  BY <1>2 DEF MeetingInv, Unseen, Showing, In, NobodyWaitsUnseen
<1> QED
  BY <1>1, <1>3, <1>4, <1>5, <1>6

\* The variables of a meeting keep their types: in particular whoever is in the
\* room holds a token, and a handler is at a command of its script, whatever
\* clients ask and LiveKit reports.
THEOREM TypeCorrect == (Spec => []TypeOK) /\ (JourneySpec => []TypeOK)
  BY RoomInvariant, JourneyInvariant, Consequences, PTL

\* Once the handlers of a finished meeting have ended, the waiting room and the
\* presence hold only users written for after a teardown had begun, and the room
\* only users who connected that late, those inside when LiveKit failed to delete
\* the room, and those inside when a room_finished ended the row (tryEndRoom, then
\* clearRoom, then the row; handleRoomEvent).
THEOREM NothingIsLeftBehind == (Spec => []FinishedIsEmpty) /\ (JourneySpec => []FinishedIsEmpty)
  BY RoomInvariant, JourneyInvariant, Consequences, PTL

\* In a meeting with a waiting room a guest holds a LiveKit token only after the
\* host let the guest in (join checks the admission before it hands one out).
THEOREM OnlyTheAdmitted == (Spec => []NoStranger) /\ (JourneySpec => []NoStranger)
  BY RoomInvariant, JourneyInvariant, Consequences, PTL

\* When admissions, refusals and removals are done, in whatever order their Redis
\* commands ran, no guest is both admitted and blocked.
THEOREM DecisionsAreClear == (Spec => []OneDecision) /\ (JourneySpec => []OneDecision)
  BY RoomInvariant, JourneyInvariant, Consequences, PTL

\* A blocked guest is not in the room, but for three: one given a token while the
\* removal was under way, one who held a token he had not connected with, and one
\* whom LiveKit failed to remove.
THEOREM TheRemovedAreOut == (Spec => []KickHolds) /\ (JourneySpec => []KickHolds)
  BY RoomInvariant, JourneyInvariant, Consequences, PTL

\* A host who watches sees everybody who waits, once the handlers that change the
\* list have sent it (broadcastWaitingList reads it after the change).
THEOREM TheHostSeesAll == JourneySpec => []NobodyWaitsUnseen
  BY JourneyInvariant, Consequences, PTL

(***************************************************************************)
(* The waiting list and the sockets of those who wait.  A page greets once *)
(* on a socket, so that a socket has one knock; what the socket's data     *)
(* knows of it is withdrawn by the page or when the socket closes, and     *)
(* Redis sees the withdrawal after the knock.                              *)
(***************************************************************************)
Knocks(k, s)    == k.op = "knock" /\ k.sock = s
Withdraws(k, s) == In(k, "withdraw", {1}) /\ k.sock = s

\* No knock has come from the socket.
Fresh(s) == s \notin knocking /\ \A t \in Slots : ~Knocks(task[t], s)

\* What becomes of a knock that is about to be put on the list.
Foreseen(s) ==
    \/ s \in knocking /\ conn[s] = "open"
    \/ \E x \in Slots : Withdraws(task[x], s)
    \/ conn[s] = "closed" /\ ~Busy(s)

Doorstep ==
    /\ \A s \in Sockets : conn[s] # "closed" => ~Busy(s)
    /\ \A s \in Sockets : conn[s] = "new" \/ link[s] = "greet" => Fresh(s)
    /\ \A t, x \in Slots : \A s \in Sockets :
           Knocks(task[t], s) /\ Knocks(task[x], s) => t = x
    /\ \A t \in Slots : \A s \in Sockets :
           /\ Knocks(task[t], s) /\ task[t].step = 1 => s \notin knocking /\ ~Busy(s)
           /\ Knocks(task[t], s) /\ task[t].step = 2 => Foreseen(s)

Ghosts ==
    \A g \in waiting \ haunted :
        \/ \E s \in knocking : Owner[s] = g /\ conn[s] = "open"
        \/ \E t \in Slots : In(task[t], "withdraw", {1}) /\ task[t].who = g

\* A step that leaves the doorstep alone.
Aside ==
    /\ UNCHANGED <<knocking, conn>>
    /\ \A s \in Sockets : /\ link'[s] = "greet" => link[s] = "greet"
                          /\ task[s].op = "idle" => task'[s].op = "idle"
    /\ \A x \in Slots :
           /\ task'[x].op = "knock" =>
                  /\ task[x].op = "knock" /\ task'[x].sock = task[x].sock
                  /\ task'[x].step \in {1, 2} => task[x].step = task'[x].step
           /\ In(task[x], "withdraw", {1}) =>
                  /\ In(task'[x], "withdraw", {1})
                  /\ task'[x].sock = task[x].sock /\ task'[x].who = task[x].who

\* Such a step keeps the invariant of the doorstep.
LEMMA AsideKeeps ==
  ASSUME Doorstep, Aside
  PROVE  /\ Doorstep'
         /\ Ghosts /\ waiting' \ haunted' \subseteq waiting \ haunted => Ghosts'
<1>1. \A x \in Slots : \A s \in Sockets :
          /\ Knocks(task'[x], s) => Knocks(task[x], s)
          /\ Knocks(task'[x], s) /\ task'[x].step \in {1, 2} => task[x].step = task'[x].step
          /\ Withdraws(task[x], s) => Withdraws(task'[x], s)
  BY DEF Aside, Knocks, Withdraws
<1>2. /\ UNCHANGED <<knocking, conn>>
      /\ \A s \in Sockets : /\ link'[s] = "greet" => link[s] = "greet"
                            /\ task[s].op = "idle" => task'[s].op = "idle"
  BY DEF Aside
<1>3. (\A s \in Sockets : conn[s] # "closed" => ~Busy(s))'
  BY <1>2 DEF Doorstep, Busy
<1>4. (\A s \in Sockets : conn[s] = "new" \/ link[s] = "greet" => Fresh(s))'
  BY <1>1, <1>2 DEF Doorstep, Fresh
<1>5. (\A t, x \in Slots : \A s \in Sockets :
           Knocks(task[t], s) /\ Knocks(task[x], s) => t = x)'
  BY <1>1 DEF Doorstep
<1>6. \A t \in Slots : \A s \in Sockets :
          Knocks(task'[t], s) /\ task'[t].step = 1 => s \notin knocking' /\ task'[s].op = "idle"
  BY <1>1, <1>2 DEF Doorstep, Busy
<1>7. \A s \in Sockets : Foreseen(s) => Foreseen(s)'
  BY <1>1, <1>2 DEF Foreseen, Busy
<1>8. \A t \in Slots : \A s \in Sockets : Knocks(task'[t], s) /\ task'[t].step = 2 => Foreseen(s)'
  BY <1>1, <1>7 DEF Doorstep
<1>9. Ghosts /\ waiting' \ haunted' \subseteq waiting \ haunted => Ghosts'
  BY DEF Ghosts, Aside
<1> QED
  BY <1>3, <1>4, <1>5, <1>6, <1>8, <1>9 DEF Doorstep, Busy

\* What the handlers' steps other than those of a knock or a withdrawal do.
LEMMA StepsAside ==
  ASSUME TypeOK, Shaped, NEW t \in Slots, Step(t),
         ~In(task[t], "knock", {1, 2}), ~In(task[t], "withdraw", {1}),
         \A s \in Sockets : link'[s] = "greet" => link[s] = "greet"
  PROVE  Aside /\ waiting' \ haunted' \subseteq waiting \ haunted
<1>1. Turn(t)
  BY Turns
<1>2. Busy(t)
  BY DEF Step, RoomStep, LobbyStep, At, ReadRow, CheckDenied, CheckAdmitted, JoinLive, JoinLedger,
         JoinSeat, JoinToken, EndRoom, ReadCount, ClearRoom, StopMeeting, SyncRow, Kick, Unseat,
         Bar, Disown, Unlist, Enlist, CheckListed, Welcome, Unbar, Show, Look
<1>3. task[t].op = "knock" => task[t].step = 3
  <2>1. Len(Script["knock"]) = 3
    BY Lines
  <2>2. task[t].op = "knock" => task[t].step \in 1 .. 3
    BY <2>1 DEF Shaped, Shape
  <2> QED
    BY <2>2 DEF In
<1>4. Idle.op = "idle"
  BY Idling
<1>5. \A s \in Sockets : task[s].op = "idle" => task'[s].op = "idle"
  BY <1>1, <1>2 DEF Turn, Alike, Busy, Slots
<1>6. \A x \in Slots :
          /\ task'[x].op = "knock" =>
                 /\ task[x].op = "knock" /\ task'[x].sock = task[x].sock
                 /\ task'[x].step \in {1, 2} => task[x].step = task'[x].step
          /\ In(task[x], "withdraw", {1}) =>
                 /\ In(task'[x], "withdraw", {1})
                 /\ task'[x].sock = task[x].sock /\ task'[x].who = task[x].who
  BY <1>1, <1>3, <1>4 DEF Turn, Onward, Alike, In
<1>7. UNCHANGED <<knocking, conn>> /\ waiting' \ haunted' \subseteq waiting \ haunted
  <2>1. CASE ReadRow(t)
    <3>1. task[t].op # "knock"
      BY <2>1, Now DEF ReadRow, In
    <3> QED
      BY <2>1, <3>1 DEF ReadRow, redisVars, socketVars, pastVars
  <2>2. CASE CheckDenied(t)
    BY <2>2 DEF CheckDenied, redisVars, socketVars, pastVars
  <2>3. CASE CheckAdmitted(t)
    BY <2>3 DEF CheckAdmitted, redisVars, socketVars, pastVars
  <2>4. CASE JoinLive(t)
    BY <2>4 DEF JoinLive, redisVars, socketVars, pastVars
  <2>5. CASE JoinLedger(t)
    BY <2>5 DEF JoinLedger, redisVars, socketVars, pastVars
  <2>6. CASE JoinSeat(t)
    BY <2>6 DEF JoinSeat, Stray, redisVars, socketVars, pastVars
  <2>7. CASE JoinToken(t)
    BY <2>7 DEF JoinToken, Stray, redisVars, socketVars, pastVars
  <2>8. CASE EndRoom(t)
    BY <2>8 DEF EndRoom, EmptyRoom, Hooked, redisVars, socketVars, pastVars
  <2>9. CASE ReadCount(t)
    BY <2>9 DEF ReadCount, redisVars, socketVars, pastVars
  <2>10. CASE ClearRoom(t)
    BY <2>10 DEF ClearRoom, redisVars, socketVars, pastVars
  <2>11. CASE StopMeeting(t)
    BY <2>11 DEF StopMeeting, Verdict, redisVars, socketVars, pastVars
  <2>12. CASE SyncRow(t)
    BY <2>12 DEF SyncRow, redisVars, socketVars, pastVars
  <2>13. CASE Kick(t)
    BY <2>13 DEF Kick, Hooked, redisVars, socketVars, pastVars
  <2>14. CASE Unseat(t)
    BY <2>14 DEF Unseat, redisVars, socketVars, pastVars
  <2>15. CASE Bar(t)
    BY <2>15 DEF Bar, Stray, redisVars, socketVars, pastVars
  <2>16. CASE Disown(t)
    BY <2>16 DEF Disown, redisVars, socketVars, pastVars
  <2>17. CASE Unlist(t)
    BY <2>17 DEF Unlist, redisVars, socketVars, pastVars
  <2>18. CASE Enlist(t)
    BY <2>18, Now DEF Enlist, In
  <2>19. CASE CheckListed(t)
    BY <2>19 DEF CheckListed, redisVars, socketVars, pastVars
  <2>20. CASE Welcome(t)
    BY <2>20 DEF Welcome, Stray, redisVars, socketVars, pastVars
  <2>21. CASE Unbar(t)
    BY <2>21 DEF Unbar, redisVars, socketVars, pastVars
  <2>22. CASE Show(t)
    BY <2>22 DEF Show, SentToAll, redisVars, socketVars, pastVars
  <2>23. CASE Look(t)
    BY <2>23 DEF Look, redisVars, socketVars, pastVars
  <2> QED
    BY <2>1, <2>2, <2>3, <2>4, <2>5, <2>6, <2>7, <2>8, <2>9, <2>10, <2>11, <2>12, <2>13, <2>14, <2>15, <2>16, <2>17, <2>18, <2>19, <2>20, <2>21, <2>22, <2>23 DEF Step, RoomStep, LobbyStep
<1> QED
  BY <1>5, <1>6, <1>7 DEF Aside

\* The knock that finds the meeting is remembered by the socket that is still
\* open, or closed without it.
LEMMA KnockRead ==
  ASSUME TypeOK, Shaped, Doorstep, Ghosts, NEW t \in Slots, ReadRow(t),
         In(task[t], "knock", {1}), \A s \in Sockets : link'[s] = "greet" => link[s] = "greet"
  PROVE  Doorstep' /\ Ghosts'
<1> DEFINE s == task[t].sock
<1>1. Turn(t) /\ s \in Sockets /\ Knocks(task[t], s) /\ task[t].step = 1
  <2>1. Turn(t)
    BY Turns DEF Step, RoomStep
  <2> QED
    BY <2>1 DEF Shaped, Shape, In, Knocks
<1>2. UNCHANGED <<conn, waiting, haunted>>
  BY DEF ReadRow, redisVars, pastVars
<1>3. \A x \in Sockets : task[x].op = "idle" => task'[x].op = "idle"
  BY <1>1 DEF Turn, Alike, Slots, In
<1>4. Idle.op = "idle"
  BY Idling
<1>5. \A x \in Slots :
          /\ task'[x].op = "knock" => task[x].op = "knock" /\ task'[x].sock = task[x].sock
          /\ x # t => task'[x].step = task[x].step
          /\ In(task[x], "withdraw", {1}) =>
                 /\ In(task'[x], "withdraw", {1})
                 /\ task'[x].sock = task[x].sock /\ task'[x].who = task[x].who
  BY <1>1, <1>4 DEF Turn, Onward, Alike, In
<1>6. CASE knocking' = knocking /\ task'[t] = Idle
  <2>1. Aside
    BY <1>2, <1>3, <1>4, <1>5, <1>6 DEF Aside
  <2> QED
    BY <1>2, <2>1, AsideKeeps
<1>7. CASE knocking' = knocking \cup {s} /\ Onward(t)
  <2>1. task'[t].step = 2
    BY <1>1, <1>7 DEF Onward
  <2>2. \A x \in Slots : \A r \in Sockets :
            /\ Knocks(task'[x], r) => Knocks(task[x], r)
            /\ Withdraws(task[x], r) => Withdraws(task'[x], r)
    BY <1>5 DEF Knocks, Withdraws
  <2>3. (\A r \in Sockets : conn[r] # "closed" => ~Busy(r))'
    BY <1>2, <1>3 DEF Doorstep, Busy
  <2>4. (\A r \in Sockets : conn[r] = "new" \/ link[r] = "greet" => Fresh(r))'
    BY <1>1, <1>2, <1>7, <2>2 DEF Doorstep, Fresh
  <2>5. (\A x, y \in Slots : \A r \in Sockets :
            Knocks(task[x], r) /\ Knocks(task[y], r) => x = y)'
    BY <2>2 DEF Doorstep
  <2>6. ASSUME NEW x \in Slots, NEW r \in Sockets, Knocks(task'[x], r), task'[x].step = 1
        PROVE  r \notin knocking' /\ ~Busy(r)'
    <3>1. x # t /\ Knocks(task[x], r) /\ task[x].step = 1
      BY <1>5, <2>1, <2>2, <2>6
    <3>2. r # s
      BY <1>1, <3>1 DEF Doorstep
    <3> QED
      BY <1>3, <1>7, <3>1, <3>2 DEF Doorstep, Busy
  <2>7. ASSUME NEW x \in Slots, NEW r \in Sockets, Knocks(task'[x], r), task'[x].step = 2
        PROVE  Foreseen(r)'
    <3>1. CASE x = t
      <4>1. r = s
        BY <1>1, <2>2, <2>7, <3>1 DEF Knocks
      <4>2. conn[s] # "new" /\ task[s].op = "idle"
        BY <1>1 DEF Doorstep, Fresh, Busy
      <4>3. conn[s] = "open" \/ conn[s] = "closed"
        BY <1>1, <4>2 DEF TypeOK
      <4> QED
        BY <1>1, <1>2, <1>3, <1>7, <4>1, <4>2, <4>3 DEF Foreseen, Busy
    <3>2. CASE x # t
      <4>1. Foreseen(r)
        BY <1>5, <2>2, <2>7, <3>2 DEF Doorstep
      <4> QED
        BY <1>2, <1>3, <1>7, <2>2, <4>1 DEF Foreseen, Busy
    <3> QED
      BY <3>1, <3>2
  <2>8. Ghosts'
    BY <1>2, <1>5, <1>7 DEF Ghosts
  <2> QED
    BY <2>3, <2>4, <2>5, <2>6, <2>7, <2>8 DEF Doorstep
<1>8. CASE Allowed("knock")
  <2>1. knocking' = knocking \cup {s}
    BY <1>1, <1>8 DEF ReadRow, Knocks
  <2>2. task'[t] = Noted(t)
    BY <1>1, <1>8 DEF ReadRow, Knocks, TypeOK, Noted
  <2>3. task'[t].op = "knock"
    <3>1. Len(Script["knock"]) = 3
      BY Lines
    <3>2. Stepped(t) = [task[t] EXCEPT !.step = @ + 1]
      BY <1>1, <3>1 DEF Stepped, Knocks
    <3>3. task[t] \in Tasks /\ task[t].op = "knock"
      BY <1>1 DEF TypeOK, Knocks
    <3> QED
      BY <2>2, <3>2, <3>3 DEF Tasks, Noted
  <2> QED
    BY <1>1, <1>4, <1>7, <2>1, <2>3 DEF Turn
<1>9. CASE ~Allowed("knock")
  <2>1. knocking' = knocking /\ task'[t] = Idle
    BY <1>1, <1>9 DEF ReadRow, Knocks, TypeOK
  <2> QED
    BY <1>6, <2>1
<1> QED
  BY <1>8, <1>9

\* A withdrawal takes off the list whoever has not been put on it again since,
\* and no knock of its socket is left.
LEMMA WithdrawalDone ==
  ASSUME TypeOK, Shaped, Doorstep, Ghosts, NEW t \in Slots, Unlist(t),
         In(task[t], "withdraw", {1}), \A s \in Sockets : link'[s] = "greet" => link[s] = "greet"
  PROVE  Doorstep' /\ Ghosts'
<1> DEFINE s == task[t].sock
<1>1. Turn(t) /\ s \in Sockets /\ task[t].op = "withdraw"
  <2>1. Turn(t)
    BY Turns DEF Step, RoomStep
  <2> QED
    BY <2>1 DEF Shaped, Shape, In
<1>2. /\ UNCHANGED <<conn, knocking>>
      /\ waiting' = waiting \ {task[t].who} /\ haunted' = haunted \ {task[t].who}
      /\ \A x \in Slots : At(x, "enlist") => task[x].sock # s
  BY DEF Unlist, socketVars
<1>3. \A x \in Slots : Knocks(task[x], s) => task[x].step # 2
  BY <1>2, Now DEF Knocks, In
<1>4. Idle.op = "idle"
  BY Idling
<1>5. \A x \in Sockets : task[x].op = "idle" => task'[x].op = "idle"
  BY <1>1 DEF Turn, Alike, Slots
<1>6. \A x \in Slots :
          /\ task'[x].op = "knock" =>
                /\ task[x].op = "knock" /\ task'[x].sock = task[x].sock
                /\ task'[x].step = task[x].step
          /\ In(task[x], "withdraw", {1}) /\ x # t =>
                 /\ In(task'[x], "withdraw", {1})
                 /\ task'[x].sock = task[x].sock /\ task'[x].who = task[x].who
  BY <1>1, <1>4 DEF Turn, Onward, Alike, In
<1>7. \A x \in Slots : \A r \in Sockets :
            /\ Knocks(task'[x], r) => Knocks(task[x], r) /\ task'[x].step = task[x].step
            /\ Withdraws(task[x], r) /\ r # s => Withdraws(task'[x], r)
  BY <1>6 DEF Knocks, Withdraws
<1>8. (\A r \in Sockets : conn[r] # "closed" => ~Busy(r))'
  BY <1>2, <1>5 DEF Doorstep, Busy
<1>9. (\A r \in Sockets : conn[r] = "new" \/ link[r] = "greet" => Fresh(r))'
  BY <1>2, <1>7 DEF Doorstep, Fresh
<1>10. (\A x, y \in Slots : \A r \in Sockets :
            Knocks(task[x], r) /\ Knocks(task[y], r) => x = y)'
  BY <1>7 DEF Doorstep
<1>11. \A x \in Slots : \A r \in Sockets :
           Knocks(task'[x], r) /\ task'[x].step = 1 => r \notin knocking' /\ ~Busy(r)'
  BY <1>2, <1>5, <1>7 DEF Doorstep, Busy
<1>12. ASSUME NEW x \in Slots, NEW r \in Sockets, Knocks(task'[x], r), task'[x].step = 2
       PROVE  Foreseen(r)'
  <2>1. r # s /\ Foreseen(r)
    BY <1>3, <1>7, <1>12 DEF Doorstep
  <2> QED
    BY <1>2, <1>5, <1>7, <2>1 DEF Foreseen, Busy
<1>13. Ghosts'
  BY <1>2, <1>6 DEF Ghosts
<1> QED
  BY <1>8, <1>9, <1>10, <1>11, <1>12, <1>13 DEF Doorstep

\* Whoever is put on the list can be taken off it, or is known to haunt it.
LEMMA KnockListed ==
  ASSUME TypeOK, Shaped, Doorstep, Ghosts, NEW t \in Slots, Enlist(t),
         \A s \in Sockets : link'[s] = "greet" => link[s] = "greet"
  PROVE  Doorstep' /\ Ghosts'
<1> DEFINE s == task[t].sock
<1>1. Turn(t) /\ In(task[t], "knock", {2})
  BY Turns, Now DEF Step, LobbyStep, Enlist
<1>2. s \in Sockets /\ task[t].who = Owner[s] /\ Knocks(task[t], s) /\ task[t].step = 2
  BY <1>1 DEF Shaped, Shape, In, Knocks
<1>3. /\ UNCHANGED <<conn, knocking>>
      /\ waiting' = waiting \cup {Owner[s]}
      /\ haunted' = IF conn[s] = "closed" /\ ~Busy(s) THEN haunted \cup {Owner[s]} ELSE haunted
  BY <1>2 DEF Enlist, socketVars
<1>4. Idle.op = "idle"
  BY Idling
<1>5. \A x \in Sockets : task[x].op = "idle" => task'[x].op = "idle"
  BY <1>1 DEF Turn, Alike, Slots, In
<1>6. \A x \in Slots :
          /\ task'[x].op = "knock" =>
                 /\ task[x].op = "knock" /\ task'[x].sock = task[x].sock
                 /\ task'[x].step \in {1, 2} => task[x].step = task'[x].step
          /\ In(task[x], "withdraw", {1}) =>
                 /\ In(task'[x], "withdraw", {1})
                 /\ task'[x].sock = task[x].sock /\ task'[x].who = task[x].who
  BY <1>1, <1>4 DEF Turn, Onward, Alike, In
<1>7. Doorstep'
  <2>1. Aside
    BY <1>3, <1>5, <1>6 DEF Aside
  <2> QED
    BY <2>1, AsideKeeps
<1>8. Foreseen(s)
  BY <1>2 DEF Doorstep
<1>9. Owner[s] \in haunted' \/ (s \in knocking /\ conn[s] = "open")
      \/ (\E x \in Slots : In(task'[x], "withdraw", {1}) /\ task'[x].who = Owner[s])
  <2>1. \A x \in Slots : Withdraws(task[x], s) => task[x].who = Owner[s]
    BY DEF Withdraws, In, Shaped, Shape
  <2> QED
    BY <1>3, <1>6, <1>8, <2>1 DEF Foreseen, Withdraws
<1>10. Ghosts'
  BY <1>2, <1>3, <1>6, <1>9 DEF Ghosts
<1> QED
  BY <1>7, <1>10

\* The step of a handler.
LEMMA DoorstepServed ==
  ASSUME TypeOK, Shaped, Doorstep, Ghosts, NEW t \in Slots, Step(t),
         \A s \in Sockets : link'[s] = "greet" => link[s] = "greet"
  PROVE  Doorstep' /\ Ghosts'
<1>1. CASE In(task[t], "knock", {1})
  <2>1. ReadRow(t)
    <3>1. Script["knock"][1] = "row"
      BY Lines
    <3>2. At(t, "row")
      BY <1>1, <3>1 DEF At, Busy, In
    <3>3. /\ Script[task[t].op][task[t].step] = "row"
          /\ task[t].op = "knock" /\ task[t].step = 1
      BY <1>1, <3>1 DEF In
    <3> QED
      BY <3>3 DEF Step, RoomStep, LobbyStep, At, CheckDenied, CheckAdmitted, JoinLive, JoinLedger,
         JoinSeat, JoinToken, EndRoom, ReadCount, ClearRoom, StopMeeting, SyncRow, Kick, Unseat,
         Bar, Disown, Unlist, Enlist, CheckListed, Welcome, Unbar, Show, Look
  <2> QED
    BY <1>1, <2>1, KnockRead
<1>2. CASE In(task[t], "knock", {2})
  <2>1. Script[task[t].op][task[t].step] = "enlist"
    BY <1>2, Lines DEF In
  <2>2. Enlist(t)
    BY <2>1 DEF Step, RoomStep, LobbyStep, At, ReadRow, CheckDenied, CheckAdmitted, JoinLive, JoinLedger,
         JoinSeat, JoinToken, EndRoom, ReadCount, ClearRoom, StopMeeting, SyncRow, Kick, Unseat,
         Bar, Disown, Unlist, CheckListed, Welcome, Unbar, Show, Look
  <2> QED
    BY <2>2, KnockListed
<1>3. CASE In(task[t], "withdraw", {1})
  <2>1. Script[task[t].op][task[t].step] = "unlist"
    BY <1>3, Lines DEF In
  <2>2. Unlist(t)
    BY <2>1 DEF Step, RoomStep, LobbyStep, At, ReadRow, CheckDenied, CheckAdmitted, JoinLive, JoinLedger,
         JoinSeat, JoinToken, EndRoom, ReadCount, ClearRoom, StopMeeting, SyncRow, Kick, Unseat,
         Bar, Disown, Enlist, CheckListed, Welcome, Unbar, Show, Look
  <2> QED
    BY <1>3, <2>2, WithdrawalDone
<1>4. CASE ~In(task[t], "knock", {1, 2}) /\ ~In(task[t], "withdraw", {1})
  BY <1>4, StepsAside, AsideKeeps
<1> QED
  BY <1>1, <1>2, <1>3, <1>4 DEF In

\* A request is a new task in an idle slot.
LEMMA Started ==
  ASSUME TypeOK, NEW t \in Slots, NEW op, NEW u, NEW s, Start(t, op, u, s)
  PROVE  /\ task[t].op = "idle"
         /\ task'[t].op = op /\ task'[t].who = u /\ task'[t].sock = s /\ task'[t].step = 1
         /\ \A x \in Slots \ {t} : task'[x] = task[x]
<1>1. task \in [Slots -> Tasks]
  BY DEF TypeOK
<1>2. task' = [task EXCEPT ![t] = [Idle EXCEPT !.op = op, !.who = u, !.sock = s]] /\ ~Busy(t)
  BY DEF Start
<1>3. task'[t] = [Idle EXCEPT !.op = op, !.who = u, !.sock = s]
  BY <1>1, <1>2
<1>4. \A x \in Slots \ {t} : task'[x] = task[x]
  BY <1>1, <1>2
<1>5. Idle \in Tasks /\ Idle.step = 1
  BY Idling DEF Idle
<1>6. task'[t].op = op /\ task'[t].who = u /\ task'[t].sock = s /\ task'[t].step = 1
  BY <1>3, <1>5 DEF Tasks
<1> QED
  BY <1>2, <1>4, <1>6 DEF Busy

\* No socket's slot is a handler.
LEMMA RequestsAside ==
  ASSUME TypeOK, NEW t \in Handlers, NEW op, NEW u, NEW s, Start(t, op, u, s),
         op \notin {"knock", "withdraw"}, UNCHANGED <<knocking, conn>>,
         \A r \in Sockets : link'[r] = "greet" => link[r] = "greet"
  PROVE  Aside
<1>1. t \in Slots /\ t \notin Sockets
  BY SlotAssumption DEF Slots
<1>2. /\ task[t].op = "idle" /\ task'[t].op = op
      /\ \A x \in Slots \ {t} : task'[x] = task[x]
  BY <1>1, Started
<1> QED
  BY <1>1, <1>2 DEF Aside, In, Slots

\* A knock begins on the socket nobody has knocked on.
LEMMA Greeted ==
  ASSUME TypeOK, Doorstep, Ghosts, link \in [Sockets -> Links],
         NEW t \in Slots, NEW s \in Sockets, Greet(t, s)
  PROVE  Doorstep' /\ Ghosts'
<1>1. t \in Slots /\ t \notin Sockets
  BY SlotAssumption DEF Slots, Greet, BeginKnock
<1>2. /\ task[t].op = "idle" /\ task'[t].op = "knock" /\ task'[t].sock = s /\ task'[t].step = 1
      /\ \A x \in Slots \ {t} : task'[x] = task[x]
  BY <1>1, Started DEF Greet, BeginKnock
<1>3. /\ UNCHANGED <<knocking, conn, waiting, haunted>> /\ link' = [link EXCEPT ![s] = "on"]
      /\ conn[s] = "open" /\ link[s] = "greet"
  BY DEF Greet, BeginKnock, redisVars, socketVars, pastVars
<1>4. Fresh(s) /\ ~Busy(s)
  BY <1>3 DEF Doorstep
<1>5. \A r \in Sockets : task'[r] = task[r]
  BY <1>1, <1>2 DEF Slots
<1>6. \A x \in Slots : \A r \in Sockets :
          /\ Knocks(task'[x], r) <=> Knocks(task[x], r) \/ (x = t /\ r = s)
          /\ x # t => task'[x] = task[x]
          /\ Withdraws(task[x], r) => Withdraws(task'[x], r)
  BY <1>2 DEF Knocks, Withdraws, In
<1>7. (\A r \in Sockets : conn[r] # "closed" => ~Busy(r))'
  BY <1>3, <1>5 DEF Doorstep, Busy
<1>8. ASSUME NEW r \in Sockets, conn'[r] = "new" \/ link'[r] = "greet" PROVE Fresh(r)'
  <2>1. r # s /\ (conn[r] = "new" \/ link[r] = "greet")
    BY <1>3, <1>8
  <2> QED
    BY <1>3, <1>6, <2>1 DEF Doorstep, Fresh
<1>9. (\A x, y \in Slots : \A r \in Sockets :
           Knocks(task[x], r) /\ Knocks(task[y], r) => x = y)'
  BY <1>4, <1>6 DEF Doorstep, Fresh
<1>10. \A x \in Slots : \A r \in Sockets :
           Knocks(task'[x], r) /\ task'[x].step = 1 => r \notin knocking' /\ ~Busy(r)'
  BY <1>2, <1>3, <1>4, <1>5, <1>6 DEF Doorstep, Fresh, Busy, Knocks
<1>11. ASSUME NEW x \in Slots, NEW r \in Sockets, Knocks(task'[x], r), task'[x].step = 2
       PROVE  Foreseen(r)'
  <2>1. Foreseen(r)
    BY <1>2, <1>6, <1>11 DEF Doorstep
  <2> QED
    BY <1>3, <1>5, <1>6, <2>1 DEF Foreseen, Busy
<1>12. Ghosts'
  BY <1>2, <1>3 DEF Ghosts, In
<1> QED
  BY <1>7, <1>8, <1>9, <1>10, <1>11, <1>12 DEF Doorstep

\* The page takes its knock back: a withdrawal is on its way.
LEMMA TakenBack ==
  ASSUME TypeOK, Doorstep, Ghosts, link \in [Sockets -> Links],
         NEW t \in Slots, NEW s \in Sockets, Bye(t, s)
  PROVE  Doorstep' /\ Ghosts'
<1>1. t \in Slots /\ t \notin Sockets
  BY SlotAssumption DEF Slots, Bye, BeginWithdraw
<1>2. /\ task[t].op = "idle" /\ task'[t].op = "withdraw" /\ task'[t].sock = s /\ task'[t].step = 1
      /\ task'[t].who = Owner[s]
      /\ \A x \in Slots \ {t} : task'[x] = task[x]
  BY <1>1, Started DEF Bye, BeginWithdraw
<1>3. /\ UNCHANGED <<conn, waiting, haunted>> /\ link' = [link EXCEPT ![s] = "gone"]
      /\ knocking' = knocking \ {s}
  BY DEF Bye, BeginWithdraw, redisVars, pastVars
<1>4. \A r \in Sockets : link'[r] = "greet" => link[r] = "greet"
  BY <1>3
<1>5. \A r \in Sockets : task'[r] = task[r]
  BY <1>1, <1>2 DEF Slots
<1>6. \A x \in Slots : \A r \in Sockets :
          /\ Knocks(task'[x], r) => Knocks(task[x], r) /\ task'[x] = task[x]
          /\ Withdraws(task[x], r) => Withdraws(task'[x], r)
  BY <1>2 DEF Knocks, Withdraws, In
<1>7. (\A r \in Sockets : conn[r] # "closed" => ~Busy(r))'
  BY <1>3, <1>5 DEF Doorstep, Busy
<1>8. (\A r \in Sockets : conn[r] = "new" \/ link[r] = "greet" => Fresh(r))'
  BY <1>3, <1>4, <1>6 DEF Doorstep, Fresh
<1>9. (\A x, y \in Slots : \A r \in Sockets :
           Knocks(task[x], r) /\ Knocks(task[y], r) => x = y)'
  BY <1>6 DEF Doorstep
<1>10. \A x \in Slots : \A r \in Sockets :
           Knocks(task'[x], r) /\ task'[x].step = 1 => r \notin knocking' /\ ~Busy(r)'
  BY <1>3, <1>5, <1>6 DEF Doorstep, Busy
<1>11. ASSUME NEW x \in Slots, NEW r \in Sockets, Knocks(task'[x], r), task'[x].step = 2
       PROVE  Foreseen(r)'
  <2>1. Foreseen(r)
    BY <1>6, <1>11 DEF Doorstep
  <2>2. Withdraws(task'[t], s)
    BY <1>2 DEF Withdraws, In
  <2> QED
    BY <1>3, <1>5, <1>6, <2>1, <2>2 DEF Foreseen, Busy
<1>12. Ghosts'
  <2>1. \A x \in Slots : In(task[x], "withdraw", {1}) =>
            In(task'[x], "withdraw", {1}) /\ task'[x].who = task[x].who
    BY <1>2 DEF In
  <2>2. In(task'[t], "withdraw", {1}) /\ task'[t].who = Owner[s]
    BY <1>2 DEF In
  <2> QED
    BY <1>3, <2>1, <2>2 DEF Ghosts
<1> QED
  BY <1>7, <1>8, <1>9, <1>10, <1>11, <1>12 DEF Doorstep

\* A socket opens with nothing knocked.
LEMMA Dialled ==
  ASSUME TypeOK, Doorstep, Ghosts, link \in [Sockets -> Links],
         NEW g \in Guests, NEW s \in Sockets, Dial(g, s)
  PROVE  Doorstep' /\ Ghosts'
<1>1. /\ UNCHANGED <<knocking, task, waiting, haunted>> /\ conn[s] = "new"
      /\ conn' = [conn EXCEPT ![s] = "open"] /\ link' = [link EXCEPT ![s] = "greet"]
  BY DEF Dial, Open, redisVars, pastVars
<1>2. /\ \A r \in Sockets : r # s => conn'[r] = conn[r] /\ link'[r] = link[r]
      /\ conn'[s] = "open"
  BY <1>1 DEF TypeOK
<1>3. Fresh(s) /\ ~Busy(s)
  BY <1>1 DEF Doorstep
<1>4. (\A r \in Sockets : conn[r] # "closed" => ~Busy(r))'
  BY <1>1, <1>2, <1>3 DEF Doorstep, Busy
<1>5. (\A r \in Sockets : conn[r] = "new" \/ link[r] = "greet" => Fresh(r))'
  BY <1>1, <1>2, <1>3 DEF Doorstep, Fresh
<1>6. \A r \in Sockets : Foreseen(r) => Foreseen(r)'
  BY <1>1, <1>2 DEF Foreseen, Busy
<1>7. Ghosts'
  BY <1>1, <1>2 DEF Ghosts, TypeOK
<1> QED
  BY <1>1, <1>4, <1>5, <1>6, <1>7 DEF Doorstep, Busy

\* handleDisconnect withdraws the knock the socket knows of.
LEMMA HungUp ==
  ASSUME TypeOK, Doorstep, Ghosts, link \in [Sockets -> Links], NEW s \in Sockets, Hang(s)
  PROVE  Doorstep' /\ Ghosts'
<1>1. /\ UNCHANGED <<knocking, waiting, haunted>> /\ conn[s] = "open"
      /\ conn' = [conn EXCEPT ![s] = "closed"] /\ link' = [link EXCEPT ![s] = "gone"]
  BY DEF Hang, Close, redisVars, pastVars
<1>2. /\ \A r \in Sockets : r # s => conn'[r] = conn[r] /\ link'[r] = link[r]
      /\ conn'[s] = "closed" /\ link'[s] = "gone"
  BY <1>1 DEF TypeOK
<1>3. /\ task[s].op = "idle" /\ s \in Slots
      /\ \A x \in Slots \ {s} : task'[x] = task[x]
      /\ IF s \in knocking
         THEN task'[s].op = "withdraw" /\ task'[s].step = 1 /\ task'[s].sock = s
              /\ task'[s].who = Owner[s]
         ELSE task'[s] = task[s]
  <2>1. s \in Slots /\ ~Busy(s)
    BY <1>1 DEF Slots, Doorstep
  <2>2. CASE s \in knocking
    <3>1. Start(s, "withdraw", Owner[s], s)
      BY <2>2 DEF Hang, Close
    <3> QED
      BY <2>1, <2>2, <3>1, Started
  <2>3. CASE s \notin knocking
    BY <2>1, <2>3 DEF Hang, Close, Busy
  <2> QED
    BY <2>2, <2>3
<1>4. \A x \in Slots : \A r \in Sockets :
          /\ Knocks(task'[x], r) => Knocks(task[x], r) /\ task'[x] = task[x]
          /\ Withdraws(task[x], r) => Withdraws(task'[x], r)
  BY <1>3 DEF Knocks, Withdraws, In
<1>5. \A r \in Sockets : r # s \/ s \notin knocking => task'[r] = task[r]
  BY <1>3 DEF Slots
<1>6. (\A r \in Sockets : conn[r] # "closed" => ~Busy(r))'
  BY <1>2, <1>5 DEF Doorstep, Busy
<1>7. (\A r \in Sockets : conn[r] = "new" \/ link[r] = "greet" => Fresh(r))'
  BY <1>1, <1>2, <1>4 DEF Doorstep, Fresh
<1>8. (\A x, y \in Slots : \A r \in Sockets :
           Knocks(task[x], r) /\ Knocks(task[y], r) => x = y)'
  BY <1>4 DEF Doorstep
<1>9. \A x \in Slots : \A r \in Sockets :
           Knocks(task'[x], r) /\ task'[x].step = 1 => r \notin knocking' /\ ~Busy(r)'
  BY <1>1, <1>4, <1>5 DEF Doorstep, Busy
<1>10. ASSUME NEW x \in Slots, NEW r \in Sockets, Knocks(task'[x], r), task'[x].step = 2
       PROVE  Foreseen(r)'
  <2>1. Foreseen(r)
    BY <1>4, <1>10 DEF Doorstep
  <2>2. s \in knocking => Withdraws(task'[s], s)
    BY <1>3 DEF Withdraws, In
  <2> QED
    BY <1>1, <1>2, <1>3, <1>4, <1>5, <2>1, <2>2 DEF Foreseen, Busy
<1>11. Ghosts'
  <2>1. \A x \in Slots : In(task[x], "withdraw", {1}) =>
            In(task'[x], "withdraw", {1}) /\ task'[x].who = task[x].who
    BY <1>3 DEF In
  <2>2. s \in knocking => In(task'[s], "withdraw", {1}) /\ task'[s].who = Owner[s]
    BY <1>3 DEF In
  <2>3. ASSUME NEW r \in knocking, conn[r] = "open"
        PROVE  \/ r \in knocking' /\ conn'[r] = "open"
               \/ \E t \in Slots : In(task'[t], "withdraw", {1}) /\ task'[t].who = Owner[r]
    <3>1. CASE r = s
      BY <1>3, <2>2, <2>3, <3>1
    <3>2. CASE r # s
      BY <1>1, <1>2, <2>3, <3>2 DEF TypeOK
    <3> QED
      BY <3>1, <3>2
  <2>4. ASSUME NEW g \in waiting' \ haunted'
        PROVE  \/ \E r \in knocking' : Owner[r] = g /\ conn'[r] = "open"
               \/ \E t \in Slots : In(task'[t], "withdraw", {1}) /\ task'[t].who = g
    <3>1. CASE \E r \in knocking : Owner[r] = g /\ conn[r] = "open"
      BY <2>3, <3>1
    <3>2. CASE \E t \in Slots : In(task[t], "withdraw", {1}) /\ task[t].who = g
      BY <2>1, <3>2
    <3> QED
      BY <1>1, <3>1, <3>2 DEF Ghosts
  <2> QED
    BY <2>4 DEF Ghosts
<1> QED
  BY <1>6, <1>7, <1>8, <1>9, <1>10, <1>11 DEF Doorstep

\* The invariant of the journey, which NoGhostKnock needs whole.
JourneyInv == MeetingInv /\ link \in [Sockets -> Links] /\ Doorstep /\ Ghosts

\* The waiting screens keep to their states.
LEMMA LinksStay ==
  link \in [Sockets -> Links] /\ [JourneyNext]_<<vars, journeyVars>>
      => (link \in [Sockets -> Links])'
<1> SUFFICES ASSUME link \in [Sockets -> Links], JourneyNext PROVE link' \in [Sockets -> Links]
  BY DEF journeyVars
<1>1. /\ UNCHANGED link => link' \in [Sockets -> Links]
      /\ \A g : Unmounted(g) => link' \in [Sockets -> Links]
  BY DEF Unmounted, Links
<1>2. \A s \in Sockets : \A w \in Links : link' = [link EXCEPT ![s] = w] => link' \in [Sockets -> Links]
  OBVIOUS
<1>3. {"greet", "on", "gone"} \subseteq Links
  BY DEF Links
<1>4. ASSUME NEW t \in Slots, ServerStep(t) PROVE link' \in [Sockets -> Links]
  BY <1>1, <1>4 DEF ServerStep, journeyVars
<1>5. ASSUME NEW t \in Slots, Watch(t) PROVE link' \in [Sockets -> Links]
  BY <1>1, <1>5 DEF Watch, journeyVars
<1>6. ASSUME NEW t \in Slots, NEW g \in Guests,
             ClickJoin(t, g) \/ Expel(t, g) \/ \E op \in {"admit", "deny"} : Decide(t, op, g)
      PROVE  link' \in [Sockets -> Links]
  BY <1>1, <1>6 DEF ClickJoin, Expel, Decide, journeyVars
<1>7. ASSUME NEW t \in Slots, NEW s \in Sockets, Greet(t, s) \/ Bye(t, s) \/ Hear(t, s)
      PROVE  link' \in [Sockets -> Links]
  BY <1>1, <1>2, <1>3, <1>7 DEF Greet, Bye, Hear
<1>8. ASSUME NEW g \in Guests, \/ Load(g) \/ GoBack(g) \/ EnterRoom(g) \/ LeaveRoom(g)
                               \/ ThrownOut(g) \/ Return(g)
      PROVE  link' \in [Sockets -> Links]
  BY <1>1, <1>8 DEF Load, GoBack, EnterRoom, LeaveRoom, ThrownOut, Return, journeyVars
<1>9. ASSUME NEW g \in Guests, NEW s \in Sockets, Dial(g, s) PROVE link' \in [Sockets -> Links]
  BY <1>2, <1>3, <1>9 DEF Dial
<1>10. ASSUME NEW s \in Sockets, Hang(s) PROVE link' \in [Sockets -> Links]
  BY <1>2, <1>3, <1>10 DEF Hang
<1>11. CASE HostReconnects
  BY <1>1, <1>11 DEF HostReconnects, journeyVars
<1> QED
  BY <1>4, <1>5, <1>6, <1>7, <1>8, <1>9, <1>10, <1>11 DEF JourneyNext

\* Every step of the journey keeps the invariant of the doorstep.
LEMMA DoorstepKept ==
  TypeOK /\ Shaped /\ Doorstep /\ Ghosts /\ link \in [Sockets -> Links]
  /\ [JourneyNext]_<<vars, journeyVars>> => Doorstep' /\ Ghosts'
<1> SUFFICES ASSUME TypeOK, Shaped, Doorstep, Ghosts, link \in [Sockets -> Links],
                    [JourneyNext]_<<vars, journeyVars>>
             PROVE  Doorstep' /\ Ghosts'
  OBVIOUS
<1> DEFINE Calmly == \A s \in Sockets : link'[s] = "greet" => link[s] = "greet"
<1>1. (UNCHANGED link => Calmly) /\ \A g : Unmounted(g) => Calmly
  BY DEF Unmounted
<1>2. ASSUME Calmly, UNCHANGED <<knocking, conn, task>>, waiting' \ haunted' \subseteq waiting \ haunted
      PROVE  Doorstep' /\ Ghosts'
  <2>1. Aside
    BY <1>2 DEF Aside
  <2> QED
    BY <1>2, <2>1, AsideKeeps
<1>3. ASSUME NEW t \in Handlers, NEW op \in {"join", "remove", "admit", "deny", "watch"}, NEW u, NEW s,
             Start(t, op, u, s), Calmly, UNCHANGED <<knocking, conn, waiting, haunted>>
      PROVE  Doorstep' /\ Ghosts'
  <2>1. Aside
    BY <1>3, RequestsAside
  <2> QED
    BY <1>3, <2>1, AsideKeeps
<1>4. ASSUME NEW t \in Slots, ServerStep(t) PROVE Doorstep' /\ Ghosts'
  <2>1. Calmly
    BY <1>1, <1>4 DEF ServerStep, journeyVars
  <2> QED
    BY <1>4, <2>1, DoorstepServed DEF ServerStep
<1>5. ASSUME NEW t \in Slots, Watch(t) PROVE Doorstep' /\ Ghosts'
  BY <1>1, <1>3, <1>5 DEF Watch, BeginWatch, journeyVars, redisVars, socketVars, pastVars
<1>6. ASSUME NEW t \in Slots, NEW g \in Guests, ClickJoin(t, g) PROVE Doorstep' /\ Ghosts'
  BY <1>1, <1>3, <1>6 DEF ClickJoin, BeginJoin, redisVars, socketVars, pastVars
<1>7. ASSUME NEW t \in Slots, NEW g \in Guests, NEW op \in {"remove", "admit", "deny"},
             BeginAbout(t, op, g), UNCHANGED journeyVars
      PROVE  Doorstep' /\ Ghosts'
  BY <1>1, <1>3, <1>7 DEF BeginAbout, journeyVars, redisVars, socketVars, pastVars
<1>8. ASSUME NEW t \in Slots, NEW g \in Guests, Expel(t, g) PROVE Doorstep' /\ Ghosts'
  BY <1>7, <1>8 DEF Expel
<1>9. ASSUME NEW t \in Slots, NEW g \in Guests, NEW op \in {"admit", "deny"}, Decide(t, op, g)
      PROVE  Doorstep' /\ Ghosts'
  BY <1>7, <1>9 DEF Decide
<1>10. ASSUME NEW t \in Slots, NEW s \in Sockets, Greet(t, s) PROVE Doorstep' /\ Ghosts'
  BY <1>10, Greeted
<1>11. ASSUME NEW t \in Slots, NEW s \in Sockets, Bye(t, s) PROVE Doorstep' /\ Ghosts'
  BY <1>11, TakenBack
<1>12. ASSUME NEW t \in Slots, NEW s \in Sockets, Hear(t, s) PROVE Doorstep' /\ Ghosts'
  <2>1. UNCHANGED <<knocking, conn, waiting, haunted>> /\ Calmly
    BY <1>1, <1>12 DEF Hear, redisVars, socketVars, pastVars
  <2>2. CASE Start(t, "join", Owner[s], None) /\ t \in Handlers
    BY <1>3, <2>1, <2>2
  <2>3. CASE UNCHANGED task
    BY <1>2, <2>1, <2>3
  <2> QED
    BY <1>12, <2>2, <2>3 DEF Hear
<1>13. ASSUME NEW g \in Guests, EnterRoom(g) \/ LeaveRoom(g) PROVE Doorstep' /\ Ghosts'
  BY <1>1, <1>2, <1>13
     DEF EnterRoom, LeaveRoom, Connect, Leave, journeyVars, redisVars, socketVars, pastVars
<1>14. ASSUME NEW g \in Guests, Load(g) \/ GoBack(g) \/ ThrownOut(g) \/ Return(g)
       PROVE  Doorstep' /\ Ghosts'
  BY <1>1, <1>2, <1>14
     DEF Load, GoBack, ThrownOut, Return, vars, redisVars, socketVars, pastVars
<1>15. ASSUME NEW g \in Guests, NEW s \in Sockets, Dial(g, s) PROVE Doorstep' /\ Ghosts'
  BY <1>15, Dialled
<1>16. ASSUME NEW s \in Sockets, Hang(s) PROVE Doorstep' /\ Ghosts'
  BY <1>16, HungUp
<1>17. CASE HostReconnects
  BY <1>1, <1>2, <1>17 DEF HostReconnects, HostDrop, journeyVars, redisVars, pastVars
<1>18. CASE UNCHANGED <<vars, journeyVars>>
  BY <1>1, <1>2, <1>18 DEF vars, journeyVars, redisVars, socketVars, pastVars
<1> QED
  BY <1>4, <1>5, <1>6, <1>8, <1>9, <1>10, <1>11, <1>12, <1>13, <1>14, <1>15, <1>16, <1>17, <1>18
     DEF JourneyNext

\* The strengthening of NoGhostKnock.
LEMMA DoorstepInvariant == JourneySpec => []JourneyInv
<1>1. JourneyInit => JourneyInv
  <2> SUFFICES ASSUME JourneyInit PROVE JourneyInv
    OBVIOUS
  <2>1. MeetingInv
    BY StartsWell DEF JourneyInit
  <2>2. link \in [Sockets -> Links]
    BY DEF JourneyInit, Links
  <2>3. \A t \in Slots : task[t].op = "idle"
    BY Idling DEF JourneyInit, Init
  <2>4. \A s \in Sockets : ~Busy(s)
    BY <2>3 DEF Busy, Slots
  <2>5. Doorstep
    BY <2>3, <2>4 DEF JourneyInit, Init, Doorstep, Fresh, Knocks
  <2>6. Ghosts
    BY DEF JourneyInit, Init, Ghosts
  <2> QED
    BY <2>1, <2>2, <2>5, <2>6 DEF JourneyInv
<1>2. JourneyInv /\ [JourneyNext]_<<vars, journeyVars>> => JourneyInv'
  <2> SUFFICES ASSUME JourneyInv, [JourneyNext]_<<vars, journeyVars>> PROVE JourneyInv'
    OBVIOUS
  <2>1. MeetingInv'
    BY JourneyCovered, StaysWell DEF JourneyInv, MeetingInv
  <2>2. (link \in [Sockets -> Links])'
    BY LinksStay DEF JourneyInv
  <2>3. Doorstep' /\ Ghosts'
    BY DoorstepKept DEF JourneyInv, MeetingInv
  <2> QED
    BY <2>1, <2>2, <2>3 DEF JourneyInv
<1> QED
  BY <1>1, <1>2, PTL DEF JourneySpec

\* Whoever is on the waiting list has an open socket that remembers the knock and
\* withdraws it when it closes (handleDisconnect), unless the knock was looked up
\* while the socket closed.
THEOREM NobodyHaunts == JourneySpec => []NoGhostKnock
<1>1. JourneyInv => NoGhostKnock
  BY DEF JourneyInv, Ghosts, NoGhostKnock, AtRest, Busy, In
<1> QED
  BY <1>1, DoorstepInvariant, PTL
=============================================================================
