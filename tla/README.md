# Vertxing in TLA+

Vertxing is a video-meeting and calling platform: a NestJS API (`apps/api`), a
Next.js client (`apps/web`), shared types (`packages/shared`), PostgreSQL for
what lasts, Redis for what does not, and LiveKit as the media server. Paths
below are relative to the repository root (`src/` in `PROJECT.json`).

The API runs every handler on one event loop. Nothing is locked: between two
`await`s a handler is alone, at every `await` any other handler may run, and
almost every `await` is one command to Redis or one statement to PostgreSQL.
The web client is the same: one event loop per tab, `await`s on requests, audio
and IndexedDB, and storage that all tabs share. What can go wrong goes wrong
between two such steps, so that is the grain of the models: **an action is one
command, with the code that runs on its answer up to the next one.**

Contents: [inventory](#inventory) · [plan](#plan) · [modules](#modules) ·
[runs](#runs) · [known behaviours](#known-behaviours) · [proofs](#proofs) ·
[what is not modelled](#what-is-not-modelled) · [running it](#running-it)

## Inventory

### Direct calls — `DirectCalls`, `CallPromise`

`modules/realtime/call.service.ts`, the `call:*` handlers of
`events.gateway.ts`, the primitives of `redis.service.ts`.

- **State.** Redis: the hash `call:<id>` (caller, callee, room, state) with a
  time to live of 40 s while it rings and 4 h once answered; the key
  `calllock:<a>:<b>`, one per pair of users, taken with `SET NX EX`. The
  process: `socket.data.callId`, the ring timers, the handlers that are
  awaiting something.
- **Operations.** `invite`, `addParticipant` (ends in `invite`), `accept`,
  `decline`, `cancel`, `hangup`, `timeout`, `drop`. Every transition of the
  state goes through one Lua compare-and-set.
- **Hard.** Six messages, the ring timer and the disconnects of both parties
  race over one record; the record and its lock are two keys written and removed
  by separate commands; both expire by themselves; the process may die between
  any two commands.
- **Correct means.** One call per pair; one outcome per ring; a live call
  holds the lock of its pair and a lock exists only for a call; an answered call
  gets its long times to live; every ring comes to an
  announced end; nobody is added to a call by an outsider; the teardown of a
  disconnect leaves no call behind.

### Presence — `Presence`

`markOnline`/`markOffline` of `call.service.ts`, the handshake middleware and
`handleDisconnect` of `events.gateway.ts`. State: `presencecount:<user>`, the
set `presence:online`. Hard: two keys, three commands on the way out, sockets
that overlap on every page reload, handshakes that never complete, no expiry.
Correct means: online exactly while connected.

### Meetings and the waiting room — `Meetings`

`modules/meetings/*`, `modules/media/media.service.ts`, the waiting-room
handlers of `events.gateway.ts`, LiveKit's webhooks.

- **State.** The row of the meeting (SCHEDULED, LIVE, ENDED, CANCELLED); Redis
  `waiting:room`, `admitted:room`, `denied:room`, `presence:room`;
  `socket.data.knockingRoom`; the SFU's room and who is in it.
- **Operations.** join, cancel, end, delete, reconcile, handleRoomEvent, remove;
  knock, cancelKnock, admit, deny, watch, block, clearRoom.
- **Hard.** `join` checks and then acts over five awaits; webhooks are lost,
  late, repeated or reordered; `reconcile` acts on a count it read earlier; a
  knock races its own socket's disconnect; `admit` and `block` are several
  commands each.
- **Correct means.** A finished meeting is empty and an empty one does not stay
  LIVE; nobody is in a gated room whom no host let in; nobody stays both let in
  and shut out; whoever is thrown out is out.

### The web meeting journey — `RoomJourney`

The room page, `WaitingScreen`, `HostWaitingTray`, `ParticipantsPanel`: the
phases of a guest's page, the waiting screen's own socket, the host's tray.
They drive the server over that socket and over HTTP. Hard: the admission is one
event, the knock and its withdrawal belong to a socket that comes and goes.
Correct means: who waits is seen, who is let in gets in.

### Tokens and the browser session — `Session`

`modules/auth/token.service.ts`, `auth.service.ts`, `lib/api-client.ts`,
`lib/session.ts`, `lib/auth-context.tsx`. State: `refresh:<user>:<jti>` in Redis;
the pair of tokens and the cached user in local storage, shared by all tabs; the
sign-in state of each tab. Hard: GET and DEL of a one-time token are two
commands; parallel requests, in one tab or in several, refresh with the same
token; answers are lost and tabs close. Correct means: one successor per token
as far as the two commands allow; the browser does not sit on a spent token; a
good session is not thrown away without a cause; loading ends.

### Users, roles, licenses — `Accounts`

`modules/users`, `modules/roles`, `modules/license`, the guards,
`permission.types.ts`, and the admin pages that send the requests. State: rows
in PostgreSQL. Hard: the seats, the first user and the last super-admin are
counted in one statement and relied upon in a later one; a custom role is edited
and deleted while people have it. Correct means: no more users than seats;
always a super-admin; nobody changes whoever is above him; a custom role never
gives license control.

### The web call client — `CallClient`

`lib/call-context.tsx`, `lib/realtime.ts`. State: one machine per device (idle,
outgoing, incoming, active), the call's id and its peer. Hard: events arrive for
a call the user has already left; a cancel before the id is known; several
devices of one user, of which only some are told; connections cut while events
are on their way. Correct means: when nothing is on its way, screens and calls
agree.

### Ringtones — `Ringtone`

`lib/ringtone.ts`, the parts of `call-context.tsx` that ring, the settings page.
State: the loop timer, the buffer source, the preview timer, the chosen tone and
the uploaded one. Hard: to play is asynchronous and `stopAll` does not wait.
Correct means: one hears a tone exactly while the phone rings or a tone is
tested.

### Push — `Push`

`modules/push/*`, `lib/push.ts`, `public/sw.js`, the FCM token of the Android
app. State: the browser's subscription and its row, `User.fcmToken`, the
notifications on a device. Hard: subscription and row change one after the other
over a request that may be lost; devices change hands. Correct means: the switch
tells the truth about the browser, On about the server too, and a device rings
for the account it is in.

### The rest — not modelled

Configuration, filters, interceptors, health checks; media, chat and reactions
inside a room (LiveKit's); toasts and dialogs; the Android shell, scripts,
deployment and the database schema: `PROJECT.json` lists each with its reason.

## Plan

1. **`DirectCalls`** with its abstract specification **`CallPromise`**, and
   **`Presence`**: done, with proofs.
2. **`Meetings`**, and **`RoomJourney`** which composes it with the pages: done,
   with proofs of their invariants.
3. **`Session`**: done, with proofs of its safety.
4. **`Accounts`** (registration, administration, roles, licenses): done, with
   proofs of all its properties.
5. **`CallClient`**: the client's machine against the server's phases over
   ordered channels; **`Ringtone`**; **`Push`**: done, with proofs.
6. Every invariant the runs check is proved. Next: in `Session` the sign-in that
   is refused; in `Push` two requests of one browser at a time; in `RoomJourney` a
   second socket of a guest.

## Modules

| module | what it is | proofs | instances |
|---|---|---|---|
| `CallPromise` | what the call service promises: phases, parties, announcements; no Redis, no handlers | | |
| `DirectCalls` | the call engine, one Redis command per action; refines `CallPromise` | `DirectCallsProofs` | `MCDirectCalls` |
| `Presence` | the online counter and set, one Redis command per action | `PresenceProofs` | `MCPresence` |
| `Meetings` | one room on the server: every handler a script of awaited commands; LiveKit and its webhooks | `MeetingProofs` | `MCMeetings` |
| `RoomJourney` | `Meetings` composed with the guest's page, the waiting screen's socket and the host's tray | `MeetingProofs` | `MCRoomJourney` |
| `Session` | the tokens of one account in one browser with several tabs | `SessionProofs` | `MCSession` |
| `CallClient` | the client's call machine, one per device, against the server's phases | `CallClientProofs` | `MCCallClient` |
| `Accounts` | accounts, roles, permissions, seats and licenses as interleaving requests | `AccountsProofs` | `MCAccounts` |
| `Ringtone` | playing and stopping tones asynchronously | `RingtoneProofs` | `MCRingtone` |
| `Push` | subscriptions, their rows and the notifications they lead to | `PushProofs` | `MCPush` |

A definition named `X_<fault>` is `X` with one mistake a change to the code could
make: a dropped guard, SET without NX, an unsorted key. No specification uses
it; replacing `X` by it shows which property would notice. A variable commented
as history, or as what happened, records the past for the properties: no guard
reads it.

### DirectCalls

Redis is `meta`, `state`, `stored`, `ttl` (the hash and its time to live), `lock`
and `lease` (the lock and the time to live it was given). The process is `open`, `data` (`socket.data.callId`), `timer` and
`task`: a slot for each message being handled (`Handlers`), for each socket's
disconnect handler and for each ring timer's callback. A task holds the handler
it runs (`op`), the await it is at (`pc`), its socket, its call and its target.
`told`, `lapsed` and `severed` are history: what was announced to whom, which
call lost a key to expiry, which call a failing handler was working on. (A client
can only name a call it has heard of: `Announced`.)

| action | code |
|---|---|
| `BeginInvite`, `BeginAdd`, `BeginAccept`, `BeginDecline`, `BeginCancel`, `BeginHangup` | a message arrives: the gateway handler up to its first await. `cancel` and `hangup` forget `data.callId` here |
| `AddFetch` | `addParticipant`: HGETALL and the three checks |
| `InviteRefused` | `invite`: any of its early failures |
| `InviteLock`, `InviteWrite`, `InviteExpire` | `invite`: SET NX, HSET, EXPIRE |
| `InviteAnnounce` | `onCallInvite`: bind the socket, emit Incoming and Ringing; `onCallAdd`: emit Incoming only and bind nothing |
| `InviteArm` | both pushes awaited, then `scheduleRingTimeout` |
| `AcceptFetch`, `AcceptSwap`, `AcceptKeep`, `AcceptExtend`, `AcceptAnswer` | `accept`: HGETALL, compare-and-set, EXPIRE of the record, EXPIRE of the lock whoever holds it; then `onCallAccept` binds the socket and emits Accepted |
| `CloseFetch`, `CloseSwap`, `CloseUnlock`, `CloseErase`, `CloseNotify` | decline, cancel, hangup and timeout: HGETALL and the entitlement check, compare-and-set, delete-if-equals of the lock, DEL, Ended |
| `TimerFires` | `onRingTimeout` starts `timeout` |
| `Disconnect`, `DropLook`, `DropFetch` | `handleDisconnect` awaits `markOffline`, then reads `data.callId`, then `drop` reads the state and turns into a hangup, a cancel or a decline |
| `ExpireRecord`, `ExpireLock` | Redis drops a key that has a time to live. Time is not modelled: a key may run out whenever `"record"` or `"lock"` is among the faults |
| `HandlerFails`, `Crash` | an await rejects and the rest of the handler does not run; the process dies and Redis stays |

`CallIds` bounds the calls ever placed, `Handlers` the messages being handled at
once, `Sockets` the connections ever closed. Every socket is open from the
start: a socket that connects later is one that has not been used yet, because
the answers of the presence, permission and privacy checks are left open.
`told` is kept per user, as the events go to a user's room; which of his devices
hear what is the matter of `CallClient`.

### Presence

`at[s]` walks each socket through INCR, SADD, connected, DECR, SREM, DEL. A
transport may close after `markOnline` and before `next()`: socket.io then never
emits `connection` or `disconnect` for it, and its count is never taken back
(`Aborted`). The process may die (`Crash`) and leave both keys as they are. Each
socket opens and closes once; a user who reconnects uses another one.

### Meetings

Every handler of the room is a straight line of awaits with early returns.
`Script[op]` is that line for each operation, and the action named for a step
runs one command and the code up to the next: `ReadRow` is the lookup of the
meeting with the check of who may do what (`Allowed`), `CheckDenied` and
`CheckAdmitted` the gate of `join`, `JoinLive`, `JoinLedger`, `JoinSeat`,
`JoinToken` what it writes; `EndRoom`, `ClearRoom`, `StopMeeting` are
`tryEndRoom` and the update behind it; `ReadCount` is `reconcile`; `SyncRow`
what a webhook writes (on the row it has read); `Kick`, `Unseat`, `Bar`, `Disown`, `Unlist` are
`removeParticipant` with `block`; `Enlist`, `CheckListed`, `Welcome`, `Unbar`,
`Show` and `Look` the socket handlers. `Open`, `Close` and `HostDrop` are
connections (`handleDisconnect` withdraws the knock of its socket), `Connect`,
`Leave` and `Vanish` what happens in LiveKit's room, `Age` the grace of 90 s,
`Expire` the time to live of the Redis sets.

What the properties excuse is history: `belated` (written for, or connected, once
a teardown had begun), `spared` (inside when LiveKit failed to delete the room),
`overtaken` (inside when a `room_finished` ended the row), `slipped` (given a token
during the removal), `armed` (removed with a token and not connected), `immune`
(LiveKit failed to remove him), `haunted` (put on the list for a socket already
closed). `Parted` takes the excuse away again from whoever has lost his token.

LiveKit is external: it accepts a token, closes a room when it is told to or
when it is empty, and sends webhooks. `hooks` is a set, so webhooks are delivered
in any order; `Hooked` loses those beyond `MaxHooks`; with the fault `"repeat"`
a delivered one stays to be delivered again; with `"sfu"` a call to it fails, and
the code goes on as it does.

`CancelMeeting`, `DeleteMeeting` and `EndForAll` are the host's buttons: the first
two on the page that lists the meetings, the third in the call.

`Next` is a meeting whose clients ask what they like at any time, without the
messages of the waiting room: those steps (`LobbyStep`, `BeginKnock`, `Open`,
`Close`, ...) belong to sockets, and move in `RoomJourney` with the pages that
hold them.

### RoomJourney

Extends `Meetings`: its steps are those of the pages, each with the step of the
server it stands for. `page[g]` is the phase of the guest's room page, `link[s]`
what its waiting screen still has to say on socket `s`: the knock after every
connect, the withdrawal and the disconnect after it is unmounted. `ServerStep`
hands the answer of a join to the page (`Landing`), `Hear` reads a decision. The
host decides about those in his tray (`Decide`) and removes those he sees in the
room (`Expel`).

### Session

A request is a slot of `req`: who sent it, which token it carries, and where it
is (sent, in one of the three Redis commands of `rotate`, answered, refused).
`Serve`, `ReadToken`, `Consume`, `Issue` are the server, and `ServerError` is the
server that cannot answer as it should (a 5xx, a 429, a body that does not parse),
at any of these places; `Finish`, `Refresh`,
`Save`, `GiveUp`, `Refused` are the client reading an answer: done, a 401 that may be
refreshed once (`MayRefresh`), new tokens and the retry, another error, the session
cleared.
`Lose` is a request or an answer that is lost, `CloseTab` a tab that closes with
its requests under way: the server goes on with them. A pair of tokens is its
number; `allow` is the set of refresh tokens Redis knows.

### CallClient

`up[d]` and `down[d]` are the two ordered directions of a socket. The presses
(`CallUser`, `Accept`, `Decline`, `Cancel`, `Hangup`, `AddToCall`) act on the
screen and append to `up`; `Serve` takes one message and does the handler up to
its compare-and-set; `Hear` takes one event into the reducer of
`call-context.tsx`. Up to there a handler is one step, because the phase of a call
moves by one compare-and-set, which is what `DirectCalls` and its refinement show.
What it announces afterwards lies some awaits later: `Owe` puts it into `due`, and
`Announce` sends one member of `due` at a time, in any order, so that an end can
overtake the answer before it. A socket that closes meanwhile is not told what is
due to itself (`Deaf`), and a handler that has accepted sets `data.callId` only when
it announces. `Cut` and
`ClickNotification` are the two ways a page loses its connection: with its screen
kept (socket.io reconnects) and with the page loaded anew. `odd` collects the
calls a screen lost sight of; the five ways it can are listed under
[known behaviours](#known-behaviours).

### Accounts

A request is a slot with its actor as it was read (the guards and the actor's
row), its targets, its change, and the place it has reached. `BeginRegister`,
`ReadLicense`, `CountSeats`, `Create` are `register`; `BeginManage`,
`ReadTargets`, `CountSupers`, `CountBatch`, `Write` are `updateUser`,
`deleteUser` and `bulkUpdate`, with `Allowed` for `assertActorMayManage`;
`SaveRole`, `RemoveRole`, `CreateRole`, `WriteRole` the roles; `Activate`,
`Revoke`, `Upsert` the license, whose second write may never happen (`Fail`). A
write marks every request in flight as `stale`: it may rely on what is no longer
so. `Resolve` and `May` are the pure permission functions.

### Ringtone

`Await`, `Resumed`, `Got` and `Decoded` are the awaits of `playById`;
`StartPattern` and `StartCustom` keep the handle by which `Quieted` (`stopAll`)
can stop the sound. `SetStatus` is every change of the call's status with its
effects: stop, start, and the timer of the ring duration. `Upload` and `Remove`
run as jobs of their own.

### Push

`Enable` and `Disable` start the switch's job, `Subscribe`, `Post`, `NotPosted`,
`Posted`, `Unpost`, `Drop` are its awaits; `SignIn`, `SignOut`, `SendToken`
change the account of a device; `Invite`, `PushOut`, `FcmOut`, `Arrive`,
`Prune` are a ringing call: the rows and tokens read, the pushes sent, the
notification shown or the dead endpoint pruned.

## Runs

Each run takes from a few seconds to four minutes with two workers.
`CHECK_DEADLOCK FALSE` in all but `rooms`: with its call ids used up, or its
sockets closed, an instance may stop. Symmetry is used in safety runs only.

| run | instance | checks |
|---|---|---|
| `glare` | 3 users, 2 of them with a socket, 2 calls, 2 handlers; invite, accept, add; 590 000 states | `TypeOK`, `OneLiveCallPerPair`, `InvitedFromInside` |
| `locks` | 2 users, 2 calls, 2 handlers; invite, decline; keys run out, the process may die; 846 000 states | `LockFollowsCall` |
| `calls` | 2 users, 1 call, 1 handler beside both disconnects and the timer; invite, accept, cancel, hangup; sockets close, commands throw, the record runs out; `FairSpec`; 217 000 states | `OneVerdict`, `KeysExpire`, `DropEndsTheCall`, `PromiseSpec`, `RingIsResolved`, `RingingEnds` |
| `sockets` | one user with 4 sockets, one with 1; aborted handshakes, crashes; `FairSpec`; 377 000 states | `NoGhost`, `NeverOvercounts`, `CountedIsOnline`, `LastCloseEndsPresence` |
| `rooms` | host and guest, one request at a time beside a reader and 2 webhooks; join, cancel, end, delete, remove; lost, repeated and reordered webhooks, failing LiveKit calls, expiry; `FairSpec`; 1 090 000 states | `TypeOK`, `FinishedIsEmpty`, `LiveIsHonest` |
| `lobby` | host and guest, one socket that may drop at any time, 2 handlers; all of the waiting room, join and remove; `FairJourney`; 661 000 states | `NobodyWaitsUnseen`, `NoGhostKnock`, `NoStranger`, `OneDecision`, `KickHolds`, `AdmittedGetsIn` |
| `session` | 2 tabs, 2 requests at a time, 3 pairs of tokens; lost answers, errors of the server, closed tabs; `FairSpec`; 734 000 states | `TypeOK`, `StoreIsLive`, `SingleUse`, `SignedOutForACause`, `LoadingEnds` |
| `client` | 3 users, one with two devices; 2 calls; refusals, one connection that is cut, one device with notifications; 1 360 000 states | `TypeOK`, `ScreenMirrors`, `CallHasScreens` |
| `accounts` | 3 people, 1 custom role, 1 key, 2 requests at a time, 3 in all beside registrations; 641 000 states | `TypeOK`, `OverlayNeverEscalates`, `OwnerRemains`, `HierarchyHolds`, `SeatsHold` |
| `escalation` | as `accounts`, with seats enough and one request at a time | `CustomRoleNeverEscalates`, **violated** |
| `ringtone` | 3 plays at a time, IndexedDB may fail; 75 000 states | `TypeOK`, `SoundFollowsTheRing` |
| `push` | 2 accounts, a browser and a phone, 2 endpoints, 1 call; lost requests; 2 370 000 states | `TypeOK`, `SwitchTellsTheTruth` |

What they show:

- `glare`: two people ring each other at once, twice, and bring in a third:
  whichever order SET NX, HSET, the compare-and-set and the expiry take, one call
  per pair; whoever rings into a call's room was a party of an answered call there.
- `locks`: while the first call of a pair is cleaned up, or its keys run out, the
  second is placed. The late cleanup does not take the lock of the second call
  (`deleteIfEquals`), every live call none of whose keys ran out holds its lock, and
  a lock without a live call is that of a handler at work or of a fault.
- `calls`: everything races over one call. One outcome is announced, and to each
  party that did not bring it about; a disconnect leaves no call in progress unless
  it was answered after `drop` had read that it rang; an answered call has its long
  time to live on the record and on the lock it holds; `DirectCalls` implements
  `CallPromise`; where the timer is lost, the time to live ends the record
  (`RingingEnds`; `RingIsResolved` does without the time to live, so that it is the
  timer it depends on).
- `sockets`: in every order of INCR, SADD, DECR, SREM and DEL nobody stays online
  without a cause, and the counter and the set agree.
- `rooms`: with webhooks that never come, come late or twice, a finished meeting
  keeps in Redis only whom something was written for once the teardown had begun,
  and in its room only such users, those LiveKit failed to put out, and those inside
  when a late or repeated `room_finished` ended the row; a LIVE meeting that is empty is ended by whoever reads it.
- `lobby`: from the knock to the token and back, with the guest's connection
  dropping between any two steps.
- `session`: the browser's token is good, or the request that spent it is under
  way, or its tab was closed; a good session is thrown away only by a
  request's own answer: a sign-out, an error of the first check that is not a first
  401, a refresh that failed or was refused for an older token, the network;
  the first load ends.
- `client`: with presses and events crossing on every device, a screen that did
  not lose sight of its call shows it as it is, and each party of a call has it
  on a screen.
- `accounts`: the last owner, the seats, the ranks and the overlays hold for every
  order of reads and writes, except for a request whose reads are no longer true.
- `escalation`: "a custom role always sits at USER tier, so it can never escalate"
  (`users.service.ts:9-11`) does not hold: whoever manages accounts through a custom
  role may make an account of the USER tier, his own included, an ADMIN, since
  `assertActorMayManage` compares the tier of the target and only guards
  SUPER_ADMIN as the new one (`users.service.ts:262-265`).
- `ringtone`: a sound that outlives its ring is one that was still loading when
  the ring was stopped, or lost its handle to such a one; a ring is never silent
  unless it was silenced or the tone could not be loaded.
- `push`: what the switch says of the browser is so, and On means that the server
  rings it for the account signed in, unless a request was lost, the device changed
  hands, or the page was opened before the permission changed or over a running
  request. Off says nothing of the server: the row of a dead subscription stays
  until the next call finds it gone.

**Why these bounds.** Two calls are what glare and a cleanup that meets the next
invite need: a third call of the pair meets the second as the second met the
first. In `calls` a message handler, two disconnect handlers and a timer race
over one record, each a different transition, of which the compare-and-set lets one
through; two message handlers race in `glare` and `locks`, and in the theorems. A place in the presence set is lost or left over with three sockets (one
whose DEL erases the count of a second while a third closes); the user has four.
In `rooms` the writers are a request, a reader and two webhooks, of which each
pair is in every order; `lobby` has the second handler for the host against the
guest. A refresh token is raced for by two requests; three pairs are a sign-in,
a rotation and the loser of it. A seat, a role or the last owner is raced for by
two requests while a third has changed what one of them read. The second device
of a user is where the client's events differ; two calls are the one on the
screen and the one that interferes. Where a theorem stands behind a property it
holds for any number.

**Fairness.** The event loop resumes a handler whose await has settled and fires
timers: `WF` of each slot's `Step` and of `TimerFires` (`DirectCalls`; that Redis
drops a record with a time to live, `Expiry`, is assumed by `RingingEnds` alone), of the handlers of a
disconnect (`Presence`), of each request's `Step` (`Session`). Clients owe
nothing: no fairness for messages, nor for closing a socket. In `Meetings`
somebody keeps reading the meeting (`BeginReconcile` and the reader's steps) and
the grace of 90 s passes (`Age`); that is what the design without webhooks relies
on. In `RoomJourney` every handler comes to its end (`[]<>~Busy(t)`: a straight
line of awaits, each of which settles, cannot go on for ever) and an event in an
open socket is read: strongly fair, since the model hands the join it causes to
one of two handlers, which may both be busy at times.

## Known behaviours

Where a property names an exception, the code has that behaviour. Those worth
knowing, each at its line:

- **Calls.** `drop` reads the state once (`call.service.ts:257`): an answer
  between that and its compare-and-set leaves the call ACTIVE with a party gone,
  for up to four hours. A callee that dies while it rings has no `data.callId`
  (`events.gateway.ts:150`): the caller waits for the timeout. Between `accept`'s
  compare-and-set and the Accepted event lie four awaits (`call.service.ts:187`):
  a drop of the other side can be heard before it, and the callee then shows a call
  that has ended. A late `accept` extends the lock of the pair whoever holds it
  (`:188`): the next call of the pair, still ringing, may hold its lock for four hours.
  `markOffline` removes a
  user whose next socket connects between its DECR and its SREM
  (`call.service.ts:90`). A process that dies between HSET and EXPIRE leaves a
  record that rings for ever.
- **Client.** A screen loses sight of a call (`odd`) when a cancel comes before
  Ringing has brought the number (`call-context.tsx:212`), when Accepted is
  applied in a state that is over (`:147`), when any Failed resets a client in a
  call (`:170`), when the connection is cut, and when an old notification reloads
  the page. The server's call then goes on, and its pair is busy. The other party's screen of such a call is not
  judged either. A second device of the user who answers, declines or hangs up is not told: it rings on, or stays
  in the call (`events.gateway.ts:291-300`, `:378-385`).
- **Meetings.** A kick takes the guest out of the SFU before it writes the block
  (`meetings.service.ts:306-312`); a failed `listRooms` counts as an empty room
  (`media.service.ts:127`); nothing revokes a token, so a guest removed before he
  connected can still come in; when LiveKit fails to delete the room or to remove a
  participant the code carries on and they stay in (`:343-347`, `:305-309`); a late or
  repeated `room_finished` ends a meeting in use (`:272`); a join
  whose row was read before the end revives it (`:144`); waiting guests are not
  told that the meeting is over; `presence:room` is never read.
- **Session.** The losers of parallel refreshes clear what the winner has stored
  (`api-client.ts:108`); a tab closed between the rotation and `saveTokens` leaves
  a spent token; a refresh in flight stores its tokens after a sign-out. Any
  error of the first `/users/me`, a 5xx included, clears a good session
  (`auth-context.tsx:56-59`), as does a refresh the server could not answer
  (`api-client.ts:107-109`).
- **Accounts.** The last-super-admin checks, the seats and the first-user check
  count before they write (`users.service.ts:272`, `auth.service.ts:55`):
  concurrent requests get past them. Between the two writes of an activation
  there is no license (`license.service.ts:102`). A custom role with `users.manage`
  lets its holder make himself an ADMIN (`users.service.ts:262`).
- **Ringtone.** A play that is still loading when `stopAll` comes begins
  afterwards; two such plays share one `loopTimer`, and the first cannot be
  stopped but by a reload (`ringtone.ts:86`). `stopAll` clears the interval, and the
  notes already scheduled ring out (`:64-82`, `:103-110`).
- **Push.** Signing out gives up neither the subscription nor the FCM token
  (`settings/page.tsx:72`); "on" is the browser's word when the request to the
  server was lost (`push.ts:43`). The row of a subscription that the browser dropped
  stays until a push to it fails. `busy` is state of the page
  (`settings/page.tsx:164`): a page opened anew can start a second request over a
  running one, which the model does not do.

## Proofs

`tlapm` checks every theorem for any values of the constants; the assumptions are
those the modules name.

| module | theorem | says |
|---|---|---|
| `DirectCallsProofs` | `TypeCorrect` | `[]TypeOK` |
| | `GlareResolved` | `[]OneLiveCallPerPair` |
| | `VerdictUnique` | `[]OneVerdict` |
| | `KeepsPromise` | `Spec => PromiseSpec`: every step is a step of `CallPromise` or a stutter |
| | `LocksFollowCalls` | `[]LockFollowsCall` |
| | `RecordsExpire` | `[]KeysExpire` |
| | `RoomsAreOpenedFromInside` | `[]InvitedFromInside` |
| | `NoZombieCall` | `DropEndsTheCall` |
| `PresenceProofs` | `TypeCorrect` | `[]TypeOK` |
| | `CountsAtMostItsSockets` | `[]NeverOvercounts` |
| | `NobodyIsAGhost` | `[]NoGhost` |
| | `CountAndSetAgree` | `[]CountedIsOnline` |
| `SessionProofs` | `TypeCorrect` | `[]TypeOK` |
| | `BrowserHasGoodToken` | `[]StoreIsLive` |
| | `OnlyForACause` | `SignedOutForACause` |
| | `SpentOnce` | `[]SingleUse` |
| `AccountsProofs` | `TypeCorrect` | `[]TypeOK` |
| | `OverlaysAreHarmless` | `[]OverlayNeverEscalates` |
| | `HierarchyIsKept` | `HierarchyHolds` |
| | `LastOwnerStays` | `OwnerRemains` |
| | `SeatsAreKept` | `SeatsHold` |
| `RingtoneProofs` | `TypeCorrect` | `[]TypeOK` |
| | `NoSoundOutlivesItsRing` | `[]SoundFollowsTheRing` |
| `PushProofs` | `TypeCorrect` | `[]TypeOK` |
| | `SwitchIsHonest` | `[]SwitchTellsTheTruth` |
| `MeetingProofs` | `TypeCorrect` | `[]TypeOK`, of `Spec` and of `JourneySpec` |
| | `NothingIsLeftBehind` | `[]FinishedIsEmpty`, of both |
| | `OnlyTheAdmitted` | `[]NoStranger`, of both |
| | `DecisionsAreClear` | `[]OneDecision`, of both |
| | `TheRemovedAreOut` | `[]KickHolds`, of both |
| | `TheHostSeesAll` | `JourneySpec => []NobodyWaitsUnseen` |
| | `NobodyHaunts` | `JourneySpec => []NoGhostKnock` |
| `CallClientProofs` | `TypeCorrect` | `[]TypeOK` |
| | `Mirrors` | `[]ScreenMirrors` |
| | `HasScreens` | `[]CallHasScreens` |

### DirectCallsProofs

None of these is inductive by itself. `IInv` is built in layers, each proved from
the ones before it:

- **Shape**: types; a task speaks only of a call that was drawn; whatever
  outlives a handler (a timer, `data`, an event, a lock) does too; a lock is held
  only under the key of its own pair.
- **OpenSlots**: the disconnect slot of a socket is used only once it is closed,
  so that no two handlers share a slot.
- **Secret**: nobody but the handler that draws a call knows its id before it is
  announced. Without it another handler could touch the record while it is being
  written.
- **Progress**: a call moves one way; what a handler past its compare-and-set
  believes of its call (it is ACTIVE or ENDED, it has this verdict) stays true.
  This is the part that makes outcomes unique: one handler wins the
  compare-and-set, and only the winner speaks.
- **Truth**: what was announced of a call agrees with how far it got, and was
  told to its parties.
- **Locked**: a call that is live, or being written, and none of whose keys ran
  out, holds the lock of its pair. Two live calls of one pair would both hold it.
- **Accounted**: the call a lock names is live, or a handler is in charge of it
  (about to write it, or about to delete the lock), or a fault met it; the
  compare-and-set that ends a call hands it to the handler that won.
- **Timed**: the same for the times to live, with the handler between HSET and
  EXPIRE, or between the compare-and-set of `accept` and each of its two EXPIREs.
- **Own**: a socket carries calls of its own user only, and the handler of a
  disconnect is a party's, in the role that its `op` names; so what `drop` turns
  into is entitled to end the call it found.

`OneVerdict` follows from Truth, `OneLiveCallPerPair` from Locked,
`LockFollowsCall` from Locked and Accounted, `KeysExpire` from Timed,
`DropEndsTheCall` from Own and Progress, and the step
simulation of `KeepsPromise` from all of them: only `InviteWrite` needs Locked
(no other call of the pair is in progress), only the announcing steps need
Progress.

### PresenceProofs

`NoGhost` needs the counting invariant: the last socket's DECR reaches zero or
below only because the counter never exceeds the sockets it counts, which the
facts about cardinality of `FiniteSetTheorems` carry through each step; a crash
only adds to the sockets that may have been counted.

### SessionProofs

`TokenInv` adds four facts to the types: **TokensSpent**, a token that a request
has taken off the list, or not found there, is not on it; **NewPairs**, a pair on
its way to the browser is good and no other request carries it; **Childless**, no
token on the list has a successor; **SigningIn**, a sign-in spends no token. The
third says why a spent token never comes back: the list only grows by new numbers. `StoreIsLive` is then carried from one
request that spent the stored token to the next.

`OnlyForACause` looks at the steps that throw a session away. Each ends its own
request, so the cause is found in that request and not in another one that happens
to be under way; and when it was refused the stored token, `TokensSpent` says that
the token is off the list, so the session was not a good one.

`SingleUse` counts: **Shares** says that the successors of a spent token and the
requests that still hold it are together no more than the requests there are. A
token leaves the list without successors (Childless), and a request that issues a
pair gives up its own share for it.

### AccountsProofs

A request acts on what it has read, so the invariant speaks of requests in
flight: **Shaped** says what each was checked for by the time it is at a place
(a target, a rank, a permission set that was cleaned), which no other request can
change; **Careful** what a request that is not stale may rely on, because every
write that could change it marks it stale. The theorems about the hierarchy, the
last owner and the seats are then arguments about the step that writes, the latter
two by counting.

### RingtoneProofs

`SoundInv` says that what sounds is in hand or astray (**InHand**), that of the
plays not astray there is one at most (**OneAtATime**), that somebody wants to
hear it (**ForSomebody**), and that a ring that was not silenced has a play
(**RingHasPlay**).

### PushProofs

The switch shows what the browser has, and the row in the database follows by a
request of its own; so `PushInv` says at each place of that request what has been
made sure of (**JobRight**: a request that is being posted is for the
subscription of its own browser; one that is answered has a row; a browser at
rest has a row for every subscription no fault made `odd`). **PageRight** is the
page's part of it: an open page that is not `stale` waits for its own request or
for none (`Waits`), and its switch stands where that request will find the
subscription (`Shows`). That a bell rings for
the account a device is in has a part for each thing a push is made from: the row
(**RowRight**), the push on its way (**SentRight**), the phone's token
(**PhoneRight**) and the notifications on the device (**NoteRight**), each with
the endpoints and phones that changed hands as its exception.

### MeetingProofs

The server's invariants hold for every client, so they are proved once for both
specifications: **Meets** is what `Next` and `JourneyNext` have in common, a step
of a handler, a new request, or something that happens in LiveKit; `RoomCovered`
and `JourneyCovered` show that each of the two is such a step. `MeetingInv`:

- **Shaped**: a task is at a place of its script and names what it is about.
  `Lines` and `Places` turn the commands into numbers of places.
- **Strangers**: who is admitted was welcomed, and so was the guest of a join past
  the check. Hence `NoStranger`.
- **Decisions**: a guest both admitted and denied has an `admit` or a `remove` under
  way that is still to undo one of the two. At rest there is none: `OneDecision`.
- **Kicks**: whoever is on the blocklist and holds a token is in `Excused`, the
  union of `slipped`, `armed` and `immune`: the kick finds the tokens given out
  before it, and a join that has passed its check by the time the blocklist is
  written is known to be late, so its token lands in `slipped`. Hence `KickHolds`.
- **Empties**: once the teardown has begun only `Stayers` are in the room (the
  `belated`, `spared` and `overtaken`), and a room that is down is empty; once the
  teardown is past the command that deletes a key of Redis, the key holds only
  `belated` entries, and a meeting a webhook finished has its keys cleared by that
  webhook (`Clearing`, for each key with its place). At rest this is
  `FinishedIsEmpty`.
- **Unseen**: if somebody waits whom the watching host has not seen, a broadcast of
  the list is on its way (`Showing`). Hence `NobodyWaitsUnseen`.

`NoGhostKnock` depends on what the page says over its socket and when, so it is a
property of `JourneySpec` alone. **Doorstep**: a page greets once per socket, the
slot of a socket is used only once it is closed, and a knock about to be put on
the list has somebody who will take it back, or has lost its socket already
(`Foreseen`). **Ghosts**: whoever waits has an open socket that knocked, or a
withdrawal that has yet to reach Redis, or is one of the `haunted`.

### CallClientProofs

Both properties speak of the moment when nothing is on its way, so the invariant
has to say, for every moment before it, which message will put a screen right. A
message is on its way (`Coming`) when it is in the device's channel or is still
owed by the handler that accepted or ended the call (`Owed`, in `due`). A channel is
spoken of only through `Has`, which messages are in it, and `Ranked`, that what a
device is told of one call comes once and in the order of the call's life, except
that of a call in `odd` the end may come before the answer; so no proof but those of
`HasAppend`, `HasTail`, `RankedAppend` and `RankedTail` looks at positions.
`ClientInv`:

- **Typed**, **Named**: types, and which screens have a number.
- **Orderly**: channels are ranked, and an announcement is made once.
- **Messages**: what an event on its way says is still so, or a later one takes it
  back; a device that is about to hear of a call has nothing to do with it yet
  (`Unheard`), which is why the number that `ringing` brings is never another
  call's.
- **Screens**: a screen shows a call as it is, or the request or event that will
  change it is on its way, or the call is in `odd`. `Mirrors` is this part with
  empty channels.
- **Owing**: a call whose answer is still to be announced is on no screen, and if it
  has ended in the meantime it is in `odd`: this is what the awaits between the
  compare-and-set of `accept` and its announcement cost. **Awaits**: until then only
  the socket that placed the call carries it, and its device waits.
- **Placed**: one device at most is waiting for a call as the one that placed it.
  Without it two devices of the caller could each believe so, and a cancel on one
  would leave the other ringing.
- **Held**: of every call in progress each party has a device that shows it, will
  hear of it, or has given it up with a word that is on its way; of one that rings
  the caller has. `HasScreens` is this part with empty channels.

The proof has a lemma for each kind of step: a press, a request served with
success or refusal, an announcement made, an event heard, the ring timeout, and a device that leaves and
returns, which covers the cut connection and the click on a notification. An
instance larger than the run's, with two devices of the caller, showed that a
device stays in a call hung up on the other one (the end is told to the other
party's room only) and that a caller's device may be the one clicked; the
property and `odd` say so.

### Only model-checked

Liveness under fairness (`RingIsResolved`, `RingingEnds`,
`LastCloseEndsPresence`, `LiveIsHonest`, `AdmittedGetsIn`, `LoadingEnds`) is out
of the prover's reach. So is induction over data, and recursive operators: none
is used. Every invariant and every action property that a run checks is proved.

## What is not modelled

- **Time.** The order of the ring timer and the time to live is left open; that
  35 s lie before 40 s by enough for the pushes, and that the lock and the record
  were given their times one after the other, is a question of durations.
- **The checks that only refuse** (permission, online, do-not-disturb): any
  answer is possible, `InviteRefused` and `Refusals` are their effect. The
  permissions themselves are in `Accounts`.
- **Data**: names, modes, titles, times, participant counts, the text of
  messages, landing pages, the signatures of tokens and of license keys.
- **Muting and co-hosts**: a call to LiveKit, and a role no code assigns.
- **Media, chat, reactions**: the state is in the LiveKit library.
- **Several API processes**: sockets and timers live in one process, as in the
  repository's deployment.

## Running it

    tlc -workers 2 -config MCDirectCalls_glare.cfg MCDirectCalls
    tlapm DirectCallsProofs.tla

and so on for each configuration and each `...Proofs` module. Every proof ends
without an error, and so does every run but `escalation`, which shows its violation.
