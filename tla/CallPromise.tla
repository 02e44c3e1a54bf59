---------------------------- MODULE CallPromise ----------------------------
(***************************************************************************)
(* What the direct-call service promises its users, with no Redis, no      *)
(* handlers and no sockets: a call goes through its phases one way, at     *)
(* most one call of a pair is in progress unless Redis let one of its keys *)
(* run out, and an outcome is announced only to a party of a call that     *)
(* really had that outcome.  The header of                                 *)
(* apps/api/src/modules/realtime/call.service.ts draws this machine;       *)
(* DirectCalls implements it.                                              *)
(***************************************************************************)
CONSTANTS Users, CallIds

VARIABLES
    phase,     \* phase[c]: how far call c got
    parties,   \* parties[c]: its two parties, {} before it rings
    told,      \* what was announced: [to, call, event]
    lapsed     \* calls one of whose Redis keys ran out

promiseVars == <<phase, parties, told, lapsed>>

RingVerdicts == {"DECLINED", "CANCELLED", "MISSED"}
Phases       == {"unwritten", "RINGING", "ACTIVE", "ENDED"} \cup RingVerdicts

InProgress(c) == phase[c] \in {"RINGING", "ACTIVE"} /\ c \notin lapsed

Init ==
    /\ phase = [c \in CallIds |-> "unwritten"]
    /\ parties = [c \in CallIds |-> {}]
    /\ told = {}
    /\ lapsed = {}

\* Glare is resolved here: a pair with a call in progress starts no other (a
\* call whose own lock already ran out can no longer be kept from ringing).
Ring(c, a, b) ==
    /\ phase[c] = "unwritten"
    /\ c \in lapsed \/ \A d \in CallIds : InProgress(d) => parties[d] # {a, b}
    /\ phase' = [phase EXCEPT ![c] = "RINGING"]
    /\ parties' = [parties EXCEPT ![c] = {a, b}]
    /\ UNCHANGED <<told, lapsed>>

Advance(c, from, to) ==
    /\ phase[c] = from
    /\ phase' = [phase EXCEPT ![c] = to]
    /\ UNCHANGED <<parties, told, lapsed>>

Answer(c)    == Advance(c, "RINGING", "ACTIVE")
Settle(c, v) == Advance(c, "RINGING", v)
HangUp(c)    == Advance(c, "ACTIVE", "ENDED")

\* When an event may be announced, given how far the call got.
Truthful(c, e) ==
    CASE e \in {"INCOMING", "RINGING"} -> phase[c] # "unwritten"
      [] e = "ACCEPTED"                -> phase[c] \in {"ACTIVE", "ENDED"}
      [] OTHER                         -> phase[c] = e

Tell(c, e, audience) ==
    /\ audience \subseteq parties[c]
    /\ Truthful(c, e)
    /\ told' = told \cup {[to |-> u, call |-> c, event |-> e] : u \in audience}
    /\ UNCHANGED <<phase, parties, lapsed>>

\* Announcing that a call rings tells its two parties two different things.
TellRinging(c, a, b) ==
    /\ {a, b} \subseteq parties[c]
    /\ phase[c] # "unwritten"
    /\ told' = told \cup {[to |-> b, call |-> c, event |-> "INCOMING"],
                          [to |-> a, call |-> c, event |-> "RINGING"]}
    /\ UNCHANGED <<phase, parties, lapsed>>

Lapse(c) ==
    /\ lapsed' = lapsed \cup {c}
    /\ UNCHANGED <<phase, parties, told>>

Next ==
    \E c \in CallIds :
        \/ \E a, b \in Users : Ring(c, a, b) \/ TellRinging(c, a, b)
        \/ Answer(c)
        \/ HangUp(c)
        \/ \E v \in RingVerdicts : Settle(c, v)
        \/ \E e \in (Phases \ {"unwritten", "ACTIVE"}) \cup {"INCOMING", "ACCEPTED"} :
              \E audience \in SUBSET Users : Tell(c, e, audience)
        \/ Lapse(c)

Spec == Init /\ [][Next]_promiseVars
=============================================================================
