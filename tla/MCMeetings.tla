----------------------------- MODULE MCMeetings -----------------------------
(* Small instances of Meetings. *)
EXTENDS Meetings, TLC

CONSTANTS host, gus, s1, s2, h1, h2, view

OneGuest   == {gus}
TwoSockets == {s1, s2}
TwoOwner   == s1 :> gus @@ s2 :> gus
NoSockets  == {}
NoOwner    == [s \in NoSockets |-> gus]

Symmetry == Permutations(Handlers)
=============================================================================
