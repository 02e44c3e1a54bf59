--------------------------- MODULE MCDirectCalls ---------------------------
(* Small instances of DirectCalls. *)
EXTENDS DirectCalls, TLC

CONSTANTS ann, bob, eve, a1, b1, c1, c2, h1, h2

\* Two people with a socket each.
TwoUsers   == {ann, bob}
TwoSockets == {a1, b1}
TwoOwner   == a1 :> ann @@ b1 :> bob

\* A third person can be added to the call.
GroupUsers   == {ann, bob, eve}

OneCall  == {c1}
TwoCalls == {c1, c2}

HandlerSymmetry == Permutations(Handlers)
=============================================================================
