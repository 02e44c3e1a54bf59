----------------------------- MODULE MCPresence -----------------------------
(* One user with four sockets: sockets of different users do not meet. *)
EXTENDS Presence, TLC

CONSTANTS ann, bob, a1, a2, a3, a4, b1

MCUsers   == {ann, bob}
MCSockets == {a1, a2, a3, a4, b1}
MCOwner   == a1 :> ann @@ a2 :> ann @@ a3 :> ann @@ a4 :> ann @@ b1 :> bob
=============================================================================
