--------------------------- MODULE MCRoomJourney ---------------------------
(* One guest with one socket; the host's is implied. *)
EXTENDS RoomJourney, TLC

CONSTANTS host, gus, s1, h1, h2, view

OneGuest  == {gus}
OneSocket == {s1}
OneOwner  == s1 :> gus
=============================================================================
