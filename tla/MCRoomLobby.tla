---------------------------- MODULE MCRoomLobby ----------------------------
(* Small instances of RoomLobby for TLC. *)
EXTENDS RoomLobby, TLC

\* Everybody may enter room r1; guests and requests are interchangeable.
CONSTANTS u1, r1
MCEntries == Users \X {r1}
Symmetry == Permutations(Requests) \cup Permutations(Users \ {u1})
=============================================================================
