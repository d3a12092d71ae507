----------------------------- MODULE MCPresence -----------------------------
(* Small instances of Presence for TLC. *)
EXTENDS Presence, TLC

\* Participants, sockets and immortal pods are interchangeable.
Symmetry == Permutations(Members) \cup Permutations(Sids)
=============================================================================
