------------------------------ MODULE MCViewing ------------------------------
(* Small instances of Viewing for TLC. *)
EXTENDS Viewing, TLC

\* Handlers are interchangeable, and so are the viewers who are not the host.
Symmetry == Permutations(Handlers) \cup Permutations(Viewers \ {Host})
=============================================================================
