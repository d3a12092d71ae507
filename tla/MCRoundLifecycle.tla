-------------------------- MODULE MCRoundLifecycle --------------------------
(* Small instances of RoundLifecycle for TLC. *)
EXTENDS RoundLifecycle, TLC

\* Players are interchangeable where the cfg lets all of them leave and all of them send bad
\* bodies; a cfg with liveness does not use this.
Symmetry == Permutations(Players) \cup Permutations(Workers) \cup Permutations(Pods)
=============================================================================
