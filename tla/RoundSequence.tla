--------------------------- MODULE RoundSequence ---------------------------
(***************************************************************************)
(* What a game promises, with no handler, timer, lock or Redis hash in     *)
(* sight: rounds are played one after the other, each is closed to         *)
(* submissions once, settled once, and pays its points in the very step    *)
(* that settles it.  RoundLifecycle is shown to implement this module.     *)
(***************************************************************************)
EXTENDS Integers

CONSTANTS Players,     \* participants of the room
          RoundCount   \* rounds of the emotion sequence

Rounds == 1..RoundCount

VARIABLES game,    \* "waiting", "playing" or "finished"
          phase,   \* phase[r]: where round r stands
          paid     \* paid[p][r]: how many times p was credited round r's points

vars == <<game, phase, paid>>

Init == /\ game = "waiting"
        /\ phase = [r \in Rounds |-> "none"]
        /\ paid = [p \in Players |-> [r \in Rounds |-> 0]]

\* The round the players are in: the last one that was opened.
IsCurrent(r) == phase[r] # "none" /\ \A s \in Rounds : s > r => phase[s] = "none"

Begin == /\ game = "waiting"
         /\ game' = "playing"
         /\ phase' = [phase EXCEPT ![1] = "revealed"]
         /\ UNCHANGED paid

StopAccepting(r) == /\ game = "playing"
                    /\ IsCurrent(r) /\ phase[r] = "revealed"
                    /\ phase' = [phase EXCEPT ![r] = "scoring"]
                    /\ UNCHANGED <<game, paid>>

\* A settled round pays a set of players, once; a voided one pays nobody.
Settle(r) == /\ game = "playing"
             /\ IsCurrent(r) /\ phase[r] = "scoring"
             /\ UNCHANGED game
             /\ \/ /\ phase' = [phase EXCEPT ![r] = "voided"]
                   /\ UNCHANGED paid
                \/ /\ phase' = [phase EXCEPT ![r] = "finalized"]
                   /\ \E W \in SUBSET Players :
                        paid' = [p \in Players |->
                                   IF p \in W THEN [paid[p] EXCEPT ![r] = 1] ELSE paid[p]]

\* The end of a round opens the next one or ends the game.
Proceed(r) == /\ game = "playing"
              /\ IsCurrent(r) /\ phase[r] \in {"finalized", "voided"}
              /\ LET ended == IF phase[r] = "finalized" THEN "closed" ELSE "voided"
                 IN \/ /\ game' = "finished"
                       /\ phase' = [phase EXCEPT ![r] = ended]
                    \/ /\ r < RoundCount
                       /\ phase' = [phase EXCEPT ![r] = ended, ![r + 1] = "revealed"]
                       /\ UNCHANGED game
              /\ UNCHANGED paid

\* Too few active players: the game ends in whatever phase it is.
Abort == game = "playing" /\ game' = "finished" /\ UNCHANGED <<phase, paid>>

Next == \/ Begin \/ Abort
        \/ \E r \in Rounds : StopAccepting(r) \/ Settle(r) \/ Proceed(r)

Spec == Init /\ [][Next]_vars
=============================================================================
