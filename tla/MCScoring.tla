------------------------------ MODULE MCScoring ------------------------------
(* A room of five: four ranked photos and a failed one make the mean end in a half. *)
EXTENDS Scoring

MCIds      == 1..5
MCDeparted == {4}
MCJoinedAt == [p \in MCIds |-> IF p \in {2, 5} THEN 1 ELSE 2]
MCOrder    == <<3, 1, 5, 2, 4>>

Missed    == [status |-> "missed", at |-> 0, score |-> NoScore]
Failed    == [status |-> "failed", at |-> 1, score |-> NoScore]
NoFace(t) == [status |-> "no_face", at |-> t, score |-> NoScore]
Face(t, s) == [status |-> "submitted", at |-> t, score |-> s]

\* The first round: everything, with ties in time, in score and in both; the last player has
\* fewer choices.
Anything ==
  {entry \in [MCIds -> {Missed, Failed} \cup {NoFace(t) : t \in {1, 2}}
                                        \cup {Face(t, s) : t \in {1, 2}, s \in {0, 7}}] :
     entry[5] \in {Missed, Failed, NoFace(1), Face(1, 7), Face(2, 0)}}

\* The second round changes the order: everybody has a rank of their own, or only one a face.
Something == {[p \in MCIds |-> Face(p, 7)], [p \in MCIds |-> IF p = 5 THEN Face(1, 9) ELSE NoFace(1)]}

\* Two players are liked or asked about, or not.
MCReactions ==
  {[p \in MCIds |-> IF p \in DOMAIN f THEN f[p] ELSE [likes |-> 0, questions |-> 0]] :
     f \in [{1, 2} -> {[likes |-> 0, questions |-> 1], [likes |-> 1, questions |-> 0], [likes |-> 1, questions |-> 1]}]}

MCEntries == <<Anything, Something>>
=============================================================================
