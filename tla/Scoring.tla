------------------------------- MODULE Scoring -------------------------------
(***************************************************************************)
(* The numbers of a game: every round ranks and pays its submissions, the  *)
(* totals accumulate, and the end of the game ranks them and gives the     *)
(* most loved face its award.  The functions are the code's own, sorting   *)
(* sequences by key; the properties compare them with what spec.md section *)
(* 11 says of ranks, without an algorithm.                                 *)
(*                                                                         *)
(* Scores are integers, in tenths of a point.                              *)
(***************************************************************************)
EXTENDS Integers, SequencesExt

CONSTANTS
  Ids,        \* participants, by id
  Departed,   \* those who leave between their submission and the settlement
  JoinedAt,   \* joined_at of each
  Entries,    \* Entries[r]: the submissions each participant may have in round r
  Reactions,  \* the like and question counts that the rounds may add up to
  Order       \* the order in which Redis and PostgreSQL list them: a sequence of all Ids

RoundCount == Len(Entries)
NoScore    == -1  \* None
NoRank     == 0   \* None
MaxScore   == 1000

Statuses == {"submitted", "no_face", "failed", "missed"}

\* RoundSubmission.__post_init__: who was scored, and nobody else, carries a score.
Entry == {e \in [status : Statuses, at : Nat, score : {NoScore} \cup 0..MaxScore] :
            e.status = "submitted" <=> e.score # NoScore}

ASSUME ConstantsAssumption ==
  /\ Ids \subseteq Nat /\ IsFiniteSet(Ids) /\ Departed \subseteq Ids
  /\ JoinedAt \in [Ids -> Nat]
  /\ Entries \in Seq(SUBSET [Ids -> Entry])
  /\ Reactions \subseteq [Ids -> [likes : Nat, questions : Nat]]
  /\ Order \in [1..Cardinality(Ids) -> Ids] /\ {Order[i] : i \in DOMAIN Order} = Ids

VARIABLES
  played,   \* rounds settled
  subs,     \* the last round's submissions, as read_submissions returns them
  totals,   \* totals[p]: total_points and best_round_score
  loved,    \* like and question counts of the finished game
  finished  \* the game is over

vars == <<played, subs, totals, loved, finished>>

Active == Ids \ Departed

\* sorted() of the positions I of a list under the relation "comes before": an insertion
\* sort, which is stable.
Sorted(I, before) ==
  LET Insert(i, q) ==
        InsertAt(q, Min({k \in 1..Len(q) : <<i, q[k]>> \in before} \cup {Len(q) + 1}), i)
  IN MapThenFoldSet(Insert, <<>>, LAMBDA i : i, Max, I)
-----------------------------------------------------------------------------
(* score_round.                                                            *)

IsSubmitter(s) == s.status \in {"submitted", "no_face", "failed"}
IsRanked(s)    == s.status \in {"submitted", "no_face"}
FinalScore(s)  == IF s.status = "no_face" THEN 0 ELSE s.score

\* Mutation: equal scores are ordered by participant, whoever came first.
Before_NoTime(a, b) == \/ FinalScore(a) > FinalScore(b)
                       \/ FinalScore(a) = FinalScore(b) /\ a.id < b.id
\* Mutation: the worst score comes first.
Before_Ascending(a, b) == \/ FinalScore(a) < FinalScore(b)
                          \/ FinalScore(a) = FinalScore(b) /\ (a.at < b.at \/ (a.at = b.at /\ a.id < b.id))
\* _order_key: the better score, then the earlier submission, then the id.
Before(a, b) ==
  \/ FinalScore(a) > FinalScore(b)
  \/ FinalScore(a) = FinalScore(b) /\ (a.at < b.at \/ (a.at = b.at /\ a.id < b.id))

RankPoints(rank) == IF rank \in 1..3 THEN <<100, 70, 50>>[rank] ELSE 30

\* no_face keeps 30 even when the rank alone would pay more.
AwardedPoints(s, rank) == IF s.status = "no_face" THEN 30 ELSE RankPoints(rank)

\* Mutation: the fraction is cut off.
RoundHalfUp_Down(n, d) == n \div d
RoundHalfUp(n, d) == (2 * n + d) \div (2 * d)

RankedAt(round) == {i \in DOMAIN round : IsRanked(round[i])}

Voided(round) ==
  LET submitters == {i \in DOMAIN round : IsSubmitter(round[i])}
  IN submitters # {} /\ \A i \in submitters : round[i].status = "failed"

\* ranked: the positions of those who have a rank, the best first.
Ranking(round) ==
  Sorted(RankedAt(round),
         {e \in RankedAt(round) \X RankedAt(round) : Before(round[e[1]], round[e[2]])})

\* The results of a round by participant; the list the code returns has one per submission.
ScoreRound(round) ==
  LET ranked  == Ranking(round)
      awarded == [k \in 1..Len(ranked) |-> AwardedPoints(round[ranked[k]], k)]
      mean    == IF ranked = <<>> THEN 30 ELSE RoundHalfUp(SumFunction(awarded), Len(ranked))
      Result(i) ==
        IF Voided(round) THEN [rank |-> NoRank, points |-> 0, score |-> FinalScore(round[i])]
        ELSE IF IsRanked(round[i])
        THEN LET k == CHOOSE k \in 1..Len(ranked) : ranked[k] = i
             IN [rank |-> k, points |-> awarded[k], score |-> FinalScore(round[i])]
        ELSE [rank |-> NoRank, points |-> IF round[i].status = "failed" THEN mean ELSE 0,
              score |-> NoScore]
  IN [p \in {round[i].id : i \in DOMAIN round} |->
        Result(CHOOSE i \in DOMAIN round : round[i].id = p)]

Higher(x, y) == IF x >= y THEN x ELSE y

Accumulate(total, result) ==
  [points |-> total.points + result.points, best |-> Higher(total.best, result.score)]

\* round/service.display_ranks, over what _result_payload recorded: a no_face has 0.0, a
\* failure nothing.  The sets are those of Redis, so it runs over the same submissions.
DisplayRanks(round) ==
  LET target(i) == IF round[i].status = "submitted" THEN round[i].score ELSE 0
      Key(i, j) == \/ target(i) > target(j)
                   \/ /\ target(i) = target(j)
                      /\ \/ round[i].at < round[j].at
                         \/ round[i].at = round[j].at /\ round[i].id < round[j].id
      ranked == Sorted(RankedAt(round), {e \in RankedAt(round) \X RankedAt(round) : Key(e[1], e[2])})
  IN [p \in {round[i].id : i \in {j \in DOMAIN round : IsSubmitter(round[j])}} |->
        IF \E k \in 1..Len(ranked) : round[ranked[k]].id = p
        THEN CHOOSE k \in 1..Len(ranked) : round[ranked[k]].id = p ELSE NoRank]
-----------------------------------------------------------------------------
(* final_ranking and most_loved.                                           *)

Standing == [p \in Active |-> [id |-> p, points |-> totals[p].points, best |-> totals[p].best,
                               joined |-> JoinedAt[p],
                               likes |-> loved[p].likes, questions |-> loved[p].questions]]

\* Mutation: the best single round counts first.
Outranks_ByBest(a, b) ==
  \/ a.best > b.best
  \/ a.best = b.best /\ (a.points > b.points \/ (a.points = b.points /\ a.joined <= b.joined))
\* -total_points, -best_round_score, joined_at, participant_id.
Outranks(a, b) ==
  \/ a.points > b.points
  \/ /\ a.points = b.points
     /\ \/ a.best > b.best
        \/ a.best = b.best /\ (a.joined < b.joined \/ (a.joined = b.joined /\ a.id < b.id))

FinalRanking ==
  LET standing == Standing
      listed   == {i \in DOMAIN Order : Order[i] \in Active}
      ranked   == Sorted(listed, {e \in listed \X listed :
                                   Outranks(standing[Order[e[1]]], standing[Order[e[2]]])})
  IN [k \in 1..Len(ranked) |-> standing[Order[ranked[k]]]]

\* Mutation: more questions make a face more loved.
Lovelier_Questions(a, b) == a.likes > b.likes \/ (a.likes = b.likes /\ a.questions > b.questions)
\* -like_count, question_count, joined_at, participant_id.
Lovelier(a, b) ==
  \/ a.likes > b.likes
  \/ /\ a.likes = b.likes
     /\ \/ a.questions < b.questions
        \/ /\ a.questions = b.questions
           /\ a.joined < b.joined \/ (a.joined = b.joined /\ a.id < b.id)

\* The set of winners: one, or none when nobody was liked.
MostLoved ==
  LET standing   == Standing
      candidates == {p \in Active : standing[p].likes > 0}
  IN {p \in candidates : \A q \in candidates \ {p} : ~ Lovelier(standing[q], standing[p])}
-----------------------------------------------------------------------------
Init ==
  /\ played = 0 /\ subs = <<>> /\ finished = FALSE
  /\ totals = [p \in Ids |-> [points |-> 0, best |-> 0]]
  /\ loved = [p \in Ids |-> [likes |-> 0, questions |-> 0]]

InLedger(p) == p \in Active

\* finalize_round: who left keeps a place in the ranking and none in the ledger.
SettleRound ==
  /\ played < RoundCount /\ played' = played + 1
  /\ \E entry \in Entries[played + 1] :
       /\ \A p \in Departed : entry[p].status # "missed"
       /\ subs' = [i \in DOMAIN Order |->
                     [id |-> Order[i], status |-> entry[Order[i]].status,
                      at |-> entry[Order[i]].at, score |-> entry[Order[i]].score]]
  /\ LET results == ScoreRound(subs')
     IN totals' = [p \in Ids |-> IF InLedger(p) /\ ~ Voided(subs')
                                 THEN Accumulate(totals[p], results[p]) ELSE totals[p]]
  /\ UNCHANGED <<loved, finished>>

\* finish_game: the reactions of all rounds are summed up.
FinishGame ==
  /\ ~ finished /\ finished' = TRUE /\ subs' = <<>>
  /\ loved' \in Reactions
  /\ UNCHANGED <<played, totals>>

Next == SettleRound \/ FinishGame

Spec == Init /\ [][Next]_vars
-----------------------------------------------------------------------------
Submissions == {subs[i] : i \in DOMAIN subs}
Ranked      == {s \in Submissions : IsRanked(s)}
Outcome     == ScoreRound(subs)

\* Totals stay in range: nobody is paid more than 100 a round or less than nothing, and who
\* left before the settlement is not paid.
TypeOK ==
  /\ played \in 0..RoundCount
  /\ totals \in [Ids -> [points : 0..100 * RoundCount, best : 0..MaxScore]]
  /\ \A p \in Departed : totals[p].points = 0
  /\ loved \in [Ids -> [likes : Nat, questions : Nat]]

\* A submission's rank is one more than the number of those with a better score, or with the
\* same one and sent earlier; a photo without a face counts as 0.0; whoever failed or missed
\* has no rank, and the order in which Redis lists the submissions plays no part (SC-03).
RanksAsSpecified ==
  ~ Voided(subs) => LET outcome == Outcome IN \A s \in Submissions :
    LET better == {t \in Ranked : FinalScore(t) > FinalScore(s)}
        sooner == {t \in Ranked : FinalScore(t) = FinalScore(s) /\ t.at < s.at}
        equal  == {t \in Ranked : FinalScore(t) = FinalScore(s) /\ t.at = s.at /\ t.id < s.id}
    IN outcome[s.id].rank =
         IF IsRanked(s) THEN 1 + Cardinality(better \cup sooner \cup equal) ELSE NoRank

\* An engine failure is worth the mean of what the others were awarded, the half rounded up,
\* so it pays no less than the worst and no more than the best of them; and it never pays
\* where all failed (SC-05, D-2).
FailureCostsNothing ==
  LET outcome == Outcome
      paid    == SumFunction([t \in Ranked |-> outcome[t.id].points])
      n       == Cardinality(Ranked)
  IN \A s \in Submissions : s.status = "failed" =>
       LET c == outcome[s.id].points
       IN IF n = 0 THEN c = 0
          ELSE /\ 2 * paid - n < 2 * n * c /\ 2 * n * c <= 2 * paid + n
               /\ \E t \in Ranked : outcome[t.id].points <= c
               /\ \E t \in Ranked : outcome[t.id].points >= c

\* A better face never pays less: had one player's photo been better, that player would have
\* got no fewer points and no other submitter with a face more (SC-02).
BetterNeverPaysLess ==
  LET outcome == Outcome
  IN \A i \in DOMAIN subs : subs[i].status = "submitted" =>
       LET improved == ScoreRound([subs EXCEPT ![i].score = MaxScore])
       IN \A s \in Ranked :
            IF s.id = subs[i].id THEN improved[s.id].points >= outcome[s.id].points
            ELSE improved[s.id].points <= outcome[s.id].points

\* The rank shown while results come in is, once all are in, the rank that is paid (SC-09).
DisplayAgrees ==
  ~ Voided(subs) =>
    LET shown == DisplayRanks(subs)  outcome == Outcome
    IN \A p \in DOMAIN shown : shown[p] = outcome[p].rank

\* The final ranking lists every player once; nobody stands above someone with more points,
\* or with as many and a better best round, or who joined earlier in a complete tie (SC-06).
PodiumIsFair ==
  finished =>
    LET podium == FinalRanking
    IN /\ {podium[i].id : i \in DOMAIN podium} = Active
       /\ Len(podium) = Cardinality(Active)
       /\ \A i, j \in DOMAIN podium : i < j =>
            LET a == podium[i]  b == podium[j]
            IN /\ a.points >= b.points
               /\ a.points = b.points => a.best >= b.best
               /\ a.points = b.points /\ a.best = b.best => a.joined <= b.joined

\* The award goes to one player, liked by somebody and by nobody less than any other, with the
\* fewest questions among those; without any like there is none (RX-11).
AwardIsEarned ==
  finished =>
    LET winners == MostLoved
    IN /\ winners = {} <=> \A p \in Active : loved[p].likes = 0
       /\ Cardinality(winners) <= 1
       /\ \A p \in winners, q \in Active :
            /\ loved[p].likes >= loved[q].likes
            /\ loved[p].likes = loved[q].likes => loved[p].questions <= loved[q].questions
-----------------------------------------------------------------------------
(* The inductive invariant.                                                *)

Submission ==
  {s \in [id : Ids, status : Statuses, at : Nat, score : {NoScore} \cup 0..MaxScore] :
     s.status = "submitted" <=> s.score # NoScore}

\* What read_submissions may return: nobody has two submissions.
IsRound(round) ==
  /\ round \in Seq(Submission)
  /\ \A i, j \in DOMAIN round : round[i].id = round[j].id => i = j

IInv ==
  /\ TypeOK /\ IsRound(subs)
  /\ \A p \in Ids : totals[p].points <= 100 * played
=============================================================================
