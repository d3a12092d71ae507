---------------------------- MODULE Viewing_proofs ----------------------------
(* What Viewing guarantees for any number of viewers, photos and handlers. *)
EXTENDS Viewing, FiniteSetTheorems, TLAPS

Mark    == Viewers \X Viewers \X Kinds
Closing == {"counts", "actors", "commit"}

\* Only the task of handler h changes, and it stays a task.
Moves(h) == /\ thr \in [Handlers -> Task] /\ thr' \in [Handlers -> Task]
            /\ \A u \in Handlers : u # h => thr'[u] = thr[u]

\* Goto moves one handler to a label and keeps what it knows.
LEMMA GotoFacts ==
  ASSUME NEW h \in Handlers, NEW l \in Labels, thr \in [Handlers -> Task], Goto(h, l)
  PROVE  Moves(h) /\ thr'[h].pc = l
<1> DEFINE v == [thr[h] EXCEPT !.pc = l]
<1>1. thr[h] \in Task
  OBVIOUS
<1>2. v \in Task /\ v.pc = l
  BY <1>1 DEF Task
<1>3. thr' = [thr EXCEPT ![h] = v]
  BY DEF Goto
<1> HIDE DEF v
<1>4. QED
  BY <1>2, <1>3 DEF Moves

\* Return puts one handler to rest.
LEMMA ReturnFacts ==
  ASSUME NEW h \in Handlers, thr \in [Handlers -> Task], Return(h)
  PROVE  Moves(h) /\ thr'[h].pc = "idle"
<1>1. Idle \in Task /\ Idle.pc = "idle"
  BY DEF Idle, Task, Labels, Nothing
<1>2. QED
  BY <1>1 DEF Return, Moves

\* Every step of a handler moves that handler only.
LEMMA StepMoves ==
  ASSUME NEW h \in Handlers, IInv,
         \/ \E a \in Viewers, p \in Tapped, k \in Kinds : React(h, a, p, k)
         \/ \E v \in Viewers : Skip(h, v)
         \/ Toggle(h) \/ Vote(h) \/ ReadVoters(h) \/ Compare(h) \/ ViewingEnds(h)
         \/ BeginClosing(h) \/ ReadCounts(h) \/ ReadActors(h) \/ CommitClosing(h) \/ Drop(h)
         \/ Crash(h)
  PROVE  Moves(h)
<1>1. thr \in [Handlers -> Task] /\ thr[h] \in Task
  BY DEF IInv
<1>2. CASE \E a \in Viewers, p \in Tapped, k \in Kinds : React(h, a, p, k)
  <2>1. PICK a \in Viewers, p \in Tapped, k \in Kinds : React(h, a, p, k)
    BY <1>2
  <2> DEFINE v == [thr[h] EXCEPT !.pc = "toggle", !.who = a, !.mark = <<p, a, k>>]
  <2>2. v \in Task
    BY <1>1, ConstantsAssumption DEF Task, Labels
  <2>3. thr' = [thr EXCEPT ![h] = v]
    BY <2>1 DEF React
  <2> HIDE DEF v
  <2>4. QED
    BY <1>1, <2>2, <2>3 DEF Moves
<1>3. CASE \E x \in Viewers : Skip(h, x)
  <2>1. PICK x \in Viewers : Skip(h, x)
    BY <1>3
  <2> DEFINE v == [thr[h] EXCEPT !.pc = "vote", !.who = x]
  <2>2. v \in Task
    BY <1>1 DEF Task, Labels
  <2>3. thr' = [thr EXCEPT ![h] = v]
    BY <2>1 DEF Skip
  <2> HIDE DEF v
  <2>4. QED
    BY <1>1, <2>2, <2>3 DEF Moves
<1>4. CASE Toggle(h) \/ Drop(h) \/ Crash(h)
  BY <1>1, <1>4, ReturnFacts DEF Toggle, Drop, Crash
<1>5. CASE Vote(h) \/ CommitClosing(h)
  BY <1>1, <1>5, GotoFacts DEF Vote, CommitClosing, Labels
<1>6. CASE Compare(h) \/ BeginClosing(h)
  BY <1>1, <1>6, GotoFacts, ReturnFacts DEF Compare, BeginClosing, Labels
<1>7. CASE ReadVoters(h)
  <2> DEFINE v == [thr[h] EXCEPT !.pc = "compare", !.seen = skips]
  <2>1. v \in Task
    BY <1>1 DEF Task, Labels, IInv, TypeOK
  <2>2. thr' = [thr EXCEPT ![h] = v]
    BY <1>7 DEF ReadVoters
  <2> HIDE DEF v
  <2>3. QED
    BY <1>1, <2>1, <2>2 DEF Moves
<1>8. CASE ReadCounts(h)
  <2> DEFINE v == [thr[h] EXCEPT !.pc = "actors", !.counts = count]
  <2>1. v \in Task
    BY <1>1 DEF Task, Labels, IInv, TypeOK
  <2>2. thr' = [thr EXCEPT ![h] = v]
    BY <1>8 DEF ReadCounts
  <2> HIDE DEF v
  <2>3. QED
    BY <1>1, <2>1, <2>2 DEF Moves
<1>9. CASE ReadActors(h)
  <2> DEFINE v == [thr[h] EXCEPT !.pc = "commit", !.seen = actors]
  <2>1. v \in Task
    BY <1>1 DEF Task, Labels, IInv, TypeOK, OfAnother
  <2>2. thr' = [thr EXCEPT ![h] = v]
    BY <1>9 DEF ReadActors
  <2> HIDE DEF v
  <2>3. QED
    BY <1>1, <2>1, <2>2 DEF Moves
<1>10. CASE ViewingEnds(h)
  <2> DEFINE v == [thr[h] EXCEPT !.pc = "advance"]
  <2>1. v \in Task
    BY <1>1 DEF Task, Labels
  <2>2. thr' = [thr EXCEPT ![h] = v]
    BY <1>10 DEF ViewingEnds
  <2> HIDE DEF v
  <2>3. QED
    BY <1>1, <2>1, <2>2 DEF Moves
<1>11. QED
  BY <1>2, <1>3, <1>4, <1>5, <1>6, <1>7, <1>8, <1>9, <1>10

\* What a handler relies on survives the steps of others that respect it.
LEMMA Bystander ==
  ASSUME NEW u \in Handlers, Steady(u), thr'[u] = thr[u],
         thr[u].pc \in Closing => UNCHANGED <<lock, room, status>>,
         status = "closed" => status' = "closed",
         scored \subseteq scored',
         thr[u].pc \in Closing =>
           \A p \in Viewers, k \in Kinds : <<p, k>> \notin touched' =>
             /\ <<p, k>> \notin touched /\ count'[p][k] = count[p][k]
             /\ Marks(actors', p, k) = Marks(actors, p, k)
  PROVE  Steady(u)'
<1> DEFINE t == thr[u]
<1>1. /\ t.pc = "toggle" => OfAnother(t.mark)
      /\ t.pc = "vote" => t.who \in Viewers
      /\ t.pc \in Closing => lock' = u /\ room' = "playing" /\ status' = "finalized"
      /\ t.pc = "drop" => status' = "closed"
  BY DEF Steady, Closing
<1>2. ASSUME t.pc \in {"actors", "commit"}, NEW p \in Viewers, NEW k \in Kinds, <<p, k>> \notin touched'
      PROVE  t.counts[p][k] = count'[p][k]
  BY <1>2 DEF Steady, Closing
<1>3. ASSUME t.pc = "commit", NEW m \in t.seen
      PROVE  OfAnother(m) /\ m[1] \in scored'
  BY <1>3 DEF Steady
<1>4. ASSUME t.pc = "commit", NEW p \in Viewers, NEW k \in Kinds, <<p, k>> \notin touched'
      PROVE  Marks(t.seen, p, k) = Marks(actors', p, k)
  BY <1>4 DEF Steady, Closing
<1>5. thr'[u] = t
  OBVIOUS
<1> HIDE DEF t
<1>6. QED
  BY <1>1, <1>2, <1>3, <1>4, <1>5 DEF Steady, Closing

\* The counts and the snapshot still add up if nobody touched them.
Adds == IsFiniteSet(actors) /\ CountsAreActors /\ Unstored /\ SnapshotAddsUp

LEMMA Untouched ==
  ASSUME Adds, UNCHANGED <<rows, tally, actors, count>>,
         status' = status \/ (status # "closed" /\ status' # "closed"),
         status = "closed" => touched' = touched
  PROVE  Adds'
  BY DEF Adds, CountsAreActors, Unstored, SnapshotAddsUp

\* TOGGLE_REACTION moves the count with the set of actors, for the pair it is about only.
LEMMA ToggleCounts ==
  ASSUME IInv, NEW h \in Handlers, Toggle(h)
  PROVE  /\ TypeOK' /\ IsFiniteSet(actors') /\ CountsAreActors'
         /\ \A p \in Viewers, k \in Kinds :
              <<p, k>> = <<thr[h].mark[1], thr[h].mark[3]>>
              \/ (count'[p][k] = count[p][k] /\ Marks(actors', p, k) = Marks(actors, p, k))
<1> DEFINE m == thr[h].mark  q == m[1]  j == m[3]
<1>1. OfAnother(m) /\ m \in Mark /\ q \in Viewers /\ j \in Kinds
  BY DEF IInv, Steady, Toggle, At, OfAnother, Mark
<1>2. CASE ~ Resolved(q)
  BY <1>2 DEF Toggle, IInv, TypeOK, CountsAreActors, db, Pairs, OfAnother
<1>3. CASE Resolved(q)
  <2> DEFINE S == Marks(actors, q, j)
             n == Positive(count[q][j] + Delta(m))
  <2>1. /\ actors' = IF m \in actors THEN actors \ {m} ELSE actors \cup {m}
        /\ count' = [count EXCEPT ![q][j] = n]
        /\ UNCHANGED <<room, status, rows, tally, voted, lock, scored, skips, online, timer>>
        /\ touched' \subseteq touched \cup {<<q, j>>}
    BY <1>3 DEF Toggle, db, Resolved
  <2>2. IsFiniteSet(actors) /\ IsFiniteSet(S) /\ S \subseteq actors
    <3>1. IsFiniteSet(actors) /\ S \subseteq actors
      BY DEF IInv, Marks
    <3>2. QED
      BY <3>1, FS_Subset
  <2>3. Marks(actors', q, j) = IF m \in actors THEN S \ {m} ELSE S \cup {m}
    BY <2>1 DEF Marks
  <2>4. m \in S <=> m \in actors
    BY DEF Marks
  <2>5. IsFiniteSet(actors')
    BY <2>1, <2>2, FS_AddElement, FS_RemoveElement
  <2>6. /\ count \in [Viewers -> [Kinds -> Nat]] /\ count[q][j] = Cardinality(S)
        /\ Cardinality(S) \in Nat
    BY <1>1, <2>2, FS_CardinalityType DEF IInv, TypeOK, CountsAreActors
  <2>7. n \in Nat /\ n = Cardinality(Marks(actors', q, j))
    <3>1. CASE m \in actors
      <4>1. Cardinality(S \ {m}) = Cardinality(S) - 1 /\ Cardinality(S \ {m}) \in Nat
        <5>1. IsFiniteSet(S \ {m}) /\ Cardinality(S \ {m}) = Cardinality(S) - 1
          BY <2>2, <2>4, <3>1, FS_RemoveElement
        <5>2. QED
          BY <5>1, FS_CardinalityType
      <4>2. Delta(m) = -1
        BY <3>1 DEF Delta
      <4>3. QED
        BY <2>3, <2>6, <3>1, <4>1, <4>2 DEF Positive
    <3>2. CASE m \notin actors
      <4>1. Cardinality(S \cup {m}) = Cardinality(S) + 1
        BY <2>2, <2>4, <3>2, FS_AddElement
      <4>2. Delta(m) = 1
        BY <3>2 DEF Delta
      <4>3. QED
        BY <2>3, <2>6, <3>2, <4>1, <4>2 DEF Positive
    <3>3. QED
      BY <3>1, <3>2
  <2> HIDE DEF n, S
  <2>8. count' \in [Viewers -> [Kinds -> Nat]] /\ count'[q][j] = n
    BY <1>1, <2>1, <2>6, <2>7
  <2>9. ASSUME NEW p \in Viewers, NEW k \in Kinds, <<p, k>> # <<q, j>>
        PROVE  count'[p][k] = count[p][k] /\ Marks(actors', p, k) = Marks(actors, p, k)
    <3>1. count'[p][k] = count[p][k]
      BY <1>1, <2>1, <2>6, <2>9
    <3>2. Marks(actors', p, k) = Marks(actors, p, k)
      BY <2>1, <2>9 DEF Marks
    <3>3. QED
      BY <3>1, <3>2
  <2>10. CountsAreActors'
    <3> SUFFICES ASSUME NEW p \in Viewers, NEW k \in Kinds
                 PROVE  count'[p][k] = Cardinality(Marks(actors', p, k))
      BY DEF CountsAreActors, Marks
    <3>1. CASE <<p, k>> = <<q, j>>
      BY <2>7, <2>8, <3>1
    <3>2. CASE <<p, k>> # <<q, j>>
      BY <2>9, <3>2 DEF IInv, CountsAreActors
    <3>3. QED
      BY <3>1, <3>2
  <2>11. TypeOK'
    <3>1. /\ room' \in {"playing", "finished"} /\ status' \in {"scoring", "finalized", "closed"}
          /\ tally' \in [Viewers -> [Kinds -> Nat]]
          /\ scored' \cup voted' \subseteq Viewers /\ skips' \cup online' \subseteq Viewers
          /\ timer' \in BOOLEAN /\ lock' \in Handlers \cup {Nobody}
      BY <2>1 DEF IInv, TypeOK
    <3>2. touched' \subseteq Pairs
      BY <1>1, <2>1 DEF IInv, TypeOK, Pairs
    <3>3. \A x \in rows' \cup actors' : OfAnother(x) /\ x[1] \in scored'
      BY <1>1, <1>3, <2>1 DEF IInv, TypeOK, Resolved
    <3>4. QED
      BY <2>8, <3>1, <3>2, <3>3 DEF TypeOK, OfAnother
  <2>12. QED
    BY <2>5, <2>9, <2>10, <2>11
<1>4. QED
  BY <1>2, <1>3

\* Nobody closes the round while another handler holds the lock, or while it is free.
LEMMA OneCloser ==
  ASSUME IInv, NEW h \in Handlers, NEW u \in Handlers, u # h, thr[u].pc \in Closing
  PROVE  lock = u /\ ~ Free /\ thr[h].pc \notin Closing /\ thr[h].pc # "drop" /\ status = "finalized"
  BY ConstantsAssumption DEF IInv, Steady, Closing, Free

\* Steps of a handler that neither store nor toggle: checks, votes, reads, timers, a crash.
Quietly(h) ==
  \/ \E a \in Viewers, p \in Tapped, k \in Kinds : React(h, a, p, k)
  \/ \E v \in Viewers : Skip(h, v)
  \/ Vote(h) \/ ReadVoters(h) \/ Compare(h) \/ ViewingEnds(h) \/ ReadCounts(h) \/ ReadActors(h)
  \/ Crash(h)

LEMMA QuietData ==
  ASSUME IInv, NEW h \in Handlers, Quietly(h)
  PROVE  /\ UNCHANGED <<room, status, rows, tally, voted, scored, actors, count, touched>>
         /\ lock' = lock \/ (thr[h].pc # "idle" /\ lock = h)
         /\ TypeOK'
<1>1. UNCHANGED <<room, status, rows, tally, voted, scored, actors, count, touched>>
  BY DEF Quietly, React, Skip, Vote, ReadVoters, Compare, ViewingEnds, ReadCounts, ReadActors, Crash,
         db, redis
<1>2. lock' = lock \/ (thr[h].pc # "idle" /\ lock = h /\ lock' = Nobody)
  BY DEF Quietly, React, Skip, Vote, ReadVoters, Compare, ViewingEnds, ReadCounts, ReadActors, Crash, At
<1>3. online' = online /\ timer' \in BOOLEAN /\ skips' \subseteq Viewers
  <2>1. CASE Vote(h)
    BY <2>1 DEF Vote, At, IInv, TypeOK, Steady
  <2>2. CASE ~ Vote(h)
    BY <2>2 DEF Quietly, React, Skip, ReadVoters, Compare, ViewingEnds, ReadCounts, ReadActors, Crash,
                db, redis, IInv, TypeOK
  <2>3. QED
    BY <2>1, <2>2
<1>4. TypeOK'
  BY <1>1, <1>2, <1>3 DEF IInv, TypeOK, Pairs, OfAnother
<1>5. QED
  BY <1>1, <1>2, <1>4

\* Such a step leaves its handler and all others steady.
LEMMA QuietSafe ==
  ASSUME IInv, NEW h \in Handlers, Quietly(h)
  PROVE  IInv'
<1>1. Moves(h) /\ thr \in [Handlers -> Task]
  BY StepMoves DEF Quietly, IInv
<1>2. /\ UNCHANGED <<room, status, rows, tally, voted, scored, actors, count, touched>>
      /\ lock' = lock \/ (thr[h].pc # "idle" /\ lock = h)
      /\ TypeOK'
  BY QuietData
<1>3. Adds'
  BY <1>2, Untouched DEF IInv, Adds
<1>4. ASSUME NEW u \in Handlers, u # h PROVE Steady(u)'
  <2>1. thr'[u] = thr[u] /\ Steady(u)
    BY <1>1, <1>4 DEF Moves, IInv
  <2>2. thr[u].pc \in Closing => lock' = lock
    BY <1>2, <1>4, OneCloser
  <2>3. QED
    BY <1>2, <2>1, <2>2, Bystander DEF Marks
<1>5. Steady(h)'
  <2>1. thr[h] \in Task /\ Steady(h)
    BY <1>1 DEF IInv
  <2>2. CASE \E a \in Viewers, p \in Tapped, k \in Kinds : React(h, a, p, k)
    <3>1. PICK a \in Viewers, p \in Tapped, k \in Kinds : React(h, a, p, k)
      BY <2>2
    <3>2. thr'[h].pc = "toggle" /\ thr'[h].mark = <<p, a, k>>
      BY <1>1, <2>1, <3>1 DEF React, Task
    <3>3. OfAnother(thr'[h].mark)
      <4>1. a # p /\ p \in Viewers
        BY <3>1, ConstantsAssumption DEF React
      <4>2. QED
        BY ONLY <3>2, <4>1 DEF OfAnother
    <3>4. QED
      BY <3>2, <3>3 DEF Steady, OfAnother
  <2>3. CASE \E v \in Viewers : Skip(h, v)
    <3>1. PICK v \in Viewers : Skip(h, v)
      BY <2>3
    <3>2. thr'[h].pc = "vote" /\ thr'[h].who = v
      BY <1>1, <2>1, <3>1 DEF Skip, Task
    <3>3. QED
      BY <3>2 DEF Steady
  <2>4. CASE ReadCounts(h)
    <3>1. /\ thr[h].pc = "counts" /\ lock' = lock
          /\ thr'[h].pc = "actors" /\ thr'[h].counts = count
      BY <1>1, <2>1, <2>4 DEF ReadCounts, At, Task
    <3>2. QED
      BY <1>2, <2>1, <3>1 DEF Steady
  <2>5. CASE ReadActors(h)
    <3>1. /\ thr[h].pc = "actors" /\ lock' = lock
          /\ thr'[h].pc = "commit" /\ thr'[h].seen = actors /\ thr'[h].counts = thr[h].counts
      BY <1>1, <2>1, <2>5 DEF ReadActors, At, Task
    <3>2. \A m \in actors : OfAnother(m) /\ m[1] \in scored
      BY DEF IInv, TypeOK
    <3>3. QED
      BY <1>2, <2>1, <3>1, <3>2 DEF Steady, OfAnother, Marks
  <2>6. CASE Vote(h) \/ ReadVoters(h) \/ Compare(h) \/ ViewingEnds(h) \/ Crash(h)
    <3>1. thr'[h].pc \in {"voters", "compare", "advance", "idle"}
      <4>0. "voters" \in Labels /\ "advance" \in Labels
        BY DEF Labels
      <4>1. CASE Vote(h)
        <5>1. Goto(h, "voters")
          BY <4>1 DEF Vote
        <5>2. QED
          BY ONLY <1>1, <5>1, <4>0, GotoFacts
      <4>2. CASE Compare(h)
        <5>1. Goto(h, "advance") \/ Return(h)
          BY <4>2 DEF Compare
        <5>2. QED
          BY ONLY <1>1, <5>1, <4>0, GotoFacts, ReturnFacts
      <4>3. CASE Crash(h)
        BY <1>1, <4>3, ReturnFacts DEF Crash
      <4>4. CASE ReadVoters(h) \/ ViewingEnds(h)
        BY <1>1, <2>1, <4>4 DEF ReadVoters, ViewingEnds, Task
      <4>5. QED
        BY <2>6, <4>1, <4>2, <4>3, <4>4
    <3>2. QED
      BY <3>1 DEF Steady
  <2>7. QED
    BY <2>2, <2>3, <2>4, <2>5, <2>6 DEF Quietly
<1>6. QED
  BY <1>1, <1>2, <1>3, <1>4, <1>5 DEF IInv, Adds, Moves

\* A reaction that lands while the round is being closed is excused, and no other pair moves.
LEMMA ToggleSafe ==
  ASSUME IInv, NEW h \in Handlers, Toggle(h)
  PROVE  IInv'
<1> DEFINE m == thr[h].mark
<1>1. Moves(h) /\ thr'[h].pc = "idle"
  BY StepMoves, ReturnFacts DEF Toggle, IInv
<1>2. /\ TypeOK' /\ IsFiniteSet(actors') /\ CountsAreActors'
      /\ \A p \in Viewers, k \in Kinds :
           <<p, k>> = <<m[1], m[3]>>
           \/ (count'[p][k] = count[p][k] /\ Marks(actors', p, k) = Marks(actors, p, k))
  BY ToggleCounts
<1>3. /\ UNCHANGED <<room, status, rows, tally, lock, scored>>
      /\ touched \subseteq touched' /\ (status = "closed" => touched' = touched)
  BY DEF Toggle, db
<1>4. \/ UNCHANGED <<actors, count>>
      \/ status = "closed"
      \/ <<m[1], m[3]>> \in touched'
  BY DEF Toggle
<1>5. Unstored' /\ SnapshotAddsUp'
  BY <1>3 DEF IInv, Unstored, SnapshotAddsUp
<1>6. ASSUME NEW u \in Handlers, u # h PROVE Steady(u)'
  <2>1. thr'[u] = thr[u] /\ Steady(u)
    BY <1>1, <1>6 DEF Moves, IInv
  <2>2. thr[u].pc \in Closing => status # "closed"
    BY <1>6, OneCloser
  <2>3. ASSUME thr[u].pc \in Closing, NEW p \in Viewers, NEW k \in Kinds, <<p, k>> \notin touched'
        PROVE  /\ <<p, k>> \notin touched /\ count'[p][k] = count[p][k]
               /\ Marks(actors', p, k) = Marks(actors, p, k)
    BY <1>2, <1>3, <1>4, <2>2, <2>3 DEF Marks
  <2>4. QED
    BY <1>3, <2>1, <2>3, Bystander
<1>7. Steady(h)'
  BY <1>1 DEF Steady
<1>8. QED
  BY <1>1, <1>2, <1>5, <1>6, <1>7 DEF IInv, Moves

\* advance takes the lock only of a round that is viewed, and starts with a clean slate.
LEMMA BeginClosingSafe ==
  ASSUME IInv, NEW h \in Handlers, BeginClosing(h)
  PROVE  IInv'
<1>1. Moves(h)
  BY StepMoves
<1>2. UNCHANGED <<room, status, rows, tally, voted, scored, actors, count, skips, timer, online>>
  BY DEF BeginClosing, db, redis
<1>3. \/ /\ CanAdvance /\ lock' = h /\ touched' = {} /\ thr'[h].pc = "counts"
      \/ UNCHANGED <<lock, touched>> /\ thr'[h].pc = "idle"
  <2>1. CASE CanAdvance
    <3>1. lock' = h /\ touched' = {} /\ Goto(h, "counts")
      BY <2>1 DEF BeginClosing
    <3>2. thr \in [Handlers -> Task] /\ "counts" \in Labels
      BY DEF IInv, Labels
    <3>3. thr'[h].pc = "counts"
      BY ONLY <3>1, <3>2, GotoFacts
    <3>4. QED
      BY <2>1, <3>1, <3>3
  <2>2. CASE ~ CanAdvance
    BY <2>2, ReturnFacts DEF BeginClosing, IInv
  <2>3. QED
    BY <2>1, <2>2
<1>4. TypeOK'
  BY <1>2, <1>3 DEF IInv, TypeOK, OfAnother
<1>5. Adds'
  BY <1>2, <1>3, Untouched DEF IInv, Adds, CanAdvance
<1>6. ASSUME NEW u \in Handlers, u # h PROVE Steady(u)'
  <2>1. thr'[u] = thr[u] /\ Steady(u)
    BY <1>1, <1>6 DEF Moves, IInv
  <2>2. thr[u].pc \notin Closing
    BY <1>6, OneCloser DEF BeginClosing
  <2>3. QED
    BY <1>2, <2>1, <2>2, Bystander
<1>7. Steady(h)'
  BY <1>2, <1>3 DEF Steady, CanAdvance
<1>8. QED
  BY <1>1, <1>4, <1>5, <1>6, <1>7 DEF IInv, Adds, Moves

\* The commit stores what was read, and that adds up.
LEMMA CommitClosingSafe ==
  ASSUME IInv, NEW h \in Handlers, CommitClosing(h)
  PROVE  IInv'
<1> DEFINE t == thr[h]
<1>1. Moves(h) /\ thr'[h].pc = "drop" /\ t \in Task
  BY StepMoves, GotoFacts DEF CommitClosing, IInv, Labels
<1>2. /\ t.pc = "commit" /\ rows' = rows \cup t.seen /\ tally' = t.counts /\ lock' = Nobody
      /\ status' = "closed" /\ room' \in {"playing", "finished"} /\ voted' = voted \cup skips
      /\ UNCHANGED <<scored, actors, count, skips, timer, online, touched>>
  BY DEF CommitClosing, At, redis
<1>3. status = "finalized" /\ rows = {} /\ Steady(h)
  BY <1>2 DEF IInv, Steady, Unstored
<1>4. \A m \in rows' : OfAnother(m) /\ m[1] \in scored
  BY <1>2, <1>3 DEF Steady
<1>5. TypeOK'
  <2>1. tally' \in [Viewers -> [Kinds -> Nat]]
    BY <1>1, <1>2 DEF Task
  <2>2. QED
    BY <1>2, <1>4, <2>1 DEF IInv, TypeOK, Pairs, OfAnother
<1>6. IsFiniteSet(actors') /\ CountsAreActors' /\ Unstored'
  BY <1>2 DEF IInv, CountsAreActors, Unstored, Marks
<1>7. SnapshotAddsUp'
  <2> SUFFICES ASSUME NEW p \in Viewers, NEW k \in Kinds, <<p, k>> \notin touched
               PROVE  tally'[p][k] = Cardinality(Marks(rows', p, k))
    BY <1>2 DEF SnapshotAddsUp, Marks
  <2>1. rows' = t.seen
    BY <1>2, <1>3
  <2>2. t.counts[p][k] = count[p][k] /\ Marks(t.seen, p, k) = Marks(actors, p, k)
    BY <1>2, <1>3 DEF Steady
  <2>3. count[p][k] = Cardinality(Marks(actors, p, k))
    BY DEF IInv, CountsAreActors
  <2>4. QED
    BY <1>2, <2>1, <2>2, <2>3
<1>8. ASSUME NEW u \in Handlers, u # h PROVE Steady(u)'
  <2>1. thr'[u] = thr[u] /\ Steady(u)
    BY <1>1, <1>8 DEF Moves, IInv
  <2>2. thr[u].pc \notin Closing
    BY <1>2, <1>8, OneCloser DEF Closing
  <2>3. QED
    BY <1>2, <2>1, <2>2, Bystander
<1>9. Steady(h)'
  BY <1>1, <1>2 DEF Steady
<1>10. QED
  BY <1>1, <1>5, <1>6, <1>7, <1>8, <1>9 DEF IInv, Moves

\* The drop empties counts and actors together, after the round was closed.
LEMMA DropSafe ==
  ASSUME IInv, NEW h \in Handlers, Drop(h)
  PROVE  IInv'
<1>1. Moves(h) /\ thr'[h].pc = "idle"
  BY StepMoves, ReturnFacts DEF Drop, IInv
<1>2. /\ thr[h].pc = "drop" /\ timer' = FALSE /\ actors' = {} /\ count' = Nothing /\ skips' = {}
      /\ UNCHANGED <<room, status, rows, tally, voted, lock, scored, online, touched>>
  BY DEF Drop, At, db, Dropped
<1>3. TypeOK'
  BY <1>2 DEF IInv, TypeOK, Nothing, Pairs, OfAnother
<1>4. IsFiniteSet(actors') /\ CountsAreActors'
  <2>1. ASSUME NEW p \in Viewers, NEW k \in Kinds
        PROVE  count'[p][k] = 0 /\ Marks(actors', p, k) = {}
    BY <1>2 DEF Nothing, Marks
  <2>2. QED
    BY <1>2, <2>1, FS_EmptySet DEF CountsAreActors, Marks
<1>5. Unstored' /\ SnapshotAddsUp'
  BY <1>2 DEF IInv, Unstored, SnapshotAddsUp
<1>6. ASSUME NEW u \in Handlers, u # h PROVE Steady(u)'
  <2>1. thr'[u] = thr[u] /\ Steady(u)
    BY <1>1, <1>6 DEF Moves, IInv
  <2>2. thr[u].pc \notin Closing
    BY <1>2, <1>6, OneCloser
  <2>3. QED
    BY <1>2, <2>1, <2>2, Bystander
<1>7. Steady(h)'
  BY <1>1 DEF Steady
<1>8. QED
  BY <1>1, <1>3, <1>4, <1>5, <1>6, <1>7 DEF IInv, Moves

\* What the rest of the system does: results, the settlement, the end of the game, sockets.
Around == \/ Finalize \/ Abort
          \/ \E v \in Viewers : ResultArrives(v) \/ Disconnect(v) \/ Reconnect(v)

LEMMA AroundSafe ==
  ASSUME IInv, Around
  PROVE  IInv'
<1>1. /\ UNCHANGED <<rows, tally, voted, lock, actors, count, skips, thr, touched>>
      /\ scored \subseteq scored'
      /\ status' = status \/ (status # "closed" /\ status' # "closed")
      /\ Free \/ UNCHANGED <<room, status>>
  BY DEF Around, Finalize, Abort, ResultArrives, Disconnect, Reconnect, db, redis
<1>2. TypeOK'
  BY <1>1 DEF Around, Finalize, Abort, ResultArrives, Disconnect, Reconnect, db, redis, IInv, TypeOK,
              Pairs, OfAnother
<1>3. Adds'
  BY <1>1, Untouched DEF IInv, Adds
<1>4. ASSUME NEW u \in Handlers PROVE Steady(u)'
  <2>1. thr'[u] = thr[u] /\ Steady(u)
    BY <1>1 DEF IInv
  <2>2. thr[u].pc \in Closing => ~ Free
    BY <2>1, ConstantsAssumption DEF Steady, Closing, Free
  <2>3. QED
    BY <1>1, <2>1, <2>2, Bystander DEF Marks
<1>5. QED
  BY <1>1, <1>2, <1>3, <1>4 DEF IInv, Adds

\* Every step is one of these.
LEMMA NextCases ==
  ASSUME [Next]_vars
  PROVE  \/ Around \/ UNCHANGED vars
         \/ \E h \in Handlers : Quietly(h) \/ Toggle(h) \/ BeginClosing(h) \/ CommitClosing(h) \/ Drop(h)
  BY DEF Next, Around, Quietly

LEMMA InitSafe == Init => IInv
<1> SUFFICES ASSUME Init PROVE IInv
  OBVIOUS
<1>1. TypeOK
  BY DEF Init, TypeOK, Nothing, Pairs
<1>2. Idle \in Task /\ Idle.pc = "idle"
  BY DEF Idle, Task, Labels, Nothing
<1>3. thr \in [Handlers -> Task] /\ \A h \in Handlers : thr[h] = Idle
  BY <1>2 DEF Init
<1>4. IsFiniteSet(actors) /\ CountsAreActors
  <2>1. ASSUME NEW p \in Viewers, NEW k \in Kinds
        PROVE  count[p][k] = 0 /\ Marks(actors, p, k) = {}
    BY DEF Init, Nothing, Marks
  <2>2. QED
    BY <2>1, FS_EmptySet DEF Init, CountsAreActors
<1>5. Unstored /\ SnapshotAddsUp
  BY DEF Init, Unstored, SnapshotAddsUp
<1>6. \A h \in Handlers : Steady(h)
  BY <1>2, <1>3 DEF Steady
<1>7. QED
  BY <1>1, <1>3, <1>4, <1>5, <1>6 DEF IInv

LEMMA StepSafe == IInv /\ [Next]_vars => IInv'
<1> SUFFICES ASSUME IInv, [Next]_vars PROVE IInv'
  OBVIOUS
<1>1. CASE UNCHANGED vars
  <2>1. UNCHANGED <<room, status, rows, tally, voted, lock, scored, actors, count, skips, timer, online,
                    thr, touched>>
    BY <1>1 DEF vars, db, redis
  <2>2. QED
    BY <2>1 DEF IInv, TypeOK, Pairs, OfAnother, CountsAreActors, Marks, Unstored, SnapshotAddsUp, Steady
<1>2. QED
  BY <1>1, NextCases, AroundSafe, QuietSafe, ToggleSafe, BeginClosingSafe, CommitClosingSafe, DropSafe

\* The inductive invariant of the viewing stage: under the room lock, the snapshot a closing
\* handler has read stays true of everything nobody touched since (advance, persist).
THEOREM InvariantHolds == Spec => []IInv
  BY InitSafe, StepSafe, PTL DEF Spec

\* Types, and nobody ever reacts to a photo of their own or without a result (RX-05, RX-06).
THEOREM TypeCorrect == Spec => []TypeOK
<1>1. IInv => TypeOK
  BY DEF IInv
<1>2. QED
  BY <1>1, InvariantHolds, PTL

\* However many handlers toggle, drop and die, a count is the number of its actors (RX-04).
THEOREM CountsHold == Spec => []CountsAreActors
<1>1. IInv => CountsAreActors
  BY DEF IInv
<1>2. QED
  BY <1>1, InvariantHolds, PTL

\* What reaches PostgreSQL adds up wherever nobody interfered with the closing (RX-10).
THEOREM SnapshotHolds == Spec => []SnapshotAddsUp
<1>1. IInv => SnapshotAddsUp
  BY DEF IInv
<1>2. QED
  BY <1>1, InvariantHolds, PTL

\* The snapshot is taken once: no step changes what a closed round has stored (RX-10).
THEOREM SnapshotStays == Spec => SnapshotIsFinal
<1>1. IInv /\ [Next]_vars => [status = "closed" => UNCHANGED <<status, rows, tally, voted>>]_vars
  <2> SUFFICES ASSUME IInv, [Next]_vars, status = "closed"
               PROVE  UNCHANGED <<status, rows, tally, voted>>
    OBVIOUS
  <2>1. CASE Around
    BY <2>1 DEF Around, Finalize, Abort, ResultArrives, Disconnect, Reconnect, db
  <2>2. ASSUME NEW h \in Handlers, CommitClosing(h) PROVE FALSE
    BY <2>2 DEF IInv, Steady, CommitClosing, At
  <2>3. ASSUME NEW h \in Handlers, Toggle(h) \/ BeginClosing(h) \/ Drop(h)
        PROVE  UNCHANGED <<status, rows, tally, voted>>
    BY <2>3 DEF Toggle, BeginClosing, Drop, db
  <2>4. QED
    BY <2>1, <2>2, <2>3, NextCases, QuietData DEF vars, db
<1>2. QED
  BY <1>1, InvariantHolds, PTL DEF Spec, SnapshotIsFinal
=============================================================================
