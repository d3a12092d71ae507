------------------------ MODULE RoundLifecycle_proofs ------------------------
(* What RoundLifecycle guarantees for any number of players, rounds, workers *)
(* and pods.                                                                 *)
EXTENDS RoundLifecycle, FiniteSetTheorems, TLAPS

\* What the record of a thread holds; the proofs below use this and the facts about the three
\* ways to move a thread, and never the records themselves.
LEMMA WorkFields == \A w \in Work : /\ w.pc \in Labels /\ w.who \in Players \cup {NoPlayer}
                                    /\ w.round \in Rounds \cup {0} /\ w.stranded \in SUBSET Players
  BY DEF Work

\* A thread that goes to another label keeps its player and its round.
LEMMA MovesInWork ==
  ASSUME NEW w \in Work, NEW l \in Labels
  PROVE  LET v == [w EXCEPT !.pc = l] IN
         v \in Work /\ v.pc = l /\ v.who = w.who /\ v.round = w.round /\ v.stranded = w.stranded
  BY DEF Work

\* Goto moves one thread to a label and leaves its round and all other threads alone.
LEMMA GotoFacts ==
  ASSUME NEW t \in Threads, NEW l \in Labels, thr \in [Threads -> Work], Goto(t, l)
  PROVE  /\ thr' \in [Threads -> Work]
         /\ thr'[t].pc = l /\ thr'[t].who = thr[t].who /\ thr'[t].round = thr[t].round
         /\ \A u \in Threads : u # t => thr'[u] = thr[u]
<1> DEFINE v == [thr[t] EXCEPT !.pc = l]
<1>1. thr[t] \in Work
  OBVIOUS
<1>2. v \in Work /\ v.pc = l /\ v.who = thr[t].who /\ v.round = thr[t].round
  BY <1>1, MovesInWork
<1>3. thr' = [thr EXCEPT ![t] = v]
  BY DEF Goto
<1> HIDE DEF v
<1>4. QED
  BY <1>2, <1>3

\* A thread at rest is a thread.
LEMMA IdleFacts == Idle \in Work /\ Idle.pc = "idle"
  BY DEF Idle, Work, Labels

\* Return puts one thread to rest.
LEMMA ReturnFacts ==
  ASSUME NEW t \in Threads, thr \in [Threads -> Work], Return(t)
  PROVE  /\ thr' \in [Threads -> Work]
         /\ thr'[t].pc = "idle"
         /\ \A u \in Threads : u # t => thr'[u] = thr[u]
  BY IdleFacts DEF Return

\* Fork gives one thread a player and a round.
LEMMA ForkFacts ==
  ASSUME NEW t \in Threads, NEW l \in Labels, NEW p \in Players \cup {NoPlayer}, NEW r \in Rounds,
         thr \in [Threads -> Work], Fork(t, l, p, r)
  PROVE  /\ thr' \in [Threads -> Work]
         /\ thr'[t].pc = l /\ thr'[t].who = p /\ thr'[t].round = r
         /\ \A u \in Threads : u # t => thr'[u] = thr[u]
<1> DEFINE v == [Idle EXCEPT !.pc = l, !.who = p, !.round = r]
<1>1. v \in Work /\ v.pc = l /\ v.who = p /\ v.round = r
  BY DEF Idle, Work
<1>2. thr' = [thr EXCEPT ![t] = v]
  BY DEF Fork
<1> HIDE DEF v
<1>3. QED
  BY <1>1, <1>2

\* The two steps of the guard move one thread and keep its round.
LEMMA StrandFacts ==
  ASSUME NEW t \in Threads, NEW l \in Labels, NEW S \in SUBSET Players, thr \in [Threads -> Work],
         thr' = [thr EXCEPT ![t].pc = l, ![t].stranded = S]
  PROVE  /\ thr' \in [Threads -> Work]
         /\ thr'[t].pc = l /\ thr'[t].who = thr[t].who /\ thr'[t].round = thr[t].round
         /\ \A u \in Threads : u # t => thr'[u] = thr[u]
<1> DEFINE v == [thr[t] EXCEPT !.pc = l, !.stranded = S]
<1>1. thr[t] \in Work
  OBVIOUS
<1>2. v \in Work /\ v.pc = l /\ v.who = thr[t].who /\ v.round = thr[t].round
  BY <1>1 DEF Work
<1>3. thr' = [thr EXCEPT ![t] = v]
  OBVIOUS
<1> HIDE DEF v
<1>4. QED
  BY <1>2, <1>3

\* A step of thread t moves t alone, keeps its round, and leaves its player known.
Moved(t) == /\ thr' \in [Threads -> Work]
            /\ \A u \in Threads : u # t => thr'[u] = thr[u]
            /\ thr'[t].pc # "idle" => thr'[t].round \in Rounds
            /\ thr'[t].pc \in {"token", "slot", "insert", "upload"} => thr'[t].who \in Players

\* Every step of a running handler, its failure included, moves that handler alone.
LEMMA StepMoves ==
  ASSUME thr \in [Threads -> Work], submitted \in [Rounds -> SUBSET Players], Busy, NEW t \in Threads,
         Step(t) \/ RejectBody(t) \/ Crash(t)
  PROVE  Moved(t)
<1> USE DEF Moved, Busy, At, Labels
<1>1. CASE ArmDeadline(t)
  BY <1>1, ReturnFacts DEF ArmDeadline
<1>2. CASE UseToken(t) \/ ClaimSlot(t)
  BY <1>2, ReturnFacts, GotoFacts DEF UseToken, ClaimSlot
<1>3. CASE InsertRow(t)
  BY <1>3, ReturnFacts, GotoFacts DEF InsertRow
<1>4. CASE Dispatch(t)
  BY <1>4, ReturnFacts, GotoFacts DEF Dispatch
<1>5. CASE CheckResolved(t)
  BY <1>5, ReturnFacts, GotoFacts DEF CheckResolved
<1>6. CASE CloseSubmissions(t)
  BY <1>6, ReturnFacts, GotoFacts DEF CloseSubmissions
<1>7. CASE ReadPending(t)
  BY <1>7, ReturnFacts, GotoFacts DEF ReadPending
<1>8. CASE ReadStranded(t)
  <2> DEFINE stranded == Unresolved(thr[t].round)
  <2>1. stranded \in SUBSET Players
    BY <1>8 DEF ReadStranded, Unresolved
  <2>2. thr' = [thr EXCEPT ![t].pc = "force", ![t].stranded = stranded]
    BY <1>8 DEF ReadStranded
  <2> HIDE DEF stranded
  <2>3. thr'[t].pc = "force" /\ Moved(t)
    BY <1>8, <2>1, <2>2, StrandFacts DEF ReadStranded
  <2>4. QED
    BY <2>3
<1>9. CASE ForceFailed(t)
  <2>1. {} \in SUBSET Players
    OBVIOUS
  <2>2. QED
    BY <1>9, <2>1, StrandFacts DEF ForceFailed
<1>10. CASE BeginFinalize(t)
  BY <1>10, ReturnFacts, GotoFacts DEF BeginFinalize
<1>11. CASE ReadRows(t)
  BY <1>11, GotoFacts DEF ReadRows
<1>12. CASE CommitFinalize(t)
  BY <1>12, GotoFacts DEF CommitFinalize
<1>13. CASE AbortFinalize(t)
  BY <1>13, ReturnFacts DEF AbortFinalize
<1>14. CASE ArmViewing(t)
  BY <1>14, ReturnFacts DEF ArmViewing
<1>15. CASE SkipViewing(t)
  BY <1>15, GotoFacts DEF SkipViewing
<1>16. CASE Advance(t)
  BY <1>16, ReturnFacts DEF Advance
<1>17. CASE RejectBody(t)
  BY <1>17, ReturnFacts DEF RejectBody
<1>18. CASE Crash(t)
  BY <1>18, ReturnFacts DEF Crash
<1>99. QED
  BY <1>1, <1>2, <1>3, <1>4, <1>5, <1>6, <1>7, <1>8, <1>9, <1>10, <1>11, <1>12, <1>13, <1>14, <1>15, <1>16, <1>17, <1>18 DEF Step

\* The actions that put an idle thread to work, and those no thread takes.
Starts(t) ==
  \/ StartGame(t)
  \/ \E r \in Rounds : Skip(t, r) \/ \E p \in Players : Submit(t, p, r)
  \/ \E r \in Rounds, p \in Players, payload \in {"ok", "failed"} : RecordScore(t, r, p, payload)
  \/ \E kind \in {"deadline", "guard", "viewing"}, r \in Rounds : Claim(t, kind, r)
Elsewhere == \E p \in Players : Expire(p) \/ Rejoin(p) \/ \E r \in Rounds : LoseTask(r, p)

\* A step is one of a thread or one taken elsewhere.
LEMMA NextCases ==
  Next => \/ \E t \in Threads : Step(t) \/ RejectBody(t) \/ Crash(t) \/ Starts(t)
          \/ Elsewhere
  BY DEF Next, Starts, Elsewhere, Threads, Score, Fire

\* So does every start of a handler.
LEMMA StartMoves ==
  ASSUME thr \in [Threads -> Work], NEW t \in Threads, Starts(t)
  PROVE  Moved(t)
<1> USE ForkFacts DEF Moved, Labels
<1>1. CASE StartGame(t)
  <2>1. 1 \in Rounds
    BY ConstantsAssumption DEF Rounds
  <2>2. Fork(t, "arm", NoPlayer, 1)
    BY <1>1 DEF StartGame
  <2>3. QED
    BY <2>1, <2>2
<1>2. ASSUME NEW r \in Rounds, NEW p \in Players, Submit(t, p, r) PROVE Moved(t)
  BY <1>2 DEF Submit
<1>3. ASSUME NEW r \in Rounds, Skip(t, r) PROVE Moved(t)
  BY <1>3 DEF Skip
<1>4. ASSUME NEW r \in Rounds, NEW p \in Players, NEW payload \in {"ok", "failed"},
             RecordScore(t, r, p, payload)
      PROVE  Moved(t)
  BY <1>4 DEF RecordScore
<1>5. ASSUME NEW kind \in {"deadline", "guard", "viewing"}, NEW r \in Rounds, Claim(t, kind, r)
      PROVE  Moved(t)
  BY <1>5 DEF Claim
<1>6. QED
  BY <1>1, <1>2, <1>3, <1>4, <1>5 DEF Starts

\* Updating one entry of a table keeps its type; used for row and scores.
LEMMA EntryUpdate ==
  ASSUME NEW A, NEW B, NEW S, NEW f \in [A -> [B -> S]], NEW a \in A, NEW b \in B, NEW s \in S
  PROVE  [f EXCEPT ![a][b] = s] \in [A -> [B -> S]]
  OBVIOUS

\* Adding a player keeps the type of a table of sets; used for used and submitted.
LEMMA SetUpdate ==
  ASSUME NEW A, NEW B, NEW f \in [A -> SUBSET B], NEW a \in A, NEW b \in B
  PROVE  [f EXCEPT ![a] = @ \cup {b}] \in [A -> SUBSET B]
<1>1. f[a] \cup {b} \in SUBSET B
  OBVIOUS
<1>2. QED
  BY <1>1

\* Every step of a running handler keeps the types of the data.
LEMMA StepData ==
  ASSUME DataOK, Busy, NEW t \in Threads, Step(t) \/ RejectBody(t) \/ Crash(t)
  PROVE  DataOK'
<1> USE DEF DataOK, Busy, At, db, redis
<1>1. CASE ArmDeadline(t)
  BY <1>1 DEF ArmDeadline, Timer
<1>2. CASE UseToken(t) \/ ClaimSlot(t)
  <2> DEFINE p == thr[t].who  r == thr[t].round
  <2>1. r \in Rounds /\ p \in Players
    BY <1>2 DEF UseToken, ClaimSlot
  <2>2. /\ UNCHANGED <<db, lock, token, scores, timers, inflight, view>>
        /\ UNCHANGED used \/ used' = [used EXCEPT ![r] = @ \cup {p}]
        /\ UNCHANGED submitted \/ submitted' = [submitted EXCEPT ![r] = @ \cup {p}]
    BY <1>2 DEF UseToken, ClaimSlot
  <2> HIDE DEF p, r
  <2>3. /\ used' \in [Rounds -> SUBSET Players]
        /\ submitted' \in [Rounds -> SUBSET Players]
    <3>1. /\ [used EXCEPT ![r] = @ \cup {p}] \in [Rounds -> SUBSET Players]
          /\ [submitted EXCEPT ![r] = @ \cup {p}] \in [Rounds -> SUBSET Players]
      BY <2>1, SetUpdate
    <3>2. QED
      BY <2>2, <3>1
  <2>4. QED
    BY <2>2, <2>3
<1>3. CASE InsertRow(t)
  <2> DEFINE p == thr[t].who  r == thr[t].round
  <2>1. r \in Rounds /\ p \in Players
    BY <1>3 DEF InsertRow
  <2>2. /\ UNCHANGED <<room, current, voids, member, rs, paid, lock, redis, inflight, view>>
        /\ UNCHANGED row \/ row' = [row EXCEPT ![r][p] = "failed"]
    BY <1>3 DEF InsertRow
  <2> HIDE DEF p, r
  <2>3. row' \in [Rounds -> [Players -> {"none", "failed", "ok", "missed"}]]
    <3> DEFINE Row == {"none", "failed", "ok", "missed"}
    <3>1. row \in [Rounds -> [Players -> Row]] /\ "failed" \in Row
      OBVIOUS
    <3>2. [row EXCEPT ![r][p] = "failed"] \in [Rounds -> [Players -> Row]]
      <4> HIDE DEF Row, DataOK, Busy
      <4>1. QED
        BY <2>1, <3>1, EntryUpdate
    <3>3. QED
      BY <2>2, <3>2
  <2>4. QED
    BY <2>2, <2>3
<1>4. CASE Dispatch(t)
  BY <1>4 DEF Dispatch
<1>5. CASE CheckResolved(t)
  BY <1>5 DEF CheckResolved
<1>6. CASE CloseSubmissions(t)
  BY <1>6 DEF CloseSubmissions
<1>7. CASE ReadPending(t)
  BY <1>7 DEF ReadPending, AfterPending, Timer
<1>8. CASE ReadStranded(t)
  BY <1>8 DEF ReadStranded
<1>9. CASE ForceFailed(t)
  BY <1>9 DEF ForceFailed
<1>10. CASE BeginFinalize(t)
  <2>1. view' \in View
    <3>1. CASE CanFinalize(thr[t].round)
      <4> DEFINE sub == submitted[thr[t].round]
                 ok  == submitted[thr[t].round] \cap Resolved(thr[t].round)
      <4>1. sub \in SUBSET Players /\ ok \in SUBSET Players
        BY <1>10 DEF BeginFinalize
      <4>2. view' = [NoView EXCEPT !.sub = sub, !.ok = ok]
        BY <1>10, <3>1 DEF BeginFinalize
      <4> HIDE DEF sub, ok
      <4>3. QED
        BY <4>1, <4>2 DEF View, NoView
    <3>2. CASE ~ CanFinalize(thr[t].round)
      BY <1>10, <3>2 DEF BeginFinalize
    <3>3. QED
      BY <3>1, <3>2
  <2>2. lock' \in Threads \cup {NoThread}
    BY <1>10 DEF BeginFinalize
  <2>3. QED
    BY <1>10, <2>1, <2>2 DEF BeginFinalize
<1>11. CASE ReadRows(t)
  BY <1>11 DEF ReadRows, View
<1>12. CASE CommitFinalize(t)
  <2>1. row' \in [Rounds -> [Players -> {"none", "failed", "ok", "missed"}]]
    BY <1>12 DEF CommitFinalize, Settled
  <2>2. rs' \in [Rounds -> {"none", "revealed", "scoring", "finalized", "voided", "closed"}]
    BY <1>12 DEF CommitFinalize
  <2>3. voids' \in Nat
    BY <1>12 DEF CommitFinalize, StreakAfterFinalized
  <2>4. paid' \in [Players -> [Rounds -> Nat]]
    <3>1. \/ paid' = paid
          \/ paid' = [p \in Players |->
                       IF p \in Active THEN [paid[p] EXCEPT ![thr[t].round] = @ + 1] ELSE paid[p]]
      BY <1>12 DEF CommitFinalize
    <3>2. paid \in [Players -> [Rounds -> Nat]]
      OBVIOUS
    <3>3. QED
      <4> DEFINE r == thr[t].round
      <4>1. r \in Rounds
        BY <1>12 DEF CommitFinalize
      <4> HIDE DEF r, DataOK, Busy
      <4>2. \A p \in Players : [paid[p] EXCEPT ![r] = @ + 1] \in [Rounds -> Nat]
        BY <3>2, <4>1
      <4>3. QED
        BY <3>1, <3>2, <4>2 DEF r
  <2>5. view' \in View
    BY <1>12 DEF CommitFinalize, View, NoView
  <2>6. QED
    BY <1>12, <2>1, <2>2, <2>3, <2>4, <2>5 DEF CommitFinalize
<1>13. CASE AbortFinalize(t)
  BY <1>13 DEF AbortFinalize, View, NoView
<1>14. CASE ArmViewing(t)
  BY <1>14 DEF ArmViewing, ViewingTimers, Timer
<1>15. CASE SkipViewing(t)
  BY <1>15 DEF SkipViewing, Timer
<1>16. CASE Advance(t)
  <2> DEFINE r == thr[t].round
             closed == [rs EXCEPT ![r] = IF @ = "finalized" THEN "closed" ELSE @]
  <2>1. r \in Rounds
    BY <1>16 DEF Advance
  <2>2. closed \in [Rounds -> {"none", "revealed", "scoring", "finalized", "voided", "closed"}]
    BY <2>1
  <2>3. CASE CanAdvance(r) /\ EndsGame(r)
    BY <1>16, <2>2, <2>3 DEF Advance
  <2>4. CASE CanAdvance(r) /\ ~ EndsGame(r)
    <3>1. r + 1 \in Rounds
      BY <2>1, <2>4, ConstantsAssumption DEF EndsGame, Rounds
    <3> HIDE DEF closed
    <3>2. /\ current' = r + 1
          /\ rs' = [closed EXCEPT ![r + 1] = "revealed"]
          /\ token' = [token EXCEPT ![r + 1] = Active]
          /\ timers' = (timers \ {<<"viewing", r>>}) \cup {<<"deadline", r + 1>>}
          /\ UNCHANGED room
      BY <1>16, <2>4 DEF Advance, closed
    <3> HIDE DEF r
    <3>3. token' \in [Rounds -> SUBSET Players] /\ timers' \subseteq Timer
      BY <3>1, <3>2 DEF Active, Timer
    <3>4. rs' \in [Rounds -> {"none", "revealed", "scoring", "finalized", "voided", "closed"}]
      BY <2>2, <3>2
    <3>5. QED
      BY <1>16, <3>1, <3>2, <3>3, <3>4 DEF Advance
  <2>5. CASE ~ CanAdvance(r)
    BY <1>16, <2>5 DEF Advance
  <2>6. QED
    BY <2>3, <2>4, <2>5
<1>17. CASE RejectBody(t)
  BY <1>17 DEF RejectBody
<1>18. CASE Crash(t)
  BY <1>18 DEF Crash, View, NoView
<1>99. QED
  BY <1>1, <1>2, <1>3, <1>4, <1>5, <1>6, <1>7, <1>8, <1>9, <1>10, <1>11, <1>12, <1>13, <1>14, <1>15, <1>16, <1>17, <1>18 DEF Step

\* So does every start of a handler ...
LEMMA StartData ==
  ASSUME DataOK, NEW t \in Threads, Starts(t)
  PROVE  DataOK'
<1> USE DEF DataOK, db, redis
<1>1. CASE StartGame(t)
  <2>1. 1 \in Rounds
    BY ConstantsAssumption DEF Rounds
  <2>2. Occupying \in SUBSET Players
    BY DEF Occupying
  <2>3. QED
    BY <1>1, <2>1, <2>2 DEF StartGame
<1>2. ASSUME NEW r \in Rounds, NEW p \in Players, Submit(t, p, r) PROVE DataOK'
  BY <1>2 DEF Submit
<1>3. ASSUME NEW r \in Rounds, Skip(t, r) PROVE DataOK'
  BY <1>3 DEF Skip
<1>4. ASSUME NEW r \in Rounds, NEW p \in Players, NEW payload \in {"ok", "failed"},
             RecordScore(t, r, p, payload)
      PROVE  DataOK'
  <2> DEFINE Result == {"none", "ok", "failed"}
  <2>1. scores \in [Rounds -> [Players -> Result]] /\ payload \in Result
    OBVIOUS
  <2>2. [scores EXCEPT ![r][p] = payload] \in [Rounds -> [Players -> Result]]
    <3> HIDE DEF Result, DataOK
    <3>1. QED
      BY <2>1, EntryUpdate
  <2>3. QED
    BY <1>4, <2>2 DEF RecordScore
<1>5. ASSUME NEW kind \in {"deadline", "guard", "viewing"}, NEW r \in Rounds, Claim(t, kind, r)
      PROVE  DataOK'
  BY <1>5 DEF Claim
<1>6. QED
  BY <1>1, <1>2, <1>3, <1>4, <1>5 DEF Starts

\* ... and every departure, return and lost task, which leave rounds and rows alone too.
LEMMA ElsewhereData ==
  ASSUME DataOK, Elsewhere
  PROVE  DataOK' /\ UNCHANGED <<thr, rs, row, paid, lock, voids, timers>>
<1> USE DEF DataOK, db, redis
<1>1. ASSUME NEW p \in Players, Expire(p)
      PROVE  DataOK' /\ UNCHANGED <<thr, rs, row, paid, lock, voids, timers>>
  BY <1>1 DEF Expire
<1>2. ASSUME NEW p \in Players, Rejoin(p)
      PROVE  DataOK' /\ UNCHANGED <<thr, rs, row, paid, lock, voids, timers>>
  BY <1>2 DEF Rejoin
<1>3. ASSUME NEW p \in Players, NEW r \in Rounds, LoseTask(r, p)
      PROVE  DataOK' /\ UNCHANGED <<thr, rs, row, paid, lock, voids, timers>>
  BY <1>3 DEF LoseTask
<1>4. QED
  BY <1>1, <1>2, <1>3 DEF Elsewhere

\* The initial state is typed.
LEMMA TypeInit == Init => TypeOK /\ Busy
  BY ConstantsAssumption, IdleFacts
     DEF Init, TypeOK, DataOK, Busy, Rounds, Threads, View, NoView, Timer

\* Typing is inductive together with the fact that a handler knows its round and its player.
LEMMA TypeNext == TypeOK /\ Busy /\ [Next]_vars => (TypeOK /\ Busy)'
<1> SUFFICES ASSUME TypeOK, Busy, [Next]_vars PROVE (TypeOK /\ Busy)'
  OBVIOUS
<1>1. thr \in [Threads -> Work] /\ DataOK /\ submitted \in [Rounds -> SUBSET Players]
  BY DEF TypeOK, DataOK
<1>2. ASSUME NEW t \in Threads, Moved(t) PROVE thr' \in [Threads -> Work] /\ Busy'
  BY <1>1, <1>2 DEF Moved, Busy
<1>3. ASSUME NEW t \in Threads, Step(t) \/ RejectBody(t) \/ Crash(t) PROVE (TypeOK /\ Busy)'
  BY <1>1, <1>2, <1>3, StepMoves, StepData DEF TypeOK
<1>4. ASSUME NEW t \in Threads, Starts(t) PROVE (TypeOK /\ Busy)'
  BY <1>1, <1>2, <1>4, StartMoves, StartData DEF TypeOK
<1>5. CASE Elsewhere
  BY <1>1, <1>5, ElsewhereData DEF TypeOK, Busy
<1>6. CASE UNCHANGED vars
  BY <1>6 DEF vars, db, redis, TypeOK, DataOK, Busy
<1>7. QED
  BY <1>3, <1>4, <1>5, <1>6, NextCases

\* No behaviour of the handlers leaves the types: among other things, no round beyond the
\* emotion sequence is ever opened (next_index, advance).
THEOREM TypeCorrect == Spec => []TypeOK
<1>1. Spec => [](TypeOK /\ Busy)
  BY TypeInit, TypeNext, PTL DEF Spec
<1>2. QED
  BY <1>1, PTL
-----------------------------------------------------------------------------
(* The inductive invariant.  Most steps are quiet: they move no round and no *)
(* thread towards settling or leaving one.                                   *)
Settling == {"finRows", "finCommit", "armViewing", "noViewing", "advance"}

Safe == Locked /\ InOrder /\ LeavingOnce /\ Unpaid /\ PaidOnce /\ SettledIsComplete

Quiet(t) ==
  /\ Moved(t) /\ thr'[t].pc \notin Settling
  /\ UNCHANGED <<room, rs, paid, member>>
  /\ lock' = lock \/ lock = t
  /\ \A r \in Rounds, p \in Players : row[r][p] # "none" => row'[r][p] # "none"
  /\ \A r \in Rounds : <<"viewing", r>> \in timers' => <<"viewing", r>> \in timers

\* A quiet step keeps the invariant.
LEMMA QuietSafe ==
  ASSUME TypeOK, Busy, Safe, NEW t \in Threads, Quiet(t)
  PROVE  Safe'
<1> USE DEF Quiet, Moved, TypeOK, Settling
<1>1. Locked'
  BY DEF Safe, Locked
<1>2. InOrder'
  BY DEF Safe, InOrder
<1>3. LeavingOnce'
  BY DEF Safe, LeavingOnce
<1>4. Unpaid' /\ PaidOnce'
  BY DEF Safe, Unpaid, PaidOnce
<1>5. SettledIsComplete'
  BY DEF Safe, SettledIsComplete, Active
<1>6. QED
  BY <1>1, <1>2, <1>3, <1>4, <1>5 DEF Safe

\* The steps of an upload, of a score and of the guard are quiet, and so is every handler
\* that finds nothing to do.
LEMMA QuietSteps ==
  ASSUME TypeOK, Busy, Safe, NEW t \in Threads,
         \/ ArmDeadline(t) \/ UseToken(t) \/ ClaimSlot(t) \/ InsertRow(t) \/ Dispatch(t) \/ CheckResolved(t)
         \/ ReadPending(t) \/ ReadStranded(t) \/ ForceFailed(t) \/ AbortFinalize(t)
         \/ RejectBody(t) \/ Crash(t)
  PROVE  Quiet(t)
<1>1. thr \in [Threads -> Work] /\ submitted \in [Rounds -> SUBSET Players]
  BY DEF TypeOK, DataOK
<1>2. Moved(t)
  BY <1>1, StepMoves DEF Step
<1> USE <1>1, <1>2 DEF Quiet, Settling, At, Labels, db, redis
<1>3. CASE ArmDeadline(t)
  BY <1>3, ReturnFacts DEF ArmDeadline
<1>4. CASE UseToken(t) \/ ClaimSlot(t)
  BY <1>4, ReturnFacts, GotoFacts DEF UseToken, ClaimSlot
<1>5. CASE InsertRow(t)
  <2>1. \A r \in Rounds, p \in Players : row[r][p] # "none" => row'[r][p] # "none"
    <3>1. UNCHANGED row \/ row' = [row EXCEPT ![thr[t].round][thr[t].who] = "failed"]
      BY <1>5 DEF InsertRow
    <3>2. row \in [Rounds -> [Players -> {"none", "failed", "ok", "missed"}]]
      BY DEF TypeOK, DataOK
    <3>3. QED
      BY <3>1, <3>2
  <2>2. thr'[t].pc \notin Settling
    BY <1>5, ReturnFacts, GotoFacts DEF InsertRow
  <2>3. QED
    BY <1>5, <2>1, <2>2 DEF InsertRow
<1>6. CASE Dispatch(t)
  <2>1. thr'[t].pc \notin Settling
    BY <1>6, ReturnFacts, GotoFacts DEF Dispatch
  <2>2. QED
    BY <1>6, <2>1 DEF Dispatch
<1>7. CASE CheckResolved(t)
  BY <1>7, ReturnFacts, GotoFacts DEF CheckResolved
<1>8. CASE ReadPending(t)
  BY <1>8, ReturnFacts, GotoFacts DEF ReadPending, AfterPending
<1>9. CASE ReadStranded(t)
  <2> DEFINE stranded == Unresolved(thr[t].round)
  <2>1. stranded \in SUBSET Players
    BY <1>9 DEF ReadStranded, Unresolved, Busy
  <2>2. thr' = [thr EXCEPT ![t].pc = "force", ![t].stranded = stranded]
    BY <1>9 DEF ReadStranded
  <2> HIDE DEF stranded
  <2>3. thr'[t].pc = "force"
    BY <2>1, <2>2, StrandFacts
  <2>4. QED
    BY <1>9, <2>3 DEF ReadStranded
<1>10. CASE ForceFailed(t)
  <2>1. thr'[t].pc = "finalize"
    <3>1. {} \in SUBSET Players
      OBVIOUS
    <3>2. QED
      BY <1>10, <3>1, StrandFacts DEF ForceFailed
  <2>2. QED
    BY <1>10, <2>1 DEF ForceFailed
<1>11. CASE AbortFinalize(t)
  BY <1>11, ReturnFacts DEF AbortFinalize, Safe, Locked
<1>12. CASE RejectBody(t)
  BY <1>12, ReturnFacts DEF RejectBody
<1>13. CASE Crash(t)
  BY <1>13, ReturnFacts DEF Crash
<1>14. QED
  BY <1>3, <1>4, <1>5, <1>6, <1>7, <1>8, <1>9, <1>10, <1>11, <1>12, <1>13

\* While the room lock is free nobody is in the middle of finalize.
LEMMA FreeMeansNoFinalize ==
  ASSUME Locked, Free, NEW t \in Threads
  PROVE  thr[t].pc \notin {"finRows", "finCommit"}
  BY ConstantsAssumption DEF Locked, Free

\* The start of the game keeps the invariant: no round has begun and no handler is settling one.
LEMMA StartGameSafe ==
  ASSUME TypeOK, Busy, Safe, NEW t \in Threads, StartGame(t)
  PROVE  Safe'
<1>1. 1 \in Rounds
  BY ConstantsAssumption DEF Rounds
<1>2. /\ thr' \in [Threads -> Work] /\ thr'[t].pc = "arm"
      /\ \A u \in Threads : u # t => thr'[u] = thr[u]
  <2>1. thr \in [Threads -> Work] /\ "arm" \in Labels /\ NoPlayer \in Players \cup {NoPlayer}
    BY DEF TypeOK, Labels
  <2>2. Fork(t, "arm", NoPlayer, 1)
    BY DEF StartGame
  <2>3. QED
    BY ONLY <1>1, <2>1, <2>2, ForkFacts
<1> USE DEF TypeOK, DataOK, Safe
<1>3. /\ room = "waiting" /\ room' = "playing" /\ rs' = [rs EXCEPT ![1] = "revealed"]
      /\ UNCHANGED <<row, paid, lock, timers>> /\ At(t, "idle")
  BY DEF StartGame
<1>4. \A r \in Rounds : rs[r] = "none"
  BY <1>3 DEF InOrder
<1>5. \A u \in Threads : thr'[u].pc \notin Settling
  <2>1. \A u \in Threads : thr[u].pc \notin Settling
    BY <1>3, <1>4 DEF Locked, LeavingOnce, Settling, Busy, Terminal
  <2>2. QED
    BY <1>2, <2>1 DEF Settling
<1>6. \A r \in Rounds : rs'[r] \in {"none", "revealed"} /\ (r # 1 => rs'[r] = "none")
  BY <1>1, <1>3, <1>4
<1>7. InOrder'
  BY <1>3, <1>6, ConstantsAssumption DEF InOrder, Rounds
<1>8. Locked' /\ LeavingOnce'
  BY <1>3, <1>4, <1>5 DEF Locked, LeavingOnce, Settling
<1>9. Unpaid' /\ PaidOnce'
  BY <1>3, <1>4 DEF Unpaid, PaidOnce
<1>10. SettledIsComplete'
  BY <1>6 DEF SettledIsComplete, Terminal
<1>11. QED
  BY <1>7, <1>8, <1>9, <1>10

\* Closing a round to submissions keeps the invariant (close_submissions).
LEMMA CloseSubmissionsSafe ==
  ASSUME TypeOK, Busy, Safe, NEW t \in Threads, CloseSubmissions(t)
  PROVE  Safe'
<1> DEFINE r == thr[t].round
<1>1. /\ thr \in [Threads -> Work] /\ submitted \in [Rounds -> SUBSET Players]
      /\ rs \in [Rounds -> {"none", "revealed", "scoring", "finalized", "voided", "closed"}]
  BY DEF TypeOK, DataOK
<1>2. CASE ~ CanClose(r)
  <2>1. Moved(t)
    BY <1>1, StepMoves DEF Step
  <2>2. thr'[t].pc = "idle"
    BY <1>1, <1>2, ReturnFacts DEF CloseSubmissions
  <2>3. QED
    BY <1>2, <2>1, <2>2, QuietSafe DEF CloseSubmissions, Quiet, Settling, redis
<1>3. CASE CanClose(r)
  <2>1. r \in Rounds /\ rs[r] = "revealed" /\ rs' = [rs EXCEPT ![r] = "scoring"]
    BY <1>3 DEF CloseSubmissions, Busy, CanClose, At
  <2>2. UNCHANGED <<room, member, row, paid, lock, timers>> /\ room = "playing"
    BY <1>3 DEF CloseSubmissions, redis, CanClose, Loads
  <2>3. /\ thr'[t].pc = "pending"
        /\ \A u \in Threads : u # t => thr'[u] = thr[u]
    BY <1>1, <1>3, GotoFacts DEF CloseSubmissions, Labels
  <2>4. \A u \in Threads : thr[u].pc \notin {"finRows", "finCommit"}
    BY FreeMeansNoFinalize DEF Safe, CloseSubmissions
  <2>5. \A s \in Rounds : rs'[s] = IF s = r THEN "scoring" ELSE rs[s]
    BY <1>1, <2>1
  <2> HIDE DEF r
  <2>6. Locked'
    BY <2>3, <2>4 DEF Locked
  <2>7. InOrder'
    BY <2>1, <2>2, <2>5 DEF Safe, InOrder
  <2>8. LeavingOnce'
    BY <2>1, <2>2, <2>3, <2>5 DEF Safe, LeavingOnce, Terminal, Busy
  <2>9. Unpaid' /\ PaidOnce'
    BY <2>1, <2>2, <2>5 DEF Safe, Unpaid, PaidOnce
  <2>10. SettledIsComplete'
    BY <2>1, <2>2, <2>5 DEF Safe, SettledIsComplete, Terminal, Active
  <2>11. QED
    BY <2>6, <2>7, <2>8, <2>9, <2>10 DEF Safe
<1>4. QED
  BY <1>2, <1>3

\* BeginFinalize takes the lock, ReadRows and SkipViewing only go on.
LEMMA GoingOnSafe ==
  ASSUME TypeOK, Busy, Safe, NEW t \in Threads, BeginFinalize(t) \/ ReadRows(t) \/ SkipViewing(t)
  PROVE  Safe'
<1>1. /\ thr \in [Threads -> Work]
      /\ \A u \in Threads : thr[u].pc \in Labels
  BY WorkFields DEF TypeOK
<1>2. CASE BeginFinalize(t) /\ ~ CanFinalize(thr[t].round)
  BY <1>1, <1>2, QuietSafe, ReturnFacts, StepMoves
     DEF BeginFinalize, Quiet, Settling, Step, db, redis, TypeOK, DataOK
<1>3. CASE BeginFinalize(t) /\ CanFinalize(thr[t].round)
  <2>1. /\ room = "playing" /\ rs[thr[t].round] = "scoring" /\ lock' = t /\ Free
        /\ UNCHANGED <<room, rs, row, paid, member, timers>>
    BY <1>3 DEF BeginFinalize, CanFinalize, Loads, db, redis
  <2>2. /\ thr'[t].pc = "finRows" /\ thr'[t].round = thr[t].round
        /\ \A u \in Threads : u # t => thr'[u] = thr[u]
    BY <1>1, <1>3, GotoFacts DEF BeginFinalize, Labels
  <2>3. \A u \in Threads : thr[u].pc \notin {"finRows", "finCommit"}
    BY <2>1, FreeMeansNoFinalize DEF Safe
  <2>4. Locked'
    BY <2>1, <2>2, <2>3 DEF Locked
  <2>5. LeavingOnce'
    BY <2>1, <2>2 DEF Safe, LeavingOnce
  <2>6. QED
    BY <2>1, <2>4, <2>5 DEF Safe, InOrder, Unpaid, PaidOnce, SettledIsComplete, Active
<1>4. CASE ReadRows(t)
  <2>1. UNCHANGED <<room, rs, row, paid, member, timers, lock>> /\ thr[t].pc = "finRows"
    BY <1>4 DEF ReadRows, db, redis, At
  <2>2. /\ thr'[t].pc = "finCommit" /\ thr'[t].round = thr[t].round
        /\ \A u \in Threads : u # t => thr'[u] = thr[u]
    BY <1>1, <1>4, GotoFacts DEF ReadRows, Labels
  <2>3. Locked'
    BY <2>1, <2>2 DEF Safe, Locked
  <2>4. LeavingOnce'
    BY <2>1, <2>2 DEF Safe, LeavingOnce
  <2>5. QED
    BY <2>1, <2>3, <2>4 DEF Safe, InOrder, Unpaid, PaidOnce, SettledIsComplete, Active
<1>5. CASE SkipViewing(t)
  <2>1. UNCHANGED <<room, rs, row, paid, member, lock>> /\ thr[t].pc = "noViewing" /\ timers' \subseteq timers
    BY <1>5 DEF SkipViewing, db, At
  <2>2. /\ thr'[t].pc = "advance" /\ thr'[t].round = thr[t].round
        /\ \A u \in Threads : u # t => thr'[u] = thr[u]
    BY <1>1, <1>5, GotoFacts DEF SkipViewing, Labels
  <2>3. Locked'
    BY <2>1, <2>2 DEF Safe, Locked
  <2>4. LeavingOnce'
    BY <2>1, <2>2 DEF Safe, LeavingOnce
  <2>5. QED
    BY <2>1, <2>3, <2>4 DEF Safe, InOrder, Unpaid, PaidOnce, SettledIsComplete, Active
<1>6. QED
  BY <1>2, <1>3, <1>4, <1>5

\* What the commit of finalize does, read off the action.
LEMMA CommitEffect ==
  ASSUME TypeOK, Busy, Safe, NEW t \in Threads, CommitFinalize(t)
  PROVE  LET r == thr[t].round
         IN /\ r \in Rounds /\ rs[r] = "scoring" /\ room = "playing" /\ lock = t
            /\ thr[t].pc = "finCommit"
            /\ UNCHANGED <<room, member, timers>>
            /\ rs'[r] \in {"finalized", "voided"}
            /\ \A s \in Rounds : s # r => rs'[s] = rs[s]
            /\ \A s \in Rounds, p \in Players :
                 /\ s # r => row'[s][p] = row[s][p] /\ paid'[p][s] = paid[p][s]
                 /\ p \notin Active => row'[r][p] = row[r][p] /\ paid'[p][r] = paid[p][r]
                 /\ p \in Active => row'[r][p] # "none"
                 /\ paid'[p][r] = IF p \in Active /\ rs'[r] = "finalized" THEN paid[p][r] + 1
                                                                        ELSE paid[p][r]
            /\ thr'[t].round = r
            /\ thr'[t].pc \in {"armViewing", "noViewing"}
            /\ thr'[t].pc = "armViewing" => rs'[r] = "finalized"
            /\ \A u \in Threads : u # t => thr'[u] = thr[u]
<1> DEFINE r == thr[t].round
<1>1. /\ thr \in [Threads -> Work]
      /\ rs \in [Rounds -> {"none", "revealed", "scoring", "finalized", "voided", "closed"}]
      /\ row \in [Rounds -> [Players -> {"none", "failed", "ok", "missed"}]]
      /\ paid \in [Players -> [Rounds -> Nat]]
  BY DEF TypeOK, DataOK
<1>2. /\ thr[t].pc = "finCommit" /\ r \in Rounds
      /\ rs[r] = "scoring" /\ room = "playing" /\ lock = t
  BY DEF CommitFinalize, At, Busy, Safe, Locked
<1>3. UNCHANGED <<room, member, timers>>
  BY DEF CommitFinalize, redis
<1>4. row' = [row EXCEPT ![r] = [p \in Players |-> IF p \in Active THEN Settled(p) ELSE @[p]]]
  BY DEF CommitFinalize
<1>5. \/ /\ AllFailed /\ rs' = [rs EXCEPT ![r] = "voided"] /\ paid' = paid
      \/ /\ ~ AllFailed /\ rs' = [rs EXCEPT ![r] = "finalized"]
         /\ paid' = [p \in Players |->
                       IF p \in Active THEN [paid[p] EXCEPT ![r] = @ + 1] ELSE paid[p]]
  BY DEF CommitFinalize
<1>6. /\ thr'[t].pc = IF AllFailed \/ view.sub = {} THEN "noViewing" ELSE "armViewing"
      /\ thr'[t].round = r /\ \A u \in Threads : u # t => thr'[u] = thr[u]
  BY <1>1, GotoFacts DEF CommitFinalize, Labels
<1> HIDE DEF r
<1>7. /\ rs'[r] \in {"finalized", "voided"} /\ (rs'[r] = "voided" <=> AllFailed)
      /\ \A s \in Rounds : s # r => rs'[s] = rs[s]
  BY <1>1, <1>2, <1>5
<1>8. \A s \in Rounds, p \in Players :
        /\ s # r => row'[s][p] = row[s][p]
        /\ p \notin Active => row'[r][p] = row[r][p]
        /\ p \in Active => row'[r][p] # "none"
  <2>1. \A p \in Players : Settled(p) # "none"
    BY DEF Settled
  <2>2. QED
    BY <1>1, <1>2, <1>4, <2>1
<1>9. \A s \in Rounds, p \in Players :
        /\ s # r => paid'[p][s] = paid[p][s]
        /\ paid'[p][r] = IF p \in Active /\ rs'[r] = "finalized" THEN paid[p][r] + 1 ELSE paid[p][r]
  BY <1>1, <1>2, <1>5, <1>7
<1>10. QED
  BY <1>2, <1>3, <1>6, <1>7, <1>8, <1>9 DEF r

\* Settling a round keeps the invariant: the round was in scoring, so unpaid and the last one
\* opened, and nobody else is settling it (finalize).
LEMMA CommitFinalizeSafe ==
  ASSUME TypeOK, Busy, Safe, NEW t \in Threads, CommitFinalize(t)
  PROVE  Safe'
<1> DEFINE r == thr[t].round
<1>1. /\ r \in Rounds /\ rs[r] = "scoring" /\ room = "playing" /\ lock = t
      /\ UNCHANGED <<room, member, timers>>
      /\ rs'[r] \in {"finalized", "voided"}
      /\ \A s \in Rounds : s # r => rs'[s] = rs[s]
  BY CommitEffect
<1>2. \A s \in Rounds, p \in Players :
        /\ s # r => row'[s][p] = row[s][p] /\ paid'[p][s] = paid[p][s]
        /\ p \in Active => row'[r][p] # "none"
        /\ paid'[p][r] = IF p \in Active /\ rs'[r] = "finalized" THEN paid[p][r] + 1 ELSE paid[p][r]
  BY CommitEffect
<1>3. /\ thr'[t].round = r /\ thr'[t].pc \in {"armViewing", "noViewing"}
      /\ thr'[t].pc = "armViewing" => rs'[r] = "finalized"
      /\ \A u \in Threads : u # t => thr'[u] = thr[u]
  BY CommitEffect
<1> HIDE DEF r
<1>4. \A p \in Players : paid[p][r] = 0
  BY <1>1 DEF Safe, Unpaid
<1>5. \A s \in Rounds : s > r => rs[s] = "none"
  BY <1>1 DEF Safe, InOrder
<1>6. Locked'
  BY <1>1, <1>3 DEF Safe, Locked
<1>7. InOrder'
  BY <1>1 DEF Safe, InOrder
<1>8. LeavingOnce'
  <2>1. \A s \in Rounds : <<"viewing", s>> \in timers' => rs'[s] \in {"finalized", "closed"}
    BY <1>1 DEF Safe, LeavingOnce
  <2>2. \A u \in Threads : u # t /\ thr[u].pc \in {"armViewing", "noViewing", "advance"} =>
          thr[u].round \in Rounds \ {r}
    BY <1>1 DEF Safe, LeavingOnce, Terminal, Busy
  <2>3. \A u \in Threads :
          /\ thr'[u].pc = "armViewing" => rs'[thr'[u].round] \in {"finalized", "closed"}
          /\ thr'[u].pc \in {"noViewing", "advance"} => rs'[thr'[u].round] \in Terminal
    BY <1>1, <1>3, <2>2 DEF Safe, LeavingOnce, Terminal
  <2>4. \A u, v \in Threads :
          /\ {thr'[u].pc, thr'[v].pc} \subseteq {"noViewing", "advance"}
          /\ thr'[u].round = thr'[v].round /\ rs'[thr'[u].round] = "voided"
          => u = v
    BY <1>1, <1>3, <2>2 DEF Safe, LeavingOnce
  <2>5. \A u \in Threads, s \in Rounds :
          /\ thr'[u].pc \in {"noViewing", "advance"}
          /\ rs'[thr'[u].round] = "voided" /\ s > thr'[u].round
          => rs'[s] = "none"
    BY <1>1, <1>3, <1>5, <2>2 DEF Safe, LeavingOnce
  <2>6. QED
    BY <2>1, <2>3, <2>4, <2>5 DEF LeavingOnce
<1>9. Unpaid' /\ PaidOnce'
  BY <1>1, <1>2, <1>4 DEF Safe, Unpaid, PaidOnce
<1>10. SettledIsComplete'
  BY <1>1, <1>2, <1>4 DEF Safe, SettledIsComplete, Terminal, Active
<1>11. QED
  BY <1>6, <1>7, <1>8, <1>9, <1>10 DEF Safe

\* Only a round that is not void gets a viewing timer.
LEMMA ArmViewingSafe ==
  ASSUME TypeOK, Busy, Safe, NEW t \in Threads, ArmViewing(t)
  PROVE  Safe'
<1>1. /\ thr \in [Threads -> Work] /\ thr[t].pc = "armViewing"
      /\ UNCHANGED <<room, rs, row, paid, member, lock>>
      /\ timers' = ViewingTimers(thr[t].round)
  BY DEF ArmViewing, TypeOK, At, db
<1>2. thr'[t].pc = "idle" /\ \A u \in Threads : u # t => thr'[u] = thr[u]
  BY <1>1, ReturnFacts DEF ArmViewing
<1>3. Locked'
  BY <1>1, <1>2 DEF Safe, Locked
<1>4. LeavingOnce'
  <2>1. \A r \in Rounds : <<"viewing", r>> \in timers' => rs[r] \in {"finalized", "closed"}
    BY <1>1 DEF Safe, LeavingOnce, ViewingTimers
  <2>2. QED
    BY <1>1, <1>2, <2>1 DEF Safe, LeavingOnce
<1>5. QED
  BY <1>1, <1>3, <1>4 DEF Safe, InOrder, Unpaid, PaidOnce, SettledIsComplete, Active

\* What the advance does to the rounds: it closes its own and may open the next one, of which
\* there had been no trace, because a voided round is left only once.
LEMMA AdvanceEffect ==
  ASSUME TypeOK, Busy, Safe, NEW t \in Threads, Advance(t), CanAdvance(thr[t].round)
  PROVE  LET r == thr[t].round
         IN /\ r \in Rounds /\ thr[t].pc = "advance" /\ rs[r] \in {"finalized", "voided"}
            /\ room = "playing" /\ room' \in {"playing", "finished"}
            /\ rs'[r] = IF rs[r] = "finalized" THEN "closed" ELSE rs[r]
            /\ \A s \in Rounds : s > r => rs[s] = "none"
            /\ \A s \in Rounds : s # r => \/ rs'[s] = rs[s]
                                          \/ s = r + 1 /\ rs'[s] = "revealed"
            /\ \A s \in Rounds : <<"viewing", s>> \in timers' => <<"viewing", s>> \in timers
            /\ UNCHANGED <<member, row, paid, lock>>
            /\ thr'[t].pc = "idle" /\ \A u \in Threads : u # t => thr'[u] = thr[u]
            /\ \A u \in Threads : thr[u].pc \notin {"finRows", "finCommit"}
<1> DEFINE r == thr[t].round
           closed == [rs EXCEPT ![r] = IF @ = "finalized" THEN "closed" ELSE @]
<1>1. /\ thr \in [Threads -> Work]
      /\ rs \in [Rounds -> {"none", "revealed", "scoring", "finalized", "voided", "closed"}]
  BY DEF TypeOK, DataOK
<1>2. /\ thr[t].pc = "advance" /\ r \in Rounds /\ Free
      /\ room = "playing" /\ rs[r] \in {"finalized", "voided"}
      /\ UNCHANGED <<member, row, paid, lock>>
  BY DEF Advance, At, Busy, CanAdvance, Loads
<1>3. \A s \in Rounds : s > r => rs[s] = "none"
  BY <1>2 DEF Safe, InOrder, LeavingOnce
<1>4. thr'[t].pc = "idle" /\ \A u \in Threads : u # t => thr'[u] = thr[u]
  BY <1>1, ReturnFacts DEF Advance
<1>5. \/ room' = "finished" /\ rs' = closed /\ timers' \subseteq timers
      \/ /\ room' = room /\ r # RoundCount
         /\ rs' = [closed EXCEPT ![r + 1] = "revealed"]
         /\ timers' = (timers \ {<<"viewing", r>>}) \cup {<<"deadline", r + 1>>}
  BY DEF Advance, EndsGame
<1>6. \A s \in Rounds : <<"viewing", s>> \in timers' => <<"viewing", s>> \in timers
  BY <1>5
<1>7. /\ \A s \in Rounds : closed[s] = IF s = r /\ rs[s] = "finalized" THEN "closed" ELSE rs[s]
      /\ closed \in [Rounds -> {"none", "revealed", "scoring", "finalized", "voided", "closed"}]
  BY <1>1, <1>2
<1>8. r \in Int
  BY <1>2 DEF Rounds
<1> HIDE DEF r, closed
<1>9. /\ rs'[r] = closed[r]
      /\ \A s \in Rounds : s # r => rs'[s] = closed[s] \/ (s = r + 1 /\ rs'[s] = "revealed")
  BY <1>2, <1>5, <1>7, <1>8
<1>10. \A u \in Threads : thr[u].pc \notin {"finRows", "finCommit"}
  BY <1>2, FreeMeansNoFinalize DEF Safe
<1>11. room' \in {"playing", "finished"}
  BY <1>2, <1>5
<1>12. QED
  BY <1>2, <1>3, <1>4, <1>6, <1>7, <1>9, <1>10, <1>11 DEF r

\* Leaving a round keeps the invariant (advance).
LEMMA AdvanceSafe ==
  ASSUME TypeOK, Busy, Safe, NEW t \in Threads, Advance(t)
  PROVE  Safe'
<1> DEFINE r == thr[t].round
<1>1. CASE ~ CanAdvance(r)
  <2>1. thr \in [Threads -> Work] /\ submitted \in [Rounds -> SUBSET Players]
    BY DEF TypeOK, DataOK
  <2>2. Moved(t)
    BY <2>1, StepMoves DEF Step
  <2>3. thr'[t].pc = "idle"
    BY <2>1, ReturnFacts DEF Advance
  <2>4. QED
    BY <1>1, <2>2, <2>3, QuietSafe DEF Advance, Quiet, Settling
<1>2. CASE CanAdvance(r)
  <2>1. /\ r \in Rounds /\ thr[t].pc = "advance" /\ rs[r] \in {"finalized", "voided"}
        /\ room = "playing" /\ room' \in {"playing", "finished"}
        /\ rs'[r] = IF rs[r] = "finalized" THEN "closed" ELSE rs[r]
        /\ \A s \in Rounds : s > r => rs[s] = "none"
        /\ \A s \in Rounds : s # r => rs'[s] = rs[s] \/ (s = r + 1 /\ rs'[s] = "revealed")
    BY <1>2, AdvanceEffect
  <2>2. /\ \A s \in Rounds : <<"viewing", s>> \in timers' => <<"viewing", s>> \in timers
        /\ UNCHANGED <<member, row, paid, lock>>
        /\ thr'[t].pc = "idle" /\ \A u \in Threads : u # t => thr'[u] = thr[u]
        /\ \A u \in Threads : thr[u].pc \notin {"finRows", "finCommit"}
    BY <1>2, AdvanceEffect
  <2>3. Rounds \subseteq Int
    BY DEF Rounds
  <2>4. thr[t].round = r
    OBVIOUS
  <2> HIDE DEF r
  <2>5. Locked'
    BY <2>2 DEF Locked
  <2>6. InOrder'
    BY <2>1, <2>3 DEF Safe, InOrder
  <2>7. \A s \in Rounds : s # r /\ rs'[s] # rs[s] => rs[s] = "none" /\ rs'[s] = "revealed" /\ s = r + 1
    BY <2>1, <2>3
  <2>8. LeavingOnce'
    <3>1. \A s \in Rounds : <<"viewing", s>> \in timers' => rs'[s] \in {"finalized", "closed"}
      BY <2>1, <2>2, <2>7 DEF Safe, LeavingOnce
    <3>2. \A u \in Threads :
            /\ thr'[u].pc = "armViewing" => rs'[thr'[u].round] \in {"finalized", "closed"}
            /\ thr'[u].pc \in {"noViewing", "advance"} => rs'[thr'[u].round] \in Terminal
      BY <2>1, <2>2, <2>7 DEF Safe, LeavingOnce, Busy, Terminal
    <3>3. \A u \in Threads : u # t /\ thr[u].pc \in {"noViewing", "advance"}
                           /\ rs'[thr[u].round] = "voided"
            => thr[u].round \in Rounds /\ rs[thr[u].round] = "voided" /\ thr[u].round # r
      BY <2>1, <2>4, <2>7 DEF Safe, LeavingOnce, Busy
    <3>4. \A u, v \in Threads :
            /\ {thr'[u].pc, thr'[v].pc} \subseteq {"noViewing", "advance"}
            /\ thr'[u].round = thr'[v].round /\ rs'[thr'[u].round] = "voided"
            => u = v
      BY <2>2, <3>3 DEF Safe, LeavingOnce
    <3>5. ASSUME NEW u \in Threads, NEW s \in Rounds,
                 thr'[u].pc \in {"noViewing", "advance"},
                 rs'[thr'[u].round] = "voided", s > thr'[u].round
          PROVE  rs'[s] = "none"
      <4> DEFINE q == thr[u].round
      <4>1. u # t /\ thr'[u] = thr[u]
        BY <2>2, <3>5
      <4>2. q \in Rounds /\ rs[q] = "voided" /\ q # r
        BY <3>3, <3>5, <4>1
      <4>3. rs[s] = "none" /\ \A x \in Rounds : x > q => rs[x] = "none"
        BY <3>5, <4>1, <4>2 DEF Safe, LeavingOnce
      <4>4. s > q
        BY <3>5, <4>1
      <4> HIDE DEF q
      <4>5. s # r /\ ~ (r > q)
        BY <2>1, <4>3
      <4>6. ~ (s = r + 1)
        BY <2>1, <2>3, <4>2, <4>3, <4>4, <4>5
      <4>7. QED
        BY <2>7, <4>3, <4>5, <4>6
    <3>6. QED
      BY <3>1, <3>2, <3>4, <3>5 DEF LeavingOnce
  <2>9. Unpaid' /\ PaidOnce'
    BY <2>1, <2>2, <2>7 DEF Safe, Unpaid, PaidOnce
  <2>10. SettledIsComplete'
    BY <2>1, <2>2, <2>7 DEF Safe, SettledIsComplete, Terminal, Active
  <2>11. QED
    BY <2>5, <2>6, <2>8, <2>9, <2>10 DEF Safe
<1>3. QED
  BY <1>1, <1>2

\* An idle thread is put to work: only a skip and a viewing timer lead towards leaving a round.
LEMMA StartsSafe ==
  ASSUME TypeOK, Busy, Safe, NEW t \in Threads, Starts(t)
  PROVE  Safe'
<1>1. thr \in [Threads -> Work] /\ Moved(t)
  BY StartMoves DEF TypeOK
<1>2. CASE StartGame(t)
  BY <1>2, StartGameSafe
<1>3. ASSUME NEW r \in Rounds, NEW p \in Players, Submit(t, p, r) PROVE Safe'
  <2>1. thr'[t].pc = "token"
    BY <1>1, <1>3, ForkFacts DEF Submit, Labels
  <2>2. QED
    BY <1>1, <1>3, <2>1, QuietSafe DEF Submit, Quiet, Settling, db, redis
<1>4. ASSUME NEW r \in Rounds, NEW p \in Players, NEW payload \in {"ok", "failed"},
             RecordScore(t, r, p, payload)
      PROVE  Safe'
  <2>1. thr'[t].pc = "check"
    BY <1>1, <1>4, ForkFacts DEF RecordScore, Labels
  <2>2. QED
    BY <1>1, <1>4, <2>1, QuietSafe DEF RecordScore, Quiet, Settling, db
<1>5. ASSUME NEW r \in Rounds, thr'[t].pc = "advance", thr'[t].round = r,
             rs[r] \in {"finalized", "closed"},
             UNCHANGED <<room, rs, row, paid, member, lock>>, timers' \subseteq timers
      PROVE  Safe'
  <2>1. \A u \in Threads : u # t => thr'[u] = thr[u]
    BY <1>1 DEF Moved
  <2>2. Locked'
    BY <1>5, <2>1 DEF Safe, Locked
  <2>3. LeavingOnce'
    BY <1>5, <2>1 DEF Safe, LeavingOnce, Terminal
  <2>4. QED
    BY <1>5, <2>2, <2>3 DEF Safe, InOrder, Unpaid, PaidOnce, SettledIsComplete, Active
<1>6. ASSUME NEW r \in Rounds, Skip(t, r) PROVE Safe'
  <2>1. thr'[t].pc = "advance" /\ thr'[t].round = r
    BY <1>1, <1>6, ForkFacts DEF Skip, Labels
  <2>2. QED
    BY <1>5, <1>6, <2>1 DEF Skip, db, redis
<1>7. ASSUME NEW kind \in {"deadline", "guard", "viewing"}, NEW r \in Rounds, Claim(t, kind, r)
      PROVE  Safe'
  <2>1. UNCHANGED <<room, rs, row, paid, member, lock>> /\ timers' \subseteq timers
        /\ <<kind, r>> \in timers
    BY <1>7 DEF Claim, db
  <2>2. CASE kind = "viewing"
    <3>1. thr'[t].pc = "advance" /\ thr'[t].round = r
      BY <1>1, <1>7, <2>2, ForkFacts DEF Claim, Labels
    <3>2. rs[r] \in {"finalized", "closed"}
      BY <2>1, <2>2 DEF Safe, LeavingOnce
    <3>3. QED
      BY <1>5, <2>1, <3>1, <3>2
  <2>3. CASE kind # "viewing"
    <3>1. thr'[t].pc \in {"close", "guard"}
      BY <1>1, <1>7, <2>3, ForkFacts DEF Claim, Labels
    <3>2. QED
      BY <1>1, <2>1, <3>1, QuietSafe DEF Quiet, Settling
  <2>4. QED
    BY <2>2, <2>3
<1>8. QED
  BY <1>2, <1>3, <1>4, <1>6, <1>7 DEF Starts

\* Departures end the game only between two steps of finalize; a returning player who finds
\* the game running waits for the next one, so no settled round owes them anything.
LEMMA ElsewhereSafe ==
  ASSUME TypeOK, Busy, Safe, Elsewhere
  PROVE  Safe'
<1>1. UNCHANGED <<thr, rs, row, paid, lock, timers>>
  BY ElsewhereData DEF TypeOK
<1>2. member \in [Players -> {"active", "waiting", "left"}]
      /\ rs \in [Rounds -> {"none", "revealed", "scoring", "finalized", "voided", "closed"}]
  BY DEF TypeOK, DataOK
<1>3. room' # room => Free /\ room' = "finished"
  BY DEF Elsewhere, Expire, Rejoin, LoseTask, db
<1>4. room # "waiting" => Active' \subseteq Active
  BY <1>2 DEF Elsewhere, Expire, Rejoin, LoseTask, db, Active
<1>5. Locked'
  BY <1>1, <1>3, FreeMeansNoFinalize DEF Safe, Locked
<1>6. InOrder' /\ LeavingOnce' /\ Unpaid' /\ PaidOnce'
  BY <1>1, <1>3 DEF Safe, InOrder, LeavingOnce, Unpaid, PaidOnce
<1>7. SettledIsComplete'
  BY <1>1, <1>4 DEF Safe, SettledIsComplete, InOrder, Terminal
<1>8. QED
  BY <1>5, <1>6, <1>7 DEF Safe

\* The invariant holds at first.
LEMMA SafeInit == Init => Safe
  BY ConstantsAssumption
     DEF Init, Safe, Locked, InOrder, LeavingOnce, Unpaid, PaidOnce, SettledIsComplete, Idle, Terminal

\* Every step keeps the invariant.
LEMMA SafeNext == TypeOK /\ Busy /\ Safe /\ [Next]_vars => Safe'
<1> SUFFICES ASSUME TypeOK, Busy, Safe, [Next]_vars PROVE Safe'
  OBVIOUS
<1>1. ASSUME NEW t \in Threads, Step(t) \/ RejectBody(t) \/ Crash(t) PROVE Safe'
  <2>1. CASE CloseSubmissions(t)
    BY <2>1, CloseSubmissionsSafe
  <2>2. CASE BeginFinalize(t) \/ ReadRows(t) \/ SkipViewing(t)
    BY <2>2, GoingOnSafe
  <2>3. CASE CommitFinalize(t)
    BY <2>3, CommitFinalizeSafe
  <2>4. CASE ArmViewing(t)
    BY <2>4, ArmViewingSafe
  <2>5. CASE Advance(t)
    BY <2>5, AdvanceSafe
  <2>6. CASE \/ ArmDeadline(t) \/ UseToken(t) \/ ClaimSlot(t) \/ InsertRow(t) \/ Dispatch(t)
             \/ CheckResolved(t) \/ ReadPending(t) \/ ReadStranded(t) \/ ForceFailed(t)
             \/ AbortFinalize(t) \/ RejectBody(t) \/ Crash(t)
    BY <2>6, QuietSteps, QuietSafe
  <2>7. QED
    BY <1>1, <2>1, <2>2, <2>3, <2>4, <2>5, <2>6 DEF Step
<1>2. ASSUME NEW t \in Threads, Starts(t) PROVE Safe'
  BY <1>2, StartsSafe
<1>3. CASE Elsewhere
  BY <1>3, ElsewhereSafe
<1>4. CASE UNCHANGED vars
  BY <1>4 DEF vars, db, redis, Safe, Locked, InOrder, LeavingOnce, Unpaid, PaidOnce,
              SettledIsComplete, Active
<1>5. QED
  BY <1>1, <1>2, <1>3, <1>4, NextCases

\* The inductive invariant holds of every game: finalize is exclusive, rounds open in order,
\* a voided round is left once, and the ledger of every settled round is complete.
THEOREM InvariantHolds == Spec => []IInv
<1>1. Init => IInv
  BY TypeInit, SafeInit DEF IInv, Safe
<1>2. IInv /\ [Next]_vars => IInv'
  BY TypeNext, SafeNext DEF IInv, Safe
<1>3. QED
  BY <1>1, <1>2, PTL DEF Spec

\* Points enter a player's total at most once per round, whatever handlers race (finalize).
THEOREM PaysOnce == Spec => []PaidOnce
<1>1. IInv => PaidOnce
  BY DEF IInv
<1>2. QED
  BY <1>1, InvariantHolds, PTL

\* No active participant is missing from a settled round (finalize_round).
THEOREM SettlesCompletely == Spec => []SettledIsComplete
<1>1. IInv => SettledIsComplete
  BY DEF IInv
<1>2. QED
  BY <1>1, InvariantHolds, PTL
-----------------------------------------------------------------------------
(* What a step may never do, and the refinement.                             *)

\* The steps that touch neither the rounds nor the points, nor the room except to end it.
LEMMA OtherSteps ==
  ASSUME NEW t \in Threads,
         \/ ArmDeadline(t) \/ UseToken(t) \/ ClaimSlot(t) \/ InsertRow(t) \/ Dispatch(t) \/ CheckResolved(t)
         \/ ReadPending(t) \/ ReadStranded(t) \/ ForceFailed(t) \/ BeginFinalize(t) \/ ReadRows(t)
         \/ AbortFinalize(t) \/ ArmViewing(t) \/ SkipViewing(t) \/ RejectBody(t) \/ Crash(t)
         \/ CloseSubmissions(t) /\ ~ CanClose(thr[t].round)
         \/ Advance(t) /\ ~ CanAdvance(thr[t].round)
         \/ Starts(t) /\ ~ StartGame(t)
  PROVE  UNCHANGED <<room, current, rs, paid, voids>>
<1>1. CASE ArmDeadline(t) \/ UseToken(t) \/ ClaimSlot(t) \/ InsertRow(t) \/ Dispatch(t) \/ CheckResolved(t)
  BY <1>1 DEF ArmDeadline, UseToken, ClaimSlot, InsertRow, Dispatch, CheckResolved, db
<1>2. CASE ReadPending(t) \/ ReadStranded(t) \/ ForceFailed(t) \/ BeginFinalize(t) \/ ReadRows(t)
  BY <1>2 DEF ReadPending, ReadStranded, ForceFailed, BeginFinalize, ReadRows, db
<1>3. CASE AbortFinalize(t) \/ ArmViewing(t) \/ SkipViewing(t) \/ RejectBody(t) \/ Crash(t)
  BY <1>3 DEF AbortFinalize, ArmViewing, SkipViewing, RejectBody, Crash, db
<1>4. CASE CloseSubmissions(t) /\ ~ CanClose(thr[t].round)
  BY <1>4 DEF CloseSubmissions
<1>5. CASE Advance(t) /\ ~ CanAdvance(thr[t].round)
  BY <1>5 DEF Advance
<1>6. CASE Starts(t) /\ ~ StartGame(t)
  BY <1>6 DEF Starts, Submit, Skip, RecordScore, Claim, db
<1>7. QED
  BY <1>1, <1>2, <1>3, <1>4, <1>5, <1>6

\* Every step of the handlers is a step of the abstract game, or leaves it where it is.
LEMMA StepRefines ==
  ASSUME IInv, NEW t \in Threads, Step(t) \/ RejectBody(t) \/ Crash(t) \/ Starts(t)
  PROVE  \/ UNCHANGED <<room, current, rs, paid, voids>>
         \/ room # "finished" /\ Sequence!Next
<1> DEFINE r == thr[t].round
<1>1. /\ rs \in [Rounds -> {"none", "revealed", "scoring", "finalized", "voided", "closed"}]
      /\ paid \in [Players -> [Rounds -> Nat]] /\ TypeOK /\ Busy /\ Safe
  BY DEF IInv, TypeOK, DataOK, Safe
<1>2. Sequence!Rounds = Rounds
  BY DEF Sequence!Rounds, Rounds
<1>3. CASE StartGame(t)
  <2>1. Sequence!Begin
    BY <1>3 DEF Sequence!Begin, StartGame
  <2>2. QED
    BY <1>3, <2>1 DEF Sequence!Next, StartGame
<1>4. CASE CloseSubmissions(t) /\ CanClose(r)
  <2>1. /\ r \in Rounds /\ rs[r] = "revealed" /\ rs' = [rs EXCEPT ![r] = "scoring"]
        /\ room = "playing" /\ UNCHANGED <<room, paid>>
    BY <1>1, <1>4 DEF CloseSubmissions, Busy, CanClose, Loads, At
  <2> HIDE DEF r
  <2>2. Sequence!IsCurrent(r)
    BY <1>1, <1>2, <2>1 DEF Sequence!IsCurrent, Safe, InOrder
  <2>3. Sequence!StopAccepting(r)
    BY <2>1, <2>2 DEF Sequence!StopAccepting
  <2>4. QED
    BY <1>2, <2>1, <2>3 DEF Sequence!Next
<1>5. CASE CommitFinalize(t)
  <2>1. /\ r \in Rounds /\ rs[r] = "scoring" /\ room = "playing" /\ UNCHANGED room
    BY <1>1, <1>5, CommitEffect
  <2>2. \/ rs' = [rs EXCEPT ![r] = "voided"] /\ paid' = paid
        \/ /\ rs' = [rs EXCEPT ![r] = "finalized"]
           /\ paid' = [p \in Players |->
                         IF p \in Active THEN [paid[p] EXCEPT ![r] = @ + 1] ELSE paid[p]]
    BY <1>5 DEF CommitFinalize
  <2> HIDE DEF r
  <2>3. Sequence!IsCurrent(r)
    BY <1>1, <1>2, <2>1 DEF Sequence!IsCurrent, Safe, InOrder
  <2>4. \A p \in Players : paid[p][r] + 1 = 1
    BY <1>1, <2>1 DEF Safe, Unpaid
  <2>5. \/ rs' = [rs EXCEPT ![r] = "voided"] /\ paid' = paid
        \/ /\ rs' = [rs EXCEPT ![r] = "finalized"]
           /\ paid' = [p \in Players |-> IF p \in Active THEN [paid[p] EXCEPT ![r] = 1] ELSE paid[p]]
    BY <1>1, <2>1, <2>2, <2>4
  <2>6. Active \in SUBSET Players
    BY DEF Active
  <2>7. Sequence!Settle(r)
    BY <2>1, <2>3, <2>5, <2>6 DEF Sequence!Settle
  <2>8. QED
    BY <1>2, <2>1, <2>7 DEF Sequence!Next
<1>6. CASE Advance(t) /\ CanAdvance(r)
  <2> DEFINE ended == IF rs[r] = "finalized" THEN "closed" ELSE "voided"
             closed == [rs EXCEPT ![r] = IF @ = "finalized" THEN "closed" ELSE @]
  <2>1. /\ r \in Rounds /\ rs[r] \in {"finalized", "voided"} /\ room = "playing"
        /\ \A s \in Rounds : s > r => rs[s] = "none"
    BY <1>1, <1>6, AdvanceEffect
  <2>2. /\ UNCHANGED paid
        /\ \/ room' = "finished" /\ rs' = closed
           \/ r # RoundCount /\ room' = room /\ rs' = [closed EXCEPT ![r + 1] = "revealed"]
    BY <1>6 DEF Advance, EndsGame
  <2>3. closed = [rs EXCEPT ![r] = ended]
    BY <1>1, <2>1
  <2>4. r < RoundCount \/ r = RoundCount
    BY <2>1, ConstantsAssumption DEF Rounds
  <2> HIDE DEF r, closed
  <2>5. Sequence!IsCurrent(r)
    BY <1>2, <2>1 DEF Sequence!IsCurrent
  <2>6. \/ room' = "finished" /\ rs' = [rs EXCEPT ![r] = ended]
        \/ r < RoundCount /\ room' = room /\ rs' = [rs EXCEPT ![r] = ended, ![r + 1] = "revealed"]
    BY <2>2, <2>3, <2>4
  <2>7. Sequence!Proceed(r)
    BY <2>1, <2>2, <2>5, <2>6 DEF Sequence!Proceed
  <2>8. QED
    BY <1>2, <2>1, <2>7 DEF Sequence!Next
<1>7. QED
  BY <1>3, <1>4, <1>5, <1>6, OtherSteps DEF Step

\* So is every departure and every return.
LEMMA ElsewhereRefines ==
  ASSUME Elsewhere
  PROVE  UNCHANGED <<room, current, rs, paid, voids>> \/ (room # "finished" /\ Sequence!Next)
<1>1. UNCHANGED <<rs, paid>>
  BY DEF Elsewhere, Expire, Rejoin, LoseTask, db
<1>2. \/ UNCHANGED <<room, current, rs, paid, voids>>
      \/ room = "playing" /\ room' = "finished"
  BY DEF Elsewhere, Expire, Rejoin, LoseTask, db
<1>3. QED
  BY <1>1, <1>2 DEF Sequence!Next, Sequence!Abort

\* Every step of the system is one of the abstract game or a stutter of it, and none changes a
\* finished game.
LEMMA NextRefines ==
  ASSUME IInv, [Next]_vars
  PROVE  UNCHANGED <<room, current, rs, paid, voids>> \/ (room # "finished" /\ Sequence!Next)
<1>1. CASE UNCHANGED vars
  BY <1>1 DEF vars, db
<1>2. QED
  BY <1>1, StepRefines, ElsewhereRefines, NextCases

\* The rounds of a room are the abstract game: opened in order, closed once, settled once,
\* paid in the step that settles them (close_submissions, finalize, advance).
THEOREM Refinement == Spec => PlaysInSequence
<1>1. Init => Sequence!Init
  BY DEF Init, Sequence!Init, Sequence!Rounds, Rounds
<1>2. IInv /\ [Next]_vars => [Sequence!Next]_(Sequence!vars)
  BY NextRefines DEF Sequence!vars
<1>3. QED
  BY <1>1, <1>2, InvariantHolds, PTL DEF Spec, PlaysInSequence, Sequence!Spec

\* Handlers that wake up after the end of the game change nothing of it (_load).
THEOREM NothingAfterTheEnd == Spec => FinishedIsFinal
<1>1. IInv /\ [Next]_vars
        => [room = "finished" => UNCHANGED <<room, current, rs, paid, voids>>]_vars
  BY NextRefines
<1>2. QED
  BY <1>1, InvariantHolds, PTL DEF Spec, FinishedIsFinal

\* No step touches the rows or the points of a settled round.
LEMMA StepFreezes ==
  ASSUME IInv, [Next]_vars, NEW r \in Rounds, NEW p \in Players, rs[r] \in Terminal
  PROVE  paid'[p][r] = paid[p][r] /\ (row[r][p] # "none" => row'[r][p] = row[r][p])
<1> DEFINE Frozen == paid'[p][r] = paid[p][r] /\ (row[r][p] # "none" => row'[r][p] = row[r][p])
<1>1. /\ row \in [Rounds -> [Players -> {"none", "failed", "ok", "missed"}]]
      /\ TypeOK /\ Busy /\ Safe
  BY DEF IInv, TypeOK, DataOK, Safe
<1>2. ASSUME UNCHANGED <<row, paid>> PROVE Frozen
  BY <1>2
<1>3. ASSUME NEW t \in Threads, CommitFinalize(t) PROVE Frozen
  <2>1. thr[t].round # r
    BY <1>1, <1>3, CommitEffect DEF Terminal
  <2>2. QED
    BY <1>1, <1>3, <2>1, CommitEffect
<1>4. ASSUME NEW t \in Threads, InsertRow(t) PROVE Frozen
  <2> DEFINE q == thr[t].who  s == thr[t].round
  <2>1. /\ UNCHANGED paid
        /\ UNCHANGED row \/ (row[s][q] = "none" /\ row' = [row EXCEPT ![s][q] = "failed"])
    BY <1>4 DEF InsertRow, Insertable
  <2> HIDE DEF q, s
  <2>2. QED
    BY <1>1, <2>1
<1>5. ASSUME NEW t \in Threads, Step(t) \/ RejectBody(t) \/ Crash(t) \/ Starts(t),
             ~ CommitFinalize(t), ~ InsertRow(t)
      PROVE  UNCHANGED <<row, paid>>
  <2>1. CASE Starts(t)
    BY <2>1 DEF Starts, StartGame, Submit, Skip, RecordScore, Claim, db
  <2>2. CASE RejectBody(t) \/ Crash(t)
    BY <2>2 DEF RejectBody, Crash, db
  <2>3. CASE ArmDeadline(t) \/ UseToken(t) \/ ClaimSlot(t) \/ Dispatch(t) \/ CheckResolved(t) \/ CloseSubmissions(t)
    BY <2>3 DEF ArmDeadline, UseToken, ClaimSlot, Dispatch, CheckResolved, CloseSubmissions, db
  <2>4. CASE ReadPending(t) \/ ReadStranded(t) \/ ForceFailed(t) \/ BeginFinalize(t) \/ ReadRows(t)
    BY <2>4 DEF ReadPending, ReadStranded, ForceFailed, BeginFinalize, ReadRows, db
  <2>5. CASE AbortFinalize(t) \/ ArmViewing(t) \/ SkipViewing(t) \/ Advance(t)
    BY <2>5 DEF AbortFinalize, ArmViewing, SkipViewing, Advance, db
  <2>6. QED
    BY <1>5, <2>1, <2>2, <2>3, <2>4, <2>5 DEF Step
<1>6. CASE Elsewhere
  BY <1>1, <1>2, <1>6, ElsewhereData DEF TypeOK
<1>7. CASE UNCHANGED vars
  BY <1>2, <1>7 DEF vars, db
<1>8. QED
  BY <1>2, <1>3, <1>4, <1>5, <1>6, <1>7, NextCases

\* The ledger of a settled round is closed: late uploads, late results and second finalizes
\* change no row of it and pay no point of it (D-8).
THEOREM LedgerStaysClosed == Spec => LedgerFrozen
<1>1. IInv /\ [Next]_vars
        => [\A r \in Rounds : rs[r] \in Terminal =>
              \A p \in Players : /\ paid'[p][r] = paid[p][r]
                                 /\ row[r][p] # "none" => row'[r][p] = row[r][p]]_vars
  BY StepFreezes
<1>2. QED
  BY <1>1, InvariantHolds, PTL DEF Spec, LedgerFrozen
-----------------------------------------------------------------------------
(***************************************************************************)
(* Uploads, the closing that waits for their results, and the streak of    *)
(* voided rounds.                                                          *)
(***************************************************************************)

\* What the lemmas below rely on.
Base == TypeOK /\ Busy /\ Safe

\* It follows from the inductive invariant.
LEMMA InvariantIsBase == IInv => Base
  BY DEF IInv, Base, Safe

\* The types the lemmas need.
LEMMA Types ==
  ASSUME TypeOK
  PROVE  /\ thr \in [Threads -> Work]
         /\ rs \in [Rounds -> {"none", "revealed", "scoring", "finalized", "voided", "closed"}]
         /\ scores \in [Rounds -> [Players -> {"none", "ok", "failed"}]]
         /\ submitted \in [Rounds -> SUBSET Players]
         /\ voids \in Nat
  BY DEF TypeOK, DataOK
-----------------------------------------------------------------------------
(* One upload: the slot is claimed before anything else, and once.           *)

Posting == {"insert", "upload"}

\* The steps that claim no slot, start no classification and record no result.
Unhurried(t) ==
  /\ Moved(t)
  /\ thr'[t].pc \in Posting =>
       thr[t].pc \in Posting /\ thr'[t].who = thr[t].who /\ thr'[t].round = thr[t].round
  /\ UNCHANGED submitted /\ inflight' \subseteq inflight
  /\ \A r \in Rounds, p \in Players : scores'[r][p] = "ok" => scores[r][p] = "ok"

\* They leave the slots alone.
LEMMA UnhurriedKeepsSlots ==
  ASSUME TypeOK, Busy, SlotsClaimed, NEW t \in Threads, Unhurried(t)
  PROVE  SlotsClaimed'
<1> USE DEF SlotsClaimed, Unhurried, Moved, Posting, Busy
<1>1. (\A u \in Threads : thr[u].pc \in Posting =>
         /\ thr[u].who \in submitted[thr[u].round]
         /\ <<thr[u].round, thr[u].who>> \notin inflight
         /\ scores[thr[u].round][thr[u].who] # "ok")'
  OBVIOUS
<1>2. (\A u, v \in Threads :
         /\ {thr[u].pc, thr[v].pc} \subseteq Posting
         /\ thr[u].who = thr[v].who /\ thr[u].round = thr[v].round
         => u = v)'
  OBVIOUS
<1>3. (\A r \in Rounds, p \in Players :
         <<r, p>> \in inflight \/ scores[r][p] = "ok" => p \in submitted[r])'
  OBVIOUS
<1>4. QED
  BY <1>1, <1>2, <1>3

\* All steps of handlers but three are unhurried.
LEMMA MostAreUnhurried ==
  ASSUME TypeOK, Busy, NEW t \in Threads, Step(t) \/ RejectBody(t) \/ Crash(t) \/ Starts(t),
         ~ ClaimSlot(t), ~ Dispatch(t),
         ~ \E r \in Rounds, p \in Players, payload \in {"ok", "failed"} : RecordScore(t, r, p, payload)
  PROVE  Unhurried(t)
<1>1. /\ thr \in [Threads -> Work] /\ submitted \in [Rounds -> SUBSET Players]
      /\ scores \in [Rounds -> [Players -> {"none", "ok", "failed"}]]
  BY Types
<1>2. Moved(t)
  BY <1>1, StepMoves, StartMoves
<1> USE DEF Unhurried, Posting, At, Labels
<1>3. CASE ArmDeadline(t) \/ UseToken(t)
  BY <1>1, <1>2, <1>3, ReturnFacts, GotoFacts DEF ArmDeadline, UseToken
<1>4. CASE InsertRow(t)
  BY <1>1, <1>2, <1>4, ReturnFacts, GotoFacts DEF InsertRow, redis
<1>5. CASE CheckResolved(t) \/ CloseSubmissions(t)
  BY <1>1, <1>2, <1>5, ReturnFacts, GotoFacts DEF CheckResolved, CloseSubmissions, redis
<1>6. CASE ReadPending(t)
  BY <1>1, <1>2, <1>6, ReturnFacts, GotoFacts DEF ReadPending
<1>7. CASE ReadStranded(t)
  <2> DEFINE stranded == Unresolved(thr[t].round)
  <2>1. stranded \in SUBSET Players /\ UNCHANGED <<submitted, inflight, scores>>
    BY <1>1, <1>7 DEF ReadStranded, Unresolved, Busy, redis
  <2>2. thr' = [thr EXCEPT ![t].pc = "force", ![t].stranded = stranded]
    BY <1>7 DEF ReadStranded
  <2> HIDE DEF stranded
  <2>3. thr'[t].pc = "force"
    BY <1>1, <2>1, <2>2, StrandFacts
  <2>4. QED
    BY <1>2, <2>1, <2>3
<1>8. CASE ForceFailed(t)
  <2>1. thr[t].round \in Rounds /\ {} \in SUBSET Players
    BY <1>8 DEF ForceFailed, Busy
  <2>2. thr'[t].pc = "finalize"
    BY <1>1, <1>8, <2>1, StrandFacts DEF ForceFailed
  <2>3. UNCHANGED <<submitted, inflight>>
    BY <1>8 DEF ForceFailed
  <2>4. \A r \in Rounds, p \in Players : scores'[r][p] = "ok" => scores[r][p] = "ok"
    BY <1>1, <1>8, <2>1 DEF ForceFailed
  <2>5. QED
    BY <1>2, <2>2, <2>3, <2>4
<1>9. CASE BeginFinalize(t) \/ ReadRows(t) \/ CommitFinalize(t) \/ AbortFinalize(t)
  BY <1>1, <1>2, <1>9, ReturnFacts, GotoFacts
     DEF BeginFinalize, ReadRows, CommitFinalize, AbortFinalize, redis
<1>10. CASE ArmViewing(t) \/ SkipViewing(t) \/ Advance(t)
  BY <1>1, <1>2, <1>10, ReturnFacts, GotoFacts DEF ArmViewing, SkipViewing, Advance
<1>11. CASE RejectBody(t) \/ Crash(t)
  BY <1>1, <1>2, <1>11, ReturnFacts DEF RejectBody, Crash, redis
<1>12. CASE Starts(t)
  <2>1. CASE StartGame(t)
    <3>1. 1 \in Rounds
      BY ConstantsAssumption DEF Rounds
    <3>2. Fork(t, "arm", NoPlayer, 1) /\ UNCHANGED <<submitted, inflight, scores>>
      BY <2>1 DEF StartGame
    <3>3. thr'[t].pc = "arm"
      BY <1>1, <3>1, <3>2, ForkFacts
    <3>4. QED
      BY <1>2, <3>2, <3>3
  <2>2. ASSUME NEW r \in Rounds, Skip(t, r) PROVE Unhurried(t)
    BY <1>1, <1>2, <2>2, ForkFacts DEF Skip, redis
  <2>3. ASSUME NEW r \in Rounds, NEW p \in Players, Submit(t, p, r) PROVE Unhurried(t)
    BY <1>1, <1>2, <2>3, ForkFacts DEF Submit, redis
  <2>4. ASSUME NEW kind \in {"deadline", "guard", "viewing"}, NEW r \in Rounds, Claim(t, kind, r)
        PROVE  Unhurried(t)
    BY <1>1, <1>2, <2>4, ForkFacts DEF Claim
  <2>5. QED
    BY <1>12, <2>1, <2>2, <2>3, <2>4 DEF Starts
<1>13. QED
  BY <1>3, <1>4, <1>5, <1>6, <1>7, <1>8, <1>9, <1>10, <1>11, <1>12 DEF Step

\* Who claims the slot was not there before, so nobody posts, classifies or has recorded for
\* the same player and round (HSETNX).
LEMMA ClaimSlotKeepsSlots ==
  ASSUME TypeOK, Busy, SlotsClaimed, NEW t \in Threads, ClaimSlot(t)
  PROVE  SlotsClaimed'
<1> DEFINE r == thr[t].round  p == thr[t].who
<1>1. /\ thr \in [Threads -> Work] /\ submitted \in [Rounds -> SUBSET Players]
      /\ r \in Rounds /\ p \in Players /\ thr[t].pc = "slot"
  BY Types DEF ClaimSlot, At, Busy
<1>2. UNCHANGED <<inflight, scores>>
  BY DEF ClaimSlot
<1>3. CASE p \in submitted[r]
  <2>1. Unhurried(t)
    BY <1>1, <1>2, <1>3, ReturnFacts, IdleFacts DEF ClaimSlot, FirstTime, Unhurried, Moved, Posting
  <2>2. QED
    BY <2>1, UnhurriedKeepsSlots
<1>4. CASE p \notin submitted[r]
  <2>1. /\ submitted' = [submitted EXCEPT ![r] = @ \cup {p}] /\ Goto(t, "insert")
    BY <1>4 DEF ClaimSlot, FirstTime
  <2>2. /\ thr'[t].pc = "insert" /\ thr'[t].who = p /\ thr'[t].round = r
        /\ \A u \in Threads : u # t => thr'[u] = thr[u]
    BY <1>1, <2>1, GotoFacts DEF Labels
  <2> HIDE DEF r, p
  <2>3. /\ p \in submitted'[r]
        /\ \A s \in Rounds : submitted[s] \subseteq submitted'[s]
    BY <1>1, <2>1
  <2>4. <<r, p>> \notin inflight /\ scores[r][p] # "ok"
    BY <1>1, <1>4 DEF SlotsClaimed
  <2>5. \A u \in Threads : thr[u].pc \in Posting => ~ (thr[u].who = p /\ thr[u].round = r)
    <3>1. \A u \in Threads : thr[u].pc \in Posting => thr[u].who \in submitted[thr[u].round]
      BY DEF SlotsClaimed, Posting
    <3>2. QED
      BY <1>4, <3>1
  <2>6. (\A u \in Threads : thr[u].pc \in Posting =>
           /\ thr[u].who \in submitted[thr[u].round]
           /\ <<thr[u].round, thr[u].who>> \notin inflight
           /\ scores[thr[u].round][thr[u].who] # "ok")'
    BY <1>2, <2>2, <2>3, <2>4 DEF SlotsClaimed, Posting, Busy
  <2>7. (\A u, v \in Threads :
           /\ {thr[u].pc, thr[v].pc} \subseteq Posting
           /\ thr[u].who = thr[v].who /\ thr[u].round = thr[v].round
           => u = v)'
    BY <2>2, <2>5 DEF SlotsClaimed, Posting
  <2>8. (\A s \in Rounds, q \in Players :
           <<s, q>> \in inflight \/ scores[s][q] = "ok" => q \in submitted[s])'
    BY <1>2, <2>3 DEF SlotsClaimed
  <2>9. QED
    BY <2>6, <2>7, <2>8 DEF SlotsClaimed, Posting
<1>5. QED
  BY <1>3, <1>4

\* Who dispatches stops posting, and nobody else posts the same.
LEMMA DispatchKeepsSlots ==
  ASSUME TypeOK, Busy, SlotsClaimed, NEW t \in Threads, Dispatch(t)
  PROVE  SlotsClaimed'
<1> DEFINE r == thr[t].round  p == thr[t].who
<1>1. /\ thr \in [Threads -> Work] /\ r \in Rounds /\ p \in Players /\ thr[t].pc = "upload"
  BY Types DEF Dispatch, At, Busy
<1>2. /\ UNCHANGED <<submitted, scores>> /\ inflight' = inflight \cup {<<r, p>>}
  BY DEF Dispatch, redis
<1>3. /\ thr'[t].pc \notin Posting
      /\ \A u \in Threads : u # t => thr'[u] = thr[u]
  BY <1>1, ReturnFacts, GotoFacts DEF Dispatch, Posting, Labels
<1> HIDE DEF r, p
<1>4. p \in submitted[r]
  BY <1>1 DEF SlotsClaimed, r, p
<1>5. \A u \in Threads : u # t /\ thr[u].pc \in Posting => ~ (thr[u].who = p /\ thr[u].round = r)
  BY <1>1 DEF SlotsClaimed, Posting, r, p
<1>6. (\A u \in Threads : thr[u].pc \in Posting =>
         /\ thr[u].who \in submitted[thr[u].round]
         /\ <<thr[u].round, thr[u].who>> \notin inflight
         /\ scores[thr[u].round][thr[u].who] # "ok")'
  BY <1>2, <1>3, <1>5 DEF SlotsClaimed, Posting
<1>7. (\A u, v \in Threads :
         /\ {thr[u].pc, thr[v].pc} \subseteq Posting
         /\ thr[u].who = thr[v].who /\ thr[u].round = thr[v].round
         => u = v)'
  BY <1>3 DEF SlotsClaimed, Posting
<1>8. (\A s \in Rounds, q \in Players :
         <<s, q>> \in inflight \/ scores[s][q] = "ok" => q \in submitted[s])'
  BY <1>2, <1>4 DEF SlotsClaimed
<1>9. QED
  BY <1>6, <1>7, <1>8 DEF SlotsClaimed, Posting

\* A result is recorded for a classification that ran, so nobody posts the same.
LEMMA RecordScoreKeepsSlots ==
  ASSUME TypeOK, Busy, SlotsClaimed, NEW t \in Threads, NEW r \in Rounds, NEW p \in Players,
         NEW payload \in {"ok", "failed"}, RecordScore(t, r, p, payload)
  PROVE  SlotsClaimed'
<1>1. /\ thr \in [Threads -> Work] /\ scores \in [Rounds -> [Players -> {"none", "ok", "failed"}]]
  BY Types
<1>2. /\ UNCHANGED submitted /\ <<r, p>> \in inflight /\ inflight' \subseteq inflight
      /\ scores' = [scores EXCEPT ![r][p] = payload]
      /\ Fork(t, "check", NoPlayer, r)
  BY DEF RecordScore
<1>3. /\ thr'[t].pc \notin Posting
      /\ \A u \in Threads : u # t => thr'[u] = thr[u]
  BY <1>1, <1>2, ForkFacts DEF Posting, Labels
<1>4. \A s \in Rounds, q \in Players : scores'[s][q] = IF s = r /\ q = p THEN payload ELSE scores[s][q]
  BY <1>1, <1>2
<1>5. (\A u \in Threads : thr[u].pc \in Posting =>
         /\ thr[u].who \in submitted[thr[u].round]
         /\ <<thr[u].round, thr[u].who>> \notin inflight
         /\ scores[thr[u].round][thr[u].who] # "ok")'
  BY <1>2, <1>3, <1>4 DEF SlotsClaimed, Posting, Busy
<1>6. (\A u, v \in Threads :
         /\ {thr[u].pc, thr[v].pc} \subseteq Posting
         /\ thr[u].who = thr[v].who /\ thr[u].round = thr[v].round
         => u = v)'
  BY <1>3 DEF SlotsClaimed, Posting
<1>7. (\A s \in Rounds, q \in Players :
         <<s, q>> \in inflight \/ scores[s][q] = "ok" => q \in submitted[s])'
  BY <1>2, <1>4 DEF SlotsClaimed
<1>8. QED
  BY <1>5, <1>6, <1>7 DEF SlotsClaimed, Posting

\* Departures, returns and lost tasks do not touch the slots either.
LEMMA SlotsNext == TypeOK /\ Busy /\ SlotsClaimed /\ [Next]_vars => SlotsClaimed'
<1> SUFFICES ASSUME TypeOK, Busy, SlotsClaimed, [Next]_vars PROVE SlotsClaimed'
  OBVIOUS
<1>1. ASSUME NEW t \in Threads, Step(t) \/ RejectBody(t) \/ Crash(t) \/ Starts(t)
      PROVE  SlotsClaimed'
  BY <1>1, MostAreUnhurried, UnhurriedKeepsSlots, ClaimSlotKeepsSlots, DispatchKeepsSlots,
     RecordScoreKeepsSlots
<1>2. CASE Elsewhere
  <2>1. UNCHANGED <<thr, submitted, scores>> /\ inflight' \subseteq inflight
    BY <1>2 DEF Elsewhere, Expire, Rejoin, LoseTask, redis
  <2>2. QED
    BY <2>1 DEF SlotsClaimed
<1>3. CASE UNCHANGED vars
  BY <1>3 DEF vars, db, redis, SlotsClaimed
<1>4. QED
  BY <1>1, <1>2, <1>3, NextCases

\* However many requests of one participant race, one gets past the slot claim (CP-03).
THEOREM UploadsOnce == Spec => []OneUpload
<1>1. Init => SlotsClaimed
  BY DEF Init, SlotsClaimed, Idle
<1>2. Spec => [](IInv /\ SlotsClaimed)
  <2>1. IInv /\ SlotsClaimed /\ [Next]_vars => SlotsClaimed'
    BY SlotsNext DEF IInv
  <2>2. QED
    BY <1>1, <2>1, InvariantHolds, PTL DEF Spec
<1>3. IInv /\ SlotsClaimed => OneUpload
  <2> SUFFICES ASSUME IInv, SlotsClaimed, NEW p \in Players, NEW r \in Rounds
               PROVE  LET posting == {t \in Workers : /\ thr[t].pc \in {"insert", "upload"}
                                                      /\ thr[t].who = p /\ thr[t].round = r}
                      IN /\ Cardinality(posting) <= 1
                         /\ posting # {} => <<r, p>> \notin inflight /\ scores[r][p] # "ok"
    BY DEF OneUpload
  <2> DEFINE posting == {t \in Workers : /\ thr[t].pc \in {"insert", "upload"}
                                         /\ thr[t].who = p /\ thr[t].round = r}
  <2>1. \A t, u \in posting : t = u
    BY DEF SlotsClaimed, Threads
  <2>2. posting # {} => <<r, p>> \notin inflight /\ scores[r][p] # "ok"
    BY DEF SlotsClaimed, Threads
  <2> HIDE DEF posting
  <2>3. Cardinality(posting) <= 1
    <3>1. CASE posting = {}
      BY <3>1, FS_EmptySet
    <3>2. ASSUME NEW t \in posting PROVE Cardinality(posting) <= 1
      <4>1. posting = {t}
        BY <2>1, <3>2
      <4>2. Cardinality({t}) = 1
        BY FS_Singleton
      <4>3. QED
        BY <4>1, <4>2
    <3>3. QED
      BY <3>1, <3>2
  <2>4. QED
    BY <2>2, <2>3 DEF posting
<1>4. QED
  BY <1>2, <1>3, PTL
-----------------------------------------------------------------------------
(* The streak of voided rounds.                                              *)

Done   == {r \in Rounds : rs[r] \in Terminal}
Streak == {r \in Done : \A s \in Done : s >= r => rs[s] = "voided"}

\* Rounds are numbered, and there are finitely many of them.
LEMMA StreakIsFinite == Rounds \subseteq Int /\ IsFiniteSet(Streak)
<1>1. IsFiniteSet(Rounds)
  BY FS_Interval, ConstantsAssumption DEF Rounds
<1>2. Streak \in SUBSET Rounds
  BY DEF Streak, Done
<1>3. IsFiniteSet(Streak)
  BY <1>1, <1>2, FS_Subset
<1>4. QED
  BY <1>3, ConstantsAssumption DEF Rounds

\* The streak depends on which rounds are over and which of them are void, and on nothing else.
LEMMA StreakDepends ==
  ASSUME \A r \in Rounds : /\ rs'[r] \in Terminal <=> rs[r] \in Terminal
                           /\ rs'[r] = "voided" <=> rs[r] = "voided"
  PROVE  Streak' = Streak
  BY DEF Streak, Done

Counted == voids = Cardinality(Streak) /\ voids <= MaxVoided /\ Hopeful

\* Steps that move no round and do not count.
LEMMA StillCounted ==
  ASSUME Counted, UNCHANGED <<rs, voids>>, room' = "playing" => room = "playing"
  PROVE  Counted'
<1>1. Streak' = Streak
  BY StreakDepends
<1>2. QED
  BY <1>1 DEF Counted, Hopeful

\* The streak grows by the voided round, which is the last one that began, and ends at a
\* finalized one (finalize_round).
LEMMA CommitCounts ==
  ASSUME Base, Counted, NEW t \in Threads, CommitFinalize(t)
  PROVE  Counted'
<1> DEFINE r == thr[t].round
<1>1. /\ r \in Rounds /\ rs[r] = "scoring" /\ room = "playing" /\ UNCHANGED room
      /\ \A s \in Rounds : s # r => rs'[s] = rs[s]
  BY CommitEffect DEF Base
<1>2. \/ rs'[r] = "voided" /\ voids' = voids + 1
      \/ rs'[r] = "finalized" /\ voids' = 0
  BY <1>1, Types DEF Base, CommitFinalize, StreakAfterFinalized
<1>3. rs \in [Rounds -> {"none", "revealed", "scoring", "finalized", "voided", "closed"}] /\ voids \in Nat
  BY Types DEF Base
<1> HIDE DEF r
<1>4. /\ \A s \in Rounds : s > r => rs[s] = "none"
      /\ \A s \in Rounds : s < r => rs[s] \in {"closed", "voided"}
  BY <1>1 DEF Base, Safe, InOrder
<1>5. \A s \in Rounds : rs'[s] \notin {"revealed", "scoring"}
  BY <1>1, <1>2, <1>4, StreakIsFinite
<1>6. Hopeful'
  BY <1>5 DEF Hopeful
<1>7. CASE rs'[r] = "voided" /\ voids' = voids + 1
  <2>1. r \notin Done /\ Done' = Done \cup {r}
    BY <1>1, <1>7 DEF Done, Terminal
  <2>2. \A s \in Done : s < r /\ rs'[s] = rs[s]
    BY <1>1, <1>4, StreakIsFinite DEF Done, Terminal
  <2>3. Done \subseteq Int /\ r \in Int
    BY <1>1, StreakIsFinite DEF Done
  <2>4. Streak' = {x \in Done' : \A s \in Done' : s >= x => rs'[s] = "voided"}
    BY DEF Streak
  <2>5. \A x \in Done : (\A s \in Done' : s >= x => rs'[s] = "voided")
                      <=> (\A s \in Done : s >= x => rs[s] = "voided")
    BY <1>7, <2>1, <2>2
  <2>6. \A s \in Done' : s >= r => rs'[s] = "voided"
    BY <1>7, <2>1, <2>2, <2>3
  <2>7. Streak' = Streak \cup {r}
    BY <2>1, <2>4, <2>5, <2>6 DEF Streak
  <2>8. r \notin Streak
    BY <2>1 DEF Streak
  <2>9. Cardinality(Streak \cup {r}) = Cardinality(Streak) + 1
    BY <2>8, StreakIsFinite, FS_AddElement
  <2>10. voids < MaxVoided
    BY <1>1 DEF Counted, Hopeful
  <2>11. QED
    BY <1>3, <1>6, <1>7, <2>7, <2>9, <2>10, ConstantsAssumption DEF Counted
<1>8. CASE rs'[r] = "finalized" /\ voids' = 0
  <2>1. r \in Done' /\ rs'[r] # "voided"
    BY <1>1, <1>8 DEF Done, Terminal
  <2>2. \A s \in Rounds : rs'[s] \in Terminal => r >= s
    BY <1>1, <1>4, StreakIsFinite DEF Terminal
  <2>3. Streak' = {}
    BY <2>1, <2>2 DEF Streak, Done
  <2>4. Cardinality({}) = 0
    BY FS_EmptySet
  <2>5. QED
    BY <1>6, <1>8, <2>3, <2>4, ConstantsAssumption DEF Counted
<1>9. QED
  BY <1>2, <1>7, <1>8

\* Closing a round or going on to the next leaves the streak as it is, and no next round is
\* opened at the limit (abort_reason).
LEMMA AdvanceCounts ==
  ASSUME Base, Counted, NEW t \in Threads, Advance(t), CanAdvance(thr[t].round)
  PROVE  Counted'
<1> DEFINE r == thr[t].round
<1>1. /\ r \in Rounds /\ rs[r] \in {"finalized", "voided"}
      /\ rs'[r] = IF rs[r] = "finalized" THEN "closed" ELSE rs[r]
      /\ \A s \in Rounds : s > r => rs[s] = "none"
      /\ \A s \in Rounds : s # r => rs'[s] = rs[s] \/ (s = r + 1 /\ rs'[s] = "revealed")
  BY AdvanceEffect DEF Base
<1>2. UNCHANGED voids /\ (room' = "playing" => voids < MaxVoided)
  BY Types, ConstantsAssumption DEF Base, Advance, EndsGame, CanAdvance, Loads
<1> HIDE DEF r
<1>3. Streak' = Streak
  <2>1. \A s \in Rounds : /\ rs'[s] \in Terminal <=> rs[s] \in Terminal
                          /\ rs'[s] = "voided" <=> rs[s] = "voided"
    BY <1>1, StreakIsFinite DEF Terminal
  <2>2. QED
    BY <2>1, StreakDepends
<1>4. QED
  BY <1>2, <1>3 DEF Counted, Hopeful

\* The start of the game begins the count, and closing the submissions does not touch it.
LEMMA StartAndCloseCount ==
  ASSUME Base, Counted, NEW t \in Threads, StartGame(t) \/ CloseSubmissions(t)
  PROVE  Counted'
<1>1. CASE StartGame(t)
  <2>1. /\ \A r \in Rounds : rs[r] = "none"
        /\ rs' = [rs EXCEPT ![1] = "revealed"] /\ voids' = 0
    BY <1>1 DEF StartGame, Base, Safe, InOrder
  <2>2. \A r \in Rounds : rs'[r] \notin Terminal
    BY <2>1, Types DEF Base, Terminal
  <2>3. Streak' = {} /\ Cardinality({}) = 0
    BY <2>2, FS_EmptySet DEF Streak, Done
  <2>4. QED
    BY <2>1, <2>3, ConstantsAssumption DEF Counted, Hopeful
<1>2. CASE CloseSubmissions(t)
  <2> DEFINE r == thr[t].round
  <2>1. r \in Rounds /\ UNCHANGED <<room, voids>>
    BY <1>2 DEF CloseSubmissions, Base, Busy, At
  <2>2. UNCHANGED rs \/ (rs[r] = "revealed" /\ rs' = [rs EXCEPT ![r] = "scoring"])
    BY <1>2 DEF CloseSubmissions, CanClose
  <2> HIDE DEF r
  <2>3. \A s \in Rounds : /\ rs'[s] \in Terminal <=> rs[s] \in Terminal
                          /\ rs'[s] = "voided" <=> rs[s] = "voided"
                          /\ rs'[s] \in {"revealed", "scoring"} => rs[s] \in {"revealed", "scoring"}
    BY <2>1, <2>2, Types DEF Base, Terminal
  <2>4. Streak' = Streak
    BY <2>3, StreakDepends
  <2>5. QED
    BY <2>1, <2>3, <2>4 DEF Counted, Hopeful
<1>3. QED
  BY <1>1, <1>2

\* Every step keeps the count.
LEMMA CountedNext == Base /\ Counted /\ [Next]_vars => Counted'
<1> SUFFICES ASSUME Base, Counted, [Next]_vars PROVE Counted'
  OBVIOUS
<1>1. ASSUME NEW t \in Threads, Step(t) \/ RejectBody(t) \/ Crash(t) \/ Starts(t) PROVE Counted'
  <2>1. CASE StartGame(t) \/ CloseSubmissions(t)
    BY <2>1, StartAndCloseCount
  <2>2. CASE CommitFinalize(t)
    BY <2>2, CommitCounts
  <2>3. CASE Advance(t) /\ CanAdvance(thr[t].round)
    BY <2>3, AdvanceCounts
  <2>4. CASE ~ StartGame(t) /\ ~ CloseSubmissions(t) /\ ~ CommitFinalize(t)
             /\ ~ (Advance(t) /\ CanAdvance(thr[t].round))
    BY <1>1, <2>4, OtherSteps, StillCounted DEF Step
  <2>5. QED
    BY <2>1, <2>2, <2>3, <2>4
<1>2. CASE Elsewhere
  <2>1. UNCHANGED <<rs, voids>>
    BY <1>2, ElsewhereData DEF Base, TypeOK
  <2>2. room' = "playing" => room = "playing"
    BY <1>2 DEF Elsewhere, Expire, Rejoin, LoseTask, db
  <2>3. QED
    BY <2>1, <2>2, StillCounted
<1>3. CASE UNCHANGED vars
  BY <1>3, StillCounted DEF vars, db
<1>4. QED
  BY <1>1, <1>2, <1>3, NextCases

\* rooms.consecutive_voided counts the voided rounds since the last finalized one, and no game
\* goes on at the limit (finalize_round, abort_reason).
THEOREM StreakCounts == Spec => []VoidStreak
<1>1. Init => Counted
  <2> SUFFICES ASSUME Init PROVE Counted
    OBVIOUS
  <2>1. Streak = {} /\ Cardinality({}) = 0
    BY FS_EmptySet DEF Init, Streak, Done, Terminal
  <2>2. QED
    BY <2>1, ConstantsAssumption DEF Init, Counted, Hopeful
<1>2. IInv /\ Counted /\ [Next]_vars => Counted'
  BY CountedNext, InvariantIsBase
<1>3. Counted => VoidStreak
  BY DEF Counted, VoidStreak, Streak, Done
<1>4. QED
  BY <1>1, <1>2, <1>3, InvariantHolds, PTL DEF Spec
-----------------------------------------------------------------------------
(* Where handlers come from: what a thread did to be where it is.            *)

\* Thread t is still at work on the round it was at work on.
SameRound(t) == thr'[t].round = thr[t].round

Came(t) ==
  /\ thr'[t].pc = "arm" => StartGame(t) /\ thr'[t].round = 1
  /\ thr'[t].pc = "token" => t \in Workers /\ \E p \in Players : Submit(t, p, thr'[t].round)
  /\ thr'[t].pc \in {"slot", "insert"} => thr[t].pc \in {"token", "slot"} /\ SameRound(t)
  /\ thr'[t].pc = "upload" => thr[t].pc = "insert" /\ SameRound(t)
  /\ thr'[t].pc = "close" =>
       \/ thr[t].pc = "upload" /\ SameRound(t) /\ Dispatch(t) /\ FullHouse(thr[t].round)
       \/ Claim(t, "deadline", thr'[t].round)
  /\ thr'[t].pc = "pending" => SameRound(t) /\ rs'[thr[t].round] = "scoring"
  /\ thr'[t].pc = "guard" => Claim(t, "guard", thr'[t].round)
  /\ thr'[t].pc = "force" =>
       /\ thr[t].pc = "guard" /\ SameRound(t)
       /\ thr'[t].stranded = Unresolved(thr[t].round)
       /\ UNCHANGED <<submitted, scores>>
  /\ thr'[t].pc = "finalize" =>
       /\ SameRound(t)
       /\ \/ CheckResolved(t) /\ rs[thr[t].round] = "scoring" /\ ~ Pending(thr[t].round)
          \/ ReadPending(t) /\ ~ Pending(thr[t].round)
          \/ ForceFailed(t)
  /\ thr'[t].pc = "finRows" =>
       BeginFinalize(t) /\ SameRound(t) /\ view'.sub = submitted[thr[t].round]
  /\ thr'[t].pc = "finCommit" => ReadRows(t) /\ SameRound(t) /\ view'.sub = view.sub

\* The steps of uploads and scores.
LEMMA UploadCame ==
  ASSUME TypeOK, Busy, NEW t \in Threads,
         \/ ArmDeadline(t) \/ UseToken(t) \/ ClaimSlot(t) \/ InsertRow(t) \/ Dispatch(t)
         \/ CheckResolved(t) \/ RejectBody(t) \/ Crash(t)
  PROVE  Came(t)
<1>1. thr \in [Threads -> Work]
  BY Types
<1> USE DEF Came, At, Labels, SameRound
<1>2. CASE ArmDeadline(t) \/ RejectBody(t) \/ Crash(t)
  BY <1>1, <1>2, ReturnFacts DEF ArmDeadline, RejectBody, Crash
<1>3. CASE UseToken(t)
  BY <1>1, <1>3, ReturnFacts, GotoFacts DEF UseToken
<1>4. CASE ClaimSlot(t)
  BY <1>1, <1>4, ReturnFacts, GotoFacts DEF ClaimSlot
<1>5. CASE InsertRow(t)
  BY <1>1, <1>5, ReturnFacts, GotoFacts DEF InsertRow
<1>6. CASE Dispatch(t)
  <2>1. \/ thr'[t].pc = "idle"
        \/ thr'[t].pc = "close" /\ SameRound(t) /\ FullHouse(thr[t].round)
    BY <1>1, <1>6, ReturnFacts, GotoFacts DEF Dispatch
  <2>2. thr[t].pc = "upload"
    BY <1>6 DEF Dispatch
  <2>3. QED
    BY <1>6, <2>1, <2>2
<1>7. CASE CheckResolved(t)
  <2>1. \/ thr'[t].pc = "idle"
        \/ thr'[t].pc = "finalize" /\ SameRound(t) /\ rs[thr[t].round] = "scoring"
           /\ ~ Pending(thr[t].round)
    BY <1>1, <1>7, ReturnFacts, GotoFacts DEF CheckResolved
  <2>2. QED
    BY <1>7, <2>1
<1>8. QED
  BY <1>2, <1>3, <1>4, <1>5, <1>6, <1>7

\* The steps that close and settle.
LEMMA SettlingCame ==
  ASSUME TypeOK, Busy, NEW t \in Threads,
         \/ CloseSubmissions(t) \/ ReadPending(t) \/ ReadStranded(t) \/ ForceFailed(t)
         \/ BeginFinalize(t) \/ ReadRows(t) \/ CommitFinalize(t) \/ AbortFinalize(t)
         \/ ArmViewing(t) \/ SkipViewing(t) \/ Advance(t)
  PROVE  Came(t)
<1>1. /\ thr \in [Threads -> Work] /\ submitted \in [Rounds -> SUBSET Players]
      /\ rs \in [Rounds -> {"none", "revealed", "scoring", "finalized", "voided", "closed"}]
  BY Types
<1> USE DEF Came, At, Labels, SameRound
<1>2. CASE CloseSubmissions(t)
  <2>1. thr[t].round \in Rounds
    BY <1>2 DEF CloseSubmissions, Busy
  <2>2. \/ thr'[t].pc = "idle"
        \/ thr'[t].pc = "pending" /\ SameRound(t) /\ rs' = [rs EXCEPT ![thr[t].round] = "scoring"]
    BY <1>1, <1>2, ReturnFacts, GotoFacts DEF CloseSubmissions
  <2>3. QED
    BY <1>1, <2>1, <2>2
<1>3. CASE ReadPending(t)
  <2>1. \/ thr'[t].pc = "idle"
        \/ thr'[t].pc = "finalize" /\ SameRound(t) /\ ~ Pending(thr[t].round)
    BY <1>1, <1>3, ReturnFacts, GotoFacts DEF ReadPending
  <2>2. QED
    BY <1>3, <2>1
<1>4. CASE ReadStranded(t)
  <2> DEFINE stranded == Unresolved(thr[t].round)
             w == [thr[t] EXCEPT !.pc = "force", !.stranded = stranded]
  <2>1. thr[t].pc = "guard" /\ UNCHANGED <<submitted, scores>> /\ stranded \in SUBSET Players
    BY <1>1, <1>4 DEF ReadStranded, Unresolved, redis, Busy
  <2>2. thr' = [thr EXCEPT ![t] = w]
    BY <1>4 DEF ReadStranded
  <2> HIDE DEF stranded
  <2>3. w.pc = "force" /\ w.round = thr[t].round /\ w.stranded = stranded
    BY <1>1, <2>1 DEF Work
  <2> HIDE DEF w
  <2>4. thr'[t].pc = "force" /\ SameRound(t) /\ thr'[t].stranded = stranded
    BY <1>1, <2>2, <2>3
  <2>5. QED
    BY <2>1, <2>4 DEF stranded
<1>5. CASE ForceFailed(t)
  <2>1. {} \in SUBSET Players
    OBVIOUS
  <2>2. thr'[t].pc = "finalize" /\ SameRound(t)
    BY <1>1, <1>5, <2>1, StrandFacts DEF ForceFailed
  <2>3. QED
    BY <1>5, <2>2
<1>6. CASE BeginFinalize(t)
  <2>1. \/ thr'[t].pc = "idle"
        \/ /\ thr'[t].pc = "finRows" /\ SameRound(t)
           /\ view' = [NoView EXCEPT !.sub = submitted[thr[t].round],
                                     !.ok = submitted[thr[t].round] \cap Resolved(thr[t].round)]
    BY <1>1, <1>6, ReturnFacts, GotoFacts DEF BeginFinalize
  <2>2. QED
    BY <1>6, <2>1 DEF NoView
<1>7. CASE ReadRows(t)
  <2>1. thr'[t].pc = "finCommit" /\ SameRound(t)
    BY <1>1, <1>7, GotoFacts DEF ReadRows
  <2>2. view'.sub = view.sub
    BY <1>7 DEF ReadRows, TypeOK, DataOK, View
  <2>3. QED
    BY <1>7, <2>1, <2>2
<1>8. CASE CommitFinalize(t) \/ AbortFinalize(t)
  BY <1>1, <1>8, ReturnFacts, GotoFacts DEF CommitFinalize, AbortFinalize
<1>9. CASE ArmViewing(t) \/ SkipViewing(t) \/ Advance(t)
  BY <1>1, <1>9, ReturnFacts, GotoFacts DEF ArmViewing, SkipViewing, Advance
<1>10. QED
  BY <1>2, <1>3, <1>4, <1>5, <1>6, <1>7, <1>8, <1>9

\* The starts of handlers by workers.
LEMMA StartCame ==
  ASSUME TypeOK, NEW t \in Threads, t \in Workers,
         \/ StartGame(t)
         \/ \E r \in Rounds : Skip(t, r) \/ \E p \in Players : Submit(t, p, r)
         \/ \E r \in Rounds, p \in Players, payload \in {"ok", "failed"} : RecordScore(t, r, p, payload)
  PROVE  Came(t)
<1>1. thr \in [Threads -> Work]
  BY Types
<1> USE DEF Came, Labels
<1>2. CASE StartGame(t)
  <2>1. 1 \in Rounds
    BY ConstantsAssumption DEF Rounds
  <2>2. Fork(t, "arm", NoPlayer, 1)
    BY <1>2 DEF StartGame
  <2>3. thr'[t].pc = "arm" /\ thr'[t].round = 1
    BY <1>1, <2>1, <2>2, ForkFacts
  <2>4. QED
    BY <1>2, <2>3
<1>3. ASSUME NEW r \in Rounds, NEW p \in Players, Submit(t, p, r) PROVE Came(t)
  <2>1. Fork(t, "token", p, r)
    BY <1>3 DEF Submit
  <2>2. thr'[t].pc = "token" /\ thr'[t].round = r
    BY <1>1, <2>1, ForkFacts
  <2>3. QED
    BY <1>3, <2>2
<1>4. ASSUME NEW r \in Rounds, Skip(t, r) PROVE Came(t)
  <2>1. thr'[t].pc = "advance"
    BY <1>1, <1>4, ForkFacts DEF Skip
  <2>2. QED
    BY <2>1
<1>5. ASSUME NEW r \in Rounds, NEW p \in Players, NEW payload \in {"ok", "failed"},
             RecordScore(t, r, p, payload)
      PROVE  Came(t)
  <2>1. thr'[t].pc = "check"
    BY <1>1, <1>5, ForkFacts DEF RecordScore
  <2>2. QED
    BY <2>1
<1>6. QED
  BY <1>2, <1>3, <1>4, <1>5

\* ... and by the scheduler's loops.
LEMMA ClaimCame ==
  ASSUME TypeOK, NEW t \in Threads, NEW kind \in {"deadline", "guard", "viewing"}, NEW r \in Rounds,
         Claim(t, kind, r)
  PROVE  Came(t)
<1>1. thr \in [Threads -> Work]
  BY Types
<1> USE DEF Came, Labels
<1>2. CASE kind = "deadline"
  <2>1. thr'[t].pc = "close" /\ thr'[t].round = r
    BY <1>1, <1>2, ForkFacts DEF Claim
  <2>2. QED
    BY <1>2, <2>1
<1>3. CASE kind = "guard"
  <2>1. thr'[t].pc = "guard" /\ thr'[t].round = r
    BY <1>1, <1>3, ForkFacts DEF Claim
  <2>2. QED
    BY <1>3, <2>1
<1>4. CASE kind = "viewing"
  <2>1. thr'[t].pc = "advance"
    BY <1>1, <1>4, ForkFacts DEF Claim
  <2>2. QED
    BY <2>1
<1>5. QED
  BY <1>2, <1>3, <1>4

\* Every step is one of a handler, who came from where it was, or happens elsewhere.
Handling(t) == /\ Step(t) \/ RejectBody(t) \/ Crash(t) \/ Starts(t)
               /\ Came(t) /\ Moved(t)

LEMMA NextHandling ==
  ASSUME TypeOK, Busy, Next
  PROVE  Elsewhere \/ \E t \in Threads : Handling(t)
<1>1. thr \in [Threads -> Work] /\ submitted \in [Rounds -> SUBSET Players]
  BY Types
<1>2. ASSUME NEW t \in Threads, Step(t) \/ RejectBody(t) \/ Crash(t)
      PROVE  Handling(t)
  BY <1>1, <1>2, UploadCame, SettlingCame, StepMoves DEF Step, Handling
<1>3. ASSUME NEW t \in Workers,
             \/ StartGame(t)
             \/ \E r \in Rounds : Skip(t, r) \/ \E p \in Players : Submit(t, p, r)
             \/ \E r \in Rounds, p \in Players, payload \in {"ok", "failed"} : RecordScore(t, r, p, payload)
      PROVE  t \in Threads /\ Handling(t)
  <2>1. t \in Threads /\ Starts(t)
    BY <1>3 DEF Threads, Starts
  <2>2. QED
    BY <1>1, <1>3, <2>1, StartCame, StartMoves DEF Handling
<1>4. ASSUME NEW t \in Pods, NEW kind \in {"deadline", "guard", "viewing"}, NEW r \in Rounds, Claim(t, kind, r)
      PROVE  t \in Threads /\ Handling(t)
  <2>1. t \in Threads /\ Starts(t)
    BY <1>4 DEF Threads, Starts
  <2>2. QED
    BY <1>1, <1>4, <2>1, ClaimCame, StartMoves DEF Handling
<1>5. QED
  BY <1>2, <1>3, <1>4 DEF Next, Elsewhere, Score, Fire

\* Rounds go forward only: they begin, are closed once, and are settled once.
LEMMA RoundsGoForward ==
  ASSUME Base, Next, NEW r \in Rounds
  PROVE  /\ rs[r] # "none" => rs'[r] # "none"
         /\ rs[r] \notin {"none", "revealed"} => rs'[r] \notin {"none", "revealed"}
         /\ rs[r] = "revealed" /\ rs'[r] # "revealed"
            => \E t \in Threads : CloseSubmissions(t) /\ CanClose(r) /\ thr[t].round = r
<1>1. /\ rs \in [Rounds -> {"none", "revealed", "scoring", "finalized", "voided", "closed"}]
      /\ TypeOK /\ Busy /\ Safe
  BY Types DEF Base
<1>2. ASSUME NEW t \in Threads, CommitFinalize(t)
      PROVE  \/ rs'[r] = rs[r]
             \/ rs[r] = "scoring" /\ rs'[r] \in {"finalized", "voided"}
  BY <1>1, <1>2, CommitEffect
<1>3. ASSUME NEW t \in Threads, Advance(t), CanAdvance(thr[t].round)
      PROVE  \/ rs'[r] = rs[r]
             \/ rs[r] = "finalized" /\ rs'[r] = "closed"
             \/ rs[r] = "none"
  <2> DEFINE s == thr[t].round
  <2>1. /\ s \in Rounds
        /\ rs'[s] = IF rs[s] = "finalized" THEN "closed" ELSE rs[s]
        /\ \A q \in Rounds : q > s => rs[q] = "none"
        /\ \A q \in Rounds : q # s => rs'[q] = rs[q] \/ (q = s + 1 /\ rs'[q] = "revealed")
    BY <1>1, <1>3, AdvanceEffect
  <2> HIDE DEF s
  <2>2. r \in Int /\ s \in Int
    BY <2>1, ConstantsAssumption DEF Rounds
  <2>3. QED
    BY <2>1, <2>2
<1>4. ASSUME NEW t \in Threads, StartGame(t) PROVE rs[r] = "none"
  BY <1>1, <1>4 DEF StartGame, Safe, InOrder
<1>5. ASSUME NEW t \in Threads, CloseSubmissions(t), CanClose(thr[t].round)
      PROVE  \/ rs'[r] = rs[r]
             \/ r = thr[t].round /\ rs'[r] = "scoring" /\ rs[r] = "revealed"
  BY <1>1, <1>5 DEF CloseSubmissions, CanClose
<1>6. ASSUME NEW t \in Threads, Step(t) \/ RejectBody(t) \/ Crash(t) \/ Starts(t),
             ~ CommitFinalize(t), ~ (Advance(t) /\ CanAdvance(thr[t].round)), ~ StartGame(t),
             ~ (CloseSubmissions(t) /\ CanClose(thr[t].round))
      PROVE  rs' = rs
  BY <1>6, OtherSteps DEF Step
<1>7. CASE Elsewhere
  BY <1>1, <1>7, ElsewhereData DEF TypeOK
<1>8. QED
  BY <1>2, <1>3, <1>4, <1>5, <1>6, <1>7, NextCases
-----------------------------------------------------------------------------
(* What the steps do to slots, results and timers.                           *)

\* Submissions are added by slot claims only, results stay, and timers are scheduled by those
\* who opened a round or closed it.
LEMMA Effects ==
  ASSUME Base, NEW t \in Threads, Step(t) \/ RejectBody(t) \/ Crash(t) \/ Starts(t), NEW r \in Rounds
  PROVE  /\ submitted[r] \subseteq submitted'[r]
         /\ submitted'[r] # submitted[r] => ClaimSlot(t) /\ thr[t].round = r
         /\ Scored(r) \subseteq Scored(r)'
         /\ <<"deadline", r>> \in timers' =>
              \/ <<"deadline", r>> \in timers
              \/ ArmDeadline(t) /\ thr[t].round = r
              \/ Advance(t) /\ rs[r] = "none" /\ rs'[r] # "none"
         /\ <<"guard", r>> \in timers' =>
              \/ <<"guard", r>> \in timers
              \/ ReadPending(t) /\ thr[t].round = r
         /\ member' = member \/ StartGame(t)
<1> DEFINE Goal == /\ submitted[r] \subseteq submitted'[r]
                   /\ submitted'[r] # submitted[r] => ClaimSlot(t) /\ thr[t].round = r
                   /\ Scored(r) \subseteq Scored(r)'
                   /\ <<"deadline", r>> \in timers' =>
                        \/ <<"deadline", r>> \in timers
                        \/ ArmDeadline(t) /\ thr[t].round = r
                        \/ Advance(t) /\ rs[r] = "none" /\ rs'[r] # "none"
                   /\ <<"guard", r>> \in timers' =>
                        \/ <<"guard", r>> \in timers
                        \/ ReadPending(t) /\ thr[t].round = r
                   /\ member' = member \/ StartGame(t)
<1>1. /\ submitted \in [Rounds -> SUBSET Players]
      /\ scores \in [Rounds -> [Players -> {"none", "ok", "failed"}]]
      /\ rs \in [Rounds -> {"none", "revealed", "scoring", "finalized", "voided", "closed"}]
      /\ thr \in [Threads -> Work] /\ TypeOK /\ Busy /\ Safe
  BY Types DEF Base
<1>2. CASE ArmDeadline(t) \/ UseToken(t) \/ InsertRow(t) \/ Dispatch(t) \/ CheckResolved(t)
  BY <1>2 DEF ArmDeadline, UseToken, InsertRow, Dispatch, CheckResolved, Scored, db, redis
<1>3. CASE ClaimSlot(t)
  <2> DEFINE s == thr[t].round  p == thr[t].who
  <2>1. /\ s \in Rounds /\ UNCHANGED <<scores, timers, member>>
        /\ UNCHANGED submitted \/ submitted' = [submitted EXCEPT ![s] = @ \cup {p}]
    BY <1>1, <1>3 DEF ClaimSlot, db, At, Busy
  <2> HIDE DEF s, p
  <2>2. submitted[r] \subseteq submitted'[r] /\ (submitted'[r] # submitted[r] => s = r)
    BY <1>1, <2>1
  <2>3. QED
    BY <1>3, <2>1, <2>2 DEF Scored, s
<1>4. CASE CloseSubmissions(t) \/ ReadStranded(t) \/ BeginFinalize(t) \/ ReadRows(t)
  BY <1>4 DEF CloseSubmissions, ReadStranded, BeginFinalize, ReadRows, Scored, db, redis
<1>5. CASE ReadPending(t)
  BY <1>5 DEF ReadPending, AfterPending, Scored, db
<1>6. CASE ForceFailed(t)
  <2>1. UNCHANGED <<submitted, timers, member>>
    BY <1>6 DEF ForceFailed, db
  <2>2. Scored(r) \subseteq Scored(r)'
    BY <1>1, <1>6 DEF ForceFailed, Scored
  <2>3. QED
    BY <2>1, <2>2
<1>7. CASE CommitFinalize(t) \/ AbortFinalize(t) \/ RejectBody(t) \/ Crash(t)
  BY <1>7 DEF CommitFinalize, AbortFinalize, RejectBody, Crash, Scored, db, redis
<1>8. CASE ArmViewing(t) \/ SkipViewing(t)
  BY <1>8 DEF ArmViewing, ViewingTimers, SkipViewing, Scored, db
<1>9. CASE Advance(t)
  <2> DEFINE s == thr[t].round
  <2>1. UNCHANGED <<submitted, scores, member>> /\ s \in Rounds /\ s \in Int
    BY <1>1, <1>9, ConstantsAssumption DEF Advance, At, Busy, Rounds
  <2>2. CASE ~ CanAdvance(s)
    BY <1>9, <2>1, <2>2 DEF Advance, Scored
  <2>3. CASE CanAdvance(s)
    <3>1. \/ timers' \subseteq timers
          \/ /\ timers' = (timers \ {<<"viewing", s>>}) \cup {<<"deadline", s + 1>>}
             /\ \E f \in [Rounds -> {"none", "revealed", "scoring", "finalized", "voided", "closed"}] :
                  rs' = [f EXCEPT ![s + 1] = "revealed"]
      BY <1>1, <1>9, <2>1, <2>3 DEF Advance
    <3>2. \A q \in Rounds : q > s => rs[q] = "none"
      BY <1>1, <1>9, <2>3, AdvanceEffect
    <3> HIDE DEF s
    <3>3. <<"deadline", r>> \in timers' => <<"deadline", r>> \in timers \/ (rs[r] = "none" /\ rs'[r] # "none")
      BY <2>1, <3>1, <3>2
    <3>4. <<"guard", r>> \in timers' => <<"guard", r>> \in timers
      BY <3>1
    <3>5. QED
      BY <1>9, <2>1, <3>3, <3>4 DEF Scored
  <2>4. QED
    BY <2>2, <2>3
<1>10. CASE Starts(t)
  <2>1. CASE StartGame(t)
    BY <2>1 DEF StartGame, Scored
  <2>2. ASSUME NEW q \in Rounds, Skip(t, q) \/ \E p \in Players : Submit(t, p, q)
        PROVE  Goal
    BY <2>2 DEF Skip, Submit, Scored, db, redis
  <2>3. ASSUME NEW q \in Rounds, NEW p \in Players, NEW payload \in {"ok", "failed"},
               RecordScore(t, q, p, payload)
        PROVE  Goal
    <3>1. UNCHANGED <<submitted, timers, member>> /\ scores' = [scores EXCEPT ![q][p] = payload]
      BY <2>3 DEF RecordScore, db
    <3>2. Scored(r) \subseteq Scored(r)'
      BY <1>1, <3>1 DEF Scored
    <3>3. QED
      BY <3>1, <3>2
  <2>4. ASSUME NEW kind \in {"deadline", "guard", "viewing"}, NEW q \in Rounds, Claim(t, kind, q)
        PROVE  Goal
    BY <2>4 DEF Claim, Scored, db
  <2>5. QED
    BY <1>10, <2>1, <2>2, <2>3, <2>4 DEF Starts
<1>11. QED
  BY <1>2, <1>3, <1>4, <1>5, <1>6, <1>7, <1>8, <1>9, <1>10 DEF Step

\* What happens elsewhere does not touch them, and in a running game nobody becomes active.
LEMMA ElsewhereEffects ==
  ASSUME Base, Elsewhere
  PROVE  /\ UNCHANGED <<thr, rs, submitted, scores, timers, view>>
         /\ room # "waiting" => Active' \subseteq Active
<1>1. member \in [Players -> {"active", "waiting", "left"}]
  BY DEF Base, TypeOK, DataOK
<1>2. ASSUME NEW p \in Players, Expire(p) \/ Rejoin(p) \/ \E r \in Rounds : LoseTask(r, p)
      PROVE  /\ UNCHANGED <<thr, rs, submitted, scores, timers, view>>
             /\ room # "waiting" => Active' \subseteq Active
  BY <1>1, <1>2 DEF Expire, Rejoin, LoseTask, db, redis, Active
<1>3. QED
  BY <1>2 DEF Elsewhere
-----------------------------------------------------------------------------
(* The closing of a round before its deadline.                               *)

\* Comparing finite sets of players: the smaller has no more members, and who has as many and
\* is part of the other is the other; what two sets have in common does not count.
LEMMA Counting ==
  ASSUME NEW S \in SUBSET Players, NEW T \in SUBSET Players
  PROVE  /\ Cardinality(S) \in Nat
         /\ S \subseteq T => Cardinality(S) <= Cardinality(T)
         /\ T \subseteq S /\ Cardinality(S) <= Cardinality(T) => S = T
         /\ Cardinality(S) <= Cardinality(T) => Cardinality(S \ T) <= Cardinality(T \ S)
<1>1. IsFiniteSet(S) /\ IsFiniteSet(T)
  BY ConstantsAssumption, FS_Subset
<1>2. Cardinality(S) \in Nat /\ Cardinality(T) \in Nat
  BY <1>1, FS_CardinalityType
<1>3. S \subseteq T => Cardinality(S) <= Cardinality(T)
  BY <1>1, FS_Subset
<1>4. T \subseteq S => Cardinality(T) <= Cardinality(S) /\ (Cardinality(S) = Cardinality(T) => S = T)
  BY <1>1, FS_Subset
<1>5. /\ Cardinality(S \ T) = Cardinality(S) - Cardinality(S \cap T)
      /\ Cardinality(T \ S) = Cardinality(T) - Cardinality(S \cap T)
      /\ Cardinality(S \cap T) \in Nat
  <2>1. IsFiniteSet(S \cap T) /\ T \cap S = S \cap T
    BY <1>1, FS_Intersection
  <2>2. QED
    BY <1>1, <2>1, FS_Difference, FS_CardinalityType
<1>6. Cardinality(S) <= Cardinality(T) => Cardinality(S \ T) <= Cardinality(T \ S)
  BY <1>2, <1>5
<1>7. QED
  BY <1>2, <1>3, <1>4, <1>6

\* A count that was full stays full while the game runs: slots are only added, and active
\* participants only leave.
LEMMA FullStaysFull ==
  ASSUME Base, NEW r \in Rounds, Cardinality(Active) <= Cardinality(submitted[r]),
         Active' \subseteq Active, submitted[r] \subseteq submitted'[r], submitted'[r] \subseteq Players
  PROVE  Cardinality(Active') <= Cardinality(submitted'[r])
<1>1. Active \in SUBSET Players /\ Active' \in SUBSET Players /\ submitted[r] \in SUBSET Players
  BY Types DEF Base, Active
<1>2. Cardinality(Active') <= Cardinality(Active)
  BY <1>1, Counting
<1>3. Cardinality(submitted[r]) <= Cardinality(submitted'[r])
  BY <1>1, Counting
<1>4. /\ Cardinality(Active) \in Nat /\ Cardinality(Active') \in Nat
      /\ Cardinality(submitted[r]) \in Nat /\ Cardinality(submitted'[r]) \in Nat
  BY <1>1, Counting
<1>5. QED
  BY <1>2, <1>3, <1>4

\* Handlers keep the count.
LEMMA HandlingKeepsClosing ==
  ASSUME Base, Next, Base', ClosingCounted, NEW t \in Threads, Handling(t)
  PROVE  ClosingCounted'
<1> DEFINE Begun == {"arm", "token", "slot", "insert", "upload", "close"}
<1>1. /\ thr \in [Threads -> Work] /\ submitted' \in [Rounds -> SUBSET Players]
      /\ \A u \in Threads : u # t => thr'[u] = thr[u]
      /\ \A u \in Threads : thr[u].pc # "idle" => thr[u].round \in Rounds
      /\ \A u \in Threads : thr'[u].pc # "idle" => thr'[u].round \in Rounds
  <2>1. thr \in [Threads -> Work] /\ submitted' \in [Rounds -> SUBSET Players]
    BY DEF Base, TypeOK, DataOK
  <2>2. \A u \in Threads : u # t => thr'[u] = thr[u]
    BY DEF Handling, Moved
  <2>3. \A u \in Threads : thr[u].pc # "idle" => thr[u].round \in Rounds
    BY DEF Base, Busy
  <2>4. \A u \in Threads : thr'[u].pc # "idle" => thr'[u].round \in Rounds
    BY DEF Base, Busy
  <2>5. QED
    BY <2>1, <2>2, <2>3, <2>4
<1>2. Step(t) \/ RejectBody(t) \/ Crash(t) \/ Starts(t)
  BY DEF Handling
<1>3. \A q \in Rounds : rs[q] # "none" => rs'[q] # "none"
  BY RoundsGoForward
<1>4. \A u \in Threads : thr[u].pc \in Begun => rs[thr[u].round] # "none" /\ room # "waiting"
  BY <1>1 DEF ClosingCounted, Base, Safe, InOrder
<1>5. ASSUME StartGame(t)
      PROVE  /\ \A u \in Threads : thr[u].pc \notin Begun
             /\ \A r \in Rounds : <<"deadline", r>> \notin timers'
             /\ rs'[1] = "revealed"
  <2>1. room = "waiting" /\ UNCHANGED timers /\ rs' = [rs EXCEPT ![1] = "revealed"]
    BY <1>5 DEF StartGame
  <2>2. \A r \in Rounds : <<"deadline", r>> \notin timers
    BY <2>1 DEF ClosingCounted, Base, Safe, InOrder
  <2>3. rs'[1] = "revealed"
    BY <2>1, Types, ConstantsAssumption DEF Base, Rounds
  <2>4. QED
    BY <1>4, <2>1, <2>2, <2>3
<1>6. (\A r \in Rounds : <<"deadline", r>> \in timers => rs[r] # "none")'
  <2> SUFFICES ASSUME NEW r \in Rounds, <<"deadline", r>> \in timers' PROVE rs'[r] # "none"
    OBVIOUS
  <2>1. CASE <<"deadline", r>> \in timers
    <3>1. rs[r] # "none"
      BY <2>1 DEF ClosingCounted
    <3>2. QED
      BY <1>3, <3>1
  <2>2. CASE ArmDeadline(t) /\ thr[t].round = r
    BY <1>3, <1>4, <2>2 DEF ArmDeadline, At
  <2>3. QED
    BY <1>2, <2>1, <2>2, Effects
<1>7. (\A u \in Threads : thr[u].pc \in Begun => rs[thr[u].round] # "none")'
  <2> SUFFICES ASSUME NEW u \in Threads, thr'[u].pc \in Begun PROVE rs'[thr'[u].round] # "none"
    OBVIOUS
  <2>1. thr'[u].round \in Rounds
    BY <1>1
  <2>2. CASE thr[u].pc \in Begun /\ thr'[u].round = thr[u].round
    BY <1>3, <1>4, <2>1, <2>2
  <2>3. CASE u = t /\ StartGame(t) /\ thr'[t].round = 1
    BY <1>5, <2>3
  <2>4. ASSUME u = t, NEW p \in Players, Submit(t, p, thr'[t].round) PROVE rs'[thr'[u].round] # "none"
    BY <1>3, <2>1, <2>4 DEF Submit
  <2>5. CASE u = t /\ Claim(t, "deadline", thr'[t].round)
    BY <1>3, <2>1, <2>5 DEF Claim, ClosingCounted
  <2>6. QED
    BY <1>1, <2>2, <2>3, <2>4, <2>5 DEF Handling, Came, SameRound
<1>8. (\A u, v \in Threads : thr[u].pc = "arm" /\ thr[v].pc = "arm" => u = v)'
  BY <1>1, <1>5 DEF ClosingCounted, Handling, Came
<1>9. (\A u \in Threads : thr[u].pc = "arm" => <<"deadline", thr[u].round>> \notin timers)'
  <2> SUFFICES ASSUME NEW u \in Threads, thr'[u].pc = "arm"
               PROVE  <<"deadline", thr'[u].round>> \notin timers'
    OBVIOUS
  <2>1. thr'[u].round \in Rounds
    BY <1>1
  <2>2. CASE u = t
    BY <1>5, <2>1, <2>2 DEF Handling, Came
  <2>3. CASE u # t
    <3>1. thr'[u] = thr[u] /\ thr[u].pc = "arm"
      BY <1>1, <2>3
    <3>2. <<"deadline", thr[u].round>> \notin timers /\ rs[thr[u].round] # "none"
      BY <1>4, <3>1 DEF ClosingCounted
    <3>3. ~ ArmDeadline(t)
      BY <2>3, <3>1 DEF ArmDeadline, At, ClosingCounted
    <3>4. QED
      BY <1>2, <2>1, <3>1, <3>2, <3>3, Effects
  <2>4. QED
    BY <2>2, <2>3
<1>10. (\A u \in Threads : thr[u].pc = "close" /\ rs[thr[u].round] = "revealed" =>
          \/ /\ <<"deadline", thr[u].round>> \notin timers
             /\ \A v \in Threads : thr[v].pc = "arm" => thr[v].round # thr[u].round
          \/ Cardinality(Active) <= Cardinality(submitted[thr[u].round]))'
  <2> SUFFICES ASSUME NEW u \in Threads, thr'[u].pc = "close", rs'[thr'[u].round] = "revealed"
               PROVE  \/ /\ <<"deadline", thr'[u].round>> \notin timers'
                         /\ \A v \in Threads : thr'[v].pc = "arm" => thr'[v].round # thr'[u].round
                      \/ Cardinality(Active') <= Cardinality(submitted'[thr'[u].round])
    OBVIOUS
  <2> DEFINE r == thr'[u].round
  <2>1. r \in Rounds
    BY <1>1
  <2> HIDE DEF r
  <2>2. room # "waiting" => Active' = Active
    <3>1. member' = member \/ StartGame(t)
      BY <1>2, <2>1, Effects
    <3>2. QED
      BY <3>1 DEF Active, StartGame
  <2>3. CASE u # t
    <3>1. thr[u].pc = "close" /\ thr[u].round = r /\ rs[r] = "revealed" /\ room # "waiting"
      <4>1. thr[u].pc = "close" /\ thr[u].round = r
        BY <1>1, <2>3 DEF r
      <4>2. rs[r] # "none" /\ room # "waiting"
        BY <1>4, <4>1
      <4>3. rs'[r] = "revealed"
        BY DEF r
      <4>4. QED
        BY <2>1, <4>1, <4>2, <4>3, RoundsGoForward
    <3>2. CASE /\ <<"deadline", r>> \notin timers
               /\ \A v \in Threads : thr[v].pc = "arm" => thr[v].round # r
      <4>1. ~ StartGame(t) /\ ~ (ArmDeadline(t) /\ thr[t].round = r)
        BY <3>1, <3>2 DEF StartGame, ArmDeadline, At
      <4>2. <<"deadline", r>> \notin timers'
        BY <1>2, <2>1, <3>1, <3>2, <4>1, Effects
      <4>3. \A v \in Threads : thr'[v].pc = "arm" => thr'[v].round # r
        BY <1>1, <3>2, <4>1 DEF Handling, Came
      <4>4. QED
        BY <4>2, <4>3 DEF r
    <3>3. CASE Cardinality(Active) <= Cardinality(submitted[r])
      <4>1. submitted[r] \subseteq submitted'[r] /\ submitted'[r] \subseteq Players
        BY <1>1, <1>2, <2>1, Effects
      <4>2. Active' \subseteq Active
        BY <2>2, <3>1
      <4>3. QED
        BY <2>1, <3>3, <4>1, <4>2, FullStaysFull DEF r
    <3>4. QED
      BY <3>1, <3>2, <3>3 DEF ClosingCounted
  <2>4. CASE u = t /\ thr[t].pc = "upload" /\ thr[t].round = r /\ Dispatch(t) /\ FullHouse(r)
    <3>1. UNCHANGED <<submitted, member>>
      BY <2>4 DEF Dispatch, db, redis
    <3>2. Cardinality(submitted[r]) >= Cardinality(Active)
      BY <2>4 DEF FullHouse
    <3>3. Active' = Active /\ Cardinality(submitted[r]) \in Nat /\ Cardinality(Active) \in Nat
      BY <2>1, <3>1, Counting, Types DEF Active, Base
    <3>4. QED
      BY <3>1, <3>2, <3>3 DEF r
  <2>5. CASE u = t /\ Claim(t, "deadline", r)
    <3>1. <<"deadline", r>> \in timers /\ timers' = timers \ {<<"deadline", r>>} /\ ~ StartGame(t)
      BY <2>5 DEF Claim, StartGame, ClosingCounted, Base, Safe, InOrder, db
    <3>2. \A v \in Threads : thr[v].pc = "arm" => thr[v].round # r
      BY <3>1 DEF ClosingCounted
    <3>3. \A v \in Threads : thr'[v].pc = "arm" => thr'[v].round # r
      BY <1>1, <2>5, <3>2 DEF Handling, Came
    <3>4. QED
      BY <3>1, <3>3 DEF r
  <2>6. QED
    BY <2>3, <2>4, <2>5 DEF Handling, Came, SameRound, r
<1>11. QED
  BY <1>6, <1>7, <1>8, <1>9, <1>10 DEF ClosingCounted

\* So do departures and returns, and a stuttering step.
LEMMA ClosingNext ==
  ASSUME Base, [Next]_vars, Base', ClosingCounted
  PROVE  ClosingCounted'
<1>1. CASE Next /\ Elsewhere
  <2>1. UNCHANGED <<thr, rs, submitted, timers>> /\ (room # "waiting" => Active' \subseteq Active)
    BY <1>1, ElsewhereEffects
  <2>2. ASSUME NEW t \in Threads, thr[t].pc = "close",
               Cardinality(Active) <= Cardinality(submitted[thr[t].round])
        PROVE  Cardinality(Active') <= Cardinality(submitted'[thr[t].round])
    <3>1. thr[t].round \in Rounds /\ rs[thr[t].round] # "none"
      BY <2>2 DEF Base, Busy, ClosingCounted
    <3>2. room # "waiting"
      BY <3>1 DEF Base, Safe, InOrder
    <3>3. submitted'[thr[t].round] = submitted[thr[t].round] /\ submitted[thr[t].round] \subseteq Players
      BY <2>1, <3>1, Types DEF Base
    <3>4. QED
      BY <2>1, <2>2, <3>1, <3>2, <3>3, FullStaysFull
  <2>3. QED
    BY <2>1, <2>2 DEF ClosingCounted
<1>2. ASSUME Next, NEW t \in Threads, Handling(t) PROVE ClosingCounted'
  BY <1>2, HandlingKeepsClosing
<1>3. CASE UNCHANGED vars
  BY <1>3 DEF vars, db, redis, ClosingCounted, Active
<1>4. QED
  BY <1>1, <1>2, <1>3, NextHandling DEF Base

\* A round that closes before its deadline passes over no more active participants than there
\* are slots of people who are active no more; if nobody who submitted has left, it passes over
\* none (dispatch).
THEOREM EarlyCloses == Spec => EarlyCloseIsCounted
<1>1. Init => ClosingCounted
  <2>1. ASSUME Init, NEW t \in Threads PROVE thr[t].pc = "idle"
    BY <2>1 DEF Init, Idle
  <2>2. Init => timers = {}
    BY DEF Init
  <2>3. QED
    BY <2>1, <2>2 DEF ClosingCounted
<1>2. IInv /\ IInv' /\ ClosingCounted /\ [Next]_vars => ClosingCounted'
  <2>1. IInv' => Base'
    BY DEF IInv, Base, Safe
  <2>2. QED
    BY <2>1, ClosingNext, InvariantIsBase
<1>3. IInv /\ ClosingCounted /\ [Next]_vars =>
        [\A r \in Rounds : rs[r] = "revealed" /\ rs'[r] = "scoring" /\ <<"deadline", r>> \in timers
           => Cardinality(Active \ submitted[r]) <= Cardinality(submitted[r] \ Active)]_vars
  <2> SUFFICES ASSUME IInv, ClosingCounted, Next, NEW r \in Rounds,
                      rs[r] = "revealed", rs'[r] = "scoring", <<"deadline", r>> \in timers
               PROVE  Cardinality(Active \ submitted[r]) <= Cardinality(submitted[r] \ Active)
    OBVIOUS
  <2>1. PICK t \in Threads : CloseSubmissions(t) /\ thr[t].round = r
    BY RoundsGoForward, InvariantIsBase
  <2>2. Cardinality(Active) <= Cardinality(submitted[r])
    BY <2>1 DEF ClosingCounted, CloseSubmissions, At
  <2>3. Active \in SUBSET Players /\ submitted[r] \in SUBSET Players
    BY Types DEF IInv, Active
  <2>4. QED
    BY <2>2, <2>3, Counting
<1>4. QED
  BY <1>1, <1>2, <1>3, InvariantHolds, PTL DEF Spec, EarlyCloseIsCounted
-----------------------------------------------------------------------------
(* Nothing is settled before its time.                                       *)

\* A round is not settled by somebody for whom it still accepts submissions.
Begun(r) == rs[r] \notin {"none", "revealed"}

LEMMA BegunStays ==
  ASSUME Base, Next, NEW r \in Rounds, Begun(r)
  PROVE  Begun(r)'
  BY RoundsGoForward DEF Begun

\* The submissions of a round that no longer accepts any are final, so what was unresolved can
\* only get fewer.
LEMMA UnresolvedShrinks ==
  ASSUME Base, Prompt, ResultsFirst, NEW t \in Threads, Handling(t), NEW r \in Rounds, Begun(r)
  PROVE  submitted'[r] = submitted[r] /\ Unresolved(r)' \subseteq Unresolved(r)
<1>1. Step(t) \/ RejectBody(t) \/ Crash(t) \/ Starts(t)
  BY DEF Handling
<1>2. ~ (ClaimSlot(t) /\ thr[t].round = r)
  BY DEF ResultsFirst, ClaimSlot, At, Begun
<1>3. submitted'[r] = submitted[r] /\ Scored(r) \subseteq Scored(r)'
  BY <1>1, <1>2, Effects
<1>4. QED
  BY <1>3 DEF Unresolved

\* What a finalizing transaction has read is its own as long as it holds the room lock.
LEMMA LockedView ==
  ASSUME NEW t \in Threads, Step(t) \/ RejectBody(t) \/ Crash(t) \/ Starts(t), Base,
         lock \in Threads, lock # t
  PROVE  UNCHANGED view
<1>1. ~ Free
  BY ConstantsAssumption DEF Free
<1>2. ~ (ReadRows(t) \/ CommitFinalize(t) \/ AbortFinalize(t))
  BY DEF Base, Safe, Locked, ReadRows, CommitFinalize, AbortFinalize, At
<1>3. CASE Step(t)
  BY <1>1, <1>2, <1>3 DEF Step, ArmDeadline, UseToken, ClaimSlot, InsertRow, Dispatch, CheckResolved,
     CloseSubmissions, ReadPending, ReadStranded, ForceFailed, BeginFinalize, ArmViewing, SkipViewing,
     Advance
<1>4. CASE RejectBody(t) \/ Crash(t)
  BY <1>4 DEF RejectBody, Crash
<1>5. CASE Starts(t)
  BY <1>5 DEF Starts, StartGame, Skip, Submit, RecordScore, Claim
<1>6. QED
  BY <1>3, <1>4, <1>5

\* Where the handlers that settle a round stand.
LEMMA HandlingKeepsResultsFirst ==
  ASSUME Base, Next, Base', ResultsFirst, NEW t \in Threads, Handling(t)
  PROVE  ResultsFirst'
<1>1. /\ thr \in [Threads -> Work]
      /\ \A u \in Threads : u # t => thr'[u] = thr[u]
      /\ \A u \in Threads : thr[u].pc # "idle" => thr[u].round \in Rounds
      /\ \A u \in Threads : thr'[u].pc # "idle" => thr'[u].round \in Rounds
  BY DEF Base, TypeOK, Handling, Moved, Busy
<1>2. Step(t) \/ RejectBody(t) \/ Crash(t) \/ Starts(t)
  BY DEF Handling
<1>3. (\A u \in Threads : thr[u].pc \in {"token", "slot", "insert"} => u \in Workers)'
  BY <1>1 DEF ResultsFirst, Handling, Came
<1>4. (\A u \in Threads : thr[u].pc \in {"pending", "guard", "force", "finalize"} => Begun(thr[u].round))'
  <2> SUFFICES ASSUME NEW u \in Threads, thr'[u].pc \in {"pending", "guard", "force", "finalize"},
                      NEW r \in Rounds, thr'[u].round = r
               PROVE  Begun(r)'
    BY <1>1 DEF Begun
  <2>1. CASE u # t
    <3>1. Begun(r)
      BY <1>1, <2>1 DEF ResultsFirst, Begun
    <3>2. QED
      BY <3>1, BegunStays
  <2>2. CASE u = t /\ thr'[t].pc = "pending"
    BY <2>2 DEF Handling, Came, SameRound, Begun
  <2>3. CASE u = t /\ thr'[t].pc = "guard"
    <3>1. Claim(t, "guard", r)
      BY <2>3 DEF Handling, Came
    <3>2. Begun(r)
      BY <3>1 DEF Claim, ResultsFirst, Begun
    <3>3. QED
      BY <3>2, BegunStays
  <2>4. CASE u = t /\ thr'[t].pc \in {"force", "finalize"}
    <3>1. \/ thr[t].pc \in {"pending", "guard", "force"}
          \/ rs[thr[t].round] = "scoring"
      BY <2>4 DEF Handling, Came, ReadPending, ForceFailed, At
    <3>2. thr[t].round = r
      BY <2>4 DEF Handling, Came, SameRound
    <3>3. Begun(r)
      BY <3>1, <3>2 DEF ResultsFirst, Begun
    <3>4. QED
      BY <3>3, BegunStays
  <2>5. QED
    BY <2>1, <2>2, <2>3, <2>4
<1>5. (\A r \in Rounds : <<"guard", r>> \in timers => Begun(r))'
  <2> SUFFICES ASSUME NEW r \in Rounds, <<"guard", r>> \in timers' PROVE Begun(r)'
    BY DEF Begun
  <2>1. <<"guard", r>> \in timers \/ (ReadPending(t) /\ thr[t].round = r)
    BY <1>2, Effects
  <2>2. Begun(r)
    BY <2>1 DEF ResultsFirst, ReadPending, At, Begun
  <2>3. QED
    BY <2>2, BegunStays
<1>6. ASSUME Prompt
      PROVE  (\A u \in Threads : thr[u].pc \in {"token", "slot", "insert"} => rs[thr[u].round] = "revealed")'
  <2> SUFFICES ASSUME NEW u \in Threads, thr'[u].pc \in {"token", "slot", "insert"},
                      NEW r \in Rounds, thr'[u].round = r
               PROVE  rs'[r] = "revealed"
    BY <1>1
  <2>1. u \in Workers
    BY <1>3
  <2>2. rs[r] = "revealed"
    <3>1. CASE u # t
      BY <1>1, <1>6, <3>1 DEF ResultsFirst
    <3>2. CASE u = t /\ thr'[t].pc = "token"
      BY <3>2 DEF Handling, Came, Submit
    <3>3. CASE u = t /\ thr'[t].pc \in {"slot", "insert"}
      BY <1>6, <3>3 DEF Handling, Came, SameRound, ResultsFirst
    <3>4. QED
      BY <3>1, <3>2, <3>3
  <2>3. ASSUME NEW v \in Threads, CloseSubmissions(v), thr[v].round = r PROVE FALSE
    <3>1. thr[v].pc = "close" /\ (thr'[v] = thr[v] \/ thr'[v].pc \in {"idle", "pending"})
      BY <2>3, GotoFacts, ReturnFacts, <1>1 DEF CloseSubmissions, At, Labels
    <3>2. ~ (thr[u].pc \in {"token", "slot", "insert"} /\ thr[u].round = r)
      BY <1>6, <2>1, <2>3 DEF CloseSubmissions
    <3>3. u = t
      BY <1>1, <3>2
    <3>4. thr'[t].pc = "token"
      BY <3>2, <3>3 DEF Handling, Came, SameRound
    <3>5. PICK p \in Players : Submit(t, p, r)
      BY <3>3, <3>4 DEF Handling, Came
    <3>6. UNCHANGED rs
      BY <3>5 DEF Submit, db
    <3>7. rs'[r] = "scoring" \/ ~ CanClose(r)
      BY <2>1, <2>3, Types DEF CloseSubmissions, Base
    <3>8. QED
      BY <2>2, <3>5, <3>6, <3>7 DEF CanClose, Loads, Submit
  <2>4. QED
    BY <2>1, <2>2, <2>3, RoundsGoForward
<1>7. ASSUME Prompt
      PROVE  (\A u \in Threads : thr[u].pc = "force" => Unresolved(thr[u].round) \subseteq thr[u].stranded)'
  <2> SUFFICES ASSUME NEW u \in Threads, thr'[u].pc = "force", NEW r \in Rounds, thr'[u].round = r
               PROVE  Unresolved(r)' \subseteq thr'[u].stranded
    BY <1>1 DEF Unresolved, Scored
  <2>1. CASE u # t
    <3>1. thr'[u] = thr[u] /\ thr[u].pc = "force" /\ thr[u].round = r
      BY <1>1, <2>1
    <3>2. Begun(r) /\ Unresolved(r) \subseteq thr[u].stranded
      BY <1>7, <3>1 DEF ResultsFirst, Begun
    <3>3. Unresolved(r)' \subseteq Unresolved(r)
      BY <1>7, <3>2, UnresolvedShrinks
    <3>4. QED
      BY <3>1, <3>2, <3>3
  <2>2. CASE u = t
    <3>1. /\ thr[t].round = r /\ thr'[t].stranded = Unresolved(r)
          /\ UNCHANGED <<submitted, scores>>
      BY <2>2 DEF Handling, Came, SameRound
    <3>2. QED
      BY <2>2, <3>1 DEF Unresolved, Scored
  <2>3. QED
    BY <2>1, <2>2
<1>8. ASSUME Prompt
      PROVE  (\A u \in Threads : thr[u].pc = "finalize" => Unresolved(thr[u].round) = {})'
  <2> SUFFICES ASSUME NEW u \in Threads, thr'[u].pc = "finalize", NEW r \in Rounds, thr'[u].round = r
               PROVE  Unresolved(r)' = {}
    BY <1>1 DEF Unresolved, Scored
  <2>1. CASE u # t
    <3>1. thr[u].pc = "finalize" /\ thr[u].round = r
      BY <1>1, <2>1
    <3>2. Begun(r) /\ Unresolved(r) = {}
      BY <1>8, <3>1 DEF ResultsFirst, Begun
    <3>3. Unresolved(r)' \subseteq Unresolved(r)
      BY <1>8, <3>2, UnresolvedShrinks
    <3>4. QED
      BY <3>2, <3>3
  <2>2. CASE u = t /\ ~ ForceFailed(t)
    <3>1. /\ thr[t].round = r /\ ~ Pending(r)
          /\ rs[r] = "scoring" \/ thr[t].pc = "pending"
      BY <2>2 DEF Handling, Came, SameRound, ReadPending, At
    <3>2. Begun(r)
      BY <3>1 DEF ResultsFirst, Begun
    <3>3. Unresolved(r)' \subseteq Unresolved(r)
      BY <1>8, <3>2, UnresolvedShrinks
    <3>4. QED
      BY <3>1, <3>3 DEF Pending
  <2>3. CASE u = t /\ ForceFailed(t)
    <3>1. thr[t].round = r
      BY <2>3 DEF Handling, Came, SameRound
    <3>2. Unresolved(r) \subseteq thr[t].stranded
      BY <1>8, <2>3, <3>1 DEF ResultsFirst, ForceFailed, At
    <3> DEFINE forced == [p \in Players |-> IF p \in thr[t].stranded THEN "failed" ELSE scores[r][p]]
    <3>3. scores' = [scores EXCEPT ![r] = [p \in Players |-> IF p \in thr[t].stranded THEN "failed" ELSE @[p]]]
          /\ submitted' = submitted
      BY <2>3, <3>1 DEF ForceFailed
    <3>4. scores'[r] = forced
      BY <3>3, Types DEF Base
    <3>5. submitted[r] \subseteq Players
      BY Types DEF Base
    <3>6. \A p \in submitted[r] : scores'[r][p] # "none"
      BY <3>2, <3>4, <3>5 DEF Unresolved, Scored
    <3>7. QED
      BY <3>3, <3>5, <3>6 DEF Unresolved, Scored
  <2>4. QED
    BY <2>1, <2>2, <2>3
<1>9. ASSUME Prompt PROVE SettledOnResults'
  <2> SUFFICES ASSUME NEW u \in Threads, thr'[u].pc \in {"finRows", "finCommit"},
                      NEW r \in Rounds, thr'[u].round = r
               PROVE  view'.sub \subseteq Scored(r)'
    BY <1>1 DEF SettledOnResults, Scored
  <2>1. Scored(r) \subseteq Scored(r)'
    BY <1>2, Effects
  <2>2. CASE u # t
    <3>1. thr'[u] = thr[u] /\ lock = u /\ thr[u].round = r
      BY <1>1, <2>2 DEF Base, Safe, Locked
    <3>2. UNCHANGED view
      BY <1>2, <2>2, <3>1, LockedView
    <3>3. view.sub \subseteq Scored(r)
      BY <1>9, <3>1 DEF ResultsFirst, SettledOnResults
    <3>4. QED
      BY <2>1, <3>2, <3>3
  <2>3. CASE u = t /\ thr'[t].pc = "finRows"
    <3>1. BeginFinalize(t) /\ thr[t].round = r /\ view'.sub = submitted[r]
      BY <2>3 DEF Handling, Came, SameRound
    <3>2. Unresolved(r) = {}
      BY <1>9, <3>1 DEF ResultsFirst, BeginFinalize, At
    <3>3. QED
      BY <2>1, <3>1, <3>2 DEF Unresolved
  <2>4. CASE u = t /\ thr'[t].pc = "finCommit"
    <3>1. ReadRows(t) /\ thr[t].round = r /\ view'.sub = view.sub
      BY <2>4 DEF Handling, Came, SameRound
    <3>2. view.sub \subseteq Scored(r)
      BY <1>9, <3>1 DEF ResultsFirst, SettledOnResults, ReadRows, At
    <3>3. QED
      BY <2>1, <3>1, <3>2
  <2>5. QED
    BY <2>2, <2>3, <2>4
<1>10. QED
  BY <1>3, <1>4, <1>5, <1>6, <1>7, <1>8, <1>9 DEF ResultsFirst, Begun

LEMMA ResultsFirstNext ==
  ASSUME Base, [Next]_vars, Base', ResultsFirst
  PROVE  ResultsFirst'
<1>1. CASE Next /\ Elsewhere
  <2>1. UNCHANGED <<thr, rs, submitted, scores, timers, view>>
    BY <1>1, ElsewhereEffects
  <2>2. QED
    BY <2>1 DEF ResultsFirst, SettledOnResults, Unresolved, Scored
<1>2. ASSUME Next, NEW t \in Threads, Handling(t) PROVE ResultsFirst'
  BY <1>2, HandlingKeepsResultsFirst
<1>3. CASE UNCHANGED vars
  BY <1>3 DEF vars, db, redis, ResultsFirst, SettledOnResults, Unresolved, Scored
<1>4. QED
  BY <1>1, <1>2, <1>3, NextHandling DEF Base

\* As long as no upload is overtaken by the closing of its round, a round is settled only on
\* submissions that all have their result (close_submissions, force_finalize).
THEOREM SettlesOnResults == Spec => [](Prompt => SettledOnResults)
<1>1. Init => ResultsFirst
  <2>1. ASSUME Init, NEW t \in Threads PROVE thr[t].pc = "idle"
    BY <2>1 DEF Init, Idle
  <2>2. Init => timers = {}
    BY DEF Init
  <2>3. QED
    BY <2>1, <2>2 DEF ResultsFirst, SettledOnResults
<1>2. IInv /\ IInv' /\ ResultsFirst /\ [Next]_vars => ResultsFirst'
  <2>1. IInv' => Base'
    BY DEF IInv, Base, Safe
  <2>2. QED
    BY <2>1, ResultsFirstNext, InvariantIsBase
<1>3. ResultsFirst => (Prompt => SettledOnResults)
  BY DEF ResultsFirst
<1>4. QED
  BY <1>1, <1>2, <1>3, InvariantHolds, PTL DEF Spec
=============================================================================
