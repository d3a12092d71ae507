--------------------------- MODULE RoundLifecycle ---------------------------
(***************************************************************************)
(* The rounds of one room, from the start of the game to its end: uploads, *)
(* inference results, the deadline, guard and viewing timers, skips and    *)
(* expiring participants, all of them concurrent.                          *)
(*                                                                         *)
(* The room row lock is PostgreSQL's SELECT ... FOR UPDATE.  A handler     *)
(* that reads and commits under it in one breath is one action; finalize,  *)
(* which reads Redis and the existing submissions while uploads go on      *)
(* without the lock, keeps it over three.  Awaits outside the lock are     *)
(* boundaries between two actions, but for the commands that follow a read *)
(* or a commit: ReadPending schedules the guard it found needed, Advance   *)
(* and ArmViewing cancel one timer and schedule another, in one step.      *)
(*                                                                         *)
(* Time is abstract: a scheduled timer may fire at any later moment.       *)
(* Scores are abstract too: "ok" stands for submitted and no_face alike,   *)
(* and points are counted, not summed (module Scoring does the sums).      *)
(***************************************************************************)
EXTENDS Integers, FiniteSets

CONSTANTS
  Players,     \* participants known to the room
  NoPlayer,    \* no participant
  RoundCount,  \* length of the emotion sequence
  Workers,     \* HTTP requests, socket events and scoring tasks running at once
  Pods,        \* scheduler loops: each runs the job it claimed to its end
  NoThread,    \* nobody holds the room row lock
  MinPlayers,  \* game.MIN_PLAYERS
  MaxVoided,   \* round.MAX_CONSECUTIVE_VOIDED
  MayLeave,    \* environment: players whose socket may stay away past the grace
  BadBodies,   \* environment: players whose accepted upload may turn out unusable
  Prompt,      \* environment: no round closes between an upload's checks and its commit
  Crashes      \* environment: handlers may die between two steps

Threads == Workers \cup Pods
Rounds  == 1..RoundCount

ASSUME ConstantsAssumption ==
  /\ RoundCount \in Nat \ {0}
  /\ IsFiniteSet(Players) /\ NoPlayer \notin Players
  /\ NoThread \notin Threads
  /\ Workers \cap Pods = {}
  /\ MinPlayers \in Nat /\ MaxVoided \in Nat \ {0}
  /\ MayLeave \subseteq Players /\ BadBodies \subseteq Players
  /\ Prompt \in BOOLEAN /\ Crashes \in BOOLEAN

VARIABLES
  \* PostgreSQL
  room,       \* rooms.status
  current,    \* rooms.current_round_id, 0 for NULL
  voids,      \* rooms.consecutive_voided
  member,     \* participants.status
  rs,         \* rounds.status, "none" before the row exists
  row,        \* submissions.status, "none" before the row exists
  paid,       \* paid[p][r]: how often round r was added to p's total_points
  lock,       \* holder of the room row lock
  \* Redis
  token,      \* who was sent a capture token for the round
  used,       \* capture_token_key: whose token was used
  submitted,  \* keys of round:{id}:submitted; round:{id}:viewers is kept equal
  scores,     \* round:{id}:scores, "none" for an absent key
  timers,     \* sched:timers
  \* the processes
  inflight,   \* classifications running, as <<round, player>>
  view,       \* what the finalizing transaction has read so far
  thr         \* what each thread is doing

db    == <<room, current, voids, member, rs, row, paid>>
redis == <<token, used, submitted, scores, timers>>
vars  == <<db, lock, redis, inflight, view, thr>>

Labels == {"idle", "arm", "token", "slot", "insert", "upload", "close", "pending", "check", "guard",
           "force", "finalize", "finRows", "finCommit", "armViewing", "noViewing", "advance"}
Work   == [pc : Labels, who : Players \cup {NoPlayer}, round : Rounds \cup {0},
           stranded : SUBSET Players]
Idle   == [pc |-> "idle", who |-> NoPlayer, round |-> 0, stranded |-> {}]
View   == [sub : SUBSET Players, ok : SUBSET Players, rows : SUBSET Players]
NoView == [sub |-> {}, ok |-> {}, rows |-> {}]
Timer  == {"deadline", "guard", "viewing"} \X Rounds

Goto(t, label)        == thr' = [thr EXCEPT ![t].pc = label]
Fork(t, label, p, r)  == thr' = [thr EXCEPT ![t] = [Idle EXCEPT !.pc = label, !.who = p, !.round = r]]
Return(t)             == thr' = [thr EXCEPT ![t] = Idle]
At(t, label)          == thr[t].pc = label
Free                  == lock = NoThread

Active        == {p \in Players : member[p] = "active"}
Occupying     == {p \in Players : member[p] \in {"active", "waiting"}}
Scored(r)     == {p \in Players : scores[r][p] # "none"}
Resolved(r)   == {p \in Players : scores[r][p] = "ok"}
Unresolved(r) == submitted[r] \ Scored(r)
Terminal      == {"finalized", "voided", "closed"}

\* Mutation: the handlers no longer ask whether the game goes on.
Loads_AnyRoom(r)  == TRUE
\* _load: under the room lock, and only while the room is playing.
Loads(r)          == room = "playing"
CanClose(r)       == Loads(r) /\ rs[r] = "revealed"
\* Mutation: finalize relies on being called once.
CanFinalize_Twice(r) == Loads(r) /\ rs[r] \in {"scoring", "finalized"}
CanFinalize(r)    == Loads(r) /\ rs[r] = "scoring"
\* Mutation: advance relies on being called once.
CanAdvance_Twice(r) == Loads(r) /\ rs[r] \in {"finalized", "voided", "closed"}
CanAdvance(r)     == Loads(r) /\ rs[r] \in {"finalized", "voided"}
-----------------------------------------------------------------------------
Init ==
  /\ room = "waiting" /\ current = 0 /\ voids = 0
  /\ member = [p \in Players |-> "active"]
  /\ rs = [r \in Rounds |-> "none"]
  /\ row = [r \in Rounds |-> [p \in Players |-> "none"]]
  /\ paid = [p \in Players |-> [r \in Rounds |-> 0]]
  /\ lock = NoThread
  /\ token = [r \in Rounds |-> {}]
  /\ used = [r \in Rounds |-> {}]
  /\ submitted = [r \in Rounds |-> {}]
  /\ scores = [r \in Rounds |-> [p \in Players |-> "none"]]
  /\ timers = {} /\ inflight = {} /\ view = NoView
  /\ thr = [t \in Threads |-> Idle]

\* POST start: the game and its first round in one transaction.
StartGame(t) ==
  /\ At(t, "idle") /\ Free
  /\ room = "waiting" /\ Cardinality(Active) >= MinPlayers
  /\ room' = "playing" /\ voids' = 0 /\ current' = 1
  /\ member' = [p \in Players |-> IF member[p] = "waiting" THEN "active" ELSE member[p]]
  /\ rs' = [rs EXCEPT ![1] = "revealed"]
  /\ token' = [token EXCEPT ![1] = Occupying]
  /\ Fork(t, "arm", NoPlayer, 1)
  /\ UNCHANGED <<row, paid, lock, used, submitted, scores, timers, inflight, view>>

\* ... whose deadline is armed after the commit.
ArmDeadline(t) ==
  /\ At(t, "arm")
  /\ timers' = timers \cup {<<"deadline", thr[t].round>>}
  /\ Return(t)
  /\ UNCHANGED <<db, lock, token, used, submitted, scores, inflight, view>>
-----------------------------------------------------------------------------
(* One upload.  It never takes the room lock: what it checked may have     *)
(* changed by the time it claims its slot and inserts its row.             *)

\* The checks on participant, room and round.  A request without an unused token, or
\* received after the deadline, is refused without a trace and not modelled.
Submit(t, p, r) ==
  /\ At(t, "idle")
  /\ p \in Occupying /\ p \in token[r] \ used[r]
  /\ room = "playing" /\ current = r /\ rs[r] = "revealed"
  /\ Fork(t, "token", p, r)
  /\ UNCHANGED <<db, lock, redis, inflight, view>>

\* Mutation: SET and HSET without NX.
FirstTime_NoNX(p, keys) == TRUE
\* SET NX and HSETNX: only who is not there yet gets in.
FirstTime(p, keys) == p \notin keys

\* accept_submission: first the capture token ...
UseToken(t) ==
  LET p == thr[t].who  r == thr[t].round
  IN /\ At(t, "token")
     /\ IF FirstTime(p, used[r])
        THEN used' = [used EXCEPT ![r] = @ \cup {p}] /\ Goto(t, "slot")
        ELSE Return(t) /\ UNCHANGED used
     /\ UNCHANGED <<db, lock, token, submitted, scores, timers, inflight, view>>

\* ... then the slot, and with it a place in the result audience.
ClaimSlot(t) ==
  LET p == thr[t].who  r == thr[t].round
  IN /\ At(t, "slot")
     /\ IF FirstTime(p, submitted[r])
        THEN submitted' = [submitted EXCEPT ![r] = @ \cup {p}] /\ Goto(t, "insert")
        ELSE Return(t) /\ UNCHANGED submitted
     /\ UNCHANGED <<db, lock, token, used, scores, timers, inflight, view>>

\* Mutation: the table has no uq_round_participant.
Insertable_Twice(r, p) == TRUE
Insertable(r, p) == row[r][p] = "none"

\* The row is born "failed"; uq_round_participant refuses a second one.
InsertRow(t) ==
  LET p == thr[t].who  r == thr[t].round
  IN /\ At(t, "insert")
     /\ IF Insertable(r, p)
        THEN row' = [row EXCEPT ![r][p] = "failed"] /\ Goto(t, "upload")
        ELSE Return(t) /\ UNCHANGED row
     /\ UNCHANGED <<room, current, voids, member, rs, paid, lock, redis, inflight, view>>

\* Mutation: the round closes one submission early.
FullHouse_Early(r) == Cardinality(submitted[r]) + 1 >= Cardinality(Active)
\* As many submissions as active participants, whoever they are from: dispatch compares the
\* numbers (spec.md:752).
FullHouse(r) == Cardinality(submitted[r]) >= Cardinality(Active)

\* The body is good: dispatch starts the scoring task and, on a full house, closes the round.
Dispatch(t) ==
  LET p == thr[t].who  r == thr[t].round
  IN /\ At(t, "upload")
     /\ inflight' = inflight \cup {<<r, p>>}
     /\ IF FullHouse(r) THEN Goto(t, "close") ELSE Return(t)
     /\ UNCHANGED <<db, lock, redis, view>>

\* The body is too large, truncated or no JPEG: the slot and the row stay behind.
RejectBody(t) ==
  /\ At(t, "upload") /\ thr[t].who \in BadBodies
  /\ Return(t)
  /\ UNCHANGED <<db, lock, redis, inflight, view>>

\* _score: the classifier answered, timed out or refused.
RecordScore(t, r, p, payload) ==
  /\ At(t, "idle") /\ <<r, p>> \in inflight
  /\ inflight' = inflight \ {<<r, p>>}
  /\ scores' = [scores EXCEPT ![r][p] = payload]
  /\ Fork(t, "check", NoPlayer, r)
  /\ UNCHANGED <<db, lock, token, used, submitted, timers, view>>

\* Mutation: one result may be missing.
Pending_OneMissing(r) == Cardinality(Unresolved(r)) > 1
\* pending_inference: more submissions than results.
Pending(r) == Unresolved(r) # {}

\* _finalize_if_resolved: the status first, then the pending count.
CheckResolved(t) ==
  LET r == thr[t].round
  IN /\ At(t, "check")
     /\ IF rs[r] = "scoring" /\ ~ Pending(r) THEN Goto(t, "finalize") ELSE Return(t)
     /\ UNCHANGED <<db, lock, redis, inflight, view>>
-----------------------------------------------------------------------------
(* Closing and settling a round.                                           *)

\* Only one transition wins; the room lock and the status see to it.
CloseSubmissions(t) ==
  LET r == thr[t].round
  IN /\ At(t, "close") /\ Free
     /\ Prompt => \A u \in Workers :
                    ~ (thr[u].pc \in {"token", "slot", "insert"} /\ thr[u].round = r)
     /\ IF CanClose(r)
        THEN rs' = [rs EXCEPT ![r] = "scoring"] /\ Goto(t, "pending")
        ELSE Return(t) /\ UNCHANGED rs
     /\ UNCHANGED <<room, current, voids, member, row, paid, lock, redis, inflight, view>>

AfterPending(r) == timers \cup {<<"guard", r>>}

\* The pending count is read only after "scoring" is committed.
ReadPending(t) ==
  LET r == thr[t].round
  IN /\ At(t, "pending")
     /\ IF Pending(r)
        THEN timers' = AfterPending(r) /\ Return(t)
        ELSE Goto(t, "finalize") /\ UNCHANGED timers
     /\ UNCHANGED <<db, lock, token, used, submitted, scores, inflight, view>>

\* force_finalize: force_pending_failed collects the unresolved submissions ...
ReadStranded(t) ==
  /\ At(t, "guard")
  /\ thr' = [thr EXCEPT ![t].pc = "force", ![t].stranded = Unresolved(thr[t].round)]
  /\ UNCHANGED <<db, lock, redis, inflight, view>>

\* ... and writes them all as failures, whatever was recorded in between.
ForceFailed(t) ==
  LET r == thr[t].round
  IN /\ At(t, "force")
     /\ scores' = [scores EXCEPT ![r] =
                     [p \in Players |-> IF p \in thr[t].stranded THEN "failed" ELSE @[p]]]
     /\ thr' = [thr EXCEPT ![t].pc = "finalize", ![t].stranded = {}]
     /\ UNCHANGED <<db, lock, token, used, submitted, timers, inflight, view>>

\* finalize takes the room lock, checks the status and reads the Redis hashes.
BeginFinalize(t) ==
  LET r == thr[t].round
  IN /\ At(t, "finalize") /\ Free
     /\ IF CanFinalize(r)
        THEN /\ lock' = t
             /\ view' = [NoView EXCEPT !.sub = submitted[r], !.ok = submitted[r] \cap Resolved(r)]
             /\ Goto(t, "finRows")
        ELSE Return(t) /\ UNCHANGED <<lock, view>>
     /\ UNCHANGED <<db, redis, inflight>>

\* The submissions that own a row already will be updated, the others inserted.
ReadRows(t) ==
  /\ At(t, "finRows")
  /\ view' = [view EXCEPT !.rows = {p \in Players : row[thr[t].round][p] # "none"}]
  /\ Goto(t, "finCommit")
  /\ UNCHANGED <<db, lock, redis, inflight>>

\* finalize would insert a row that an upload has inserted meanwhile.
RowConflict(r) == \E p \in Active : p \notin view.rows /\ row[r][p] # "none"

\* Mutation: only submitters get a row.
Settled_NoMissed(p) == IF p \notin view.sub THEN "none" ELSE IF p \in view.ok THEN "ok" ELSE "failed"
Settled(p) == IF p \notin view.sub THEN "missed" ELSE IF p \in view.ok THEN "ok" ELSE "failed"

\* Everyone who submitted failed, those who left since included.
AllFailed == view.sub # {} /\ view.ok = {}

\* Mutation: a finalized round does not end the streak of voided ones.
StreakAfterFinalized_Kept == voids
StreakAfterFinalized == 0

CommitFinalize(t) ==
  LET r == thr[t].round
  IN /\ At(t, "finCommit")
     /\ ~ RowConflict(r)
     /\ row' = [row EXCEPT ![r] = [p \in Players |-> IF p \in Active THEN Settled(p) ELSE @[p]]]
     /\ IF AllFailed
        THEN /\ rs' = [rs EXCEPT ![r] = "voided"]
             /\ voids' = voids + 1
             /\ UNCHANGED paid
        ELSE /\ rs' = [rs EXCEPT ![r] = "finalized"]
             /\ voids' = StreakAfterFinalized
             /\ paid' = [p \in Players |->
                           IF p \in Active THEN [paid[p] EXCEPT ![r] = @ + 1] ELSE paid[p]]
     /\ lock' = NoThread /\ view' = NoView
     /\ Goto(t, IF AllFailed \/ view.sub = {} THEN "noViewing" ELSE "armViewing")
     /\ UNCHANGED <<room, current, member, redis, inflight>>

\* IntegrityError: the transaction rolls back and the handler ends.
AbortFinalize(t) ==
  /\ At(t, "finCommit") /\ RowConflict(thr[t].round)
  /\ lock' = NoThread /\ view' = NoView
  /\ Return(t)
  /\ UNCHANGED <<db, redis, inflight>>

\* Mutation: the viewing timer is cancelled with the guard.
ViewingTimers_Cancelled(r) == timers \ {<<"guard", r>>, <<"viewing", r>>}
ViewingTimers(r) == (timers \ {<<"guard", r>>}) \cup {<<"viewing", r>>}

\* After the commit: cancel the guard, then time the viewing stage ...
ArmViewing(t) ==
  LET r == thr[t].round
  IN /\ At(t, "armViewing")
     /\ timers' = ViewingTimers(r)
     /\ Return(t)
     /\ UNCHANGED <<db, lock, token, used, submitted, scores, inflight, view>>

\* ... or skip it when the round is void or has no audience.
SkipViewing(t) ==
  /\ At(t, "noViewing")
  /\ timers' = timers \ {<<"guard", thr[t].round>>}
  /\ Goto(t, "advance")
  /\ UNCHANGED <<db, lock, token, used, submitted, scores, inflight, view>>
-----------------------------------------------------------------------------
(* Leaving a round.                                                        *)

EndsGame(r) == voids >= MaxVoided \/ Cardinality(Active) < MinPlayers \/ r = RoundCount

\* close_round, then finish_game or open_round with its deadline; the viewing timer
\* is cancelled right after the commit.
Advance(t) ==
  LET r      == thr[t].round
      closed == [rs EXCEPT ![r] = IF @ = "finalized" THEN "closed" ELSE @]
  IN /\ At(t, "advance") /\ Free
     /\ IF CanAdvance(r)
        THEN IF EndsGame(r)
             THEN /\ room' = "finished" /\ current' = 0 /\ rs' = closed
                  /\ timers' = timers \ {<<"viewing", r>>}
                  /\ UNCHANGED token
             ELSE /\ current' = r + 1
                  /\ rs' = [closed EXCEPT ![r + 1] = "revealed"]
                  /\ token' = [token EXCEPT ![r + 1] = Active]
                  /\ timers' = (timers \ {<<"viewing", r>>}) \cup {<<"deadline", r + 1>>}
                  /\ UNCHANGED room
        ELSE UNCHANGED <<room, current, rs, token, timers>>
     /\ Return(t)
     /\ UNCHANGED <<voids, member, row, paid, lock, used, submitted, scores, inflight, view>>

\* round:skip by the host or by the last viewer; the votes are counted in module Viewing.
Skip(t, r) ==
  /\ At(t, "idle")
  /\ room = "playing" /\ current = r /\ rs[r] = "finalized"
  /\ Fork(t, "advance", NoPlayer, r)
  /\ UNCHANGED <<db, lock, redis, inflight, view>>

\* SchedulerLoop.run_once: a due job is removed by ZREM and handled by its claimant.
Claim(t, kind, r) ==
  /\ At(t, "idle") /\ <<kind, r>> \in timers
  /\ timers' = timers \ {<<kind, r>>}
  /\ Fork(t, CASE kind = "deadline" -> "close" [] kind = "guard" -> "guard"
               [] kind = "viewing" -> "advance", NoPlayer, r)
  /\ UNCHANGED <<db, lock, token, used, submitted, scores, inflight, view>>

\* expire_participant after the grace: the game ends on a shortfall.
Expire(p) ==
  /\ Free /\ p \in MayLeave /\ p \in Occupying
  /\ room \in {"waiting", "playing"}
  /\ member' = [member EXCEPT ![p] = "left"]
  /\ IF room = "playing" /\ Cardinality(Active \ {p}) < MinPlayers
     THEN room' = "finished" /\ current' = 0
     ELSE UNCHANGED <<room, current>>
  /\ UNCHANGED <<voids, rs, row, paid, lock, redis, inflight, view, thr>>

\* join_room by a participant who had left.
Rejoin(p) ==
  /\ Free /\ member[p] = "left"
  /\ room \in {"waiting", "playing"}
  /\ member' = [member EXCEPT ![p] = IF room = "waiting" THEN "active" ELSE "waiting"]
  /\ UNCHANGED <<room, current, voids, rs, row, paid, lock, redis, inflight, view, thr>>

\* A pod dies, or a handler raises: its transaction rolls back, what it committed stays.
Crash(t) ==
  /\ Crashes /\ ~ At(t, "idle")
  /\ Return(t)
  /\ IF lock = t THEN lock' = NoThread /\ view' = NoView ELSE UNCHANGED <<lock, view>>
  /\ UNCHANGED <<db, redis, inflight>>

\* The scoring task dies with its pod before it recorded anything.
LoseTask(r, p) ==
  /\ Crashes /\ <<r, p>> \in inflight
  /\ inflight' = inflight \ {<<r, p>>}
  /\ UNCHANGED <<db, lock, redis, view, thr>>
-----------------------------------------------------------------------------
\* What a running thread does next.
Step(t) ==
  \/ ArmDeadline(t) \/ UseToken(t) \/ ClaimSlot(t) \/ InsertRow(t) \/ Dispatch(t) \/ CheckResolved(t)
  \/ CloseSubmissions(t) \/ ReadPending(t) \/ ReadStranded(t) \/ ForceFailed(t)
  \/ BeginFinalize(t) \/ ReadRows(t) \/ CommitFinalize(t) \/ AbortFinalize(t)
  \/ ArmViewing(t) \/ SkipViewing(t) \/ Advance(t)

Score(r, p)   == \E t \in Workers, payload \in {"ok", "failed"} : RecordScore(t, r, p, payload)
Fire(kind, r) == \E t \in Pods : Claim(t, kind, r)

Next ==
  \/ \E t \in Threads : Step(t) \/ RejectBody(t) \/ Crash(t)
  \/ \E t \in Workers : StartGame(t)
  \/ \E t \in Workers, p \in Players, r \in Rounds : Submit(t, p, r)
  \/ \E t \in Workers, r \in Rounds : Skip(t, r)
  \/ \E r \in Rounds, p \in Players : Score(r, p) \/ LoseTask(r, p)
  \/ \E kind \in {"deadline", "guard", "viewing"}, r \in Rounds : Fire(kind, r)
  \/ \E p \in Players : Expire(p) \/ Rejoin(p)

Spec == Init /\ [][Next]_vars

\* The event loop goes on as long as some task is ready, the classifier always answers (5 s
\* timeout), and the scheduler loops poll every 250 ms.  Uploads, skips and departures are the
\* players' choice: nothing makes them happen.
Fairness ==
  /\ WF_vars(\E t \in Threads : Step(t))
  /\ WF_vars(\E r \in Rounds, p \in Players : Score(r, p))
  /\ WF_vars(\E kind \in {"deadline", "guard", "viewing"}, r \in Rounds : Fire(kind, r))

FairSpec == Spec /\ Fairness
-----------------------------------------------------------------------------
\* The types of everything but the threads.
DataOK ==
  /\ room \in {"waiting", "playing", "finished"}
  /\ current \in Rounds \cup {0}
  /\ voids \in Nat
  /\ member \in [Players -> {"active", "waiting", "left"}]
  /\ rs \in [Rounds -> {"none", "revealed", "scoring", "finalized", "voided", "closed"}]
  /\ row \in [Rounds -> [Players -> {"none", "failed", "ok", "missed"}]]
  /\ paid \in [Players -> [Rounds -> Nat]]
  /\ lock \in Threads \cup {NoThread}
  /\ token \in [Rounds -> SUBSET Players]
  /\ used \in [Rounds -> SUBSET Players]
  /\ submitted \in [Rounds -> SUBSET Players]
  /\ scores \in [Rounds -> [Players -> {"none", "ok", "failed"}]]
  /\ timers \subseteq Timer
  /\ inflight \subseteq Rounds \X Players
  /\ view \in View

\* The state of the room, of Redis and of the running handlers keeps its shape; in particular
\* no round beyond the emotion sequence is ever opened (next_index).
TypeOK == DataOK /\ thr \in [Threads -> Work]

\* However many handlers try to settle a round (the last result, the closing request, the
\* guard), its points enter a player's total at most once, only by a round that is not
\* void, and never without the submission row that accounts for them (finalize).
PaidOnce ==
  \A p \in Players, r \in Rounds :
    /\ paid[p][r] \in {0, 1}
    /\ paid[p][r] = 1 => rs[r] \in {"finalized", "closed"} /\ row[r][p] # "none"

\* A settled round leaves nobody out: each participant still active has a row, and has been
\* paid unless the round is void, whatever uploads and departures raced the transaction.
SettledIsComplete ==
  \A r \in Rounds : rs[r] \in Terminal =>
    \A p \in Active : row[r][p] # "none" /\ (paid[p][r] = 1 <=> rs[r] # "voided")

\* rooms.consecutive_voided is the number of voided rounds since the last finalized one, and
\* the game is given up when it reaches the limit (finalize_round, abort_reason).
VoidStreak ==
  LET done == {r \in Rounds : rs[r] \in Terminal}
  IN /\ voids = Cardinality({r \in done : \A s \in done : s >= r => rs[s] = "voided"})
     /\ voids <= MaxVoided

\* A participant has at most one upload past the slot claim in a round, be it about to insert
\* its row, reading its body or being classified: concurrent duplicates are refused (CP-03).
OneUpload ==
  \A p \in Players, r \in Rounds :
    LET posting == {t \in Workers : /\ thr[t].pc \in {"insert", "upload"}
                                    /\ thr[t].who = p /\ thr[t].round = r}
    IN /\ Cardinality(posting) <= 1
       /\ posting # {} => <<r, p>> \notin inflight /\ scores[r][p] # "ok"

\* Nothing is settled before its time: when finalize has read Redis, each submission it counts
\* has a result, be it the guard's.  It takes uploads that are not overtaken by the closing
\* (close_submissions, _finalize_if_resolved, force_finalize).
SettledOnResults ==
  \A t \in Threads : thr[t].pc \in {"finRows", "finCommit"} => view.sub \subseteq Scored(thr[t].round)

\* A round that closes before its deadline passes over no more active participants than there
\* are slots of others, who submitted and are not active any more; while nobody who submitted
\* has left, it passes over none.  RD-07 never lets an active one be passed over
\* (spec.md:230); dispatch, which only counts, does so for each leaver who submitted.
EarlyCloseIsCounted ==
  [][\A r \in Rounds : rs[r] = "revealed" /\ rs'[r] = "scoring" /\ <<"deadline", r>> \in timers
       => Cardinality(Active \ submitted[r]) <= Cardinality(submitted[r] \ Active)]_vars

\* Once a round is settled no row of it changes and no point of it is paid: a late upload, a
\* late result or a second finalize finds the ledger closed (D-8).
LedgerFrozen ==
  [][\A r \in Rounds : rs[r] \in Terminal =>
       \A p \in Players : /\ paid'[p][r] = paid[p][r]
                          /\ row[r][p] # "none" => row'[r][p] = row[r][p]]_vars

\* Handlers that were waiting for the room lock when the game ended change nothing (_load).
FinishedIsFinal ==
  [][room = "finished" => UNCHANGED <<room, current, rs, paid, voids>>]_vars

\* The rounds as players see them: the abstract game, whatever the handlers do to get there.
Sequence == INSTANCE RoundSequence WITH game <- room, phase <- rs, paid <- paid
PlaysInSequence == Sequence!Spec

-----------------------------------------------------------------------------
(* The strengthening of the properties above that is inductive; the proofs *)
(* in RoundLifecycle_proofs are about it.                                  *)

\* finalize keeps the room lock from its first read to its commit, so neither the room nor
\* the round moves under it.
Locked ==
  \A t \in Threads : thr[t].pc \in {"finRows", "finCommit"} =>
    lock = t /\ room = "playing" /\ rs[thr[t].round] = "scoring"

\* Rounds open one after the other, and only over rounds that ended.
InOrder ==
  /\ room = "waiting" => \A r \in Rounds : rs[r] = "none"
  /\ \A r, s \in Rounds : r < s /\ rs[s] # "none" => rs[r] \in {"closed", "voided"}

\* A handler knows its round, and an upload its player.
Busy ==
  \A t \in Threads :
    /\ thr[t].pc # "idle" => thr[t].round \in Rounds
    /\ thr[t].pc \in {"token", "slot", "insert", "upload"} => thr[t].who \in Players

\* Only the finalizer of a voided round is on its way to leave it, and it does so once: no
\* timer and no skip leads there, and "voided" is not left by the advance.
LeavingOnce ==
  /\ \A r \in Rounds : <<"viewing", r>> \in timers => rs[r] \in {"finalized", "closed"}
  /\ \A t \in Threads :
       /\ thr[t].pc = "armViewing" => rs[thr[t].round] \in {"finalized", "closed"}
       /\ thr[t].pc \in {"noViewing", "advance"} => rs[thr[t].round] \in Terminal
  /\ \A t, u \in Threads :
       /\ {thr[t].pc, thr[u].pc} \subseteq {"noViewing", "advance"}
       /\ thr[t].round = thr[u].round /\ rs[thr[t].round] = "voided"
       => t = u
  /\ \A t \in Threads, s \in Rounds :
       /\ thr[t].pc \in {"noViewing", "advance"}
       /\ rs[thr[t].round] = "voided" /\ s > thr[t].round
       => rs[s] = "none"

\* Nothing is paid for a round before it is settled.
Unpaid == \A p \in Players, r \in Rounds : rs[r] \notin {"finalized", "closed"} => paid[p][r] = 0

IInv == TypeOK /\ Busy /\ Locked /\ InOrder /\ LeavingOnce /\ Unpaid /\ PaidOnce /\ SettledIsComplete

\* Slots are claimed before anything is inserted, classified or recorded, and once.
SlotsClaimed ==
  /\ \A t \in Threads : thr[t].pc \in {"insert", "upload"} =>
       /\ thr[t].who \in submitted[thr[t].round]
       /\ <<thr[t].round, thr[t].who>> \notin inflight
       /\ scores[thr[t].round][thr[t].who] # "ok"
  /\ \A t, u \in Threads :
       /\ {thr[t].pc, thr[u].pc} \subseteq {"insert", "upload"}
       /\ thr[t].who = thr[u].who /\ thr[t].round = thr[u].round
       => t = u
  /\ \A r \in Rounds, p \in Players :
       <<r, p>> \in inflight \/ scores[r][p] = "ok" => p \in submitted[r]

\* While a round is open the game is not yet to be given up.
Hopeful ==
  room = "playing" => \A r \in Rounds : rs[r] \in {"revealed", "scoring"} => voids < MaxVoided

\* A round is only worked on once it has begun; its deadline is armed once, and whoever closes
\* it before the deadline has counted as many submissions as there are active participants.
ClosingCounted ==
  /\ \A r \in Rounds : <<"deadline", r>> \in timers => rs[r] # "none"
  /\ \A t \in Threads : thr[t].pc \in {"arm", "token", "slot", "insert", "upload", "close"}
                          => rs[thr[t].round] # "none"
  /\ \A t, u \in Threads : thr[t].pc = "arm" /\ thr[u].pc = "arm" => t = u
  /\ \A t \in Threads : thr[t].pc = "arm" => <<"deadline", thr[t].round>> \notin timers
  /\ \A t \in Threads : thr[t].pc = "close" /\ rs[thr[t].round] = "revealed" =>
       \/ /\ <<"deadline", thr[t].round>> \notin timers
          /\ \A u \in Threads : thr[u].pc = "arm" => thr[u].round # thr[t].round
       \/ Cardinality(Active) <= Cardinality(submitted[thr[t].round])

\* Nobody settles a round that still accepts submissions; if no upload is overtaken by the
\* closing, the submissions of the round are final then, and each has a result.
ResultsFirst ==
  /\ \A t \in Threads :
       /\ thr[t].pc \in {"token", "slot", "insert"} => t \in Workers
       /\ thr[t].pc \in {"pending", "guard", "force", "finalize"}
          => rs[thr[t].round] \notin {"none", "revealed"}
  /\ \A r \in Rounds : <<"guard", r>> \in timers => rs[r] \notin {"none", "revealed"}
  /\ Prompt => \A t \in Threads :
       /\ thr[t].pc \in {"token", "slot", "insert"} => rs[thr[t].round] = "revealed"
       /\ thr[t].pc = "force" => Unresolved(thr[t].round) \subseteq thr[t].stranded
       /\ thr[t].pc = "finalize" => Unresolved(thr[t].round) = {}
  /\ Prompt => SettledOnResults
-----------------------------------------------------------------------------
\* A round in scoring is never left to itself: its guard is scheduled, or somebody is still
\* on the way to finalize it (the comment in close_submissions on the pending count).
ScoringHasFinisher ==
  room = "playing" => \A r \in Rounds : rs[r] = "scoring" =>
    \/ <<"guard", r>> \in timers
    \/ \E t \in Threads : thr[t].round = r /\ thr[t].pc \in Labels \ {"idle", "advance", "close"}
    \/ \E p \in Players : <<r, p>> \in inflight

\* A game that began ends.
GameEnds == room = "playing" ~> room = "finished"
=============================================================================
