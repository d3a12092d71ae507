# Verification of the emoselfie backend

The program is the backend of a party game. Players of a room are shown an
emotion, each uploads one selfie before a deadline, a classifier scores the
faces, and the round pays points by rank. It runs as several identical pods
(FastAPI and python-socketio, one event loop each) over PostgreSQL and Redis.
Nothing is owned by a pod: a round is moved on by whichever request, socket
event, scoring task or timer comes first, on whichever pod it happens to run.
The modules here model that competition.

## Inventory

| component | code (`src/app/...`) | state | operations | talks to |
|---|---|---|---|---|
| Round lifecycle | `domain/round/runner.py`, `domain/round/service.py`, `domain/game/service.py`, `api/submissions.py` | `rooms`, `participants`, `rounds`, `submissions` in PostgreSQL; `round:{id}:submitted / scores / viewers`, capture token keys in Redis; scoring tasks in memory | start, submit, dispatch, record a score, close, force, finalize, advance, expire a participant | scheduler (timers), inference (classify), scoring, reactions (snapshot), presence (announcements) |
| Scheduler | `domain/scheduler/service.py`, `core/redis.py` | `sched:timers`, job leases, the batch of each pod's loop | schedule, cancel, claim, run, start, stop | calls the round lifecycle and the expiry of participants |
| Inference runner | `inference/runner.py` | bounded queue, worker tasks, slots, breaker history | start, classify, aclose, and a worker loop | called by the round lifecycle |
| Presence | `realtime/server.py`, `domain/participant/service.py`, `RoundRunner.reconcile_connections` and friends | `participants.connection_status`, `user:sock`, `sock`, `pod` keys, the grace timer | connect, disconnect, ping, reconcile, expire | scheduler, room lobby |
| Room lobby | `domain/room/service.py`, `api/rooms.py` | `rooms`, `participants` | create, join, read, change settings, start, close | presence, round lifecycle |
| Scoring | `domain/scoring/service.py` | none (pure) | rank and pay a round, accumulate, final ranking, most loved | called by finalize and finish_game |
| Reactions and skip votes | `domain/reaction/service.py`, `Realtime.react`, `Realtime.skip` | `rx:*` and `skips` keys; `reactions`, `round_skips` rows | toggle, count, snapshot at the close, drop | round lifecycle |
| Rate limiting | `core/ratelimit.py` | one token bucket per subject | take a token | every endpoint |
| Process start and stop | `core/resources.py`, `main.py` | the loops of one pod | start, close | all of the above |
| Sessions and tokens, image handling, classifier pipeline, emotion sequence, schema, configuration, transport | `core/security.py`, `media/`, `inference/pipeline.py` ..., `domain/game/emotions.py`, `db/`, `api/schemas.py` ... | none of their own that changes | - | - |

What is hard, and what has to hold all the same:

* **Rounds.** Uploads do not take the room lock; the last result, the request
  that closes the round and the scoring guard all try to finalize; timers fire
  late or after the fact; participants leave in between. Points must be paid
  once and to everybody they are owed to, a settled ledger must not change, a
  round must be left once, a round in scoring must have somebody who finishes
  it, and a game that began must end.
* **Inference.** A native call cannot be interrupted, so a timeout must not free
  its slot; jobs whose callers gave up must not run or keep their images; the
  shutdown must answer everybody and must not wait for itself; the breaker must
  count engine failures and nothing else.
* **Presence.** A client opens a new socket before the old one is gone, on
  another pod, for another room; a pod dies and its keys stay. A live socket
  must keep its slot, and a slot nobody holds must come back.
* **The viewing stage.** Reactions and votes go on while the round is being
  closed and its snapshot taken. Counts must be what was given, the snapshot must
  add up, be taken once and stay.
* **Scoring.** Ranks, ties, compensation, totals, podium and award must be what
  the rules say whatever the order of arrival, and the ranks shown must be the
  ranks paid.
* **Lobby.** A host creates two rooms at once while another closes; people enter,
  return and read the lobby while settings change and the game starts. Seats and
  colours must suffice, a host must have one open room, a game must be played as
  it was started, and a lobby must be shown in one version.
* **Scheduler.** A job may be scheduled again while it runs, a handler may outlast
  its lease, fail, be stopped or die with its pod in the middle of a batch. No job
  may run twice within a lease, no lease may swallow a timer as long as the grace is
  as configured, and no failure may end the loop.
* **Rate limits.** The bucket is refilled in doubles by the clocks of several pods and
  deleted by Redis's own. No interval may get more than it is due, and Retry-After must be
  long enough.

`PROJECT.json` lists each of these under `hazards`, at the line where it bites.

## Plan

| # | module | subject | state |
|---|---|---|---|
| 1 | `RoundSequence`, `RoundLifecycle` | the abstract game and the handlers that implement it | done, proved |
| 2 | `InferenceRunner` | queue, workers, timeouts, shutdown, breaker | done, proved |
| 3 | `Presence` | sockets, supersession, reconciler, grace | done, proved |
| 4 | `Scoring` | `score_round`, `accumulate`, `final_ranking`, `most_loved` as the game uses them, against definitions of their own | done, proved |
| 5 | `Viewing` | reactions, skip votes and the closing snapshot of one round | done, proved |
| 6 | `RoomLobby` | creation, capacity, colours, host uniqueness, settings, start and close | done, proved |
| 7 | `Scheduler` | batches, leases, re-added twins, failures of a pod's loop | done, proved |
| 8 | `TokenBucket` | bucket arithmetic under clocks that differ | done, proved |

"Proved" means every safety property that a run checks; liveness is model-checked
throughout (see Proofs). What would add most now are abstract specifications of single
components with a refinement, as `RoundSequence` is one of the rounds, and the two
hazards of `PROJECT.json` that no property covers.

## How the modules correspond to the code

### RoundLifecycle

One room, from the start of its game to its end. `room`, `current`, `voids`,
`member`, `rs`, `row`, `paid` are columns of PostgreSQL (`paid[p][r]` counts how
often round `r` was added to `p`'s `total_points`); `token`, `used`,
`submitted`, `scores`, `timers` are Redis keys. `lock` is the room row lock that
`_load` takes. `thr` holds what each request, scoring task or scheduler loop is
about to do. Awaits outside a short transaction separate two of its labels, but for
the commands that follow a read or a commit at once: `ReadPending` schedules the
guard it found needed, `Advance` and `ArmViewing` cancel one timer and schedule
another, in one step; a death between those commands is not modelled.

| action | code |
|---|---|
| `StartGame`, `ArmDeadline` | `rooms.start`: the transaction, then `schedule_deadline` |
| `Submit`, `UseToken`, `ClaimSlot`, `InsertRow` | `submissions.submit`, `accept_submission` |
| `Dispatch`, `RejectBody` | the body is read, `RoundRunner.dispatch` |
| `RecordScore`, `CheckResolved` | `_score`, `_finalize_if_resolved` |
| `CloseSubmissions`, `ReadPending` | `close_submissions`: transaction, then the pending count |
| `ReadStranded`, `ForceFailed` | `force_finalize`, `force_pending_failed` |
| `BeginFinalize`, `ReadRows`, `CommitFinalize`, `AbortFinalize` | `finalize`: one transaction under the lock, in three steps because uploads do not take the lock; `AbortFinalize` is the unique constraint on (round, participant) |
| `ArmViewing`, `SkipViewing`, `Advance`, `Skip` | the end of `finalize`, `advance`, `Realtime.skip` |
| `Claim` | `SchedulerLoop.run_once` |
| `Expire`, `Rejoin` | `expire_participant`, `join_room` |
| `Crash`, `LoseTask` | a pod dies, or a handler raises |

Abstractions: scores are only resolved, failed or absent ("ok" covers `submitted`
and `no_face`); points are counted, not summed; time is abstract, so a scheduled
timer may fire at any later moment; `round:{id}:viewers` is written with the slot
and kept equal to it; the two HLENs of the pending count are read as one, after
the status; a capture token counts as issued when its round opens, and a request
that is refused without a trace is not modelled. A closed room has no game and
does not occur; the two counts of the full house are read with the decision they
lead to; votes are left to `Viewing`, so a skip may succeed whenever the
round is in its viewing stage. Announcements to clients are left out.

Environment switches: `MayLeave` (players whose sockets may stay away past the
grace), `BadBodies` (uploads that may turn out unusable after the slot was
claimed), `Crashes`, and `Prompt` (no round closes between an upload's checks and
its commit).

### RoundSequence

The promise: rounds are played in order, closed once, settled once, and pay in
the step that settles them; the game ends after the last round or earlier.
`RoundLifecycle` implements it under `game <- room, phase <- rs, paid <- paid`.

### InferenceRunner

`queue`, `worker`, `started`, `image`, `result` are the fields of the same names
in `InferenceRunner` and `_Job`; `op` is the future of the executor; `circuit`
and `history` are the breaker's. An action is what the event loop does between
two awaits. `Call` is `classify` up to its wait, `Return` the answer, the timeout
or the cancellation with the `finally`; `Work` is one turn of `_worker`;
`Start`, `Open`, `GiveUp` are `start`; `Close`, `Drain`, `PutStops`,
`CloseBackend` are `aclose` and `_shutdown`.

Abstractions: a timeout or cancellation may come at any moment, and may overtake
an answer that is already set (the loop resumes a waiter later); an open circuit
may cool down at any moment; puts of sentinels that do not have to wait happen
together; the byte limit, which refuses an image before anything happens, is left
out. There are as many slots as workers (both are `concurrency`), so no worker
ever waits for a slot and slots are not a variable.

### Presence

One user, who may be a participant of several rooms, so `user:sock:{uuid}` is one
variable (`usersock`) and `sock:{sid}` another. `status`, `conn` are columns of
`participants`; `timer` is the member of `sched:timers`; `marker` the `pod:{id}`
keys. A transaction is one action because `connect`, `disconnect`, the reconciler
and the expiry all take the room's row lock; what a handler does after its commit
(`Supersede`, `KeepSlot`, `HoldLeftBehind`, `HoldSlot`, `HoldStale`, `HoldEntry`)
is an action each. `FailConnect` and `FailFollowUp` are the exception paths of
`connect`. `Drop` and `Die` are external: a client goes away, a pod dies.

Time: `aged` says that the grace has passed since `disconnected_at`. A timer that
was scheduled after that moment is "set" and cannot be due before the grace is
over; one that is overtaken by a later `disconnected_at` is "early" and fires too
soon. A client that repeats its entry postpones its timer without moving
`disconnected_at`; the model lets that timer fire at once.

Abstractions: the reconcilers of all pods share the sets `sweep` and `held`, and
the scheduler loops `expiring`; a marker expires only when its pod is dead (a pod
refreshes it three times per TTL); keys expire only for sockets that are gone;
python-socketio may call `disconnect` while `connect` still runs; fan-out, lobby
refreshes and rooms that are finished or closed are left out. Environment
switches: `Games` (participants whose room may start), `Mortal` (pods that may
die), `Prompt` (no handler is overtaken between its commit and what it does
next).

### Scoring

`ScoreRound`, `Accumulate`, `FinalRanking`, `MostLoved` and `DisplayRanks` are the
functions of the same names. Around them, `SettleRound` and `FinishGame` are the
parts of `finalize_round` and `finish_game` that feed them: every outcome of a
round for every participant, the ledger restricted to those still active, the
totals, and the end of the game with the reactions given.

Abstractions: scores are whole tenths, so the rounding of probabilities to scores
is left out; Redis lists the submissions in an arbitrary but constant order;
reactions are drawn at the end from a small set instead of being counted per
round. `RanksAsSpecified` compares the computed ranks with a definition that does
not sort, and `DisplayAgrees` compares them with the ranks of `display_ranks`,
which is other code.

The functions work on positions in the list of submissions, and `Sorted` is the
library's `sorted()` as an insertion sort: it inserts each position behind those that
do not come after it, so it is stable, and no two keys are equal where it is used.
`Before`, `Outranks` and `Lovelier` are the key tuples as orders.

### Viewing

One round from the first result to its close. `status`, `rows`, `tally`, `voted`
are the columns and rows in PostgreSQL; `scored`, `actors`, `count`, `skips`,
`timer`, `online` are Redis. `lock` is the room row lock, which `advance` takes
and reactions and votes do not.

| action | code |
|---|---|
| `React`, `Toggle` | `Realtime.react`: its checks, then `TOGGLE_REACTION` |
| `Skip`, `Vote`, `ReadVoters`, `Compare` | `Realtime.skip`: its checks, `TOGGLE_SKIP`, the votes, the comparison with `connected_viewers` |
| `ViewingEnds` | the timer `round_viewing_end` is claimed |
| `BeginClosing`, `ReadCounts`, `ReadActors`, `CommitClosing` | `advance` and `persist`: one transaction, in steps because reactions go on |
| `Drop` | `cancel` and `reactions.drop` after the commit |
| `ResultArrives`, `Finalize`, `Abort`, `Disconnect`, `Reconnect` | what the rest of the system does to the stage, reduced to it |

Abstractions: a void round is not viewed and left out; the counts of both kinds
are read together, and so are the sockets of the viewers; the votes are read with
the commit; the timer is scheduled with the settlement; the cancel and the drop
are one step. `touched` is history: what was toggled after the closing began, and
what `SnapshotAddsUp` therefore excuses. Environment switches: `Leaving`,
`Tapped` (the photos that get reactions) and `Crashes`.

### RoomLobby

`room`, `host`, `rounds`, `sequence` are columns of `rooms`; `seat` and `colour`
are columns of `participants`; `lock` is the room row lock. `cast` is history:
who was active when the game started and has not left since. `req` holds what each HTTP request has read.

| action | code |
|---|---|
| `Create`, `InsertRoom`, `Conflict`, `Lookup` | `rooms.create`, `create_room`: the insert, which the index `uq_room_active_owner` or a slug may refuse, and the look for the room in the way; each statement sees its own snapshot |
| `Join`, `TakeSeat`, `NoSeat` | `rooms.join`, `join_room`: its reads under the lock, then the seat or the refusal |
| `State`, `ReadMembers`, `Answer` | `rooms.lobby_state`, `lobby_snapshot` |
| `UpdateSettings`, `Start`, `Close` | the endpoints of these names, each one transaction under the lock |
| `FinishGame`, `Release` | what the rest of the system does to the room: the end of a game, `participants.release` |
| `Crash` | a request dies and its transaction rolls back |

Abstractions: a room that is over is left alone, since every operation refuses it;
a slug that collides is a `Conflict` without a cause; nicknames, the time limit
and the preview (a read without a lock that promises nothing) are left out.
Environment switches: `Hosts` and `Entries` (who enters which room).

### Scheduler

`timers` is the sorted set; `holder` and `until` are the job leases; `batch`, `pc`,
`claimed` and `since` are the loop of each pod: what it claimed, where it stands,
since when. `ClaimDue` is the Lua script, `Acquire`, `Skip`, `Finish`, `Fail` and
`Stop` are the branches of `run_once`, `RedisError` is an exception that only
`_loop` catches, `Crash` the death of a pod. `Schedule` is `hold_slot`, for the jobs
in `Twins`, which is `participant_left`; it falls due `grace` later, a setting that
`Init` takes from `Graces` and nothing changes. `Cancel` is anybody's, of any job. The
timers of a round, which are scheduled once, are there from the start, and so is a
first one of the twin.

Abstractions: one clock for all pods and Redis (a skew makes a
timer fire earlier or later by as much); a handler takes any time up to `MaxBatch` for its batch and has no
other effect; a release that Redis refuses looks like a `Crash` to the rest.

### TokenBucket

`tokens`, `at` and `expires` are the fields and the TTL of one key; `now` is the
slowest clock, and a caller's may be ahead by up to `Skew`. `mark`, `spent`,
`expiries` and `promise` are history: since when an observer counts, what was granted
since, how often the key was deleted, and from when on a caller that was refused
relies on its token.

The script computes in doubles. A token is `Window * Grain` units, so that a
millisecond refills `Capacity * Grain` of them, and `Grain` is thought of as a power of
two so large that every double the script meets is a whole number of units. Adding a
refill is then exact or off by up to `Rounding` units either way, whichever the doubles
come to (`Refilled`), and so is the time until the next token (`RetryMs`); a call
without a refill, and taking a token, are exact. The assumption on `Rounding`, that
it is less than a millisecond's refill even when it is lost each millisecond of a
window, leaves the doubles of the code's limits a wide margin (see the comment at
`ConstantsAssumption`).

## Runs

| run | what it shows | bounds |
|---|---|---|
| `rounds_storm` | points paid once (`PaidOnce`), nobody left out (`SettledIsComplete`), one upload per participant (`OneUpload`), settled ledgers frozen (`LedgerFrozen`), finished games final (`FinishedIsFinal`), an early close passes over no more active players than leavers have slots (`EarlyCloseIsCounted`), with crashes, unusable bodies, late uploads and departures | 3 players, 2 workers, 1 pod, 1 round |
| `rounds_sequence` | the streak of void rounds (`VoidStreak`), a settlement has everybody's result (`SettledOnResults`), a game that began ends (`GameEnds`), refinement of `RoundSequence` (`PlaysInSequence`) | 2 players, 1 worker, 1 pod, 2 rounds, fair, `Prompt`, no crash |
| `rounds_late_upload` | violation, see findings | 2 players, 2 workers, 1 round |
| `inference_calls` | slots, futures, images, breaker and shutdown | 3 calls, 2 workers, queue of 1, window and threshold 2, fair |
| `presence_seats` | a live socket keeps its slot (`LiveIsSeated`), with pods that die in the middle of handlers | 2 participants of one user, 2 sockets, 1 pod that may die |
| `presence_slots` | a slot without a socket is on the clock (`SlotIsTimed`) and returns (`SlotsReturn`) | 1 participant, 2 sockets, 2 pods, one may die, a game may start, fair, `Prompt` |
| `presence_keep_race` | violation | 1 participant, 1 socket |
| `scoring_rounds` | ranks, compensation, totals, podium and award are what the rules say | 5 players, one of whom leaves; 2 scores and 2 times in a first round, fixed choices in a second, reactions to 2 of them; the fifth player has fewer choices in the first round |
| `viewing_stage` | counts are what was given (`CountsAreActors`); the snapshot adds up (`SnapshotAddsUp`) and is final (`SnapshotIsFinal`), also after a closing that died | 3 viewers, one the host, 2 handlers that may die, 1 photo tapped, 1 kind |
| `lobby_rooms` | seats and colours suffice (`SeatsSound`), one open room per host (`OneOpenRoom`), games as long as set and played by exactly those who never left (`GameAsStarted`), lobbies in one version (`OneVersion`) | 4 users, 1 host, 3 seats, 2 rooms, 2 requests at once that may die, 2 attempts |
| `scheduler_twins` | one run of a job per lease (`Exclusive`), no timer lost to a lease with a long grace, and only so late a one with a short grace (`SkipsServedTwins`), every due timer is claimed (`DueIsClaimed`) | 3 jobs, one with twins, 2 pods, batches of 2, lease of 2, batches of up to 3 ticks, grace of 2, 4 or 5, 7 ticks, all faults, fair |
| `bucket_skew` | no interval gets too much (`GrantsBounded`), a millisecond after Retry-After there is a token (`RetrySuffices`) | 2 tokens in 10 ms, a second of 3 ms, refills off by up to a 14th of a millisecond's, clocks 1 ms apart, 14 ms |

Why the bounds are enough. Two threads besides the scheduler loop suffice for
every pairwise race of handlers, and three handlers at once are covered by the
pod's own; three players are the least number for which a departure, a
submission and a late upload differ while the game can go on; two rounds are the
least for which leaving a round twice or opening one twice shows. In the runner
a queue shorter than the number of workers makes the shutdown's sentinels wait,
and three calls fill the queue while both workers are busy. Two sockets and two
participants give supersession within a room and the move to another; a third
socket only repeats the second one's steps. In the viewing stage two handlers are
a reaction, or a vote, against a closing, or two closings against each other; two
viewers who react to one photo make its count more than a flag; kinds and photos
have keys and markers of their own and do not meet. In the lobby four users over
three seats fill a room, refuse one and let one return to a colour that is taken;
the second room is the one its host must not get. Two pods and a lease shorter than
a batch let a handler outlast its lease while the other pod runs the twin. A grace of 2
lets a twin fall due inside its lease, and swallows it; with 4 the bound of
`SkipsServedTwins` is tight, one tick; with 5, lease and batch together, nothing may be
skipped. Fourteen milliseconds are a window and more, so the bucket drains, fills, is
deleted and drained again. A millisecond that refills seven times two units and loses
one of them is the coarsest rounding the module's assumption allows for that window:
far coarser than a double's, so that a few refused calls show what takes the script
many. What is proved below holds for any
numbers. Symmetry is used in runs without liveness only.

Deadlock is checked in the runs of `Presence`, `Viewing`, `RoomLobby`, `Scheduler`
and `TokenBucket`: no handler is left waiting for a lock, a lease or a token that
nobody can give. `CHECK_DEADLOCK FALSE` is set for the other runs, whose systems
really stop: a finished game, a closed runner.

## Fairness

* `RoundLifecycle`: weak fairness of the running handlers together, of scores
  together and of timers together. The event loop runs on while a task is ready,
  the classifier answers within its 5 s timeout, and each pod polls the timers
  every 250 ms. Nobody has to upload, skip, leave or return.
* `InferenceRunner`: weak fairness of the shutdown, of the warmup, of native work
  and of each worker. Native work is assumed to end. The callers are not fair:
  `ShutdownEnds` does not need them.
* `Presence`: weak fairness of each handler, of the reconciler (every 30 s), of
  the timers, of passing time and expiring keys. Nobody has to enter, connect, go
  away or die. Weak fairness is enough since a step that is due stays due until it
  is taken or made unnecessary.

* `Scheduler`: weak fairness of each pod's claim and of its progress through a
  batch. Every pod polls every 250 ms whatever happened in the last poll, and
  handlers end, since Redis, PostgreSQL and the classifier have timeouts. No fault
  is fair, and neither are `Schedule` and `Cancel`.

## Findings

1. **An upload behind the closing** (`rounds_late_upload`). `submit` claims its
   slot and inserts its row without the room lock. Done after
   `close_submissions` read the pending count, this can make `finalize` run into
   the unique constraint and roll back. If the body then turns out unusable,
   nobody finalizes the round any more, and no guard was scheduled.
2. **A lost grace timer** (`presence_keep_race`). `connect` cancels the grace
   timer after its commit without looking at the socket again. A disconnect in
   between has just scheduled that timer, so the slot is never given back.

Where the code does less than a document asks, without a run of its own:

* **RD-07.** spec.md:230 closes a round early when all active participants have
  submitted; spec.md:752 makes a comparison of two numbers of that, and `dispatch`
  follows the numbers. The slot of somebody who submitted and left counts for an
  active participant who has not submitted, and who is then passed over. RD-07 as
  spec.md:230 words it is therefore not true of the code, and no property here says it
  is: `EarlyCloseIsCounted` says how far the code may depart from it, by one
  participant for each leaver with a slot.
* **Retry-After to the millisecond.** A bucket of 30 tokens in 60 s that is drained and
  then asked in vain every 200 ms holds 0.9999999999999999 of a token after the 2 s it
  told its caller, since each refused call stores a rounded sum, and refuses once more.
  `RetrySuffices` therefore grants a millisecond's grace; without it, it is false of the
  model too.
* **A grace below the lease.** A timer dropped in favour of a lease cannot happen at the
  default grace of 60 s, with a lease of 30 s and batches that take less than another
  30 s. With a `participant_grace_sec` below lease and batch together a timer may be
  lost, and with it a slot; `SkipsServedTwins` bounds when.
* **Skip votes** are compared with the connected viewers only when somebody votes: if
  the last viewer without a vote disconnects, the stage runs on to its timer.

One document departs from another: spec.md:212 (RO-16) makes whoever returns active
again, docs/contracts.md:39 has them wait while a game is played. The code follows the
latter, and `GameAsStarted` states it: its mutant is the former.

`rounds_sequence` and `presence_slots` assume `Prompt` because of findings 1 and
2: they show that these windows are the only ones through which the game stalls
or a slot is lost, as far as no pod crashes in the middle of a handler. A crash
between a commit and its follow-up loses the follow-up for good (the comment in
`SchedulerLoop.run_once` says so); safety under such crashes is checked and
proved, progress is not claimed.

## Proofs

`RoundLifecycle_proofs` proves with TLAPS, for every set of players, workers and
pods, every number of rounds and every value of the switches:

| theorem | statement |
|---|---|
| `TypeCorrect` | `Spec => []TypeOK`; no round beyond the emotion sequence is opened |
| `InvariantHolds` | `Spec => []IInv` |
| `PaysOnce` | `Spec => []PaidOnce` |
| `SettlesCompletely` | `Spec => []SettledIsComplete` |
| `Refinement` | `Spec => PlaysInSequence`: the handlers implement `RoundSequence` |
| `NothingAfterTheEnd` | `Spec => FinishedIsFinal` |
| `LedgerStaysClosed` | `Spec => LedgerFrozen` |

and, on uploads, closings and the streak:

| theorem | statement |
|---|---|
| `UploadsOnce` | `Spec => []OneUpload` |
| `StreakCounts` | `Spec => []VoidStreak` |
| `EarlyCloses` | `Spec => EarlyCloseIsCounted` |
| `SettlesOnResults` | `Spec => [](Prompt => SettledOnResults)` |

The only assumption is `ConstantsAssumption`. The inductive invariant is
`IInv == TypeOK /\ Busy /\ Locked /\ InOrder /\ LeavingOnce /\ Unpaid /\ PaidOnce
/\ SettledIsComplete`. `PaidOnce` is not inductive alone: a second `finalize`
would pay again unless the status it read is still `scoring` when it commits.
`Locked` says so (between its first read and its commit it holds the lock, and
the room and the round do not move), and `Unpaid` that a round in scoring has
paid nothing. For the refinement the hard step is `Advance` from a voided round,
whose status does not change when it is left: `LeavingOnce` says that only the one
handler that voided it can be on its way, that no timer and no skip leads there,
and that no later round is open while it is. `InOrder` carries "the rounds before
the last one opened have ended" through. Both temporal invariants follow from
`Init => IInv` and `IInv /\ [Next]_vars => IInv'`, with one lemma per action or
group of actions (`...Safe`), and the action properties from `IInv` and a case
analysis of `Next`.

The four theorems on uploads rest on invariants of their own, each inductive over
`IInv`. `SlotsClaimed` says that nothing is inserted, classified or recorded before
its slot is claimed, so the claim is what makes uploads unique. For `VoidStreak` the
set of void rounds since the last finalized one gains a round or is emptied in the
step that settles a round, and `Hopeful` bounds it: no round is open once the limit
is reached. `ClosingCounted` follows a full house from the count to the closing, and
uses that players leave but never become active again while a game is played; what the
slots and the active players have in common then drops out of the comparison.
`ResultsFirst` says that whoever is on the way to finalize has seen, or made, every
submission resolved; it needs `Prompt`, and finding 1 shows why.

`Viewing_proofs` does the same for the viewing stage, for every set of viewers,
photos, kinds and handlers, under the `ConstantsAssumption` of `Viewing`:

| theorem | statement |
|---|---|
| `InvariantHolds` | `Spec => []IInv` |
| `TypeCorrect` | `Spec => []TypeOK`; no reaction to one's own photo or to one without a result |
| `CountsHold` | `Spec => []CountsAreActors` |
| `SnapshotHolds` | `Spec => []SnapshotAddsUp` |
| `SnapshotStays` | `Spec => SnapshotIsFinal` |

`SnapshotAddsUp` is not inductive alone: whether the commit stores counts that
match its reactions depends on what the closing handler read two steps before.
`Steady` says so for each handler: between its first read and its commit it holds
the lock, the round is viewed, and for every pair that was not touched since, the
counts and the actors it has read are still those in Redis. That needs a drop of
the keys never to overlap a closing, hence the clause that a handler about to
drop has seen the round closed. `ToggleCounts` is the lemma about the Lua script:
it moves a count by one exactly when it moves an actor, so the clamp at zero never
acts. No finiteness is assumed of the viewers; that the set of actors is finite is
part of the invariant.

`RoomLobby_proofs`, for every set of users, rooms and requests and every capacity,
number of attempts and switch:

| theorem | statement |
|---|---|
| `InvariantHolds` | `Spec => []IInv` |
| `SeatsAreSound` | `Spec => []SeatsSound` |
| `HostsOneRoom` | `Spec => []OneOpenRoom` |
| `PlayedAsStarted` | `Spec => []GameAsStarted` |
| `ShownInOneVersion` | `Spec => []OneVersion` |

The inductive part is `Snapshots`: what a request has read under the row lock is
still so until it is done, because everything that changes the room needs the lock.
That somebody who is let in finds a colour is a counting argument on top: fewer
than `Capacity` occupants use fewer than `Capacity` colours, so one is free, and
then there is a least free one. It uses that the users are finite.

`InferenceRunner_proofs`, for every set of requests, every finite set of workers and
every capacity, window and threshold:

| theorem | statement |
|---|---|
| `Types` | `Spec => []TypeOK`; the queue stays within its bound, the breaker's memory within its window |
| `Invariant` | `Spec => []IInv` |
| `SlotsAreKept` | `Spec => [](SlotsKept /\ Cardinality(Native) <= Cardinality(Workers))` |
| `NobodyIsForgotten` | `Spec => []NoOrphan` |
| `BackendClosedLast` | `Spec => []ClosedAfterWork` |
| `ImagesAreReleased` | `Spec => []ImagesReleased` |
| `CircuitOpensForACause` | `Spec => []CircuitHasCause` |
| `NothingAbandonedRuns` | `Spec => NoAbandonedRun` |

`NoOrphan` follows from `Held`: an open future still has the image of its job in the
queue, or a worker has the job. It is inductive only with `KeptIsOpen` (whose image is
kept has an open future and was never run) and with `Phases`, which says in which order
start and shutdown go: no worker before the runner is up, nothing but sentinels in the
queue once the queue was drained. `CircuitHasCause` counts: `FailuresAreBad` says that
the failures in the breaker's memory are at most as many as the distinct runs that
failed or outlasted their caller, which holds because a run reaches `record` once. A
timeout in the queue is recorded nowhere, so it is not among them.

`Presence_proofs`, for every set of members, sockets and pods and every value of the
switches:

| theorem | statement |
|---|---|
| `Types` | `Spec => []TypeOK`; nobody leaves behind the participant they connect for |
| `LiveAreSeated` | `Spec => []LiveIsSeated` |
| `Invariant` | `Spec => []IInv` |
| `SlotsAreTimed` | `Spec => [](Prompt => SlotIsTimed)` |

`LiveIsSeated` needs `Unopened` and `OpenIsServed`: a socket that was not opened has no
trace that an old handler could act on, and an open one is served by a pod that runs
and whose marker says so, so the reconciler does not take it for dead. It holds with
handlers overtaken and pods dying anywhere. `SlotIsTimed` does not (finding 2): it needs
`Prompt`, and with it `KeepsItsSlot`, which says that between the commit of a connection
and the cancelling of the timer nothing undoes the commit.

`Scoring_proofs`, for every finite set of players, every number of rounds, all
submissions, times of joining and reactions:

| theorem | statement |
|---|---|
| `InvariantHolds` | `Spec => []IInv` |
| `TypeCorrect` | `Spec => []TypeOK`; at most 100 points a round, none below zero |
| `RanksHold` | `Spec => []RanksAsSpecified` |
| `RanksShown` | `Spec => []DisplayAgrees` |
| `FailuresPaid` | `Spec => []FailureCostsNothing` |
| `BetterPays` | `Spec => []BetterNeverPaysLess` |
| `PodiumHolds` | `Spec => []PodiumIsFair` |
| `AwardHolds` | `Spec => []AwardIsEarned` |

The invariant is small (nobody has two submissions in a round, totals stay within what
the rounds played can pay); the work is in what the functions return. `SortedLists` says
that `Sorted` lists every position once, in order, for any strict order, and
`PlaceCounts` that the k-th has k - 1 before it: that is what turns a place in a sorted
list into the count in `RanksAsSpecified`. Both, and `SumTakes`, `SumBounds` and
`SumRenumbered` on sums, are inductions over finite sets. The library's induction
theorems cannot be used by the provers here, so each is an argument by a smallest
counterexample, from the well-foundedness of the strict subset relation. `Ranking` and
`Awarded` of the improved round in `BetterPays` are compared with the old ones by the
positions ahead of a submission, and a mean of numbers between two bounds stays between
them after rounding (`CompensationBounds`), which gives the last part of `FailuresPaid`.

`Scheduler_proofs`, for every set of jobs and pods, batch size, lease and grace:

| theorem | statement |
|---|---|
| `InvariantHolds` | `Spec => []IInv` |
| `RunsExclusively` | `Spec => []Exclusive` |
| `SkipsAreServed` | `Spec => SkipsServedTwins` |

`LeasedOrLate` is the strengthening for `Exclusive`: a pod that runs a job has the lease
it acquired, or its time is up. The steps to watch are those that free a lease, where
`RELEASE_SCRIPT` compares the token, and the expiry. For `SkipsServedTwins`,
`TwinsServed` says of every timer and every claimed entry of a leased job that the lease
serves it or takes as much of it as the property allows. A lease begins when an entry is
served, so the other entries of the job matter: `Apart` says that of two claims
of one job, or a claim and a timer, one is scheduled after the other claim and due a
grace later, `InTime` that a batch is handled within its bound, and
`OnceOnly` that a job without twins has one entry at most, so it is never skipped.

`TokenBucket_proofs`, for every capacity, window, second and skew, and every rounding
within the assumption:

| theorem | statement |
|---|---|
| `InvariantHolds` | `Spec => []IInv` |
| `GrantsAreBounded` | `Spec => []GrantsBounded` |
| `RetryIsEnough` | `Spec => []RetrySuffices` |

`GrantsBounded` is not inductive: it does not say what the bucket can still give.
`Within` bounds the sum of what was granted and what the fastest clock could take
now; a full bucket, or a deleted one, gives the refill of the skew on top, and each
deletion once more; it counts `Fast` units a millisecond, a refill that is rounded up
every time. `Promised` says that a caller's token will have been refilled a millisecond
after the time it was told, whoever was refused since, at `Slow` units a millisecond; it
is inductive because the roundings of at most `Window + 1` calls, and of the time told,
are less than that millisecond refills, which is what the assumption says.

Model-checked only: the liveness properties `GameEnds`, `ShutdownEnds`, `SlotsReturn`
and `DueIsClaimed`, because liveness under fairness is beyond the prover.
`ScoringHasFinisher` and, without `Prompt`, `SlotIsTimed` do not hold (findings). Every
other property of a run is the statement of a theorem. The proofs assume nothing but
the `ConstantsAssumption` of each module, which the runs evaluate, and the inductive
invariants were checked by TLC on the runs' instances before they were proved.

## Not modelled

Sessions, tokens, image parsing, the
classifier pipeline, the drawing of emotions, configuration, schema and transport
are stateless or plain I/O; where their outcome matters (a refused body, a failed
classification, a unique constraint) it is a choice of the environment or a
guard. The pods' start and stop is wiring; a pod's death is modelled in
`RoundLifecycle` and `Presence`, and the orderly stop of its inference runner in
`InferenceRunner`.
