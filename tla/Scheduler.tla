----------------------------- MODULE Scheduler -----------------------------
(***************************************************************************)
(* The distributed timers: a sorted set of jobs in Redis by the time they  *)
(* are due, a loop in every pod that claims the due ones by removing them  *)
(* and handles its batch one by one, and a lease per job that keeps a twin *)
(* of the job, scheduled again meanwhile, from running next to it.         *)
(*                                                                         *)
(* Time is a number that Tick advances.  A handler's own work is that of   *)
(* the modules RoundLifecycle and Presence; here it only takes time, ends, *)
(* fails or dies.  What those modules schedule once, a round's deadline,   *)
(* guard and viewing end, is a timer from the start here, and may be       *)
(* cancelled; only participant_left is scheduled again and again.          *)
(***************************************************************************)
EXTENDS Integers, Sequences

CONSTANTS
  Jobs,
  Twins,     \* jobs that may be scheduled again: participant_left
  Pods,
  NoPod,     \* nobody's lease
  CLAIM_BATCH,
  LeaseTtl,  \* JOB_LOCK_TTL_MS
  Graces,    \* settings of participant_grace_sec to consider
  MaxBatch,  \* environment: from claiming a batch to its end at most, unless the pod dies
  Faults,    \* environment: what may go wrong
  MaxTime    \* bound of the clock

ASSUME ConstantsAssumption ==
  /\ Twins \subseteq Jobs /\ NoPod \notin Pods
  /\ CLAIM_BATCH \in Nat \ {0} /\ LeaseTtl \in Nat \ {0} /\ Graces \subseteq Nat \ {0}
  /\ MaxBatch \in Nat /\ MaxTime \in Nat
  /\ Faults \subseteq {"fail", "redis", "stop", "crash"}

VARIABLES
  grace,   \* participant_grace_sec, from scheduling a twin to its due time; never changes
  now,
  timers,  \* sched:timers: the due time of each job, Never for no member
  holder,  \* sched:lock:{job}: whose token it holds
  until,   \* ... and when it expires
  pc,      \* where each pod's run_once stands
  batch,   \* the claimed jobs still to handle, with the time they were due
  claimed, \* when the pod claimed its batch
  since    \* when it acquired the lease of the job it runs

vars == <<grace, now, timers, holder, until, pc, batch, claimed, since>>

Never == -1
Leased(j)  == holder[j] # NoPod
IsDue(j)   == timers[j] # Never /\ timers[j] <= now
Current(p) == batch[p][1][1]

Init ==
  /\ grace \in Graces /\ now = 0
  /\ timers = [j \in Jobs |-> 0]
  /\ holder = [j \in Jobs |-> NoPod] /\ until = [j \in Jobs |-> 0]
  /\ pc = [p \in Pods |-> "idle"] /\ batch = [p \in Pods |-> << >>]
  /\ claimed = [p \in Pods |-> 0] /\ since = [p \in Pods |-> 0]
-----------------------------------------------------------------------------
\* Time passes, but no pod that lives takes longer over its batch than MaxBatch.  Redis
\* deletes the leases that expire.
Tick ==
  /\ now < MaxTime
  /\ \A p \in Pods : pc[p] \in {"next", "run"} => now < claimed[p] + MaxBatch
  /\ now' = now + 1
  /\ holder' = [j \in Jobs |-> IF until[j] <= now' THEN NoPod ELSE holder[j]]
  /\ until' = [j \in Jobs |-> IF until[j] <= now' THEN 0 ELSE until[j]]
  /\ UNCHANGED <<grace, timers, pc, batch, claimed, since>>

\* Mutation: the seconds of the setting are added to the milliseconds of the clock.
FireAt_Seconds == now
\* hold_slot
FireAt == now + grace

\* schedule: ZADD, which moves a member that is there already.
Schedule(j) ==
  /\ timers' = [timers EXCEPT ![j] = FireAt]
  /\ UNCHANGED <<grace, now, holder, until, pc, batch, claimed, since>>

\* cancel: ZREM.
Cancel(j) ==
  /\ timers[j] # Never
  /\ timers' = [timers EXCEPT ![j] = Never]
  /\ UNCHANGED <<grace, now, holder, until, pc, batch, claimed, since>>

DueJobs == {j \in Jobs : IsDue(j)}

\* ZRANGEBYSCORE ... LIMIT 0 CLAIM_BATCH: the earliest first, in any order among equals.
Earliest(s) ==
  /\ \A i, k \in DOMAIN s : i # k => s[i] # s[k]
  /\ \A i, k \in DOMAIN s : i <= k => timers[s[i]] <= timers[s[k]]
  /\ \A i \in DOMAIN s, j \in DueJobs : timers[j] < timers[s[i]] => \E k \in DOMAIN s : s[k] = j
  /\ Len(s) = CLAIM_BATCH \/ \A j \in DueJobs : \E k \in DOMAIN s : s[k] = j

\* ... and ZREM.
Remaining(s) == [j \in Jobs |-> IF \E i \in DOMAIN s : s[i] = j THEN Never ELSE timers[j]]

\* CLAIM_DUE, one script; a loop that finds nothing due sleeps on.
ClaimDue(p) ==
  /\ pc[p] = "idle" /\ DueJobs # {}
  /\ \E n \in 1 .. CLAIM_BATCH : \E s \in [1 .. n -> DueJobs] :
       /\ Earliest(s)
       /\ timers' = Remaining(s)
       /\ batch' = [batch EXCEPT ![p] = [i \in 1 .. n |-> <<s[i], timers[s[i]]>>]]
  /\ pc' = [pc EXCEPT ![p] = "next"]
  /\ claimed' = [claimed EXCEPT ![p] = now]
  /\ UNCHANGED <<grace, now, holder, until, since>>

\* The loop goes on with the next job of the batch, or sleeps.
NextJob(p) ==
  LET rest == Tail(batch[p])
  IN /\ batch' = [batch EXCEPT ![p] = rest]
     /\ pc' = [pc EXCEPT ![p] = IF rest = << >> THEN "idle" ELSE "next"]
     /\ claimed' = [claimed EXCEPT ![p] = IF rest = << >> THEN 0 ELSE @]
     /\ since' = [since EXCEPT ![p] = 0]

\* Mutation: a tick that failed ends the loop.
AfterError_Dead == "dead"
\* _loop catches whatever run_once raises and sleeps.
AfterError == "idle"

\* What was claimed is lost with the batch.
DropBatch(p, label) ==
  /\ batch' = [batch EXCEPT ![p] = << >>]
  /\ pc' = [pc EXCEPT ![p] = label]
  /\ claimed' = [claimed EXCEPT ![p] = 0] /\ since' = [since EXCEPT ![p] = 0]

\* Mutation: SET without NX.
Grants_Always(j) == TRUE
\* SET NX: only if no lease stands.
Grants(j) == ~ Leased(j)

\* RedisLease.acquire, and the handler starts.
Acquire(p) ==
  LET j == Current(p)
  IN /\ pc[p] = "next" /\ Grants(j)
     /\ holder' = [holder EXCEPT ![j] = p]
     /\ until' = [until EXCEPT ![j] = now + LeaseTtl]
     /\ since' = [since EXCEPT ![p] = now]
     /\ pc' = [pc EXCEPT ![p] = "run"]
     /\ UNCHANGED <<grace, now, timers, batch, claimed>>

\* Somebody holds the lease of this job: the claimed timer is dropped.
Skip(p) ==
  /\ pc[p] = "next" /\ ~ Grants(Current(p))
  /\ NextJob(p)
  /\ UNCHANGED <<grace, now, timers, holder, until>>

\* The handler ends; its lease is left to expire.
Finish(p) ==
  /\ pc[p] = "run"
  /\ NextJob(p)
  /\ UNCHANGED <<grace, now, timers, holder, until>>

\* RELEASE_SCRIPT compares the token: a later lease of somebody else stays.
Releases(p, j) == holder[j] = p

Release(p) ==
  LET j == Current(p)
  IN IF Releases(p, j)
     THEN holder' = [holder EXCEPT ![j] = NoPod] /\ until' = [until EXCEPT ![j] = 0]
     ELSE UNCHANGED <<holder, until>>

\* The handler raises: the job is lost, its lease freed, and the batch goes on.
Fail(p) ==
  /\ "fail" \in Faults /\ pc[p] = "run"
  /\ Release(p) /\ NextJob(p)
  /\ UNCHANGED <<grace, now, timers>>

\* Redis refuses the lease: the rest of the batch is lost, the loop goes on.
RedisError(p) ==
  /\ "redis" \in Faults /\ pc[p] = "next"
  /\ DropBatch(p, AfterError)
  /\ UNCHANGED <<grace, now, timers, holder, until>>

\* stop cancels the handler, which gives its lease back; another process takes over the pod.
Stop(p) ==
  /\ "stop" \in Faults /\ pc[p] = "run"
  /\ Release(p) /\ DropBatch(p, "idle")
  /\ UNCHANGED <<grace, now, timers>>

\* The pod dies; its lease stands until it expires.
Crash(p) ==
  /\ "crash" \in Faults /\ pc[p] \in {"next", "run"}
  /\ DropBatch(p, "idle")
  /\ UNCHANGED <<grace, now, timers, holder, until>>
-----------------------------------------------------------------------------
Step(p) == Acquire(p) \/ Skip(p) \/ Finish(p)

Next ==
  \/ Tick
  \/ \E j \in Twins : Schedule(j)
  \/ \E j \in Jobs : Cancel(j)
  \/ \E p \in Pods : ClaimDue(p) \/ Step(p) \/ Fail(p) \/ RedisError(p) \/ Stop(p) \/ Crash(p)

Spec == Init /\ [][Next]_vars

\* Every pod polls every 250 ms, and handlers end: they wait for Redis, PostgreSQL and a
\* classifier with a timeout.
Fairness == \A p \in Pods : WF_vars(ClaimDue(p)) /\ WF_vars(Step(p))

FairSpec == Spec /\ Fairness
-----------------------------------------------------------------------------
Entry == Jobs \X Nat

TypeOK ==
  /\ grace \in Graces /\ now \in Nat
  /\ timers \in [Jobs -> Nat \cup {Never}]
  /\ holder \in [Jobs -> Pods \cup {NoPod}] /\ until \in [Jobs -> Nat]
  /\ pc \in [Pods -> {"idle", "next", "run"}]
  /\ batch \in [Pods -> Seq(Entry)]
  /\ claimed \in [Pods -> Nat] /\ since \in [Pods -> Nat]

\* Two pods run one job at once only if one of them has outlived its lease; a pod whose lease
\* expired never takes away the lease of another (RELEASE_SCRIPT, "must never delete a newer
\* worker's lock").
Exclusive ==
  \A p, q \in Pods : p # q /\ pc[p] = "run" /\ pc[q] = "run" /\ Current(p) = Current(q) =>
    now >= since[p] + LeaseTtl \/ now >= since[q] + LeaseTtl

\* A timer is dropped in favour of a lease only if it is a twin, and only if the grace is
\* shorter than a lease and a batch: with the settings the code comes with, 60 s against 30 s,
\* no timer is ever lost to a lease.  With a shorter grace the run under the lease began when
\* the timer was due already and serves it, which takes a grace within a batch, or the timer
\* fell due less than LeaseTtl + MaxBatch - grace before the lease ends (run_once).
SkipsServedTwins ==
  [][\A p \in Pods : Skip(p) =>
       LET j == Current(p)  due == batch[p][1][2]
       IN /\ j \in Twins /\ grace < LeaseTtl + MaxBatch
          /\ \/ due <= until[j] - LeaseTtl /\ grace <= MaxBatch
             \/ until[j] - due <= LeaseTtl + MaxBatch - grace]_vars

\* A timer that is due is claimed, or moved or cancelled by its owner: no failed tick, failed
\* handler or dead process stops the loops for good ("A failed tick must never stop the timer
\* loop for the whole Pod").
DueIsClaimed == \A j \in Jobs : IsDue(j) ~> ~ IsDue(j)
-----------------------------------------------------------------------------
(* What makes Exclusive and SkipsServedTwins inductive; the proofs in      *)
(* Scheduler_proofs are about it.                                          *)

\* A pod that runs a job has its lease, or has outlived it.
LeasedOrLate ==
  \A p \in Pods :
    /\ pc[p] # "idle" => batch[p] # << >>
    /\ pc[p] = "run" => \/ now >= since[p] + LeaseTtl
                        \/ holder[Current(p)] = p /\ until[Current(p)] = since[p] + LeaseTtl

Claimed(p) == {batch[p][i] : i \in DOMAIN batch[p]}

\* What was claimed was due, and is handled within MaxBatch; leases begin when they are given.
InTime ==
  /\ \A p \in Pods :
       /\ claimed[p] <= now /\ \A e \in Claimed(p) : e[2] <= now
       /\ IF pc[p] = "idle" THEN batch[p] = << >> ELSE now <= claimed[p] + MaxBatch
  /\ \A j \in Jobs : Leased(j) => now < until[j] /\ LeaseTtl <= until[j] /\ until[j] <= now + LeaseTtl

\* A claim takes the job's timer along: a twin of it is scheduled after one of the two claims.
Apart ==
  \A p \in Pods :
    /\ \A i, k \in DOMAIN batch[p] : i # k => batch[p][i][1] # batch[p][k][1]
    /\ \A e \in Claimed(p) : timers[e[1]] # Never => claimed[p] + grace <= timers[e[1]]
    /\ \A q \in Pods : p # q => \A e \in Claimed(p), f \in Claimed(q) : e[1] = f[1] =>
         claimed[p] + grace <= f[2] \/ claimed[q] + grace <= e[2]

\* The lease of j serves a timer of j that was due when it began, or comes at most so much
\* later as SkipsServedTwins allows.
Serves(j, due) ==
  \/ due <= until[j] - LeaseTtl /\ grace <= MaxBatch
  \/ until[j] - due <= LeaseTtl + MaxBatch - grace

\* Every timer of j but the one a pod is running.
TwinsServed ==
  \A j \in Jobs : Leased(j) =>
    /\ timers[j] # Never => Serves(j, timers[j])
    /\ \A p \in Pods : \A i \in DOMAIN batch[p] :
         batch[p][i][1] = j /\ ~ (i = 1 /\ pc[p] = "run") => Serves(j, batch[p][i][2])

\* A job without twins is a timer, an entry of one batch, or neither; once it has a lease it
\* is with the pod that runs it or gone.
OnceOnly ==
  \A j \in Jobs \ Twins : \A p \in Pods : \A i \in DOMAIN batch[p] : batch[p][i][1] = j =>
    /\ timers[j] = Never
    /\ Leased(j) => i = 1 /\ pc[p] = "run"
    /\ \A q \in Pods : \A k \in DOMAIN batch[q] : batch[q][k][1] = j => p = q /\ i = k

LeasedIsTaken == \A j \in Jobs \ Twins : Leased(j) => timers[j] = Never

IInv ==
  /\ TypeOK /\ LeasedOrLate
  /\ InTime /\ Apart /\ TwinsServed /\ OnceOnly /\ LeasedIsTaken
=============================================================================
