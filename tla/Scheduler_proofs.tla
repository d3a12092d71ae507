--------------------------- MODULE Scheduler_proofs ---------------------------
(***************************************************************************)
(* Proofs about the timers, for any jobs, pods, batches and times: a job   *)
(* runs in two pods at once only if one of them has outlived its lease,    *)
(* and what is dropped for a lease is a twin the lease serves, or one that *)
(* falls due too late for it by a bounded time.                            *)
(***************************************************************************)
EXTENDS Scheduler, TLAPS

(* Sequences.                                                              *)

LEMMA TailFacts ==
  ASSUME NEW S, NEW s \in Seq(S), s # << >>
  PROVE  Tail(s) \in Seq(S) /\ s[1] \in S
  OBVIOUS

\* What the lease of a run rests on.
Leases == TypeOK /\ LeasedOrLate

LEMMA FirstOfBatch ==
  ASSUME TypeOK, LeasedOrLate, NEW p \in Pods, pc[p] # "idle"
  PROVE  batch[p] \in Seq(Entry) /\ batch[p] # << >> /\ Current(p) \in Jobs
<1>1. batch[p] \in Seq(Entry) /\ batch[p] # << >>
  BY DEF TypeOK, LeasedOrLate
<1>2. batch[p][1] \in Entry
  BY <1>1, TailFacts
<1>3. QED
  BY <1>1, <1>2 DEF Entry, Current

-----------------------------------------------------------------------------
(* Leases.                                                                 *)

\* The pod leaves the job it runs: nothing of the others' moves.
Leaves(p) ==
  /\ pc' \in [Pods -> {"idle", "next", "run"}] /\ pc'[p] # "run"
  /\ batch' \in [Pods -> Seq(Entry)] /\ (pc'[p] # "idle" => batch'[p] # << >>)
  /\ claimed' \in [Pods -> Nat] /\ since' \in [Pods -> Nat]
  /\ \A q \in Pods : q # p => pc'[q] = pc[q] /\ batch'[q] = batch[q] /\ since'[q] = since[q]

LEMMA NextJobLeaves ==
  ASSUME TypeOK, LeasedOrLate, NEW p \in Pods, pc[p] # "idle", NextJob(p)
  PROVE  Leaves(p)
<1> DEFINE rest == Tail(batch[p])
<1>1. rest \in Seq(Entry)
  BY FirstOfBatch, TailFacts
<1>2. /\ batch' = [batch EXCEPT ![p] = rest]
      /\ pc' = [pc EXCEPT ![p] = IF rest = << >> THEN "idle" ELSE "next"]
      /\ claimed' = [claimed EXCEPT ![p] = IF rest = << >> THEN 0 ELSE @]
      /\ since' = [since EXCEPT ![p] = 0]
  BY DEF NextJob
<1> HIDE DEF rest
<1>3. QED
  BY <1>1, <1>2 DEF Leaves, TypeOK

LEMMA DropBatchLeaves ==
  ASSUME TypeOK, NEW p \in Pods, DropBatch(p, "idle")
  PROVE  Leaves(p)
<1>1. << >> \in Seq(Entry)
  OBVIOUS
<1>2. QED
  BY <1>1 DEF DropBatch, Leaves, TypeOK

\* Leases that stand, those of other pods anyway, stay as they are.
LEMMA LeavingKeeps ==
  ASSUME TypeOK, LeasedOrLate, NEW p \in Pods, Leaves(p), UNCHANGED <<grace, now, timers>>,
         holder' \in [Jobs -> Pods \cup {NoPod}], until' \in [Jobs -> Nat],
         \A j \in Jobs : holder[j] # p => holder'[j] = holder[j] /\ until'[j] = until[j]
  PROVE  Leases'
<1>1. TypeOK'
  BY DEF TypeOK, Leaves
<1>2. ASSUME NEW q \in Pods
      PROVE  /\ pc'[q] # "idle" => batch'[q] # << >>
             /\ pc'[q] = "run" => \/ now' >= since'[q] + LeaseTtl
                                  \/ /\ holder'[Current(q)'] = q
                                     /\ until'[Current(q)'] = since'[q] + LeaseTtl
  <2>1. CASE q = p
    BY <2>1 DEF Leaves
  <2>2. CASE q # p
    <3>1. pc'[q] = pc[q] /\ batch'[q] = batch[q] /\ since'[q] = since[q] /\ Current(q)' = Current(q)
      BY <2>2 DEF Leaves, Current
    <3>2. CASE pc[q] = "run"
      <4>1. Current(q) \in Jobs
        BY <3>2, FirstOfBatch
      <4>2. QED
        BY <2>2, <3>1, <3>2, <4>1 DEF LeasedOrLate
    <3>3. CASE pc[q] # "run"
      BY <3>1, <3>3 DEF LeasedOrLate
    <3>4. QED
      BY <3>2, <3>3
  <2>3. QED
    BY <2>1, <2>2
<1>3. QED
  BY <1>1, <1>2 DEF Leases, LeasedOrLate

\* Release frees the pod's own lease, if it still stands.
LEMMA ReleaseFacts ==
  ASSUME TypeOK, NEW p \in Pods, Current(p) \in Jobs, Release(p)
  PROVE  /\ holder' \in [Jobs -> Pods \cup {NoPod}] /\ until' \in [Jobs -> Nat]
         /\ \A j \in Jobs : holder[j] # p => holder'[j] = holder[j] /\ until'[j] = until[j]
<1> DEFINE i == Current(p)
<1>1. /\ holder[i] = p => /\ holder' = [holder EXCEPT ![i] = NoPod]
                         /\ until' = [until EXCEPT ![i] = 0]
      /\ holder[i] # p => holder' = holder /\ until' = until
  BY DEF Release, Releases
<1>2. i \in Jobs /\ holder \in [Jobs -> Pods \cup {NoPod}] /\ until \in [Jobs -> Nat]
  BY DEF TypeOK
<1> HIDE DEF i
<1>3. CASE holder[i] = p
  BY <1>1, <1>2, <1>3
<1>4. CASE holder[i] # p
  BY <1>1, <1>2, <1>4
<1>5. QED
  BY <1>3, <1>4

\* The steps by which a pod leaves a job.
LEMMA LeavingSteps ==
  ASSUME TypeOK, LeasedOrLate, NEW p \in Pods,
         Skip(p) \/ Finish(p) \/ Fail(p) \/ RedisError(p) \/ Stop(p) \/ Crash(p)
  PROVE  Leases'
<1>1. pc[p] # "idle"
  BY DEF Skip, Finish, Fail, RedisError, Stop, Crash
<1>2. Current(p) \in Jobs
  BY <1>1, FirstOfBatch
<1>3. Leaves(p)
  BY <1>1, NextJobLeaves, DropBatchLeaves DEF Skip, Finish, Fail, RedisError, Stop, Crash, AfterError
<1>4. UNCHANGED <<grace, now, timers>>
  BY DEF Skip, Finish, Fail, RedisError, Stop, Crash
<1>5. CASE Fail(p) \/ Stop(p)
  BY <1>2, <1>3, <1>4, <1>5, ReleaseFacts, LeavingKeeps DEF Fail, Stop
<1>6. CASE Skip(p) \/ Finish(p) \/ RedisError(p) \/ Crash(p)
  <2>1. UNCHANGED <<holder, until>>
    BY <1>6 DEF Skip, Finish, RedisError, Crash
  <2>2. QED
    BY <1>3, <1>4, <2>1, LeavingKeeps DEF TypeOK
<1>7. QED
  BY <1>5, <1>6

\* Only a free lease is acquired, so whoever still runs the job has outlived its own.
LEMMA AcquireKeeps ==
  ASSUME TypeOK, LeasedOrLate, NEW p \in Pods, Acquire(p)
  PROVE  Leases'
<1> DEFINE j == Current(p)
<1>1. j \in Jobs /\ batch[p] # << >>
  BY FirstOfBatch DEF Acquire
<1>2. /\ holder[j] = NoPod /\ UNCHANGED <<grace, now, timers, batch, claimed>>
      /\ holder' = [holder EXCEPT ![j] = p] /\ until' = [until EXCEPT ![j] = now + LeaseTtl]
      /\ since' = [since EXCEPT ![p] = now] /\ pc' = [pc EXCEPT ![p] = "run"]
  BY DEF Acquire, Grants, Leased
<1>3. \A q \in Pods : Current(q)' = Current(q)
  BY <1>2 DEF Current
<1> HIDE DEF j
<1>4. TypeOK'
  <2>1. now + LeaseTtl \in Nat
    BY ConstantsAssumption DEF TypeOK
  <2>2. QED
    BY <1>1, <1>2, <2>1 DEF TypeOK
<1>5. ASSUME NEW q \in Pods
      PROVE  /\ pc'[q] # "idle" => batch'[q] # << >>
             /\ pc'[q] = "run" => \/ now' >= since'[q] + LeaseTtl
                                  \/ /\ holder'[Current(q)'] = q
                                     /\ until'[Current(q)'] = since'[q] + LeaseTtl
  <2>1. CASE q = p
    BY <1>1, <1>2, <1>3, <2>1 DEF TypeOK, j
  <2>2. CASE q # p
    <3>1. pc'[q] = pc[q] /\ batch'[q] = batch[q] /\ since'[q] = since[q] /\ now' = now
      BY <1>2, <2>2 DEF TypeOK
    <3>2. CASE pc[q] = "run"
      <4>1. Current(q) \in Jobs /\ (Current(q) = j => holder[Current(q)] # q)
        BY <1>2, <3>2, FirstOfBatch, ConstantsAssumption
      <4>2. CASE Current(q) = j
        BY <3>1, <3>2, <4>1, <4>2 DEF LeasedOrLate
      <4>3. CASE Current(q) # j
        <5>1. holder'[Current(q)] = holder[Current(q)] /\ until'[Current(q)] = until[Current(q)]
          BY <1>2, <4>1, <4>3 DEF TypeOK
        <5>2. QED
          BY <1>3, <3>1, <3>2, <5>1 DEF LeasedOrLate
      <4>4. QED
        BY <4>2, <4>3
    <3>3. CASE pc[q] # "run"
      BY <3>1, <3>3 DEF LeasedOrLate
    <3>4. QED
      BY <3>2, <3>3
  <2>3. QED
    BY <2>1, <2>2
<1>6. QED
  BY <1>4, <1>5 DEF Leases, LeasedOrLate

LEMMA NotEmpty ==
  ASSUME NEW S, NEW t \in Seq(S), Len(t) # 0
  PROVE  t # << >>
  OBVIOUS

\* A claimed batch is not empty.
LEMMA ClaimDueKeeps ==
  ASSUME TypeOK, LeasedOrLate, NEW p \in Pods, ClaimDue(p)
  PROVE  Leases'
<1>1. PICK n \in 1 .. CLAIM_BATCH : \E s \in [1 .. n -> DueJobs] :
        /\ timers' = Remaining(s)
        /\ batch' = [batch EXCEPT ![p] = [i \in 1 .. n |-> <<s[i], timers[s[i]]>>]]
  BY DEF ClaimDue
<1>2. PICK s \in [1 .. n -> DueJobs] :
        /\ timers' = Remaining(s)
        /\ batch' = [batch EXCEPT ![p] = [i \in 1 .. n |-> <<s[i], timers[s[i]]>>]]
  BY <1>1
<1> DEFINE claim == [i \in 1 .. n |-> <<s[i], timers[s[i]]>>]
<1>3. n \in Nat /\ 1 <= n
  BY ConstantsAssumption
<1>4. \A i \in 1 .. n : <<s[i], timers[s[i]]>> \in Entry
  BY DEF DueJobs, IsDue, TypeOK, Entry, Never
<1>5. claim \in Seq(Entry) /\ claim # << >>
  <2>1. claim \in [1 .. n -> Entry]
    BY <1>4
  <2>2. claim \in Seq(Entry) /\ Len(claim) = n
    BY <1>3, <2>1
  <2> HIDE DEF claim
  <2>3. QED
    BY <1>3, <2>2, NotEmpty
<1>6. /\ batch' = [batch EXCEPT ![p] = claim] /\ pc' = [pc EXCEPT ![p] = "next"]
      /\ claimed' = [claimed EXCEPT ![p] = now] /\ UNCHANGED <<grace, now, holder, until, since>>
  BY <1>2 DEF ClaimDue
<1>7. timers' \in [Jobs -> Nat \cup {Never}]
  BY <1>2 DEF Remaining, TypeOK
<1> HIDE DEF claim
<1>8. TypeOK'
  BY <1>5, <1>6, <1>7 DEF TypeOK
<1>9. \A q \in Pods : q # p => pc'[q] = pc[q] /\ batch'[q] = batch[q] /\ Current(q)' = Current(q)
  BY <1>6 DEF TypeOK, Current
<1>10. pc'[p] = "next" /\ batch'[p] # << >>
  BY <1>5, <1>6 DEF TypeOK
<1>11. LeasedOrLate'
  <2> SUFFICES ASSUME NEW q \in Pods
               PROVE  /\ pc'[q] # "idle" => batch'[q] # << >>
                      /\ pc'[q] = "run" => \/ now' >= since'[q] + LeaseTtl
                                           \/ /\ holder'[Current(q)'] = q
                                              /\ until'[Current(q)'] = since'[q] + LeaseTtl
    BY DEF LeasedOrLate
  <2>1. CASE q = p
    BY <1>10, <2>1
  <2>2. CASE q # p
    BY <1>6, <1>9, <2>2 DEF LeasedOrLate
  <2>3. QED
    BY <2>1, <2>2
<1>12. QED
  BY <1>8, <1>11 DEF Leases

\* Time takes a lease away only from who has outlived it.
LEMMA TickKeeps ==
  ASSUME TypeOK, LeasedOrLate, Tick
  PROVE  Leases'
<1>1. now' = now + 1 /\ now \in Nat /\ UNCHANGED <<grace, timers, pc, batch, claimed, since>>
  BY DEF Tick, TypeOK
<1>2. /\ holder' = [j \in Jobs |-> IF until[j] <= now' THEN NoPod ELSE holder[j]]
      /\ until' = [j \in Jobs |-> IF until[j] <= now' THEN 0 ELSE until[j]]
  BY DEF Tick
<1>3. TypeOK'
  BY <1>1, <1>2 DEF TypeOK
<1>4. ASSUME NEW p \in Pods, pc[p] = "run"
      PROVE  \/ now' >= since[p] + LeaseTtl
             \/ holder'[Current(p)] = p /\ until'[Current(p)] = since[p] + LeaseTtl
  <2>1. Current(p) \in Jobs /\ since[p] + LeaseTtl \in Nat
    BY <1>4, FirstOfBatch, ConstantsAssumption DEF TypeOK
  <2>2. \/ now >= since[p] + LeaseTtl
        \/ holder[Current(p)] = p /\ until[Current(p)] = since[p] + LeaseTtl
    BY <1>4 DEF LeasedOrLate
  <2>3. QED
    BY <1>1, <1>2, <2>1, <2>2
<1>5. LeasedOrLate'
  BY <1>1, <1>4 DEF LeasedOrLate, Current
<1>6. QED
  BY <1>3, <1>5 DEF Leases

LEMMA TimersKeep ==
  ASSUME TypeOK, LeasedOrLate, NEW j \in Jobs, Schedule(j) \/ Cancel(j)
  PROVE  Leases'
<1>1. FireAt \in Nat
  BY ConstantsAssumption DEF TypeOK, FireAt
<1>2. timers' \in [Jobs -> Nat \cup {Never}] /\ UNCHANGED <<grace, now, holder, until, pc, batch, claimed, since>>
  BY <1>1 DEF Schedule, Cancel, TypeOK
<1>3. QED
  BY <1>2 DEF Leases, TypeOK, LeasedOrLate, Current

LEMMA LeasesKept == Leases /\ [Next]_vars => Leases'
<1> SUFFICES ASSUME Leases, [Next]_vars PROVE Leases'
  OBVIOUS
<1>1. TypeOK /\ LeasedOrLate
  BY DEF Leases
<1>2. CASE Tick
  BY <1>1, <1>2, TickKeeps
<1>3. ASSUME NEW j \in Jobs, Schedule(j) \/ Cancel(j) PROVE Leases'
  BY <1>1, <1>3, TimersKeep
<1>4. ASSUME NEW p \in Pods,
             ClaimDue(p) \/ Step(p) \/ Fail(p) \/ RedisError(p) \/ Stop(p) \/ Crash(p)
      PROVE  Leases'
  BY <1>1, <1>4, ClaimDueKeeps, AcquireKeeps, LeavingSteps DEF Step
<1>5. CASE UNCHANGED vars
  BY <1>1, <1>5 DEF vars, Leases, TypeOK, LeasedOrLate, Current
<1>6. QED
  BY <1>2, <1>3, <1>4, <1>5, ConstantsAssumption DEF Next
-----------------------------------------------------------------------------
(* Twins.                                                                  *)

\* What the times of claims, timers and leases have to do with each other.
Order == InTime /\ Apart /\ TwinsServed /\ OnceOnly /\ LeasedIsTaken

LEMMA Numbers ==
  /\ LeaseTtl \in Nat \ {0} /\ MaxBatch \in Nat
  /\ Twins \subseteq Jobs /\ NoPod \notin Pods
  /\ TypeOK => grace \in Nat \ {0}
  BY ConstantsAssumption DEF TypeOK

LEMMA EntryFacts ==
  ASSUME TypeOK, NEW p \in Pods
  PROVE  /\ \A e \in Claimed(p) : e[1] \in Jobs /\ e[2] \in Nat
         /\ \A i \in DOMAIN batch[p] : i \in Nat \ {0} /\ batch[p][i] \in Claimed(p)
<1>1. batch[p] \in Seq(Entry)
  BY DEF TypeOK
<1>2. \A i \in DOMAIN batch[p] : i \in Nat \ {0} /\ batch[p][i] \in Entry
  BY <1>1
<1>3. QED
  BY <1>2 DEF Claimed, Entry

\* The pod drops the first entry of its batch, or all of them.
Sheds(p) ==
  /\ \A i \in DOMAIN batch'[p] : i + 1 \in DOMAIN batch[p] /\ batch'[p][i] = batch[p][i + 1]
  /\ IF pc'[p] = "idle" THEN batch'[p] = << >> ELSE claimed'[p] = claimed[p] /\ pc[p] # "idle"
  /\ claimed'[p] \in {0, claimed[p]} /\ pc'[p] # "run"
  /\ \A q \in Pods \ {p} : pc'[q] = pc[q] /\ batch'[q] = batch[q] /\ claimed'[q] = claimed[q]
  /\ UNCHANGED <<grace, now, timers>>
  /\ \A j \in Jobs : Leased(j)' => Leased(j) /\ until'[j] = until[j]

LEMMA TailShift ==
  ASSUME NEW S, NEW s \in Seq(S), s # << >>
  PROVE  \A i \in DOMAIN Tail(s) : i + 1 \in DOMAIN s /\ Tail(s)[i] = s[i + 1]
  OBVIOUS

LEMMA NextJobSheds ==
  ASSUME TypeOK, LeasedOrLate, NEW p \in Pods, pc[p] # "idle", NextJob(p)
  PROVE  /\ \A i \in DOMAIN batch'[p] : i + 1 \in DOMAIN batch[p] /\ batch'[p][i] = batch[p][i + 1]
         /\ IF pc'[p] = "idle" THEN batch'[p] = << >> ELSE claimed'[p] = claimed[p]
         /\ claimed'[p] \in {0, claimed[p]} /\ pc'[p] # "run"
         /\ \A q \in Pods \ {p} : pc'[q] = pc[q] /\ batch'[q] = batch[q] /\ claimed'[q] = claimed[q]
<1> DEFINE rest == Tail(batch[p])
<1>1. \A i \in DOMAIN rest : i + 1 \in DOMAIN batch[p] /\ rest[i] = batch[p][i + 1]
  BY FirstOfBatch, TailShift
<1>2. /\ batch' = [batch EXCEPT ![p] = rest]
      /\ pc' = [pc EXCEPT ![p] = IF rest = << >> THEN "idle" ELSE "next"]
      /\ claimed' = [claimed EXCEPT ![p] = IF rest = << >> THEN 0 ELSE @]
  BY DEF NextJob
<1> HIDE DEF rest
<1>3. QED
  BY <1>1, <1>2 DEF TypeOK

LEMMA DropBatchSheds ==
  ASSUME TypeOK, NEW p \in Pods, DropBatch(p, "idle")
  PROVE  /\ batch'[p] = << >> /\ DOMAIN batch'[p] = {} /\ pc'[p] = "idle" /\ claimed'[p] = 0
         /\ \A q \in Pods \ {p} : pc'[q] = pc[q] /\ batch'[q] = batch[q] /\ claimed'[q] = claimed[q]
<1>1. DOMAIN << >> = {}
  OBVIOUS
<1>2. QED
  BY <1>1 DEF DropBatch, TypeOK

LEMMA LeavingSheds ==
  ASSUME TypeOK, LeasedOrLate, NEW p \in Pods,
         Skip(p) \/ Finish(p) \/ Fail(p) \/ RedisError(p) \/ Stop(p) \/ Crash(p)
  PROVE  Sheds(p)
<1>1. pc[p] # "idle" /\ UNCHANGED <<grace, now, timers>>
  BY DEF Skip, Finish, Fail, RedisError, Stop, Crash
<1>2. \A j \in Jobs : Leased(j)' => Leased(j) /\ until'[j] = until[j]
  <2>1. CASE Fail(p) \/ Stop(p)
    <3> DEFINE i == Current(p)
    <3>1. \/ holder' = [holder EXCEPT ![i] = NoPod] /\ until' = [until EXCEPT ![i] = 0]
          \/ UNCHANGED <<holder, until>>
      BY <2>1 DEF Fail, Stop, Release
    <3> HIDE DEF i
    <3>2. QED
      BY <3>1 DEF TypeOK, Leased
  <2>2. CASE Skip(p) \/ Finish(p) \/ RedisError(p) \/ Crash(p)
    BY <2>2 DEF Skip, Finish, RedisError, Crash, Leased
  <2>3. QED
    BY <2>1, <2>2
<1>3. CASE NextJob(p)
  BY <1>1, <1>2, <1>3, NextJobSheds DEF Sheds
<1>4. CASE DropBatch(p, "idle")
  BY <1>1, <1>2, <1>4, DropBatchSheds DEF Sheds
<1>5. QED
  BY <1>3, <1>4 DEF Skip, Finish, Fail, RedisError, Stop, Crash, AfterError

\* Dropping entries and leases breaks no order.
LEMMA ShedKeeps ==
  ASSUME TypeOK, TypeOK', Order, NEW p \in Pods, Sheds(p)
  PROVE  Order'
<1>1. \A q \in Pods : Claimed(q)' \subseteq Claimed(q)
  BY DEF Sheds, Claimed
<1>2. \A q \in Pods : batch'[q] # << >> => claimed'[q] = claimed[q]
  BY DEF Sheds
<1>3. \A q \in Pods : \A e \in Claimed(q)' : claimed'[q] = claimed[q]
  BY <1>2 DEF Sheds, Claimed
<1>4. /\ now' = now /\ timers' = timers /\ grace' = grace
      /\ \A j \in Jobs : Leased(j)' => Leased(j) /\ until'[j] = until[j]
  BY DEF Sheds
<1> DEFINE Old(r, k) == IF r = p THEN k + 1 ELSE k
<1>11. \A r \in Pods : \A k \in DOMAIN batch'[r] :
         /\ k \in Nat \ {0} /\ Old(r, k) \in DOMAIN batch[r] /\ batch'[r][k] = batch[r][Old(r, k)]
         /\ ~ (k = 1 /\ pc'[r] = "run") => ~ (Old(r, k) = 1 /\ pc[r] = "run")
  <2>1. \A r \in Pods : batch'[r] \in Seq(Entry)
    BY DEF TypeOK
  <2>2. \A r \in Pods : \A k \in DOMAIN batch'[r] : k \in Nat \ {0}
    BY <2>1
  <2>3. QED
    BY <2>2 DEF Sheds
<1> HIDE DEF Old
<1>5. InTime'
  <2>1. \A q \in Pods : claimed'[q] <= now' /\ \A e \in Claimed(q)' : e[2] <= now'
    <3>1. \A q \in Pods : claimed[q] <= now /\ \A e \in Claimed(q) : e[2] <= now
      BY DEF Order, InTime
    <3>2. \A q \in Pods : claimed'[q] = 0 \/ claimed'[q] = claimed[q]
      BY DEF Sheds
    <3>3. now \in Nat
      BY DEF TypeOK
    <3>4. QED
      BY <1>1, <1>4, <3>1, <3>2, <3>3
  <2>2. \A q \in Pods : IF pc'[q] = "idle" THEN batch'[q] = << >> ELSE now' <= claimed'[q] + MaxBatch
    BY <1>4 DEF InTime, Order, Sheds
  <2>3. \A j \in Jobs : Leased(j)' => now' < until'[j] /\ LeaseTtl <= until'[j] /\ until'[j] <= now' + LeaseTtl
    BY <1>4 DEF InTime, Order
  <2>4. QED
    BY <2>1, <2>2, <2>3 DEF InTime
<1>6. Apart'
  <2>1. \A q \in Pods : \A i, k \in DOMAIN batch'[q] : i # k => batch'[q][i][1] # batch'[q][k][1]
    <3>1. \A q \in Pods : \A i, k \in DOMAIN batch'[q] : i # k => Old(q, i) # Old(q, k)
      BY <1>11 DEF Old
    <3>2. QED
      BY <1>11, <3>1 DEF Apart, Order
  <2>2. QED
    BY <1>1, <1>3, <1>4, <2>1 DEF Apart, Order
<1>7. TwinsServed'
  BY <1>4, <1>11 DEF TwinsServed, Order, Serves
<1>8. LeasedIsTaken'
  BY <1>4 DEF LeasedIsTaken, Order
<1>9. OnceOnly'
  <2> SUFFICES ASSUME NEW j \in Jobs \ Twins, NEW q \in Pods, NEW i \in DOMAIN batch'[q], batch'[q][i][1] = j
               PROVE  /\ timers'[j] = Never
                      /\ Leased(j)' => i = 1 /\ pc'[q] = "run"
                      /\ \A r \in Pods : \A k \in DOMAIN batch'[r] : batch'[r][k][1] = j => q = r /\ i = k
    BY DEF OnceOnly
  <2>1. i \in Nat \ {0} /\ \A r \in Pods : \A k \in DOMAIN batch'[r] : k \in Nat \ {0}
    BY <1>11
  <2>2. ASSUME NEW r \in Pods, NEW k \in DOMAIN batch'[r], batch'[r][k][1] = j
        PROVE  Old(r, k) \in DOMAIN batch[r] /\ batch[r][Old(r, k)][1] = j
    BY <1>11, <2>2
  <2>3. /\ timers[j] = Never
        /\ Leased(j) => Old(q, i) = 1 /\ pc[q] = "run"
        /\ \A r \in Pods : \A k \in DOMAIN batch[r] : batch[r][k][1] = j => q = r /\ Old(q, i) = k
    BY <2>2 DEF OnceOnly, Order
  <2>4. QED
    BY <1>4, <2>1, <2>2, <2>3 DEF Sheds, Old
<1>10. QED
  BY <1>5, <1>6, <1>7, <1>8, <1>9 DEF Order

LEMMA InitOrder == Init => Order
<1> SUFFICES ASSUME Init PROVE Order
  OBVIOUS
<1>1. \A p \in Pods : batch[p] = << >> /\ DOMAIN batch[p] = {} /\ Claimed(p) = {}
  BY DEF Init, Claimed
<1>2. \A j \in Jobs : ~ Leased(j)
  BY DEF Init, Leased
<1>3. QED
  BY <1>1, <1>2 DEF Init, Order, InTime, Apart, TwinsServed, OnceOnly, LeasedIsTaken

\* Whoever is claimed now was due, and its timer is gone.
LEMMA ClaimFacts ==
  ASSUME TypeOK, NEW p \in Pods, ClaimDue(p)
  PROVE  /\ pc[p] = "idle" /\ pc'[p] = "next" /\ claimed'[p] = now
         /\ \A q \in Pods \ {p} : pc'[q] = pc[q] /\ batch'[q] = batch[q] /\ claimed'[q] = claimed[q]
         /\ UNCHANGED <<grace, now, holder, until>>
         /\ \A j \in Jobs : timers'[j] = timers[j] \/ timers'[j] = Never
         /\ \A i \in DOMAIN batch'[p] : LET j == batch'[p][i][1] IN
              /\ j \in Jobs /\ batch'[p][i][2] = timers[j] /\ timers[j] # Never /\ timers[j] <= now
              /\ timers'[j] = Never
         /\ \A i, k \in DOMAIN batch'[p] : batch'[p][i][1] = batch'[p][k][1] => i = k
<1>0. PICK n \in 1 .. CLAIM_BATCH : \E s \in [1 .. n -> DueJobs] :
        /\ Earliest(s)
        /\ timers' = Remaining(s)
        /\ batch' = [batch EXCEPT ![p] = [i \in 1 .. n |-> <<s[i], timers[s[i]]>>]]
  BY DEF ClaimDue
<1>1. PICK s \in [1 .. n -> DueJobs] :
        /\ Earliest(s)
        /\ timers' = Remaining(s)
        /\ batch' = [batch EXCEPT ![p] = [i \in 1 .. n |-> <<s[i], timers[s[i]]>>]]
  BY <1>0
<1> DEFINE claim == [i \in 1 .. n |-> <<s[i], timers[s[i]]>>]
<1>2. /\ pc[p] = "idle" /\ pc' = [pc EXCEPT ![p] = "next"] /\ claimed' = [claimed EXCEPT ![p] = now]
      /\ batch' = [batch EXCEPT ![p] = claim] /\ UNCHANGED <<grace, now, holder, until>>
  BY <1>1 DEF ClaimDue
<1>3. \A j \in Jobs : timers'[j] = IF \E i \in 1 .. n : s[i] = j THEN Never ELSE timers[j]
  BY <1>1 DEF Remaining
<1>4. \A i \in 1 .. n : s[i] \in Jobs /\ timers[s[i]] # Never /\ timers[s[i]] <= now
  BY DEF DueJobs, IsDue
<1>5. \A i, k \in 1 .. n : s[i] = s[k] => i = k
  BY <1>1 DEF Earliest
<1>6. DOMAIN claim = 1 .. n /\ \A i \in 1 .. n : claim[i][1] = s[i] /\ claim[i][2] = timers[s[i]]
  OBVIOUS
<1> HIDE DEF claim
<1>7. /\ batch'[p] = claim /\ pc'[p] = "next" /\ claimed'[p] = now
      /\ \A q \in Pods \ {p} : pc'[q] = pc[q] /\ batch'[q] = batch[q] /\ claimed'[q] = claimed[q]
  BY <1>2 DEF TypeOK
<1>8. QED
  BY <1>2, <1>3, <1>4, <1>5, <1>6, <1>7

LEMMA ClaimKeeps ==
  ASSUME TypeOK, TypeOK', Order, NEW p \in Pods, ClaimDue(p)
  PROVE  Order'
<1>1. /\ pc[p] = "idle" /\ pc'[p] = "next" /\ claimed'[p] = now
      /\ \A q \in Pods \ {p} : pc'[q] = pc[q] /\ batch'[q] = batch[q] /\ claimed'[q] = claimed[q]
      /\ grace' = grace /\ now' = now /\ until' = until /\ \A j \in Jobs : Leased(j)' <=> Leased(j)
      /\ \A j \in Jobs : timers'[j] = timers[j] \/ timers'[j] = Never
  BY ClaimFacts DEF Leased
<1>2. \A i \in DOMAIN batch'[p] : LET j == batch'[p][i][1] IN
        /\ j \in Jobs /\ batch'[p][i][2] = timers[j] /\ timers[j] # Never /\ timers[j] <= now
        /\ timers'[j] = Never
  BY ClaimFacts
<1>3. \A e \in Claimed(p)' : /\ e[1] \in Jobs /\ e[2] = timers[e[1]]
                             /\ timers[e[1]] # Never /\ timers[e[1]] <= now /\ timers'[e[1]] = Never
  BY <1>2 DEF Claimed
<1>4. \A q \in Pods \ {p} : Claimed(q)' = Claimed(q)
  BY <1>1 DEF Claimed
<1>5. \A q \in Pods : \A e \in Claimed(q) : e[1] \in Jobs /\ e[2] <= now
  BY EntryFacts DEF Order, InTime
<1>6. now \in Nat /\ \A q \in Pods : claimed[q] <= now
  BY DEF TypeOK, Order, InTime
<1>7. InTime'
  <2>1. now' <= claimed'[p] + MaxBatch
    BY <1>1, <1>6, Numbers
  <2>2. \A q \in Pods : claimed'[q] <= now' /\ \A e \in Claimed(q)' : e[2] <= now'
    BY <1>1, <1>3, <1>4, <1>5, <1>6
  <2>3. \A q \in Pods : IF pc'[q] = "idle" THEN batch'[q] = << >> ELSE now' <= claimed'[q] + MaxBatch
    BY <1>1, <2>1 DEF Order, InTime
  <2>4. QED
    BY <1>1, <2>2, <2>3 DEF Order, InTime
<1>8. Apart'
  <2>1. \A q \in Pods : \A i, k \in DOMAIN batch'[q] : i # k => batch'[q][i][1] # batch'[q][k][1]
    <3>1. \A i, k \in DOMAIN batch'[p] : i # k => batch'[p][i][1] # batch'[p][k][1]
      BY ClaimFacts
    <3>2. QED
      BY <1>1, <3>1 DEF Order, Apart
  <2>2. ASSUME NEW q \in Pods, NEW e \in Claimed(q)', timers'[e[1]] # Never
        PROVE  claimed'[q] + grace <= timers'[e[1]]
    <3>1. q # p
      BY <1>3, <2>2
    <3>2. e \in Claimed(q) /\ claimed'[q] = claimed[q] /\ e[1] \in Jobs
      BY <1>1, <1>4, <1>5, <2>2, <3>1
    <3>3. QED
      BY <1>1, <2>2, <3>2 DEF Order, Apart
  \* Who holds an entry of a job that is claimed now has claimed it before the timer was set.
  <2>3. ASSUME NEW q \in Pods \ {p}, NEW e \in Claimed(q), NEW f \in Claimed(p)', e[1] = f[1]
        PROVE  claimed[q] + grace <= f[2]
    <3>1. timers[e[1]] # Never /\ f[2] = timers[e[1]]
      BY <1>3, <2>3
    <3>2. QED
      BY <2>3, <3>1 DEF Order, Apart
  <2>4. ASSUME NEW q \in Pods, NEW r \in Pods, q # r,
               NEW e \in Claimed(q)', NEW f \in Claimed(r)', e[1] = f[1]
        PROVE  claimed'[q] + grace <= f[2] \/ claimed'[r] + grace <= e[2]
    <3>1. CASE q = p
      <4>1. f \in Claimed(r) /\ claimed'[r] = claimed[r] /\ f[1] = e[1] /\ e \in Claimed(p)'
        BY <1>1, <1>4, <2>4, <3>1
      <4>2. QED
        BY <2>3, <2>4, <3>1, <4>1
    <3>2. CASE r = p
      <4>1. e \in Claimed(q) /\ claimed'[q] = claimed[q] /\ f \in Claimed(p)'
        BY <1>1, <1>4, <2>4, <3>2
      <4>2. QED
        BY <2>3, <2>4, <3>2, <4>1
    <3>3. CASE q # p /\ r # p
      <4>1. e \in Claimed(q) /\ f \in Claimed(r) /\ claimed'[q] = claimed[q] /\ claimed'[r] = claimed[r]
        BY <1>1, <1>4, <2>4, <3>3
      <4>2. QED
        BY <2>4, <4>1 DEF Order, Apart
    <3>4. QED
      BY <3>1, <3>2, <3>3
  <2>5. QED
    BY <1>1, <2>1, <2>2, <2>4 DEF Apart
<1>9. TwinsServed'
  <2> SUFFICES ASSUME NEW j \in Jobs, Leased(j)
               PROVE  /\ timers'[j] # Never => Serves(j, timers'[j])
                      /\ \A q \in Pods : \A i \in DOMAIN batch'[q] :
                           batch'[q][i][1] = j /\ ~ (i = 1 /\ pc'[q] = "run") => Serves(j, batch'[q][i][2])
    BY <1>1 DEF TwinsServed, Serves
  <2>1. /\ timers[j] # Never => Serves(j, timers[j])
        /\ \A q \in Pods : \A i \in DOMAIN batch[q] :
             batch[q][i][1] = j /\ ~ (i = 1 /\ pc[q] = "run") => Serves(j, batch[q][i][2])
    BY DEF Order, TwinsServed
  <2>2. \A i \in DOMAIN batch'[p] : batch'[p][i][1] = j => Serves(j, batch'[p][i][2])
    BY <1>2, <2>1
  <2>3. QED
    BY <1>1, <2>1, <2>2
<1>10. LeasedIsTaken'
  BY <1>1 DEF Order, LeasedIsTaken
<1>11. OnceOnly'
  <2> SUFFICES ASSUME NEW j \in Jobs \ Twins, NEW q \in Pods, NEW i \in DOMAIN batch'[q], batch'[q][i][1] = j
               PROVE  /\ timers'[j] = Never
                      /\ Leased(j) => i = 1 /\ pc'[q] = "run"
                      /\ \A r \in Pods : \A k \in DOMAIN batch'[r] : batch'[r][k][1] = j => q = r /\ i = k
    BY <1>1 DEF OnceOnly
  <2>1. CASE q = p
    <3>1. timers[j] # Never /\ timers'[j] = Never /\ ~ Leased(j)
      BY <1>2, <2>1 DEF Order, LeasedIsTaken
    <3>2. \A r \in Pods \ {p} : \A k \in DOMAIN batch'[r] : batch'[r][k][1] # j
      BY <1>1, <3>1 DEF Order, OnceOnly
    <3>3. \A k \in DOMAIN batch'[p] : batch'[p][k][1] = j => i = k
      BY <2>1, ClaimFacts
    <3>4. QED
      BY <2>1, <3>1, <3>2, <3>3
  <2>2. CASE q # p
    <3>1. /\ timers[j] = Never /\ (Leased(j) => i = 1 /\ pc[q] = "run")
          /\ \A r \in Pods : \A k \in DOMAIN batch[r] : batch[r][k][1] = j => q = r /\ i = k
      BY <1>1, <2>2 DEF Order, OnceOnly
    <3>2. \A k \in DOMAIN batch'[p] : batch'[p][k][1] # j
      BY <1>2, <3>1
    <3>3. QED
      BY <1>1, <2>2, <3>1, <3>2
  <2>3. QED
    BY <2>1, <2>2
<1>12. QED
  BY <1>7, <1>8, <1>9, <1>10, <1>11 DEF Order

\* A lease begins at most MaxBatch after its claim: what was due by the claim is served, and
\* what was scheduled after it falls due a grace later.
LEMMA AcquireOrder ==
  ASSUME TypeOK, LeasedOrLate, Order, NEW p \in Pods, Acquire(p)
  PROVE  Order'
<1> DEFINE j == Current(p)
<1>1. j \in Jobs /\ batch[p] # << >>
  BY FirstOfBatch DEF Acquire
<1>2. /\ pc[p] = "next" /\ ~ Leased(j)
      /\ holder' = [holder EXCEPT ![j] = p] /\ until' = [until EXCEPT ![j] = now + LeaseTtl]
      /\ pc' = [pc EXCEPT ![p] = "run"]
      /\ UNCHANGED <<grace, now, timers, batch, claimed>>
  BY DEF Acquire, Grants
<1>3. 1 \in DOMAIN batch[p] /\ batch[p][1][1] = j
  <2>1. batch[p] \in Seq(Entry)
    BY DEF TypeOK
  <2>2. 1 \in DOMAIN batch[p]
    BY <1>1, <2>1
  <2>3. QED
    BY <2>2 DEF Current
<1> HIDE DEF j
<1>4. batch[p][1] \in Claimed(p)
  BY <1>3 DEF Claimed
<1>5. /\ pc'[p] = "run" /\ \A q \in Pods \ {p} : pc'[q] = pc[q]
      /\ until'[j] = now + LeaseTtl
      /\ \A i \in Jobs \ {j} : (Leased(i)' <=> Leased(i)) /\ until'[i] = until[i]
  BY <1>1, <1>2 DEF TypeOK, Leased
<1>6. \A q \in Pods : Claimed(q)' = Claimed(q)
  BY <1>2 DEF Claimed
<1>7. /\ now \in Nat /\ claimed[p] \in Nat /\ claimed[p] <= now /\ now <= claimed[p] + MaxBatch
      /\ \A i \in Jobs : until[i] \in Nat /\ timers[i] \in Nat \cup {Never}
  BY <1>2 DEF TypeOK, Order, InTime
<1>8. InTime'
  <2>1. \A i \in Jobs : Leased(i)' => now' < until'[i] /\ LeaseTtl <= until'[i] /\ until'[i] <= now' + LeaseTtl
    BY <1>2, <1>5, <1>7, Numbers DEF Order, InTime
  <2>2. \A q \in Pods : IF pc'[q] = "idle" THEN batch'[q] = << >> ELSE now' <= claimed'[q] + MaxBatch
    BY <1>2, <1>5, <1>7 DEF Order, InTime
  <2>3. \A q \in Pods : claimed'[q] <= now' /\ \A e \in Claimed(q)' : e[2] <= now'
    BY <1>2, <1>6 DEF Order, InTime
  <2>4. QED
    BY <2>1, <2>2, <2>3 DEF InTime
<1>9. Apart'
  BY <1>2, <1>6 DEF Order, Apart
<1>10. ASSUME NEW due \in Nat, claimed[p] + grace <= due \/ (due <= now /\ grace <= MaxBatch)
       PROVE  \/ due <= until'[j] - LeaseTtl /\ grace <= MaxBatch
              \/ until'[j] - due <= LeaseTtl + MaxBatch - grace
  BY <1>5, <1>7, <1>10, Numbers
<1>14. \A q \in Pods : \A f \in Claimed(q) : f[2] \in Nat /\ f[2] <= now
  BY EntryFacts DEF Order, InTime
\* Both pods are within their batches, so the second claim came within the first one's.
<1>15. ASSUME NEW q \in Pods \ {p}, NEW f \in Claimed(q), f[1] = j
       PROVE  claimed[p] + grace <= f[2] \/ (f[2] <= now /\ grace <= MaxBatch)
  <2>1. claimed[p] + grace <= f[2] \/ claimed[q] + grace <= batch[p][1][2]
    BY <1>3, <1>4, <1>15 DEF Order, Apart
  <2>2. batch[p][1][2] \in Nat /\ batch[p][1][2] <= now /\ f[2] <= now
    BY <1>4, <1>14, <1>15
  <2>3. claimed[q] \in Nat /\ now <= claimed[q] + MaxBatch
    <3>1. batch[q] # << >>
      BY <1>15 DEF Claimed
    <3>2. QED
      BY <3>1 DEF Order, InTime, TypeOK
  <2>4. QED
    BY <1>7, <2>1, <2>2, <2>3, Numbers
<1>11. TwinsServed'
  <2> SUFFICES ASSUME NEW i \in Jobs, Leased(i)'
               PROVE  /\ timers[i] # Never => Serves(i, timers[i])'
                      /\ \A q \in Pods : \A k \in DOMAIN batch[q] :
                           batch[q][k][1] = i /\ ~ (k = 1 /\ pc'[q] = "run") => Serves(i, batch[q][k][2])'
    BY <1>2 DEF TwinsServed, Serves
  <2>1. CASE i = j
    <3>1. timers[j] # Never => timers[j] \in Nat /\ claimed[p] + grace <= timers[j]
      BY <1>1, <1>3, <1>4, <1>7 DEF Order, Apart
    <3>2. ASSUME NEW q \in Pods \ {p}, NEW k \in DOMAIN batch[q], batch[q][k][1] = j
          PROVE  /\ batch[q][k][2] \in Nat
                 /\ \/ claimed[p] + grace <= batch[q][k][2]
                    \/ batch[q][k][2] <= now /\ grace <= MaxBatch
      <4>1. batch[q][k] \in Claimed(q)
        BY <3>2 DEF Claimed
      <4>2. QED
        BY <1>14, <1>15, <3>2, <4>1
    <3>3. \A k \in DOMAIN batch[p] : batch[p][k][1] = j => k = 1
      BY <1>3 DEF Order, Apart
    <3>4. QED
      BY <1>2, <1>5, <1>10, <2>1, <3>1, <3>2, <3>3 DEF Serves
  <2>2. CASE i # j
    <3>1. /\ timers[i] # Never => Serves(i, timers[i])
          /\ \A q \in Pods : \A k \in DOMAIN batch[q] :
               batch[q][k][1] = i /\ ~ (k = 1 /\ pc[q] = "run") => Serves(i, batch[q][k][2])
      BY <1>5, <2>2 DEF Order, TwinsServed
    <3>2. QED
      BY <1>2, <1>5, <2>2, <3>1 DEF Serves
  <2>3. QED
    BY <2>1, <2>2
<1>12. LeasedIsTaken' /\ OnceOnly'
  <2>1. j \notin Twins =>
          /\ timers[j] = Never
          /\ \A q \in Pods : \A k \in DOMAIN batch[q] : batch[q][k][1] = j => p = q /\ 1 = k
    BY <1>1, <1>3 DEF Order, OnceOnly
  <2>2. LeasedIsTaken'
    BY <1>2, <1>5, <2>1 DEF Order, LeasedIsTaken
  <2>3. OnceOnly'
    <3> SUFFICES ASSUME NEW i \in Jobs \ Twins, NEW q \in Pods, NEW k \in DOMAIN batch[q], batch[q][k][1] = i
                 PROVE  /\ timers[i] = Never
                        /\ Leased(i)' => k = 1 /\ pc'[q] = "run"
                        /\ \A r \in Pods : \A l \in DOMAIN batch[r] : batch[r][l][1] = i => q = r /\ k = l
      BY <1>2 DEF OnceOnly
    <3>1. /\ timers[i] = Never /\ (Leased(i) => k = 1 /\ pc[q] = "run")
          /\ \A r \in Pods : \A l \in DOMAIN batch[r] : batch[r][l][1] = i => q = r /\ k = l
      BY DEF Order, OnceOnly
    <3>2. CASE i = j
      BY <1>3, <1>5, <2>1, <3>1, <3>2
    <3>3. CASE i # j
      BY <1>5, <3>1, <3>3
    <3>4. QED
      BY <3>2, <3>3
  <2>4. QED
    BY <2>2, <2>3
<1>13. QED
  BY <1>8, <1>9, <1>11, <1>12 DEF Order

\* Time passes within the bound on batches, and only takes leases away.
LEMMA TickOrder ==
  ASSUME TypeOK, Order, Tick
  PROVE  Order'
<1>1. /\ now' = now + 1 /\ now \in Nat /\ UNCHANGED <<grace, timers, pc, batch, claimed>>
      /\ \A p \in Pods : pc[p] \in {"next", "run"} => now < claimed[p] + MaxBatch
  BY DEF Tick, TypeOK
<1>2. \A p \in Pods : pc[p] \in {"idle", "next", "run"} /\ claimed[p] \in Nat
  BY DEF TypeOK
<1>3. \A j \in Jobs : Leased(j)' => Leased(j) /\ until'[j] = until[j] /\ now' < until'[j]
  BY DEF Tick, Leased, TypeOK
<1>4. \A p \in Pods : Claimed(p)' = Claimed(p)
  BY <1>1 DEF Claimed
<1>5. InTime'
  <2>1. \A p \in Pods : IF pc'[p] = "idle" THEN batch'[p] = << >> ELSE now' <= claimed'[p] + MaxBatch
    BY <1>1, <1>2, Numbers DEF Order, InTime
  <2>2. \A p \in Pods : claimed'[p] <= now' /\ \A e \in Claimed(p)' : e[2] <= now'
    BY <1>1, <1>2, <1>4, EntryFacts DEF Order, InTime
  <2>3. \A j \in Jobs : Leased(j)' => now' < until'[j] /\ LeaseTtl <= until'[j] /\ until'[j] <= now' + LeaseTtl
    BY <1>1, <1>3, Numbers DEF Order, InTime, TypeOK
  <2>4. QED
    BY <2>1, <2>2, <2>3 DEF InTime
<1>6. Apart'
  BY <1>1, <1>4 DEF Order, Apart
<1>7. TwinsServed'
  BY <1>1, <1>3, <1>4 DEF Order, TwinsServed, Serves
<1>8. OnceOnly' /\ LeasedIsTaken'
  BY <1>1, <1>3 DEF Order, OnceOnly, LeasedIsTaken
<1>9. QED
  BY <1>5, <1>6, <1>7, <1>8 DEF Order

\* A twin is scheduled a grace from now, after every claim and every lease's beginning.
LEMMA TimersOrder ==
  ASSUME TypeOK, Order, NEW j \in Jobs, Cancel(j) \/ (j \in Twins /\ Schedule(j))
  PROVE  Order'
<1>1. UNCHANGED <<grace, now, holder, until, pc, batch, claimed>>
  BY DEF Schedule, Cancel
<1>2. /\ \A i \in Jobs \ {j} : timers'[i] = timers[i]
      /\ timers'[j] = Never \/ (timers'[j] = now + grace /\ j \in Twins)
  BY Numbers DEF Schedule, FireAt, Cancel, TypeOK
<1>3. /\ \A p \in Pods : Claimed(p)' = Claimed(p)
      /\ \A i \in Jobs : (Leased(i)' <=> Leased(i))
  BY <1>1 DEF Claimed, Leased
<1>4. InTime' /\ OnceOnly' /\ LeasedIsTaken'
  <2>1. InTime'
    BY <1>1, <1>3 DEF Order, InTime
  <2>2. OnceOnly' /\ LeasedIsTaken'
    BY <1>1, <1>2, <1>3 DEF Order, OnceOnly, LeasedIsTaken
  <2>3. QED
    BY <2>1, <2>2
<1>5. Apart'
  <2>1. \A p \in Pods : claimed[p] \in Nat /\ claimed[p] <= now /\ \A e \in Claimed(p) : e[1] \in Jobs
    BY EntryFacts DEF TypeOK, Order, InTime
  <2>2. now \in Nat
    BY DEF TypeOK
  <2>3. \A p \in Pods : claimed[p] + grace <= now + grace
    BY <2>1, <2>2, Numbers
  <2>4. QED
    BY <1>1, <1>2, <1>3, <2>1, <2>3 DEF Order, Apart
<1>6. TwinsServed'
  <2> SUFFICES ASSUME NEW i \in Jobs, Leased(i), timers'[i] # Never PROVE Serves(i, timers'[i])
    BY <1>1, <1>3 DEF Order, TwinsServed, Serves
  <2>1. timers[i] # Never => Serves(i, timers[i])
    BY DEF Order, TwinsServed
  <2>2. Serves(i, now + grace)
    <3>1. now \in Nat /\ until[i] \in Nat /\ until[i] <= now + LeaseTtl
      BY DEF TypeOK, Order, InTime
    <3>2. QED
      BY <3>1, Numbers DEF Serves
  <2>3. QED
    BY <1>2, <2>1, <2>2
<1>7. QED
  BY <1>4, <1>5, <1>6 DEF Order
-----------------------------------------------------------------------------
LEMMA OrderKept == Leases /\ Leases' /\ Order /\ [Next]_vars => Order'
<1> SUFFICES ASSUME Leases, Leases', Order, [Next]_vars PROVE Order'
  OBVIOUS
<1>1. TypeOK /\ LeasedOrLate /\ TypeOK'
  BY DEF Leases
<1>2. CASE Tick
  BY <1>1, <1>2, TickOrder
<1>3. ASSUME NEW j \in Jobs, Cancel(j) \/ (j \in Twins /\ Schedule(j)) PROVE Order'
  BY <1>1, <1>3, TimersOrder
<1>4. ASSUME NEW p \in Pods,
             ClaimDue(p) \/ Step(p) \/ Fail(p) \/ RedisError(p) \/ Stop(p) \/ Crash(p)
      PROVE  Order'
  BY <1>1, <1>4, ClaimKeeps, AcquireOrder, LeavingSheds, ShedKeeps DEF Step
<1>5. CASE UNCHANGED vars
  BY <1>5 DEF vars, Order, InTime, Apart, TwinsServed, Serves, OnceOnly, LeasedIsTaken, Leased, Claimed
<1>6. QED
  BY <1>2, <1>3, <1>4, <1>5, Numbers DEF Next

\* Whoever runs a job has its lease or has outlived it, and claims, timers and leases of a
\* job keep their order in time.
THEOREM InvariantHolds == Spec => []IInv
<1>1. Init => IInv
  <2>1. << >> \in Seq(Entry)
    OBVIOUS
  <2>2. QED
    BY <2>1, InitOrder DEF Init, IInv, TypeOK, LeasedOrLate, Order
<1>2. IInv /\ [Next]_vars => IInv'
  BY LeasesKept, OrderKept DEF IInv, Leases, Order
<1>3. QED
  BY <1>1, <1>2, PTL DEF Spec

\* Two pods run one job at once only if one of them has outlived its lease: SET NX keeps a
\* second one out, and RELEASE_SCRIPT the lease of another in.
THEOREM RunsExclusively == Spec => []Exclusive
<1>1. IInv => Exclusive
  BY DEF IInv, LeasedOrLate, Exclusive
<1>2. QED
  BY <1>1, InvariantHolds, PTL

\* What a pod drops because somebody holds the job's lease is a twin, and the grace is shorter
\* than a lease and a batch; the run under the lease serves it, or it falls due by a bounded
\* time before the lease ends.  With a longer grace nothing is dropped.
THEOREM SkipsAreServed == Spec => SkipsServedTwins
<1>1. ASSUME IInv, NEW p \in Pods, Skip(p)
      PROVE  LET j == Current(p)  due == batch[p][1][2]
             IN /\ j \in Twins /\ grace < LeaseTtl + MaxBatch
                /\ \/ due <= until[j] - LeaseTtl /\ grace <= MaxBatch
                   \/ until[j] - due <= LeaseTtl + MaxBatch - grace
  <2>1. pc[p] = "next" /\ Leased(Current(p))
    BY <1>1 DEF Skip, Grants
  <2>2. Current(p) \in Jobs /\ batch[p] # << >> /\ batch[p] \in Seq(Entry)
    BY <1>1, <2>1, FirstOfBatch DEF IInv
  <2>3. 1 \in DOMAIN batch[p]
    BY <2>2
  <2>4. Current(p) \in Twins
    BY <1>1, <2>1, <2>2, <2>3 DEF IInv, OnceOnly, Current
  <2>5. batch[p][1] \in Claimed(p) /\ batch[p][1][1] = Current(p)
    BY <2>3 DEF Claimed, Current
  <2>6. Serves(Current(p), batch[p][1][2])
    BY <1>1, <2>1, <2>2, <2>3, <2>5 DEF IInv, TwinsServed
  <2>7. grace < LeaseTtl + MaxBatch
    <3>1. batch[p][1][2] \in Nat /\ batch[p][1][2] <= now /\ now < until[Current(p)]
      BY <1>1, <2>1, <2>2, <2>5, EntryFacts DEF IInv, InTime
    <3>2. grace \in Nat /\ until[Current(p)] \in Nat /\ now \in Nat
      BY <1>1, <2>2, Numbers DEF IInv, TypeOK
    <3>3. QED
      BY <2>6, <3>1, <3>2, Numbers DEF Serves
  <2>8. QED
    BY <2>4, <2>6, <2>7 DEF Serves
<1>2. IInv => [\A p \in Pods : Skip(p) =>
                  LET j == Current(p)  due == batch[p][1][2]
                  IN /\ j \in Twins /\ grace < LeaseTtl + MaxBatch
                     /\ \/ due <= until[j] - LeaseTtl /\ grace <= MaxBatch
                        \/ until[j] - due <= LeaseTtl + MaxBatch - grace]_vars
  BY <1>1
<1>3. QED
  BY <1>2, InvariantHolds, PTL DEF Spec, SkipsServedTwins
=============================================================================
