-------------------------- MODULE InferenceRunner --------------------------
(***************************************************************************)
(* The inference runner of one pod: a bounded queue, as many worker tasks  *)
(* as executor threads, a timeout for every caller, a circuit breaker, and *)
(* a start and a shutdown that may overlap with all of it.                 *)
(*                                                                         *)
(* Everything but the native work runs on one event loop: an action is     *)
(* what happens between two awaits.  The loop may resume a task long after *)
(* what it waits for has happened, so a timeout or a cancellation can      *)
(* still overtake an answer.  Time is abstract: a timeout may come at any  *)
(* moment, and an open circuit may cool down at any moment.                *)
(***************************************************************************)
EXTENDS Integers, Sequences, FiniteSets

CONSTANTS
  Requests,   \* calls of classify
  Workers,    \* worker tasks; concurrency is their number, and the executor's
  Stop,       \* the None that ends a worker
  Capacity,   \* queue_capacity
  Window,     \* CircuitBreaker: outcomes kept
  Threshold   \* CircuitBreaker: failures among them that open it

ASSUME ConstantsAssumption ==
  /\ Stop \notin Requests
  /\ Workers \cap (Requests \cup {"absent", "idle", "done"}) = {}
  /\ Requests \cap {"absent", "idle", "done"} = {}
  /\ IsFiniteSet(Workers) /\ Workers # {}
  /\ Capacity \in Nat \ {0} /\ Window \in Nat \ {0} /\ Threshold \in 1..Window

VARIABLES
  life,      \* start(): "new", "warming", "up" or "failed"
  warm,      \* the warmup in the executor
  closing,   \* _shutdown(): "no", "begun", "stopping" or "closed"
  stops,     \* sentinels _shutdown still has to put
  queue,     \* jobs and sentinels
  caller,    \* caller[r]: "new", "waiting", or how the call ended
  result,    \* _Job.result
  image,     \* jobs whose image is not released
  started,   \* _Job.started
  op,        \* op[r]: the native classification of r
  worker,    \* worker[w]: "absent", "idle", "done" or the request it runs
  circuit,   \* "closed", "open", or "cooled" when open_until has passed
  history    \* CircuitBreaker.history

lifecycle == <<life, warm, closing, stops>>
breaker   == <<circuit, history>>
vars      == <<lifecycle, queue, caller, result, image, started, op, worker, breaker>>

Ready       == life = "up" /\ closing = "no"
Queued      == {queue[i] : i \in DOMAIN queue} \ {Stop}
Native      == {r \in Requests : op[r] = "running"}
Pending(r)  == result[r] = "pending"
Ended       == {"ok", "failed", "circuit", "unavailable"}

Init ==
  /\ life = "new" /\ warm = "none" /\ closing = "no" /\ stops = 0
  /\ queue = <<>>
  /\ caller = [r \in Requests |-> "new"]
  /\ result = [r \in Requests |-> "none"]
  /\ image = {} /\ started = {}
  /\ op = [r \in Requests |-> "none"]
  /\ worker = [w \in Workers |-> "absent"]
  /\ circuit = "closed" /\ history = <<>>
-----------------------------------------------------------------------------
(* CircuitBreaker.                                                         *)

Failures(h) == Cardinality({i \in DOMAIN h : ~ h[i]})

\* Mutation: the deque has no maxlen.
Pushed_Unbounded(h, success) == Append(h, success)
\* deque(maxlen = Window)
Pushed(h, success) == IF Len(h) < Window THEN Append(h, success) ELSE Append(Tail(h), success)

\* Outcomes that arrive while the circuit is open are dropped; the first one after the
\* cooldown starts a new history.
Record(success) ==
  IF circuit = "open"
  THEN UNCHANGED breaker
  ELSE LET h == Pushed(IF circuit = "cooled" THEN <<>> ELSE history, success)
       IN /\ history' = h
          /\ circuit' = IF Len(h) = Window /\ Failures(h) >= Threshold THEN "open" ELSE "closed"

CoolDown ==
  /\ circuit = "open" /\ circuit' = "cooled"
  /\ UNCHANGED <<lifecycle, queue, caller, result, image, started, op, worker, history>>
-----------------------------------------------------------------------------
(* classify.  An image over the byte limit is refused before anything      *)
(* happens and not modelled.                                               *)

Refuse(r, reason) ==
  /\ caller[r] = "new"
  /\ caller' = [caller EXCEPT ![r] = reason]
  /\ UNCHANGED <<lifecycle, queue, result, image, started, op, worker, breaker>>

Unavailable(r) == ~ Ready /\ Refuse(r, "unavailable")
CircuitOpen(r) == Ready /\ circuit = "open" /\ Refuse(r, "circuit")
Overloaded(r)  == Ready /\ circuit # "open" /\ Len(queue) = Capacity /\ Refuse(r, "overloaded")

Enqueue(r) ==
  /\ caller[r] = "new" /\ Ready /\ circuit # "open" /\ Len(queue) < Capacity
  /\ caller' = [caller EXCEPT ![r] = "waiting"]
  /\ result' = [result EXCEPT ![r] = "pending"]
  /\ image' = image \cup {r}
  /\ queue' = Append(queue, r)
  /\ UNCHANGED <<lifecycle, started, op, worker, breaker>>

\* Mutation: the job keeps its image until a worker meets it.
Released_Kept(r) == image
\* finally: whatever ended the call, the job lets go of the image.
Released(r) == image \ {r}

Leave(r, outcome) ==
  /\ caller[r] = "waiting"
  /\ caller' = [caller EXCEPT ![r] = outcome]
  /\ image' = Released(r)
  /\ UNCHANGED <<lifecycle, queue, started, op, worker>>

\* job.result.cancel(), which does nothing to a future that is done.
Cancelled(r) == [result EXCEPT ![r] = IF Pending(r) THEN "cancelled" ELSE @]

Answer(r) ==
  /\ result[r] \in Ended /\ Leave(r, result[r])
  /\ IF result[r] \in {"ok", "failed"} THEN Record(result[r] = "ok") ELSE UNCHANGED breaker
  /\ UNCHANGED result

\* Mutation: every timeout counts against the engine.
Counts_Always(r) == TRUE
\* Only a job that was started says something about the engine.
Counts(r) == r \in started

TimeOut(r) ==
  /\ Leave(r, "timeout")
  /\ result' = Cancelled(r)
  /\ IF Counts(r) THEN Record(FALSE) ELSE UNCHANGED breaker

Cancel(r) ==
  /\ Leave(r, "cancelled")
  /\ result' = Cancelled(r)
  /\ UNCHANGED breaker
-----------------------------------------------------------------------------
(* _worker.  There are as many slots as workers, so none waits for a slot. *)

Takes(w, item) == worker[w] = "idle" /\ queue # <<>> /\ item = Head(queue) /\ queue' = Tail(queue)

TakeStop(w) ==
  /\ Takes(w, Stop)
  /\ worker' = [worker EXCEPT ![w] = "done"]
  /\ UNCHANGED <<lifecycle, caller, result, image, started, op, breaker>>

\* Mutation: the worker does not look whether somebody still waits.
Abandoned_Never(r) == FALSE
Abandoned(r) == ~ Pending(r) \/ r \notin image

Drop(w, r) ==
  /\ Takes(w, r) /\ Abandoned(r)
  /\ UNCHANGED <<lifecycle, caller, result, image, started, op, worker, breaker>>

RefuseQueued(w, r) ==
  /\ Takes(w, r) /\ ~ Abandoned(r) /\ circuit = "open"
  /\ image' = image \ {r}
  /\ result' = [result EXCEPT ![r] = "circuit"]
  /\ UNCHANGED <<lifecycle, caller, started, op, worker, breaker>>

Begin(w, r) ==
  /\ Takes(w, r) /\ ~ Abandoned(r) /\ circuit # "open"
  /\ worker' = [worker EXCEPT ![w] = r]
  /\ started' = started \cup {r}
  /\ image' = image \ {r}
  /\ op' = [op EXCEPT ![r] = "running"]
  /\ UNCHANGED <<lifecycle, caller, result, breaker>>

\* _invoke in its executor thread.
NativeEnd(r, outcome) ==
  /\ op[r] = "running"
  /\ op' = [op EXCEPT ![r] = outcome]
  /\ UNCHANGED <<lifecycle, queue, caller, result, image, started, worker, breaker>>

\* Mutation: the worker moves on as soon as nobody waits for the result any more.
Awaited_ByCaller(r) == op[r] # "running" \/ ~ Pending(r)
\* await operation
Awaited(r) == op[r] # "running"

Finish(w, r) ==
  /\ worker[w] = r /\ Awaited(r)
  /\ worker' = [worker EXCEPT ![w] = "idle"]
  /\ result' = [result EXCEPT ![r] = IF Pending(r) THEN op[r] ELSE @]
  /\ UNCHANGED <<lifecycle, queue, caller, image, started, op, breaker>>
-----------------------------------------------------------------------------
(* start and aclose.                                                       *)

Start ==
  /\ life = "new" /\ closing = "no"
  /\ life' = "warming" /\ warm' = "running"
  /\ UNCHANGED <<closing, stops, queue, caller, result, image, started, op, worker, breaker>>

WarmupEnd(outcome) ==
  /\ warm = "running" /\ warm' = outcome
  /\ UNCHANGED <<life, closing, stops, queue, caller, result, image, started, op, worker, breaker>>

\* aclose: the first call begins the shutdown, the others wait for it.
BeginClosing == closing' = IF closing = "no" THEN "begun" ELSE closing

Open ==
  /\ life = "warming" /\ warm = "ok" /\ closing = "no"
  /\ life' = "up"
  /\ worker' = [w \in Workers |-> "idle"]
  /\ UNCHANGED <<warm, closing, stops, queue, caller, result, image, started, op, breaker>>

\* The warmup failed, the runner is closing, or start itself was cancelled.
GiveUp ==
  /\ life = "warming" /\ life' = "failed" /\ BeginClosing
  /\ UNCHANGED <<warm, stops, queue, caller, result, image, started, op, worker, breaker>>

Close ==
  /\ closing = "no" /\ BeginClosing
  /\ UNCHANGED <<life, warm, stops, queue, caller, result, image, started, op, worker, breaker>>

\* Mutation: _shutdown empties the queue and forgets who waits for it.
Drained_Silent(r) == result[r]
Drained(r) == IF r \in Queued /\ Pending(r) THEN "unavailable" ELSE result[r]

\* Mutation: one worker gets no sentinel.
Sentinels_OneShort == IF life = "up" THEN Cardinality(Workers) - 1 ELSE 0
Sentinels == IF life = "up" THEN Cardinality(Workers) ELSE 0

AtOnce(n, room) == IF n <= room THEN n ELSE room
Nones(n)        == [i \in 1..n |-> Stop]

\* _shutdown waits for a warmup that runs, empties the queue, and puts what fits.
Drain ==
  LET n == AtOnce(Sentinels, Capacity)
  IN /\ closing = "begun" /\ warm # "running"
     /\ closing' = "stopping" /\ stops' = Sentinels - n
     /\ result' = [r \in Requests |-> Drained(r)]
     /\ image' = image \ Queued
     /\ queue' = Nones(n)
     /\ UNCHANGED <<life, warm, caller, started, op, worker, breaker>>

\* ... the other sentinels wait for room in the queue.
PutStops ==
  LET n == AtOnce(stops, Capacity - Len(queue))
  IN /\ closing = "stopping" /\ n > 0
     /\ queue' = queue \o Nones(n) /\ stops' = stops - n
     /\ UNCHANGED <<life, warm, closing, caller, result, image, started, op, worker, breaker>>

\* Mutation: the backend is closed without waiting for the workers.
Gathered_Now == TRUE
\* asyncio.gather(*self._workers)
Gathered == \A w \in Workers : worker[w] \in {"absent", "done"}

\* The backend is closed and the executor shut down.
CloseBackend ==
  /\ closing = "stopping" /\ stops = 0 /\ Gathered
  /\ closing' = "closed"
  /\ UNCHANGED <<life, warm, stops, queue, caller, result, image, started, op, worker, breaker>>
-----------------------------------------------------------------------------
Work(w) ==
  TakeStop(w) \/ \E r \in Requests : Drop(w, r) \/ RefuseQueued(w, r) \/ Begin(w, r) \/ Finish(w, r)
Call(r)    == Unavailable(r) \/ CircuitOpen(r) \/ Overloaded(r) \/ Enqueue(r)
Return(r)  == Answer(r) \/ TimeOut(r) \/ Cancel(r)
Shutdown   == Drain \/ PutStops \/ CloseBackend
WarmupDone == \E outcome \in {"ok", "failed"} : WarmupEnd(outcome)
NativeDone == \E r \in Requests, outcome \in {"ok", "failed"} : NativeEnd(r, outcome)

Next ==
  \/ Start \/ Open \/ GiveUp \/ WarmupDone \/ Close \/ Shutdown \/ CoolDown \/ NativeDone
  \/ \E r \in Requests : Call(r) \/ Return(r)
  \/ \E w \in Workers : Work(w)

Spec == Init /\ [][Next]_vars

\* The event loop runs every ready task, and native work ends.  No caller has to be patient:
\* the callers' answers, timeouts and cancellations are left unfair.
Fairness ==
  /\ WF_vars(Shutdown) /\ WF_vars(WarmupDone) /\ WF_vars(NativeDone)
  /\ \A w \in Workers : WF_vars(Work(w))

FairSpec == Spec /\ Fairness
-----------------------------------------------------------------------------
\* Every part keeps its shape; the queue never holds more than its capacity and the circuit
\* breaker never remembers more than its window.
TypeOK ==
  /\ life \in {"new", "warming", "up", "failed"}
  /\ warm \in {"none", "running", "ok", "failed"}
  /\ closing \in {"no", "begun", "stopping", "closed"}
  /\ stops \in 0..Cardinality(Workers)
  /\ queue \in Seq(Requests \cup {Stop}) /\ Len(queue) <= Capacity
  /\ caller \in [Requests -> {"new", "waiting", "overloaded", "timeout", "cancelled"} \cup Ended]
  /\ result \in [Requests -> {"none", "pending", "cancelled"} \cup Ended]
  /\ image \subseteq Requests /\ started \subseteq Requests
  /\ op \in [Requests -> {"none", "running", "ok", "failed"}]
  /\ worker \in [Workers -> {"absent", "idle", "done"} \cup Requests]
  /\ circuit \in {"closed", "open", "cooled"}
  /\ history \in Seq(BOOLEAN) /\ Len(history) <= Window

\* A caller that timed out or was cancelled does not free the slot of the native work it left
\* behind: each running classification still has a worker, so no more run than there are workers
\* (InferenceRunner: "Client timeout never releases an active worker slot").
SlotsKept == \A r \in Native : \E w \in Workers : worker[w] = r

\* A job whose caller gave up is never handed to the engine.
NoAbandonedRun == [][\A r \in Requests : op[r] = "none" /\ op'[r] = "running" => caller[r] = "waiting"]_vars

\* A call whose future is open is in the queue or with a worker: nobody waits for a job that
\* the shutdown, the circuit or a worker has forgotten.
NoOrphan ==
  \A r \in Requests : Pending(r) => r \in Queued \/ \E w \in Workers : worker[w] = r

\* Once the backend is closed no native work uses it and none can start, and every call that
\* is still waiting has its answer (aclose drains before it closes).
ClosedAfterWork ==
  closing = "closed" =>
    /\ warm # "running" /\ Native = {}
    /\ \A w \in Workers : worker[w] \in {"absent", "done"}
    /\ \A r \in Requests : ~ Pending(r)

\* Behind a circuit that opened there are enough runs of the engine that failed or timed out;
\* callers that timed out in the queue or gave up do not count (CircuitBreaker).
CircuitHasCause ==
  circuit # "closed" =>
    Cardinality({r \in started : caller[r] \in {"failed", "timeout"}}) >= Threshold

\* An image is kept only in the queue and only for a caller that still waits; a running
\* classification has the executor's copy alone (the finally of classify).
ImagesReleased == \A r \in image : r \in Queued /\ caller[r] = "waiting"

\* A shutdown that begins ends, whatever was queued, running or timing out.
ShutdownEnds == closing = "begun" ~> closing = "closed"
-----------------------------------------------------------------------------
(* What makes the safety properties inductive; the proofs in               *)
(* InferenceRunner_proofs are about it.                                    *)

\* A call that has not happened was never run.
Untouched == \A r \in started : caller[r] # "new"

\* The future of a kept image is open and the engine has not seen it.
KeptIsOpen == \A r \in image : Pending(r) /\ r \notin started

\* An open future has the image of its job in the queue, or the job is with a worker.
Held == \A r \in Requests : Pending(r) => r \in image \/ \E w \in Workers : worker[w] = r

\* Workers run started jobs, and only a run fails.
RunsAreStarted ==
  /\ \A w \in Workers : worker[w] \in Requests => worker[w] \in started
  /\ \A r \in Requests : result[r] = "failed" => r \in started

\* No worker exists before the runner is up; a shutdown past its first step has no warmup
\* under way and nothing but sentinels in the queue.
Phases ==
  /\ life # "up" => \A w \in Workers : worker[w] = "absent"
  /\ closing \in {"stopping", "closed"} => warm # "running" /\ Queued = {}

\* Runs that failed for a caller or outlasted one: what may count against the engine.
Bad == {r \in started : caller[r] \in {"failed", "timeout"}}

\* Every failure the breaker remembers is a bad run of its own.
FailuresAreBad == IsFiniteSet(started) /\ Failures(history) <= Cardinality(Bad)

IInv ==
  /\ TypeOK /\ SlotsKept /\ ImagesReleased
  /\ Untouched /\ KeptIsOpen /\ Held /\ RunsAreStarted /\ Phases
  /\ ClosedAfterWork /\ FailuresAreBad /\ CircuitHasCause
=============================================================================
