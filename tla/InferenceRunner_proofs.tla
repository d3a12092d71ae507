------------------------ MODULE InferenceRunner_proofs ------------------------
(***************************************************************************)
(* Proofs about the inference runner, for any set of calls, any number of  *)
(* workers, any queue capacity and any circuit breaker: slots are kept, no *)
(* caller is forgotten, images are released, the backend is closed last,   *)
(* and a circuit opens only on runs of the engine that went wrong.         *)
(***************************************************************************)
EXTENDS InferenceRunner, TLAPS, FiniteSetTheorems, SequenceTheorems

(* The queue.                                                              *)

LEMMA TailElements ==
  ASSUME NEW S, NEW q \in Seq(S), q # <<>>
  PROVE  /\ Tail(q) \in Seq(S) /\ Len(Tail(q)) = Len(q) - 1
         /\ Head(q) \in {q[i] : i \in DOMAIN q}
         /\ {q[i] : i \in DOMAIN q} = {Head(q)} \cup {Tail(q)[i] : i \in DOMAIN Tail(q)}
<1>1. Len(q) \in Nat \ {0} /\ DOMAIN q = 1 .. Len(q)
  BY EmptySeq, LenProperties
<1>2. /\ Tail(q) \in Seq(S) /\ Len(Tail(q)) = Len(q) - 1 /\ Head(q) = q[1]
      /\ \A i \in 1 .. Len(q) - 1 : Tail(q)[i] = q[i + 1]
  BY HeadTailProperties, <1>1
<1>3. DOMAIN Tail(q) = 1 .. Len(q) - 1
  BY <1>2, LenProperties
<1>4. ASSUME NEW i \in DOMAIN q, i # 1
      PROVE  i - 1 \in DOMAIN Tail(q) /\ Tail(q)[i - 1] = q[i]
  BY <1>1, <1>2, <1>3, <1>4
<1>5. ASSUME NEW i \in DOMAIN Tail(q)
      PROVE  i + 1 \in DOMAIN q /\ Tail(q)[i] = q[i + 1]
  BY <1>1, <1>2, <1>3, <1>5
<1>6. 1 \in DOMAIN q
  BY <1>1
<1>7. Head(q) \in {q[i] : i \in DOMAIN q}
  BY <1>2, <1>6
<1>8. \A i \in DOMAIN q : q[i] \in {Head(q)} \cup {Tail(q)[j] : j \in DOMAIN Tail(q)}
  BY <1>2, <1>4
<1>9. \A i \in DOMAIN Tail(q) : Tail(q)[i] \in {q[j] : j \in DOMAIN q}
  BY <1>5
<1>10. QED
  BY <1>2, <1>7, <1>8, <1>9

\* A worker takes the head: it was queued, and everything else still is.
LEMMA TakesFacts ==
  ASSUME TypeOK, NEW w, NEW item, Takes(w, item)
  PROVE  /\ queue' \in Seq(Requests \cup {Stop}) /\ Len(queue') <= Capacity
         /\ item \in Requests => item \in Queued
         /\ Queued' \subseteq Queued /\ Queued \subseteq Queued' \cup {item}
<1>1. /\ queue \in Seq(Requests \cup {Stop}) /\ queue # <<>>
      /\ item = Head(queue) /\ queue' = Tail(queue)
  BY DEF TypeOK, Takes
<1>2. /\ queue' \in Seq(Requests \cup {Stop}) /\ Len(queue') = Len(queue) - 1
      /\ item \in {queue[i] : i \in DOMAIN queue}
      /\ {queue[i] : i \in DOMAIN queue} = {item} \cup {queue'[i] : i \in DOMAIN queue'}
  BY <1>1, TailElements
<1>3. Len(queue) \in Nat /\ Len(queue) <= Capacity
  BY <1>1, LenProperties DEF TypeOK
<1>4. Len(queue') <= Capacity
  BY <1>2, <1>3, ConstantsAssumption
<1>5. item \in Requests => item # Stop
  BY ConstantsAssumption
<1>6. QED
  BY <1>2, <1>4, <1>5 DEF Queued

LEMMA AppendElements ==
  ASSUME NEW S, NEW q \in Seq(S), NEW x \in S
  PROVE  /\ Append(q, x) \in Seq(S) /\ Len(Append(q, x)) = Len(q) + 1
         /\ {Append(q, x)[i] : i \in DOMAIN Append(q, x)} = {q[i] : i \in DOMAIN q} \cup {x}
<1>1. Len(q) \in Nat /\ DOMAIN q = 1 .. Len(q)
  BY LenProperties
<1>2. /\ Append(q, x) \in Seq(S) /\ Len(Append(q, x)) = Len(q) + 1
      /\ \A i \in 1 .. Len(q) : Append(q, x)[i] = q[i]
      /\ Append(q, x)[Len(q) + 1] = x
  BY AppendProperties
<1>3. DOMAIN Append(q, x) = 1 .. Len(q) + 1
  BY <1>2, LenProperties
<1>4. \A i \in 1 .. Len(q) + 1 : i \in 1 .. Len(q) \/ i = Len(q) + 1
  BY <1>1
<1>5. \A i \in 1 .. Len(q) : i \in 1 .. Len(q) + 1
  BY <1>1
<1>6. Len(q) + 1 \in 1 .. Len(q) + 1
  BY <1>1
<1>7. QED
  BY <1>1, <1>2, <1>3, <1>4, <1>5, <1>6

LEMMA EnqueueFacts ==
  ASSUME TypeOK, NEW r \in Requests, queue' = Append(queue, r), Len(queue) < Capacity
  PROVE  /\ queue' \in Seq(Requests \cup {Stop}) /\ Len(queue') <= Capacity
         /\ Queued' = Queued \cup {r}
<1>1. queue \in Seq(Requests \cup {Stop})
  BY DEF TypeOK
<1>2. /\ queue' \in Seq(Requests \cup {Stop}) /\ Len(queue') = Len(queue) + 1
      /\ {queue'[i] : i \in DOMAIN queue'} = {queue[i] : i \in DOMAIN queue} \cup {r}
  BY <1>1, AppendElements
<1>3. Len(queue) \in Nat
  BY <1>1, LenProperties
<1>4. QED
  BY <1>2, <1>3, ConstantsAssumption DEF Queued

\* Sentinels are not calls: putting them leaves the queued calls as they were.
LEMMA NonesFacts ==
  ASSUME NEW n \in Nat
  PROVE  /\ Nones(n) \in Seq(Requests \cup {Stop}) /\ Len(Nones(n)) = n
         /\ \A i \in DOMAIN Nones(n) : Nones(n)[i] = Stop
  BY DEF Nones

LEMMA PutFacts ==
  ASSUME TypeOK, NEW n \in Nat, queue' = queue \o Nones(n), n <= Capacity - Len(queue)
  PROVE  /\ queue' \in Seq(Requests \cup {Stop}) /\ Len(queue') <= Capacity
         /\ Queued' = Queued
<1> DEFINE q == Nones(n)
<1>1. /\ queue \in Seq(Requests \cup {Stop}) /\ Len(queue) \in Nat
      /\ DOMAIN queue = 1 .. Len(queue)
  BY LenProperties DEF TypeOK
<1>2. /\ q \in Seq(Requests \cup {Stop}) /\ Len(q) = n
      /\ \A i \in 1 .. n : q[i] = Stop
  BY NonesFacts, LenProperties
<1> HIDE DEF q
<1>3. /\ queue' \in Seq(Requests \cup {Stop}) /\ Len(queue') = Len(queue) + n
      /\ DOMAIN queue' = 1 .. Len(queue) + n
      /\ \A i \in 1 .. Len(queue) + n :
            queue'[i] = IF i <= Len(queue) THEN queue[i] ELSE q[i - Len(queue)]
  BY <1>1, <1>2, ConcatProperties, LenProperties DEF q
<1>4. ASSUME NEW i \in DOMAIN queue'
      PROVE  (i \in DOMAIN queue /\ queue'[i] = queue[i]) \/ queue'[i] = Stop
  BY <1>1, <1>2, <1>3
<1>5. \A i \in DOMAIN queue : i \in DOMAIN queue' /\ queue'[i] = queue[i]
  BY <1>1, <1>3
<1>6. Queued' = Queued
  BY <1>4, <1>5 DEF Queued
<1>7. QED
  BY <1>1, <1>3, <1>6, ConstantsAssumption
-----------------------------------------------------------------------------
(* The circuit breaker.                                                    *)

LEMMA FailuresTypes ==
  ASSUME NEW h \in Seq(BOOLEAN)
  PROVE  IsFiniteSet({i \in DOMAIN h : ~ h[i]}) /\ Failures(h) \in Nat
<1>1. Len(h) \in Nat /\ DOMAIN h = 1 .. Len(h)
  BY LenProperties
<1>2. IsFiniteSet(1 .. Len(h))
  BY <1>1, FS_Interval
<1>3. IsFiniteSet({i \in DOMAIN h : ~ h[i]})
  BY <1>1, <1>2, FS_Subset
<1>4. QED
  BY <1>3, FS_CardinalityType DEF Failures

\* A new outcome adds a failure if it is one.
LEMMA FailuresAppend ==
  ASSUME NEW h \in Seq(BOOLEAN), NEW success \in BOOLEAN
  PROVE  Failures(Append(h, success)) <= Failures(h) + (IF success THEN 0 ELSE 1)
<1> DEFINE g == Append(h, success)
           F == {i \in DOMAIN h : ~ h[i]}
           G == {i \in DOMAIN g : ~ g[i]}
<1>1. Len(h) \in Nat /\ DOMAIN h = 1 .. Len(h)
  BY LenProperties
<1>2. /\ g \in Seq(BOOLEAN) /\ Len(g) = Len(h) + 1
      /\ \A i \in 1 .. Len(h) : g[i] = h[i]
      /\ g[Len(h) + 1] = success
  BY AppendProperties
<1>3. DOMAIN g = 1 .. Len(h) + 1
  BY <1>2, LenProperties
<1>4. IsFiniteSet(F) /\ Cardinality(F) \in Nat
  BY FailuresTypes, FS_CardinalityType
<1>0. Failures(h) = Cardinality(F) /\ Failures(Append(h, success)) = Cardinality(G)
  BY DEF Failures
<1> HIDE DEF g
<1>5. ASSUME NEW i \in G
      PROVE  i \in F \/ (i = Len(h) + 1 /\ ~ success)
  BY <1>1, <1>2, <1>3
<1>6. CASE success
  <2>1. G \subseteq F
    BY <1>5, <1>6
  <2>2. Cardinality(G) <= Cardinality(F)
    BY <2>1, <1>4, FS_Subset
  <2> HIDE DEF F, G
  <2>3. QED
    <3>1. Failures(Append(h, success)) <= Failures(h) + 0
      BY <2>2, <1>4, <1>0
    <3>2. QED
      BY <3>1, <1>6
<1>7. CASE ~ success
  <2>1. G \subseteq F \cup {Len(h) + 1}
    BY <1>5
  <2> HIDE DEF F, G
  <2>2. /\ IsFiniteSet(F \cup {Len(h) + 1})
        /\ Cardinality(F \cup {Len(h) + 1}) <= Cardinality(F) + 1
        /\ Cardinality(F \cup {Len(h) + 1}) \in Nat
    <3>1. /\ IsFiniteSet(F \cup {Len(h) + 1})
          /\ \/ Cardinality(F \cup {Len(h) + 1}) = Cardinality(F)
             \/ Cardinality(F \cup {Len(h) + 1}) = Cardinality(F) + 1
      BY <1>4, FS_AddElement
    <3>2. QED
      BY <3>1, <1>4
  <2>3. Cardinality(G) <= Cardinality(F \cup {Len(h) + 1}) /\ Cardinality(G) \in Nat
    BY <2>1, <2>2, FS_Subset, FS_CardinalityType
  <2>4. Cardinality(G) <= Cardinality(F) + 1
    BY <2>2, <2>3, <1>4
  <2>5. QED
    BY <2>4, <1>7, <1>0
<1>8. QED
  BY <1>6, <1>7

\* Forgetting the oldest outcome adds none.
LEMMA FailuresTail ==
  ASSUME NEW h \in Seq(BOOLEAN), h # <<>>
  PROVE  Tail(h) \in Seq(BOOLEAN) /\ Failures(Tail(h)) <= Failures(h)
<1> DEFINE g == Tail(h)
           F == {i \in DOMAIN h : ~ h[i]}
           G == {i \in DOMAIN g : ~ g[i]}
           f == [i \in G |-> i + 1]
<1>1. Len(h) \in Nat \ {0} /\ DOMAIN h = 1 .. Len(h)
  BY EmptySeq, LenProperties
<1>2. /\ g \in Seq(BOOLEAN) /\ Len(g) = Len(h) - 1
      /\ \A i \in 1 .. Len(h) - 1 : g[i] = h[i + 1]
  BY HeadTailProperties, <1>1
<1>3. DOMAIN g = 1 .. Len(h) - 1
  BY <1>2, LenProperties
<1>4. IsFiniteSet(F)
  BY FailuresTypes
<1>5. \A i \in G : i \in Int /\ i + 1 \in F
  BY <1>1, <1>2, <1>3
<1> HIDE DEF F, G
<1>6. f \in Injection(G, F)
  BY <1>5 DEF Injection, IsInjective
<1>7. Cardinality(G) <= Cardinality(F)
  BY <1>4, <1>6, FS_Injection
<1>8. QED
  BY <1>2, <1>7 DEF Failures, F, G

LEMMA EmptyHistory == <<>> \in Seq(BOOLEAN) /\ Failures(<<>>) = 0 /\ Len(<<>>) = 0
<1>1. {i \in DOMAIN <<>> : ~ <<>>[i]} = {}
  OBVIOUS
<1>2. QED
  BY <1>1, FS_EmptySet DEF Failures

LEMMA PushedFacts ==
  ASSUME NEW h \in Seq(BOOLEAN), Len(h) <= Window, NEW success \in BOOLEAN
  PROVE  /\ Pushed(h, success) \in Seq(BOOLEAN) /\ Len(Pushed(h, success)) <= Window
         /\ Failures(Pushed(h, success)) <= Failures(h) + (IF success THEN 0 ELSE 1)
<1>1. Len(h) \in Nat /\ Window \in Nat \ {0}
  BY LenProperties, ConstantsAssumption
<1>2. CASE Len(h) < Window
  <2>1. Append(h, success) \in Seq(BOOLEAN) /\ Len(Append(h, success)) = Len(h) + 1
    BY AppendProperties
  <2>2. QED
    BY <1>1, <1>2, <2>1, FailuresAppend DEF Pushed
<1>3. CASE ~ Len(h) < Window
  <2>1. h # <<>> /\ Len(h) = Window
    BY <1>1, <1>3, EmptySeq
  <2>2. Tail(h) \in Seq(BOOLEAN) /\ Len(Tail(h)) = Window - 1 /\ Failures(Tail(h)) <= Failures(h)
    BY <2>1, FailuresTail, HeadTailProperties
  <2>3. /\ Append(Tail(h), success) \in Seq(BOOLEAN) /\ Len(Append(Tail(h), success)) = Window
        /\ Failures(Append(Tail(h), success)) <= Failures(Tail(h)) + (IF success THEN 0 ELSE 1)
    <3> DEFINE g == Tail(h)
    <3> HIDE DEF g
    <3>1. g \in Seq(BOOLEAN) /\ Len(g) = Window - 1
      BY <2>2 DEF g
    <3>2. Append(g, success) \in Seq(BOOLEAN) /\ Len(Append(g, success)) = Len(g) + 1
      BY <3>1, AppendProperties
    <3>3. Failures(Append(g, success)) <= Failures(g) + (IF success THEN 0 ELSE 1)
      BY <3>1, FailuresAppend
    <3>4. QED
      BY <1>1, <3>1, <3>2, <3>3 DEF g
  <2>4. /\ Failures(h) \in Nat /\ Failures(Tail(h)) \in Nat
        /\ Failures(Append(Tail(h), success)) \in Nat
    BY <2>2, <2>3, FailuresTypes
  <2>5. QED
    BY <1>1, <1>3, <2>2, <2>3, <2>4 DEF Pushed
<1>4. QED
  BY <1>2, <1>3

\* An outcome adds at most one failure, and the circuit opens on enough of them only.
LEMMA RecordFacts ==
  ASSUME TypeOK, NEW success \in BOOLEAN, Record(success)
  PROVE  /\ circuit' \in {"closed", "open", "cooled"}
         /\ history' \in Seq(BOOLEAN) /\ Len(history') <= Window
         /\ Failures(history) \in Nat /\ Failures(history') \in Nat
         /\ Failures(history') <= Failures(history) + (IF success THEN 0 ELSE 1)
         /\ circuit' # "closed" =>
              circuit' = circuit \/ (circuit' = "open" /\ Failures(history') >= Threshold)
<1>1. /\ history \in Seq(BOOLEAN) /\ Len(history) <= Window
      /\ circuit \in {"closed", "open", "cooled"} /\ Window \in Nat \ {0}
  BY ConstantsAssumption DEF TypeOK
<1>2. Failures(history) \in Nat
  BY <1>1, FailuresTypes
<1>3. CASE circuit = "open"
  BY <1>1, <1>2, <1>3 DEF Record, breaker
<1>4. CASE circuit # "open"
  <2> DEFINE h == IF circuit = "cooled" THEN <<>> ELSE history
  <2>1. /\ h \in Seq(BOOLEAN) /\ Len(h) <= Window
        /\ Failures(h) <= Failures(history) /\ Failures(h) \in Nat
    <3>1. CASE circuit = "cooled"
      <4>1. h = <<>>
        BY <3>1
      <4> HIDE DEF h
      <4>2. h \in Seq(BOOLEAN) /\ Failures(h) = 0 /\ Len(h) = 0
        BY <4>1, EmptyHistory
      <4>3. QED
        BY <4>2, <1>1, <1>2
    <3>2. CASE circuit # "cooled"
      BY <3>2, <1>1, <1>2
    <3>3. QED
      BY <3>1, <3>2
  <2>2. /\ history' = Pushed(h, success)
        /\ circuit' = IF Len(history') = Window /\ Failures(history') >= Threshold
                      THEN "open" ELSE "closed"
    BY <1>4 DEF Record
  <2> HIDE DEF h
  <2>3. /\ history' \in Seq(BOOLEAN) /\ Len(history') <= Window
        /\ Failures(history') <= Failures(h) + (IF success THEN 0 ELSE 1)
    BY <2>1, <2>2, PushedFacts
  <2>4. Failures(history') \in Nat
    BY <2>3, FailuresTypes
  <2>5. QED
    BY <1>2, <2>1, <2>2, <2>3, <2>4
<1>5. QED
  BY <1>3, <1>4
-----------------------------------------------------------------------------
(* Types.                                                                  *)

LEMMA WorkersFacts == Cardinality(Workers) \in Nat /\ IsFiniteSet(Workers) /\ Capacity \in Nat \ {0}
  BY ConstantsAssumption, FS_CardinalityType

LEMMA InitTypes == Init => TypeOK
<1>1. <<>> \in Seq(Requests \cup {Stop}) /\ Len(<<>>) = 0
  OBVIOUS
<1>2. QED
  BY <1>1, EmptyHistory, WorkersFacts, ConstantsAssumption DEF Init, TypeOK, Ended

LEMMA CallTypes == ASSUME TypeOK, NEW r \in Requests, Call(r) PROVE TypeOK'
<1>1. CASE Enqueue(r)
  BY <1>1, EnqueueFacts DEF TypeOK, Enqueue, lifecycle, breaker, Ended
<1>2. CASE Unavailable(r) \/ CircuitOpen(r) \/ Overloaded(r)
  BY <1>2 DEF TypeOK, Unavailable, CircuitOpen, Overloaded, Refuse, lifecycle, breaker, Ended
<1>3. QED
  BY <1>1, <1>2 DEF Call

LEMMA ReturnTypes == ASSUME TypeOK, NEW r \in Requests, Return(r) PROVE TypeOK'
<1>1. ASSUME NEW success \in BOOLEAN, Record(success) \/ UNCHANGED breaker
      PROVE  /\ circuit' \in {"closed", "open", "cooled"}
             /\ history' \in Seq(BOOLEAN) /\ Len(history') <= Window
  BY <1>1, RecordFacts DEF TypeOK, breaker
<1>2. /\ circuit' \in {"closed", "open", "cooled"}
      /\ history' \in Seq(BOOLEAN) /\ Len(history') <= Window
  <2>1. CASE Answer(r)
    <3>1. (result[r] = "ok") \in BOOLEAN
      OBVIOUS
    <3>2. Record(result[r] = "ok") \/ UNCHANGED breaker
      BY <2>1 DEF Answer
    <3>3. QED
      BY <3>1, <3>2, <1>1
  <2>2. CASE TimeOut(r)
    <3>1. Record(FALSE) \/ UNCHANGED breaker
      BY <2>2 DEF TimeOut
    <3>2. QED
      BY <3>1, <1>1
  <2>3. CASE Cancel(r)
    BY <2>3, <1>1 DEF Cancel
  <2>4. QED
    BY <2>1, <2>2, <2>3 DEF Return
<1>3. PICK outcome \in {"timeout", "cancelled"} \cup Ended : Leave(r, outcome)
  BY DEF Return, Answer, TimeOut, Cancel
<1>4. result' \in [Requests -> {"none", "pending", "cancelled"} \cup Ended]
  BY DEF Return, Answer, TimeOut, Cancel, Cancelled, TypeOK
<1>5. caller' \in [Requests -> {"new", "waiting", "overloaded", "timeout", "cancelled"} \cup Ended]
  BY <1>3 DEF TypeOK, Leave
<1>6. UNCHANGED <<lifecycle, queue, started, op, worker>> /\ image' \subseteq Requests
  BY <1>3 DEF TypeOK, Leave, Released
<1>7. QED
  BY <1>2, <1>4, <1>5, <1>6 DEF TypeOK, lifecycle, Ended

LEMMA WorkTypes == ASSUME TypeOK, NEW w \in Workers, Work(w) PROVE TypeOK'
<1>1. CASE TakeStop(w)
  BY <1>1, TakesFacts DEF TypeOK, TakeStop, lifecycle, breaker
<1>2. ASSUME NEW r \in Requests, Drop(w, r)
      PROVE  TypeOK'
  BY <1>2, TakesFacts DEF TypeOK, Drop, lifecycle, breaker
<1>3. ASSUME NEW r \in Requests, RefuseQueued(w, r)
      PROVE  TypeOK'
  BY <1>3, TakesFacts DEF TypeOK, RefuseQueued, lifecycle, breaker, Ended
<1>4. ASSUME NEW r \in Requests, Begin(w, r)
      PROVE  TypeOK'
  BY <1>4, TakesFacts DEF TypeOK, Begin, lifecycle, breaker
<1>5. ASSUME NEW r \in Requests, Finish(w, r)
      PROVE  TypeOK'
  BY <1>5 DEF TypeOK, Finish, Awaited, lifecycle, breaker, Ended
<1>6. QED
  BY <1>1, <1>2, <1>3, <1>4, <1>5 DEF Work

\* What Drain and PutStops put: no more than they owe, no more than fits.
LEMMA DrainFacts ==
  ASSUME TypeOK, Drain
  PROVE  /\ stops' \in 0 .. Cardinality(Workers)
         /\ queue' \in Seq(Requests \cup {Stop}) /\ Len(queue') <= Capacity /\ Queued' = {}
<1> DEFINE n == AtOnce(Sentinels, Capacity)
<1>1. n \in Nat /\ n <= Capacity /\ Sentinels - n \in 0 .. Cardinality(Workers)
  BY WorkersFacts DEF AtOnce, Sentinels
<1>2. queue' = Nones(n) /\ stops' = Sentinels - n
  BY DEF Drain
<1> HIDE DEF n
<1>3. /\ queue' \in Seq(Requests \cup {Stop}) /\ Len(queue') = n
      /\ \A i \in DOMAIN queue' : queue'[i] = Stop
  BY <1>1, <1>2, NonesFacts
<1>4. QED
  BY <1>1, <1>2, <1>3 DEF Queued

LEMMA PutStopsFacts ==
  ASSUME TypeOK, PutStops
  PROVE  /\ stops' \in 0 .. Cardinality(Workers)
         /\ queue' \in Seq(Requests \cup {Stop}) /\ Len(queue') <= Capacity /\ Queued' = Queued
<1> DEFINE n == AtOnce(stops, Capacity - Len(queue))
<1>1. Len(queue) \in Nat
  BY LenProperties DEF TypeOK
<1>2. n \in Nat /\ n <= Capacity - Len(queue) /\ stops - n \in 0 .. Cardinality(Workers)
  BY <1>1, WorkersFacts DEF AtOnce, PutStops, TypeOK
<1>3. queue' = queue \o Nones(n) /\ stops' = stops - n
  BY DEF PutStops
<1> HIDE DEF n
<1>4. QED
  BY <1>2, <1>3, PutFacts

LEMMA PhaseTypes ==
  ASSUME TypeOK, Start \/ Open \/ GiveUp \/ WarmupDone \/ Close \/ Shutdown
  PROVE  TypeOK'
<1>1. CASE Start \/ GiveUp \/ WarmupDone \/ Close
  BY <1>1 DEF TypeOK, Start, GiveUp, WarmupDone, WarmupEnd, Close, BeginClosing, breaker
<1>2. CASE Open
  BY <1>2 DEF TypeOK, Open, breaker
<1>3. CASE Drain
  <2>1. result' \in [Requests -> {"none", "pending", "cancelled"} \cup Ended]
    BY <1>3 DEF TypeOK, Drain, Drained, Ended
  <2>2. QED
    BY <1>3, <2>1, DrainFacts DEF TypeOK, Drain, breaker
<1>4. CASE PutStops
  BY <1>4, PutStopsFacts DEF TypeOK, PutStops, breaker
<1>5. CASE CloseBackend
  BY <1>5 DEF TypeOK, CloseBackend, breaker
<1>6. QED
  BY <1>1, <1>2, <1>3, <1>4, <1>5 DEF Shutdown

LEMMA NativeTypes == ASSUME TypeOK, NativeDone PROVE TypeOK'
  BY DEF TypeOK, NativeDone, NativeEnd, lifecycle, breaker

LEMMA CoolDownTypes == ASSUME TypeOK, CoolDown PROVE TypeOK'
  BY DEF TypeOK, CoolDown, lifecycle

LEMMA NextTypes == TypeOK /\ [Next]_vars => TypeOK'
<1> SUFFICES ASSUME TypeOK, [Next]_vars PROVE TypeOK'
  OBVIOUS
<1>1. CASE Next
  BY <1>1, CallTypes, ReturnTypes, WorkTypes, PhaseTypes, NativeTypes, CoolDownTypes DEF Next
<1>2. CASE UNCHANGED vars
  BY <1>2 DEF TypeOK, vars, lifecycle, breaker
<1>3. QED
  BY <1>1, <1>2

\* Every part keeps its shape: whatever the sizes, the queue stays within its capacity and the
\* breaker's memory within its window.
THEOREM Types == Spec => []TypeOK
<1>1. Init => TypeOK
  BY InitTypes
<1>2. TypeOK /\ [Next]_vars => TypeOK'
  BY NextTypes
<1>3. QED
  BY <1>1, <1>2, PTL DEF Spec
-----------------------------------------------------------------------------
(* Slots, images and futures.                                              *)

\* The invariant without the circuit breaker.
Jobs ==
  /\ TypeOK /\ SlotsKept /\ ImagesReleased
  /\ Untouched /\ KeptIsOpen /\ Held /\ RunsAreStarted /\ Phases /\ ClosedAfterWork

LEMMA InitJobs == Init => Jobs
<1>1. SUFFICES ASSUME Init PROVE Jobs
  OBVIOUS
<1>2. TypeOK
  BY <1>1, InitTypes
<1>3. Queued = {}
  BY <1>1 DEF Init, Queued
<1>4. QED
  BY <1>1, <1>2, <1>3, ConstantsAssumption DEF Init, Jobs, SlotsKept, Native, ImagesReleased, Untouched, KeptIsOpen, Held,
       Pending, RunsAreStarted, Phases, ClosedAfterWork

\* A new call enters the queue with its image, or leaves no trace.
LEMMA CallKeeps == ASSUME Jobs, NEW r \in Requests, Call(r) PROVE Jobs'
<1>1. TypeOK /\ TypeOK'
  BY CallTypes DEF Jobs
<1>2. CASE Enqueue(r)
  <2>1. closing = "no" /\ life = "up" /\ r \notin started
    BY <1>2 DEF Enqueue, Ready, Jobs, Untouched
  <2>2. Queued' = Queued \cup {r}
    BY <1>1, <1>2, EnqueueFacts DEF Enqueue
  <2>3. QED
    BY <1>1, <1>2, <2>1, <2>2 DEF TypeOK, Jobs, Enqueue, SlotsKept, Native, ImagesReleased, Untouched,
         KeptIsOpen, Held, Pending, RunsAreStarted, Phases, ClosedAfterWork, lifecycle
<1>3. CASE Unavailable(r) \/ CircuitOpen(r) \/ Overloaded(r)
  <2>1. /\ caller[r] = "new"
        /\ \E reason \in {"unavailable", "circuit", "overloaded"} : caller' = [caller EXCEPT ![r] = reason]
        /\ UNCHANGED <<lifecycle, queue, result, image, started, op, worker>>
    BY <1>3 DEF Unavailable, CircuitOpen, Overloaded, Refuse
  <2>2. Queued' = Queued
    BY <2>1 DEF Queued
  <2>3. QED
    BY <1>1, <2>1, <2>2 DEF TypeOK, Jobs, SlotsKept, Native, ImagesReleased, Untouched,
         KeptIsOpen, Held, Pending, RunsAreStarted, Phases, ClosedAfterWork, lifecycle
<1>4. QED
  BY <1>2, <1>3 DEF Call

\* However a call ends, its image is gone and its future is no longer open.
LEMMA ReturnKeeps == ASSUME Jobs, NEW r \in Requests, Return(r) PROVE Jobs'
<1>1. TypeOK /\ TypeOK'
  BY ReturnTypes DEF Jobs
<1>2. PICK outcome \in {"timeout", "cancelled"} \cup Ended : Leave(r, outcome)
  BY DEF Return, Answer, TimeOut, Cancel
<1>3. /\ result'[r] # "pending" /\ (result'[r] = "failed" => result[r] = "failed")
      /\ \A q \in Requests \ {r} : result'[q] = result[q]
  BY <1>1 DEF Return, Answer, TimeOut, Cancel, Cancelled, Pending, Ended, TypeOK
<1>4. /\ caller[r] = "waiting" /\ caller' = [caller EXCEPT ![r] = outcome]
      /\ image' = image \ {r}
      /\ UNCHANGED <<lifecycle, queue, started, op, worker>>
  BY <1>2 DEF Leave, Released
<1>5. Queued' = Queued
  BY <1>4 DEF Queued
<1>6. outcome # "new"
  BY DEF Ended
<1>7. QED
  BY <1>1, <1>3, <1>4, <1>5, <1>6 DEF TypeOK, Jobs, SlotsKept, Native, ImagesReleased, Untouched,
       KeptIsOpen, Held, Pending, RunsAreStarted, Phases, ClosedAfterWork, lifecycle

\* A run that has ended answers the future it was started for.
LEMMA FinishKeeps == ASSUME Jobs, NEW w \in Workers, NEW r \in Requests, Finish(w, r) PROVE Jobs'
<1>1. TypeOK /\ TypeOK'
  BY WorkTypes DEF Jobs, Work
<1>2. /\ worker[w] = r /\ op[r] # "running" /\ worker' = [worker EXCEPT ![w] = "idle"]
      /\ UNCHANGED <<life, warm, closing, stops, queue, caller, image, started, op>>
  BY DEF Finish, Awaited, lifecycle
<1>3. /\ result'[r] # "pending"
      /\ \A q \in Requests \ {r} : result'[q] = result[q]
  BY <1>1, <1>2 DEF TypeOK, Finish, Pending
<1>4. r \in started /\ r \notin image
  BY <1>2 DEF Jobs, RunsAreStarted, KeptIsOpen
<1>5. r \notin {"absent", "idle", "done"} /\ "idle" \notin Requests
  BY ConstantsAssumption
<1>6. life = "up" /\ closing # "closed"
  BY <1>2, <1>5 DEF Jobs, Phases, ClosedAfterWork
<1>7. Queued' = Queued
  BY <1>2 DEF Queued
<1>8. SlotsKept' /\ ClosedAfterWork'
  BY <1>1, <1>2, <1>6 DEF Jobs, TypeOK, SlotsKept, Native, ClosedAfterWork
<1>9. ImagesReleased' /\ Untouched' /\ KeptIsOpen'
  BY <1>1, <1>2, <1>3, <1>4, <1>7 DEF Jobs, TypeOK, ImagesReleased, Untouched, KeptIsOpen, Pending
<1>10. Held' /\ RunsAreStarted' /\ Phases'
  BY <1>1, <1>2, <1>3, <1>4, <1>5, <1>6, <1>7 DEF Jobs, TypeOK, Held, Pending, RunsAreStarted, Phases
<1>11. QED
  BY <1>1, <1>8, <1>9, <1>10 DEF Jobs

\* A worker that takes an item loses nobody: the job was given up, is answered, or is with it.
LEMMA WorkKeeps == ASSUME Jobs, NEW w \in Workers, Work(w) PROVE Jobs'
<1>1. TypeOK /\ TypeOK'
  BY WorkTypes DEF Jobs
<1>2. ASSUME NEW r \in Requests, Takes(w, r)
      PROVE  /\ Queued' \subseteq Queued /\ Queued \subseteq Queued' \cup {r} /\ r \in Queued
             /\ worker[w] = "idle" /\ life = "up" /\ closing \notin {"stopping", "closed"}
  <2>1. Queued' \subseteq Queued /\ Queued \subseteq Queued' \cup {r} /\ r \in Queued
    BY <1>1, <1>2, TakesFacts
  <2>2. worker[w] = "idle"
    BY <1>2 DEF Takes
  <2>3. QED
    BY <2>1, <2>2 DEF Jobs, Phases
<1> USE <1>1 DEF TypeOK, Jobs, SlotsKept, Native, ImagesReleased, Untouched, KeptIsOpen, Held, Pending,
      RunsAreStarted, Phases, ClosedAfterWork, lifecycle
<1>3. CASE TakeStop(w)
  <2>1. Queued' \subseteq Queued /\ Queued \subseteq Queued' \cup {Stop}
    BY <1>3, TakesFacts DEF TakeStop
  <2>2. QED
    BY <1>3, <2>1, ConstantsAssumption DEF TakeStop, Takes
<1>4. ASSUME NEW r \in Requests, Drop(w, r)
      PROVE  Jobs'
  BY <1>4, <1>2 DEF Drop, Abandoned
<1>5. ASSUME NEW r \in Requests, RefuseQueued(w, r)
      PROVE  Jobs'
  BY <1>5, <1>2 DEF RefuseQueued, Abandoned
<1>6. ASSUME NEW r \in Requests, Begin(w, r)
      PROVE  Jobs'
  BY <1>6, <1>2, ConstantsAssumption DEF Begin, Abandoned
<1>7. ASSUME NEW r \in Requests, Finish(w, r)
      PROVE  Jobs'
  BY <1>7, FinishKeeps
<1>8. QED
  BY <1>3, <1>4, <1>5, <1>6, <1>7 DEF Work

\* Drain takes the queue from its callers and answers them; the sentinels are nobody's.
LEMMA ShutdownKeeps == ASSUME Jobs, Shutdown PROVE Jobs'
<1>1. TypeOK /\ TypeOK'
  BY PhaseTypes DEF Jobs
<1>2. CASE Drain
  <2>1. Queued' = {}
    BY <1>1, <1>2, DrainFacts
  <2>2. /\ warm # "running" /\ closing' = "stopping" /\ image' = image \ Queued
        /\ UNCHANGED <<life, warm, caller, started, op, worker>>
    BY <1>2 DEF Drain
  <2>3. image' = {}
    BY <2>2 DEF Jobs, ImagesReleased
  <2>4. \A r \in Requests : result'[r] = Drained(r)
    BY <1>2 DEF Drain
  <2>5. ASSUME NEW r \in Requests, result'[r] = "pending"
        PROVE  \E w \in Workers : worker[w] = r
    <3>1. Pending(r) /\ r \notin Queued
      BY <2>4, <2>5 DEF Drained, Pending
    <3>2. QED
      BY <3>1 DEF Jobs, Held, ImagesReleased
  <2>6. \A r \in Requests : result'[r] = "failed" => result[r] = "failed"
    BY <2>4 DEF Drained
  <2>7. QED
    BY <1>1, <2>1, <2>2, <2>3, <2>5, <2>6 DEF Jobs, SlotsKept, Native, ImagesReleased, Untouched,
         KeptIsOpen, Held, Pending, RunsAreStarted, Phases, ClosedAfterWork
<1>3. CASE PutStops
  <2>1. Queued' = Queued
    BY <1>1, <1>3, PutStopsFacts
  <2>2. closing = "stopping" /\ UNCHANGED <<life, warm, closing, caller, result, image, started, op, worker>>
    BY <1>3 DEF PutStops
  <2>3. QED
    BY <1>1, <2>1, <2>2 DEF Jobs, SlotsKept, Native, ImagesReleased, Untouched,
         KeptIsOpen, Held, Pending, RunsAreStarted, Phases, ClosedAfterWork
<1>4. CASE CloseBackend
  <2>1. /\ closing = "stopping" /\ closing' = "closed" /\ Gathered
        /\ UNCHANGED <<life, warm, queue, caller, result, image, started, op, worker>>
    BY <1>4 DEF CloseBackend
  <2>2. Queued' = Queued /\ Queued = {} /\ warm # "running"
    BY <2>1 DEF Queued, Jobs, Phases
  <2>3. image = {}
    BY <2>2 DEF Jobs, ImagesReleased
  <2>4. \A w \in Workers : worker[w] \notin Requests
    BY <2>1, ConstantsAssumption DEF Gathered
  <2>5. Native = {} /\ \A r \in Requests : ~ Pending(r)
    BY <2>3, <2>4 DEF Jobs, SlotsKept, Held, Native
  <2>6. QED
    BY <1>1, <2>1, <2>2, <2>5 DEF Gathered, Jobs, SlotsKept, Native, ImagesReleased, Untouched,
         KeptIsOpen, Held, Pending, RunsAreStarted, Phases, ClosedAfterWork
<1>5. QED
  BY <1>2, <1>3, <1>4 DEF Shutdown

\* Starting and beginning to close touch no job; no worker exists before.
LEMMA PhaseKeeps == ASSUME Jobs, Start \/ Open \/ GiveUp \/ WarmupDone \/ Close PROVE Jobs'
<1>1. TypeOK /\ TypeOK'
  BY PhaseTypes DEF Jobs
<1>2. /\ UNCHANGED <<queue, caller, result, image, started, op>> /\ Queued' = Queued
  BY DEF Start, Open, GiveUp, WarmupDone, WarmupEnd, Close, Queued
<1>3. CASE Open
  <2>1. /\ life' = "up" /\ closing = "no" /\ closing' = "no"
        /\ \A w \in Workers : worker[w] = "absent" /\ worker'[w] = "idle"
    BY <1>3 DEF Open, Jobs, Phases
  <2>2. Native = {} /\ \A w \in Workers : worker[w] \notin Requests /\ worker'[w] \notin Requests
    BY <2>1, ConstantsAssumption DEF Jobs, SlotsKept, Native
  <2>3. QED
    BY <1>1, <1>2, <2>1, <2>2 DEF Jobs, SlotsKept, Native, ImagesReleased, Untouched,
         KeptIsOpen, Held, Pending, RunsAreStarted, Phases, ClosedAfterWork
<1>4. CASE Start \/ GiveUp \/ WarmupDone \/ Close
  <2>1. /\ UNCHANGED worker /\ (life = "up" <=> life' = "up")
        /\ closing' \in {"stopping", "closed"} =>
             closing \in {"stopping", "closed"} /\ (warm # "running" => warm' # "running")
        /\ closing' = "closed" => closing = "closed"
    BY <1>4 DEF Start, GiveUp, WarmupDone, WarmupEnd, Close, BeginClosing
  <2>2. QED
    BY <1>1, <1>2, <2>1 DEF Jobs, SlotsKept, Native, ImagesReleased, Untouched,
         KeptIsOpen, Held, Pending, RunsAreStarted, Phases, ClosedAfterWork
<1>5. QED
  BY <1>3, <1>4

LEMMA NativeKeeps == ASSUME Jobs, NativeDone PROVE Jobs'
<1>1. TypeOK /\ TypeOK'
  BY NativeTypes DEF Jobs
<1>2. /\ UNCHANGED <<life, warm, closing, stops, queue, caller, result, image, started, worker>>
      /\ Queued' = Queued /\ Native' \subseteq Native
  BY <1>1 DEF NativeDone, NativeEnd, lifecycle, Queued, Native, TypeOK
<1>3. QED
  BY <1>1, <1>2 DEF Jobs, SlotsKept, ImagesReleased, Untouched,
       KeptIsOpen, Held, Pending, RunsAreStarted, Phases, ClosedAfterWork

LEMMA OthersKeep == ASSUME Jobs, CoolDown \/ UNCHANGED vars PROVE Jobs'
<1>1. TypeOK'
  BY NextTypes DEF Jobs, Next
<1>2. /\ UNCHANGED <<life, warm, closing, stops, queue, caller, result, image, started, op, worker>>
      /\ Queued' = Queued /\ Native' = Native
  BY DEF CoolDown, vars, lifecycle, Queued, Native
<1>3. QED
  BY <1>1, <1>2 DEF Jobs, SlotsKept, ImagesReleased, Untouched,
       KeptIsOpen, Held, Pending, RunsAreStarted, Phases, ClosedAfterWork

LEMMA NextKeeps == Jobs /\ [Next]_vars => Jobs'
  BY CallKeeps, ReturnKeeps, WorkKeeps, ShutdownKeeps, PhaseKeeps, NativeKeeps, OthersKeep DEF Next
-----------------------------------------------------------------------------
(* The circuit has a cause.                                                *)

\* What was started stays started, and at most one job starts in a step.
LEMMA StartedGrows ==
  ASSUME [Next]_vars
  PROVE  started \subseteq started' /\ (started' = started \/ \E r \in Requests : started' = started \cup {r})
  BY DEF Next, Call, Return, Work, Shutdown, WarmupDone, NativeDone, Start, Open, GiveUp, WarmupEnd, Close,
     Drain, PutStops, CloseBackend, CoolDown, NativeEnd, Unavailable, CircuitOpen, Overloaded, Refuse,
     Enqueue, Answer, TimeOut, Cancel, Leave, TakeStop, Drop, RefuseQueued, Begin, Finish, vars

\* A bad run stays one.
LEMMA BadGrows ==
  ASSUME Jobs, Jobs', [Next]_vars, IsFiniteSet(started)
  PROVE  /\ IsFiniteSet(started') /\ Bad \subseteq Bad'
         /\ IsFiniteSet(Bad) /\ IsFiniteSet(Bad')
         /\ Cardinality(Bad) \in Nat /\ Cardinality(Bad') \in Nat
         /\ Cardinality(Bad) <= Cardinality(Bad')
<1>1. started \subseteq started' /\ (started' = started \/ \E r \in Requests : started' = started \cup {r})
  BY StartedGrows
<1>2. IsFiniteSet(started')
  BY <1>1, FS_AddElement
<1>3. \A r \in Requests : caller[r] \in {"failed", "timeout"} => caller'[r] = caller[r]
  BY DEF Jobs, TypeOK, Next, Call, Return, Work, Shutdown, WarmupDone, NativeDone, Start, Open, GiveUp, WarmupEnd,
     Close, Drain, PutStops, CloseBackend, CoolDown, NativeEnd, Unavailable, CircuitOpen, Overloaded,
     Refuse, Enqueue, Answer, TimeOut, Cancel, Leave, TakeStop, Drop, RefuseQueued, Begin, Finish, vars
<1>4. Bad \subseteq Bad'
  BY <1>1, <1>3 DEF Bad, Jobs, TypeOK
<1>5. Bad \subseteq started /\ Bad' \subseteq started'
  BY DEF Bad
<1>6. IsFiniteSet(Bad) /\ IsFiniteSet(Bad')
  BY <1>2, <1>5, FS_Subset
<1>7. Cardinality(Bad) \in Nat /\ Cardinality(Bad') \in Nat /\ Cardinality(Bad) <= Cardinality(Bad')
  BY <1>4, <1>6, FS_Subset, FS_CardinalityType
<1>8. QED
  BY <1>2, <1>4, <1>6, <1>7

\* A call that fails, or that outlasts its caller's patience while it runs, is one more bad
\* run: its caller was waiting until now.
LEMMA OneMoreBad ==
  ASSUME Jobs, Jobs', [Next]_vars, IsFiniteSet(started), NEW r \in started,
         caller[r] = "waiting", caller'[r] \in {"failed", "timeout"}
  PROVE  Cardinality(Bad) + 1 <= Cardinality(Bad')
<1>1. /\ Bad \subseteq Bad' /\ IsFiniteSet(Bad) /\ IsFiniteSet(Bad')
      /\ started \subseteq started'
      /\ Cardinality(Bad) \in Nat /\ Cardinality(Bad') \in Nat
  BY BadGrows, StartedGrows
<1>2. r \notin Bad /\ r \in Bad'
  BY <1>1 DEF Bad
<1>3. IsFiniteSet(Bad \cup {r}) /\ Cardinality(Bad \cup {r}) = Cardinality(Bad) + 1
  BY <1>1, <1>2, FS_AddElement
<1>4. Bad \cup {r} \subseteq Bad'
  BY <1>1, <1>2
<1>5. Cardinality(Bad \cup {r}) <= Cardinality(Bad')
  BY <1>1, <1>4, FS_Subset
<1>6. QED
  BY <1>3, <1>5

\* What a step does to the breaker, seen against the bad runs.
LEMMA BreakerStep ==
  ASSUME Jobs, Jobs', [Next]_vars, IsFiniteSet(started), Failures(history) <= Cardinality(Bad)
  PROVE  /\ Failures(history') <= Cardinality(Bad')
         /\ circuit' # "closed" => circuit # "closed" \/ Cardinality(Bad') >= Threshold
<1>1. /\ Failures(history) \in Nat /\ Failures(history') \in Nat /\ Threshold \in Nat
      /\ Cardinality(Bad) \in Nat /\ Cardinality(Bad') \in Nat
      /\ Cardinality(Bad) <= Cardinality(Bad')
  <2>1. Failures(history) \in Nat /\ Failures(history') \in Nat
    BY FailuresTypes DEF Jobs, TypeOK
  <2>2. QED
    BY <2>1, BadGrows, ConstantsAssumption
<1>2. CASE UNCHANGED breaker \/ CoolDown
  BY <1>1, <1>2 DEF breaker, CoolDown
<1>3. ASSUME NEW success \in BOOLEAN, Record(success),
             ~ success => Cardinality(Bad) + 1 <= Cardinality(Bad')
      PROVE  /\ Failures(history') <= Cardinality(Bad')
             /\ circuit' # "closed" => circuit # "closed" \/ Cardinality(Bad') >= Threshold
  <2>1. /\ Failures(history') <= Failures(history) + (IF success THEN 0 ELSE 1)
        /\ circuit' # "closed" =>
             circuit' = circuit \/ (circuit' = "open" /\ Failures(history') >= Threshold)
    BY <1>3, RecordFacts DEF Jobs
  <2>2. Failures(history') <= Cardinality(Bad')
    <3>1. CASE success
      BY <3>1, <2>1, <1>1
    <3>2. CASE ~ success
      BY <3>2, <2>1, <1>1, <1>3
    <3>3. QED
      BY <3>1, <3>2
  <2>3. QED
    BY <1>1, <2>1, <2>2
<1>4. ASSUME NEW r \in Requests, Answer(r), Record(result[r] = "ok"), result[r] \in {"ok", "failed"}
      PROVE  /\ Failures(history') <= Cardinality(Bad')
             /\ circuit' # "closed" => circuit # "closed" \/ Cardinality(Bad') >= Threshold
  <2>1. caller[r] = "waiting" /\ caller'[r] = result[r]
    BY <1>4 DEF Answer, Leave, Jobs, TypeOK
  <2>2. result[r] = "failed" => r \in started
    BY DEF Jobs, RunsAreStarted
  <2>3. result[r] # "ok" => Cardinality(Bad) + 1 <= Cardinality(Bad')
    BY <1>4, <2>1, <2>2, OneMoreBad
  <2>4. (result[r] = "ok") \in BOOLEAN
    OBVIOUS
  <2>5. QED
    BY <1>3, <1>4, <2>3, <2>4
<1>5. ASSUME NEW r \in Requests, TimeOut(r), Record(FALSE), r \in started
      PROVE  /\ Failures(history') <= Cardinality(Bad')
             /\ circuit' # "closed" => circuit # "closed" \/ Cardinality(Bad') >= Threshold
  <2>1. caller[r] = "waiting" /\ caller'[r] = "timeout"
    BY <1>5 DEF TimeOut, Leave, Jobs, TypeOK
  <2>2. Cardinality(Bad) + 1 <= Cardinality(Bad')
    BY <1>5, <2>1, OneMoreBad
  <2>3. QED
    BY <1>3, <1>5, <2>2
<1>6. \/ UNCHANGED breaker \/ CoolDown
      \/ \E r \in Requests : Answer(r) /\ Record(result[r] = "ok") /\ result[r] \in {"ok", "failed"}
      \/ \E r \in Requests : TimeOut(r) /\ Record(FALSE) /\ r \in started
  BY DEF Next, Call, Return, Work, Shutdown, WarmupDone, NativeDone, Start, Open, GiveUp, WarmupEnd, Close,
     Drain, PutStops, CloseBackend, NativeEnd, Unavailable, CircuitOpen, Overloaded, Refuse, Counts,
     Enqueue, Answer, TimeOut, Cancel, TakeStop, Drop, RefuseQueued, Begin, Finish, vars
<1>7. QED
  BY <1>2, <1>4, <1>5, <1>6

LEMMA InitBad == Init => FailuresAreBad /\ CircuitHasCause
<1> SUFFICES ASSUME Init PROVE FailuresAreBad /\ CircuitHasCause
  OBVIOUS
<1>1. started = {} /\ Bad = {} /\ history = <<>> /\ circuit = "closed"
  BY DEF Init, Bad
<1>2. IsFiniteSet(started) /\ Cardinality(Bad) = 0 /\ Failures(history) = 0
  BY <1>1, FS_EmptySet, EmptyHistory
<1>3. QED
  BY <1>1, <1>2 DEF FailuresAreBad, CircuitHasCause

LEMMA IInvInductive == IInv /\ [Next]_vars => IInv'
<1> SUFFICES ASSUME IInv, [Next]_vars PROVE IInv'
  OBVIOUS
<1>1. Jobs /\ Jobs'
  BY NextKeeps DEF IInv, Jobs
<1>2. IsFiniteSet(started) /\ Failures(history) <= Cardinality(Bad)
  BY DEF IInv, FailuresAreBad
<1>3. FailuresAreBad'
  BY <1>1, <1>2, BadGrows, BreakerStep DEF FailuresAreBad
<1>4. CircuitHasCause'
  <2>1. CASE circuit # "closed"
    <3>1. Cardinality(Bad) >= Threshold
      BY <2>1 DEF IInv, CircuitHasCause, Bad
    <3>2. /\ Cardinality(Bad) \in Nat /\ Cardinality(Bad') \in Nat /\ Threshold \in Nat
          /\ Cardinality(Bad) <= Cardinality(Bad')
      BY <1>1, <1>2, BadGrows, ConstantsAssumption
    <3>3. QED
      BY <3>1, <3>2 DEF CircuitHasCause, Bad
  <2>2. CASE circuit = "closed"
    BY <1>1, <1>2, <2>2, BreakerStep DEF CircuitHasCause, Bad
  <2>3. QED
    BY <2>1, <2>2
<1>5. QED
  BY <1>1, <1>3, <1>4 DEF IInv, Jobs

\* Jobs, workers, futures and the phases of start and shutdown stay consistent, whatever
\* interleaving of callers, workers, native ends and aclose the event loop runs.
THEOREM Invariant == Spec => []IInv
<1>1. Init => IInv
  BY InitJobs, InitBad DEF IInv, Jobs
<1>2. QED
  BY <1>1, IInvInductive, PTL DEF Spec

\* A classification that still runs has its worker, whatever its caller did meanwhile: there
\* is never more native work than there are workers.
THEOREM SlotsAreKept == Spec => [](SlotsKept /\ Cardinality(Native) <= Cardinality(Workers))
<1>1. IInv => SlotsKept /\ Cardinality(Native) <= Cardinality(Workers)
  <2> SUFFICES ASSUME IInv PROVE SlotsKept /\ Cardinality(Native) <= Cardinality(Workers)
    OBVIOUS
  <2> DEFINE busy == {w \in Workers : worker[w] \in Native}
             job  == [w \in busy |-> worker[w]]
  <2>1. IsFiniteSet(busy) /\ Cardinality(busy) \in Nat /\ Cardinality(busy) <= Cardinality(Workers)
    BY WorkersFacts, FS_Subset, FS_CardinalityType
  <2>2. job \in [busy -> Native] /\ \A r \in Native : \E w \in busy : job[w] = r
    BY DEF IInv, SlotsKept
  <2> HIDE DEF job, busy
  <2>3. IsFiniteSet(Native) /\ Cardinality(Native) <= Cardinality(busy)
    BY <2>1, <2>2, FS_Surjection DEF Surjection
  <2>4. QED
    BY <2>1, <2>3, WorkersFacts, FS_CardinalityType DEF IInv
<1>2. QED
  BY <1>1, Invariant, PTL

\* No caller waits for a job that nobody has: it is in the queue or with a worker.
THEOREM NobodyIsForgotten == Spec => []NoOrphan
<1>1. IInv => NoOrphan
  BY DEF IInv, Held, ImagesReleased, NoOrphan
<1>2. QED
  BY <1>1, Invariant, PTL

\* The backend is closed after the last run, and after that nothing runs and nobody waits
\* for an answer that will not come.
THEOREM BackendClosedLast == Spec => []ClosedAfterWork
<1>1. IInv => ClosedAfterWork
  BY DEF IInv
<1>2. QED
  BY <1>1, Invariant, PTL

\* A kept image is that of a queued job whose caller waits.
THEOREM ImagesAreReleased == Spec => []ImagesReleased
<1>1. IInv => ImagesReleased
  BY DEF IInv
<1>2. QED
  BY <1>1, Invariant, PTL

\* The circuit opens only on as many failed or overlong runs as its threshold asks for.
THEOREM CircuitOpensForACause == Spec => []CircuitHasCause
<1>1. IInv => CircuitHasCause
  BY DEF IInv
<1>2. QED
  BY <1>1, Invariant, PTL

\* The engine is never given a job whose caller has left.
THEOREM NothingAbandonedRuns == Spec => NoAbandonedRun
<1>1. ASSUME IInv, [Next]_vars
      PROVE  [\A r \in Requests : op[r] = "none" /\ op'[r] = "running" => caller[r] = "waiting"]_vars
  <2>1. ASSUME NEW w \in Workers, NEW r \in Requests, Begin(w, r)
        PROVE  caller[r] = "waiting" /\ \A q \in Requests \ {r} : op'[q] = op[q]
    <3>1. r \in image /\ op' = [op EXCEPT ![r] = "running"]
      BY <2>1 DEF Begin, Abandoned
    <3>2. caller[r] = "waiting"
      BY <1>1, <3>1 DEF IInv, ImagesReleased
    <3>3. QED
      BY <1>1, <3>1, <3>2 DEF IInv, TypeOK
  <2>2. ASSUME NEW q \in Requests, NEW outcome \in {"ok", "failed"}, NativeEnd(q, outcome)
        PROVE  \A r \in Requests : op'[r] = "running" => op[r] = "running"
    BY <1>1, <2>2 DEF NativeEnd, IInv, TypeOK
  <2>3. \/ UNCHANGED op
        \/ \E w \in Workers, r \in Requests : Begin(w, r)
        \/ \E q \in Requests, outcome \in {"ok", "failed"} : NativeEnd(q, outcome)
    BY <1>1 DEF Next, Call, Return, Work, Shutdown, WarmupDone, NativeDone, Start, Open, GiveUp,
       WarmupEnd, Close, Drain, PutStops, CloseBackend, CoolDown, Unavailable, CircuitOpen,
       Overloaded, Refuse, Enqueue, Answer, TimeOut, Cancel, Leave, TakeStop, Drop, RefuseQueued,
       Finish, vars
  <2>4. QED
    BY <2>1, <2>2, <2>3
<1>2. QED
  BY <1>1, Invariant, PTL DEF Spec, NoAbandonedRun
=============================================================================
