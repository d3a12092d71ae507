------------------------------- MODULE Viewing -------------------------------
(***************************************************************************)
(* One round while its results are viewed: reactions, skip votes, and the  *)
(* closing that stores a snapshot of both.  The counts live in Redis until *)
(* then.  The room lock keeps other transitions out of the closing, and    *)
(* reactions and votes do not take it.                                     *)
(*                                                                         *)
(* A void round is not viewed and left out.  The snapshot reads the counts *)
(* of both kinds together, then the actors, then the votes, which it reads *)
(* as it commits; the sockets of the viewers are read together.            *)
(***************************************************************************)
EXTENDS Integers, FiniteSets

CONSTANTS
  Viewers,   \* who submitted, and so sees the results; photos go by their owner
  Host,      \* the room's host, a viewer or not
  Kinds,     \* ReactionType
  Tapped,    \* environment: the photos that get reactions
  Handlers,  \* socket events and timers handled at once
  Nobody,    \* nobody holds the room lock
  Leaving,   \* environment: viewers who may lose their socket, and come back
  Crashes    \* environment: handlers may die between two steps

ASSUME ConstantsAssumption ==
  /\ Nobody \notin Handlers /\ Crashes \in BOOLEAN
  /\ Leaving \subseteq Viewers /\ Tapped \subseteq Viewers

VARIABLES
  \* PostgreSQL
  room,      \* rooms.status
  status,    \* rounds.status
  rows,      \* reactions, as <<photo, actor, kind>>
  tally,     \* tally[p][k]: like_count and question_count of a submission
  voted,     \* round_skips
  lock,      \* holder of the room row lock
  \* Redis
  scored,    \* keys of round:{id}:scores
  actors,    \* round:{id}:rx:actors
  count,     \* count[p][k]: round:{id}:rx:{kind}
  skips,     \* round:{id}:skips
  timer,     \* the viewing timer is scheduled
  online,    \* viewers whose socket the user's key names
  \* the processes
  thr,       \* what each handler does
  \* history
  touched    \* <<photo, kind>> toggled since the closing began

db    == <<room, status, rows, tally, voted>>
redis == <<scored, actors, count, skips, timer, online>>
vars  == <<db, lock, redis, thr, touched>>

Pairs    == Viewers \X Kinds
Nothing  == [p \in Viewers |-> [k \in Kinds |-> 0]]
Idle     == [pc |-> "idle", who |-> Host, mark |-> <<>>, counts |-> Nothing, seen |-> {}]
At(h, l) == thr[h].pc = l
Goto(h, l) == thr' = [thr EXCEPT ![h].pc = l]
Return(h)  == thr' = [thr EXCEPT ![h] = Idle]
Free       == lock = Nobody
Marks(S, p, k) == {m \in S : m[1] = p /\ m[3] = k}

Init ==
  /\ room = "playing" /\ status = "scoring"
  /\ rows = {} /\ tally = Nothing /\ voted = {} /\ lock = Nobody
  /\ scored = {} /\ actors = {} /\ count = Nothing /\ skips = {} /\ timer = FALSE
  /\ online = Viewers
  /\ thr = [h \in Handlers |-> Idle]
  /\ touched = {}
-----------------------------------------------------------------------------
(* Around the stage.                                                       *)

ResultArrives(p) ==
  /\ status = "scoring" /\ p \notin scored /\ scored' = scored \cup {p}
  /\ UNCHANGED <<db, lock, actors, count, skips, timer, online, thr, touched>>

\* The last result settles the round and times its viewing stage (module RoundLifecycle).
Finalize ==
  /\ Free /\ room = "playing" /\ status = "scoring" /\ scored = Viewers
  /\ status' = "finalized" /\ timer' = TRUE
  /\ UNCHANGED <<room, rows, tally, voted, lock, scored, actors, count, skips, online, thr, touched>>

\* Too few players are left: the game ends in the middle of the stage.
Abort ==
  /\ Free /\ Leaving # {} /\ room = "playing" /\ room' = "finished"
  /\ UNCHANGED <<status, rows, tally, voted, lock, redis, thr, touched>>

Disconnect(v) ==
  /\ v \in Leaving \cap online /\ online' = online \ {v}
  /\ UNCHANGED <<db, lock, scored, actors, count, skips, timer, thr, touched>>

Reconnect(v) ==
  /\ v \in Viewers \ online /\ online' = online \cup {v}
  /\ UNCHANGED <<db, lock, scored, actors, count, skips, timer, thr, touched>>
-----------------------------------------------------------------------------
(* reaction:sent.                                                          *)

\* The round is not closed, as far as the handler has read, and the photo is not its sender's.
React(h, a, p, k) ==
  /\ At(h, "idle") /\ a \in online /\ a # p /\ status # "closed"
  /\ thr' = [thr EXCEPT ![h].pc = "toggle", ![h].who = a, ![h].mark = <<p, a, k>>]
  /\ UNCHANGED <<db, lock, redis, touched>>

\* Mutation: taking a reaction back leaves the count as it is.
Delta_NeverBack(m) == IF m \in actors THEN 0 ELSE 1
Delta(m) == IF m \in actors THEN -1 ELSE 1

Positive(n) == IF n < 0 THEN 0 ELSE n

Resolved(p) == p \in scored

\* TOGGLE_REACTION, once the photo has a result, which it then keeps.
Toggle(h) ==
  LET m == thr[h].mark
  IN /\ At(h, "toggle") /\ Return(h)
     /\ IF Resolved(m[1])
        THEN /\ actors' = IF m \in actors THEN actors \ {m} ELSE actors \cup {m}
             /\ count' = [count EXCEPT ![m[1]][m[3]] = Positive(@ + Delta(m))]
             /\ touched' = IF status = "closed" THEN touched ELSE touched \cup {<<m[1], m[3]>>}
        ELSE UNCHANGED <<actors, count, touched>>
     /\ UNCHANGED <<db, lock, scored, skips, timer, online>>
-----------------------------------------------------------------------------
(* round:skip.                                                             *)

Skip(h, v) ==
  /\ At(h, "idle") /\ v \in online
  /\ room = "playing" /\ status = "finalized"
  /\ thr' = [thr EXCEPT ![h].pc = "vote", ![h].who = v]
  /\ UNCHANGED <<db, lock, redis, touched>>

\* TOGGLE_SKIP
Vote(h) ==
  LET v == thr[h].who
  IN /\ At(h, "vote") /\ Goto(h, "voters")
     /\ skips' = IF v \in skips THEN skips \ {v} ELSE skips \cup {v}
     /\ UNCHANGED <<db, lock, scored, actors, count, timer, online, touched>>

ReadVoters(h) ==
  /\ At(h, "voters")
  /\ thr' = [thr EXCEPT ![h].pc = "compare", ![h].seen = skips]
  /\ UNCHANGED <<db, lock, redis, touched>>

\* The host ends the stage alone; otherwise every viewer who holds a socket must have voted.
Compare(h) ==
  /\ At(h, "compare")
  /\ IF thr[h].who = Host \/ (online # {} /\ online \subseteq thr[h].seen)
     THEN Goto(h, "advance") ELSE Return(h)
  /\ UNCHANGED <<db, lock, redis, touched>>
-----------------------------------------------------------------------------
(* advance.                                                                *)

ViewingEnds(h) ==
  /\ At(h, "idle") /\ timer /\ timer' = FALSE
  /\ thr' = [thr EXCEPT ![h].pc = "advance"]
  /\ UNCHANGED <<db, lock, scored, actors, count, skips, online, touched>>

\* Mutation: advance relies on being called once.
CanAdvance_Twice == room = "playing" /\ status \in {"finalized", "closed"}
CanAdvance == room = "playing" /\ status = "finalized"

BeginClosing(h) ==
  /\ At(h, "advance") /\ Free
  /\ IF CanAdvance
     THEN lock' = h /\ touched' = {} /\ Goto(h, "counts")
     ELSE Return(h) /\ UNCHANGED <<lock, touched>>
  /\ UNCHANGED <<db, redis>>

\* reactions.persist: first the counts of both kinds ...
ReadCounts(h) ==
  /\ At(h, "counts")
  /\ thr' = [thr EXCEPT ![h].pc = "actors", ![h].counts = count]
  /\ UNCHANGED <<db, lock, redis, touched>>

\* ... then who gave them ...
ReadActors(h) ==
  /\ At(h, "actors")
  /\ thr' = [thr EXCEPT ![h].pc = "commit", ![h].seen = actors]
  /\ UNCHANGED <<db, lock, redis, touched>>

\* ... and the round is closed with what was read; the next one opens or the game ends.
CommitClosing(h) ==
  /\ At(h, "commit") /\ Goto(h, "drop") /\ lock' = Nobody
  /\ rows' = rows \cup thr[h].seen
  /\ tally' = thr[h].counts /\ voted' = voted \cup skips
  /\ status' = "closed"
  /\ room' \in {"playing", "finished"}
  /\ UNCHANGED <<redis, touched>>

\* Mutation: drop forgets the counts.
Dropped_Kept == count
Dropped == Nothing

\* After the commit: the timer is cancelled and the keys are dropped.
Drop(h) ==
  /\ At(h, "drop") /\ Return(h)
  /\ timer' = FALSE /\ actors' = {} /\ count' = Dropped /\ skips' = {}
  /\ UNCHANGED <<db, lock, scored, online, touched>>

Crash(h) ==
  /\ Crashes /\ ~ At(h, "idle") /\ Return(h)
  /\ lock' = IF lock = h THEN Nobody ELSE lock
  /\ UNCHANGED <<db, redis, touched>>
-----------------------------------------------------------------------------
Next ==
  \/ Finalize \/ Abort
  \/ \E v \in Viewers : ResultArrives(v) \/ Disconnect(v) \/ Reconnect(v)
  \/ \E h \in Handlers, a \in Viewers, p \in Tapped, k \in Kinds : React(h, a, p, k)
  \/ \E h \in Handlers, v \in Viewers : Skip(h, v)
  \/ \E h \in Handlers :
       \/ Toggle(h) \/ Vote(h) \/ ReadVoters(h) \/ Compare(h) \/ ViewingEnds(h)
       \/ BeginClosing(h) \/ ReadCounts(h) \/ ReadActors(h) \/ CommitClosing(h) \/ Drop(h)
       \/ Crash(h)

Spec == Init /\ [][Next]_vars
-----------------------------------------------------------------------------
\* A reaction to somebody else's photo, by a viewer.
OfAnother(m) == m \in Viewers \X Viewers \X Kinds /\ m[1] # m[2]

\* Every part keeps its shape, and nobody reacts to a photo of their own or without a result.
TypeOK ==
  /\ room \in {"playing", "finished"} /\ status \in {"scoring", "finalized", "closed"}
  /\ tally \in [Viewers -> [Kinds -> Nat]] /\ count \in [Viewers -> [Kinds -> Nat]]
  /\ \A m \in rows \cup actors : OfAnother(m) /\ m[1] \in scored
  /\ scored \cup voted \subseteq Viewers /\ skips \cup online \subseteq Viewers
  /\ timer \in BOOLEAN /\ lock \in Handlers \cup {Nobody}
  /\ touched \subseteq Pairs

\* What viewers are shown is what was given: each count is the number of those who reacted,
\* through double taps, withdrawals, the drop of the keys and late reactions (RX-02, RX-04).
CountsAreActors ==
  \A p \in Viewers, k \in Kinds : count[p][k] = Cardinality(Marks(actors, p, k))

\* The stored snapshot adds up: where nobody reacted while the round was being closed, the
\* stored count is the number of stored reactions, even if an earlier closing died (RX-10).
SnapshotAddsUp ==
  status = "closed" =>
    \A p \in Viewers, k \in Kinds :
      <<p, k>> \notin touched => tally[p][k] = Cardinality(Marks(rows, p, k))

\* What a handler has to rely on while it closes the round.
Labels == {"idle", "toggle", "vote", "voters", "compare", "advance", "counts", "actors", "commit", "drop"}
Task   == [pc : Labels, who : Viewers \cup {Host}, mark : Viewers \X Viewers \X Kinds \cup {<<>>},
           counts : [Viewers -> [Kinds -> Nat]], seen : SUBSET (Viewers \cup Viewers \X Viewers \X Kinds)]

Steady(h) ==
  LET t == thr[h] IN
  /\ t.pc = "toggle" => OfAnother(t.mark)
  /\ t.pc = "vote" => t.who \in Viewers
  /\ t.pc \in {"counts", "actors", "commit"} => lock = h /\ room = "playing" /\ status = "finalized"
  /\ t.pc = "drop" => status = "closed"
  /\ t.pc \in {"actors", "commit"} =>
       \A p \in Viewers, k \in Kinds : <<p, k>> \notin touched => t.counts[p][k] = count[p][k]
  /\ t.pc = "commit" =>
       /\ \A m \in t.seen : OfAnother(m) /\ m[1] \in scored
       /\ \A p \in Viewers, k \in Kinds :
            <<p, k>> \notin touched => Marks(t.seen, p, k) = Marks(actors, p, k)

\* Nothing is stored before the round is closed.
Unstored == status # "closed" => rows = {}

\* The inductive invariant: the lock keeps the closing to one handler, what it has read is still
\* so except for what was touched since, and so counts and snapshot add up (RX-10).
IInv ==
  /\ TypeOK /\ thr \in [Handlers -> Task]
  /\ IsFiniteSet(actors) /\ CountsAreActors
  /\ Unstored /\ SnapshotAddsUp
  /\ \A h \in Handlers : Steady(h)

\* The snapshot is taken once: reactions, votes and skips that come after it change nothing.
SnapshotIsFinal == [][status = "closed" => UNCHANGED <<status, rows, tally, voted>>]_vars
=============================================================================
