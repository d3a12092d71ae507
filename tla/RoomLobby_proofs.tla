--------------------------- MODULE RoomLobby_proofs ---------------------------
(***************************************************************************)
(* Proofs about rooms and their seats, for any number of users, rooms and  *)
(* requests: the seats are sound, a host has one open room, a game is      *)
(* played as it was started, and the lobby is shown in one version.        *)
(***************************************************************************)
EXTENDS RoomLobby, FiniteSetTheorems, TLAPS

(* What the actions do to the requests.                                    *)

LEMMA IdleFacts == Idle \in Work /\ Idle.pc = "idle"
  BY ConstantsAssumption DEF Idle, Work

LEMMA WorkFields ==
  \A w \in Work : /\ w.pc \in {"idle", "insert", "lookup", "join", "state", "answer"}
                  /\ w.who \in Users \cup {NoUser} /\ w.room \in Rooms \cup {NoRoom}
                  /\ w.tries \in 0 .. Attempts - 1
                  /\ w.status \in {"none", "waiting", "playing", "finished", "closed"}
                  /\ w.seen \in SUBSET Users /\ w.used \in SUBSET Colours
  BY DEF Work

\* Request q moves, and no other.
Moved(q) == req' \in [Requests -> Work] /\ \A p \in Requests : p # q => req'[p] = req[p]

LEMMA ReturnFacts ==
  ASSUME req \in [Requests -> Work], NEW q \in Requests, Return(q)
  PROVE  Moved(q) /\ req'[q].pc = "idle"
<1>1. req' = [req EXCEPT ![q] = Idle]
  BY DEF Return
<1>2. QED
  BY <1>1, IdleFacts DEF Moved

LEMMA GotoFacts ==
  ASSUME req \in [Requests -> Work], NEW q \in Requests,
         NEW label \in {"insert", "lookup", "join", "state", "answer"}, Goto(q, label)
  PROVE  Moved(q) /\ req'[q].pc = label
<1> DEFINE w == [req[q] EXCEPT !.pc = label]
<1>1. w \in Work /\ w.pc = label
  BY DEF Work
<1>2. req' = [req EXCEPT ![q] = w]
  BY DEF Goto
<1> HIDE DEF w
<1>3. QED
  BY <1>1, <1>2 DEF Moved

\* A transaction that takes the lock reads the room as it is.
LEMMA LocksFacts ==
  ASSUME TypeOK, NEW q \in Requests, NEW label \in {"join", "state"}, NEW u \in Users, NEW r \in Rooms,
         Locks(q, label, u, r)
  PROVE  /\ Moved(q) /\ lock' = [lock EXCEPT ![r] = q] /\ lock[r] = NoRequest /\ room[r] # "none"
         /\ req'[q].pc = label /\ req'[q].who = u /\ req'[q].room = r
         /\ req'[q].status = room[r] /\ req'[q].seen = Occupying(r) /\ req'[q].used = UsedColours(r)
         /\ req[q].pc = "idle" /\ UNCHANGED <<rows, seat, colour>>
<1> DEFINE w == [pc |-> label, who |-> u, room |-> r, tries |-> 0,
                 status |-> room[r], seen |-> Occupying(r), used |-> UsedColours(r)]
<1>1. UsedColours(r) \in SUBSET Colours /\ Occupying(r) \in SUBSET Users
  BY DEF TypeOK, UsedColours, Occupying
<1>2. 0 \in 0 .. Attempts - 1
  BY ConstantsAssumption
<1>3. w \in Work
  BY <1>1, <1>2 DEF TypeOK, Work
<1>4. req' = [req EXCEPT ![q] = w]
  BY DEF Locks
<1>5. /\ w.pc = label /\ w.who = u /\ w.room = r
      /\ w.status = room[r] /\ w.seen = Occupying(r) /\ w.used = UsedColours(r)
  OBVIOUS
<1> HIDE DEF w
<1>6. Moved(q) /\ req'[q] = w
  BY <1>3, <1>4 DEF Moved, TypeOK
<1>7. QED
  BY <1>5, <1>6 DEF Locks, Lockable, At
-----------------------------------------------------------------------------
(* Types.                                                                  *)

LEMMA TypeInit == Init => TypeOK
<1> SUFFICES ASSUME Init PROVE TypeOK
  OBVIOUS
<1>1. 0 \in Colours
  BY ConstantsAssumption DEF Colours
<1>2. req \in [Requests -> Work]
  BY IdleFacts DEF Init
<1>3. QED
  BY <1>1, <1>2 DEF Init, TypeOK

\* The steps of requests that create a room.
LEMMA CreatingTypes ==
  ASSUME TypeOK, NEW q \in Requests,
         \/ \E u \in Hosts : Create(q, u)
         \/ \E r \in Rooms, n \in Lengths : InsertRoom(q, r, n)
         \/ Conflict(q) \/ Lookup(q)
  PROVE  TypeOK' /\ Moved(q) /\ req'[q].pc \notin Reading
<1>1. req \in [Requests -> Work]
  BY DEF TypeOK
<1>2. ASSUME NEW u \in Hosts, Create(q, u)
      PROVE  TypeOK' /\ Moved(q) /\ req'[q].pc \notin Reading
  <2> DEFINE w == [Idle EXCEPT !.pc = "insert", !.who = u]
  <2>1. u \in Users
    BY ConstantsAssumption
  <2>2. w \in Work /\ w.pc = "insert"
    BY <2>1, IdleFacts DEF Work
  <2>3. req' = [req EXCEPT ![q] = w] /\ UNCHANGED <<rows, seat, colour, lock>>
    BY <1>2 DEF Create
  <2> HIDE DEF w
  <2>4. Moved(q) /\ req'[q].pc = "insert"
    BY <1>1, <2>2, <2>3 DEF Moved
  <2>5. req' \in [Requests -> Work] /\ req'[q].pc \notin Reading
    BY <2>4 DEF Moved, Reading
  <2>6. QED
    BY <2>3, <2>4, <2>5 DEF TypeOK, rows
<1>3. ASSUME NEW r \in Rooms, NEW n \in Lengths, InsertRoom(q, r, n)
      PROVE  TypeOK' /\ Moved(q) /\ req'[q].pc \notin Reading
  <2>1. Moved(q) /\ req'[q].pc = "idle"
    BY <1>1, <1>3, ReturnFacts DEF InsertRoom
  <2>2. req[q].who \in Users \cup {NoUser}
    BY <1>1, WorkFields
  <2>3. QED
    BY <1>3, <2>1, <2>2 DEF InsertRoom, TypeOK, Moved, Reading
<1>4. CASE Conflict(q)
  <2>1. Moved(q) /\ req'[q].pc = "lookup"
    BY <1>1, <1>4, GotoFacts DEF Conflict
  <2>2. QED
    BY <1>4, <2>1 DEF Conflict, TypeOK, rows, Moved, Reading
<1>5. CASE Lookup(q)
  <2> DEFINE n == req[q].tries + 1
             w == [req[q] EXCEPT !.pc = "insert", !.tries = n]
  <2>1. UNCHANGED <<rows, seat, colour, lock>> /\ (Return(q) \/ (n # Attempts /\ req' = [req EXCEPT ![q] = w]))
    BY <1>5 DEF Lookup
  <2>2. ASSUME n # Attempts, req' = [req EXCEPT ![q] = w]
        PROVE  Moved(q) /\ req'[q].pc = "insert"
    <3>1. n \in 0 .. Attempts - 1
      BY <1>1, <2>2, WorkFields, ConstantsAssumption
    <3>2. w \in Work /\ w.pc = "insert"
      BY <1>1, <3>1 DEF Work
    <3> HIDE DEF w
    <3>3. QED
      BY <1>1, <2>2, <3>2 DEF Moved
  <2>3. Moved(q) /\ req'[q].pc \in {"idle", "insert"}
    BY <1>1, <2>1, <2>2, ReturnFacts
  <2>4. QED
    BY <2>1, <2>3 DEF TypeOK, rows, Moved, Reading
<1>6. QED
  BY <1>2, <1>3, <1>4, <1>5

\* The steps of requests that enter a room or look at it.
LEMMA LockingTypes ==
  ASSUME TypeOK, Snapshots, NEW q \in Requests,
         \/ \E u \in Users, r \in Rooms : Join(q, u, r) \/ State(q, u, r)
         \/ TakeSeat(q) \/ NoSeat(q) \/ ReadMembers(q) \/ Answer(q) \/ Crash(q)
  PROVE  TypeOK'
<1>1. req \in [Requests -> Work]
  BY DEF TypeOK
<1>2. ASSUME NEW u \in Users, NEW r \in Rooms, Join(q, u, r) \/ State(q, u, r) PROVE TypeOK'
  <2>1. PICK label \in {"join", "state"} : Locks(q, label, u, r)
    BY <1>2 DEF Join, State
  <2>2. req' \in [Requests -> Work] /\ lock' = [lock EXCEPT ![r] = q]
    BY <2>1, LocksFacts DEF Moved
  <2>3. UNCHANGED <<rows, seat, colour>>
    BY <2>1 DEF Locks
  <2>4. QED
    BY <2>2, <2>3 DEF TypeOK, rows
<1>3. ASSUME Unlocks(q), UNCHANGED <<rows, seat, colour>> PROVE TypeOK'
  BY <1>1, <1>3, ReturnFacts DEF Unlocks, TypeOK, rows, Moved
<1>4. CASE NoSeat(q) \/ Answer(q)
  BY <1>3, <1>4 DEF NoSeat, Answer
<1>5. CASE Crash(q)
  <2>1. Unlocks(q) \/ (Return(q) /\ UNCHANGED lock)
    BY <1>5 DEF Crash
  <2>2. UNCHANGED <<rows, seat, colour>>
    BY <1>5 DEF Crash
  <2>3. ASSUME Return(q), UNCHANGED lock PROVE TypeOK'
    BY <1>1, <2>2, <2>3, ReturnFacts DEF TypeOK, rows, Moved
  <2>4. QED
    BY <1>3, <2>1, <2>2, <2>3
<1>6. CASE TakeSeat(q)
  <2> DEFINE r == req[q].room
             u == req[q].who
  <2>1. Unlocks(q) /\ UNCHANGED rows /\ seat' = [seat EXCEPT ![r][u] = Entry(q)]
    BY <1>6 DEF TakeSeat
  <2>2. PICK c \in Colours : colour' = [colour EXCEPT ![r][u] = c]
    BY <1>6 DEF TakeSeat
  <2>3. Entry(q) \in {"active", "waiting"}
    BY DEF Entry
  <2>4. seat' \in [Rooms -> [Users -> {"none", "active", "waiting", "left"}]]
    BY <2>1, <2>3 DEF TypeOK
  <2>5. colour' \in [Rooms -> [Users -> Colours]]
    BY <2>2 DEF TypeOK
  <2>6. QED
    BY <1>1, <2>1, <2>4, <2>5, ReturnFacts DEF Unlocks, TypeOK, rows, Moved
<1>7. CASE ReadMembers(q)
  <2> DEFINE w == [req[q] EXCEPT !.pc = "answer", !.seen = Occupying(req[q].room)]
  <2>1. UNCHANGED <<rows, seat, colour, lock>> /\ req' = [req EXCEPT ![q] = w]
    BY <1>7 DEF ReadMembers
  <2>2. Occupying(req[q].room) \in SUBSET Users
    BY DEF Occupying
  <2>3. w \in Work
    BY <1>1, <2>2 DEF Work
  <2> HIDE DEF w
  <2>4. QED
    BY <1>1, <2>1, <2>3 DEF TypeOK, rows
<1>8. QED
  BY <1>2, <1>4, <1>5, <1>6, <1>7

\* The transitions of a room.
Transition(r) ==
  \/ \E n \in Lengths : UpdateSettings(r, n)
  \/ Start(r) \/ Close(r) \/ FinishGame(r)
  \/ \E u \in Users : Release(r, u)

LEMMA TransitionTypes ==
  ASSUME TypeOK, NEW r \in Rooms, Transition(r)
  PROVE  TypeOK'
<1>1. ASSUME NEW n \in Lengths, UpdateSettings(r, n) PROVE TypeOK'
  BY <1>1 DEF UpdateSettings, TypeOK
<1>2. CASE Start(r)
  <2> DEFINE now == [u \in Users |-> IF seat[r][u] = "waiting" THEN "active" ELSE seat[r][u]]
  <2>1. now \in [Users -> {"none", "active", "waiting", "left"}]
    BY DEF TypeOK
  <2>2. seat' = [seat EXCEPT ![r] = now]
    BY <1>2 DEF Start
  <2> HIDE DEF now
  <2>3. Occupying(r) \in SUBSET Users
    BY DEF Occupying
  <2>4. QED
    BY <1>2, <2>1, <2>2, <2>3 DEF Start, TypeOK
<1>3. CASE Close(r) \/ FinishGame(r)
  BY <1>3 DEF Close, FinishGame, TypeOK
<1>4. ASSUME NEW u \in Users, Release(r, u) PROVE TypeOK'
  BY <1>4 DEF Release, TypeOK
<1>5. QED
  BY <1>1, <1>2, <1>3, <1>4 DEF Transition
-----------------------------------------------------------------------------
(* What a request has read under the row lock stays so.                    *)

\* Whoever is not touched still sees the room as it is.
LEMMA Untouched ==
  ASSUME NEW q \in Requests, req'[q] = req[q], StillSo(q), NEW r, r = req[q].room,
         room'[r] = room[r], seat'[r] = seat[r], colour'[r] = colour[r], lock'[r] = lock[r]
  PROVE  StillSo(q)'
  BY DEF StillSo, Occupying, UsedColours, At

\* A room whose row is free is seen by nobody, and two requests see two rooms.
LEMMA RowLock ==
  ASSUME Snapshots, NEW q \in Requests, req[q].pc \in Reading
  PROVE  /\ req[q].room \in Rooms /\ lock[req[q].room] = q /\ lock[req[q].room] # NoRequest
         /\ room[req[q].room] # "none"
  BY ConstantsAssumption DEF Snapshots, StillSo

LEMMA CreatingKeepsSnapshots ==
  ASSUME TypeOK, Snapshots, NEW q \in Requests,
         \/ \E u \in Hosts : Create(q, u)
         \/ \E r \in Rooms, n \in Lengths : InsertRoom(q, r, n)
         \/ Conflict(q) \/ Lookup(q)
  PROVE  Snapshots'
<1>1. Moved(q) /\ req'[q].pc \notin Reading
  BY CreatingTypes
<1>2. UNCHANGED <<seat, colour, lock>>
  BY DEF Create, InsertRoom, Conflict, Lookup
<1>3. \A r \in Rooms : room[r] # "none" => room'[r] = room[r]
  BY DEF Create, InsertRoom, Conflict, Lookup, rows, TypeOK
<1> SUFFICES ASSUME NEW p \in Requests, req'[p].pc \in Reading PROVE StillSo(p)'
  BY DEF Snapshots
<1>4. req'[p] = req[p] /\ req[p].pc \in Reading
  BY <1>1 DEF Moved
<1>5. StillSo(p) /\ room'[req[p].room] = room[req[p].room]
  BY <1>3, <1>4, RowLock DEF Snapshots
<1>6. QED
  BY <1>2, <1>4, <1>5, Untouched

LEMMA UnlockingKeepsSnapshots ==
  ASSUME TypeOK, Snapshots, NEW q \in Requests, req[q].pc \in Reading, Unlocks(q), UNCHANGED room,
         \A r \in Rooms : r # req[q].room => seat'[r] = seat[r] /\ colour'[r] = colour[r]
  PROVE  Snapshots'
<1> SUFFICES ASSUME NEW p \in Requests, req'[p].pc \in Reading PROVE StillSo(p)'
  BY DEF Snapshots
<1>1. Moved(q) /\ req'[q].pc = "idle" /\ lock' = [lock EXCEPT ![req[q].room] = NoRequest]
  BY ReturnFacts DEF Unlocks, TypeOK
<1>2. p # q /\ req'[p] = req[p] /\ req[p].pc \in Reading
  BY <1>1 DEF Moved, Reading
<1>3. req[p].room \in Rooms /\ req[p].room # req[q].room
  BY <1>2, RowLock
<1>4. lock'[req[p].room] = lock[req[p].room]
  BY <1>1, <1>3 DEF TypeOK
<1>5. StillSo(p)
  BY <1>2 DEF Snapshots
<1>6. QED
  BY <1>2, <1>3, <1>4, <1>5, Untouched

LEMMA LockingKeepsSnapshots ==
  ASSUME TypeOK, Snapshots, NEW q \in Requests,
         \/ \E u \in Users, r \in Rooms : Join(q, u, r) \/ State(q, u, r)
         \/ TakeSeat(q) \/ NoSeat(q) \/ ReadMembers(q) \/ Answer(q) \/ Crash(q)
  PROVE  Snapshots'
<1>1. ASSUME NEW u \in Users, NEW r \in Rooms, Join(q, u, r) \/ State(q, u, r) PROVE Snapshots'
  <2> SUFFICES ASSUME NEW p \in Requests, req'[p].pc \in Reading PROVE StillSo(p)'
    BY DEF Snapshots
  <2>1. PICK label \in {"join", "state"} : Locks(q, label, u, r) /\ (label = "state" => u \in Occupying(r))
    BY <1>1 DEF Join, State
  <2>2. /\ Moved(q) /\ lock' = [lock EXCEPT ![r] = q] /\ lock[r] = NoRequest /\ room[r] # "none"
        /\ req'[q].pc = label /\ req'[q].who = u /\ req'[q].room = r
        /\ req'[q].status = room[r] /\ req'[q].seen = Occupying(r) /\ req'[q].used = UsedColours(r)
        /\ UNCHANGED <<room, seat, colour>>
    BY <2>1, LocksFacts DEF rows
  <2>3. CASE p = q
    <3>1. lock'[r] = q
      BY <2>2 DEF TypeOK
    <3>2. QED
      BY <2>1, <2>2, <2>3, <3>1 DEF StillSo, Occupying, UsedColours, At
  <2>4. CASE p # q
    <3>1. req'[p] = req[p] /\ StillSo(p) /\ req[p].pc \in Reading
      BY <2>2, <2>4 DEF Moved, Snapshots
    <3>2. req[p].room \in Rooms /\ req[p].room # r
      BY <2>2, <3>1, RowLock
    <3>3. lock'[req[p].room] = lock[req[p].room]
      BY <2>2, <3>2 DEF TypeOK
    <3>4. QED
      BY <2>2, <3>1, <3>3, Untouched
  <2>5. QED
    BY <2>3, <2>4
<1>2. CASE NoSeat(q) \/ Answer(q)
  BY <1>2, UnlockingKeepsSnapshots DEF NoSeat, Answer, At, Reading, rows
<1>3. CASE TakeSeat(q)
  <2>1. req[q].pc \in Reading /\ Unlocks(q) /\ UNCHANGED room
    BY <1>3 DEF TakeSeat, At, Reading, rows
  <2>2. \A r \in Rooms : r # req[q].room => seat'[r] = seat[r] /\ colour'[r] = colour[r]
    BY <1>3 DEF TakeSeat, TypeOK
  <2>3. QED
    BY <2>1, <2>2, UnlockingKeepsSnapshots
<1>4. CASE ReadMembers(q)
  <2> SUFFICES ASSUME NEW p \in Requests, req'[p].pc \in Reading PROVE StillSo(p)'
    BY DEF Snapshots
  <2> DEFINE w == [req[q] EXCEPT !.pc = "answer", !.seen = Occupying(req[q].room)]
  <2>1. /\ UNCHANGED <<room, seat, colour, lock>> /\ req' = [req EXCEPT ![q] = w]
        /\ req[q].pc = "state"
    BY <1>4 DEF ReadMembers, rows, At
  <2>2. CASE p = q
    <3>1. StillSo(q) /\ req[q].pc # "join"
      BY <2>1 DEF Snapshots, Reading
    <3>2. /\ w.room = req[q].room /\ w.who = req[q].who /\ w.status = req[q].status
          /\ w.used = req[q].used /\ w.seen = Occupying(req[q].room) /\ req'[q] = w
      BY <2>1 DEF TypeOK, Work
    <3> HIDE DEF w
    <3>3. QED
      BY <2>1, <2>2, <3>1, <3>2 DEF StillSo, Occupying, UsedColours, At
  <2>3. CASE p # q
    <3>1. req'[p] = req[p]
      BY <2>1, <2>3 DEF TypeOK
    <3>2. QED
      BY <2>1, <3>1, Untouched DEF Snapshots
  <2>4. QED
    BY <2>2, <2>3
<1>5. CASE Crash(q)
  <2>1. CASE req[q].pc \in Reading
    BY <1>5, <2>1, UnlockingKeepsSnapshots DEF Crash, Reading, rows
  <2>2. CASE req[q].pc \notin Reading
    <3>1. Return(q) /\ UNCHANGED <<room, seat, colour, lock>>
      BY <1>5, <2>2 DEF Crash, Reading, rows
    <3>2. Moved(q) /\ req'[q].pc \notin Reading
      BY <3>1, ReturnFacts DEF TypeOK, Reading
    <3> SUFFICES ASSUME NEW p \in Requests, req'[p].pc \in Reading PROVE StillSo(p)'
      BY DEF Snapshots
    <3>3. req'[p] = req[p]
      BY <3>2 DEF Moved
    <3>4. QED
      BY <3>1, <3>3, Untouched DEF Snapshots
  <2>3. QED
    BY <2>1, <2>2
<1>6. QED
  BY <1>1, <1>2, <1>3, <1>4, <1>5

\* A transition of one room leaves the others alone.
LEMMA TransitionEffect ==
  ASSUME TypeOK, NEW r \in Rooms, Transition(r)
  PROVE  /\ Lockable(r) /\ UNCHANGED <<lock, req, colour, host>>
         /\ \A s \in Rooms : s # r => /\ room'[s] = room[s] /\ seat'[s] = seat[s] /\ rounds'[s] = rounds[s]
                                      /\ sequence'[s] = sequence[s] /\ cast'[s] = cast[s]
<1>1. CASE \E n \in Lengths : UpdateSettings(r, n)
  BY <1>1 DEF UpdateSettings, TypeOK
<1>2. CASE Start(r)
  BY <1>2 DEF Start, TypeOK
<1>3. CASE Close(r) \/ FinishGame(r)
  BY <1>3 DEF Close, FinishGame, TypeOK
<1>4. CASE \E u \in Users : Release(r, u)
  BY <1>4 DEF Release, TypeOK
<1>5. QED
  BY <1>1, <1>2, <1>3, <1>4 DEF Transition

LEMMA TransitionKeepsSnapshots ==
  ASSUME TypeOK, Snapshots, NEW r \in Rooms, Transition(r)
  PROVE  Snapshots'
<1> SUFFICES ASSUME NEW p \in Requests, req'[p].pc \in Reading PROVE StillSo(p)'
  BY DEF Snapshots
<1>1. lock[r] = NoRequest /\ UNCHANGED <<lock, req, colour>>
  BY TransitionEffect DEF Lockable
<1>2. req[p].room \in Rooms /\ req[p].room # r
  BY <1>1, RowLock
<1>3. room'[req[p].room] = room[req[p].room] /\ seat'[req[p].room] = seat[req[p].room]
  BY <1>2, TransitionEffect
<1>4. QED
  BY <1>1, <1>3, Untouched DEF Snapshots
-----------------------------------------------------------------------------
(* Seats, colours and games.                                               *)

Kept == Seats /\ GameAsStarted

\* Whoever takes a seat found one left, and a colour nobody else has.
LEMMA TakeSeatKeeps ==
  ASSUME TypeOK, Snapshots, Kept, NEW q \in Requests, TakeSeat(q)
  PROVE  Kept'
<1>1. PICK r \in Rooms, u \in Users :
        /\ r = req[q].room /\ u = req[q].who /\ req[q].status = room[r]
        /\ req[q].seen = Occupying(r) /\ req[q].used = UsedColours(r)
  BY DEF TakeSeat, At, Reading, Snapshots, StillSo
<1>2. PICK c \in Colours : IsColour(q, r, u, c) /\ colour' = [colour EXCEPT ![r][u] = c]
  BY <1>1 DEF TakeSeat
<1>3. UNCHANGED rows /\ seat' = [seat EXCEPT ![r][u] = Entry(q)] /\ Enters(q)
  BY <1>1 DEF TakeSeat
<1>4. c \notin UsedColours(r)
  BY <1>1, <1>2 DEF IsColour
<1>5. \A s \in Rooms, v \in Users :
        /\ s # r \/ v # u => seat'[s][v] = seat[s][v] /\ colour'[s][v] = colour[s][v]
        /\ seat'[r][u] = Entry(q) /\ colour'[r][u] = c
  BY <1>1, <1>2, <1>3 DEF TypeOK
<1>6. Entry(q) \in {"active", "waiting"} /\ (room[r] # "waiting" => Entry(q) = "waiting")
  BY <1>1 DEF Entry
<1>7. Occupying(r)' = Occupying(r) \cup {u}
  BY <1>1, <1>5, <1>6 DEF Occupying
<1>8. ASSUME NEW s \in Rooms
      PROVE  /\ Cardinality(Occupying(s)') <= Capacity
             /\ \A v, w \in Occupying(s)' : v # w => colour'[s][v] # colour'[s][w]
  <2>1. CASE s = r
    <3>1. IsFiniteSet(Occupying(r))
      BY ConstantsAssumption, FS_Subset DEF Occupying
    <3>2. Cardinality(Occupying(r)) \in Nat /\ Cardinality(Occupying(r)) < Capacity
      BY <1>1, <1>3, <3>1, FS_CardinalityType DEF Enters, HasRoom
    <3>3. Cardinality(Occupying(r) \cup {u}) <= Capacity
      <4>1. \/ Cardinality(Occupying(r) \cup {u}) = Cardinality(Occupying(r)) + 1
            \/ Cardinality(Occupying(r) \cup {u}) = Cardinality(Occupying(r))
        BY <3>1, FS_AddElement
      <4>2. QED
        BY <3>2, <4>1, ConstantsAssumption
    <3>4. \A v \in Occupying(r) : v \in Users /\ colour[r][v] # c
      BY <1>4 DEF UsedColours, Occupying
    <3>5. \A v, w \in Occupying(r) : v # w => colour[r][v] # colour[r][w]
      BY <1>1 DEF Kept, Seats
    <3>6. u \notin Occupying(r)
      BY <1>1, <1>3 DEF Enters
    <3>7. ASSUME NEW v \in Occupying(r)', NEW w \in Occupying(r)', v # w
          PROVE  colour'[r][v] # colour'[r][w]
      <4>1. CASE v = u \/ w = u
        BY <1>1, <1>5, <1>7, <3>4, <3>6, <3>7, <4>1
      <4>2. CASE v # u /\ w # u
        BY <1>1, <1>5, <1>7, <3>4, <3>5, <3>7, <4>2
      <4>3. QED
        BY <4>1, <4>2
    <3>8. QED
      BY <1>7, <2>1, <3>3, <3>7
  <2>2. CASE s # r
    <3>1. Occupying(s)' = Occupying(s)
      BY <1>5, <2>2 DEF Occupying
    <3>2. \A v \in Occupying(s) : colour'[s][v] = colour[s][v]
      BY <1>5, <2>2 DEF Occupying
    <3>3. QED
      BY <3>1, <3>2 DEF Kept, Seats
  <2>3. QED
    BY <2>1, <2>2
<1>9. ASSUME NEW s \in Rooms, room'[s] = "playing"
      PROVE  sequence'[s] = rounds'[s] /\ Active(s)' = cast'[s]
  <2>1. u \notin Active(r)
    BY <1>1, <1>3 DEF Enters, Active, Occupying
  <2>2. Active(s)' = Active(s)
    BY <1>3, <1>5, <1>6, <1>9, <2>1 DEF Active, rows
  <2>3. QED
    BY <1>3, <1>9, <2>2 DEF Kept, GameAsStarted, rows
<1>10. QED
  BY <1>8, <1>9 DEF Kept, Seats, GameAsStarted

\* A transition seats nobody, and only the start of a game makes players of who is waiting.
LEMMA TransitionKeeps ==
  ASSUME TypeOK, Kept, NEW r \in Rooms, Transition(r)
  PROVE  Kept'
<1>1. /\ UNCHANGED colour
      /\ \A s \in Rooms : s # r => /\ room'[s] = room[s] /\ seat'[s] = seat[s] /\ rounds'[s] = rounds[s]
                                   /\ sequence'[s] = sequence[s] /\ cast'[s] = cast[s]
  BY TransitionEffect
<1>2. /\ Occupying(r)' \subseteq Occupying(r)
      /\ room'[r] = "playing" => sequence'[r] = rounds'[r] /\ Active(r)' = cast'[r]
  <2>1. CASE \E n \in Lengths : UpdateSettings(r, n)
    BY <2>1 DEF UpdateSettings, Changeable, Occupying
  <2>2. CASE Start(r)
    BY <2>2 DEF Start, TypeOK, Occupying, Active
  <2>3. CASE Close(r) \/ FinishGame(r)
    BY <2>3 DEF Close, FinishGame, TypeOK, Occupying
  <2>4. ASSUME NEW u \in Users, Release(r, u)
        PROVE  /\ Occupying(r)' \subseteq Occupying(r)
               /\ room'[r] = "playing" => sequence'[r] = rounds'[r] /\ Active(r)' = cast'[r]
    <3>1. /\ \A v \in Users : v # u => seat'[r][v] = seat[r][v]
          /\ seat'[r][u] = "left" /\ cast'[r] = cast[r] \ {u}
          /\ room'[r] = "playing" => room[r] = "playing"
          /\ UNCHANGED <<sequence, rounds>>
      BY <2>4 DEF Release, TypeOK
    <3>2. Occupying(r)' \subseteq Occupying(r) /\ Active(r)' = Active(r) \ {u}
      BY <3>1 DEF Occupying, Active
    <3>3. QED
      BY <3>1, <3>2 DEF Kept, GameAsStarted
  <2>5. QED
    BY <2>1, <2>2, <2>3, <2>4 DEF Transition
<1>3. ASSUME NEW s \in Rooms
      PROVE  /\ Occupying(s)' \subseteq Occupying(s)
             /\ room'[s] = "playing" => sequence'[s] = rounds'[s] /\ Active(s)' = cast'[s]
  <2>1. CASE s = r
    BY <1>2, <2>1
  <2>2. CASE s # r
    BY <1>1, <2>2 DEF Kept, GameAsStarted, Occupying, Active
  <2>3. QED
    BY <2>1, <2>2
<1>4. ASSUME NEW s \in Rooms PROVE Cardinality(Occupying(s)') <= Capacity
  <2>1. IsFiniteSet(Occupying(s)) /\ IsFiniteSet(Occupying(s)')
    BY ConstantsAssumption, FS_Subset DEF Occupying
  <2>2. Cardinality(Occupying(s)') <= Cardinality(Occupying(s)) /\ Cardinality(Occupying(s)) <= Capacity
    BY <1>3, <2>1, FS_Subset DEF Kept, Seats
  <2>3. Cardinality(Occupying(s)) \in Nat /\ Cardinality(Occupying(s)') \in Nat
    BY <2>1, FS_CardinalityType
  <2>4. QED
    BY <2>2, <2>3, ConstantsAssumption
<1>5. ASSUME NEW s \in Rooms, NEW u \in Occupying(s)', NEW v \in Occupying(s)', u # v
      PROVE  colour'[s][u] # colour'[s][v]
  BY <1>1, <1>3, <1>5 DEF Kept, Seats
<1>6. QED
  BY <1>3, <1>4, <1>5 DEF Kept, Seats, GameAsStarted

\* A host's next room is inserted when the index has none of theirs; a room's host stays.
LEMMA OneOpenRoomNext ==
  ASSUME TypeOK, OneOpenRoom, [Next]_vars
  PROVE  OneOpenRoom'
<1>1. ASSUME NEW q \in Requests, NEW r \in Rooms, NEW n \in Lengths, InsertRoom(q, r, n)
      PROVE  OneOpenRoom'
  <2>1. /\ Indexed(req[q].who) = {}
        /\ room' = [room EXCEPT ![r] = "waiting"] /\ host' = [host EXCEPT ![r] = req[q].who]
    BY <1>1 DEF InsertRoom
  <2>2. ASSUME NEW u \in Users
        PROVE  \A s, t \in OpenRooms(u)' : s = t
    <3>1. OpenRooms(u)' \ {r} \subseteq OpenRooms(u)
      BY <2>1 DEF OpenRooms, TypeOK
    <3>2. CASE u = req[q].who
      BY <2>1, <3>1, <3>2 DEF OpenRooms, Indexed, Open
    <3>3. CASE u # req[q].who
      BY <2>1, <3>1, <3>3 DEF OpenRooms, OneOpenRoom, TypeOK
    <3>4. QED
      BY <3>2, <3>3
  <2>3. QED
    BY <2>2 DEF OneOpenRoom
<1>2. ASSUME UNCHANGED host, \A r \in Rooms : room'[r] \in Open => room[r] \in Open
      PROVE  OneOpenRoom'
  BY <1>2 DEF OneOpenRoom, OpenRooms
<1>3. ASSUME NEW r \in Rooms, Transition(r) PROVE OneOpenRoom'
  <2>1. UNCHANGED host /\ \A s \in Rooms : s # r => room'[s] = room[s]
    BY <1>3, TransitionEffect
  <2>2. room[r] \in Open \/ room'[r] = room[r]
    BY <1>3 DEF Transition, UpdateSettings, Start, Close, FinishGame, Release, Open
  <2>3. QED
    BY <1>2, <2>1, <2>2
<1>4. CASE UNCHANGED <<room, host>>
  BY <1>2, <1>4
<1>5. QED
  BY <1>1, <1>3, <1>4 DEF Next, Transition, Create, Conflict, Lookup, TakeSeat, NoSeat, ReadMembers,
     Answer, Crash, Join, State, Locks, rows, vars
-----------------------------------------------------------------------------
(* The invariant.                                                          *)

LEMMA InvariantInit == Init => IInv
<1> SUFFICES ASSUME Init PROVE IInv
  OBVIOUS
<1>1. TypeOK
  BY TypeInit
<1>2. Snapshots /\ OneOpenRoom /\ GameAsStarted
  BY IdleFacts DEF Init, Snapshots, Reading, OneOpenRoom, OpenRooms, Open, GameAsStarted
<1>3. \A r \in Rooms : Occupying(r) = {}
  BY DEF Init, Occupying
<1>4. Seats
  BY <1>3, FS_EmptySet, ConstantsAssumption DEF Seats
<1>5. QED
  BY <1>1, <1>2, <1>4 DEF IInv

LEMMA NextCases ==
  Next => \/ \E q \in Requests :
                \/ \E u \in Hosts : Create(q, u)
                \/ \E r \in Rooms, n \in Lengths : InsertRoom(q, r, n)
                \/ Conflict(q) \/ Lookup(q)
          \/ \E q \in Requests :
                \/ \E u \in Users, r \in Rooms : Join(q, u, r) \/ State(q, u, r)
                \/ TakeSeat(q) \/ NoSeat(q) \/ ReadMembers(q) \/ Answer(q) \/ Crash(q)
          \/ \E r \in Rooms : Transition(r)
  BY DEF Next, Transition

LEMMA InvariantNext == IInv /\ [Next]_vars => IInv'
<1> SUFFICES ASSUME IInv, [Next]_vars PROVE IInv'
  OBVIOUS
<1>1. TypeOK /\ Snapshots /\ Kept /\ OneOpenRoom
  BY DEF IInv, Kept
<1>2. OneOpenRoom'
  BY <1>1, OneOpenRoomNext
<1>3. UNCHANGED <<room, rounds, sequence, cast, seat, colour>> => Kept'
  BY <1>1 DEF Kept, Seats, GameAsStarted, Occupying, Active
<1>4. ASSUME NEW q \in Requests,
             \/ \E u \in Hosts : Create(q, u)
             \/ \E r \in Rooms, n \in Lengths : InsertRoom(q, r, n)
             \/ Conflict(q) \/ Lookup(q)
      PROVE  TypeOK' /\ Snapshots' /\ Kept'
  <2>1. TypeOK' /\ Snapshots'
    BY <1>1, <1>4, CreatingTypes, CreatingKeepsSnapshots
  <2>2. ASSUME NEW r \in Rooms, NEW n \in Lengths, InsertRoom(q, r, n) PROVE Kept'
    <3>1. UNCHANGED <<sequence, cast, seat, colour>> /\ room' = [room EXCEPT ![r] = "waiting"]
          /\ rounds' = [rounds EXCEPT ![r] = n]
      BY <2>2 DEF InsertRoom
    <3>2. \A s \in Rooms : room'[s] = "playing" => room[s] = "playing" /\ rounds'[s] = rounds[s]
      BY <1>1, <3>1 DEF TypeOK
    <3>3. QED
      BY <1>1, <3>1, <3>2 DEF Kept, Seats, GameAsStarted, Occupying, Active
  <2>3. ASSUME (\E u \in Hosts : Create(q, u)) \/ Conflict(q) \/ Lookup(q) PROVE Kept'
    BY <1>3, <2>3 DEF Create, Conflict, Lookup, rows
  <2>4. QED
    BY <1>4, <2>1, <2>2, <2>3
<1>5. ASSUME NEW q \in Requests,
             \/ \E u \in Users, r \in Rooms : Join(q, u, r) \/ State(q, u, r)
             \/ TakeSeat(q) \/ NoSeat(q) \/ ReadMembers(q) \/ Answer(q) \/ Crash(q)
      PROVE  TypeOK' /\ Snapshots' /\ Kept'
  <2>1. TypeOK' /\ Snapshots'
    BY <1>1, <1>5, LockingTypes, LockingKeepsSnapshots
  <2>2. ASSUME TakeSeat(q) PROVE Kept'
    BY <1>1, <2>2, TakeSeatKeeps
  <2>3. ASSUME \/ \E u \in Users, r \in Rooms : Join(q, u, r) \/ State(q, u, r)
               \/ NoSeat(q) \/ ReadMembers(q) \/ Answer(q) \/ Crash(q)
        PROVE  Kept'
    BY <1>3, <2>3 DEF Join, State, Locks, NoSeat, ReadMembers, Answer, Crash, rows
  <2>4. QED
    BY <1>5, <2>1, <2>2, <2>3
<1>6. ASSUME NEW r \in Rooms, Transition(r)
      PROVE  TypeOK' /\ Snapshots' /\ Kept'
  BY <1>1, <1>6, TransitionTypes, TransitionKeepsSnapshots, TransitionKeeps
<1>7. ASSUME UNCHANGED vars PROVE TypeOK' /\ Snapshots' /\ Kept'
  <2>1. TypeOK'
    BY <1>1, <1>7 DEF vars, rows, TypeOK
  <2>2. Snapshots'
    BY <1>1, <1>7 DEF vars, rows, Snapshots, StillSo, Occupying, UsedColours, At
  <2>3. UNCHANGED <<room, rounds, sequence, cast, seat, colour>>
    BY <1>7 DEF vars, rows
  <2>4. QED
    BY <1>3, <2>1, <2>2, <2>3
<1>8. TypeOK' /\ Snapshots' /\ Kept'
  BY <1>4, <1>5, <1>6, <1>7, NextCases
<1>9. QED
  BY <1>2, <1>8 DEF IInv, Kept

\* Whatever the requests do at once, the rooms keep the invariant.
THEOREM InvariantHolds == Spec => []IInv
  BY InvariantInit, InvariantNext, PTL DEF Spec

\* A host has one open room (create_room, RO-13).
THEOREM HostsOneRoom == Spec => []OneOpenRoom
<1>1. IInv => OneOpenRoom
  BY DEF IInv
<1>2. QED
  BY <1>1, InvariantHolds, PTL

\* A game is played as it was started, by exactly those who were there and never left
\* (start_game, join_room, release).
THEOREM PlayedAsStarted == Spec => []GameAsStarted
<1>1. IInv => GameAsStarted
  BY DEF IInv
<1>2. QED
  BY <1>1, InvariantHolds, PTL

\* The lobby is shown in one version (lobby_state).
THEOREM ShownInOneVersion == Spec => []OneVersion
<1>1. IInv => OneVersion
  BY DEF IInv, Snapshots, StillSo, Reading, OneVersion, At
<1>2. QED
  BY <1>1, InvariantHolds, PTL
-----------------------------------------------------------------------------
(* A colour for every seat.                                                *)

\* Some colour is left over by fewer people than there are colours.
LEMMA ColourLeft ==
  ASSUME NEW S \in SUBSET Users, Cardinality(S) < Capacity,
         NEW f \in [S -> Colours], NEW used, used = {f[u] : u \in S}
  PROVE  Colours \ used # {}
<1>1. IsFiniteSet(S)
  BY ConstantsAssumption, FS_Subset
<1>2. f \in Surjection(S, used)
  BY DEF Surjection
<1>3. IsFiniteSet(used) /\ Cardinality(used) <= Cardinality(S)
  BY <1>1, <1>2, FS_Surjection
<1>4. IsFiniteSet(Colours) /\ Cardinality(Colours) = Capacity
  BY FS_Interval, ConstantsAssumption DEF Colours
<1>5. Cardinality(used) \in Nat /\ Cardinality(S) \in Nat /\ Capacity \in Nat
  BY <1>1, <1>3, FS_CardinalityType, ConstantsAssumption
<1>6. ~ (Colours \subseteq used)
  <2>1. ASSUME Colours \subseteq used PROVE Cardinality(Colours) <= Cardinality(used)
    BY <1>3, <2>1, FS_Subset
  <2>2. QED
    BY <1>3, <1>4, <1>5, <2>1
<1>7. QED
  BY <1>6

\* Among the colours left there is a first one.
LEMMA FirstColour ==
  ASSUME NEW used, Colours \ used # {}
  PROVE  \E c \in Colours : c \notin used /\ 0 .. c - 1 \subseteq used
<1> DEFINE left  == Colours \ used
           below == {0 .. c - 1 : c \in left}
<1>1. IsFiniteSet(Colours)
  BY FS_Interval, ConstantsAssumption DEF Colours
<1>2. Colours \subseteq Nat /\ \A c \in Colours : 0 .. c - 1 \subseteq Colours
  BY ConstantsAssumption DEF Colours
<1>3. below \subseteq FiniteSubsetsOf(Colours) /\ below # {}
  <2>1. left # {} /\ \A c \in left : 0 .. c - 1 \in SUBSET Colours
    BY <1>2
  <2>2. FiniteSubsetsOf(Colours) = SUBSET Colours
    BY <1>1, FS_FiniteSubsetsOfFinite
  <2> HIDE DEF left
  <2>3. ASSUME NEW b \in below PROVE b \in SUBSET Colours
    <3>1. PICK c \in left : b = 0 .. c - 1
      OBVIOUS
    <3>2. QED
      BY <2>1, <3>1
  <2>4. below # {}
    <3>1. PICK c : c \in left
      BY <2>1
    <3>2. 0 .. c - 1 \in below
      BY <3>1
    <3>3. QED
      BY <3>2
  <2> HIDE DEF below
  <2>5. QED
    BY <2>2, <2>3, <2>4
<1>4. PICK first \in below : \A b \in below : ~ (<<b, first>> \in StrictSubsetOrdering(Colours))
  BY <1>3, FS_StrictSubsetOrderingWellFounded, WFMin
<1>5. PICK c \in left : first = 0 .. c - 1
  BY <1>4
<1>6. ASSUME NEW d \in 0 .. c - 1, d \notin used PROVE FALSE
  <2>1. d \in left /\ d \in Nat /\ c \in Nat /\ d < c
    BY <1>2, <1>5, <1>6
  <2>2. 0 .. d - 1 \subseteq 0 .. c - 1 /\ 0 .. d - 1 # 0 .. c - 1
    <3>1. d \in 0 .. c - 1 /\ d \notin 0 .. d - 1
      BY <2>1
    <3>2. 0 .. d - 1 \subseteq 0 .. c - 1
      BY <2>1
    <3>3. QED
      BY <3>1, <3>2
  <2>3. <<0 .. d - 1, first>> \in StrictSubsetOrdering(Colours)
    BY <1>2, <1>5, <2>1, <2>2 DEF StrictSubsetOrdering
  <2>4. QED
    BY <1>4, <2>1, <2>3
<1>7. QED
  BY <1>5, <1>6

\* Seats and colours are sound, and who gets a seat gets a colour (join_room, RO-05).
THEOREM SeatsAreSound == Spec => []SeatsSound
<1>1. ASSUME IInv, NEW q \in Requests, At(q, "join"), Enters(q)
      PROVE  \E c \in Colours : IsColour(q, req[q].room, req[q].who, c)
  <2> DEFINE r == req[q].room
             S == Occupying(r)
  <2>1. r \in Rooms /\ req[q].who \in Users /\ req[q].seen = S /\ req[q].used = UsedColours(r)
    BY <1>1 DEF IInv, Snapshots, StillSo, Reading, At
  <2>2. colour[r] \in [Users -> Colours]
    BY <1>1, <2>1 DEF IInv, TypeOK
  <2>3. Cardinality(S) < Capacity /\ S \in SUBSET Users
    BY <1>1, <2>1 DEF Enters, HasRoom, Occupying
  <2> DEFINE f == [u \in S |-> colour[r][u]]
  <2>4. f \in [S -> Colours] /\ UsedColours(r) = {f[u] : u \in S}
    BY <2>2, <2>3 DEF UsedColours
  <2> HIDE DEF f
  <2>5. Colours \ UsedColours(r) # {}
    BY <2>3, <2>4, ColourLeft
  <2>6. CASE seat[r][req[q].who] # "none" /\ colour[r][req[q].who] \notin req[q].used
    BY <2>1, <2>2, <2>6 DEF IsColour
  <2>7. CASE ~ (seat[r][req[q].who] # "none" /\ colour[r][req[q].who] \notin req[q].used)
    BY <2>1, <2>5, <2>7, FirstColour DEF IsColour
  <2>8. QED
    BY <2>6, <2>7
<1>2. IInv => SeatsSound
  BY <1>1 DEF IInv, Seats, SeatsSound
<1>3. QED
  BY <1>2, InvariantHolds, PTL
=============================================================================
