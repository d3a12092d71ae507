----------------------------- MODULE RoomLobby -----------------------------
(***************************************************************************)
(* Rooms and their seats: creating a room, entering and leaving it, its    *)
(* settings, the start of its game and its end.                            *)
(*                                                                         *)
(* A host has one open room, which a partial unique index of PostgreSQL    *)
(* enforces; create_room inserts and, on a conflict, looks for the room it *)
(* collided with, in statements that see different snapshots.  Everything  *)
(* else works under the room row lock, which join_room and the snapshot    *)
(* of the lobby keep over several reads.                                   *)
(***************************************************************************)
EXTENDS Integers, FiniteSets

CONSTANTS
  Users,
  NoUser,     \* the host of a room that does not exist yet
  Rooms,      \* rows the table of rooms may get
  NoRoom,
  Requests,   \* HTTP requests running at once
  NoRequest,  \* nobody holds a room's row lock
  Capacity,   \* seats and colours of a room, 12
  Attempts,   \* create_room's tries, 5
  MinPlayers, \* game.MIN_PLAYERS
  Lengths,    \* settings a host may choose: rounds of a game
  Hosts,      \* environment: users who create rooms
  Entries     \* environment: who enters which room, <<user, room>>

ASSUME ConstantsAssumption ==
  /\ NoUser \notin Users /\ NoRoom \notin Rooms /\ NoRequest \notin Requests
  /\ IsFiniteSet(Users)
  /\ Capacity \in Nat \ {0} /\ Attempts \in Nat \ {0} /\ MinPlayers \in Nat
  /\ Lengths \subseteq Nat \ {0}
  /\ Hosts \subseteq Users /\ Entries \subseteq Users \X Rooms

Colours == 0 .. Capacity - 1

VARIABLES
  room,      \* rooms.status, "none" before the row exists
  host,      \* rooms.host_user_id
  rounds,    \* rooms.round_count
  sequence,  \* length of rooms.emotion_sequence
  seat,      \* participants.status, "none" before the row exists
  colour,    \* participants.color_tag
  lock,      \* holder of the room row lock
  req,       \* what each request is doing
  cast       \* history: who was active when the game started and has not left since

rows == <<room, host, rounds, sequence, cast>>
vars == <<rows, seat, colour, lock, req>>

Work == [pc : {"idle", "insert", "lookup", "join", "state", "answer"},
         who : Users \cup {NoUser}, room : Rooms \cup {NoRoom}, tries : 0 .. Attempts - 1,
         status : {"none", "waiting", "playing", "finished", "closed"},
         seen : SUBSET Users, used : SUBSET Colours]
Idle == [pc |-> "idle", who |-> NoUser, room |-> NoRoom, tries |-> 0,
         status |-> "none", seen |-> {}, used |-> {}]

At(q, label)    == req[q].pc = label
Goto(q, label)  == req' = [req EXCEPT ![q].pc = label]
Return(q)       == req' = [req EXCEPT ![q] = Idle]

Open            == {"waiting", "playing"}
Occupying(r)    == {u \in Users : seat[r][u] \in {"active", "waiting"}}
Active(r)       == {u \in Users : seat[r][u] = "active"}
UsedColours(r)  == {colour[r][u] : u \in Occupying(r)}

\* Mutation: get_room without FOR UPDATE.
Lockable_Always(r) == room[r] # "none"
\* get_room(lock=True) finds the room and waits for its row.
Lockable(r)     == room[r] # "none" /\ lock[r] = NoRequest
-----------------------------------------------------------------------------
Init ==
  /\ room = [r \in Rooms |-> "none"]
  /\ host = [r \in Rooms |-> NoUser]
  /\ rounds = [r \in Rooms |-> 0] /\ sequence = [r \in Rooms |-> 0]
  /\ seat = [r \in Rooms |-> [u \in Users |-> "none"]]
  /\ colour = [r \in Rooms |-> [u \in Users |-> 0]]
  /\ lock = [r \in Rooms |-> NoRequest]
  /\ req = [q \in Requests |-> Idle]
  /\ cast = [r \in Rooms |-> {}]

(* Creating a room.                                                        *)

\* POST rooms.
Create(q, u) ==
  /\ At(q, "idle")
  /\ req' = [req EXCEPT ![q] = [Idle EXCEPT !.pc = "insert", !.who = u]]
  /\ UNCHANGED <<rows, seat, colour, lock>>

\* active_room
OpenRooms(u) == {r \in Rooms : room[r] \in Open /\ host[r] = u}

\* Mutation: the index covers waiting rooms only.
Indexed_WaitingOnly(u) == {r \in Rooms : room[r] = "waiting" /\ host[r] = u}
\* The rows of uq_room_active_owner for user u.
Indexed(u) == {r \in Rooms : room[r] \in {"waiting", "playing"} /\ host[r] = u}

\* INSERT ... ON CONFLICT DO NOTHING succeeds.
InsertRoom(q, r, n) ==
  LET u == req[q].who
  IN /\ At(q, "insert") /\ room[r] = "none"
     /\ Indexed(u) = {}
     /\ room' = [room EXCEPT ![r] = "waiting"]
     /\ host' = [host EXCEPT ![r] = u]
     /\ rounds' = [rounds EXCEPT ![r] = n]
     /\ Return(q)
     /\ UNCHANGED <<sequence, cast, seat, colour, lock>>

\* The owner's slot is taken, or the random slug is: nothing is inserted.
Conflict(q) == At(q, "insert") /\ Goto(q, "lookup") /\ UNCHANGED <<rows, seat, colour, lock>>

\* The room that was in the way may be closed by now; then the next attempt may succeed.
Lookup(q) ==
  LET u == req[q].who  n == req[q].tries + 1
  IN /\ At(q, "lookup")
     /\ IF OpenRooms(u) # {} \/ n = Attempts
        THEN Return(q)
        ELSE req' = [req EXCEPT ![q].pc = "insert", ![q].tries = n]
     /\ UNCHANGED <<rows, seat, colour, lock>>
-----------------------------------------------------------------------------
(* Entering a room and looking at it.                                      *)

\* A transaction that took the row lock: the room's status, its occupants and their colours.
Locks(q, label, u, r) ==
  /\ At(q, "idle") /\ Lockable(r)
  /\ lock' = [lock EXCEPT ![r] = q]
  /\ req' = [req EXCEPT ![q] = [pc |-> label, who |-> u, room |-> r, tries |-> 0,
                                status |-> room[r], seen |-> Occupying(r), used |-> UsedColours(r)]]
  /\ UNCHANGED <<rows, seat, colour>>

Unlocks(q) == lock' = [lock EXCEPT ![req[q].room] = NoRequest] /\ Return(q)

\* POST participants: join_room reads the room, the participant and the occupants ...
Join(q, u, r) == <<u, r>> \in Entries /\ Locks(q, "join", u, r)

HasRoom(q) == Cardinality(req[q].seen) < Capacity

\* A room that is over, a seat that is kept already or a full room: nothing changes.
Enters(q) == req[q].status \in Open /\ req[q].who \notin req[q].seen /\ HasRoom(q)

\* Mutation: who returns always gets the former colour.
IsColour_Former(q, r, u, c) ==
  IF seat[r][u] # "none" THEN c = colour[r][u] ELSE c \notin req[q].used /\ 0 .. c - 1 \subseteq req[q].used
\* The former colour if it is still free, otherwise the first one that is.
IsColour(q, r, u, c) ==
  /\ c \notin req[q].used
  /\ IF seat[r][u] # "none" /\ colour[r][u] \notin req[q].used
     THEN c = colour[r][u]
     ELSE 0 .. c - 1 \subseteq req[q].used

\* Mutation: whoever left a game may go on playing it (RO-16, PM-11).
Entry_Revived(q) ==
  IF req[q].status = "waiting" \/ seat[req[q].room][req[q].who] = "left" THEN "active" ELSE "waiting"
\* Whoever returns to a game waits for its end, like anybody who is new.
Entry(q) == IF req[q].status = "waiting" THEN "active" ELSE "waiting"

\* ... and takes a seat.
TakeSeat(q) ==
  LET r == req[q].room  u == req[q].who
  IN /\ At(q, "join") /\ Enters(q)
     /\ \E c \in Colours : IsColour(q, r, u, c) /\ colour' = [colour EXCEPT ![r][u] = c]
     /\ seat' = [seat EXCEPT ![r][u] = Entry(q)]
     /\ Unlocks(q)
     /\ UNCHANGED rows

NoSeat(q) ==
  /\ At(q, "join") /\ ~ Enters(q)
  /\ Unlocks(q)
  /\ UNCHANGED <<rows, seat, colour>>

\* GET state: the room and the participant first ...
State(q, u, r) == u \in Occupying(r) /\ room[r] = "waiting" /\ Locks(q, "state", u, r)

\* ... then the members; lock and transaction end with the answer.
ReadMembers(q) ==
  /\ At(q, "state")
  /\ req' = [req EXCEPT ![q].pc = "answer", ![q].seen = Occupying(req[q].room)]
  /\ UNCHANGED <<rows, seat, colour, lock>>

Answer(q) == At(q, "answer") /\ Unlocks(q) /\ UNCHANGED <<rows, seat, colour>>
-----------------------------------------------------------------------------
(* The room's own transitions, each one transaction under the row lock.    *)

Changeable(r) == room[r] = "waiting"

\* PATCH settings by the host.
UpdateSettings(r, n) ==
  /\ Lockable(r) /\ Changeable(r)
  /\ rounds' = [rounds EXCEPT ![r] = n]
  /\ UNCHANGED <<room, host, sequence, cast, seat, colour, lock, req>>

\* POST start by the host: start_game.
Start(r) ==
  /\ Lockable(r) /\ room[r] = "waiting"
  /\ Cardinality(Active(r)) >= MinPlayers
  /\ room' = [room EXCEPT ![r] = "playing"]
  /\ sequence' = [sequence EXCEPT ![r] = rounds[r]]
  /\ seat' = [seat EXCEPT ![r] = [u \in Users |-> IF @[u] = "waiting" THEN "active" ELSE @[u]]]
  /\ cast' = [cast EXCEPT ![r] = Occupying(r)]
  /\ UNCHANGED <<host, rounds, colour, lock, req>>

\* POST close by the host.
Close(r) ==
  /\ Lockable(r) /\ room[r] = "waiting"
  /\ room' = [room EXCEPT ![r] = "closed"]
  /\ UNCHANGED <<host, rounds, sequence, cast, seat, colour, lock, req>>

\* advance: the last round or an abort ends the game.
FinishGame(r) ==
  /\ Lockable(r) /\ room[r] = "playing"
  /\ room' = [room EXCEPT ![r] = "finished"]
  /\ UNCHANGED <<host, rounds, sequence, cast, seat, colour, lock, req>>

\* expire_participant: the seat and its colour return, and a game without players ends.
Release(r, u) ==
  /\ Lockable(r) /\ room[r] \in Open /\ u \in Occupying(r)
  /\ seat' = [seat EXCEPT ![r][u] = "left"]
  /\ IF room[r] = "playing" /\ Cardinality(Active(r) \ {u}) < MinPlayers
     THEN room' = [room EXCEPT ![r] = "finished"]
     ELSE UNCHANGED room
  /\ cast' = [cast EXCEPT ![r] = @ \ {u}]
  /\ UNCHANGED <<host, rounds, sequence, colour, lock, req>>

\* A request dies, or its connection does: its transaction rolls back.
Crash(q) ==
  /\ ~ At(q, "idle")
  /\ IF req[q].pc \in {"join", "state", "answer"} THEN Unlocks(q) ELSE Return(q) /\ UNCHANGED lock
  /\ UNCHANGED <<rows, seat, colour>>
-----------------------------------------------------------------------------
Next ==
  \/ \E q \in Requests, u \in Hosts : Create(q, u)
  \/ \E q \in Requests, r \in Rooms, n \in Lengths : InsertRoom(q, r, n)
  \/ \E q \in Requests : \/ Conflict(q) \/ Lookup(q) \/ TakeSeat(q) \/ NoSeat(q)
                         \/ ReadMembers(q) \/ Answer(q) \/ Crash(q)
  \/ \E q \in Requests, u \in Users, r \in Rooms : Join(q, u, r) \/ State(q, u, r)
  \/ \E r \in Rooms, n \in Lengths : UpdateSettings(r, n)
  \/ \E r \in Rooms : Start(r) \/ Close(r) \/ FinishGame(r)
  \/ \E r \in Rooms, u \in Users : Release(r, u)

Spec == Init /\ [][Next]_vars
-----------------------------------------------------------------------------
TypeOK ==
  /\ room \in [Rooms -> {"none", "waiting", "playing", "finished", "closed"}]
  /\ host \in [Rooms -> Users \cup {NoUser}]
  /\ rounds \in [Rooms -> Lengths \cup {0}] /\ sequence \in [Rooms -> Lengths \cup {0}]
  /\ seat \in [Rooms -> [Users -> {"none", "active", "waiting", "left"}]]
  /\ colour \in [Rooms -> [Users -> Colours]]
  /\ lock \in [Rooms -> Requests \cup {NoRequest}]
  /\ req \in [Requests -> Work]
  /\ cast \in [Rooms -> SUBSET Users]

\* However many people enter, leave and return at once, a room never seats more than its
\* capacity, no two of its occupants share a colour, and whoever gets a seat finds a colour
\* (join_room, RO-05).
SeatsSound ==
  /\ \A r \in Rooms :
       /\ Cardinality(Occupying(r)) <= Capacity
       /\ \A u, v \in Occupying(r) : u # v => colour[r][u] # colour[r][v]
  /\ \A q \in Requests : At(q, "join") /\ Enters(q) =>
       \E c \in Colours : IsColour(q, req[q].room, req[q].who, c)

\* A user hosts at most one open room, whatever creations, closings and starts of games
\* overlap (create_room, RO-13).
OneOpenRoom == \A u \in Users : \A r, s \in OpenRooms(u) : r = s

\* A game is played as it was started: as many rounds as the settings say, and by exactly those
\* who were there at the start and never left; whoever enters meanwhile, and whoever left and
\* is back, waits (docs/contracts.md:39; spec.md:212 had them active again, RO-16).
GameAsStarted ==
  \A r \in Rooms : room[r] = "playing" => sequence[r] = rounds[r] /\ Active(r) = cast[r]

\* The lobby a participant is shown is one version of the room: the status, the asker's own
\* seat and the list of members belong together ("avoid a mixed version", lobby_state).
OneVersion ==
  \A q \in Requests : At(q, "answer") =>
    /\ req[q].status = room[req[q].room]
    /\ req[q].who \in req[q].seen
    /\ req[q].seen = Occupying(req[q].room)
-----------------------------------------------------------------------------
(* What makes the properties above inductive; the proofs in RoomLobby_proofs *)
(* are about it.                                                           *)

\* A request that looks at a room or enters it holds the room's row lock, and what it has read
\* is still so.
Reading == {"join", "state", "answer"}
StillSo(q) ==
  LET r == req[q].room
  IN /\ r \in Rooms /\ room[r] # "none" /\ lock[r] = q /\ req[q].who \in Users
     /\ req[q].status = room[r] /\ req[q].seen = Occupying(r) /\ req[q].used = UsedColours(r)
     /\ ~ At(q, "join") => req[q].who \in req[q].seen
Snapshots == \A q \in Requests : req[q].pc \in Reading => StillSo(q)

\* No room is over its capacity, and a colour has one occupant.
Seats == \A r \in Rooms : /\ Cardinality(Occupying(r)) <= Capacity
                          /\ \A u, v \in Occupying(r) : u # v => colour[r][u] # colour[r][v]

IInv == TypeOK /\ Snapshots /\ Seats /\ OneOpenRoom /\ GameAsStarted
=============================================================================
