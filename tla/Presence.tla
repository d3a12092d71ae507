------------------------------ MODULE Presence ------------------------------
(***************************************************************************)
(* The sockets of one user, who may be a participant of several rooms, the *)
(* slots those participants hold, and the three ways a slot is given back: *)
(* a disconnection, a move to another room, and the reconciler that finds  *)
(* the sockets of pods that died.                                          *)
(*                                                                         *)
(* A transaction is one action: connect and disconnect take the user's row *)
(* lock and the room's, the reconciler and the expiry the room's.  What a  *)
(* handler does after its commit are actions of their own.                 *)
(*                                                                         *)
(* Time is abstract.  aged says that the grace has passed since            *)
(* disconnected_at; a timer is "set" when it is scheduled after that       *)
(* moment, "early" when disconnected_at has moved since.                   *)
(***************************************************************************)
EXTENDS Integers, FiniteSets

CONSTANTS
  Members,   \* the user's participants, each in a room of its own
  NoMember,
  Sids,      \* sockets the user's clients open
  NoSid,
  Pods,      \* pods that accept them; background loops run on other pods as well
  Games,     \* environment: participants whose room may start its game
  Mortal,    \* environment: pods that may die
  Prompt     \* environment: nothing disturbs a handler between its commit and its follow-up

ASSUME ConstantsAssumption ==
  /\ NoMember \notin Members /\ NoSid \notin Sids /\ Games \subseteq Members
  /\ Mortal \subseteq Pods /\ Prompt \in BOOLEAN

VARIABLES
  \* PostgreSQL
  status,    \* participants.status
  conn,      \* participants.connection_status
  playing,   \* members whose room's game has started
  \* Redis
  usersock,  \* user:{uuid}:sock
  sock,      \* sock[s]: the participantId in sock:{sid}, NoMember for no key
  marker,    \* pods whose pod:{id} key exists
  timer,     \* participant_left in sched:timers
  \* time
  aged,      \* participants for whom the grace since disconnected_at has passed
  \* the processes
  alive,     \* pods that run
  phys,      \* the client's end: "none", "open" or "gone"
  home,      \* the pod that accepted the socket
  ctx,       \* the participant a socket's handlers work for
  up,        \* connect: where its handler stands
  moved,     \* connect: <<old_sid, old_participant_id>>
  down,      \* disconnect: where its handler stands
  entering,  \* POST participants: entries committed, their hold to come
  sweep,     \* participants some pod's reconciler found stale and is about to check
  held,      \* participants it downgraded, their hold to come
  expiring   \* participants whose timer some pod's scheduler claimed

db    == <<status, conn, playing, aged>>
redis == <<usersock, sock, marker, timer>>
conns == <<phys, home, ctx, up, moved, down>>
procs == <<entering, sweep, held, expiring>>
vars  == <<db, redis, alive, conns, procs>>

Occupies(m) == status[m] # "left"
Unmoved     == <<NoSid, NoMember>>

Init ==
  /\ status = [m \in Members |-> "active"]
  /\ conn = [m \in Members |-> "disconnected"]
  /\ playing = {} /\ aged = {}
  /\ usersock = NoSid /\ sock = [s \in Sids |-> NoMember]
  /\ marker = Pods /\ alive = Pods
  /\ timer = [m \in Members |-> "none"]
  /\ phys = [s \in Sids |-> "none"]
  /\ home \in [Sids -> Pods]
  /\ ctx = [s \in Sids |-> NoMember]
  /\ up = [s \in Sids |-> "idle"] /\ down = [s \in Sids |-> "idle"]
  /\ moved = [s \in Sids |-> Unmoved]
  /\ entering = Members
  /\ sweep = {} /\ held = {} /\ expiring = {}

\* socket_is_live: the user's key names a socket of this participant whose pod says it runs.
SocketIsLive(m) == usersock # NoSid /\ sock[usersock] = m /\ home[usersock] \in marker

\* disconnected_at = now: the grace begins anew, and a timer that is pending is too early.
Disconnects(M) ==
  /\ conn' = [m \in Members |-> IF m \in M THEN "disconnected" ELSE conn[m]]
  /\ aged' = aged \ M

Overtaken(M) == [m \in Members |-> IF m \in M /\ timer[m] = "set" THEN "early" ELSE timer[m]]

\* Environment: no handler that is about to keep m's slot is overtaken.
Undisturbed(m) ==
  Prompt => \A s \in Sids : ~ (up[s] \in {"supersede", "keep"} /\ ctx[s] = m)
-----------------------------------------------------------------------------
(* Entering a room, and the game starting there.                           *)

\* POST participants: an entry, a return after the slot was given back, or a repetition.
Join(m) ==
  /\ m \notin entering
  /\ entering' = entering \cup {m}
  /\ IF Occupies(m)
     THEN UNCHANGED <<status, conn, aged, timer>>
     ELSE /\ status' = [status EXCEPT ![m] = IF m \in playing THEN "waiting" ELSE "active"]
          /\ Disconnects({m}) /\ timer' = Overtaken({m})
  /\ UNCHANGED <<playing, usersock, sock, marker, alive, conns, sweep, held, expiring>>

HoldEntry(m) ==
  /\ m \in entering /\ entering' = entering \ {m}
  /\ timer' = [timer EXCEPT ![m] = "set"]
  /\ UNCHANGED <<db, usersock, sock, marker, alive, conns, sweep, held, expiring>>

StartGame(m) ==
  /\ m \in Games \ playing /\ playing' = playing \cup {m}
  /\ UNCHANGED <<status, conn, aged, redis, alive, conns, procs>>
-----------------------------------------------------------------------------
(* connect.                                                                *)

\* A client opens a socket on a pod that runs; the handler starts.
Open(s, m) ==
  /\ phys[s] = "none" /\ home[s] \in alive
  /\ phys' = [phys EXCEPT ![s] = "open"]
  /\ ctx' = [ctx EXCEPT ![s] = m]
  /\ up' = [up EXCEPT ![s] = "claim"]
  /\ UNCHANGED <<db, redis, alive, home, moved, down, procs>>

\* CLAIM_SOCKET: the user's key moves to this socket.
ClaimSocket(s) == usersock' = s /\ sock' = [sock EXCEPT ![s] = ctx[s]]

\* Mutation: the previous socket always leaves its participant behind.
LeftBehind_Always(s) == IF usersock = NoSid THEN NoMember ELSE sock[usersock]
\* The participant the user's previous socket leaves behind in another room.
LeftBehind(s) ==
  IF usersock = NoSid \/ sock[usersock] = ctx[s] THEN NoMember ELSE sock[usersock]

Admitted(m) == Occupies(m) /\ m \notin playing

Connect(s) ==
  LET m == ctx[s]  left == {LeftBehind(s)} \ {NoMember}
  IN /\ up[s] = "claim" /\ Admitted(m)
     /\ \A n \in left : Undisturbed(n)
     /\ ClaimSocket(s)
     /\ conn' = [n \in Members |-> IF n = m THEN "connected"
                                   ELSE IF n \in left THEN "disconnected" ELSE conn[n]]
     /\ aged' = aged \ ({m} \cup left)
     /\ timer' = Overtaken(left)
     /\ moved' = [moved EXCEPT ![s] = <<usersock, LeftBehind(s)>>]
     /\ up' = [up EXCEPT ![s] = "supersede"]
     /\ UNCHANGED <<status, playing, marker, alive, phys, home, ctx, down, procs>>

\* Not a participant, or the game has started: refused without a trace.
RefuseConnect(s) ==
  /\ up[s] = "claim" /\ ~ Admitted(ctx[s])
  /\ up' = [up EXCEPT ![s] = "idle"] /\ phys' = [phys EXCEPT ![s] = "gone"]
  /\ UNCHANGED <<db, redis, alive, home, ctx, moved, down, procs>>

\* A second call of disconnect finds what the first left: nothing, if that one has released.
CallDisconnect(s) == down' = [down EXCEPT ![s] = IF @ = "idle" THEN "read" ELSE @]

\* An exception after CLAIM_SOCKET: the transaction rolls back, the claim does not, and the
\* handler runs disconnect before it refuses the socket.
FailConnect(s) ==
  /\ up[s] = "claim" /\ Admitted(ctx[s])
  /\ ClaimSocket(s)
  /\ up' = [up EXCEPT ![s] = "idle"] /\ phys' = [phys EXCEPT ![s] = "gone"]
  /\ CallDisconnect(s)
  /\ UNCHANGED <<db, marker, timer, alive, home, ctx, moved, procs>>

\* An exception after the commit: what is left of the follow-up never happens.
FailFollowUp(s) ==
  /\ ~ Prompt /\ up[s] \in {"supersede", "keep", "hold"}
  /\ up' = [up EXCEPT ![s] = "idle"] /\ moved' = [moved EXCEPT ![s] = Unmoved]
  /\ phys' = [phys EXCEPT ![s] = "gone"]
  /\ CallDisconnect(s)
  /\ UNCHANGED <<db, redis, alive, home, ctx, procs>>

\* server.disconnect of the previous socket: its pod runs the disconnect handler.
Supersede(s) ==
  LET old == moved[s][1]
  IN /\ up[s] = "supersede" /\ up' = [up EXCEPT ![s] = "keep"]
     /\ IF old # NoSid /\ phys[old] = "open"
        THEN /\ phys' = [phys EXCEPT ![old] = "gone"]
             /\ down' = [down EXCEPT ![old] = "read"]
        ELSE UNCHANGED <<phys, down>>
     /\ UNCHANGED <<db, redis, alive, home, ctx, moved, procs>>

KeepSlot(s) ==
  /\ up[s] = "keep"
  /\ timer' = [timer EXCEPT ![ctx[s]] = "none"]
  /\ IF moved[s][2] = NoMember
     THEN up' = [up EXCEPT ![s] = "idle"] /\ moved' = [moved EXCEPT ![s] = Unmoved]
     ELSE up' = [up EXCEPT ![s] = "hold"] /\ UNCHANGED moved
  /\ UNCHANGED <<db, usersock, sock, marker, alive, phys, home, ctx, down, procs>>

HoldLeftBehind(s) ==
  /\ up[s] = "hold" /\ up' = [up EXCEPT ![s] = "idle"]
  /\ timer' = [timer EXCEPT ![moved[s][2]] = "set"]
  /\ moved' = [moved EXCEPT ![s] = Unmoved]
  /\ UNCHANGED <<db, usersock, sock, marker, alive, phys, home, ctx, down, procs>>
-----------------------------------------------------------------------------
(* disconnect.                                                             *)

\* The client goes away, perhaps while connect still runs; the library calls the handler.
Drop(s) ==
  /\ phys[s] = "open"
  /\ phys' = [phys EXCEPT ![s] = "gone"] /\ down' = [down EXCEPT ![s] = "read"]
  /\ UNCHANGED <<db, redis, alive, home, ctx, up, moved, procs>>

ReadContext(s) ==
  /\ down[s] = "read"
  /\ down' = [down EXCEPT ![s] = IF sock[s] = NoMember THEN "idle" ELSE "release"]
  /\ UNCHANGED <<db, redis, alive, phys, home, ctx, up, moved, procs>>

\* RELEASE_SOCKET: a superseded socket no longer owns the user's key.
IsCurrent(s) == usersock = s

\* Mutation: the disconnection schedules nothing.
AfterRelease_Nothing == "idle"
AfterRelease == "hold"

Release(s) ==
  LET m == ctx[s]
  IN /\ down[s] = "release"
     /\ sock' = [sock EXCEPT ![s] = NoMember]
     /\ usersock' = IF usersock = s THEN NoSid ELSE usersock
     /\ IF IsCurrent(s)
        THEN /\ Undisturbed(m)
             /\ Disconnects({m}) /\ timer' = Overtaken({m})
             /\ down' = [down EXCEPT ![s] = AfterRelease]
        ELSE /\ down' = [down EXCEPT ![s] = "idle"]
             /\ UNCHANGED <<conn, aged, timer>>
     /\ UNCHANGED <<status, playing, marker, alive, phys, home, ctx, up, moved, procs>>

HoldSlot(s) ==
  /\ down[s] = "hold" /\ down' = [down EXCEPT ![s] = "idle"]
  /\ timer' = [timer EXCEPT ![ctx[s]] = "set"]
  /\ UNCHANGED <<db, usersock, sock, marker, alive, phys, home, ctx, up, moved, procs>>
-----------------------------------------------------------------------------
(* reconcile_connections, a loop in every pod.                             *)

FindStale(m) ==
  /\ Occupies(m) /\ conn[m] = "connected" /\ ~ SocketIsLive(m)
  /\ m \notin sweep /\ sweep' = sweep \cup {m}
  /\ UNCHANGED <<db, redis, alive, conns, entering, held, expiring>>

\* Mutation: the reconciler trusts what it read before it had the room lock.
StillStale_Unchecked(m) == conn[m] = "connected"
StillStale(m) == conn[m] = "connected" /\ ~ SocketIsLive(m)

Downgrade(m) ==
  /\ m \in sweep /\ sweep' = sweep \ {m}
  /\ IF StillStale(m)
     THEN /\ Undisturbed(m)
          /\ Disconnects({m}) /\ timer' = Overtaken({m})
          /\ held' = held \cup {m}
     ELSE UNCHANGED <<conn, aged, timer, held>>
  /\ UNCHANGED <<status, playing, usersock, sock, marker, alive, conns, entering, expiring>>

HoldStale(m) ==
  /\ m \in held /\ held' = held \ {m}
  /\ timer' = [timer EXCEPT ![m] = "set"]
  /\ UNCHANGED <<db, usersock, sock, marker, alive, conns, entering, sweep, expiring>>
-----------------------------------------------------------------------------
(* The grace timer.                                                        *)

GracePasses(m) ==
  /\ conn[m] = "disconnected" /\ m \notin aged
  /\ aged' = aged \cup {m}
  /\ UNCHANGED <<status, conn, playing, redis, alive, conns, procs>>

\* A timer set after disconnected_at is not due before the grace is over.
Due(m) == timer[m] = "early" \/ (timer[m] = "set" /\ (m \in aged \/ conn[m] = "connected"))

Claim(m) ==
  /\ Due(m)
  /\ timer' = [timer EXCEPT ![m] = "none"]
  /\ expiring' = expiring \cup {m}
  /\ UNCHANGED <<db, usersock, sock, marker, alive, conns, entering, sweep, held>>

\* Mutation: only who waits for the next game is given up.
GraceExpired_WaitingOnly(m) == conn[m] # "connected" /\ status[m] = "waiting"
GraceExpired(m) ==
  /\ conn[m] # "connected"
  /\ IF status[m] = "active" THEN m \in aged ELSE status[m] = "waiting"

Expire(m) ==
  /\ m \in expiring /\ expiring' = expiring \ {m}
  /\ IF GraceExpired(m)
     THEN /\ status' = [status EXCEPT ![m] = "left"]
          /\ conn' = [conn EXCEPT ![m] = "disconnected"]
     ELSE UNCHANGED <<status, conn>>
  /\ UNCHANGED <<playing, aged, redis, alive, conns, entering, sweep, held>>
-----------------------------------------------------------------------------
(* Pods and keys.                                                          *)

\* A pod dies without running any handler; its sockets are gone, its keys stay.
Die(p) ==
  LET mine == {s \in Sids : home[s] = p}
  IN /\ p \in Mortal \cap alive /\ alive' = alive \ {p}
     /\ phys' = [s \in Sids |-> IF s \in mine /\ phys[s] = "open" THEN "gone" ELSE phys[s]]
     /\ IF Prompt
        THEN /\ \A s \in mine : up[s] = "idle" /\ down[s] = "idle"
             /\ UNCHANGED <<up, moved, down, entering, sweep, held, expiring>>
        ELSE /\ up' = [s \in Sids |-> IF s \in mine THEN "idle" ELSE up[s]]
             /\ moved' = [s \in Sids |-> IF s \in mine THEN Unmoved ELSE moved[s]]
             /\ down' = [s \in Sids |-> IF s \in mine THEN "idle" ELSE down[s]]
             /\ entering' \in SUBSET entering
             /\ held' \in SUBSET held
             /\ expiring' \in SUBSET expiring
             /\ UNCHANGED sweep
     /\ UNCHANGED <<db, redis, home, ctx>>

\* pod:{id} lives on for its TTL only.
MarkerExpires(p) ==
  /\ p \in marker \ alive /\ marker' = marker \ {p}
  /\ UNCHANGED <<db, usersock, sock, timer, alive, conns, procs>>

\* The keys of a socket that nobody pings run out.
KeysExpire(s) ==
  /\ sock[s] # NoMember /\ phys[s] # "open"
  /\ sock' = [sock EXCEPT ![s] = NoMember]
  /\ usersock' = IF usersock = s THEN NoSid ELSE usersock
  /\ UNCHANGED <<db, marker, timer, alive, conns, procs>>
-----------------------------------------------------------------------------
Handle(s) ==
  \/ Connect(s) \/ RefuseConnect(s) \/ Supersede(s) \/ KeepSlot(s) \/ HoldLeftBehind(s)
  \/ ReadContext(s) \/ Release(s) \/ HoldSlot(s)

Reconcile(m) == FindStale(m) \/ Downgrade(m) \/ HoldStale(m)

Elapse == \/ \E m \in Members : GracePasses(m)
          \/ \E p \in Pods : MarkerExpires(p)
          \/ \E s \in Sids : KeysExpire(s)

Next ==
  \/ \E s \in Sids : Handle(s) \/ FailConnect(s) \/ FailFollowUp(s) \/ Drop(s) \/ \E m \in Members : Open(s, m)
  \/ \E m \in Members : Join(m) \/ HoldEntry(m) \/ StartGame(m) \/ Reconcile(m)
  \/ \E m \in Members : Claim(m) \/ Expire(m)
  \/ \E p \in Pods : Die(p)
  \/ Elapse

Spec == Init /\ [][Next]_vars

\* Handlers run on, the pods that run reconcile (30 s) and poll their timers (250 ms), time
\* passes and keys expire.  Nobody has to enter, connect, go away or die.
Fairness ==
  /\ \A s \in Sids : WF_vars(Handle(s))
  /\ \A m \in Members : /\ WF_vars(HoldEntry(m)) /\ WF_vars(Reconcile(m))
                         /\ WF_vars(Claim(m)) /\ WF_vars(Expire(m))
  /\ WF_vars(Elapse)

FairSpec == Spec /\ Fairness
-----------------------------------------------------------------------------
\* Every part keeps its shape; in particular what a connection leaves behind is never the
\* participant it is for, whose grace would start while it is connected.
TypeOK ==
  /\ status \in [Members -> {"active", "waiting", "left"}]
  /\ conn \in [Members -> {"connected", "disconnected"}]
  /\ playing \subseteq Members /\ aged \subseteq Members
  /\ usersock \in Sids \cup {NoSid}
  /\ sock \in [Sids -> Members \cup {NoMember}]
  /\ marker \subseteq Pods /\ alive \subseteq Pods
  /\ timer \in [Members -> {"none", "set", "early"}]
  /\ phys \in [Sids -> {"none", "open", "gone"}]
  /\ home \in [Sids -> Pods]
  /\ ctx \in [Sids -> Members \cup {NoMember}]
  /\ up \in [Sids -> {"idle", "claim", "supersede", "keep", "hold"}]
  /\ moved \in [Sids -> (Sids \cup {NoSid}) \X (Members \cup {NoMember})]
  /\ down \in [Sids -> {"idle", "read", "release", "hold"}]
  /\ entering \subseteq Members
  /\ sweep \subseteq Members /\ held \subseteq Members /\ expiring \subseteq Members
  /\ \A s \in Sids : moved[s][2] # NoMember => moved[s][2] # ctx[s]

\* A client holds a socket of participant m, and it is the one the user's key names.
Live(m) == usersock # NoSid /\ sock[usersock] = m /\ phys[usersock] = "open"

\* Who holds a live socket keeps the slot and is counted as connected: no late disconnect of
\* a superseded socket, no sweep of the reconciler and no old timer takes it away (D-6, G-09).
LiveIsSeated == \A m \in Members : Live(m) => conn[m] = "connected" /\ Occupies(m)

\* Somebody is about to schedule the timer of participant m.
HoldPending(m) ==
  \/ m \in entering
  \/ \E s \in Sids : \/ down[s] = "hold" /\ ctx[s] = m
                     \/ up[s] \in {"supersede", "keep", "hold"} /\ moved[s][2] = m
  \/ m \in held

\* A slot without a socket is on the clock: its timer is scheduled and will find the grace
\* expired, or is about to be, or was claimed and is about to give the slot back (D-6).
SlotIsTimed ==
  \A m \in Members : Occupies(m) /\ conn[m] = "disconnected" =>
    \/ timer[m] = "set" \/ (timer[m] = "early" /\ status[m] = "waiting")
    \/ HoldPending(m)
    \/ m \in expiring /\ GraceExpired(m)

\* A slot whose participant holds no socket returns to the room, or the participant does,
\* even when the socket's pod died without a word (D-6, G-09).
SlotsReturn ==
  \A m \in Members : Occupies(m) /\ ~ Live(m) ~> ~ Occupies(m) \/ Live(m)
-----------------------------------------------------------------------------
(* What makes LiveIsSeated and SlotIsTimed inductive; the proofs in        *)
(* Presence_proofs are about it.                                           *)

\* A socket that was never opened has no trace anywhere; one that was has its participant.
Unopened ==
  \A s \in Sids :
    IF phys[s] = "none"
    THEN up[s] = "idle" /\ down[s] = "idle" /\ moved[s] = Unmoved /\ usersock # s
    ELSE ctx[s] \in Members

\* An open socket is on a pod that runs, and a pod that runs says so; its disconnect handler
\* has not begun.
OpenIsServed ==
  /\ alive \subseteq marker
  /\ \A s \in Sids : phys[s] = "open" => home[s] \in alive /\ down[s] = "idle"

\* Until a connection has kept its participant's slot, nothing undoes what it committed.
KeepsItsSlot ==
  \A s \in Sids : up[s] \in {"supersede", "keep"} =>
    ctx[s] \in Members /\ conn[ctx[s]] = "connected" /\ Occupies(ctx[s])

IInv ==
  /\ TypeOK /\ Unopened /\ OpenIsServed /\ LiveIsSeated
  /\ Prompt => KeepsItsSlot /\ SlotIsTimed
=============================================================================
