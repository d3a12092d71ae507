---------------------------- MODULE Presence_proofs ----------------------------
(***************************************************************************)
(* Proofs about presence, for any number of rooms, sockets and pods: who   *)
(* holds a live socket is seated, whatever handlers, sweeps, timers and    *)
(* deaths of pods come between; and, when no handler is disturbed between  *)
(* its commit and its follow-up, a slot without a socket is on the clock.  *)
(***************************************************************************)
EXTENDS Presence, TLAPS

\* The constants that stand for nothing.
LEMMA Constants ==
  NoMember \notin Members /\ NoSid \notin Sids /\ Games \subseteq Members /\ Prompt \in BOOLEAN
  BY ConstantsAssumption

\* What every step sees of the sockets: enough for the types, for Unopened and OpenIsServed.
Sockets == TypeOK /\ Unopened /\ OpenIsServed

LEMMA DisconnectTypes ==
  ASSUME TypeOK, NEW M \in SUBSET Members, Disconnects(M), timer' = Overtaken(M)
  PROVE  /\ conn' \in [Members -> {"connected", "disconnected"}] /\ aged' \subseteq Members
         /\ timer' \in [Members -> {"none", "set", "early"}]
  BY DEF TypeOK, Disconnects, Overtaken

LEMMA InitSockets == Init => Sockets
  BY Constants DEF Init, Sockets, TypeOK, Unopened, OpenIsServed, Unmoved

-----------------------------------------------------------------------------
(* Types and sockets.                                                      *)

LEMMA JoinTypes == ASSUME Sockets, NEW m \in Members, Join(m) PROVE Sockets'
<1>1. CASE Occupies(m)
  BY <1>1 DEF Sockets, TypeOK, Unopened, OpenIsServed, Join, conns
<1>2. CASE ~ Occupies(m)
  <2>1. /\ conn' \in [Members -> {"connected", "disconnected"}] /\ aged' \subseteq Members
        /\ timer' \in [Members -> {"none", "set", "early"}]
    BY <1>2, DisconnectTypes DEF Join, Sockets
  <2>2. /\ status' \in [Members -> {"active", "waiting", "left"}]
        /\ entering' \subseteq Members
        /\ UNCHANGED <<playing, usersock, sock, marker, alive, phys, home, ctx, up, moved, down,
                      sweep, held, expiring>>
    BY <1>2 DEF Sockets, TypeOK, Join, conns
  <2>3. QED
    BY <2>1, <2>2 DEF Sockets, TypeOK, Unopened, OpenIsServed
<1>3. QED
  BY <1>1, <1>2

LEMMA MemberTypes ==
  ASSUME Sockets, NEW m \in Members,
         HoldEntry(m) \/ StartGame(m) \/ FindStale(m) \/ HoldStale(m) \/ Claim(m) \/ Expire(m) \/ GracePasses(m)
  PROVE  Sockets'
<1>1. CASE HoldEntry(m) \/ HoldStale(m) \/ Claim(m)
  BY <1>1 DEF Sockets, TypeOK, Unopened, OpenIsServed, HoldEntry, HoldStale, Claim, db, conns
<1>2. CASE StartGame(m) \/ FindStale(m)
  BY <1>2 DEF Sockets, TypeOK, Unopened, OpenIsServed, StartGame, FindStale, db, redis, conns, procs
<1>3. CASE Expire(m) \/ GracePasses(m)
  BY <1>3 DEF Sockets, TypeOK, Unopened, OpenIsServed, Expire, GracePasses, redis, conns, procs
<1>4. QED
  BY <1>1, <1>2, <1>3

LEMMA DowngradeTypes == ASSUME Sockets, NEW m \in Members, Downgrade(m) PROVE Sockets'
<1>1. /\ conn' \in [Members -> {"connected", "disconnected"}] /\ aged' \subseteq Members
      /\ timer' \in [Members -> {"none", "set", "early"}] /\ held' \subseteq Members
  BY DisconnectTypes DEF Downgrade, Sockets, TypeOK
<1>2. QED
  BY <1>1 DEF Sockets, TypeOK, Unopened, OpenIsServed, Downgrade, conns

LEMMA OpenTypes == ASSUME Sockets, NEW s \in Sids, NEW m \in Members, Open(s, m) PROVE Sockets'
<1>1. moved[s] = Unmoved /\ down[s] = "idle"
  BY DEF Open, Sockets, Unopened
<1>2. /\ phys' = [phys EXCEPT ![s] = "open"] /\ ctx' = [ctx EXCEPT ![s] = m]
      /\ up' = [up EXCEPT ![s] = "claim"] /\ home[s] \in alive /\ down[s] = "idle"
      /\ UNCHANGED <<status, conn, playing, aged, usersock, sock, marker, timer, alive, home, moved, down,
                    entering, sweep, held, expiring>>
  BY <1>1 DEF Open, db, redis, procs
<1>3. TypeOK'
  BY <1>1, <1>2 DEF Sockets, TypeOK, Unmoved
<1>4. Unopened' /\ OpenIsServed'
  BY <1>2 DEF Sockets, TypeOK, Unopened, OpenIsServed
<1>5. QED
  BY <1>3, <1>4 DEF Sockets

LEMMA ConnectTypes == ASSUME Sockets, NEW s \in Sids, Connect(s) PROVE Sockets'
<1> DEFINE left == {LeftBehind(s)} \ {NoMember}
<1>1. LeftBehind(s) \in Members \cup {NoMember} /\ (LeftBehind(s) # NoMember => LeftBehind(s) # ctx[s])
  BY DEF LeftBehind, Sockets, TypeOK
<1>2. /\ usersock' = s /\ sock' = [sock EXCEPT ![s] = ctx[s]]
      /\ conn' = [n \in Members |-> IF n = ctx[s] THEN "connected"
                                    ELSE IF n \in left THEN "disconnected" ELSE conn[n]]
      /\ aged' = aged \ ({ctx[s]} \cup left)
      /\ timer' = Overtaken(left)
      /\ moved' = [moved EXCEPT ![s] = <<usersock, LeftBehind(s)>>]
      /\ up' = [up EXCEPT ![s] = "supersede"] /\ up[s] = "claim"
      /\ UNCHANGED <<status, playing, marker, alive, phys, home, ctx, down, procs>>
  BY DEF Connect, ClaimSocket
<1> HIDE DEF left
<1>3. timer' \in [Members -> {"none", "set", "early"}]
  BY <1>2 DEF Overtaken, Sockets, TypeOK
<1>4. conn' \in [Members -> {"connected", "disconnected"}] /\ aged' \subseteq Members
  BY <1>2 DEF Sockets, TypeOK
<1>5. /\ moved' \in [Sids -> (Sids \cup {NoSid}) \X (Members \cup {NoMember})]
      /\ \A q \in Sids : moved'[q][2] # NoMember => moved'[q][2] # ctx[q]
  BY <1>1, <1>2 DEF Sockets, TypeOK
<1>6. TypeOK'
  BY <1>2, <1>3, <1>4, <1>5 DEF Sockets, TypeOK, procs
<1>7. Unopened' /\ OpenIsServed'
  BY <1>2 DEF Sockets, TypeOK, Unopened, OpenIsServed
<1>8. QED
  BY <1>6, <1>7 DEF Sockets

LEMMA RefusedTypes ==
  ASSUME Sockets, NEW s \in Sids, RefuseConnect(s) \/ FailConnect(s) \/ FailFollowUp(s)
  PROVE  Sockets'
<1>1. CASE RefuseConnect(s)
  BY <1>1 DEF Sockets, TypeOK, Unopened, OpenIsServed, RefuseConnect, db, redis, procs
<1>2. CASE FailConnect(s)
  BY <1>2 DEF Sockets, TypeOK, Unopened, OpenIsServed, FailConnect, ClaimSocket, CallDisconnect, db, procs
<1>3. CASE FailFollowUp(s)
  BY <1>3, Constants DEF Sockets, TypeOK, Unopened, OpenIsServed, FailFollowUp, CallDisconnect, Unmoved, db,
     redis, procs
<1>4. QED
  BY <1>1, <1>2, <1>3

LEMMA FollowUpTypes ==
  ASSUME Sockets, NEW s \in Sids, Supersede(s) \/ KeepSlot(s) \/ HoldLeftBehind(s)
  PROVE  Sockets'
<1>1. CASE Supersede(s)
  <2>1. /\ up' = [up EXCEPT ![s] = "keep"] /\ up[s] = "supersede"
        /\ phys' \in [Sids -> {"none", "open", "gone"}]
        /\ down' \in [Sids -> {"idle", "read", "release", "hold"}]
        /\ \A q \in Sids : \/ phys'[q] = phys[q] /\ down'[q] = down[q]
                           \/ phys[q] = "open" /\ phys'[q] = "gone"
        /\ UNCHANGED <<status, conn, playing, aged, usersock, sock, marker, timer, alive, home, ctx, moved,
                      entering, sweep, held, expiring>>
    <3> DEFINE old == moved[s][1]
    <3>1. old \in Sids \cup {NoSid}
      BY DEF Sockets, TypeOK
    <3> HIDE DEF old
    <3>2. /\ up' = [up EXCEPT ![s] = "keep"] /\ up[s] = "supersede"
          /\ \/ /\ old # NoSid /\ phys[old] = "open"
                /\ phys' = [phys EXCEPT ![old] = "gone"] /\ down' = [down EXCEPT ![old] = "read"]
             \/ UNCHANGED <<phys, down>>
          /\ UNCHANGED <<status, conn, playing, aged, usersock, sock, marker, timer, alive, home, ctx,
                        moved, entering, sweep, held, expiring>>
      BY <1>1 DEF Supersede, db, redis, procs, old
    <3>3. /\ phys \in [Sids -> {"none", "open", "gone"}]
          /\ down \in [Sids -> {"idle", "read", "release", "hold"}]
      BY DEF Sockets, TypeOK
    <3>4. CASE UNCHANGED <<phys, down>>
      BY <3>2, <3>3, <3>4
    <3>5. CASE /\ old # NoSid /\ phys[old] = "open"
               /\ phys' = [phys EXCEPT ![old] = "gone"] /\ down' = [down EXCEPT ![old] = "read"]
      <4>1. \A q \in Sids : phys'[q] = (IF q = old THEN "gone" ELSE phys[q])
                          /\ down'[q] = (IF q = old THEN "read" ELSE down[q])
        BY <3>3, <3>5
      <4>2. QED
        BY <3>1, <3>2, <3>3, <3>5, <4>1
    <3>6. QED
      BY <3>2, <3>4, <3>5
  <2>2. TypeOK'
    BY <2>1 DEF Sockets, TypeOK
  <2>3. Unopened' /\ OpenIsServed'
    BY <2>1 DEF Sockets, TypeOK, Unopened, OpenIsServed
  <2>4. QED
    BY <2>2, <2>3 DEF Sockets
<1>2. CASE KeepSlot(s) \/ HoldLeftBehind(s)
  <2>1. /\ up' \in [Sids -> {"idle", "claim", "supersede", "keep", "hold"}]
        /\ timer' \in [Members -> {"none", "set", "early"}]
        /\ moved' = moved \/ moved' = [moved EXCEPT ![s] = Unmoved]
        /\ \A q \in Sids \ {s} : up'[q] = up[q]
        /\ up[s] # "idle"
        /\ UNCHANGED <<status, conn, playing, aged, usersock, sock, marker, alive, phys, home, ctx, down,
                      entering, sweep, held, expiring>>
    BY <1>2 DEF Sockets, TypeOK, KeepSlot, HoldLeftBehind, db, procs
  <2>2. /\ moved' \in [Sids -> (Sids \cup {NoSid}) \X (Members \cup {NoMember})]
        /\ \A q \in Sids : moved'[q] = moved[q] \/ moved'[q] = Unmoved
        /\ \A q \in Sids : moved'[q][2] # NoMember => moved'[q][2] # ctx[q]
    <3>1. Unmoved \in (Sids \cup {NoSid}) \X (Members \cup {NoMember}) /\ Unmoved[2] = NoMember
      BY DEF Unmoved
    <3>2. CASE moved' = moved
      BY <3>2 DEF Sockets, TypeOK
    <3>3. CASE moved' = [moved EXCEPT ![s] = Unmoved]
      <4>1. \A q \in Sids : moved'[q] = IF q = s THEN Unmoved ELSE moved[q]
        BY <3>3 DEF Sockets, TypeOK
      <4>2. moved' \in [Sids -> (Sids \cup {NoSid}) \X (Members \cup {NoMember})]
        BY <3>1, <3>3 DEF Sockets, TypeOK
      <4>3. QED
        BY <3>1, <4>1, <4>2 DEF Sockets, TypeOK
    <3>4. QED
      BY <2>1, <3>2, <3>3
  <2>3. TypeOK'
    BY <2>1, <2>2 DEF Sockets, TypeOK
  <2>4. Unopened' /\ OpenIsServed'
    BY <2>1, <2>2 DEF Sockets, TypeOK, Unopened, OpenIsServed
  <2>5. QED
    BY <2>3, <2>4 DEF Sockets
<1>3. QED
  BY <1>1, <1>2

LEMMA DropTypes ==
  ASSUME Sockets, NEW s \in Sids, Drop(s) \/ ReadContext(s) \/ HoldSlot(s) \/ KeysExpire(s)
  PROVE  Sockets'
<1>1. CASE Drop(s) \/ ReadContext(s)
  <2>1. CASE Drop(s)
    BY <2>1 DEF Sockets, TypeOK, Unopened, OpenIsServed, Drop, db, redis, procs
  <2>2. CASE ReadContext(s)
    BY <2>2 DEF Sockets, TypeOK, Unopened, OpenIsServed, ReadContext, db, redis, procs
  <2>3. QED
    BY <1>1, <2>1, <2>2
<1>2. CASE HoldSlot(s)
  BY <1>2 DEF Sockets, TypeOK, Unopened, OpenIsServed, HoldSlot, db, procs
<1>3. CASE KeysExpire(s)
  BY <1>3, Constants DEF Sockets, TypeOK, Unopened, OpenIsServed, KeysExpire, db, conns, procs
<1>4. QED
  BY <1>1, <1>2, <1>3

LEMMA ReleaseTypes == ASSUME Sockets, NEW s \in Sids, Release(s) PROVE Sockets'
<1>1. /\ conn' \in [Members -> {"connected", "disconnected"}] /\ aged' \subseteq Members
      /\ timer' \in [Members -> {"none", "set", "early"}]
  BY DEF Release, Disconnects, Overtaken, Sockets, TypeOK
<1>2. QED
  BY <1>1, Constants DEF Sockets, TypeOK, Unopened, OpenIsServed, Release, AfterRelease, procs

LEMMA PodTypes == ASSUME Sockets, NEW p \in Pods, Die(p) \/ MarkerExpires(p) PROVE Sockets'
<1>1. CASE Die(p)
  <2>1. CASE Prompt
    BY <1>1, <2>1 DEF Sockets, TypeOK, Unopened, OpenIsServed, Die, db, redis
  <2>2. CASE ~ Prompt
    BY <1>1, <2>2, Constants DEF Sockets, TypeOK, Unopened, OpenIsServed, Die, Unmoved, db, redis
  <2>3. QED
    BY <2>1, <2>2
<1>2. CASE MarkerExpires(p)
  BY <1>2 DEF Sockets, TypeOK, Unopened, OpenIsServed, MarkerExpires, db, conns, procs
<1>3. QED
  BY <1>1, <1>2

LEMMA NextSockets == Sockets /\ [Next]_vars => Sockets'
<1> SUFFICES ASSUME Sockets, [Next]_vars PROVE Sockets'
  OBVIOUS
<1>1. CASE Next
  BY <1>1, JoinTypes, MemberTypes, DowngradeTypes, OpenTypes, ConnectTypes, RefusedTypes, FollowUpTypes,
     DropTypes, ReleaseTypes, PodTypes DEF Next, Handle, Reconcile, Elapse
<1>2. CASE UNCHANGED vars
  BY <1>2 DEF Sockets, TypeOK, Unopened, OpenIsServed, vars, db, redis, conns, procs
<1>3. QED
  BY <1>1, <1>2

\* Every part keeps its shape; a connection never leaves behind the participant it is for.
THEOREM Types == Spec => []TypeOK
<1>1. Init => Sockets
  BY InitSockets
<1>2. Sockets => TypeOK
  BY DEF Sockets
<1>3. QED
  BY <1>1, <1>2, NextSockets, PTL DEF Spec
-----------------------------------------------------------------------------
(* Who holds a live socket is seated.                                      *)

\* The new socket is the user's, and its participant was admitted and is connected.
LEMMA ConnectSeats == ASSUME Sockets, NEW s \in Sids, Connect(s) PROVE LiveIsSeated'
<1>1. /\ usersock' = s /\ sock' = [sock EXCEPT ![s] = ctx[s]] /\ UNCHANGED status
      /\ \A n \in Members : n = ctx[s] => conn'[n] = "connected"
      /\ Occupies(ctx[s])
  BY DEF Connect, ClaimSocket, Admitted
<1>2. sock'[s] = ctx[s]
  BY <1>1 DEF Sockets, TypeOK
<1>3. QED
  BY <1>1, <1>2 DEF LiveIsSeated, Live, Occupies

\* A socket that is released was the user's, and then nobody's is live, or it changes nothing.
LEMMA ReleaseSeats == ASSUME Sockets, LiveIsSeated, NEW s \in Sids, Release(s) PROVE LiveIsSeated'
<1>1. CASE usersock = s
  <2>1. usersock' = NoSid
    BY <1>1 DEF Release
  <2>2. QED
    BY <2>1 DEF LiveIsSeated, Live
<1>2. CASE usersock # s
  <2>1. usersock' = usersock /\ sock' = [sock EXCEPT ![s] = NoMember] /\ UNCHANGED <<status, conn, phys>>
    BY <1>2 DEF Release, IsCurrent
  <2>2. \A m \in Members : Live(m)' => Live(m)
    BY <1>2, <2>1 DEF Live, Sockets, TypeOK
  <2>3. QED
    BY <2>1, <2>2 DEF LiveIsSeated, Occupies
<1>3. QED
  BY <1>1, <1>2

\* Whose socket is live is not stale: the pod of an open socket runs, so its marker is there.
LEMMA DowngradeSeats ==
  ASSUME Sockets, LiveIsSeated, NEW m \in Members, Downgrade(m)
  PROVE  LiveIsSeated'
<1>1. UNCHANGED <<status, usersock, sock, phys>>
  BY DEF Downgrade, conns
<1>2. \A n \in Members : Live(n)' => Live(n) /\ (conn'[n] = conn[n] \/ (n = m /\ StillStale(m)))
  BY <1>1 DEF Live, Downgrade, Disconnects
<1>3. Live(m) => SocketIsLive(m)
  BY DEF Live, SocketIsLive, Sockets, OpenIsServed, TypeOK
<1>4. QED
  BY <1>1, <1>2, <1>3 DEF LiveIsSeated, Occupies, StillStale

LEMMA JoinSeats == ASSUME Sockets, LiveIsSeated, NEW m \in Members, Join(m) PROVE LiveIsSeated'
<1>1. UNCHANGED <<usersock, sock, phys>>
  BY DEF Join, conns
<1>2. \A n \in Members : Live(n)' <=> Live(n)
  BY <1>1 DEF Live
<1>3. CASE Occupies(m)
  BY <1>2, <1>3 DEF Join, LiveIsSeated, Occupies
<1>4. CASE ~ Occupies(m)
  <2>1. \A n \in Members \ {m} : conn'[n] = conn[n] /\ status'[n] = status[n]
    <3>1. /\ \A n \in Members : conn'[n] = IF n \in {m} THEN "disconnected" ELSE conn[n]
          /\ \E v : status' = [status EXCEPT ![m] = v]
      BY <1>4 DEF Join, Disconnects
    <3>2. QED
      BY <3>1 DEF Sockets, TypeOK
  <2>2. ~ Live(m)
    BY <1>4 DEF LiveIsSeated
  <2>3. QED
    BY <1>2, <2>1, <2>2 DEF LiveIsSeated, Occupies
<1>5. QED
  BY <1>3, <1>4

\* The timer gives up nobody who is connected.
LEMMA ExpireSeats == ASSUME Sockets, LiveIsSeated, NEW m \in Members, Expire(m) PROVE LiveIsSeated'
<1>1. UNCHANGED <<usersock, sock, phys>>
  BY DEF Expire, redis, conns
<1>2. \A n \in Members : Live(n)' <=> Live(n)
  BY <1>1 DEF Live
<1>3. CASE ~ GraceExpired(m)
  BY <1>2, <1>3 DEF Expire, LiveIsSeated, Occupies
<1>4. CASE GraceExpired(m)
  <2>1. \A n \in Members \ {m} : conn'[n] = conn[n] /\ status'[n] = status[n]
    BY <1>4 DEF Expire, Sockets, TypeOK
  <2>2. ~ Live(m)
    BY <1>4 DEF LiveIsSeated, GraceExpired
  <2>3. QED
    BY <1>2, <2>1, <2>2 DEF LiveIsSeated, Occupies
<1>5. QED
  BY <1>3, <1>4

\* The other steps change no seat and make no socket live.
LEMMA OthersSeat ==
  ASSUME Sockets, LiveIsSeated, UNCHANGED <<status, conn>>, \A m \in Members : Live(m)' => Live(m)
  PROVE  LiveIsSeated'
  BY DEF LiveIsSeated, Occupies

LEMMA MemberSeats ==
  ASSUME Sockets, LiveIsSeated, NEW m \in Members,
         HoldEntry(m) \/ StartGame(m) \/ FindStale(m) \/ HoldStale(m) \/ Claim(m) \/ GracePasses(m)
  PROVE  LiveIsSeated'
<1>1. UNCHANGED <<status, conn, usersock, sock, phys>>
  BY DEF HoldEntry, StartGame, FindStale, HoldStale, Claim, GracePasses, db, redis, conns
<1>2. QED
  BY <1>1, OthersSeat DEF Live

LEMMA SocketSeats ==
  ASSUME Sockets, LiveIsSeated, NEW s \in Sids,
         \/ \E m \in Members : Open(s, m)
         \/ RefuseConnect(s) \/ FailConnect(s) \/ FailFollowUp(s) \/ Supersede(s) \/ KeepSlot(s)
         \/ HoldLeftBehind(s) \/ Drop(s) \/ ReadContext(s) \/ HoldSlot(s) \/ KeysExpire(s)
  PROVE  LiveIsSeated'
<1>1. UNCHANGED <<status, conn>>
  BY DEF Open, RefuseConnect, FailConnect, FailFollowUp, Supersede, KeepSlot, HoldLeftBehind, Drop,
     ReadContext, HoldSlot, KeysExpire, db
<1>2. CASE \E m \in Members : Open(s, m)
  <2>1. /\ usersock # s /\ UNCHANGED <<usersock, sock>>
        /\ phys' = [phys EXCEPT ![s] = "open"]
    BY <1>2 DEF Open, Sockets, Unopened, redis
  <2>2. \A m \in Members : Live(m)' => Live(m)
    BY <2>1 DEF Live, Sockets, TypeOK
  <2>3. QED
    BY <1>1, <2>2, OthersSeat
<1>3. CASE FailConnect(s)
  <2>1. usersock' = s /\ phys'[s] = "gone"
    BY <1>3 DEF FailConnect, ClaimSocket, Sockets, TypeOK
  <2>2. QED
    BY <2>1 DEF LiveIsSeated, Live
<1>4. CASE \/ RefuseConnect(s) \/ FailFollowUp(s) \/ Supersede(s) \/ KeepSlot(s)
           \/ HoldLeftBehind(s) \/ Drop(s) \/ ReadContext(s) \/ HoldSlot(s)
  <2>1. UNCHANGED <<usersock, sock>> /\ \A q \in Sids : phys'[q] = "open" => phys[q] = "open"
    BY <1>4 DEF RefuseConnect, FailFollowUp, Supersede, KeepSlot, HoldLeftBehind, Drop,
       ReadContext, HoldSlot, redis, Sockets, TypeOK
  <2>2. usersock # NoSid => usersock \in Sids
    BY DEF Sockets, TypeOK
  <2>3. \A m \in Members : Live(m)' => Live(m)
    BY <2>1, <2>2 DEF Live
  <2>4. QED
    BY <1>1, <2>3, OthersSeat
<1>5. CASE KeysExpire(s)
  <2>1. \A m \in Members : Live(m)' => Live(m)
    BY <1>5, Constants DEF KeysExpire, Live, Sockets, TypeOK, conns
  <2>2. QED
    BY <1>1, <2>1, OthersSeat
<1>6. QED
  BY <1>2, <1>3, <1>4, <1>5

LEMMA PodSeats ==
  ASSUME Sockets, LiveIsSeated, NEW p \in Pods, Die(p) \/ MarkerExpires(p)
  PROVE  LiveIsSeated'
<1>1. /\ UNCHANGED <<status, conn, usersock, sock>>
      /\ \A q \in Sids : phys'[q] = "open" => phys[q] = "open"
  BY DEF Die, MarkerExpires, db, redis, conns
<1>2. usersock # NoSid => usersock \in Sids
  BY DEF Sockets, TypeOK
<1>3. \A m \in Members : Live(m)' => Live(m)
  BY <1>1, <1>2 DEF Live
<1>4. QED
  BY <1>1, <1>3, OthersSeat

LEMMA NextSeats == Sockets /\ LiveIsSeated /\ [Next]_vars => LiveIsSeated'
<1> SUFFICES ASSUME Sockets, LiveIsSeated, [Next]_vars PROVE LiveIsSeated'
  OBVIOUS
<1>1. CASE Next
  BY <1>1, ConnectSeats, ReleaseSeats, DowngradeSeats, JoinSeats, ExpireSeats, MemberSeats, SocketSeats,
     PodSeats DEF Next, Handle, Reconcile, Elapse
<1>2. CASE UNCHANGED vars
  BY <1>2, OthersSeat DEF vars, db, redis, conns, Live
<1>3. QED
  BY <1>1, <1>2

\* Who holds a live socket keeps the slot and counts as connected, whatever late disconnects,
\* sweeps, old timers, failed handlers and dying pods do.
THEOREM LiveAreSeated == Spec => []LiveIsSeated
<1>1. Init => Sockets /\ LiveIsSeated
  BY InitSockets DEF Init, LiveIsSeated, Live
<1>2. QED
  BY <1>1, NextSockets, NextSeats, PTL DEF Spec
-----------------------------------------------------------------------------
(* A slot without a socket is on the clock.                                *)

\* Something will ask whether the grace of m has passed, or has asked and found that it has.
OnTheClock(m) ==
  \/ timer[m] = "set" \/ (timer[m] = "early" /\ status[m] = "waiting")
  \/ HoldPending(m)
  \/ m \in expiring /\ GraceExpired(m)

\* An environment that disturbs no handler between its commit and its follow-up.
Orderly == Prompt /\ Sockets /\ KeepsItsSlot /\ SlotIsTimed

LEMMA TimedIsClocked ==
  SlotIsTimed <=> \A m \in Members : Occupies(m) /\ conn[m] = "disconnected" => OnTheClock(m)
  BY DEF SlotIsTimed, OnTheClock

LEMMA ClockedIsTimed ==
  ASSUME \A m \in Members : (Occupies(m) /\ conn[m] = "disconnected" => OnTheClock(m))'
  PROVE  SlotIsTimed'
  BY DEF SlotIsTimed, OnTheClock

\* What keeps a member's slot on the clock, when its own row, timer and grace stay.
LEMMA ClockStays ==
  ASSUME Orderly, NEW m \in Members,
         status'[m] = status[m], conn'[m] = conn[m],
         timer'[m] = timer[m] \/ timer'[m] = "set",
         m \in aged => m \in aged',
         HoldPending(m) => HoldPending(m)' \/ timer'[m] = "set",
         m \in expiring => m \in expiring'
  PROVE  (Occupies(m) /\ conn[m] = "disconnected" => OnTheClock(m))'
<1>1. Occupies(m) /\ conn[m] = "disconnected" => OnTheClock(m)
  BY TimedIsClocked DEF Orderly
<1>2. QED
  BY <1>1 DEF Occupies, OnTheClock, GraceExpired

\* A connection keeps its slot through every step that undoes nobody's seat and starts no
\* other connection.
LEMMA KeepStays ==
  ASSUME Orderly,
         \A s \in Sids : up'[s] \in {"supersede", "keep"} =>
           /\ up[s] \in {"supersede", "keep"} /\ ctx'[s] = ctx[s]
           /\ conn'[ctx[s]] = conn[ctx[s]]
           /\ Occupies(ctx[s]) => Occupies(ctx[s])'
  PROVE  KeepsItsSlot'
  BY DEF Orderly, KeepsItsSlot, Occupies

\* A commit that takes m from its socket finds no connection about to keep m's slot.
LEMMA UndisturbedFacts ==
  ASSUME Orderly, NEW m \in Members, Undisturbed(m), NEW s \in Sids, up[s] \in {"supersede", "keep"}
  PROVE  ctx[s] # m
  BY DEF Undisturbed, Orderly

LEMMA JoinTimes ==
  ASSUME Orderly, NEW m \in Members, Join(m)
  PROVE  KeepsItsSlot' /\ SlotIsTimed'
<1>1. /\ entering' = entering \cup {m}
      /\ UNCHANGED <<phys, home, ctx, up, moved, down, sweep, held, expiring>>
  BY DEF Join, conns
<1>2. ASSUME NEW n \in Members
      PROVE  (HoldPending(n) => HoldPending(n)') /\ HoldPending(m)'
  BY <1>1 DEF HoldPending
<1>3. CASE Occupies(m)
  <2>1. UNCHANGED <<status, conn, aged, timer>>
    BY <1>3 DEF Join
  <2>2. KeepsItsSlot'
    BY <1>1, <2>1, KeepStays DEF Occupies
  <2>3. \A n \in Members : (Occupies(n) /\ conn[n] = "disconnected" => OnTheClock(n))'
    BY <1>1, <1>2, <2>1, ClockStays
  <2>4. QED
    BY <2>2, <2>3, ClockedIsTimed
<1>4. CASE ~ Occupies(m)
  <2>1. /\ \A n \in Members \ {m} : conn'[n] = conn[n] /\ status'[n] = status[n] /\ timer'[n] = timer[n]
        /\ aged' = aged \ {m}
    <3>1. /\ \A n \in Members : conn'[n] = IF n \in {m} THEN "disconnected" ELSE conn[n]
          /\ \E v : status' = [status EXCEPT ![m] = v]
          /\ \A n \in Members : timer'[n] = IF n \in {m} /\ timer[n] = "set" THEN "early" ELSE timer[n]
          /\ aged' = aged \ {m}
      BY <1>4 DEF Join, Disconnects, Overtaken
    <3>2. QED
      BY <3>1 DEF Orderly, Sockets, TypeOK
  <2>2. \A s \in Sids : up[s] \in {"supersede", "keep"} => ctx[s] \in Members \ {m}
    BY <1>4 DEF Orderly, KeepsItsSlot
  <2>3. KeepsItsSlot'
    BY <1>1, <2>1, <2>2, KeepStays DEF Occupies
  <2>4. \A n \in Members \ {m} : (Occupies(n) /\ conn[n] = "disconnected" => OnTheClock(n))'
    BY <1>1, <1>2, <2>1, ClockStays
  <2>5. OnTheClock(m)'
    BY <1>2 DEF OnTheClock
  <2>6. QED
    BY <2>3, <2>4, <2>5, ClockedIsTimed
<1>5. QED
  BY <1>3, <1>4

LEMMA HoldTimes ==
  ASSUME Orderly, NEW m \in Members, HoldEntry(m) \/ HoldStale(m)
  PROVE  KeepsItsSlot' /\ SlotIsTimed'
<1>1. /\ timer' = [timer EXCEPT ![m] = "set"]
      /\ entering \subseteq entering' \cup {m} /\ held \subseteq held' \cup {m}
      /\ UNCHANGED <<status, conn, aged, ctx, up, moved, down, expiring>>
  BY DEF HoldEntry, HoldStale, db, conns
<1>2. \A n \in Members : timer'[n] = IF n = m THEN "set" ELSE timer[n]
  BY <1>1 DEF Orderly, Sockets, TypeOK
<1>3. \A n \in Members : HoldPending(n) => HoldPending(n)' \/ n = m
  BY <1>1 DEF HoldPending
<1>4. \A n \in Members : (Occupies(n) /\ conn[n] = "disconnected" => OnTheClock(n))'
  BY <1>1, <1>2, <1>3, ClockStays
<1>5. KeepsItsSlot'
  BY <1>1, KeepStays DEF Occupies
<1>6. QED
  BY <1>4, <1>5, ClockedIsTimed

\* The other steps about members: nothing is taken from the clock.
LEMMA MemberTimes ==
  ASSUME Orderly, NEW m \in Members, StartGame(m) \/ FindStale(m) \/ GracePasses(m)
  PROVE  KeepsItsSlot' /\ SlotIsTimed'
<1>1. /\ UNCHANGED <<status, conn, timer, ctx, up, moved, down, entering, held, expiring>>
      /\ aged \subseteq aged'
  BY DEF StartGame, FindStale, GracePasses, db, redis, conns, procs
<1>2. \A n \in Members : HoldPending(n) => HoldPending(n)'
  BY <1>1 DEF HoldPending
<1>3. \A n \in Members : (Occupies(n) /\ conn[n] = "disconnected" => OnTheClock(n))'
  BY <1>1, <1>2, ClockStays
<1>4. KeepsItsSlot'
  BY <1>1, KeepStays DEF Occupies
<1>5. QED
  BY <1>3, <1>4, ClockedIsTimed

\* A claimed timer that is due finds the grace expired, unless its member is connected or the
\* slot is on the clock for another reason.
LEMMA ClaimTimes ==
  ASSUME Orderly, NEW m \in Members, Claim(m)
  PROVE  KeepsItsSlot' /\ SlotIsTimed'
<1>1. /\ timer' = [timer EXCEPT ![m] = "none"] /\ expiring' = expiring \cup {m} /\ Due(m)
      /\ UNCHANGED <<status, conn, aged, ctx, up, moved, down, entering, held>>
  BY DEF Claim, db, conns
<1>2. \A n \in Members \ {m} : timer'[n] = timer[n]
  BY <1>1 DEF Orderly, Sockets, TypeOK
<1>3. \A n \in Members : HoldPending(n) => HoldPending(n)'
  BY <1>1 DEF HoldPending
<1>4. \A n \in Members \ {m} : (Occupies(n) /\ conn[n] = "disconnected" => OnTheClock(n))'
  BY <1>1, <1>2, <1>3, ClockStays
<1>5. ASSUME Occupies(m), conn[m] = "disconnected"
      PROVE  OnTheClock(m)'
  <2>1. OnTheClock(m)
    BY <1>5, TimedIsClocked DEF Orderly
  <2>2. CASE HoldPending(m)
    BY <2>2, <1>3 DEF OnTheClock
  <2>3. CASE m \in expiring /\ GraceExpired(m)
    BY <2>3, <1>1 DEF OnTheClock, GraceExpired
  <2>4. CASE timer[m] = "set" \/ (timer[m] = "early" /\ status[m] = "waiting")
    <3>1. status[m] \in {"active", "waiting"}
      BY <1>5 DEF Occupies, Orderly, Sockets, TypeOK
    <3>2. GraceExpired(m)'
      BY <1>1, <1>5, <2>4, <3>1 DEF GraceExpired, Due
    <3>3. QED
      BY <1>1, <3>2 DEF OnTheClock
  <2>5. QED
    BY <2>1, <2>2, <2>3, <2>4 DEF OnTheClock
<1>6. KeepsItsSlot'
  BY <1>1, KeepStays DEF Occupies
<1>7. QED
  BY <1>1, <1>4, <1>5, <1>6, ClockedIsTimed DEF Occupies

LEMMA ExpireTimes ==
  ASSUME Orderly, NEW m \in Members, Expire(m)
  PROVE  KeepsItsSlot' /\ SlotIsTimed'
<1>1. /\ expiring' = expiring \ {m}
      /\ UNCHANGED <<aged, timer, ctx, up, moved, down, entering, held>>
      /\ IF GraceExpired(m)
         THEN /\ status' = [status EXCEPT ![m] = "left"] /\ conn' = [conn EXCEPT ![m] = "disconnected"]
         ELSE UNCHANGED <<status, conn>>
  BY DEF Expire, redis, conns
<1>2. \A n \in Members \ {m} : status'[n] = status[n] /\ conn'[n] = conn[n]
  BY <1>1 DEF Orderly, Sockets, TypeOK
<1>3. \A n \in Members : HoldPending(n) => HoldPending(n)'
  BY <1>1 DEF HoldPending
<1>4. \A n \in Members \ {m} : (Occupies(n) /\ conn[n] = "disconnected" => OnTheClock(n))'
  BY <1>1, <1>2, <1>3, ClockStays
<1>5. CASE GraceExpired(m)
  <2>1. ~ Occupies(m)'
    BY <1>1, <1>5 DEF Occupies, Orderly, Sockets, TypeOK
  <2>2. \A s \in Sids : up[s] \in {"supersede", "keep"} => ctx[s] \in Members \ {m}
    BY <1>5 DEF Orderly, KeepsItsSlot, GraceExpired
  <2>3. KeepsItsSlot'
    BY <1>1, <1>2, <2>2, KeepStays DEF Occupies
  <2>4. QED
    BY <1>4, <2>1, <2>3, ClockedIsTimed
<1>6. CASE ~ GraceExpired(m)
  <2>1. ASSUME Occupies(m), conn[m] = "disconnected"
        PROVE  OnTheClock(m)'
    <3>1. OnTheClock(m)
      BY <2>1, TimedIsClocked DEF Orderly
    <3>2. QED
      BY <3>1, <1>1, <1>3, <1>6 DEF OnTheClock
  <2>2. KeepsItsSlot'
    BY <1>1, <1>6, KeepStays DEF Occupies
  <2>3. QED
    BY <1>1, <1>4, <1>6, <2>1, <2>2, ClockedIsTimed DEF Occupies
<1>7. QED
  BY <1>5, <1>6

\* A connection puts whom it leaves behind on the clock itself, and keeps its own.
LEMMA ConnectTimes ==
  ASSUME Orderly, NEW s \in Sids, Connect(s)
  PROVE  KeepsItsSlot' /\ SlotIsTimed'
<1> DEFINE m    == ctx[s]
           left == {LeftBehind(s)} \ {NoMember}
<1>1. /\ up[s] = "claim" /\ Occupies(m) /\ \A n \in left : Undisturbed(n)
      /\ conn' = [n \in Members |-> IF n = m THEN "connected"
                                    ELSE IF n \in left THEN "disconnected" ELSE conn[n]]
      /\ aged' = aged \ ({m} \cup left)
      /\ timer' = [n \in Members |-> IF n \in left /\ timer[n] = "set" THEN "early" ELSE timer[n]]
      /\ moved' = [moved EXCEPT ![s] = <<usersock, LeftBehind(s)>>]
      /\ up' = [up EXCEPT ![s] = "supersede"]
      /\ UNCHANGED <<status, ctx, down, entering, held, expiring>>
  BY DEF Connect, Admitted, Overtaken, procs
<1>2. m \in Members
  BY <1>1 DEF Occupies, Orderly, Sockets, TypeOK, Unopened
<1>3. /\ \A q \in Sids \ {s} : up'[q] = up[q] /\ moved'[q] = moved[q]
      /\ up'[s] = "supersede" /\ moved'[s][2] = LeftBehind(s)
  BY <1>1 DEF Orderly, Sockets, TypeOK
<1>4. LeftBehind(s) # NoMember => LeftBehind(s) # m
  BY DEF LeftBehind
<1>5. \A n \in Members : HoldPending(n) => HoldPending(n)'
  BY <1>1, <1>3 DEF HoldPending
<1>6. \A n \in left : HoldPending(n)'
  BY <1>1, <1>3 DEF HoldPending
<1> HIDE DEF m, left
<1>7. \A n \in Members \ ({m} \cup left) : (Occupies(n) /\ conn[n] = "disconnected" => OnTheClock(n))'
  <2> SUFFICES ASSUME NEW n \in Members \ ({m} \cup left)
               PROVE  (Occupies(n) /\ conn[n] = "disconnected" => OnTheClock(n))'
    OBVIOUS
  <2>1. status'[n] = status[n] /\ conn'[n] = conn[n] /\ timer'[n] = timer[n] /\ (n \in aged => n \in aged')
    BY <1>1
  <2>2. QED
    BY <1>1, <1>5, <2>1, ClockStays
<1>8. conn'[m] = "connected"
  BY <1>1, <1>2
<1>9. SlotIsTimed'
  <2>1. \A n \in left : OnTheClock(n)'
    BY <1>6 DEF OnTheClock
  <2>2. QED
    BY <1>7, <1>8, <2>1, ClockedIsTimed
<1>10. KeepsItsSlot'
  <2> SUFFICES ASSUME NEW q \in Sids, up'[q] \in {"supersede", "keep"}
               PROVE  ctx[q] \in Members /\ conn'[ctx[q]] = "connected" /\ Occupies(ctx[q])
    BY <1>1 DEF KeepsItsSlot, Occupies
  <2>1. CASE q = s
    BY <2>1, <1>1, <1>2, <1>8 DEF m
  <2>2. CASE q # s
    <3>1. up[q] \in {"supersede", "keep"}
      BY <2>2, <1>3
    <3>2. ctx[q] \in Members /\ conn[ctx[q]] = "connected" /\ Occupies(ctx[q])
      BY <3>1 DEF Orderly, KeepsItsSlot
    <3>3. \A n \in left \cap Members : ctx[q] # n
      BY <1>1, <3>1, UndisturbedFacts
    <3>4. QED
      BY <1>1, <3>2, <3>3
  <2>3. QED
    BY <2>1, <2>2
<1>11. QED
  BY <1>9, <1>10

\* Keeping a slot takes its timer away while its participant is connected.
LEMMA KeepTimes ==
  ASSUME Orderly, NEW s \in Sids, KeepSlot(s)
  PROVE  KeepsItsSlot' /\ SlotIsTimed'
<1>1. /\ up[s] = "keep" /\ timer' = [timer EXCEPT ![ctx[s]] = "none"]
      /\ IF moved[s][2] = NoMember
         THEN up' = [up EXCEPT ![s] = "idle"] /\ moved' = [moved EXCEPT ![s] = Unmoved]
         ELSE up' = [up EXCEPT ![s] = "hold"] /\ UNCHANGED moved
      /\ UNCHANGED <<status, conn, aged, ctx, down, entering, held, expiring>>
  BY DEF KeepSlot, db, procs
<1>2. ctx[s] \in Members /\ conn[ctx[s]] = "connected"
  BY <1>1 DEF Orderly, KeepsItsSlot
<1>3. \A n \in Members : n = ctx[s] \/ timer'[n] = timer[n]
  BY <1>1 DEF Orderly, Sockets, TypeOK
<1>4. /\ up'[s] \in {"idle", "hold"} /\ (moved[s][2] # NoMember => up'[s] = "hold" /\ moved' = moved)
      /\ \A q \in Sids \ {s} : up'[q] = up[q] /\ moved'[q] = moved[q]
  BY <1>1 DEF Orderly, Sockets, TypeOK
<1>5. \A n \in Members : HoldPending(n) => HoldPending(n)'
  BY <1>1, <1>4, Constants DEF HoldPending
<1>6. \A n \in Members \ {ctx[s]} : (Occupies(n) /\ conn[n] = "disconnected" => OnTheClock(n))'
  BY <1>1, <1>3, <1>5, ClockStays
<1>7. SlotIsTimed'
  BY <1>1, <1>2, <1>6, ClockedIsTimed
<1>8. KeepsItsSlot'
  BY <1>1, <1>4, KeepStays DEF Occupies
<1>9. QED
  BY <1>7, <1>8

LEMMA SupersedeTimes ==
  ASSUME Orderly, NEW s \in Sids, Supersede(s)
  PROVE  KeepsItsSlot' /\ SlotIsTimed'
<1> DEFINE old == moved[s][1]
<1>1. /\ up[s] = "supersede" /\ up' = [up EXCEPT ![s] = "keep"]
      /\ \/ old # NoSid /\ phys[old] = "open" /\ down' = [down EXCEPT ![old] = "read"]
         \/ UNCHANGED down
      /\ UNCHANGED <<status, conn, aged, timer, ctx, moved, entering, held, expiring>>
  BY DEF Supersede, db, redis, procs
<1>2. old \in Sids \cup {NoSid}
  BY DEF Orderly, Sockets, TypeOK
<1> HIDE DEF old
<1>3. \A q \in Sids : down[q] = "hold" => down'[q] = "hold"
  BY <1>1, <1>2 DEF Orderly, Sockets, TypeOK, OpenIsServed
<1>4. /\ up'[s] = "keep" /\ \A q \in Sids \ {s} : up'[q] = up[q]
  BY <1>1 DEF Orderly, Sockets, TypeOK
<1>5. \A n \in Members : HoldPending(n) => HoldPending(n)'
  BY <1>1, <1>3, <1>4 DEF HoldPending
<1>6. \A n \in Members : (Occupies(n) /\ conn[n] = "disconnected" => OnTheClock(n))'
  BY <1>1, <1>5, ClockStays
<1>7. KeepsItsSlot'
  BY <1>1, <1>4, KeepStays DEF Occupies
<1>8. QED
  BY <1>6, <1>7, ClockedIsTimed

\* A hold that is made sets the timer it was pending for.
LEMMA SetTimes ==
  ASSUME Orderly, NEW s \in Sids, HoldLeftBehind(s) \/ HoldSlot(s)
  PROVE  KeepsItsSlot' /\ SlotIsTimed'
<1>1. CASE HoldLeftBehind(s)
  <2>1. /\ up[s] = "hold" /\ up' = [up EXCEPT ![s] = "idle"]
        /\ timer' = [timer EXCEPT ![moved[s][2]] = "set"] /\ moved' = [moved EXCEPT ![s] = Unmoved]
        /\ UNCHANGED <<status, conn, aged, ctx, down, entering, held, expiring>>
    BY <1>1 DEF HoldLeftBehind, db, procs
  <2>2. /\ up'[s] = "idle" /\ \A q \in Sids \ {s} : up'[q] = up[q] /\ moved'[q] = moved[q]
        /\ \A n \in Members : timer'[n] = IF n = moved[s][2] THEN "set" ELSE timer[n]
    BY <2>1 DEF Orderly, Sockets, TypeOK
  <2>3. \A n \in Members : HoldPending(n) => HoldPending(n)' \/ timer'[n] = "set"
    BY <2>1, <2>2 DEF HoldPending
  <2>4. \A n \in Members : timer'[n] = timer[n] \/ timer'[n] = "set"
    BY <2>2
  <2>5. \A n \in Members : (Occupies(n) /\ conn[n] = "disconnected" => OnTheClock(n))'
    BY <2>1, <2>3, <2>4, ClockStays
  <2>6. KeepsItsSlot'
    BY <2>1, <2>2, KeepStays DEF Occupies
  <2>7. QED
    BY <2>5, <2>6, ClockedIsTimed
<1>2. CASE HoldSlot(s)
  <2>1. /\ down' = [down EXCEPT ![s] = "idle"] /\ timer' = [timer EXCEPT ![ctx[s]] = "set"]
        /\ UNCHANGED <<status, conn, aged, ctx, up, moved, entering, held, expiring>>
    BY <1>2 DEF HoldSlot, db, procs
  <2>2. /\ \A q \in Sids \ {s} : down'[q] = down[q]
        /\ \A n \in Members : timer'[n] = IF n = ctx[s] THEN "set" ELSE timer[n]
    BY <2>1 DEF Orderly, Sockets, TypeOK
  <2>3. \A n \in Members : HoldPending(n) => HoldPending(n)' \/ timer'[n] = "set"
    BY <2>1, <2>2 DEF HoldPending
  <2>4. \A n \in Members : timer'[n] = timer[n] \/ timer'[n] = "set"
    BY <2>2
  <2>5. \A n \in Members : (Occupies(n) /\ conn[n] = "disconnected" => OnTheClock(n))'
    BY <2>1, <2>3, <2>4, ClockStays
  <2>6. KeepsItsSlot'
    BY <2>1, KeepStays DEF Occupies
  <2>7. QED
    BY <2>5, <2>6, ClockedIsTimed
<1>3. QED
  BY <1>1, <1>2

\* A step that only moves a handler on, and drops no hold.
LEMMA HandlerTimes ==
  ASSUME Orderly,
         UNCHANGED <<status, conn, aged, timer, moved, entering, held, expiring>>,
         \A q \in Sids :
           /\ up'[q] = up[q] \/ (up'[q] \in {"idle", "claim"} /\ up[q] \in {"idle", "claim"})
           /\ down[q] = "hold" => down'[q] = "hold" /\ ctx'[q] = ctx[q]
           /\ up[q] \in {"supersede", "keep", "hold"} => ctx'[q] = ctx[q]
  PROVE  KeepsItsSlot' /\ SlotIsTimed'
<1>1. \A n \in Members : HoldPending(n) => HoldPending(n)'
  BY DEF HoldPending
<1>2. \A n \in Members : (Occupies(n) /\ conn[n] = "disconnected" => OnTheClock(n))'
  BY <1>1, ClockStays
<1>3. KeepsItsSlot'
  BY KeepStays DEF Occupies
<1>4. QED
  BY <1>2, <1>3, ClockedIsTimed

LEMMA SocketTimes ==
  ASSUME Orderly, NEW s \in Sids,
         \/ \E m \in Members : Open(s, m)
         \/ RefuseConnect(s) \/ FailConnect(s) \/ FailFollowUp(s) \/ Drop(s) \/ ReadContext(s) \/ KeysExpire(s)
  PROVE  KeepsItsSlot' /\ SlotIsTimed'
<1>1. CASE \E m \in Members : Open(s, m)
  <2>1. /\ phys[s] = "none" /\ up' = [up EXCEPT ![s] = "claim"] /\ \E m : ctx' = [ctx EXCEPT ![s] = m]
        /\ UNCHANGED <<status, conn, aged, timer, moved, entering, held, expiring, down>>
    BY <1>1 DEF Open, db, redis, procs
  <2>2. up[s] = "idle" /\ down[s] = "idle"
    BY <2>1 DEF Orderly, Sockets, Unopened
  <2>3. \A q \in Sids : q = s \/ (up'[q] = up[q] /\ ctx'[q] = ctx[q])
    BY <2>1 DEF Orderly, Sockets, TypeOK
  <2>4. up'[s] = "claim"
    BY <2>1 DEF Orderly, Sockets, TypeOK
  <2>5. QED
    BY <2>1, <2>2, <2>3, <2>4, HandlerTimes
<1>2. CASE RefuseConnect(s) \/ FailConnect(s)
  <2>1. /\ up[s] = "claim" /\ up' = [up EXCEPT ![s] = "idle"]
        /\ down' = down \/ CallDisconnect(s)
        /\ UNCHANGED <<status, conn, aged, timer, moved, entering, held, expiring, ctx>>
    BY <1>2 DEF RefuseConnect, FailConnect, db, redis, procs
  <2>2. \A q \in Sids : up'[q] = IF q = s THEN "idle" ELSE up[q]
    BY <2>1 DEF Orderly, Sockets, TypeOK
  <2>3. \A q \in Sids : down[q] = "hold" => down'[q] = "hold"
    BY <2>1 DEF CallDisconnect, Orderly, Sockets, TypeOK
  <2>4. QED
    BY <2>1, <2>2, <2>3, HandlerTimes
<1>3. CASE FailFollowUp(s)
  BY <1>3 DEF FailFollowUp, Orderly
<1>4. CASE Drop(s) \/ ReadContext(s)
  <2>1. /\ UNCHANGED <<status, conn, aged, timer, moved, entering, held, expiring, ctx, up>>
        /\ \/ phys[s] = "open" /\ down' = [down EXCEPT ![s] = "read"]
           \/ down[s] = "read" /\ \E d : down' = [down EXCEPT ![s] = d]
    BY <1>4 DEF Drop, ReadContext, db, redis, procs
  <2>2. down[s] # "hold"
    BY <2>1 DEF Orderly, Sockets, OpenIsServed
  <2>3. \A q \in Sids : down[q] = "hold" => down'[q] = "hold"
    BY <2>1, <2>2 DEF Orderly, Sockets, TypeOK
  <2>4. QED
    BY <2>1, <2>3, HandlerTimes
<1>5. CASE KeysExpire(s)
  BY <1>5, HandlerTimes DEF KeysExpire, db, conns, procs
<1>6. QED
  BY <1>1, <1>2, <1>3, <1>4, <1>5

LEMMA PodTimes ==
  ASSUME Orderly, NEW p \in Pods, Die(p) \/ MarkerExpires(p)
  PROVE  KeepsItsSlot' /\ SlotIsTimed'
<1>1. UNCHANGED <<status, conn, aged, timer, moved, entering, held, expiring, ctx, up, down>>
  BY DEF Die, MarkerExpires, Orderly, db, redis, conns, procs
<1>2. QED
  BY <1>1, HandlerTimes

\* Who is disconnected by a commit is on the clock through the hold that follows it.
LEMMA DisconnectTimes ==
  ASSUME Orderly, NEW m \in Members, Undisturbed(m), Disconnects({m}), timer' = Overtaken({m}),
         UNCHANGED <<status, ctx, up>>,
         \A n \in Members : HoldPending(n) => HoldPending(n)',
         HoldPending(m)', expiring \subseteq expiring'
  PROVE  KeepsItsSlot' /\ SlotIsTimed'
<1>1. /\ \A n \in Members \ {m} : conn'[n] = conn[n] /\ timer'[n] = timer[n]
      /\ aged' = aged \ {m}
  BY DEF Disconnects, Overtaken
<1>2. \A n \in Members \ {m} : (Occupies(n) /\ conn[n] = "disconnected" => OnTheClock(n))'
  BY <1>1, ClockStays
<1>3. OnTheClock(m)'
  BY DEF OnTheClock
<1>4. \A s \in Sids : up[s] \in {"supersede", "keep"} => ctx[s] \in Members \ {m}
  BY UndisturbedFacts DEF Orderly, KeepsItsSlot
<1>5. KeepsItsSlot'
  BY <1>1, <1>4, KeepStays DEF Occupies
<1>6. QED
  BY <1>2, <1>3, <1>5, ClockedIsTimed

LEMMA ReleaseTimes ==
  ASSUME Orderly, NEW s \in Sids, Release(s)
  PROVE  KeepsItsSlot' /\ SlotIsTimed'
<1>1. UNCHANGED <<status, ctx, up, moved, entering, held, expiring>> /\ down[s] = "release"
  BY DEF Release, procs
<1>2. ctx[s] \in Members
  BY <1>1 DEF Orderly, Sockets, Unopened
<1>3. CASE IsCurrent(s)
  <2>1. /\ Undisturbed(ctx[s]) /\ Disconnects({ctx[s]}) /\ timer' = Overtaken({ctx[s]})
        /\ down' = [down EXCEPT ![s] = "hold"]
    BY <1>3 DEF Release, AfterRelease
  <2>2. down'[s] = "hold" /\ \A q \in Sids \ {s} : down'[q] = down[q]
    BY <2>1 DEF Orderly, Sockets, TypeOK
  <2>3. HoldPending(ctx[s])' /\ \A n \in Members : HoldPending(n) => HoldPending(n)'
    BY <1>1, <2>2 DEF HoldPending
  <2> DEFINE m == ctx[s]
  <2>4. ctx' = ctx
    BY <1>1
  <2>5. QED
    BY <1>1, <1>2, <2>1, <2>3, <2>4, DisconnectTimes
<1>4. CASE ~ IsCurrent(s)
  <2>1. UNCHANGED <<conn, aged, timer>> /\ down' = [down EXCEPT ![s] = "idle"]
    BY <1>4 DEF Release
  <2>2. \A q \in Sids : down[q] = "hold" => down'[q] = "hold"
    BY <1>1, <2>1 DEF Orderly, Sockets, TypeOK
  <2>3. QED
    BY <1>1, <2>1, <2>2, HandlerTimes
<1>5. QED
  BY <1>3, <1>4

LEMMA DowngradeTimes ==
  ASSUME Orderly, NEW m \in Members, Downgrade(m)
  PROVE  KeepsItsSlot' /\ SlotIsTimed'
<1>1. UNCHANGED <<status, ctx, up, moved, down, entering, expiring>>
  BY DEF Downgrade, conns
<1>2. CASE StillStale(m)
  <2>1. Undisturbed(m) /\ Disconnects({m}) /\ timer' = Overtaken({m}) /\ held' = held \cup {m}
    BY <1>2 DEF Downgrade
  <2>2. HoldPending(m)' /\ \A n \in Members : HoldPending(n) => HoldPending(n)'
    BY <1>1, <2>1 DEF HoldPending
  <2>3. QED
    BY <1>1, <2>1, <2>2, DisconnectTimes
<1>3. CASE ~ StillStale(m)
  BY <1>1, <1>3, HandlerTimes DEF Downgrade
<1>4. QED
  BY <1>2, <1>3

LEMMA NextTimes == Orderly /\ [Next]_vars => KeepsItsSlot' /\ SlotIsTimed'
<1> SUFFICES ASSUME Orderly, [Next]_vars PROVE KeepsItsSlot' /\ SlotIsTimed'
  OBVIOUS
<1>1. CASE Next
  BY <1>1, JoinTimes, HoldTimes, MemberTimes, ClaimTimes, ExpireTimes, ConnectTimes, KeepTimes, SupersedeTimes,
     SetTimes, SocketTimes, PodTimes, ReleaseTimes, DowngradeTimes DEF Next, Handle, Reconcile, Elapse
<1>2. CASE UNCHANGED vars
  BY <1>2, HandlerTimes DEF vars, db, redis, conns, procs
<1>3. QED
  BY <1>1, <1>2

\* Sockets, seats, timers and the handlers between their transactions and follow-ups stay
\* consistent, whatever connects, disconnects, sweeps and deaths interleave.
THEOREM Invariant == Spec => []IInv
<1>1. Init => IInv
  <2>1. Init => KeepsItsSlot /\ SlotIsTimed
    BY DEF Init, KeepsItsSlot, SlotIsTimed, HoldPending
  <2>2. Init => LiveIsSeated
    BY DEF Init, LiveIsSeated, Live
  <2>3. QED
    BY <2>1, <2>2, InitSockets DEF IInv, Sockets
<1>2. IInv /\ [Next]_vars => IInv'
  <2> SUFFICES ASSUME IInv, [Next]_vars PROVE IInv'
    OBVIOUS
  <2>1. Sockets' /\ LiveIsSeated'
    BY NextSockets, NextSeats DEF IInv, Sockets
  <2>2. CASE Prompt
    BY <2>1, <2>2, NextTimes DEF IInv, Sockets, Orderly
  <2>3. CASE ~ Prompt
    BY <2>1, <2>3 DEF IInv, Sockets
  <2>4. QED
    BY <2>2, <2>3
<1>3. QED
  BY <1>1, <1>2, PTL DEF Spec

\* Unless a handler is overtaken or dies between its commit and its follow-up, a slot without
\* a socket is on the clock: a timer will find its grace expired, or has.
THEOREM SlotsAreTimed == Spec => [](Prompt => SlotIsTimed)
<1>1. IInv => (Prompt => SlotIsTimed)
  BY DEF IInv
<1>2. QED
  BY <1>1, Invariant, PTL
=============================================================================
