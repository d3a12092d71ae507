\* Four users, three seats and colours, two rooms and two requests at once.
SPECIFICATION Spec
CONSTANTS
  NoUser = NoUser
  NoRoom = NoRoom
  NoRequest = NoRequest
  u1 = u1
  r1 = r1
  Users = {u1, u2, u3, u4}
  Hosts = {u1}
  Entries <- MCEntries
  Rooms = {r1, r2}
  Requests = {q1, q2}
  Capacity = 3
  Attempts = 2
  MinPlayers = 2
  Lengths = {3, 5}
SYMMETRY Symmetry
INVARIANTS
  SeatsSound
  OneOpenRoom
  GameAsStarted
  OneVersion
