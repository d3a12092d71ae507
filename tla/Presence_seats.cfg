\* Two participants of one user, two sockets, a pod that may die in the middle of its handlers.
SPECIFICATION Spec
CONSTANTS
  NoMember = NoMember
  NoSid = NoSid
  Members = {m1, m2}
  Sids = {s1, s2}
  Pods = {p1}
  Games = {}
  Mortal = {p1}
  Prompt = FALSE
SYMMETRY Symmetry
INVARIANTS
  TypeOK
  LiveIsSeated
