\* No handler is overtaken between its commit and what it does next.
SPECIFICATION FairSpec
CONSTANTS
  NoMember = NoMember
  NoSid = NoSid
  Members = {m1}
  Sids = {s1, s2}
  Pods = {p1, p2}
  Games = {m1}
  Mortal = {p1}
  Prompt = TRUE
INVARIANTS
  SlotIsTimed
PROPERTIES
  SlotsReturn
