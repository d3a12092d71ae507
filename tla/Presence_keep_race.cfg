\* A socket goes away while its connect handler is on its way to keep the slot.
SPECIFICATION Spec
CONSTANTS
  NoMember = NoMember
  NoSid = NoSid
  Members = {m1}
  Sids = {s1}
  Pods = {p1}
  Games = {}
  Mortal = {}
  Prompt = FALSE
INVARIANTS
  SlotIsTimed
