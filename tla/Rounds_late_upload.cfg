\* Uploads may claim their slot after the round closed, and may turn out unusable.
SPECIFICATION Spec
CONSTANTS
  NoPlayer = NoPlayer
  NoThread = NoThread
  Players = {a, b}
  Workers = {w1, w2}
  Pods = {s1}
  RoundCount = 1
  MinPlayers = 2
  MaxVoided = 3
  MayLeave = {}
  BadBodies = {b}
  Prompt = FALSE
  Crashes = FALSE
INVARIANTS
  ScoringHasFinisher
CHECK_DEADLOCK FALSE
