\* One round where everything may go wrong: crashes, unusable bodies, late uploads, departures.
SPECIFICATION Spec
CONSTANTS
  NoPlayer = NoPlayer
  NoThread = NoThread
  Players = {a, b, c}
  Workers = {w1, w2}
  Pods = {s1}
  RoundCount = 1
  MinPlayers = 2
  MaxVoided = 1
  MayLeave = {a, b, c}
  BadBodies = {a, b, c}
  Prompt = FALSE
  Crashes = TRUE
SYMMETRY Symmetry
INVARIANTS
  PaidOnce
  SettledIsComplete
  OneUpload
PROPERTIES
  LedgerFrozen
  FinishedIsFinal
  EarlyCloseIsCounted
\* The room stops when its game is over.
CHECK_DEADLOCK FALSE
