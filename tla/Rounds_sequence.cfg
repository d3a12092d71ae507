\* Two rounds in sequence, with no crash and no round closing between an upload's checks and its commit.
SPECIFICATION FairSpec
CONSTANTS
  NoPlayer = NoPlayer
  NoThread = NoThread
  Players = {a, b}
  Workers = {w1}
  Pods = {s1}
  RoundCount = 2
  MinPlayers = 2
  MaxVoided = 2
  MayLeave = {a, b}
  BadBodies = {a}
  Prompt = TRUE
  Crashes = FALSE
INVARIANTS
  VoidStreak
  SettledOnResults
PROPERTIES
  GameEnds
  PlaysInSequence
\* The room stops when its game is over.
CHECK_DEADLOCK FALSE
