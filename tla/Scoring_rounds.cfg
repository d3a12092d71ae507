\* First rounds of five players (the last with fewer choices), two second rounds, reactions to two.
SPECIFICATION Spec
CONSTANTS
  Ids <- MCIds
  Departed <- MCDeparted
  JoinedAt <- MCJoinedAt
  Reactions <- MCReactions
  Order <- MCOrder
  Entries <- MCEntries
INVARIANTS
  RanksAsSpecified
  FailureCostsNothing
  BetterNeverPaysLess
  DisplayAgrees
  PodiumIsFair
  AwardIsEarned
\* The game ends.
CHECK_DEADLOCK FALSE
