SPECIFICATION GymSpec
CONSTANTS
  ActionChunk = {1}
  Call = {walk, hand_over}
  HandOver = {hand_over}
  LongReply = {long}
  Nothing = Nothing
  Budget <- MCBudget
  STUCK_REPEATS = 3
  SHIFT = 5
  CallSeconds = {0, 3}
  RefusalSeconds = {0, 2}
  FloorSeconds = 2
  Cleared = {"earnings"}
  MAX_TURNS = {0, 3}
  Horizon = {1, 3}
  MaxEpisodes = 1
INVARIANT RewardsSumToTheShift
CHECK_DEADLOCK FALSE
