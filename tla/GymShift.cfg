SPECIFICATION GymSpec
CONSTANTS
  ActionChunk = {1, 2}
  Call = {walk, hand_over}
  HandOver = {hand_over}
  LongReply = {long}
  Nothing = Nothing
  Budget <- MCBudget
  STUCK_REPEATS = 3
  SHIFT = 5
  CallSeconds = {0, 3}
  RefusalSeconds = {0, 2}
  FloorSeconds = 2
  Cleared = {"earnings", "delivered", "red", "blocked", "earnings_at"}
  MAX_TURNS = {0, 3}
  Horizon = {1, 3}
  MaxEpisodes = 1
INVARIANTS  BudgetStopsInTime StuckIsARow ClockEndsTheShift
  RewardsSumToTheShift FiguresAreThisShift
PROPERTIES EpisodeEnds
CHECK_DEADLOCK FALSE
