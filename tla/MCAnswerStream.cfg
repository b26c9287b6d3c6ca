SPECIFICATION FairSpec
CONSTANTS
  u1 = u1  u2 = u2  grammar = grammar  travel = travel
  Users = {u1, u2}
  Themes = {grammar, travel}
  NoTheme = NoTheme
  Answers <- MCAnswers
  Unreadable = Unreadable
  ForeignProducer = TRUE
  FirstDay = 1
  MaxDay = 3
  MaxAnswers = 3
  MaxFaults = 2
INVARIANTS TypeOK StreakIsRun ThemesAreExtremes
PROPERTIES RedeliveryChangesNothing EveryRecordIsSettled ImplementsLedger ImplementsDelivery
CHECK_DEADLOCK FALSE
