SPECIFICATION FairSpec
CONSTANTS
  A1 = A1  A2 = A2  t1 = t1

  Levels = {A1, A2}
  UserLevels = {A1}
  Tasks = {t1}
  NoTask = NoTask
  Bulks <- MCBulks
  Handlers = {h1, h2}
  Nobody = Nobody
  Miss = Miss
  Threshold = 2
  MaxPosition = 2
INVARIANTS TypeOK KeysAreDistinct GhostIsShort HotTaskIsCached LevelStartsAtFirst
PROPERTY DeletedIsForgotten
