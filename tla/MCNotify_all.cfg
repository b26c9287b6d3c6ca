SPECIFICATION Spec
CONSTANTS
  Tables <- MCLarge
  Chats <- MCChats
  NewChats <- MCNewChats
  MaxId = 3
  PageSize = 2
  BatchSize = 2
  MaxInt32 = 3
  HoursPerDay = 3
  FirstHour = 4
  Slots <- MCSlots
  MaxHour = 6
  MaxRecords = 3
  MaxFaults = 1
CHECK_DEADLOCK FALSE
INVARIANT PassReachesAll
