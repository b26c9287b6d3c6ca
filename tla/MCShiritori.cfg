SPECIFICATION Spec
CONSTANTS
  Letters <- MCLetters
  Lower <- MCLower
  Words <- MCWords
  FirstWords <- MCFirstWords
  FirstInitials <- MCFirstInitials
  NewRows <- MCNewRows
  Stop = Stop
  Silent = {"s"}
  NoLetter = NoLetter
  Handlers = {h1, h2}
  MaxMessages = 5
  MaxWords = 4
INVARIANTS TypeOK CountsAgree SessionIsAGame BotPlaysByTheRules
PROPERTIES StopIsFinal ImplementsGame
CHECK_DEADLOCK FALSE
