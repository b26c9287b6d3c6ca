SPECIFICATION Spec
CONSTANTS
  Letters <- MCLetters
  Lower <- MCLower
  Words <- MCWords
  FirstWords <- MCFirstWords
  FirstInitials <- MCFirstInitials
  NewRows <- MCNewRows
  Stop = Stop
  Silent = {"s"}
  NoLetter = NoLetter
  Handlers = {h1}
  MaxMessages = 5
  MaxWords = 4
INVARIANT WordsAreUnique
CHECK_DEADLOCK FALSE
